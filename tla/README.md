# Aruba Session Tracker: a TLA+ model

Aruba Session Tracker is a Windows desktop program. It looks up a wireless
client on an Aruba mobility master, fetches the client's datapath sessions from
the managed devices over SSH, compares successive polls into flow events
(started, missed, closed, moved to another controller) and keeps everything in a
local SQLite history with Raw output files beside it. What is hard in it is not
the parsing. It is that a poll, a stop, a network change, an operator's answer
and a closing window meet in any order, and that a result has to become durable
in a database *and* in files while the process may die between any two steps.

This directory models those parts. Paths below are relative to
`src/src/aruba_session_tracker/` unless they begin with `tests/` or `tools/`
(both below `src/`).

## 1. Inventory

| Component | State it keeps | Operations | Modelled by |
|---|---|---|---|
| Poll persistence, `storage/session_store.py` | tables `runs`, `poll_commits` and rows; Raw files; `.operations` manifests; staging directories; run, operation and maintenance leases | `start_run`, `record_poll_batch`, `finish_run`, `initialize` (recovery, abandoned runs), `close` | `PollStore`, `PollLog` |
| History deletion, `storage/session_store.py` | previews, delete manifests, files set aside, rows | `preview_delete`, `discard_delete_preview`, `delete`, recovery | `ManagedFiles`, `DeleteHistory`, `HistoryFiles` |
| Exports, `storage/session_store.py` | export manifests, staged files, backups, rows, receipts, ownership records outside | `export_run_csv`, `export_run_html` (managed and external), recovery at start and later | `ManagedFiles`, `ExportFile`, `HistoryFiles` |
| Storage health, `storage/session_store.py` | cached counts of files without a row, maintenance lease | `reconcile_storage_health`, adjustments by `delete` | `StorageReconcile` |
| Durable replacement, `storage/durable_io.py` | captured states of source, destination and directories | `replace_with_retry` | `DurableReplace` |
| Runtime executor, `runtime.py` | attached monitor, its identity, poll lease, poll in doubt, request to stop, queued run ends | `execute`, `stop_monitor` | `RuntimeExecutor` |
| Shutdown coordination, `ui/shutdown.py` | requested, thread, grace period, restart required | `request`, `reset`, grace expiry | `RuntimeExecutor` (the window's actions), `Window` |
| Monitor engine, `services/monitoring.py` | sessions per flow, location and its epoch, prepared poll, backoff | `poll`, `prepare`, `commit`, `discard`, `invalidate_location` | `MonitorEngine`; its hand-over to the runtime also in `RuntimeExecutor` |
| Tracker query, `services/tracker.py` | one query's budget, locations, results of each controller | `query_once` | `TrackerQuery` |
| SSH pool and collector, `collectors/ssh.py` | pool entries and their locks, leases, watchdogs, cancellation token and callbacks | `collect`, `connect`, `invalidate`, `close`, `cancel`, `abort` | `MonitorPool` |
| Host keys, `collectors/ssh.py` | `known_hosts`, shared by processes; the keys a process has read | `connect` (snapshot, probe, approval, reload, save, dial) | `KnownHosts` |
| Approvals, `ui/main_window.py` 445-678, `collectors/ssh.py` 223-291 | pending request, dialog, answer | request, answer, dismissal, shutdown | `Window`, `KnownHosts` (the answer that comes too late), `TrackerQuery` (a scan is agreed to) |
| Main window, `ui/main_window.py` | query, storage, history and finalization tasks, monitoring timer, previews, modal boxes, closing | start, stop, discontinuity, handlers of all signals, close | `Window` |
| Result table, `ui/main_window.py` | rows shown and still to come, filter, selection, counters of the last outcome | show an outcome, render a chunk, filter, select | `ResultTable` |
| Parsers, `parsers/*.py` | - | what of a reply is accepted, and as which rows | `TableReadings`, `DeviceTables` |
| Offline import, `offline/io.py`, `offline/parser.py` | the file's state when it was opened, the lines read | read, parse, cancel | `OfflineReport` |
| Start, single instance, session mark, `main.py`, `single_instance.py`, `ui/startup.py`, `observability.py` | guard, session mark | start, clean exit, crash | `AppSession` |
| Release automation, `tools/continuous_release_state.py`, `tools/publish_continuous.ps1` | releases, assets, markers and the tag on GitHub; a run's copy of them | `next_action` and what the script does about it | `ContinuousRelease` |
| Configuration, report contents, layout, release verification, SBOM, packaging | - | - | not modelled, section 8 |

How they interact. The window starts one query thread at a time; it calls
`RuntimeExecutor.execute`, which asks the monitor engine to *prepare* a poll,
gives the prepared result to `SessionStore.record_poll_batch`, and *commits* or
*discards* it in the engine according to the outcome. The engine calls the
tracker, the tracker the SSH pool, and the pool may ask the operator (through
`ApprovalBridge`) from within the query thread. A stop runs in a thread of its
own and meets the query thread in `RuntimeExecutor`. A network change or resume
cancels the poll in flight and invalidates the engine's location. Several
processes may have one data directory open (`tests/test_storage.py:474`,
`:2321`; the single-instance mutex is per user session), so all durable state
is shared between processes and guarded by advisory file locks.

What makes it correct, part by part:

- store: a poll is visible whole or not at all, a reported outcome stays true,
  nothing is left on disk that no manifest accounts for; no file of the history
  is lost that was not confirmed for deletion or replaced by a recorded report;
  what is counted as orphaned is orphaned;
- executor: a poll whose outcome is unknown is never forgotten and never
  recorded under a second ID, every started run is ended, a stop stops;
- engine and tracker: absence counts only when it was observed with authority, a
  discarded poll leaves no trace;
- SSH: no connection is lost while the pool is emptied under it, a cancelled
  poll is woken, only approved host keys are written and known ones stay;
- window: monitoring goes on until it is stopped, no dialog outlives its
  question, a clean exit leaves nothing at work, closing ends, the table shows
  one outcome;
- inputs: a part of a table is never taken for the whole;
- sessions and releases: an unclean end is reported, what is published is whole
  and never goes back.

The hazards - what can go wrong and a test would hardly reach - are listed, each
at its line with the properties that cover it, in `PROJECT.json`.

## 2. Modules

| Module | What it is |
|---|---|
| `PollLog` | The abstract promise of the store: runs and an append-only log of polls, no files, no crashes. |
| `PollStore` | `record_poll_batch`, runs and `initialize()` step by step, with crashes, failing calls and several processes. |
| `PollStoreProofs` | Its type correctness and inductive invariants, and from them atomicity, recoverability, the reports, the refinement of `PollLog`, and what holds for a process that is alone. |
| `ManagedFiles` | Rows, files, manifests and leases that deletions and exports share. |
| `DeleteHistory`, `ExportFile` | EXTEND it with `preview_delete`/`delete` and with the two exports, each with its recovery. |
| `HistoryFiles` | Composes the two with crash, start and the order of recovery. |
| `HistoryInvariants`, `HistoryFilesProofs` | Its two inductive invariants, one that always holds and one that holds as long as there were only crashes; from them type correctness and all of its safety properties. |
| `StorageReconcile` | The count of files without a row while polls are stored. |
| `DurableReplace` | One file replaced by another while other programs hold and change them. |
| `RuntimeExecutor`, `RuntimeProofs` | `execute()` and `stop_monitor()` as two threads over one monitor, the store (as `PollLog` promises it) and the window; its inductive invariant and its safety properties. |
| `TrackerQuery` | One `query_once`: the mobility master (MM), routing, scan approval, the devices (MDs), authority, the observation budget. |
| `MonitorEngine` | The monitor's state across polls, on top of `TrackerQuery`: flows, absence, controller moves, location, backoff. |
| `MonitorProofs` | Its type correctness, its inductive invariant and all of its safety properties. |
| `MonitorPool`, `MonitorPoolProofs` | Connections kept from poll to poll, leases, watchdogs, cancellation; who owns a connection, proved. |
| `KnownHosts` | Host keys of several processes in one file. |
| `InputsProofs` | The invariants and properties of `KnownHosts`, `DurableReplace` and `StorageReconcile`. |
| `TableReadings`, `DeviceTables`, `OfflineReport` | How tables are read; replies that arrive damaged or too early; a capture file that changes while it is read. |
| `Window`, `WindowProofs` | The window's thread and the threads it starts; its inductive invariant and its safety properties. |
| `ResultTable` | The table of results, rendered in chunks. |
| `AppSession` | Processes of the program one after the other. |
| `ContinuousRelease` | The release workflow and GitHub. |
| `RunsProofs` | The invariants and properties of `ResultTable`, `AppSession` and `ContinuousRelease`. |
| `MC...` | Constants for TLC. `MCInputs` and `MCRuns` hold several parts. |

### PollStore

State. `runStatus`, `receipt`, `rows`, `manifest`, `staged`, `dest` are durable:
the `runs` table, `poll_commits.payload_sha256`, how often the rows of a poll
were inserted, the manifest of a poll ID with its phase, and its Raw file in
staging and at its final path. `runLease`, `opLease`, `maintenance` are the
advisory locks; they are free as soon as their process dies. The rest is one
process: where `initialize()` stands (`proc`), which runs it owns, where its
`record_poll_batch` stands (`pc`, `job`, `body`), what start-up listed and has
not visited (`todo`, `abandoned`), and what callers were told (`told`).

Granularity. One action is one durable effect, one lock operation or one read
whose result is used later. `Begin`, `LookForManifest`, `LoadManifest`,
`TidyOldStaging`, `DropOldManifest`, `LookForReceipt`, `WriteManifest`,
`StageRaw`, `InstallRaw`, `MarkInstalled`, `CommitApplied`, `CommitRefused`,
`ProbeReceipt`, `MarkCommitted`, `TidyStaging`, `ReleaseOperation`,
`UnlinkManifest` is the successful path in the order of the code;
`FailBeforeManifest`, `FailAfterManifest`, `UndoRaw`, `UndoStaging`,
`UndoManifest`, `UndoFails` is what happens when something raises.
`CommitApplied` may lose its acknowledgement, and `ProbeReceipt` then looks for
the receipt. `EnterRecovery` ... `InterruptAbandoned` is `initialize()`.

Abstractions. A poll has at most one Raw file, for several snapshots are bundled
into one; a Raw file is identified by its poll and payload, fresh file names of
several attempts are not told apart; an empty staging directory counts as none;
temporary manifest files are below the granularity; capacity checks and file
fingerprints are left out. A busy database is asked up to `Attempts` times
(`BusyAgain`, counted in `tries`; three in the code,
`_POLL_COMMIT_RETRY_DELAYS`), by the commit, by the two looks for a receipt before
it and by the probe after it; being busy costs no fault. A commit tried again after its
acknowledgement was lost finds its own receipt. What start-up reads of a receipt is one
step, for when it fails the start fails. One `record_poll_batch` runs at a time in a
process (`_lock`), but its
rollback runs outside `_lock`, so runs may start and end during it. A lease is
the operating system's lock. A call of `initialize()` that raises, other than by
failing closed, is `Crash`.

### RuntimeExecutor

State. The store (run rows, owned runs, recorded polls, polls whose last record
was indeterminate), the engine's prepared and applied polls, the fields of
`RuntimeExecutor` under their own names without underscores, the window's
`asked` and `restartRequired`, and the two threads with their locals.

Granularity. A block under `RuntimeExecutor._lock` is one action, a call of the
store is one action and may fail with or without having been applied. Between
them the other thread runs.

Abstractions. A monitor is never attached twice, so its run ID stands for the
monitor and its generation. The one-shot flags follow from there being one query
thread. How a run ended (STOPPED, FAILED...) is abstracted to "ended". A
cancelled token changes what a poll finds, not the steps modelled here.
`close_connections` is taken not to raise. `invalidate_monitor_location` only
touches the engine and is in `MonitorEngine`.

### TrackerQuery and MonitorEngine

State. `TrackerQuery` is one query: the phase it is in, the locations it works
with (`at`), the devices of an earlier scan (`scan`), the devices still to ask
and those whose answer was taken over, the observations, the budget used,
whether the result is authoritative and whether a transient failure was met.
`MonitorEngine` EXTENDS it with the committed state (`active`, `location`,
`fallback`, `epoch`, `failures`), the poll being prepared (`begun`,
`newLocation`, `newFallback`, `first`) and two records of what controllers and
MM said, which only properties read (`shows`, `relocated`).

Actions. `Prepare` is `_prepare_for_persistence` up to the query; `Query` the
steps of `query_once`: `Locate`, `FailOver`, `NoLocation`, `ChooseRoute`,
`ScanApproved`, `ScanRefused`, `DeviceAnswers`, `DeviceFails`; `AskAgain` is the
second query when a flow is about to be missed twice; `Calculate` freezes the
result, and `Commit` or `Discard` ends the poll. `_apply_observations` is the
operators `Absent`, `Closed`, `Changed`, `NextSession`, whose value is the same
when the poll is prepared and when it is committed: only one poll is prepared at
a time and nothing else changes the flows. `Invalidate` may come between any two
steps.

Abstractions. What MM and devices answer is free at each question, so the network
may change within a poll. An observation is a flow on a device; counters, flags,
the representative observation and the displayed count of consecutive misses are
data. The order of the devices is free (a scan rotates them). A device's failure
either continues or ends the query and is transient or not; the Raw budget and
the share of the deadline each device gets are failures that may strike at any
device. The enabled devices are fixed and have unique hosts (`models.py:318`), so
a required device is always found, and an answer that `_device_for_location`
cannot map to exactly one device is "unmapped". Of a location the code keeps
None for "not found" as for "ambiguous"; the model keeps the answer, with the
epoch it was `born` in and whether a scan was `agreed` to, so that properties can
speak of them, and uses no more of it than the code does. `failures` saturates
at the length of the backoff table, beyond which it makes no difference. Time is
the free choice whether the location interval is over. The engine's own thread
(`run`, `start`, `stop`) is not used by the program.

Two designs that look like errors are modelled as they are: the second query of
a poll supersedes what the first saw of a flow (`_merge_outcomes`), and a poll
over the limit drops the flows it did not show without reporting an end.

### ManagedFiles, DeleteHistory, ExportFile, HistoryFiles

State. `rows` (which run and which content a row describes), `receipts` and
`manifest` are the database and `.operations`; `here` says what each path holds,
`aside` what a deletion has moved into its staging directory, `owners` the
ownership records in foreign directories. The content of a file is the number of
the operation that wrote it, so that a restored old report and a new one are
told apart. `maintenance` is the lease, `pending` the previews, `del` and `exp`
the call at work, `rec` the start. `owed` is a history variable: what each path
ought to hold, that is the last content that was there and has been neither
confirmed for deletion nor replaced by a recorded report; `doubted` are paths for
which the database's answer was lost. What a deletion confirms (`Shown`) is a file
as it was shown, or the backup of it that was shown, or a file that was shown
while a deletion, this one or an earlier one that was cut short, held aside
what is owed.

Actions. Deleting: `Preview`, `Confirm`, `Check` (the snapshot again), `Stage`
file by file, `Commit` or `CommitInDoubt`, `Purge` file by file, and `Restore`
for everything that fails before. Exporting: `ExportBegins` ... `Install`,
`Mark`, `Record` or `RecordInDoubt`, `Clean`, and `RollBack` file by file. The
start: `NextDelete`, `Reconcile`, `DeletesDone`, then `RecoverExport`,
`RecoverRaw`, or `Postpone` when the outside drive is not there. `Crash` is
possible anywhere, `Detach` and `Attach` are the drive. The same recovery runs
when the operator retries exports that were waiting for the drive; if it
fails, those whose manifests are still there wait again (`StillWaiting`).

Abstractions. One operation works at a time (the maintenance lease); the start of
a second process therefore waits. CSV and HTML differ in content only.
`MaxTrouble` bounds crashes, failed file operations, lost answers and losses of
the drive together. Not in it: users who change files outside, temporary files
of atomic writes, artifacts of earlier versions (`session_store.py:3198-3261`).

Observations, none of them contradicting a comment of the code except the
finding in section 7. A lost answer to the commit of a deletion restores the
files, which are then without rows; a lost answer to a managed export leaves a
new row beside the old file (`doubted`). An export whose clean-up failed leaves
its manifest behind as DB_COMMITTED; deleting its run, or exporting to the same
path again in that session, makes the next start refuse (`:2969`). The same
happens when the outside drive is lost during an export and the path is exported
again before the first is undone (`overtaken`). `_release_run_lease` unlocks
before it unlinks, which on POSIX leaves a window for a second holder; Windows
does not.

### StorageReconcile

State. `place`, `named` and `touched` are files, rows and whether the directory
has changed since it was looked at; `poll` is the batch each of two processes is
storing; `recon` is where `reconcile_storage_health()` stands and what it has
read. A walk visits the directories in any order, so a file that moves may be
seen twice or not at all; a file that is gone when its size is asked for makes
the call raise. The two values the code compares are read in two steps, the last
time too: `_lock` keeps the polls of this process away then, and not those of
another (`RegisteredUnderLock`, `KeepResult`).

What is kept can still be off by a file that another process is storing, whose
lock is not ours, and by one that a failed poll has left or removed meanwhile:
`OrphansAreCounted` says exactly that. `delete()` adjusts the counters after it
has given back its leases; this is harmless because the window does not
reconcile during a storage task (`ui/main_window.py:2828-2836`).

### DurableReplace

Files are numbers of editions; identity, size, time and hash are compared
together. Each look at a file is two steps, before and after hashing. Other
programs `Hold`, `LetGo` and `Write` at any moment. On Windows an access that is
denied is tried again, elsewhere raised. `Replace` validates source, directories
and destination before every attempt and not only the first.

### MonitorPool

State. `entries`, `managed`, `busy` and `closed` are the pool under its lock;
`conn`, `token` and `watch` are each connection's life, trust token and armed
deadline; `lease`, `fresh`, `guard`, `registered` are what the polling thread has
in its hands; `aborting`, `emptying` and `doomed` are the other threads between
two of their blocks.

Actions follow `collect()`: `PollBegins`, `Enter`, `Reuse` or `Replace`, `Opened`,
`Enabled`, `Publish`, `Hold`, `Arm`, `Send`, `Read`, `Retry`, `Exit`; each may be
interrupted. `Cancel`, `Expire`, `GuardFires`, `AbortTakes`, `AbortShuts`,
`WatchdogFires`, `Empty`, `EmptyTakes`, `EmptyShuts` are the others.

Observations. A cancellation between the last check of `connect()` and
`self._managed = replacement` of a retry (`ssh.py:1796`) finds nothing to abort;
the read then lasts until the deadline at most. `CancelWakes` excepts exactly
this, `PollsEnd` shows the bound. A late `abort()` of an earlier lease may shut
the next lease's connection, which costs a retry. `pool.close()` may come at any
time here, though the window calls it at the end only.

### KnownHosts

`file` is known_hosts, `holder` its lock (thread lock and file lock, taken
together). `stage`, `target`, `offered`, `loaded`, `prompt`, `inTime` are one
connecting thread per process. The steps are `Snapshot`, `Probe`, `Verify`,
`TakeAnswer`, `Reload`, `Save` or `SaveFails`, `Dial`; `Interrupt` (cancellation
or deadline) is looked at where the code does. What the network offers and what
the operator answers, and when, is free.

### TableReadings, DeviceTables, OfflineReport

A reply is a sequence of lines of some kind (title, header, rule, row, count,
prompt, echoed command ...); a reading is the rows or a refusal. `DeviceTables`
lets a reply be read at any time, and damages it in one place at most: a line is
lost, doubled or cut off, or a foreign one comes in (`LineLost`, `LineDoubled`,
`LineCutOff`, `ForeignLine`). What a line without its end is taken for is `CutForms`:
the parsers slice by columns or white space, so it often remains a line of the table.
A row of `show switches` is counted by its address and dropped when its Type is
empty, a users row may name another Current switch, a header may have lost what comes
after "Type", a count its last digits. `NeverMisread` says exactly how far this
goes: sessions are read as they are or refused, and only a line cut off *within* a
reply may show one user at another switch, or hide managed devices
(`CutReadings`); an early end of the read may not. Two damages can make
up for each other (a lost row and a doubled one), which a count cannot notice; they are
outside the model. `OfflineReport` reads a file in chunks while its writer goes
on or saves another capture over it, and checks size and time afterwards.
Columns, addresses and flags within a row are the row's key. One thing to know:
cancelling while an optional table is parsed is caught by the handler for a
damaged table (`offline/parser.py:160-193`), so the result says UNAVAILABLE
instead of being cancelled; the model has it so.

### Window

The window's thread is the record `s`; a handler is one step and its helpers are
operators on `s` applied in the order of the code. Other threads speak to it
through `inbox` (queued Qt signals) and through the approval request, whose locked
sections are steps of their own. A modal box runs the event loop inside its
handler; what remains of the handler is the step that answers the box.

Observations. When the grace period of closing is over, threads still at work are
daemons and die with the process, and the next start recovers. A fatal failure
that coincides with a network change is taken for the change and retried. A
preview that could not be given back is not tried again. The second check of
`_show_request` cannot fail. Each query asks at most once, a bound.

### ResultTable

`rows` is the outcome shown last, `table` and `pending` the rows inserted and
still to come, `hidden`, `filter`, `current`, `raw` and `caption` what the user
sees. `dialog` is an open filter dialog, under which ticks and outcomes go on.
Two details of the code are modelled as they are: a session found closed is
shown beside others still active, but not when it was the last one
(`main_window.py:3822`); a cancelled query whose failure arrives while the
filter hides all rows hides the notice that no row matches (`:2658`).

### AppSession

Two processes share guard and mark. A write of the mark that fails may have changed
it, for `_write_state` looks at the paths again after `os.replace`
(`observability.py:236`); so a session may be reported as unclean although it ended
well, but only if its mark could not be written. `StartupTimesOut` gives the guard
back while the loading thread may still work on the store (`main.py:150`); the
store's own leases are what protects it then. A mark that cannot be read counts
as clean. Crashes are `Ends` from anywhere. The journal's entries and their rotation
are left out: `record()` swallows whatever fails in it, and nothing in the program
reads the entries back.

### ContinuousRelease

`releases` and `tag` are GitHub's, `run` and `pc` belong to the script. Every
call may fail, or be carried out while its answer is lost; a run may be killed
between two calls and another started for the same or another commit. A request
is not delayed past the end of its run, the concurrency group admits one run at
a time, an asset's name, size and digest are the build it is of. Reading the tag
and reading main in `publish` are one step; `verify_rollback` is not used by the
script and left out.

## 3. Runs

| Run | Instance | What it shows |
|---|---|---|
| `poll_store_one` | 1 process, 2 runs, 2 polls, 2 payloads (one with Raw output), 2 faults | A Raw file no receipt accounts for is always named by a manifest; a process that comes up has reconciled everything; every call returns, however often the database is busy. |
| `poll_store_two` | 2 processes, 1 run, 1 poll, 1 payload with Raw output, 3 faults | Every report stays true; recovery never meets a state it must refuse; only runs without an owner are interrupted; start-up ends; `PollStore` implements `PollLog`. |
| `runtime_executor` | 2 runs, 3 polls, 2 identities, 2 faults | Nothing in doubt is forgotten or recorded twice; every owned run has a keeper; the engine agrees with the database; a stop that met a poll is carried out; both calls return. |
| `monitor_moves` | 1 address, 2 devices, 2 flows, 2 observations, no network change, closing after 2 misses | Evidence of a controller outlives failed and partial polls; absence and moves rest on answers of all who showed the flow. |
| `monitor_limits` | 2 addresses, 1 device, 2 flows, 1 observation, 1 network change, closing after 3 misses | Cached locations are current whenever a network change strikes; a flow that is gone is closed. |
| `monitor_pool` | 1 target, a pool of 1, 2 entries, 2 connections, 2 polls, emptied once, 1 change of trust | No connection is lost; a cancelled poll is woken; every poll ends though no device need answer. |
| `window` | 1 preview, 2 queries, 2 storage tasks, 2 history readings, 1 network change | Monitoring is scheduled until stopped; dialogs follow their requests; a clean exit leaves nothing; closing ends. |
| `history_files` | 1 run with 1 Raw file, 1 report path inside, 1 outside (empty at first), 2 operations, 2 troubles, 1 preview | No file is lost; at rest rows and files agree; a crash never blocks the start but for two named cases. |
| `inputs` | `KnownHosts` 2 processes, 2 hosts, 2 algorithms; tables of up to 4 rows (limit 3), damaged in 1 place; a file of up to 18 lines in chunks of 4, 2 captures; `DurableReplace` 3 tries, 3 writes, 3 holds; `StorageReconcile` 2 files, 2 calls, 1 deletion | Only approved keys are added and known keys stay; of replies and captures no part is taken for the whole; what is overwritten was looked at; what is counted as orphaned is. |
| `successive_runs` | `AppSession` 2 processes, 4 sessions, 2 failures; `ResultTable` 2 flows, 2 rows, chunks of 1, 2 runs, 2 outcomes; `ContinuousRelease` 3 commits, 2 builds, 2 release numbers, 4 runs, 3 faults, 12 actions | An unclean end is reported; the table is one outcome and growth is since the row shown before; what is public is whole, clean runs converge, the tag moves forward. |
| `history_stuck`, `monitor_partial` | 1 operation's trouble; 1 address, 2 devices, 1 flow | the findings of section 7 |

`MCInputs` and `MCRuns` are disjoint sums: the parts share no state, a behaviour
is one of one part while the others rest in one fixed initial state, and the
constant `Parts` selects them. They are put together because each is small.

Every property of a passing run has a mutant: an operator in the module, among
the "plausible mistakes" or with a comment that begins with MISTAKE, that
replaces one definition and with which TLC finds that property violated.

Deadlock is checked for `PollStore` and `MonitorEngine`. The other models stop
when their bounded calls are used up, when the window is closed or demands a
restart, or when a file has been read or published.

The modules state further properties that held when they were model-checked but
belong to no run now: `TypeOK` of all modules; `PublishedWhole`,
`ClosedOnlyAfterRelocation`, `BackoffReportsNoAbsence`, `ActiveBounded` and
`ScansAreAgreed`, which are proved (section 5); `CommittedLeavesNothing`,
`PendingIsCurrent`, `QueuedEndsCanSucceed`, `RevokedNotReused`. `WholeTablesAreRead` is
a conjunct of
`NeverMisread`.

### Bounds and why they are enough

`PollStore`. The interesting behaviours of one poll need at most three faults
(an applied commit whose acknowledgement is lost, a failed clean-up, a crash) and
two processes, of which one recovers while the other writes. Two polls with
different payloads under one process show that manifests and receipts of
different polls do not get in each other's way and that a retry with another
payload is refused. Two processes with two polls are not run: polls share
only `todo` and the maintenance lease. `Attempts` is the code's own number, three.

`RuntimeExecutor`. A new query starts only while there are two fresh poll IDs and
a fresh run: three polls and two runs allow a poll in doubt, its retry, another
poll and a monitor replaced by one with another identity. Two faults allow a
record in doubt whose retry fails, or a record in doubt and an end that fails.

`MonitorEngine`. Two devices and two flows are what a move, a partial answer and
a second flow that masks the first need; closing after 2 misses is the smallest
the configuration admits, after 3 there is a miss that is neither the second nor
the last. With one observation and two flows polls exceed the limit; two
addresses give partial and conflicting locations. One network change at any step
distinguishes a poll begun before from one begun after it. All safety properties
of these runs are also proved without bounds.

`MonitorPool`. Two polls let a connection be reused, replaced, or met by a late
abort of the first; a second entry of the same endpoint appears when the pool is
emptied in between. Two troubles in `HistoryFiles` are a failure and the crash in
its clean-up, two operations an export over an export or a deletion of what was
just exported. In `Window`, two queries let the second start while the signals of
the first are queued. Two processes of `KnownHosts` ask about the same host, or
write different ones. In `StorageReconcile` one file is counted while the other
process moves or undoes another; the second call follows a first result. In
`AppSession` two failures let the write of a mark fail in the session after one that
could not write its own. A reply damaged in one place is what the parsers' checks
are for, and the place, the kind and every form of a cut line are free. Three
commits and four runs let an old run be started again after a newer one, with
faults in both.

## 4. Fairness

`PollStore`: weak fairness of each process's `RecordStep` and `StartupStep`. A
call that has begun keeps running unless its process dies. That its retries end is
not assumed: the database may be busy at every attempt. Nothing is assumed of callers:
no user has to start,
close or restart anything.

`RuntimeExecutor`: weak fairness of the query thread and of the stop thread. A
poll has a deadline (`PollDeadline`), and the store's calls return, which is the
property `CallsReturn` of `PollStore`. The window is not fair: the user may never
do anything again.

`MonitorEngine`: none. `GoneFlowsAreClosed` carries its premises itself: polls
keep being committed, and from some point on they are authoritative and do not
show the flow. The user and the network may refuse both for ever.

`MonitorPool`: weak fairness of the polling thread's own steps and of time, of
watchdogs and of threads that have begun to abort. Nothing ends a read but an
answer or somebody shutting the connection, and no answer has to come: that every
poll ends is what the watchdogs are there for.

`Window`: weak fairness of the event loop (`HandleSignal`, `ShowRequest`,
`PostedClose`) and of the grace timer. No other thread has to end.

The other modules have safety properties only.

## 5. Proofs

All of this is proved by TLAPS to the last step.

### PollStore

For every number of processes, runs, polls and payloads and every
number of faults, from `PollStoreAssumption` (Raw payloads are payloads, the
markers are not values, there is a poll and a payload):

| Theorem | Statement |
|---|---|
| `PollStoreProofs!Typing` | `Spec => []TypeOK` |
| `PollStoreProofs!Invariance` | `Spec => []StoreInv` |
| `PollStoreProofs!NeverTorn` | `Spec => []PublishedWhole` |
| `PollStoreProofs!NothingRefused` | `Spec => []NothingToRefuse` |
| `PollStoreProofs!Refinement` | `Spec => LogSpec` |
| `PollStoreProofs!ReportInvariance` | `Spec => []ReportInv` |
| `PollStoreProofs!ReportsStayTrue` | `Spec => []ReportsAreTrue` |
| `PollStoreProofs!RunsEndWithOwners` | `Spec => OnlyAbandonedInterrupted` |
| `PollStoreProofs!LeftoversStayAnchored` | for one process: `Spec => []LeftoversAnchored` |
| `PollStoreProofs!StartsReconciled` | for one process: `Spec => UpMeansReconciled` |

The argument. `PublishedWhole` (a receipt comes with exactly one set of rows and
with its Raw file, no receipt with no rows) is not inductive. A rollback may only
remove a Raw file because no receipt exists for it, and the commit may only be
applied once the Raw file is installed: that is knowledge of a process about a
shared state which another process could change. Hence three more conjuncts.
`HoldsLease`: whoever works on a poll, in any step from reading its manifest to
releasing, holds the poll's operation lease; so at most one process does.
`OnCourse`: what a call that has come to this step may rely on, for example that
there is no receipt while it rolls back, that the Raw file is in place and the
manifest says INSTALLED, or is gone, before the commit, and that a receipt found
by a commit that is tried again is its own. `ManifestHonest`: a
manifest without a receipt is not DB_COMMITTED, and one with a receipt names the
same payload and is not PREPARED; this is what keeps recovery from having to
refuse. The manifest may be *gone* under a working call (finding 3), so no
conjunct claims that it is there; that none is needed for atomicity is what the
proof shows. `NothingToRefuse` then needs one step more: a process is "corrupt"
only through a manifest `Corrupt` describes, which `ManifestHonest` excludes.
The refinement maps a poll to its receipt, to "torn" when it is not whole; with
`StoreInv` nothing is torn, and only `CommitApplied` changes the map.

What a caller was told is about the past, and another process might have written
the receipt since. `ReportInv` says why none has: a run is opened once
(`BegunOnce`), by a process that keeps its lease as long as it owns the run
(`OwnersLease`), and polls are recorded by the owner of their run only; so
whoever called for a poll knows of every receipt of it (`ReceiptsKnown`,
`Recorded`). The same lease is why start-up interrupts no run that is open.

`LeftoversAnchored` does not hold of two processes (finding 3), and
`UpMeansReconciled` is about a directory nobody else writes to. Both theorems
therefore assume `\A x, y \in Proc : x = y`, the constants of the run
`poll_store_one`, and `OneInv` adds what a process may rely on when it is alone:
it holds just the leases its call needs (`Alone`), the manifest is there and what a
step is to remove is gone after it (`Tidied`), whatever lies on disk is named by
the receipt or by the manifest (`Accounted`), and start-up has still to visit all
it has not dealt with (`Visited`). Crashes, failures and restarts are all in.

### RuntimeExecutor

For any number of runs, polls, identities and failures, from `RuntimeAssumption`
(`None` is no run, poll, identity or thread):

| Theorem of `RuntimeProofs` | Statement |
|---|---|
| `RuntimeInvariance` | `Spec => []RuntimeInv` |
| `TypesHold` | `Spec => []TypeOK` |
| `DoubtsAreHeld`, `DoubtIsCurrent` | `Spec => []NothingInDoubtForgotten`, `[]PendingIsCurrent` |
| `RunsAreKept`, `EndsCanSucceed` | `Spec => []EveryRunHasAKeeper`, `[]QueuedEndsCanSucceed` |
| `EngineKnows` | `Spec => []EngineKnowsWhatIsRecorded` |

The argument. None of the five is inductive. That no run is forgotten needs that
no run has *two* keepers, for otherwise the first end gives the lease back and the
second fails for ever: `KeepersOwn` and `KeepersDiffer` say that the monitor's run,
the run in doubt, the run just opened, the queued runs and those the threads are
ending are open and different, and `PassesMatch` that only the owner of
`_finish_retry_lock` ends a queued one. Ending a run is a hand-over from one
keeper to a thread; the lemma `HandOver` treats all eight places where it happens.
That no doubt is forgotten rests on the lease: `LeaseMatches` says which thread
has it at which stage, and so that a stop neither detaches the monitor nor
resolves its poll while `execute()` works on it. `PendingHeld` then says that the
poll in doubt is the attached monitor's, still prepared and not applied, and
`PollIsNew` that a new poll is begun only when none is in doubt. `RuntimeInv` was
checked by TLC first, also with three runs, four polls and three failures.

### MonitorEngine

For every set of addresses, devices and flows, every limit on observations, every
`close_after_misses` of at least two (`models.py:134`) and any number of network
changes, from `TrackerAssumption` (devices and flows are finite, device names
are not answers), `MonitorAssumption` and `NoneAssumption` (`None` is no
location, session or first query):

| Theorem of `MonitorProofs` | Statement |
|---|---|
| `MonitorTyping` | `Spec => []TypeOK` |
| `MonitorInvariant` | `Spec => []MonitorInv` |
| `EvidenceIsKept`, `MissedRestsOnEvidence`, `ChangedRestsOnEvidence` | `Spec => []EvidenceKept`, `[]MissedOnEvidence`, `[]ChangedOnEvidence` |
| `ClosedAfterRelocation`, `BackoffIsQuiet` | `Spec => []ClosedOnlyAfterRelocation`, `[]BackoffReportsNoAbsence` |
| `LocationStaysCurrent`, `ScansStayAgreed` | `Spec => []LocationIsCurrent`, `[]ScansAreAgreed` |
| `ActiveStaysBounded` | `Spec => []ActiveBounded` |

The argument. What a poll reports is right because of what its query asked, many
steps earlier. `QueryInv` carries that knowledge: as long as a query is
authoritative, every required device is still to be asked or has answered, and
no transient failure is pending. When nothing is left to ask, an authoritative
poll has an answer of every controller that showed a live flow. `EvidenceKept`
connects this to the past: whoever showed a flow in its last answer is among the
required ones. It survives a commit because a device that did not answer makes
the poll not authoritative, and then no controller is dropped. `MissInv` says
that the second miss brings an answer of the MM, so a third finds the flow
`relocated`; it needs that there *is* a second miss, hence the assumption on
`close_after_misses`. `LocationInv` follows a location from the question to the
cache. Typing is not inductive on its own either, for a scan is noted in the
location, which has to exist by then (`QueryInv`). The bound needs `BudgetInv`: the
flows that both queries of a poll have shown fit into the budget used so far.

### HistoryFiles

For any number of runs, Raw files, reports, outside paths, operations, previews and
troubles, from `FilesAssumption` (the three sorts of file are apart, none is a
hidden file of ours; "none" and "all" are no runs) and `PendingAssumption`:

| Theorem of `HistoryFilesProofs` | Statement |
|---|---|
| `FilesInvariant` | `Spec => []FilesInv` |
| `TypesCorrect` | `Spec => []TypeOK` |
| `NothingIsLost` | `Spec => []NothingLost` |
| `RestLeavesNothing` | `Spec => []RestIsWhole` |
| `CrashInvariant` | `Spec => []CrashInv` |
| `CrashesSurvive` | `Spec => []CrashesAreSurvived` |

The argument. `NothingLost` says where a file may be that is owed to the operator,
and each step that removes or overwrites a file has its own reason why the copy
it removes is not the last one. `FilesInv` has these reasons, some thirty
conjuncts in four groups. *Numbers*: a content is the number of the operation that
wrote it, so what an export finds at its destination is older than what it
writes, and a restored old report is never taken for the new one (`FreshOps`,
`FreshFiles`, `FreshHidden`, `Unused`); nobody else has its hidden files (`Named`,
`NamedOutside`). *Exports*: at each step its files are where the step says
(`FilesAtWork`, `ManifestAtWork`), and the row or the receipt is there exactly from
the step on that records it (`Receipts`, `RowsOwed`, `RunOfRow`). This is what lets
a start tell an export that was recorded, whose backup may go, from one that was
not, whose report may. *Rows that went away*: a deletion may take the row of a report
while the report was not where it was shown, after which the report is in a
backup only and no start takes what is at the destination for it (`Unshown`,
`RowAtWork`, `OldRows`). *Deletions*: until the transaction every file aside has its
row and is as it was shown (`Deleting`); the transaction takes the row and the debt
together, so what is then aside is owed to nobody (`Purging`, `GoneRows`) and may
be purged, now or by the next start; what a start has not put back yet is still to
do (`Recovering`). One lemma per action keeps all of it; `Frames` says that a
conjunct whose variables are untouched stays. `RestIsWhole` then follows: without a
manifest nothing can be aside or in a backup, so what is owed is in its place, and
a row that is not in doubt is owed its file.

`CrashesAreSurvived` needs a second invariant: `FilesInv` says where the last copy
of a file is, not that a start makes sense of everything else it finds. And it
cannot be kept through failures of the disk or the database, after which a start
may well be stuck. `CrashInv` is therefore `CalmInv` under the condition that there
were none and no export was begun over another that was yet to be undone (`Calm`),
together with what a failed start leaves. `CalmInv` in turn: there is one deletion at
most, and beside it no export that has begun to move files (`OneDeletion`,
`OneExport`, `Apart`), for an export and a deletion take turns with the lease and a
start settles all it finds before it gives the lease away; only exports to the drive
outside wait beyond that (`WaitingOutside`). No two exports have the same
destination (`Destinations`), so each has its files to itself. A path of the
deletion is in its place or aside, and with a row it is one of them (`InOnePlace`); a
path without a row may be neither, once it is purged, and this is `HalfPurged`, the only way
left for a start to fail. An export that was cut short is to be undone
(`Undone`) or done (`Finished`), and each of the steps it has left, those of the start
included, leads from one such state to another (`Recoverable`, `Announced`). That a
row goes with its run only (`RawRows`) is what a batch of Raw output needs. TLC has checked
both invariants on the instance of `history_files` before they were proved.

The proof changed the model twice. `Shown` did not know the third case above, so
that a deletion which fails, is restored in part, and is confirmed again counted a
file as lost that the operator had seen in the list; and a retry of the recovery
forgot what was waiting when it failed, which the code does not
(`session_store.py:732-740`).

### KnownHosts

For any number of processes, hosts and algorithms, from `KnownHostsAssumption`
("nobody" is no process and no host):

| Theorem of `InputsProofs` | Statement |
|---|---|
| `KnownInvariance` | `KnownSpec => []` the inductive invariant |
| `ApprovedOnly` | `KnownSpec => OnlyApprovedKeysAdded` |
| `KnownStay` | `KnownSpec => KnownKeysStay` |

The argument. Whoever is between `Reload` and `Save` holds the lock and has read
the file as it is; so what is saved is the file and one key. And whoever has come
to `Save` has, for the host it is connecting to, found no key in it and an answer
that came in time. A second process that has asked about the same host reloads
after the first has saved, and finds the key.

### DurableReplace

For any number of tries, changes and holds:

| Theorem of `InputsProofs` | Statement |
|---|---|
| `AttemptInvariance` | `ReplaceSpec => []` the inductive invariant |
| `ChangesAreSeen` | `ReplaceSpec => OnlyTheLatestChangesAreLost` |

The argument. `lastWrite` is 0 until the first attempt and never more than the
number of the attempt in course. What an attempt has compared is still so, or
`lastWrite` is this attempt; one that is denied goes back to the start with a
higher number and relies on nothing it found before. The caller's hash makes the
captured source the staged file, so what is moved is that file, over the
destination that was captured.

### StorageReconcile

For every finite set of files, from `ReconcileAssumption` ("free" is neither of
the two processes):

| Theorem of `InputsProofs` | Statement |
|---|---|
| `ReconcileInvariance` | `ReconcileSpec => []` the inductive invariant |
| `OrphansCounted` | `ReconcileSpec => OrphansAreCounted` |

The argument. Only numbers and one revision are compared, never names. `Counted`
says what they tell. While the lease is held rows are only added, so an equal
number of named files means the same files (`registered` never exceeds it). Between the
last reading of the rows and that of the revision another process may add one more;
`rows` remembers what was named at the former, and what came after belongs to a poll
that was under way. As
long as the directory has not been touched no poll has begun or been tidied
up, so the files of polls, under way or left (`Doubtful`), only grow. Then there is
a set of files that what was sized stands for (`Stands`): each is in it once,
although a walk may find a file in both directories, because sizing it under
the first name needs that it is still there and an installed file never goes back to
staging. It contains every file that is there and not doubtful, and every named
one if no row was added. What it has beyond the named files is what
`OrphansAreCounted` bounds. TLC has checked the invariant for two files
to the end and for three files over 12 million states.

### MonitorPool

For any number of devices, connections, polls and interruptions:

| Theorem of `MonitorPoolProofs` | Statement |
|---|---|
| `PoolTyping` | `Spec => []TypeOK` |
| `PoolInvariance` | `Spec => []` the inductive invariant |
| `NoneIsLost` | `Spec => []NoConnectionLost` |
| `CancellingWakes` | `Spec => []CancelWakes` |
| `RevokedStayUnused` | `Spec => []RevokedNotReused` |

The argument. `Owned` lists who may be responsible for a connection that is not
shut: an entry of the pool, an entry being emptied, the polling thread's hand
between opening and publishing or after a poll, or a thread that is about to shut
it. Being in use by a lease is no ownership. `EveryOneOwned` is kept because each
action that takes a connection from one owner gives it to another in the same
step, which is what the locks of the code are for; that a connection is in one
entry at most is a conjunct, for otherwise emptying one entry would leave the
other with a shut connection. For `CancelWakes` the cancellation is followed from
the token to the callback that is registered and the thread that runs it.

### Window

For any number of queries, storage tasks, readings of the history, changes of the
network and previews, from `WindowAssumption`:

| Theorem of `WindowProofs` | Statement |
|---|---|
| `WindowInvariance` | `WindowSpec => []WindowInv` |
| `PollsStayScheduled` | `WindowSpec => []PollsAreScheduled` |
| `DialogsAreWanted` | `WindowSpec => []DialogsFollowRequests` |
| `CleanExitsLeaveNothing` | `WindowSpec => []CleanExitLeavesNothing` |
| `QueriesBeginAlone` | `WindowSpec => []` no thread, signal or dialog of a query is left when one may start |

The argument. The window's fields and the queue of its signals must agree, and the
queue is where what happened may still be unknown to the window. `Fine` says how:
every task the window waits for has a thread *or* one signal in the queue, never
both (`Querying`, `Storing`, `Finalizing`); `finished` is the last thing a query
says; a request comes before a dialog (`Asking`); a storage task, and the question
about one, has the window to itself (`Exclusive`); a preview is where its state
says (`Previewed`); a window that is closing has shut the approvals, asks nothing
and monitors no more (`Ending`); and monitoring always has a query or a timer
(`Scheduled`). Then no silent monitor is an obvious consequence, and a clean exit
leaves nothing because a preview that is still out keeps the window working.

The handlers of the window are compositions of operators (the code's methods call
each other), so the proof has a lemma for each operator: from a window that is
`Fine` in front of a queue it makes one that is `Fine` in front of the same queue,
or of its tail when a signal is taken. Handlers that give a preview back pass
through a window that is `Loose` (the preview is settled, its task not yet).
`QueriesBeginAlone` is the reason why signals of different queries need not be
told apart, which neither the code nor the model does. TLC had checked `WindowInv`
before, with two previews (3.38 million states).

### AppSession

For any number of processes, sessions, crashes and failed writes:

| Theorem of `RunsProofs` | Statement |
|---|---|
| `SessionInvariance` | `Spec => []SessionInv` |
| `UncleanStaysReported` | `Spec => []UncleanIsReported` |

The argument. Only who holds the guard reads or writes the mark (`OneAtWork`), so
what was read is still so when it is used (`ReadIsCurrent`); the mark tells of the
last session that began (`MarkTells`), and the session of a process that is in its
window is the last one (`WindowIsLast`). A session whose mark could not be written is
remembered as `failed`, and only after such a one may the mark be wrong, on the safe side:
it may say RUNNING of a session that ended cleanly, never the reverse.

### ResultTable

For any finite set of flows and controllers, any chunk and table size and any number
of outcomes, from `ResultTableAssumption` (flows and controllers are numbers, a chunk
has a row at least):

| Theorem of `RunsProofs` | Statement |
|---|---|
| `TableInvariance` | `ResultSpec => []TableInv` |
| `TableStaysOneOutcome` | `ResultSpec => []TableIsOneOutcome` |
| `GrowthIsShown` | `ResultSpec => GrowthIsSinceShown` |

The argument. A poll is prepared in another thread from counters it was given when it
began. `Shown` says of these, and of those the next poll would be given, that they
belong to rows of the present run that are shown, unless more were prepared than are
visible. They survive whatever happens to the query, because a new run begins with
none and only an outcome that is shown replaces rows and counters, together. That the
growth of a row is the difference then follows from what is prepared (`RowsFor`),
which needs to know that the rows *are* rows: the elements of a flattened sequence
(`FlattenType`) and of a set in its order (`OrderedType`). The first is an induction
over a recursive function, done here with sets instead of predicates
(`SetInduction`: a set with 0 and each successor holds all naturals).

### ContinuousRelease

For any number of releases, commits, builds, runs and faults, from
`ReleaseAssumption`, `NothingAssumption` and `BuildAssumption` (`None` is no
release and no marker; there is a build):

| Theorem of `RunsProofs` | Statement |
|---|---|
| `ReleaseTyping` | `ReleaseSpec => []ReleaseTypeOK` |
| `ReleaseInvariance` | `ReleaseSpec => []ReleaseInv` |
| `PublicStaysWhole` | `ReleaseSpec => []PublicIsWhole` |
| `CleanRunsFinish` | `MaxActions >= 10 => (ReleaseSpec => []CleanRunsConverge)` |
| `TagNeverBack` | `ReleaseSpec => TagMovesForward` |

The argument. What GitHub keeps between two runs is one release at most, or two
drafts of which one has no whole asset (`Listed`, `Spare`); a public one is whole
(`PublicShape`). A run knows GitHub only through what it last read, so there is a
conjunct for what it may rely on at each call (`Early`, `Alone`, `Knows`,
`KnowsTag`, `TagIsBehind`), and one for what an answered change has brought about
when it reads again (`Achieved`). That a run finishes needs that it never takes a
step back: each action has a rank, and the actions done and the rank left never add
up to more than ten (`Forward`). The script allows 40
(`tools/publish_continuous.ps1:376`), so
the hypothesis is a fact about the code.

## 6. Model-checked only

- Liveness under fairness (`CallsReturn`, `StartupEnds`, `StopIsCarriedOut`,
  `GoneFlowsAreClosed`, `PollsEnd`, `ClosingEnds`): out of the prover's reach.
- What the readings of `TableReadings` return for every input sequence, and with
  it `NeverMisread` and `ResultIsTrue`: checked over bounded inputs.

## 7. Findings

With a run that repeats them:

1. **A partial location counts as a whole one when it is cached**
   (`monitor_partial`). The comment at `services/tracker.py:265` says that after
   an ambiguous answer of the MM a poll must "never advance the monitor
   MISS/CLOSED state". The poll that asked the MM keeps to this. The snapshot
   it leaves holds None for the ambiguous address, and polls that reuse it are
   authoritative: the flow is MISSED on the next one, and CLOSED once the count
   is up.
2. **A full deletion that is cut short while it removes its files blocks every
   later start** (`history_stuck`). The comment at
   `storage/session_store.py:2642` says "Restore or finish every delete first".
   A full deletion also takes files that no row names. When the process dies
   after one of them was removed and before the manifest is, the next start
   finds it neither aside nor in its place, cannot tell that this was meant, and
   raises (`:6073`).

Met while modelling, described here and not repeated by a run; each is a property
in the module that does not hold, and TLC's counterexample is the order of steps:

3. The recovery anchor can be lost (`PollStore!LeftoversAnchored` with two
   processes). The comment at `storage/session_store.py:2703` keeps the manifest
   until the lease has been removed. Recovery unlinks it by path *after* releasing
   the lease (`:2706-2707`); a retry of the same poll that begins in between has
   written its own manifest at that path and loses it.
4. An orderly rollback looks like corruption (`PollStore!NothingVanishes`). The
   comment at `:1107` explains a vanished manifest by a committed writer. A
   writer that failed removes its manifest as well, without a receipt, and a
   start-up that had listed it (`:2654`) refuses to start (`:2676`).
5. A stop can miss (`RuntimeExecutor!StoppedMeansStopped`, `runtime.py:251`).
   Between the start of the query thread and its lease, `stop_monitor()` finds
   nothing to stop and reports success; the poll then attaches a monitor whose
   run stays RUNNING.
6. A stop can stop the wrong monitor (`RuntimeExecutor!StopRequestConsumed`,
   `runtime.py:568-582`). A stop that arrives after the finally block has detached
   the monitor and before it drops the lease leaves its request behind, and it
   ends the next monitoring.

7. The last readings of `reconcile_storage_health()` are not one moment
   (`storage/session_store.py:697-703`). The comment says that a final comparison
   under the store's lock keeps a file seen before its row from being counted as an
   orphan, because polls publish under that lock. That is so for polls of this
   process. Another process may commit between the reading of the rows and that of the
   revision, and its file is then counted; `OrphansAreCounted` therefore measures the
   result by the rows read (`recon.rows`). The next reconciliation corrects it.

Each of these needs a rare interleaving. The passing runs show what holds all the
same: even in the third, no torn poll becomes visible.

One fact about the parsers, which no doc contradicts, belongs here as well:

8. A line cut off within a reply can pass the count check. A row of `show switches`
   without its end is counted (`parsers/switches.py:50`) and, its Type being empty,
   dropped (`:52-53`), so the check at `:67-72` does not miss the device; a header
   that was cut off behind "Type" drops all devices. A users row whose Current switch
   lost its last digits is accepted with the shorter address
   (`parsers/global_users.py:266-296`). `DeviceTables!CutReadings` lists these
   readings, and `NeverMisread` fails without them.

## 8. Not modelled

Configuration (`config.py`) is validation and one atomic save. Report contents
(`storage/html_report*.py`, `csv_export.py`), analysis summaries and the joined
view of an offline capture: values in, text out. Layout, themes, the inventory
and settings editors, the developer inspector, the history page's own table.
Release verification, SBOM and packaging (`tools/verify_release.py`,
`tools/finalize_sbom.py`) and the tools beside them: sequential checks of files.
Within the modelled components: `record_query` and the capacity checks of the
store, artifacts of earlier versions, path and link checks; one-shot connections
outside the pool, the login and prompt dialogue, byte limits of a channel; the
contents of a row. The SSH protocol belongs to paramiko and netmiko; SQLite, Qt
and the file systems are taken at their word, with the failures named above.

## 9. Plan

All modules of section 2 are done, and the safety properties of the components are
proved but for those of the readings (section 6). What would add most now:
`HistoryFiles` with two processes that start one after the other.
