----------------------------- MODULE PollStore -----------------------------
(***************************************************************************)
(* storage/session_store.py: how a poll result becomes durable.            *)
(*                                                                         *)
(* record_poll_batch publishes Raw output as files and everything else as  *)
(* SQLite rows, so it cannot do both atomically.  It writes a manifest,    *)
(* stages and installs the Raw file, marks the manifest INSTALLED, commits *)
(* the rows with a receipt, marks it DB_COMMITTED and then tidies up.      *)
(* A process may die after any of these steps and any of them may fail;    *)
(* initialize() of a later - or of another, concurrent - process           *)
(* reconciles what it finds and interrupts the runs nobody owns.           *)
(*                                                                         *)
(* One action is one durable effect, one lock, or one read whose result is *)
(* used later.  A process runs one record_poll_batch at a time (the        *)
(* store's _lock); a lease is the advisory file lock of the code, so the   *)
(* operating system drops it when its process dies.                        *)
(***************************************************************************)
EXTENDS Naturals, FiniteSets

CONSTANTS
    Proc,        \* processes that open the same data directory
    Run,         \* run IDs
    Poll,        \* poll IDs
    Payload,     \* what a poll may record, told apart by its SHA-256
    RawPayload,  \* the payloads that have Raw output: exactly one file,
                 \* several snapshots being bundled into one
    RunOf,       \* the run each poll belongs to
    NoPayload,   \* no receipt / no payload
    Nobody,      \* a lease that is free
    Attempts,    \* how often a busy database is tried: the length of
                 \* _POLL_COMMIT_RETRY_DELAYS
    MaxFaults    \* bound: how many crashes and failed calls in a behaviour

ASSUME PollStoreAssumption ==
    /\ RawPayload \subseteq Payload
    /\ RunOf \in [Poll -> Run]
    /\ Poll # {} /\ Payload # {}
    /\ NoPayload \notin Payload
    /\ Nobody \notin Proc
    /\ Attempts \in Nat \ {0}
    /\ MaxFaults \in Nat

VARIABLES
    \* --- durable ---
    runStatus,   \* runs.status
    receipt,     \* poll_commits: payload_sha256 of each poll ID
    rows,        \* how many times the rows of a poll were inserted
    manifest,    \* .operations manifest of each poll ID, or NoManifest
    staged,      \* Raw files below .raw-staging-<poll>
    dest,        \* Raw files of a poll at their final path
    \* --- advisory locks ---
    runLease, opLease, maintenance,
    \* --- one process ---
    proc,        \* phase of initialize(), or "up"
    owned,       \* _run_leases
    pc,          \* where its record_poll_batch or recovery stands
    tries,       \* attempts at the current call that found SQLite busy
    job,         \* the poll it works on
    body,        \* the payload it works with
    todo,        \* manifests start-up has listed and not yet visited
    abandoned,   \* RUNNING runs start-up has read and not yet tried
    told,        \* what callers in this process last learned of a poll
    faults       \* how many faults have happened

durable == <<runStatus, receipt, rows, manifest, staged, dest>>
leases  == <<runLease, opLease, maintenance>>
local   == <<proc, owned, pc, tries, job, body, todo, abandoned, told>>
vars    == <<durable, leases, local, faults>>

NoManifest == [phase |-> "none", payload |-> NoPayload]
Manifest   == [phase : {"PREPARED", "INSTALLED", "DB_COMMITTED"},
               payload : Payload] \cup {NoManifest}

RunStatus == {"absent", "RUNNING", "FINISHED", "INTERRUPTED"}
ProcPhase == {"down", "starting", "recovering", "select", "interrupting",
              "up", "corrupt", "vanished"}

RecordPC   == {"look", "load", "tidyOld", "drop", "receipt", "gone",
               "write", "stage", "install", "mark", "commit", "probe",
               "markdb", "tidy", "release", "unlink"}
RollbackPC == {"undoRaw", "undoStage", "undoManifest"}
StartupPC  == {"sLease", "sLoad", "sTidy", "sRelease", "sUnlink"}
PC         == {"idle"} \cup RecordPC \cup RollbackPC \cup StartupPC

Told == {"unasked", "committed", "recovery_pending", "failed",
         "indeterminate"}

Raw(d) == IF d \in RawPayload THEN {d} ELSE {}

Init ==
    /\ runStatus = [r \in Run |-> "absent"]
    /\ receipt = [p \in Poll |-> NoPayload]
    /\ rows = [p \in Poll |-> 0]
    /\ manifest = [p \in Poll |-> NoManifest]
    /\ staged = [p \in Poll |-> {}]
    /\ dest = [p \in Poll |-> {}]
    /\ runLease = [r \in Run |-> Nobody]
    /\ opLease = [p \in Poll |-> Nobody]
    /\ maintenance = Nobody
    /\ proc = [x \in Proc |-> "down"]
    /\ owned = [x \in Proc |-> {}]
    /\ pc = [x \in Proc |-> "idle"]
    /\ tries = [x \in Proc |-> 0]
    /\ job = [x \in Proc |-> CHOOSE p \in Poll : TRUE]
    /\ body = [x \in Proc |-> CHOOSE d \in Payload : TRUE]
    /\ todo = [x \in Proc |-> {}]
    /\ abandoned = [x \in Proc |-> {}]
    /\ told = [x \in Proc |-> [p \in Poll |-> "unasked"]]
    /\ faults = 0

-----------------------------------------------------------------------------
(* Helpers                                                                 *)

Goto(x, where) ==
    /\ pc' = [pc EXCEPT ![x] = where]
    /\ tries' = [tries EXCEPT ![x] = 0]

FreeOp(p)   == opLease' = [opLease EXCEPT ![p] = Nobody]

(* What a caller keeps in mind: a later failure does not make it forget    *)
(* that the poll was committed, or that its fate is still open (the        *)
(* runtime keeps such a poll pending and asks again with the same ID).     *)
Tell(x, p, what) ==
    told' = [told EXCEPT ![x][p] =
        IF what = "failed" /\ @ # "unasked" THEN @ ELSE what]

(* record_poll_batch raises: release the operation lease, keep the rest.   *)
(* The lease file is removed only when no manifest is left behind.         *)
Fail(x) ==
    /\ Goto(x, "idle")
    /\ FreeOp(job[x])
    /\ Tell(x, job[x], "failed")

Fault == faults < MaxFaults /\ faults' = faults + 1

(* The calls that are made again while the database is busy.               *)
Asking(x) == pc[x] \in {"receipt", "gone", "commit", "probe"}

(* A call raises: it failed, or the last attempt has found SQLite busy.    *)
CallRaises(x) ==
    \/ Fault
    \/ Asking(x) /\ tries[x] + 1 = Attempts /\ UNCHANGED faults

(* A process stops being one: volatile state is lost, leases are free.     *)
DropProcess(x, phase) ==
    /\ proc' = [proc EXCEPT ![x] = phase]
    /\ owned' = [owned EXCEPT ![x] = {}]
    /\ pc' = [pc EXCEPT ![x] = "idle"]
    /\ tries' = [tries EXCEPT ![x] = 0]
    /\ todo' = [todo EXCEPT ![x] = {}]
    /\ abandoned' = [abandoned EXCEPT ![x] = {}]
    /\ told' = [told EXCEPT ![x] = [p \in Poll |-> "unasked"]]
    /\ runLease' = [r \in Run |-> IF runLease[r] = x THEN Nobody
                                                     ELSE runLease[r]]
    /\ opLease' = [p \in Poll |-> IF opLease[p] = x THEN Nobody
                                                    ELSE opLease[p]]
    /\ maintenance' = IF maintenance = x THEN Nobody ELSE maintenance
    /\ UNCHANGED <<job, body>>

(* Everything of the process that one step of a call leaves alone.         *)
Local(x) == UNCHANGED <<runLease, maintenance, proc, owned, job, body, todo,
                        abandoned>>

-----------------------------------------------------------------------------
(* Plausible mistakes: each operator below is one operation further down   *)
(* with one thing wrong.  They are not part of the specification; TLC is   *)
(* run with one of them in place of the operation to see that the property *)
(* named for it in PROJECT.json then fails.                                *)

(* the rollback forgets which Raw files it had installed                   *)
UndoRawForgetsInstalled(x) ==
    /\ pc[x] = "undoRaw"
    /\ Goto(x, "undoStage")
    /\ Local(x) /\ UNCHANGED <<durable, opLease, told, faults>>

(* a manifest that cannot be removed is reported as a clean COMMITTED      *)
UnlinkManifestSwallowsError(x) ==
    LET p == job[x] IN
    /\ pc[x] = "unlink"
    /\ Goto(x, "idle") /\ Tell(x, p, "committed")
    /\ \/ manifest' = [manifest EXCEPT ![p] = NoManifest] /\ UNCHANGED faults
       \/ Fault /\ UNCHANGED manifest
    /\ Local(x)
    /\ UNCHANGED <<runStatus, receipt, rows, staged, dest, opLease>>

(* start-up takes DB_COMMITTED for "nothing left to do"                    *)
EnterRecoverySkipsCommitted(x) ==
    /\ proc[x] = "starting" /\ maintenance = Nobody
    /\ maintenance' = x
    /\ todo' = [todo EXCEPT ![x] =
          {p \in Poll : manifest[p].phase \in {"PREPARED", "INSTALLED"}}]
    /\ proc' = [proc EXCEPT ![x] = "recovering"]
    /\ UNCHANGED <<durable, runLease, opLease, owned, pc, tries, job, body,
                   abandoned, told, faults>>

(* a busy database is asked again however often it was busy before         *)
TryAgainForever(x) ==
    /\ tries' = [tries EXCEPT ![x] = (@ + 1) % Attempts]
    /\ UNCHANGED pc

(* the manifest's phase is misspelt                                        *)
MarkCommittedMisspelt(x) ==
    /\ pc[x] = "markdb"
    /\ manifest' = [manifest EXCEPT ![job[x]] =
                      [phase |-> "COMMITTED", payload |-> body[x]]]
    /\ Goto(x, "tidy")
    /\ Local(x)
    /\ UNCHANGED <<runStatus, receipt, rows, staged, dest, opLease, told,
                   faults>>

(* the transaction does not check that the run is still RUNNING            *)
CommitAppliedToAnyRun(x) ==
    LET p == job[x] IN
    /\ pc[x] = "commit" /\ receipt[p] = NoPayload
    /\ receipt' = [receipt EXCEPT ![p] = body[x]]
    /\ rows' = [rows EXCEPT ![p] = @ + 1]
    /\ \/ Goto(x, "markdb") /\ UNCHANGED faults
       \/ Goto(x, "probe") /\ Fault
    /\ Local(x)
    /\ UNCHANGED <<runStatus, manifest, staged, dest, opLease, told>>

(* an exception from the transaction is taken for "not applied"            *)
ProbeReceiptAssumesLost(x) ==
    /\ pc[x] = "probe"
    /\ Goto(x, "undoRaw")
    /\ Local(x) /\ UNCHANGED <<durable, opLease, told, faults>>

(* an unknown outcome is reported as a failure                             *)
ProbeFailsReportedAsFailure(x) ==
    /\ pc[x] = "probe" /\ CallRaises(x)
    /\ Fail(x)
    /\ Local(x) /\ UNCHANGED durable

(* the manifest keeps its phase PREPARED through the transaction           *)
MarkInstalledSkipped(x) ==
    /\ pc[x] = "mark"
    /\ Goto(x, "commit")
    /\ Local(x) /\ UNCHANGED <<durable, opLease, told, faults>>

(* every RUNNING run is interrupted, its lease taken or not                *)
InterruptEveryRunning(x) ==
    /\ proc[x] = "interrupting" /\ abandoned[x] = {}
    /\ runStatus' = [r \in Run |-> IF runStatus[r] = "RUNNING"
                                   THEN "INTERRUPTED" ELSE runStatus[r]]
    /\ runLease' = [r \in Run |-> IF runLease[r] = x THEN Nobody
                                                     ELSE runLease[r]]
    /\ proc' = [proc EXCEPT ![x] = "up"]
    /\ UNCHANGED <<receipt, rows, manifest, staged, dest, opLease,
                   maintenance, owned, pc, tries, job, body, todo, abandoned,
                   told, faults>>

(* start-up comes back to a busy manifest until its lease is free          *)
LeaseManifestComesBack(x) ==
    LET p == job[x] IN
    /\ pc[x] = "sLease"
    /\ IF opLease[p] = Nobody
       THEN /\ opLease' = [opLease EXCEPT ![p] = x]
            /\ Goto(x, "sLoad") /\ UNCHANGED todo
       ELSE /\ Goto(x, "idle") /\ UNCHANGED opLease
            /\ todo' = [todo EXCEPT ![x] = @ \cup {p}]
    /\ UNCHANGED <<durable, runLease, maintenance, proc, owned, job, body,
                   abandoned, told, faults>>

-----------------------------------------------------------------------------
(* Runs                                                                    *)

(* start_run: take the run lease, insert the RUNNING row, keep the lease.  *)
StartRun(x, r) ==
    /\ proc[x] = "up" /\ pc[x] \in {"idle"} \cup RollbackPC
    /\ runStatus[r] = "absent" /\ runLease[r] = Nobody
    /\ runStatus' = [runStatus EXCEPT ![r] = "RUNNING"]
    /\ runLease' = [runLease EXCEPT ![r] = x]
    /\ owned' = [owned EXCEPT ![x] = @ \cup {r}]
    /\ UNCHANGED <<receipt, rows, manifest, staged, dest, opLease,
                   maintenance, proc, pc, tries, job, body, todo, abandoned,
                   told, faults>>

(* ... the insert was applied and its acknowledgement lost: start_run      *)
(* raises and gives the lease back, the RUNNING row stays.                 *)
StartRunUnacknowledged(x, r) ==
    /\ proc[x] = "up" /\ pc[x] \in {"idle"} \cup RollbackPC
    /\ runStatus[r] = "absent" /\ runLease[r] = Nobody
    /\ Fault
    /\ runStatus' = [runStatus EXCEPT ![r] = "RUNNING"]
    /\ UNCHANGED <<receipt, rows, manifest, staged, dest, leases, local>>

(* finish_run: owner only; the update matches a RUNNING row or finds the   *)
(* run already ended (a retry after the lease file could not be removed).  *)
FinishRun(x, r) ==
    /\ proc[x] = "up" /\ pc[x] \in {"idle"} \cup RollbackPC
    /\ r \in owned[x]
    /\ runStatus[r] \in {"RUNNING", "FINISHED"}
    /\ runStatus' = [runStatus EXCEPT ![r] = "FINISHED"]
    /\ \/ /\ runLease' = [runLease EXCEPT ![r] = IF @ = x THEN Nobody ELSE @]
          /\ \/ owned' = [owned EXCEPT ![x] = @ \ {r}] /\ UNCHANGED faults
             \/ Fault /\ UNCHANGED owned    \* lease file not removed
       \/ Fault /\ UNCHANGED <<runLease, owned>>  \* acknowledgement lost
    /\ UNCHANGED <<receipt, rows, manifest, staged, dest, opLease,
                   maintenance, proc, pc, tries, job, body, todo, abandoned,
                   told>>

-----------------------------------------------------------------------------
(* record_poll_batch                                                       *)

(* _POLL_COMMIT_RETRY_DELAYS: the call found the database busy and is made *)
(* once more, with a new connection, unless this was the last attempt.     *)
TryAgain(x) ==
    /\ tries[x] + 1 < Attempts
    /\ tries' = [tries EXCEPT ![x] = @ + 1]
    /\ UNCHANGED pc

(* The caller owns the run; the operation lease is free or the call fails  *)
(* with STORAGE_BUSY.                                                      *)
Begin(x, p, d) ==
    /\ proc[x] = "up" /\ pc[x] = "idle"
    /\ RunOf[p] \in owned[x]
    /\ \/ /\ opLease[p] = Nobody
          /\ opLease' = [opLease EXCEPT ![p] = x]
          /\ job' = [job EXCEPT ![x] = p]
          /\ body' = [body EXCEPT ![x] = d]
          /\ Goto(x, "look")
          /\ UNCHANGED told
       \/ /\ opLease[p] # Nobody
          /\ Tell(x, p, "failed")
          /\ UNCHANGED <<opLease, pc, tries, job, body>>
    /\ UNCHANGED <<durable, runLease, maintenance, proc, owned, todo,
                   abandoned, faults>>

(* os.path.lexists(existing_manifest)                                      *)
LookForManifest(x) ==
    /\ pc[x] = "look"
    /\ Goto(x, IF manifest[job[x]] = NoManifest THEN "receipt" ELSE "load")
    /\ Local(x) /\ UNCHANGED <<durable, opLease, told, faults>>

(* _recover_raw_batch_manifest: the states it refuses to repair.           *)
Corrupt(p, m) ==
    \/ receipt[p] # NoPayload /\ receipt[p] # m.payload
    \/ receipt[p] # NoPayload /\ m.phase = "PREPARED"
    \/ receipt[p] # NoPayload /\ rows[p] = 0
    \/ receipt[p] = NoPayload /\ rows[p] > 0
    \/ receipt[p] = NoPayload /\ m.phase = "DB_COMMITTED"
    \/ receipt[p] # NoPayload /\ ~ Raw(m.payload) \subseteq
                                     dest[p] \cup staged[p]

(* ... and the repair: a receipt rolls the Raw file forward (moving it out *)
(* of staging if need be), its absence rolls it back.                      *)
Reconcile(p, m) ==
    /\ IF receipt[p] # NoPayload
       THEN /\ dest' = [dest EXCEPT ![p] = @ \cup Raw(m.payload)]
            /\ staged' = [staged EXCEPT ![p] = @ \ (Raw(m.payload) \ dest[p])]
       ELSE /\ dest' = [dest EXCEPT ![p] = @ \ Raw(m.payload)]
            /\ staged' = [staged EXCEPT ![p] = @ \ Raw(m.payload)]
    /\ UNCHANGED <<runStatus, receipt, rows, manifest>>

(* The manifest of an earlier attempt is read: it may have vanished since  *)
(* LookForManifest, describe another payload, or be reconciled first.      *)
LoadManifest(x) ==
    LET p == job[x]
        m == manifest[p]
    IN  /\ pc[x] = "load"
        /\ \/ /\ m = NoManifest
              /\ Goto(x, "gone")
              /\ UNCHANGED <<durable, opLease, told>>
           \/ /\ m # NoManifest
              /\ m.payload # body[x] \/ Corrupt(p, m)
              /\ Fail(x)
              /\ UNCHANGED durable
           \/ /\ m # NoManifest
              /\ m.payload = body[x] /\ ~ Corrupt(p, m)
              /\ Reconcile(p, m)
              /\ Goto(x, "tidyOld")
              /\ UNCHANGED <<opLease, told>>
        /\ Local(x) /\ UNCHANGED faults

TidyOldStaging(x) ==
    /\ pc[x] = "tidyOld"
    /\ staged' = [staged EXCEPT ![job[x]] = {}]
    /\ Goto(x, "drop")
    /\ Local(x)
    /\ UNCHANGED <<runStatus, receipt, rows, manifest, dest, opLease, told,
                   faults>>

DropOldManifest(x) ==
    /\ pc[x] = "drop"
    /\ manifest' = [manifest EXCEPT ![job[x]] = NoManifest]
    /\ Goto(x, "receipt")
    /\ Local(x)
    /\ UNCHANGED <<runStatus, receipt, rows, staged, dest, opLease, told,
                   faults>>

(* _poll_commit_receipt: a matching receipt proves an earlier attempt.     *)
LookForReceipt(x) ==
    LET p == job[x] IN
    /\ pc[x] \in {"receipt", "gone"}
    /\ \/ /\ receipt[p] = body[x]
          /\ Goto(x, "tidy") /\ UNCHANGED <<opLease, told>>
       \/ /\ receipt[p] \notin {NoPayload, body[x]}
          /\ Fail(x)
       \/ /\ receipt[p] = NoPayload /\ pc[x] = "gone"
          /\ Fail(x)
       \/ /\ receipt[p] = NoPayload /\ pc[x] = "receipt"
          /\ Goto(x, "write") /\ UNCHANGED <<opLease, told>>
    /\ Local(x) /\ UNCHANGED <<durable, faults>>

(* _write_manifest; from here on a failure is rolled back.                 *)
WriteManifest(x) ==
    LET p == job[x] IN
    /\ pc[x] = "write"
    /\ \/ /\ manifest[p] = NoManifest
          /\ manifest' = [manifest EXCEPT ![p] =
                             [phase |-> "PREPARED", payload |-> body[x]]]
          /\ Goto(x, "stage") /\ UNCHANGED <<opLease, told>>
       \/ /\ manifest[p] # NoManifest
          /\ Fail(x) /\ UNCHANGED manifest
    /\ Local(x)
    /\ UNCHANGED <<runStatus, receipt, rows, staged, dest, faults>>

(* _stage_prepared_raw: the staging directory must be new.                 *)
StageRaw(x) ==
    LET p == job[x] IN
    /\ pc[x] = "stage"
    /\ IF Raw(body[x]) # {} /\ staged[p] # {}
       THEN Goto(x, "undoRaw") /\ UNCHANGED staged
       ELSE /\ staged' = [staged EXCEPT ![p] = @ \cup Raw(body[x])]
            /\ Goto(x, "install")
    /\ Local(x)
    /\ UNCHANGED <<runStatus, receipt, rows, manifest, dest, opLease, told,
                   faults>>

(* _replace_file moves the staged Raw file to its final path.              *)
InstallRaw(x) ==
    LET p == job[x] IN
    /\ pc[x] = "install"
    /\ staged' = [staged EXCEPT ![p] = @ \ Raw(body[x])]
    /\ dest' = [dest EXCEPT ![p] = @ \cup Raw(body[x])]
    /\ Goto(x, "mark")
    /\ Local(x)
    /\ UNCHANGED <<runStatus, receipt, rows, manifest, opLease, told,
                   faults>>

(* _replace_manifest INSTALLED: it refuses a manifest that is not there.   *)
MarkInstalled(x) ==
    LET p == job[x] IN
    /\ pc[x] = "mark"
    /\ IF manifest[p] = NoManifest
       THEN Goto(x, "undoRaw") /\ UNCHANGED manifest
       ELSE /\ manifest' = [manifest EXCEPT ![p] =
                              [phase |-> "INSTALLED", payload |-> body[x]]]
            /\ Goto(x, "commit")
    /\ Local(x)
    /\ UNCHANGED <<runStatus, receipt, rows, staged, dest, opLease, told,
                   faults>>

(* _commit_poll_batch_once: rows and receipt in one transaction, only for  *)
(* a RUNNING run, and nothing when the receipt is already there.  The      *)
(* acknowledgement of an applied transaction may be lost; what is raised   *)
(* then may be one of the errors after which it is tried again.            *)
CommitApplied(x) ==
    LET p == job[x] IN
    /\ pc[x] = "commit"
    /\ runStatus[RunOf[p]] = "RUNNING"
    /\ receipt[p] = NoPayload
    /\ receipt' = [receipt EXCEPT ![p] = body[x]]
    /\ rows' = [rows EXCEPT ![p] = @ + 1]
    /\ \/ Goto(x, "markdb") /\ UNCHANGED faults
       \/ (Goto(x, "probe") \/ TryAgain(x)) /\ Fault
    /\ Local(x)
    /\ UNCHANGED <<runStatus, manifest, staged, dest, opLease, told>>

(* ... it finds the run ended, or the receipt of an attempt before.        *)
CommitRefused(x) ==
    LET p == job[x] IN
    /\ pc[x] = "commit"
    /\ \/ runStatus[RunOf[p]] # "RUNNING" /\ Goto(x, "probe")
       \/ /\ runStatus[RunOf[p]] = "RUNNING" /\ receipt[p] # NoPayload
          /\ Goto(x, IF receipt[p] = body[x] THEN "markdb" ELSE "probe")
    /\ Local(x) /\ UNCHANGED <<durable, opLease, told, faults>>

(* The transaction raised: the receipt, if it can be read, tells whether   *)
(* it was applied.  A foreign receipt raises too and is rolled back.       *)
ProbeReceipt(x) ==
    LET p == job[x] IN
    /\ pc[x] = "probe"
    /\ Goto(x, IF receipt[p] = body[x] THEN "markdb" ELSE "undoRaw")
    /\ Local(x) /\ UNCHANGED <<durable, opLease, told, faults>>

(* PollPersistenceIndeterminate: nothing may be cleaned up, the manifest   *)
(* stays and the caller has to come back with the same poll ID.            *)
ProbeFails(x) ==
    /\ pc[x] = "probe"
    /\ CallRaises(x)
    /\ Goto(x, "idle")
    /\ FreeOp(job[x])
    /\ Tell(x, job[x], "indeterminate")
    /\ Local(x) /\ UNCHANGED durable

(* _replace_manifest DB_COMMITTED; failing leaves the manifest as it is.   *)
MarkCommitted(x) ==
    LET p == job[x] IN
    /\ pc[x] = "markdb"
    /\ \/ /\ manifest[p] # NoManifest
          /\ manifest' = [manifest EXCEPT ![p] =
                            [phase |-> "DB_COMMITTED", payload |-> body[x]]]
          /\ Goto(x, "tidy")
          /\ UNCHANGED <<opLease, told, faults>>
       \/ /\ (manifest[p] = NoManifest /\ UNCHANGED faults) \/ Fault
          /\ Goto(x, "idle") /\ FreeOp(p)
          /\ Tell(x, p, "recovery_pending")
          /\ UNCHANGED manifest
    /\ Local(x)
    /\ UNCHANGED <<runStatus, receipt, rows, staged, dest>>

(* _finalize_committed_poll_operation: staging, then the lease, then the   *)
(* manifest.  Each may fail; the result is COMMITTED_RECOVERY_PENDING.     *)
TidyStaging(x) ==
    LET p == job[x] IN
    /\ pc[x] = "tidy"
    /\ \/ /\ staged' = [staged EXCEPT ![p] = {}]
          /\ Goto(x, "release")
          /\ UNCHANGED <<opLease, told, faults>>
       \/ /\ Fault
          /\ Goto(x, "idle") /\ FreeOp(p)
          /\ Tell(x, p, "recovery_pending")
          /\ UNCHANGED staged
    /\ Local(x)
    /\ UNCHANGED <<runStatus, receipt, rows, manifest, dest>>

ReleaseOperation(x) ==
    LET p == job[x] IN
    /\ pc[x] = "release"
    /\ FreeOp(p)
    /\ \/ Goto(x, "unlink") /\ UNCHANGED <<told, faults>>
       \/ /\ Fault                      \* unlocked, lease file not removed
          /\ Goto(x, "idle") /\ Tell(x, p, "recovery_pending")
    /\ Local(x) /\ UNCHANGED durable

UnlinkManifest(x) ==
    LET p == job[x] IN
    /\ pc[x] = "unlink"
    /\ Goto(x, "idle")
    /\ \/ /\ manifest' = [manifest EXCEPT ![p] = NoManifest]
          /\ Tell(x, p, "committed") /\ UNCHANGED faults
       \/ /\ Fault /\ manifest[p] # NoManifest
          /\ Tell(x, p, "recovery_pending") /\ UNCHANGED manifest
    /\ Local(x)
    /\ UNCHANGED <<runStatus, receipt, rows, staged, dest, opLease>>

(* _poll_commit_receipt and _commit_poll_batch_with_retry find SQLite busy *)
(* and try again.  Nothing bounds how often another program keeps it busy. *)
BusyAgain(x) ==
    /\ Asking(x)
    /\ TryAgain(x)
    /\ Local(x) /\ UNCHANGED <<durable, opLease, told, faults>>

(* Any call before the manifest is written may raise: nothing to undo.     *)
FailBeforeManifest(x) ==
    /\ pc[x] \in {"load", "tidyOld", "drop", "receipt", "gone", "write"}
    /\ CallRaises(x)
    /\ Fail(x)
    /\ Local(x) /\ UNCHANGED durable

(* Any call between the manifest and the commit may raise, and so may the  *)
(* transaction itself without being applied (then the receipt is probed).  *)
FailAfterManifest(x) ==
    /\ pc[x] \in {"stage", "install", "mark", "commit"}
    /\ CallRaises(x)
    /\ Goto(x, IF pc[x] = "commit" THEN "probe" ELSE "undoRaw")
    /\ Local(x) /\ UNCHANGED <<durable, opLease, told>>

(* _cleanup_failed_raw_batch, outside _lock but under the operation lease: *)
(* installed Raw, staging, manifest - in this order.                       *)
UndoRaw(x) ==
    /\ pc[x] = "undoRaw"
    /\ dest' = [dest EXCEPT ![job[x]] = @ \ Raw(body[x])]
    /\ Goto(x, "undoStage")
    /\ Local(x)
    /\ UNCHANGED <<runStatus, receipt, rows, manifest, staged, opLease, told,
                   faults>>

UndoStaging(x) ==
    /\ pc[x] = "undoStage"
    /\ staged' = [staged EXCEPT ![job[x]] = {}]
    /\ Goto(x, "undoManifest")
    /\ Local(x)
    /\ UNCHANGED <<runStatus, receipt, rows, manifest, dest, opLease, told,
                   faults>>

UndoManifest(x) ==
    /\ pc[x] = "undoManifest"
    /\ manifest' = [manifest EXCEPT ![job[x]] = NoManifest]
    /\ Fail(x)
    /\ Local(x)
    /\ UNCHANGED <<runStatus, receipt, rows, staged, dest, faults>>

(* The rollback itself fails: the manifest intentionally remains.          *)
UndoFails(x) ==
    /\ pc[x] \in RollbackPC
    /\ Fault
    /\ Fail(x)
    /\ Local(x) /\ UNCHANGED durable

-----------------------------------------------------------------------------
(* initialize(): recovery under the maintenance lease, then abandoned runs *)

Launch(x) ==
    /\ proc[x] = "down"
    /\ proc' = [proc EXCEPT ![x] = "starting"]
    /\ UNCHANGED <<durable, leases, owned, pc, tries, job, body, todo,
                   abandoned, told, faults>>

(* _recover_operations is skipped while another process holds the          *)
(* maintenance lease; otherwise the manifests are listed once.             *)
EnterRecovery(x) ==
    /\ proc[x] = "starting"
    /\ \/ /\ maintenance = Nobody
          /\ maintenance' = x
          /\ todo' = [todo EXCEPT ![x] =
                        {p \in Poll : manifest[p] # NoManifest}]
          /\ proc' = [proc EXCEPT ![x] = "recovering"]
       \/ /\ maintenance # Nobody
          /\ proc' = [proc EXCEPT ![x] = "select"]
          /\ UNCHANGED <<maintenance, todo>>
    /\ UNCHANGED <<durable, runLease, opLease, owned, pc, tries, job, body,
                   abandoned, told, faults>>

(* _recover_manifest_path: the manifest is still there ...                 *)
VisitManifest(x, p) ==
    /\ proc[x] = "recovering" /\ pc[x] = "idle" /\ p \in todo[x]
    /\ todo' = [todo EXCEPT ![x] = @ \ {p}]
    /\ IF manifest[p] = NoManifest
       THEN UNCHANGED <<pc, tries, job>>
       ELSE Goto(x, "sLease") /\ job' = [job EXCEPT ![x] = p]
    /\ UNCHANGED <<durable, leases, proc, owned, body, abandoned, told,
                   faults>>

(* ... its operation lease is free, or somebody is working on it ...       *)
LeaseManifest(x) ==
    /\ pc[x] = "sLease"
    /\ IF opLease[job[x]] = Nobody
       THEN /\ opLease' = [opLease EXCEPT ![job[x]] = x]
            /\ Goto(x, "sLoad")
       ELSE Goto(x, "idle") /\ UNCHANGED opLease
    /\ Local(x) /\ UNCHANGED <<durable, told, faults>>

(* ... and it is reconciled.  When it has vanished meanwhile, a receipt    *)
(* explains it; without one, or in a state that cannot be repaired,        *)
(* initialize() fails closed.                                              *)
ReconcileManifest(x) ==
    LET p == job[x]
        m == manifest[p]
    IN  /\ pc[x] = "sLoad"
        /\ \/ /\ m # NoManifest /\ ~ Corrupt(p, m)
              /\ Reconcile(p, m)
              /\ Goto(x, "sTidy")
              /\ Local(x) /\ UNCHANGED <<opLease, told>>
           \/ /\ m # NoManifest /\ Corrupt(p, m)
              /\ DropProcess(x, "corrupt") /\ UNCHANGED durable
           \/ /\ m = NoManifest /\ receipt[p] # NoPayload
              /\ Goto(x, "idle") /\ FreeOp(p)
              /\ Local(x) /\ UNCHANGED <<durable, told>>
           \/ /\ m = NoManifest /\ receipt[p] = NoPayload
              /\ DropProcess(x, "vanished") /\ UNCHANGED durable
        /\ UNCHANGED faults

TidyRecovered(x) ==
    /\ pc[x] = "sTidy"
    /\ staged' = [staged EXCEPT ![job[x]] = {}]
    /\ Goto(x, "sRelease")
    /\ Local(x)
    /\ UNCHANGED <<runStatus, receipt, rows, manifest, dest, opLease, told,
                   faults>>

ReleaseRecovered(x) ==
    /\ pc[x] = "sRelease"
    /\ FreeOp(job[x])
    /\ Goto(x, "sUnlink")
    /\ Local(x) /\ UNCHANGED <<durable, told, faults>>

UnlinkRecovered(x) ==
    /\ pc[x] = "sUnlink"
    /\ manifest' = [manifest EXCEPT ![job[x]] = NoManifest]
    /\ Goto(x, "idle")
    /\ Local(x)
    /\ UNCHANGED <<runStatus, receipt, rows, staged, dest, opLease, told,
                   faults>>

LeaveRecovery(x) ==
    /\ proc[x] = "recovering" /\ pc[x] = "idle" /\ todo[x] = {}
    /\ maintenance' = Nobody
    /\ proc' = [proc EXCEPT ![x] = "select"]
    /\ UNCHANGED <<durable, runLease, opLease, owned, pc, tries, job, body,
                   todo, abandoned, told, faults>>

(* _interrupt_abandoned_runs: read the RUNNING runs ...                    *)
SelectRunning(x) ==
    /\ proc[x] = "select"
    /\ abandoned' = [abandoned EXCEPT ![x] =
                       {r \in Run : runStatus[r] = "RUNNING"}]
    /\ proc' = [proc EXCEPT ![x] = "interrupting"]
    /\ UNCHANGED <<durable, leases, owned, pc, tries, job, body, todo, told,
                   faults>>

(* ... try to take the lease of each ...                                   *)
TryRunLease(x, r) ==
    /\ proc[x] = "interrupting" /\ r \in abandoned[x]
    /\ abandoned' = [abandoned EXCEPT ![x] = @ \ {r}]
    /\ runLease' = [runLease EXCEPT ![r] = IF @ = Nobody THEN x ELSE @]
    /\ UNCHANGED <<durable, opLease, maintenance, proc, owned, pc, tries, job,
                   body, todo, told, faults>>

(* ... and end those whose lease was free and that are RUNNING still.      *)
InterruptAbandoned(x) ==
    /\ proc[x] = "interrupting" /\ abandoned[x] = {}
    /\ runStatus' = [r \in Run |->
          IF runLease[r] = x /\ runStatus[r] = "RUNNING"
          THEN "INTERRUPTED" ELSE runStatus[r]]
    /\ runLease' = [r \in Run |-> IF runLease[r] = x THEN Nobody
                                                     ELSE runLease[r]]
    /\ proc' = [proc EXCEPT ![x] = "up"]
    /\ UNCHANGED <<receipt, rows, manifest, staged, dest, opLease,
                   maintenance, owned, pc, tries, job, body, todo, abandoned,
                   told, faults>>

(* close() or the end of a process whose initialize() raised.              *)
Close(x) ==
    /\ proc[x] \in {"up", "corrupt", "vanished"} /\ pc[x] = "idle"
    /\ DropProcess(x, "down")
    /\ UNCHANGED <<durable, faults>>

(* The process dies, or a call of initialize() raises.                     *)
Crash(x) ==
    /\ proc[x] # "down"
    /\ Fault
    /\ DropProcess(x, "down")
    /\ UNCHANGED durable

-----------------------------------------------------------------------------
RecordStep(x) ==
    \/ LookForManifest(x) \/ LoadManifest(x) \/ TidyOldStaging(x)
    \/ DropOldManifest(x) \/ LookForReceipt(x) \/ WriteManifest(x)
    \/ StageRaw(x) \/ InstallRaw(x) \/ MarkInstalled(x)
    \/ CommitApplied(x) \/ CommitRefused(x)
    \/ ProbeReceipt(x) \/ ProbeFails(x) \/ MarkCommitted(x)
    \/ TidyStaging(x) \/ ReleaseOperation(x) \/ UnlinkManifest(x)
    \/ BusyAgain(x) \/ FailBeforeManifest(x) \/ FailAfterManifest(x)
    \/ UndoRaw(x) \/ UndoStaging(x) \/ UndoManifest(x) \/ UndoFails(x)

StartupStep(x) ==
    \/ EnterRecovery(x) \/ (\E p \in Poll : VisitManifest(x, p))
    \/ LeaseManifest(x) \/ ReconcileManifest(x) \/ TidyRecovered(x)
    \/ ReleaseRecovered(x) \/ UnlinkRecovered(x) \/ LeaveRecovery(x)
    \/ SelectRunning(x) \/ (\E r \in Run : TryRunLease(x, r))
    \/ InterruptAbandoned(x)

CallerStep(x) ==
    \/ Launch(x) \/ Close(x) \/ Crash(x)
    \/ \E r \in Run : \/ StartRun(x, r) \/ StartRunUnacknowledged(x, r)
                      \/ FinishRun(x, r)
    \/ \E p \in Poll, d \in Payload : Begin(x, p, d)

Next == \E x \in Proc : RecordStep(x) \/ StartupStep(x) \/ CallerStep(x)

Spec == Init /\ [][Next]_vars

(* A call that has begun and a start-up that has begun keep running unless *)
(* their process dies; nothing makes a user call, close or restart.        *)
Fairness == \A x \in Proc : WF_vars(RecordStep(x)) /\ WF_vars(StartupStep(x))

FairSpec == Spec /\ Fairness

-----------------------------------------------------------------------------
(* Properties                                                              *)

TypeDurable ==
    /\ runStatus \in [Run -> RunStatus]
    /\ receipt \in [Poll -> Payload \cup {NoPayload}]
    /\ rows \in [Poll -> Nat]
    /\ manifest \in [Poll -> Manifest]
    /\ staged \in [Poll -> SUBSET Payload]
    /\ dest \in [Poll -> SUBSET Payload]

TypeLeases ==
    /\ runLease \in [Run -> Proc \cup {Nobody}]
    /\ opLease \in [Poll -> Proc \cup {Nobody}]
    /\ maintenance \in Proc \cup {Nobody}

TypeLocal ==
    /\ proc \in [Proc -> ProcPhase]
    /\ owned \in [Proc -> SUBSET Run]
    /\ pc \in [Proc -> PC]
    /\ tries \in [Proc -> 0..Attempts - 1]
    /\ job \in [Proc -> Poll]
    /\ body \in [Proc -> Payload]
    /\ todo \in [Proc -> SUBSET Poll]
    /\ abandoned \in [Proc -> SUBSET Run]
    /\ told \in [Proc -> [Poll -> Told]]

TypeOK ==
    TypeDurable /\ TypeLeases /\ TypeLocal /\ faults \in 0..MaxFaults

(* A reader never finds half a poll: a receipt comes with exactly one set  *)
(* of rows and, from the first moment it is visible, with the Raw file     *)
(* those rows name - whatever crashed, failed, was retried or was          *)
(* reconciled by whom; without a receipt there are no rows.                *)
PublishedWhole ==
    \A p \in Poll :
        IF receipt[p] = NoPayload
        THEN rows[p] = 0
        ELSE rows[p] = 1 /\ Raw(receipt[p]) \subseteq dest[p]

(* What record_poll_batch reported stays true: COMMITTED (with or without  *)
(* RECOVERY_PENDING) means the poll is in the database for good, a plain   *)
(* failure means it is not, and only an indeterminate result leaves it     *)
(* open.                                                                   *)
ReportsAreTrue ==
    \A x \in Proc, p \in Poll :
        /\ told[x][p] \in {"committed", "recovery_pending"}
               => receipt[p] # NoPayload
        /\ told[x][p] = "failed" /\ ~ (pc[x] # "idle" /\ job[x] = p)
               => receipt[p] = NoPayload

(* "A failure therefore always leaves a durable startup-recovery anchor":  *)
(* when nobody is working on a poll, a Raw file that no receipt accounts   *)
(* for - published or staged - is named by a manifest that start-up will   *)
(* find.                                                                   *)
LeftoversAnchored ==
    \A p \in Poll :
        /\ opLease[p] = Nobody
        /\ staged[p] # {} \/ ~ dest[p] \subseteq {receipt[p]}
        => manifest[p] # NoManifest

(* The counterpart for a clean COMMITTED: nothing of the operation is left *)
(* on disk except the Raw file itself.                                     *)
CommittedLeavesNothing ==
    \A x \in Proc, p \in Poll :
        told[x][p] = "committed" =>
            /\ staged[p] = {} /\ dest[p] = Raw(receipt[p])
            /\ manifest[p] = NoManifest

(* Start-up never meets a poll state it must refuse: no order of crashes,  *)
(* failures and retries builds one of the states Corrupt describes.        *)
NothingToRefuse == \A x \in Proc : proc[x] # "corrupt"

(* ... and never takes an orderly clean-up by another process for one.     *)
NothingVanishes == \A x \in Proc : proc[x] # "vanished"

(* A run is INTERRUPTED only when no live process owns it, and only its    *)
(* owner finishes it.                                                      *)
OnlyAbandonedInterrupted ==
    [][\A r \in Run :
          /\ runStatus[r] # runStatus'[r] /\ runStatus'[r] = "INTERRUPTED"
                 => \A x \in Proc : r \notin owned[x]
          /\ runStatus[r] # runStatus'[r] /\ runStatus'[r] = "FINISHED"
                 => runLease[r] \in Proc /\ r \in owned[runLease[r]]]_vars

(* A process that comes up has reconciled the store: every manifest that   *)
(* it found and nobody else was working on is gone, with what it anchored, *)
(* and no run is left RUNNING without an owner.  (One process: nobody else *)
(* can have held a lease.)                                                 *)
UpMeansReconciled ==
    [][\A x \in Proc :
          proc[x] # "up" /\ proc'[x] = "up" =>
              /\ \A p \in Poll : /\ manifest'[p] = NoManifest
                                 /\ staged'[p] = {}
                                 /\ dest'[p] \subseteq {receipt'[p]}
              /\ \A r \in Run : runStatus'[r] # "RUNNING"]_vars

(* Every record_poll_batch returns, whatever fails on the way and however  *)
(* long another program keeps the database busy: the commit and the two    *)
(* readings of the receipt are tried again, but not for ever.              *)
CallsReturn == \A x \in Proc : (pc[x] # "idle") ~> (pc[x] = "idle")

(* Every start-up ends: the process comes up or refuses, unless it dies.   *)
StartupEnds ==
    \A x \in Proc :
        (proc[x] = "starting") ~>
        (proc[x] \in {"up", "corrupt", "vanished", "down"})

(* PollStore implements PollLog: readers see a poll appear in one step.    *)
Torn == "torn"
ReaderView ==
    [p \in Poll |-> IF receipt[p] = NoPayload /\ rows[p] = 0
                    THEN NoPayload
                    ELSE IF /\ receipt[p] # NoPayload /\ rows[p] = 1
                            /\ Raw(receipt[p]) \subseteq dest[p]
                         THEN receipt[p] ELSE Torn]

Log == INSTANCE PollLog WITH status <- runStatus, log <- ReaderView
LogSpec == Log!Spec
-----------------------------------------------------------------------------
(* Why it works: the inductive invariant behind PublishedWhole and         *)
(* NothingToRefuse (proved in PollStoreProofs)                             *)

Holding == (RecordPC \ {"unlink"}) \cup RollbackPC
                                  \cup {"sLoad", "sTidy", "sRelease"}

(* Whoever is at work on a poll has its lease, so nobody else is.          *)
HoldsLease(x) == pc[x] \in Holding => opLease[job[x]] = x

(* What a call that has come this far may rely on.                         *)
OnCourse(x) ==
    LET p == job[x] IN
    /\ pc[x] \in {"write", "stage", "install", "mark"}
                 \cup RollbackPC         => receipt[p] = NoPayload
    /\ pc[x] \in {"commit", "probe"}    => receipt[p] \in {NoPayload, body[x]}
    /\ pc[x] \in {"markdb", "tidy", "release"} => receipt[p] = body[x]
    /\ pc[x] \in {"mark", "commit"} => Raw(body[x]) \subseteq dest[p]
    /\ pc[x] = "commit" => manifest[p] \in
            {NoManifest, [phase |-> "INSTALLED", payload |-> body[x]]}

(* A manifest never contradicts the receipt.                               *)
ManifestHonest ==
    \A p \in Poll : manifest[p] # NoManifest =>
        IF receipt[p] = NoPayload
        THEN manifest[p].phase # "DB_COMMITTED"
        ELSE manifest[p].payload = receipt[p] /\ manifest[p].phase # "PREPARED"

StoreInv ==
    /\ TypeOK /\ PublishedWhole /\ ManifestHonest
    /\ \A x \in Proc : HoldsLease(x) /\ OnCourse(x)
=============================================================================
