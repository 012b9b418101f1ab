-------------------------- MODULE StorageReconcile --------------------------
(***************************************************************************)
(* storage/session_store.py, reconcile_storage_health(): the store counts  *)
(* the files under its Raw directory that no row names, while polls go on  *)
(* storing theirs, in this process and in others.                          *)
(*                                                                         *)
(* It reads how many files the rows name and when the directory itself was *)
(* last changed, walks the tree, and reads both again; only if nothing has *)
(* changed, and still has not under the store's lock, it keeps the result. *)
(* Each of these readings is a step: other processes go on between them.   *)
(* Raw files lie in directories below, so that the directory itself        *)
(* changes only when a staging directory in it is made or removed.         *)
(*                                                                         *)
(* The window does not start a deletion or an export while it reconciles,  *)
(* and the maintenance lease keeps other processes from it; polls need     *)
(* neither.  A poll stores one file here, under a name of its own          *)
(* (PollStore has the details).  The exports directory is counted in the   *)
(* same way.                                                               *)
(***************************************************************************)
EXTENDS Integers, FiniteSets

CONSTANTS
    RawFile,         \* the files there may be
    Us, Them,        \* this process and another one
    MaxReconciled,   \* bound: calls of reconcile_storage_health()
    MaxDeletions     \* bound: deletions

ASSUME ReconcileAssumption ==
    /\ IsFiniteSet(RawFile) /\ Us # Them /\ "free" \notin {Us, Them}
    /\ MaxReconciled \in Nat /\ MaxDeletions \in Nat

VARIABLES
    place,        \* where a file is: nowhere, in a staging directory, installed
    named,        \* the files that rows name
    touched,      \* the Raw directory itself was changed since it was last looked at
    unused,       \* the files that were never written
    poll,         \* the poll each process stores: its step and its file
    left,         \* history: the files of polls that were cut short since it began
    lease,        \* who holds the maintenance lease
    unregistered, \* _raw_unregistered_usage, of this process
    recon,        \* reconcile_storage_health(): where it is and what it has read
                  \* (rows, history: the files that rows named at the last reading)
    reconciled,   \* how often it kept a result
    reconciles, deletions
reconcileVars == <<place, named, touched, unused, poll, left, lease, unregistered,
                   recon, reconciled, reconciles, deletions>>

There(f) == place[f] # "none"
NoPoll == [step |-> "none", file |-> {}]
NotReconciling ==
    [at |-> "idle", attempt |-> 0, registered |-> 0,
     toVisit |-> {}, found |-> {}, sized |-> 0, rows |-> {}]

\* What was there before: Raw files with and without a row.
ReconcileInit ==
    /\ place \in [RawFile -> {"none", "installed"}]
    /\ named \in SUBSET {f \in RawFile : There(f)}
    /\ unused = {f \in RawFile : ~There(f)}
    /\ touched = FALSE
    /\ poll = [p \in {Us, Them} |-> NoPoll] /\ left = {}
    /\ lease = "free"
    /\ unregistered = 0
    /\ recon = NotReconciling
    /\ reconciled = 0 /\ reconciles = 0 /\ deletions = 0

-----------------------------------------------------------------------------
(* Polls are stored                                                        *)

resting == <<left, lease, unregistered, recon, reconciled, reconciles, deletions>>
Step(p, step) == poll' = [poll EXCEPT ![p].step = step]
Put(f, where) == place' = [place EXCEPT ![f] = where]

\* record_poll_batch holds this process's lock from here to the commit and the
\* clean-up of the staging directory, but not while it undoes what has failed;
\* reconcile_storage_health holds it over its last two readings.
Locked == poll[Us].step \in {"staged", "installed", "committed"}
ReconcileLocks == recon.at = "locked"

StagePoll(p, f) ==
    /\ poll[p] = NoPoll /\ f \in unused /\ (p = Us => ~ReconcileLocks)
    /\ poll' = [poll EXCEPT ![p] = [step |-> "staged", file |-> {f}]]
    /\ Put(f, "staged") /\ unused' = unused \ {f}
    /\ touched' = TRUE
    /\ UNCHANGED <<named, resting>>

InstallPoll(p) ==
    /\ poll[p].step = "staged" /\ Step(p, "installed")
    /\ \E f \in poll[p].file : Put(f, "installed")
    /\ UNCHANGED <<named, touched, unused, resting>>

CommitPoll(p) ==
    /\ poll[p].step = "installed" /\ Step(p, "committed")
    /\ named' = named \cup poll[p].file
    /\ UNCHANGED <<place, touched, unused, resting>>

TidyPoll(p) ==
    /\ poll[p].step = "committed"
    /\ poll' = [poll EXCEPT ![p] = NoPoll] /\ touched' = TRUE
    /\ UNCHANGED <<place, named, unused, resting>>

\* Anything that raises before the commit: the lock is left.
PollFails(p) ==
    /\ poll[p].step \in {"staged", "installed"} /\ Step(p, "undo")
    /\ UNCHANGED <<place, named, touched, unused, resting>>

UndoPoll(p) ==
    /\ poll[p].step = "undo" /\ Step(p, "undone")
    /\ \E f \in poll[p].file : Put(f, "none")
    /\ UNCHANGED <<named, touched, unused, resting>>

TidyFailedPoll(p) ==
    /\ poll[p].step = "undone"
    /\ poll' = [poll EXCEPT ![p] = NoPoll] /\ touched' = TRUE
    /\ UNCHANGED <<place, named, unused, resting>>

\* Undoing or tidying fails, whether it was committed is not known, or the other
\* process dies: what is there waits for the next start.
LeavePoll(p) ==
    /\ poll[p].step \in {"installed", "committed", "undo"} \/ (p = Them /\ poll[p] # NoPoll)
    /\ poll' = [poll EXCEPT ![p] = NoPoll] /\ left' = left \cup poll[p].file
    /\ UNCHANGED <<place, named, touched, unused, lease, unregistered, recon,
                   reconciled, reconciles, deletions>>

-----------------------------------------------------------------------------
(* Files are deleted, with rows and without                                *)

\* _acquire_file_lease: nobody waits for a lease.
Acquired == lease = "free"

Less(n, m) == IF n > m THEN n - m ELSE 0

\* delete() as a whole: nobody reconciles meanwhile.  The counter of this process
\* is adjusted after its own deletion only.
DeleteFiles(p, gone) ==
    /\ Acquired /\ deletions < MaxDeletions /\ gone # {}
    /\ \A f \in gone : There(f) /\ \A q \in {Us, Them} : f \notin poll[q].file
    /\ place' = [f \in RawFile |-> IF f \in gone THEN "none" ELSE place[f]]
    /\ named' = named \ gone
    /\ unregistered' = IF p = Us THEN Less(unregistered, Cardinality(gone \ named))
                       ELSE unregistered
    /\ touched' = TRUE /\ deletions' = deletions + 1
    /\ UNCHANGED <<unused, poll, left, lease, recon, reconciled, reconciles>>

\* The other process dies when the rows are gone: the files are still aside.
DeletionCutShort(gone) ==
    /\ Acquired /\ deletions < MaxDeletions /\ gone # {} /\ gone \subseteq named
    /\ named' = named \ gone
    /\ touched' = TRUE /\ deletions' = deletions + 1
    /\ UNCHANGED <<place, unused, poll, left, lease, unregistered, recon, reconciled, reconciles>>

-----------------------------------------------------------------------------
(* reconcile_storage_health()                                              *)

world == <<place, named, unused, poll, deletions>>
Goes(at) == recon' = [recon EXCEPT !.at = at]
Going == UNCHANGED <<world, touched, left, lease, unregistered, reconciled, reconciles>>

ReconcileBegins ==
    /\ recon.at = "idle" /\ Acquired /\ reconciles < MaxReconciled
    /\ lease' = Us /\ reconciles' = reconciles + 1
    /\ recon' = [NotReconciling EXCEPT !.at = "registered", !.attempt = 1]
    /\ left' = {}
    /\ UNCHANGED <<world, touched, unregistered, reconciled>>

ReadRegistered ==
    /\ recon.at = "registered"
    /\ recon' = [recon EXCEPT !.registered = Cardinality(named), !.at = "revision"]
    /\ Going

\* _directory_revision
ReadRevision ==
    /\ recon.at = "revision"
    /\ touched' = FALSE
    /\ recon' = [recon EXCEPT !.at = "list", !.toVisit = {"staged", "installed"}]
    /\ UNCHANGED <<world, left, lease, unregistered, reconciled, reconciles>>

\* _scan_regular_files visits the directories in any order; a file that is moved
\* meanwhile may be found twice, or not at all.
List(where) ==
    /\ recon.at = "list" /\ where \in recon.toVisit
    /\ recon' = [recon EXCEPT !.toVisit = @ \ {where},
                   !.found = @ \cup {<<f, where>> : f \in {g \in RawFile : place[g] = where}}]
    /\ Going

Listed == recon.at = "list" /\ recon.toVisit = {} /\ Goes("size") /\ Going

\* _storage_tree_stats: the size of each file found, which must be there still.
SizeFile(f, where) ==
    /\ recon.at = "size" /\ <<f, where>> \in recon.found /\ place[f] = where
    /\ recon' = [recon EXCEPT !.found = @ \ {<<f, where>>}, !.sized = @ + 1]
    /\ Going

Ended == recon' = NotReconciling /\ lease' = "free"

\* Cancelled, or a file is gone.
ReconcileRaises ==
    /\ recon.at # "idle"
    /\ Ended /\ UNCHANGED <<world, touched, left, unregistered, reconciled, reconciles>>

SameRegistered == Cardinality(named) = recon.registered
SameRevision == ~touched

\* A second attempt, and no third.
TryAgain ==
    IF recon.attempt = 1
    THEN /\ recon' = [NotReconciling EXCEPT !.at = "registered", !.attempt = 2]
         /\ UNCHANGED lease
    ELSE Ended

RegisteredAgain ==
    /\ recon.at = "size" /\ recon.found = {}
    /\ IF SameRegistered THEN Goes("again") /\ UNCHANGED lease ELSE TryAgain
    /\ UNCHANGED <<world, touched, left, unregistered, reconciled, reconciles>>

RevisionAgain ==
    /\ recon.at = "again"
    /\ IF SameRevision THEN Goes("keep") /\ UNCHANGED lease ELSE TryAgain
    /\ UNCHANGED <<world, touched, left, unregistered, reconciled, reconciles>>

\* The last comparison is made under the lock that polls of this process hold.
RegisteredUnderLock ==
    /\ recon.at = "keep" /\ ~Locked
    /\ IF SameRegistered
       THEN recon' = [recon EXCEPT !.at = "locked", !.rows = named] /\ UNCHANGED lease
       ELSE TryAgain
    /\ UNCHANGED <<world, touched, left, unregistered, reconciled, reconciles>>

(* MISTAKE: what the rows say is good enough.                              *)
KeepUnchecked ==
    /\ recon.at = "locked"
    /\ unregistered' = Less(recon.sized, recon.registered)
    /\ reconciled' = reconciled + 1 /\ Ended
    /\ UNCHANGED <<world, touched, left, reconciles>>

KeepResult ==
    /\ recon.at = "locked"
    /\ IF SameRevision
       THEN /\ unregistered' = Less(recon.sized, recon.registered)
            /\ reconciled' = reconciled + 1 /\ Ended
       ELSE TryAgain /\ UNCHANGED <<unregistered, reconciled>>
    /\ UNCHANGED <<world, touched, left, reconciles>>

-----------------------------------------------------------------------------
StorePolls ==
    \E p \in {Us, Them} :
        \/ \E f \in unused : StagePoll(p, f)
        \/ InstallPoll(p) \/ CommitPoll(p) \/ TidyPoll(p)
        \/ PollFails(p) \/ UndoPoll(p) \/ TidyFailedPoll(p) \/ LeavePoll(p)

Deletions ==
    \E gone \in SUBSET RawFile :
        DeleteFiles(Us, gone) \/ DeleteFiles(Them, gone) \/ DeletionCutShort(gone)

Reconcile ==
    \/ ReconcileBegins \/ ReadRegistered \/ ReadRevision
    \/ \E where \in recon.toVisit : List(where)
    \/ Listed
    \/ \E e \in recon.found : SizeFile(e[1], e[2])
    \/ RegisteredAgain \/ RevisionAgain \/ RegisteredUnderLock \/ KeepResult
    \/ ReconcileRaises

ReconcileNext == StorePolls \/ Deletions \/ Reconcile

ReconcileSpec == ReconcileInit /\ [][ReconcileNext]_reconcileVars

-----------------------------------------------------------------------------
(* Properties                                                              *)

Orphans == {f \in RawFile : There(f)} \ named
UnderWay == poll[Us].file \cup poll[Them].file

(* What is kept as unregistered is the number of the files that no row     *)
(* names.  Only a file that a poll is writing or undoing at that moment,   *)
(* or that a failed poll has left or undone meanwhile, may or may not be   *)
(* among them; no file is that had its row when the rows were read for the *)
(* last time, however long before it was seen (session_store.py:697-699:   *)
(* "prevents a file observed before its DB row from being cached as an     *)
(* orphan").                                                               *)
OrphansAreCounted ==
    [][reconciled' # reconciled =>
          unregistered' \in
              Cardinality(Orphans \ (UnderWay \cup left))
              .. Cardinality(Orphans \cup ((UnderWay \cup left) \ recon.rows))]_reconcileVars

=============================================================================
