--------------------------- MODULE DeleteHistory ----------------------------
(***************************************************************************)
(* storage/session_store.py: preview_delete(), delete() and what a start   *)
(* does about a deletion that was cut short.                               *)
(*                                                                         *)
(* The operator is shown what will go, and confirms.  delete() looks again *)
(* and moves every file into a directory aside; then one transaction takes *)
(* the rows; then the files are removed.  Before the transaction, anything *)
(* that goes wrong puts the files back.                                    *)
(***************************************************************************)
EXTENDS ManagedFiles

CONSTANT MaxPending   \* _MAX_PENDING_DELETIONS

ASSUME PendingAssumption == MaxPending \in Nat \ {0}

VARIABLES
    pending,   \* _pending_deletions: the previews that may be confirmed
    del        \* the delete() at work: step, operation, target, what it
               \* deletes, what was shown, and the files it cannot put back

NoDelete == [at |-> "idle", op |-> 0, target |-> All,
             snap |-> [runs |-> {}, files |-> [p \in {} |-> 0]],
             shown |-> [p \in {} |-> 0], kept |-> {}]

DeleteInit == pending = {} /\ del = NoDelete

-----------------------------------------------------------------------------
(* What a deletion comprises                                               *)

RunsOf(target) == IF target = All THEN runs ELSE {target}

Registered(target) == {f \in File : rows[f].run \in RunsOf(target)}

\* the directory of the run, or both roots but for directories aside
Scanned(target) ==
    IF target = All THEN {p \in Inside : here[p] # 0}
    ELSE {f \in Raw : RawOf[f] = target /\ here[f] # 0}

\* _deletion_database_state refuses a run that is unknown or RUNNING.
Deletable(target) == RunsOf(target) \subseteq runs \ running

\* _collect_deletion_snapshot; the content stands for hash and identity.
Snapshot(target) ==
    [runs  |-> RunsOf(target),
     files |-> [p \in Registered(target) \cup Scanned(target) |->
                 [content |-> here[p], registered |-> p \in Registered(target)]]]

\* _require_deletion_database_state
Unchanged(target, snap) ==
    /\ Deletable(target) /\ RunsOf(target) = snap.runs
    /\ Registered(target) = {p \in DOMAIN snap.files : snap.files[p].registered}

Preview(target) ==
    /\ up = "up" /\ Deletable(target) /\ Cardinality(pending) < MaxPending
    /\ pending' = pending \cup {[target |-> target, snap |-> Snapshot(target)]}
    /\ UNCHANGED <<files, del>>

\* discarded, or its five minutes are over
Discard(p) == p \in pending /\ pending' = pending \ {p} /\ UNCHANGED <<files, del>>

-----------------------------------------------------------------------------
(* delete()                                                                *)

(* The preview is used up, whether or not the maintenance lease is free.   *)
Confirm(p) ==
    /\ up = "up" /\ del.at = "idle" /\ p \in pending /\ NewOp
    /\ pending' = pending \ {p}
    /\ IF maintenance = "free"
       THEN /\ maintenance' = "delete"
            /\ del' = [NoDelete EXCEPT !.at = "check", !.op = ops',
                                       !.target = p.target, !.snap = p.snap,
                                       !.shown = p.snap.files]
       ELSE UNCHANGED <<maintenance, del>>
    /\ UNCHANGED <<db, disk, start, faults, crashes, detached, attached, wish>>

(* MISTAKE: the confirmed preview is not compared with what is there       *)
NotChecked ==
    /\ del.at = "check" /\ Deletable(del.target)
    /\ Written(del.op, [kind |-> "delete", files |-> Snapshot(del.target).files])
    /\ del' = [del EXCEPT !.at = "stage", !.snap = Snapshot(del.target)]
    /\ UNCHANGED <<db, here, aside, owners, maintenance, start, counts, wish, pending>>

(* Nothing has changed since; the manifest names every file.               *)
Check ==
    /\ del.at = "check"
    /\ Deletable(del.target) /\ Snapshot(del.target) = del.snap
    /\ Written(del.op, [kind |-> "delete", files |-> del.snap.files])
    /\ del' = [del EXCEPT !.at = "stage"]
    /\ UNCHANGED <<db, here, aside, owners, maintenance, start, counts, wish, pending>>

Put(o, p)  == aside' = [aside EXCEPT ![o][p] = here[p]]
Away(o, p) == aside' = [aside EXCEPT ![o][p] = 0]

\* files that are there and not yet aside
ToStage == {p \in DOMAIN del.snap.files :
              del.snap.files[p].content # 0 /\ aside[del.op][p] = 0}

Stage(p) ==
    /\ del.at = "stage" /\ p \in ToStage
    /\ here[p] = del.snap.files[p].content
    /\ Put(del.op, p) /\ Unlinked(p)
    /\ UNCHANGED <<db, manifest, owners, maintenance, start, counts, wish, pending, del>>

(* _require_no_new_deletion_files                                          *)
AllStaged ==
    /\ del.at = "stage" /\ ToStage = {} /\ Scanned(del.target) = {}
    /\ del' = [del EXCEPT !.at = "commit"]
    /\ UNCHANGED <<files, pending>>

\* what the operator has confirmed: the file, or its backup, as it is, or a
\* file of which a deletion, this or an earlier one, has put aside what it was
Shown(f) ==
    \/ \E p \in DOMAIN del.shown :
          /\ \/ p = f
             \/ \E o \in Op : /\ manifest[o].kind = "export" /\ manifest[o].dest = f
                              /\ p = Backup("export", o)
          /\ del.shown[p].content \in {0, owed[f]}
    \/ f \in DOMAIN del.shown /\ \E o \in Op : aside[o][f] = owed[f]

\* DELETE FROM runs takes the rows with it.
RowsGo ==
    /\ runs' = runs \ del.snap.runs
    /\ rows' = [f \in File |-> IF rows[f].run \in del.snap.runs THEN NoRow ELSE rows[f]]
    /\ owed' = [f \in File |-> IF Shown(f) THEN 0 ELSE owed[f]]

Commit ==
    /\ del.at = "commit" /\ Unchanged(del.target, del.snap) /\ RowsGo
    /\ del' = [del EXCEPT !.at = "purge"]
    /\ UNCHANGED <<born, running, receipts, disk, maintenance, start, counts, doubted,
                   overtaken, pending>>

(* The transaction is applied, and raises.                                 *)
CommitInDoubt ==
    /\ del.at = "commit" /\ Unchanged(del.target, del.snap) /\ RowsGo /\ Faulty
    /\ del' = [del EXCEPT !.at = "restore"]
    /\ UNCHANGED <<born, running, receipts, disk, maintenance, start, ops, crashes,
                   detached, attached, doubted, overtaken, pending>>

(* Something has changed, the operator cancels, or a file cannot be moved. *)
GiveUp ==
    /\ del.at \in {"check", "stage", "commit"}
    /\ del' = [del EXCEPT !.at = "restore"]
    /\ UNCHANGED <<files, pending>>

-----------------------------------------------------------------------------
(* _restore_staged_files: each file that can be is put back ...            *)

ToRestore == {p \in Path : aside[del.op][p] # 0} \ del.kept

Restore(p) ==
    /\ del.at = "restore" /\ p \in ToRestore
    /\ \/ /\ here[p] = 0
          /\ here' = [here EXCEPT ![p] = aside[del.op][p]] /\ Away(del.op, p)
          /\ UNCHANGED <<del, faults>>
       \/ /\ here[p] # 0 \/ Trouble
          /\ faults' = IF here[p] # 0 THEN faults ELSE faults + 1
          /\ del' = [del EXCEPT !.kept = @ \cup {p}]
          /\ UNCHANGED <<here, aside>>
    /\ UNCHANGED <<db, manifest, owners, maintenance, start, ops, crashes, detached,
                   attached, wish, pending>>

(* MISTAKE: the manifest is removed although a file could not be put back  *)
ForgetKept ==
    /\ del.at = "restore" /\ ToRestore = {}
    /\ Written(del.op, NoManifest)
    /\ maintenance' = "free" /\ del' = NoDelete
    /\ UNCHANGED <<db, here, aside, owners, start, counts, wish, pending>>

(* ... and the manifest is kept for the next start if one could not.       *)
Restored ==
    /\ del.at = "restore" /\ ToRestore = {}
    /\ IF del.kept = {} THEN Written(del.op, NoManifest) ELSE UNCHANGED manifest
    /\ maintenance' = "free" /\ del' = NoDelete
    /\ UNCHANGED <<db, here, aside, owners, start, counts, wish, pending>>

(* _purge_staged_files, one by one; a failure leaves the rest to the start.*)
Purge(p) ==
    /\ del.at = "purge" /\ aside[del.op][p] # 0 /\ Away(del.op, p)
    /\ UNCHANGED <<db, here, manifest, owners, maintenance, start, counts, wish,
                   pending, del>>

Purged ==
    /\ del.at = "purge"
    /\ \/ /\ \A p \in Path : aside[del.op][p] = 0
          /\ Written(del.op, NoManifest) /\ UNCHANGED faults
       \/ Faulty /\ UNCHANGED manifest
    /\ maintenance' = "free" /\ del' = NoDelete
    /\ UNCHANGED <<db, here, aside, owners, start, ops, crashes, detached, attached,
                   wish, pending>>

-----------------------------------------------------------------------------
(* The next start                                                          *)

\* should_restore: a row names it still, or none ever did
ShouldRestore(o, p) == manifest[o].files[p].registered => rows[p] # NoRow

Unreconcilable(o, p) ==
    LET was  == manifest[o].files[p].content
        is   == here[p]
        kept == aside[o][p] IN
    \/ was = 0 /\ (is # 0 \/ kept # 0)
    \/ was # 0 /\ (is \notin {0, was} \/ kept \notin {0, was})
    \/ was # 0 /\ ShouldRestore(o, p) /\ is = 0 /\ kept = 0
    \/ was # 0 /\ ~ ShouldRestore(o, p) /\ is # 0

(* MISTAKE: what was aside is removed, whether or not the rows are gone    *)
ReconcilePurges(p) ==
    /\ rec.at = "deletes" /\ p \in rec.todo /\ ~ Unreconcilable(rec.op, p)
    /\ Away(rec.op, p) /\ UNCHANGED here
    /\ rec' = [rec EXCEPT !.todo = @ \ {p}]
    /\ UNCHANGED <<db, manifest, owners, maintenance, up, waiting, counts, wish,
                   pending, del>>

(* _reconcile_deleted_file                                                 *)
Reconcile(p) ==
    /\ rec.at = "deletes" /\ p \in rec.todo /\ ~ Unreconcilable(rec.op, p)
    /\ here' = [here EXCEPT ![p] =
                  IF @ = 0 /\ ShouldRestore(rec.op, p) THEN aside[rec.op][p] ELSE @]
    /\ Away(rec.op, p)
    /\ rec' = [rec EXCEPT !.todo = @ \ {p}]
    /\ UNCHANGED <<db, manifest, owners, maintenance, up, waiting, counts, wish,
                   pending, del>>

Reconciled ==
    /\ rec.at = "deletes" /\ rec.op # 0 /\ rec.todo = {}
    /\ Written(rec.op, NoManifest)
    /\ rec' = [rec EXCEPT !.op = 0]
    /\ UNCHANGED <<db, here, aside, owners, maintenance, up, waiting, counts, wish,
                   pending, del>>

DeleteNext ==
    \/ \E t \in Run \cup {All} : Preview(t)
    \/ \E p \in pending : Discard(p) \/ Confirm(p)
    \/ Check \/ AllStaged \/ Commit \/ CommitInDoubt \/ GiveUp
    \/ \E p \in Path : Stage(p) \/ Restore(p) \/ Purge(p) \/ Reconcile(p)
    \/ Restored \/ Purged \/ Reconciled

=============================================================================
