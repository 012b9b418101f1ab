---------------------------- MODULE HistoryFiles ----------------------------
(***************************************************************************)
(* storage/session_store.py: deletions and exports together, and the start *)
(* that finds what a crash has left of them (_recover_operations).         *)
(***************************************************************************)
EXTENDS DeleteHistory, ExportFile

vars == <<files, pending, del, exp>>

Init == FilesInit /\ DeleteInit /\ ExportInit

-----------------------------------------------------------------------------
(* Crash and start                                                         *)

Crash ==
    /\ up = "up" \/ rec.at # "none"
    /\ Trouble /\ crashes' = crashes + 1
    /\ up' = "down" /\ rec' = NoRecovery /\ waiting' = {} /\ maintenance' = "free"
    /\ pending' = {} /\ del' = NoDelete /\ exp' = NoExport
    /\ UNCHANGED <<db, disk, ops, faults, detached, attached, wish>>

(* initialize(), or retry_pending_external_recoveries() later on: both run *)
(* the whole recovery.                                                     *)
RecoveryBegins ==
    /\ maintenance = "free" /\ rec.at = "none"
    /\ up = "down" \/ (up = "up" /\ waiting # {})
    /\ maintenance' = "recovery" /\ waiting' = {}
    /\ rec' = [NoRecovery EXCEPT !.at = "deletes", !.before = waiting]
    /\ UNCHANGED <<db, disk, up, counts, wish, pending, del, exp>>

\* manifests whose operation is not at work
Left(kinds) == {o \in Op : manifest[o].kind \in kinds} \ {exp.op, del.op}

NextDelete(o) ==
    /\ rec.at = "deletes" /\ rec.op = 0 /\ o \in Left({"delete"})
    /\ rec' = [rec EXCEPT !.op = o, !.todo = DOMAIN manifest[o].files]
    /\ UNCHANGED <<db, disk, maintenance, up, waiting, counts, wish, pending, del, exp>>

(* MISTAKE: the manifests are taken as they come                           *)
NoDeletesFirst ==
    /\ rec.at = "deletes" /\ rec.op = 0
    /\ rec' = [rec EXCEPT !.at = "exports"]
    /\ UNCHANGED <<db, disk, maintenance, up, waiting, counts, wish, pending, del, exp>>

(* Every deletion first, then everything else.                             *)
DeletesDone ==
    /\ rec.at = "deletes" /\ rec.op = 0 /\ Left({"delete"}) = {}
    /\ rec' = [rec EXCEPT !.at = "exports"]
    /\ UNCHANGED <<db, disk, maintenance, up, waiting, counts, wish, pending, del, exp>>

(* _recover_raw_batch_manifest of a batch that was stored: the run and its *)
(* row are there and the file is, or the run was deleted since.            *)
RawLost(o) ==
    LET f == manifest[o].file IN
    IF rows[f] = NoRow THEN RawOf[f] \in runs
    ELSE here[f] # rows[f].content

RecoverRaw(o) ==
    LET f == manifest[o].file IN
    /\ rec.at = "exports" /\ o \in Left({"raw_batch"}) /\ ~ RawLost(o)
    /\ IF rows[f] = NoRow THEN Unlinked(f) ELSE UNCHANGED here
    /\ Written(o, NoManifest)
    /\ UNCHANGED <<db, aside, owners, maintenance, start, counts, wish, pending, del, exp>>

(* Ownership records, then receipts, that no manifest speaks of.           *)
Orphans ==
    /\ rec.at = "exports"
    /\ Left(Kind \cup {"raw_batch"}) \subseteq waiting
    /\ owners' = {o \in owners : manifest[o] # NoManifest \/ o = exp.op}
    /\ receipts' = {o \in receipts : manifest[o] # NoManifest \/ o = exp.op}
    /\ rec' = NoRecovery /\ maintenance' = "free" /\ up' = "up"
    /\ running' = IF up = "down" THEN {} ELSE running
    /\ UNCHANGED <<runs, born, rows, here, aside, manifest, waiting, counts, wish,
                   pending, del, exp>>

Blocked(o) ==
    LET m == manifest[o] IN
    \/ rec.at = "exports" /\ m.kind = "raw_batch" /\ RawLost(o)
    \/ /\ rec.at = "exports" /\ m.kind \in Kind /\ Reachable(m.kind) /\ o \notin waiting
       /\ Unrecoverable(o, m, Staged(m.kind, o), Backup(m.kind, o))
    \/ /\ rec.at = "deletes" /\ rec.op = o
       /\ \E p \in rec.todo : Unreconcilable(o, p)

\* what a retry that fails puts back: what was waiting before and is still there
StillWaiting == {o \in rec.before : manifest[o] # NoManifest}

(* What recovery finds makes no sense to it: the start fails, and will.    *)
Stuck ==
    /\ \E o \in Op \ {exp.op, del.op} : Blocked(o)
    /\ maintenance' = "free" /\ rec' = NoRecovery
    /\ up' = IF up = "down" THEN "stuck" ELSE up
    /\ waiting' = waiting \cup StillWaiting
    /\ UNCHANGED <<db, disk, counts, wish, pending, del, exp>>

Next ==
    \/ DeleteNext /\ UNCHANGED exp
    \/ ExportNext /\ UNCHANGED <<pending, del>>
    \/ (\E r \in Run : RunBegins(r) \/ RunEnds(r)) /\ UNCHANGED <<pending, del, exp>>
    \/ (\E f \in Raw : Poll(f)) /\ UNCHANGED <<pending, del, exp>>
    \/ (Detach \/ Attach) /\ UNCHANGED <<pending, del, exp>>
    \/ Crash \/ RecoveryBegins \/ DeletesDone \/ Orphans \/ Stuck
    \/ \E o \in Op : NextDelete(o) \/ RecoverRaw(o)

Spec == Init /\ [][Next]_vars

-----------------------------------------------------------------------------
(* Properties                                                              *)

TypeOK ==
    /\ running \subseteq runs /\ runs \subseteq born /\ born \subseteq Run
    /\ rows \in [File -> [run : Run \cup {None}, content : Nat]]
    /\ here \in [Path -> Nat] /\ aside \in [Op -> [Path -> Nat]]
    /\ receipts \subseteq Op /\ owners \subseteq Op /\ waiting \subseteq Op
    /\ owed \in [File -> Nat] /\ doubted \subseteq File
    /\ maintenance \in {"free", "delete", "export", "recovery"}
    /\ up \in {"down", "up", "stuck"}

\* content c of path p is there, or aside where a manifest says so
Found(p, c) ==
    \/ here[p] = c
    \/ \E o \in Op : /\ manifest[o].kind = "delete" /\ p \in DOMAIN manifest[o].files
                     /\ aside[o][p] = c

(* No file is lost that was not confirmed for deletion or replaced by a    *)
(* recorded report: at every moment, whatever crashed or failed, it is in  *)
(* its place, or where a manifest leads the next start to it.              *)
NothingLost ==
    \A f \in File : owed[f] # 0 =>
        \/ Found(f, owed[f])
        \/ \E o \in Op : /\ manifest[o].kind \in Kind /\ manifest[o].dest = f
                         /\ Found(Backup(manifest[o].kind, o), owed[f])

(* When nothing is under way and nothing left to recover, every row has    *)
(* the file it describes (but for files whose row was in doubt), nothing   *)
(* is set aside, and no hidden file of ours is left on the outside drive.  *)
RestIsWhole ==
    (up = "up" /\ maintenance = "free" /\ exp.at = "idle" /\ del.at = "idle"
       /\ \A o \in Op : manifest[o] = NoManifest)
    => /\ \A f \in File \ doubted : rows[f] # NoRow => here[f] = rows[f].content
       /\ \A o \in Op, p \in Path : aside[o][p] = 0
       /\ \A p \in Hidden("external_export") : here[p] = 0

\* a full deletion had removed a file that no row named before it was cut short
HalfPurged ==
    \E o \in Op : /\ manifest[o].kind = "delete"
                  /\ \E p \in DOMAIN manifest[o].files :
                        ~ manifest[o].files[p].registered /\ ~ Found(p, manifest[o].files[p].content)

(* Crashes alone, at whatever step, and a drive that goes away never keep  *)
(* the store from starting, but for two cases: HalfPurged, and a report    *)
(* exported again before an export the drive cut short is undone.          *)
CrashesAreSurvived == up = "stuck" => faults > 0 \/ HalfPurged \/ overtaken

(* "Restore or finish every delete first": the start does.                 *)
DeletesAreFinished == up # "stuck"

=============================================================================
