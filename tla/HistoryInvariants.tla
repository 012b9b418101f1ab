-------------------------- MODULE HistoryInvariants --------------------------
(***************************************************************************)
(* What every state of HistoryFiles has in common: the inductive           *)
(* invariants that HistoryFilesProofs is about.                            *)
(*                                                                         *)
(* FilesInv holds whatever happens.  CalmInv holds as long as only crashes *)
(* and losses of the drive outside have happened: then every manifest is   *)
(* of something at work, or of something that a start can settle.          *)
(***************************************************************************)
EXTENDS HistoryFiles

-----------------------------------------------------------------------------
(* The inductive invariant: forms                                          *)

\* rows, phases and targets
RowForm == [run : Run \cup {None}, content : Nat]
Phases == {"PREPARED", "RENDERED", "INSTALLED", "DB_COMMITTED"}
Target == Run \cup {All}

\* what a deletion writes down: only what we registered has a row
IsSnapshot(s) ==
    /\ s = [p \in DOMAIN s |-> s[p]] /\ DOMAIN s \subseteq File \cup Inside
    /\ \A p \in DOMAIN s : s[p] \in [content : Nat, registered : BOOLEAN]
    /\ \A p \in DOMAIN s : s[p].registered => p \in File \ Outside

\* the manifest of an export, and of anything
IsExporting(m) ==
    /\ m.kind \in Kind
    /\ m = [kind |-> m.kind, phase |-> m.phase, run |-> m.run, dest |-> m.dest,
            prev |-> m.prev, row |-> m.row]
    /\ m.phase \in Phases /\ m.run \in Run /\ m.dest \in Report \cup Outside
    /\ (m.kind = "external_export") <=> (m.dest \in Outside)
    /\ m.prev \in Nat /\ m.row \in RowForm

IsManifest(m) ==
    \/ m = NoManifest
    \/ /\ m.kind = "raw_batch" /\ m = [kind |-> "raw_batch", file |-> m.file]
       /\ m.file \in Raw
    \/ /\ m.kind = "delete" /\ m = [kind |-> "delete", files |-> m.files]
       /\ IsSnapshot(m.files)
    \/ IsExporting(m)

ExportAt == {"idle", "prepare", "render", "ready", "discard", "announce", "backup",
             "install", "mark", "record", "confirm", "clean", "rollback"}

\* the operations at work
IsExport(e) ==
    /\ e = [at |-> e.at, op |-> e.op, kind |-> e.kind, run |-> e.run, dest |-> e.dest,
            prev |-> e.prev, row |-> e.row, installed |-> e.installed]
    /\ e.at \in ExportAt /\ e.op \in 0..MaxOps /\ e.kind \in Kind
    /\ e.prev \in Nat /\ e.row \in RowForm /\ e.installed \in BOOLEAN
    /\ e.at # "idle" => /\ e.op \in Op /\ e.run \in Run /\ e.dest \in Report \cup Outside
                        /\ (e.kind = "external_export") <=> (e.dest \in Outside)
    /\ e.at = "idle" => e.op = 0

IsDelete(d) ==
    /\ d = [at |-> d.at, op |-> d.op, target |-> d.target, snap |-> d.snap,
            shown |-> d.shown, kept |-> d.kept]
    /\ d.at \in {"idle", "check", "stage", "commit", "restore", "purge"}
    /\ d.op \in 0..MaxOps /\ d.target \in Target
    /\ d.at # "idle" => d.op \in Op /\ d.shown = d.snap.files
    /\ d.at = "idle" => d.op = 0

IsRecovery(r) ==
    /\ r = [at |-> r.at, op |-> r.op, todo |-> r.todo, before |-> r.before]
    /\ r.at \in {"none", "deletes", "exports"} /\ r.op \in 0..MaxOps
    /\ r.before \subseteq Op

\* counts, flags, and the forms of what the variables hold
Numbers ==
    ops \in 0..MaxOps /\ faults \in Nat /\ crashes \in Nat /\ detached \in Nat
Flags == attached \in BOOLEAN /\ overtaken \in BOOLEAN

Manifests == manifest = [o \in Op |-> manifest[o]] /\ \A o \in Op : IsManifest(manifest[o])

ExportForm   == IsExport(exp)
DeleteForm   == IsDelete(del)
RecoveryForm == IsRecovery(rec)
PendingForm  == \A p \in pending : p.target \in Target

-----------------------------------------------------------------------------
(* Leases and numbers                                                      *)

\* an export at one of these steps has the maintenance lease
Leased == {"announce", "backup", "install", "mark", "record", "confirm", "clean",
           "rollback"}

\* whoever is at work with the lease is the one it is given to
Leases ==
    /\ exp.at \in Leased => maintenance = "export"
    /\ del.at # "idle" => maintenance = "delete"
    /\ rec.at # "none" => maintenance = "recovery"
    /\ up # "up" => exp.at = "idle" /\ del.at = "idle"

\* the new report is not at its place
Early == {"prepare", "render", "ready", "discard", "announce", "backup", "install"}

\* the highest content there can be
Limit == IF exp.at = "idle" THEN NewContent(ops)
         ELSE IF exp.at \in Early THEN exp.op ELSE NewContent(exp.op)

\* an operation has a number of its own; an export at work is the youngest
\* of those that left a manifest
FreshOps ==
    /\ exp.op <= ops /\ del.op <= ops
    /\ exp.at # "idle" /\ del.at # "idle" => exp.op # del.op
    /\ \A o \in Op : o > ops => manifest[o] = NoManifest
    /\ \A o \in receipts : o <= ops
    /\ exp.at # "idle" => \A o \in Op : manifest[o].kind \in Kind => o <= exp.op

\* no file, row or debt has a content that is not written yet
FreshFiles ==
    \A f \in File : /\ here[f] <= Limit /\ owed[f] <= Limit /\ rows[f].content <= Limit
                    /\ \A o \in Op : aside[o][f] <= Limit

\* a hidden file holds what its operation writes, or something older
FreshHidden ==
    /\ \A k \in Kind, o \in Op :
          /\ here[Staged(k, o)] \in {0, NewContent(o)}
          /\ here[Backup(k, o)] < NewContent(o)
          /\ \A o1 \in Op : /\ aside[o1][Staged(k, o)] \in {0, NewContent(o)}
                            /\ aside[o1][Backup(k, o)] < NewContent(o)
    /\ \A o \in Op : manifest[o].kind \in Kind => manifest[o].prev < NewContent(o)
    /\ exp.at # "idle" => exp.prev <= exp.op

\* ... and there is no backup before the operation
Unused ==
    \A k \in Kind, o \in Op : o > ops =>
        here[Backup(k, o)] = 0 /\ \A o1 \in Op : aside[o1][Backup(k, o)] = 0

\* what is aside is named by the manifest of a deletion
Named ==
    \A o \in Op, p \in Path :
        aside[o][p] # 0 => manifest[o].kind = "delete" /\ p \in DOMAIN manifest[o].files

\* a hidden file on the drive outside is named by the manifest of its export
NamedOutside ==
    \A o \in Op :
        here[Staged("external_export", o)] # 0 \/ here[Backup("external_export", o)] # 0
           => manifest[o].kind = "external_export"

-----------------------------------------------------------------------------
(* Exports                                                                 *)

\* the manifest of the export at work
ManifestAtWork ==
    exp.at # "idle" =>
    /\ exp.at = "prepare" => manifest[exp.op] = NoManifest /\ exp.op \notin receipts
    /\ exp.at \in {"render", "ready", "announce", "backup", "install", "mark", "record",
                   "confirm"} => manifest[exp.op] # NoManifest
    /\ manifest[exp.op] # NoManifest =>
         /\ manifest[exp.op].kind = exp.kind
         /\ manifest[exp.op].dest = exp.dest /\ manifest[exp.op].run = exp.run

\* where its files are
FilesAtWork ==
    exp.at # "idle" =>
    /\ \A o \in Op : aside[o][B] = 0
    /\ exp.at \in {"prepare", "render", "ready", "discard", "announce", "backup"} => here[B] = 0
    /\ exp.at \in {"announce", "backup", "install"} => here[S] = New
    /\ exp.at \in {"announce", "backup"} => here[D] = exp.prev
    /\ exp.at = "install" => here[D] = 0 /\ here[B] = exp.prev
    /\ exp.at \in {"mark", "record", "confirm", "clean"} => here[D] = New /\ here[S] = 0
    /\ exp.at \in {"confirm", "clean"} => owed[D] = New
    /\ exp.at \in {"mark", "record", "rollback"} => here[B] \in {0, exp.prev} /\ owed[D] # New

\* the row of its destination is the one it has noted; a report that was
\* there without a row is not owed under that content
RowAtWork ==
    exp.kind = "export" =>
    /\ exp.at \in {"announce", "backup", "install", "mark", "record"} =>
          rows[D].content = exp.row.content
    /\ exp.at = "rollback" => rows[D].content = exp.row.content \/ owed[D] = 0
    /\ exp.at \in Leased =>
          /\ exp.row.content \in {0, exp.prev}
          /\ exp.row.content = 0 /\ exp.prev >= 2 => owed[D] # exp.prev

\* a receipt is there from the record on, and says that older files are not owed
Receipts ==
    \A o \in Op : manifest[o].kind = "external_export" =>
        /\ \A f \in File : owed[f] = NewContent(o) => o \in receipts
        /\ o \in receipts =>
              owed[manifest[o].dest] = 0 \/ owed[manifest[o].dest] >= NewContent(o)

\* a row's file is owed, unless its commit was not answered
RowsOwed ==
    \A f \in File : rows[f] # NoRow =>
        /\ rows[f].content # 0 /\ rows[f].run \in runs /\ f \notin Outside
        /\ owed[f] \in {0, rows[f].content}
        /\ f \notin doubted => owed[f] # 0

\* Raw output is written once, and never without a row
RawFiles ==
    \A f \in Raw :
        /\ rows[f] # NoRow => rows[f].run = RawOf[f]
        /\ f \notin doubted
        /\ owed[f] # 0 => rows[f] # NoRow
        /\ here[f] <= 1 /\ owed[f] <= 1 /\ rows[f].content <= 1
        /\ \A o \in Op : aside[o][f] <= 1

\* an export's row is of the run of its manifest
RunOfRow ==
    \A o \in Op : /\ manifest[o].kind = "export"
                  /\ rows[manifest[o].dest].content = NewContent(o)
        => rows[manifest[o].dest].run = manifest[o].run

\* a report whose row is gone though it was not shown is in a backup only
Unshown ==
    \A f \in Report : owed[f] >= 2 /\ rows[f] = NoRow =>
        here[f] # owed[f] /\ \A o \in Op : aside[o][f] # owed[f]

\* an export that was cut short has noted the row as RowAtWork says
OldRows ==
    \A o \in Op : manifest[o].kind = "export" /\ manifest[o].phase # "PREPARED" =>
        /\ manifest[o].row.content \in {0, manifest[o].prev}
        /\ manifest[o].row.content = 0 /\ manifest[o].prev >= 2
              => owed[manifest[o].dest] # manifest[o].prev

-----------------------------------------------------------------------------
(* Deletions                                                               *)

\* what is aside of a file whose row is gone is not owed
GoneRows ==
    \A o \in Op : manifest[o].kind = "delete" =>
        \A p \in DOMAIN manifest[o].files :
            manifest[o].files[p].registered /\ rows[p] = NoRow =>
                owed[p] = 0 \/ aside[o][p] # owed[p]

\* before its transaction: rows are there, and what is aside is what was shown
Deleting ==
    /\ del.at # "idle" => manifest[del.op].kind \in {"none", "delete"}
    /\ del.at = "check" => manifest[del.op] = NoManifest
    /\ del.at \in {"stage", "commit"} =>
        /\ manifest[del.op] = [kind |-> "delete", files |-> del.snap.files]
        /\ \A p \in DOMAIN del.snap.files :
              /\ del.snap.files[p].registered => rows[p] # NoRow
              /\ aside[del.op][p] \in {0, del.snap.files[p].content}
              /\ del.target # All => p \in File /\
                   (del.snap.files[p].registered \/ (p \in Raw /\ RawOf[p] = del.target))
              /\ p \in Report /\ (del.snap.files[p].content = 0 \/ aside[del.op][p] # 0)
                    => here[p] = 0
    /\ del.at = "commit" => \A p \in DOMAIN del.snap.files :
              aside[del.op][p] = del.snap.files[p].content

\* after its transaction: nothing that is aside is owed
Purging ==
    del.at = "purge" =>
        /\ \A f \in File : owed[f] # 0 => aside[del.op][f] # owed[f]
        /\ \A o \in Op : manifest[o].kind \in Kind /\ owed[manifest[o].dest] # 0 =>
              aside[del.op][Backup(manifest[o].kind, o)] # owed[manifest[o].dest]

\* the start finishes deletions first, and what is aside of one is still to do
Recovering ==
    /\ rec.at = "exports" => \A o \in Op : manifest[o].kind # "delete"
    /\ rec.op = 0 => rec.todo = {}
    /\ rec.at = "deletes" /\ rec.op # 0 =>
          /\ manifest[rec.op].kind = "delete"
          /\ rec.todo \subseteq DOMAIN manifest[rec.op].files
          /\ \A p \in Path : aside[rec.op][p] # 0 => p \in rec.todo

(* The inductive invariant.                                                *)
FilesInv ==
    /\ TypeOK /\ Numbers /\ Flags /\ Manifests /\ ExportForm /\ DeleteForm /\ RecoveryForm
    /\ PendingForm /\ Leases /\ FreshOps /\ FreshFiles /\ FreshHidden /\ Unused /\ Named
    /\ NamedOutside /\ ManifestAtWork /\ FilesAtWork /\ RowAtWork /\ Receipts
    /\ RowsOwed /\ RawFiles /\ RunOfRow /\ Unshown /\ OldRows /\ GoneRows /\ Deleting
    /\ Purging /\ Recovering /\ NothingLost

-----------------------------------------------------------------------------
(* Crashes alone                                                           *)

\* nothing has failed, and no export was overtaken by another
Calm == faults = 0 /\ ~ overtaken

\* whoever waits for the drive is an external export, and not at work
WaitingOutside ==
    \A o \in waiting \cup rec.before :
        /\ o <= ops /\ manifest[o].kind \in {"none", "external_export"}
        /\ exp.at # "idle" => o # exp.op
        /\ del.at # "idle" => o # del.op

\* a deletion is at work, or was cut short by a crash
OneDeletion ==
    /\ \A o \in Op : manifest[o].kind = "delete" /\ up = "up" => del.at # "idle" /\ o = del.op
    /\ \A o1, o2 \in Op : manifest[o1].kind = "delete" /\ manifest[o2].kind = "delete" => o1 = o2

\* ... and so is an export to the exports root
OneExport ==
    \A o \in Op : manifest[o].kind = "export" /\ up = "up" => exp.at # "idle" /\ o = exp.op

\* no deletion is under way beside an export that has begun to move files
Apart ==
    \A o1, o2 \in Op : manifest[o1].kind = "delete" /\ manifest[o2].kind = "export" =>
        manifest[o2].phase = "PREPARED"

\* exports that are at work or were cut short have destinations of their own
Destinations ==
    /\ \A o1, o2 \in Op : (/\ manifest[o1].kind \in Kind /\ manifest[o2].kind \in Kind
                           /\ manifest[o1].dest = manifest[o2].dest) => o1 = o2
    /\ exp.at # "idle" =>
          \A o \in Op : (manifest[o].kind \in Kind /\ manifest[o].dest = exp.dest) => o = exp.op

\* path p of deletion o is in its place or aside, with its row, or was purged
InOnePlace(o, p) ==
    LET was == manifest[o].files[p].content
        reg == manifest[o].files[p].registered IN
    /\ was # 0 /\ p \notin Outside
    /\ here[p] \in {0, was} /\ aside[o][p] \in {0, was} /\ (here[p] = 0 \/ aside[o][p] = 0)
    /\ reg /\ rows[p] # NoRow => here[p] # 0 \/ aside[o][p] # 0
    /\ reg /\ rows[p] = NoRow => here[p] = 0
    /\ p \in Raw => reg
    /\ p \in Raw /\ rows[p] = NoRow => RawOf[p] \in born \ runs

DeletedFiles ==
    \A o \in Op : manifest[o].kind = "delete" =>
        \A p \in DOMAIN manifest[o].files : InOnePlace(o, p)

\* what is put back is put back whole and has its rows; what is purged has none
RowsOfDeletion ==
    /\ del.at # "idle" => del.kept = {}
    /\ del.at \in {"restore", "purge"} /\ manifest[del.op].kind = "delete" =>
          \A p \in DOMAIN manifest[del.op].files : manifest[del.op].files[p].registered =>
              (rows[p] = NoRow <=> del.at = "purge")

\* Raw output is there with its row only, and a row goes with its run only
RawRows ==
    /\ \A f \in Raw : here[f] # 0 => rows[f] # NoRow
    /\ \A o \in Op : manifest[o].kind = "raw_batch" /\ rows[manifest[o].file] = NoRow =>
          RawOf[manifest[o].file] \in born \ runs

\* what the manifest of the export at work says, and whether it is recorded
Announced ==
    exp.at # "idle" =>
    /\ exp.at \in {"prepare", "render", "ready", "discard", "announce"} =>
          manifest[exp.op] = NoManifest \/ manifest[exp.op].phase = "PREPARED"
    /\ exp.at \in {"backup", "install", "mark"} => manifest[exp.op].phase = "RENDERED"
    /\ exp.at \in {"record", "confirm"} => manifest[exp.op].phase = "INSTALLED"
    /\ manifest[exp.op] # NoManifest /\ manifest[exp.op].phase # "PREPARED" =>
          manifest[exp.op].prev = exp.prev /\ manifest[exp.op].row = exp.row
    /\ exp.at \notin {"confirm", "clean"} => exp.op \notin receipts
    /\ exp.at \in {"confirm", "clean"} =>
          IF exp.kind = "export" THEN rows[D] = [run |-> exp.run, content |-> New]
          ELSE exp.op \in receipts
    /\ exp.at = "rollback" /\ exp.kind = "export" => rows[D].content = exp.row.content

\* a start accepts what an export has left
Recoverable(o) ==
    LET m == manifest[o]
        s == Staged(m.kind, o)
        b == Backup(m.kind, o) IN
    /\ ~ Unrecoverable(o, m, s, b)
    /\ m.phase = "PREPARED" => \A o1 \in Op : aside[o1][b] = 0

ExportsLeft == \A o \in Op : manifest[o].kind \in Kind => Recoverable(o)

\* a report is staged when it is rendered, and seen by no deletion before
Unstaged ==
    \A k \in Kind, o \in Op :
        o > ops \/ (exp.at \in {"prepare", "render"} /\ o = exp.op) =>
            /\ here[Staged(k, o)] = 0
            /\ \A o1 \in Op : /\ aside[o1][Staged(k, o)] = 0
                              /\ manifest[o1].kind = "delete" =>
                                    Staged(k, o) \notin DOMAIN manifest[o1].files

\* a start that failed is over
StuckRests == up = "stuck" => rec.at = "none"

(* What crashes leave is what a start accepts.                             *)
CalmInv ==
    /\ doubted = {} /\ WaitingOutside /\ OneDeletion /\ OneExport /\ Apart /\ Destinations
    /\ DeletedFiles /\ RowsOfDeletion /\ RawRows /\ Announced /\ ExportsLeft /\ Unstaged

CrashInv == StuckRests /\ CrashesAreSurvived /\ (Calm => CalmInv)

=============================================================================
