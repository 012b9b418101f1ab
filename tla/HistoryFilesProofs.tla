------------------------- MODULE HistoryFilesProofs -------------------------
(***************************************************************************)
(* For every number of runs, files, operations and troubles: nothing is    *)
(* lost by deletions, exports and starts, nothing is left when they are    *)
(* over, and a start gets over whatever crashes have left.                 *)
(*                                                                         *)
(* NothingLost says where a file may be that is owed to the operator; it   *)
(* is kept because no step removes or overwrites the last copy, and each   *)
(* step that removes a file has its own reason why the copy is not owed:   *)
(*                                                                         *)
(*   - contents are numbered by the operation that writes them, so what an *)
(*     operation finds beside its destination is older than what it writes *)
(*     (FreshFiles, FreshHidden), and nobody else has its hidden files     *)
(*     (Unused, NamedOutside);                                             *)
(*   - an export has its files where its step says (FilesAtWork), and a    *)
(*     row, or receipt, exactly from the step on that records it           *)
(*     (Receipts, RowsOwed, RunOfRow): so a start can tell an export that  *)
(*     was recorded from one that was not, and undoes only the latter;     *)
(*   - a row may go while its report is not where it was shown: then the   *)
(*     report is in a backup only, and no start takes what is at the       *)
(*     destination for it (Unshown, RowAtWork, OldRows);                   *)
(*   - the transaction of a deletion takes a row and what is owed by it    *)
(*     together, so what is aside of a row that is gone is owed to nobody  *)
(*     (GoneRows, Purging), and what is not yet is put back (Deleting).    *)
(*                                                                         *)
(* One lemma per action shows that all of it is kept.  What a step does    *)
(* not touch is kept by Frames.                                            *)
(*                                                                         *)
(* That a start gets over crashes needs to know more of what they leave,   *)
(* and holds only while nothing else has gone wrong (CalmInv):             *)
(*                                                                         *)
(*   - at most one deletion is left, and beside it no export that has      *)
(*     begun to move files (OneDeletion, OneExport, Apart), so each has    *)
(*     its files to itself (Destinations, Unstaged);                       *)
(*   - every file of that deletion is in its place or aside, as its row    *)
(*     says, but for a file without a row (InOnePlace);                    *)
(*   - an export that was cut short is to be undone, or done, and its      *)
(*     files are where one can tell (Undone, Finished); the manifest says  *)
(*     so one step ahead of the files (Announced).                         *)
(*                                                                         *)
(* Again one lemma per action: ...Calm.                                    *)
(***************************************************************************)
EXTENDS HistoryInvariants, TLAPS

-----------------------------------------------------------------------------
(* Paths                                                                   *)

\* a hidden file is no file of anybody's, and tells its operation
LEMMA HiddenApart ==
    \A k1, k2 \in Kind, o1, o2 \in Op :
        /\ Staged(k1, o1) \in Path \ File /\ Backup(k1, o1) \in Path \ File
        /\ Staged(k1, o1) # Backup(k2, o2)
        /\ Staged(k1, o1) = Staged(k2, o2) => k1 = k2 /\ o1 = o2
        /\ Backup(k1, o1) = Backup(k2, o2) => k1 = k2 /\ o1 = o2
<1>1. TAKE k1, k2 \in Kind, o1, o2 \in Op
<1>2. Staged(k1, o1) \in Hidden(k1) /\ Backup(k1, o1) \in Hidden(k1)
  BY DEF Hidden
<1>3. Hidden(k1) \subseteq Path /\ Hidden(k1) \cap File = {}
  BY FilesAssumption DEF Path, Kind
<1>4. Staged(k1, o1) \in Path \ File /\ Backup(k1, o1) \in Path \ File
  BY <1>2, <1>3
<1>5. Staged(k1, o1) # Backup(k2, o2)
  BY DEF Staged, Backup
<1>6. Staged(k1, o1) = Staged(k2, o2) => k1 = k2 /\ o1 = o2
  BY DEF Staged
<1>7. Backup(k1, o1) = Backup(k2, o2) => k1 = k2 /\ o1 = o2
  BY DEF Backup
<1>8. QED BY <1>4, <1>5, <1>6, <1>7

\* the hidden files of an external export are none a deletion looks at
LEMMA OutsideHidden ==
    \A o \in Op : /\ Staged("external_export", o) \notin File \cup Inside
                  /\ Backup("external_export", o) \notin File \cup Inside
<1>1. TAKE o \in Op
<1>2. \A p \in Hidden("export") : /\ p # Staged("external_export", o)
                                  /\ p # Backup("external_export", o)
  BY DEF Hidden, Staged, Backup
<1>3. QED BY <1>2, HiddenApart DEF Inside, File, Kind

\* the sorts of file
LEMMA Sorts ==
    /\ File \subseteq Path /\ Raw \subseteq File /\ Report \subseteq File
    /\ Outside \subseteq File /\ Raw \cap Report = {} /\ Raw \cap Outside = {}
    /\ Report \cap Outside = {} /\ File \cup Inside \subseteq Path
    /\ \A f \in File : f \in Raw \/ f \in Report \/ f \in Outside
  BY FilesAssumption DEF File, Path, Inside

-----------------------------------------------------------------------------
(* What a step leaves alone                                                *)

\* one conjunct each
LEMMA TypesFrame ==
    ASSUME TypeOK, UNCHANGED <<db, here, aside, owners, waiting, owed, doubted, born,
                               maintenance, up>>
    PROVE  TypeOK'
  BY DEF TypeOK, db

LEMMA NumbersFrame ==
    /\ Numbers /\ UNCHANGED <<ops, faults, crashes, detached>> => Numbers'
    /\ Flags /\ UNCHANGED <<attached, overtaken>> => Flags'
  BY DEF Numbers, Flags

LEMMA FormsFrame ==
    /\ Manifests /\ UNCHANGED manifest => Manifests'
    /\ ExportForm /\ UNCHANGED exp => ExportForm'
    /\ DeleteForm /\ UNCHANGED del => DeleteForm'
    /\ RecoveryForm /\ UNCHANGED rec => RecoveryForm'
    /\ PendingForm /\ UNCHANGED pending => PendingForm'
  BY DEF Manifests, ExportForm, DeleteForm, RecoveryForm, PendingForm

LEMMA LeasesFrame ==
    ASSUME Leases, UNCHANGED <<exp, del, rec, maintenance, up>>
    PROVE  Leases'
  BY DEF Leases

LEMMA FreshOpsFrame ==
    ASSUME FreshOps, UNCHANGED <<exp, del, ops, manifest, receipts>>
    PROVE  FreshOps'
  BY DEF FreshOps

LEMMA FreshFilesFrame ==
    ASSUME FreshFiles, UNCHANGED <<here, owed, rows, aside>>, Limit' = Limit
    PROVE  FreshFiles'
  BY DEF FreshFiles

LEMMA FreshHiddenFrame ==
    ASSUME FreshHidden, UNCHANGED <<exp, here, manifest, aside>>
    PROVE  FreshHidden'
  BY DEF FreshHidden

LEMMA UnusedFrame ==
    ASSUME Unused, UNCHANGED <<here, aside, ops>>
    PROVE  Unused'
  BY DEF Unused

LEMMA NamedFrame ==
    ASSUME Named, UNCHANGED <<aside, manifest>>
    PROVE  Named'
  BY DEF Named

LEMMA NamedOutsideFrame ==
    ASSUME NamedOutside, UNCHANGED <<here, manifest>>
    PROVE  NamedOutside'
  BY DEF NamedOutside

LEMMA ManifestAtWorkFrame ==
    ASSUME ManifestAtWork, UNCHANGED <<exp, manifest, receipts>>
    PROVE  ManifestAtWork'
  BY DEF ManifestAtWork

LEMMA FilesAtWorkFrame ==
    ASSUME FilesAtWork, UNCHANGED <<exp, here, aside, owed>>
    PROVE  FilesAtWork'
  BY DEF FilesAtWork, B, S, D, New

LEMMA RowAtWorkFrame ==
    ASSUME RowAtWork, UNCHANGED <<exp, rows, owed>>
    PROVE  RowAtWork'
  BY DEF RowAtWork, D

LEMMA ReceiptsFrame ==
    ASSUME Receipts, UNCHANGED <<manifest, owed, receipts>>
    PROVE  Receipts'
  BY DEF Receipts

LEMMA RowsOwedFrame ==
    ASSUME RowsOwed, UNCHANGED <<rows, runs, owed, doubted>>
    PROVE  RowsOwed'
  BY DEF RowsOwed

LEMMA RawFilesFrame ==
    ASSUME RawFiles, UNCHANGED <<rows, doubted, owed, here, aside>>
    PROVE  RawFiles'
  BY DEF RawFiles

LEMMA RunOfRowFrame ==
    ASSUME RunOfRow, UNCHANGED <<manifest, rows>>
    PROVE  RunOfRow'
  BY DEF RunOfRow

LEMMA UnshownFrame ==
    ASSUME Unshown, UNCHANGED <<owed, rows, here, aside>>
    PROVE  Unshown'
  BY DEF Unshown

LEMMA OldRowsFrame ==
    ASSUME OldRows, UNCHANGED <<manifest, owed>>
    PROVE  OldRows'
  BY DEF OldRows

LEMMA GoneRowsFrame ==
    ASSUME GoneRows, UNCHANGED <<manifest, rows, owed, aside>>
    PROVE  GoneRows'
  BY DEF GoneRows

LEMMA DeletingFrame ==
    ASSUME Deleting, UNCHANGED <<del, manifest, rows, aside, here>>
    PROVE  Deleting'
  BY DEF Deleting

LEMMA PurgingFrame ==
    ASSUME Purging, UNCHANGED <<del, owed, aside, manifest>>
    PROVE  Purging'
  BY DEF Purging

LEMMA RecoveringFrame ==
    ASSUME Recovering, UNCHANGED <<rec, manifest, aside>>
    PROVE  Recovering'
  BY DEF Recovering

LEMMA NothingLostFrame ==
    ASSUME NothingLost, UNCHANGED <<owed, here, manifest, aside>>
    PROVE  NothingLost'
  BY DEF NothingLost, Found

(* ... in one.                                                             *)
LEMMA Frames ==
    ASSUME FilesInv
    PROVE  /\ UNCHANGED <<db, here, aside, owners, waiting, owed, doubted, born,
                           maintenance, up>> => TypeOK'
           /\ UNCHANGED <<ops, faults, crashes, detached>> => Numbers'
           /\ UNCHANGED <<attached, overtaken>> => Flags'
           /\ UNCHANGED manifest => Manifests'
           /\ UNCHANGED exp => ExportForm'
           /\ UNCHANGED del => DeleteForm'
           /\ UNCHANGED rec => RecoveryForm'
           /\ UNCHANGED pending => PendingForm'
           /\ UNCHANGED <<exp, del, rec, maintenance, up>> => Leases'
           /\ UNCHANGED <<exp, del, ops, manifest, receipts>> => FreshOps'
           /\ UNCHANGED <<here, owed, rows, aside>> /\ Limit' = Limit => FreshFiles'
           /\ UNCHANGED <<exp, here, manifest, aside>> => FreshHidden'
           /\ UNCHANGED <<here, aside, ops>> => Unused'
           /\ UNCHANGED <<aside, manifest>> => Named'
           /\ UNCHANGED <<here, manifest>> => NamedOutside'
           /\ UNCHANGED <<exp, manifest, receipts>> => ManifestAtWork'
           /\ UNCHANGED <<exp, here, aside, owed>> => FilesAtWork'
           /\ UNCHANGED <<exp, rows, owed>> => RowAtWork'
           /\ UNCHANGED <<manifest, owed, receipts>> => Receipts'
           /\ UNCHANGED <<rows, runs, owed, doubted>> => RowsOwed'
           /\ UNCHANGED <<rows, doubted, owed, here, aside>> => RawFiles'
           /\ UNCHANGED <<manifest, rows>> => RunOfRow'
           /\ UNCHANGED <<owed, rows, here, aside>> => Unshown'
           /\ UNCHANGED <<manifest, owed>> => OldRows'
           /\ UNCHANGED <<manifest, rows, owed, aside>> => GoneRows'
           /\ UNCHANGED <<del, manifest, rows, aside, here>> => Deleting'
           /\ UNCHANGED <<del, owed, aside, manifest>> => Purging'
           /\ UNCHANGED <<rec, manifest, aside>> => Recovering'
           /\ UNCHANGED <<owed, here, manifest, aside>> => NothingLost'
  BY TypesFrame, NumbersFrame, FormsFrame, LeasesFrame, FreshOpsFrame,
     FreshFilesFrame, FreshHiddenFrame, UnusedFrame, NamedFrame, NamedOutsideFrame,
     ManifestAtWorkFrame, FilesAtWorkFrame, RowAtWorkFrame, ReceiptsFrame,
     RowsOwedFrame, RawFilesFrame, RunOfRowFrame, UnshownFrame,
     OldRowsFrame, GoneRowsFrame, DeletingFrame, PurgingFrame, RecoveringFrame,
     NothingLostFrame
     DEF FilesInv

-----------------------------------------------------------------------------
(* What the steps are made of                                              *)

\* operations and the contents they write are numbers
LEMMA Operations ==
    /\ Op \subseteq Nat /\ \A o \in Op : o >= 1 /\ o <= MaxOps /\ NewContent(o) = o + 1
    /\ MaxOps \in Nat
  BY FilesAssumption DEF Op, NewContent

\* 0 is no operation
LEMMA AnOperation == \A o \in 0..MaxOps : o # 0 => o \in Op
  BY FilesAssumption DEF Op

\* what the kind of a manifest can be
LEMMA Kinds ==
    /\ Kind = {"export", "external_export"} /\ NoManifest.kind = "none"
    /\ "none" \notin Kind /\ "delete" \notin Kind /\ "raw_batch" \notin Kind
  BY DEF Kind, NoManifest

\* a manifest is of the kind it names
LEMMA ManifestKinds ==
    ASSUME Manifests, NEW o \in Op
    PROVE  /\ IsManifest(manifest[o])
           /\ manifest[o] = NoManifest <=> manifest[o].kind = "none"
           /\ manifest[o].kind \in Kind \cup {"none", "raw_batch", "delete"}
           /\ manifest[o].kind \in Kind => IsExporting(manifest[o])
           /\ manifest[o].kind = "delete" => IsSnapshot(manifest[o].files)
           /\ manifest[o].kind = "raw_batch" => manifest[o].file \in Raw
  BY Kinds DEF Manifests, IsManifest, IsExporting

\* what the forms say, one by one
PlainOps ==
    /\ ops \in Nat /\ ops <= MaxOps /\ receipts \subseteq Op
    /\ exp.op \in Nat /\ (exp.at # "idle" => exp.op \in Op)
    /\ del.op \in Nat /\ (del.at # "idle" => del.op \in Op)
    /\ rec.op \in Nat /\ (rec.op # 0 => rec.op \in Op)

PlainFiles ==
    /\ here \in [Path -> Nat] /\ aside \in [Op -> [Path -> Nat]]
    /\ owed \in [File -> Nat] /\ rows \in [File -> RowForm]
    /\ \A f \in File : rows[f].content \in Nat

PlainExport ==
    /\ exp.at \in ExportAt /\ exp.kind \in Kind /\ exp.prev \in Nat /\ exp.row.content \in Nat
    /\ exp.at # "idle" => /\ exp.dest \in File /\ exp.dest \notin Raw /\ exp.run \in Run
                          /\ exp.kind = "export" <=> exp.dest \in Report
                          /\ exp.kind # "export" => exp.dest \in Outside

PlainManifests ==
    \A o \in Op : manifest[o].kind \in Kind =>
        /\ manifest[o].dest \in File /\ manifest[o].dest \notin Raw
        /\ manifest[o].prev \in Nat /\ manifest[o].row.content \in Nat
        /\ manifest[o].kind = "export" <=> manifest[o].dest \in Report
        /\ manifest[o].kind # "export" => manifest[o].dest \in Outside

\* the forms give them
LEMMA Plain == FilesInv => PlainOps /\ PlainFiles /\ PlainExport /\ PlainManifests
<1> SUFFICES ASSUME FilesInv PROVE PlainOps /\ PlainFiles /\ PlainExport /\ PlainManifests
  OBVIOUS
<1>1. IsExport(exp) /\ IsDelete(del) /\ IsRecovery(rec)
  BY DEF FilesInv, ExportForm, DeleteForm, RecoveryForm
<1>2. PlainOps
  BY <1>1, Operations, AnOperation
     DEF FilesInv, TypeOK, Numbers, IsExport, IsDelete, IsRecovery, PlainOps
<1>3. PlainFiles
  <2>1. /\ here \in [Path -> Nat] /\ aside \in [Op -> [Path -> Nat]]
        /\ owed \in [File -> Nat] /\ rows \in [File -> RowForm]
    BY DEF FilesInv, TypeOK, RowForm
  <2>2. QED BY <2>1 DEF PlainFiles, RowForm
<1>4. PlainExport
  BY <1>1, Sorts, Kinds DEF IsExport, RowForm, PlainExport
<1>5. ASSUME NEW o \in Op, manifest[o].kind \in Kind
      PROVE  /\ manifest[o].dest \in File /\ manifest[o].dest \notin Raw
             /\ manifest[o].prev \in Nat /\ manifest[o].row.content \in Nat
             /\ manifest[o].kind = "export" <=> manifest[o].dest \in Report
             /\ manifest[o].kind # "export" => manifest[o].dest \in Outside
  <2>1. IsExporting(manifest[o])
    BY <1>5, ManifestKinds DEF FilesInv
  <2>2. QED BY <1>5, <2>1, Sorts, Kinds DEF IsExporting, RowForm
<1>6. QED BY <1>2, <1>3, <1>4, <1>5 DEF PlainManifests

\* the shapes of the operations at work
LEMMA DeleteGoes ==
    ASSUME DeleteForm, NEW a \in {"check", "stage", "commit", "restore", "purge"},
           del.at # "idle", del' = [del EXCEPT !.at = a]
    PROVE  /\ DeleteForm' /\ del'.at = a
           /\ del'.op = del.op /\ del'.target = del.target /\ del'.snap = del.snap
           /\ del'.shown = del.shown /\ del'.kept = del.kept
  BY DEF DeleteForm, IsDelete

\* a delete() that is over
LEMMA DeleteEnds ==
    ASSUME del' = NoDelete
    PROVE  DeleteForm' /\ del'.at = "idle" /\ del'.op = 0
  BY FilesAssumption DEF DeleteForm, IsDelete, NoDelete, Target

\* an export that goes on
LEMMA ExportGoes ==
    ASSUME ExportForm, NEW a \in ExportAt \ {"idle"}, exp.at # "idle", Goes(a)
    PROVE  /\ ExportForm' /\ exp'.at = a
           /\ exp'.op = exp.op /\ exp'.kind = exp.kind /\ exp'.run = exp.run
           /\ exp'.dest = exp.dest /\ exp'.prev = exp.prev /\ exp'.row = exp.row
           /\ exp'.installed = exp.installed
  BY DEF ExportForm, IsExport, Goes

\* ... and one that is over
LEMMA ExportEnds ==
    ASSUME Ends
    PROVE  ExportForm' /\ exp'.at = "idle" /\ exp'.op = 0 /\ exp'.kind = "export"
  BY FilesAssumption DEF ExportForm, IsExport, Ends, NoExport, ExportAt, Kind, RowForm, NoRow

\* one manifest is written, the others stay
LEMMA WrittenManifest ==
    ASSUME Manifests, NEW o \in Op, NEW m, Written(o, m)
    PROVE  /\ manifest'[o] = m /\ \A o1 \in Op : o1 # o => manifest'[o1] = manifest[o1]
           /\ IsManifest(m) => Manifests'
  BY DEF Manifests, Written

\* one file goes, the others stay
LEMMA UnlinkedFile ==
    ASSUME here \in [Path -> Nat], NEW p \in Path, Unlinked(p)
    PROVE  /\ here' \in [Path -> Nat] /\ here'[p] = 0
           /\ \A q \in Path : q # p => here'[q] = here[q]
  BY DEF Unlinked

\* a file goes from one place to another
LEMMA MovedFile ==
    ASSUME here \in [Path -> Nat], NEW p \in Path, NEW q \in Path, p # q, Moved(p, q)
    PROVE  /\ here' \in [Path -> Nat] /\ here'[p] = 0 /\ here'[q] = here[p]
           /\ \A x \in Path : x # p /\ x # q => here'[x] = here[x]
  BY DEF Moved

\* what a deletion has aside of one path changes
LEMMA SetAside ==
    ASSUME here \in [Path -> Nat], aside \in [Op -> [Path -> Nat]],
           NEW o \in Op, NEW p \in Path, NEW c \in Nat, aside' = [aside EXCEPT ![o][p] = c]
    PROVE  /\ aside' \in [Op -> [Path -> Nat]] /\ aside'[o][p] = c
           /\ \A o1 \in Op, q \in Path : o1 # o \/ q # p => aside'[o1][q] = aside[o1][q]
  BY DEF Put

\* no manifest is a form of manifest
LEMMA NoManifestForm == IsManifest(NoManifest)
  BY DEF IsManifest

-----------------------------------------------------------------------------
(* Deletions                                                               *)

\* what a deletion comprises
LEMMA SnapshotForm ==
    ASSUME FilesInv, NEW t \in Target, RunsOf(t) \subseteq Run
    PROVE  /\ IsSnapshot(Snapshot(t).files)
           /\ \A p \in DOMAIN Snapshot(t).files :
                /\ Snapshot(t).files[p].content = here[p]
                /\ Snapshot(t).files[p].registered <=> p \in Registered(t)
                /\ Snapshot(t).files[p].registered => p \in File /\ rows[p] # NoRow
                /\ t # All => p \in File /\
                      (Snapshot(t).files[p].registered \/ (p \in Raw /\ RawOf[p] = t))
<1>1. DEFINE P == Registered(t) \cup Scanned(t)
             s == [p \in P |-> [content |-> here[p], registered |-> p \in Registered(t)]]
<1>2. Snapshot(t).files = s
  BY DEF Snapshot
<1>3. /\ Registered(t) \subseteq File \ Outside
      /\ \A f \in Registered(t) : rows[f] # NoRow
  <2>1. Registered(t) \subseteq File /\ \A f \in Registered(t) : rows[f] # NoRow
    BY FilesAssumption DEF Registered, NoRow
  <2>2. QED BY <2>1 DEF FilesInv, RowsOwed
<1>4. Scanned(t) \subseteq File \cup Inside
  BY Sorts DEF Scanned
<1>5. t # All => \A p \in Scanned(t) : p \in Raw /\ RawOf[p] = t
  BY DEF Scanned
<1>6. \A p \in P : here[p] \in Nat
  BY <1>3, <1>4, Sorts, Plain DEF PlainFiles
<1>7. IsSnapshot(s)
  <2>1. DOMAIN s = P /\ s = [p \in DOMAIN s |-> s[p]]
    OBVIOUS
  <2>2. \A p \in P : s[p] \in [content : Nat, registered : BOOLEAN]
    BY <1>6
  <2>3. \A p \in P : s[p].registered => p \in File \ Outside
    BY <1>3
  <2>4. QED BY <2>1, <2>2, <2>3, <1>3, <1>4 DEF IsSnapshot
<1>8. \A p \in DOMAIN s : /\ s[p].content = here[p]
                          /\ s[p].registered <=> p \in Registered(t)
  OBVIOUS
<1>9. QED BY <1>2, <1>3, <1>5, <1>7, <1>8, Sorts

\* nothing is lost by a new manifest
LEMMA NewManifestFinds ==
    ASSUME NothingLost, UNCHANGED <<owed, here, aside>>, NEW o \in Op,
           manifest[o] = NoManifest, \A o1 \in Op : o1 # o => manifest'[o1] = manifest[o1]
    PROVE  NothingLost'
<1>1. \A o1 \in Op : manifest[o1].kind \in Kind \cup {"delete"} => manifest'[o1] = manifest[o1]
  BY Kinds
<1>2. \A f \in File : owed'[f] # 0 =>
        \/ Found(f, owed'[f])
        \/ \E o1 \in Op : /\ manifest'[o1].kind \in Kind /\ manifest'[o1].dest = f
                          /\ Found(Backup(manifest'[o1].kind, o1), owed'[f])
  BY <1>1 DEF NothingLost
<1>3. QED BY <1>1, <1>2 DEF NothingLost, Found

\* contents stay below a limit that does not come down
LEMMA LimitGrows ==
    ASSUME FreshFiles, PlainFiles, UNCHANGED <<here, owed, rows, aside>>,
           Limit \in Nat, Limit' \in Nat, Limit' >= Limit
    PROVE  FreshFiles'
<1>1. ASSUME NEW f \in File
      PROVE  /\ here[f] <= Limit' /\ owed[f] <= Limit' /\ rows[f].content <= Limit'
             /\ \A o \in Op : aside[o][f] <= Limit'
  <2>1. here[f] \in Nat /\ owed[f] \in Nat /\ rows[f].content \in Nat
        /\ \A o \in Op : aside[o][f] \in Nat
    BY Sorts DEF PlainFiles
  <2>2. QED BY <2>1 DEF FreshFiles
<1>2. QED BY <1>1 DEF FreshFiles

\* an export that has not the lease yet has nothing to lose
LEMMA NoBackup ==
    ASSUME FilesInv, exp.at \notin Leased, exp.at # "idle"
    PROVE  B \in Path \ File /\ here[B] = 0 /\ \A o \in Op : aside[o][B] = 0
<1>1. exp.at \in {"prepare", "render", "ready", "discard"} /\ exp.op \in Op /\ exp.kind \in Kind
  BY Plain DEF PlainExport, PlainOps, ExportAt, Leased
<1>2. B \in Path \ File
  BY <1>1, HiddenApart DEF B
<1>3. here[B] = 0 /\ \A o \in Op : aside[o][B] = 0
  BY <1>1 DEF FilesInv, FilesAtWork
<1>4. QED BY <1>2, <1>3

\* ... and so nothing to keep up
LEMMA NotLeased ==
    ASSUME FilesInv, exp.at \notin Leased, UNCHANGED exp,
           exp.at # "idle" => here'[B] = 0 /\ \A o \in Op : aside'[o][B] = 0
    PROVE  FilesAtWork'
  BY Plain DEF PlainExport, Leased, ExportAt, FilesAtWork, B

\* the limit is a number
LEMMA LimitNat == FilesInv => Limit \in Nat
<1> SUFFICES ASSUME FilesInv PROVE Limit \in Nat
  OBVIOUS
<1>1. PlainOps
  BY Plain
<1>2. QED BY <1>1, Operations DEF PlainOps, Limit, NewContent

\* a start, at a step
LEMMA RecoveryShape ==
    ASSUME NEW a \in {"none", "deletes", "exports"}, NEW o \in 0..MaxOps, NEW t,
           NEW b \in SUBSET Op, rec' = [at |-> a, op |-> o, todo |-> t, before |-> b]
    PROVE  /\ RecoveryForm' /\ rec'.at = a /\ rec'.op = o /\ rec'.todo = t
           /\ rec'.before = b
  BY DEF RecoveryForm, IsRecovery

\* a file goes aside or comes back
LEMMA ShiftsKeep ==
    ASSUME FilesInv, UNCHANGED <<exp, manifest, ops>>,
           \A q \in Path : \/ here'[q] \in {0, here[q]}
                           \/ \E o1 \in Op : here'[q] = aside[o1][q],
           \A o1 \in Op, q \in Path : aside'[o1][q] \in {0, aside[o1][q], here[q]}
    PROVE  FreshHidden' /\ Unused'
<1>1. ASSUME NEW k \in Kind, NEW o \in Op
      PROVE  /\ here'[Staged(k, o)] \in {0, NewContent(o)}
             /\ here'[Backup(k, o)] < NewContent(o)
             /\ \A o1 \in Op : /\ aside'[o1][Staged(k, o)] \in {0, NewContent(o)}
                               /\ aside'[o1][Backup(k, o)] < NewContent(o)
             /\ o > ops => here'[Backup(k, o)] = 0
                           /\ \A o1 \in Op : aside'[o1][Backup(k, o)] = 0
  <2>1. Staged(k, o) \in Path /\ Backup(k, o) \in Path /\ 0 < NewContent(o)
    BY HiddenApart, Operations
  <2>2. /\ here[Staged(k, o)] \in {0, NewContent(o)} /\ here[Backup(k, o)] < NewContent(o)
        /\ \A o1 \in Op : /\ aside[o1][Staged(k, o)] \in {0, NewContent(o)}
                          /\ aside[o1][Backup(k, o)] < NewContent(o)
        /\ o > ops => here[Backup(k, o)] = 0 /\ \A o1 \in Op : aside[o1][Backup(k, o)] = 0
    BY DEF FilesInv, FreshHidden, Unused
  <2>3. here'[Staged(k, o)] \in {0, NewContent(o)}
    BY <2>1, <2>2
  <2>4. here'[Backup(k, o)] < NewContent(o)
    BY <2>1, <2>2
  <2>5. \A o1 \in Op : aside'[o1][Staged(k, o)] \in {0, NewContent(o)}
    BY <2>1, <2>2
  <2>6. \A o1 \in Op : aside'[o1][Backup(k, o)] < NewContent(o)
    BY <2>1, <2>2
  <2>7. o > ops => here'[Backup(k, o)] = 0 /\ \A o1 \in Op : aside'[o1][Backup(k, o)] = 0
    BY <2>1, <2>2
  <2>8. QED BY <2>3, <2>4, <2>5, <2>6, <2>7
<1>2. FreshHidden'
  BY <1>1 DEF FilesInv, FreshHidden
<1>3. Unused'
  BY <1>1 DEF Unused
<1>4. QED BY <1>2, <1>3

\* what moves in our own directories is no matter of the drive
LEMMA InsideKeepsOutside ==
    ASSUME NamedOutside, UNCHANGED manifest, NEW p \in File \cup Inside,
           \A q \in Path : q # p => here'[q] = here[q]
    PROVE  NamedOutside'
<1>1. \A o \in Op : /\ Staged("external_export", o) \in Path \ {p}
                    /\ Backup("external_export", o) \in Path \ {p}
  BY HiddenApart, OutsideHidden, Kinds
<1>2. QED BY <1>1 DEF NamedOutside

\* content c of path p is what somebody is owed
Needed(p, c) ==
    /\ c # 0
    /\ \/ p \in File /\ owed[p] = c
       \/ \E o \in Op : /\ manifest[o].kind \in Kind /\ p = Backup(manifest[o].kind, o)
                        /\ owed[manifest[o].dest] = c

\* what deletion o has of p moves between its place and aside
LEMMA Shifted ==
    ASSUME NothingLost, PlainManifests, UNCHANGED <<owed, manifest>>,
           NEW o \in Op, NEW p \in Path,
           manifest[o].kind = "delete", p \in DOMAIN manifest[o].files,
           \A q \in Path : q # p => here'[q] = here[q],
           \A o1 \in Op, q \in Path : o1 # o \/ q # p => aside'[o1][q] = aside[o1][q],
           \A c \in {here[p], aside[o][p]} :
               Needed(p, c) => c \in {here'[p], aside'[o][p]}
    PROVE  NothingLost'
<1>1. ASSUME NEW q \in Path, NEW c, Needed(q, c), Found(q, c)
      PROVE  \/ here'[q] = c
             \/ \E o1 \in Op : /\ manifest[o1].kind = "delete" /\ q \in DOMAIN manifest[o1].files
                               /\ aside'[o1][q] = c
  <2>1. CASE q # p
    BY <1>1, <2>1 DEF Found
  <2>2. CASE q = p /\ c \in {here[p], aside[o][p]}
    BY <1>1, <2>2
  <2>3. CASE q = p /\ c \notin {here[p], aside[o][p]}
    BY <1>1, <2>3 DEF Found
  <2>4. QED BY <2>1, <2>2, <2>3
<1>2. ASSUME NEW f \in File, owed[f] # 0
      PROVE  \/ Needed(f, owed[f]) /\ Found(f, owed[f])
             \/ \E o1 \in Op : /\ manifest[o1].kind \in Kind /\ manifest[o1].dest = f
                               /\ Needed(Backup(manifest[o1].kind, o1), owed[f])
                               /\ Found(Backup(manifest[o1].kind, o1), owed[f])
  BY <1>2 DEF NothingLost, Needed
<1>3. \A f \in File : f \in Path
  BY Sorts
<1>4. \A o1 \in Op : manifest[o1].kind \in Kind => Backup(manifest[o1].kind, o1) \in Path
  BY HiddenApart
<1>5. QED BY <1>1, <1>2, <1>3, <1>4 DEF NothingLost, Found

\* a manifest goes that leads to nothing that is owed
LEMMA ManifestGoes ==
    ASSUME NothingLost, Named, UNCHANGED <<owed, here, aside>>, NEW o \in Op,
           \A o1 \in Op : o1 # o => manifest'[o1] = manifest[o1],
           manifest[o].kind = "delete" => \A p \in Path : aside[o][p] = 0,
           manifest[o].kind \in Kind =>
               /\ here[Backup(manifest[o].kind, o)] \in {0} \/
                  here[Backup(manifest[o].kind, o)] # owed[manifest[o].dest]
               /\ \A o1 \in Op : aside[o1][Backup(manifest[o].kind, o)] = 0
    PROVE  NothingLost'
<1>1. ASSUME NEW q \in Path, NEW c, c # 0, Found(q, c)
      PROVE  \/ here[q] = c
             \/ \E o1 \in Op : /\ manifest'[o1].kind = "delete" /\ q \in DOMAIN manifest'[o1].files
                               /\ aside[o1][q] = c
  BY <1>1 DEF Found
<1>2. ASSUME NEW f \in File, owed[f] # 0
      PROVE  \/ Found(f, owed[f])
             \/ \E o1 \in Op : /\ manifest'[o1].kind \in Kind /\ manifest'[o1].dest = f
                               /\ Found(Backup(manifest'[o1].kind, o1), owed[f])
                               /\ Backup(manifest'[o1].kind, o1) \in Path
  <2>1. CASE Found(f, owed[f])
    BY <2>1
  <2>2. CASE ~ Found(f, owed[f])
    <3>1. PICK o1 \in Op : /\ manifest[o1].kind \in Kind /\ manifest[o1].dest = f
                           /\ Found(Backup(manifest[o1].kind, o1), owed[f])
      BY <1>2, <2>2 DEF NothingLost
    <3>2. o1 # o
      BY <1>2, <3>1 DEF Found
    <3>3. Backup(manifest[o1].kind, o1) \in Path
      BY <3>1, HiddenApart
    <3>4. QED BY <3>1, <3>2, <3>3
  <2>3. QED BY <2>1, <2>2
<1>3. \A f \in File : f \in Path
  BY Sorts
<1>4. QED BY <1>1, <1>2, <1>3 DEF NothingLost, Found

\* what the transaction of a deletion takes, and what the operator is no
\* longer owed by it
LEMMA CommitEffect ==
    ASSUME FilesInv, del.at = "commit", Unchanged(del.target, del.snap), RowsGo
    PROVE  /\ runs' = runs \ del.snap.runs /\ del.snap.runs \subseteq Run
           /\ del.shown = del.snap.files
           /\ rows' \in [File -> RowForm] /\ owed' \in [File -> Nat]
           /\ \A f \in File : /\ rows'[f] = IF rows[f].run \in del.snap.runs THEN NoRow ELSE rows[f]
                              /\ owed'[f] \in {0, owed[f]}
           /\ \A f \in File : rows[f] # NoRow /\ rows[f].run \in del.snap.runs =>
                 f \in DOMAIN del.snap.files /\ del.snap.files[f].registered
           /\ \A f \in File : rows[f] # NoRow /\ owed'[f] # owed[f] =>
                 rows[f].run \in del.snap.runs
           /\ \A f \in File \cap DOMAIN del.snap.files :
                 \/ del.snap.files[f].content \in {0, owed[f]}
                 \/ \E o \in Op : aside[o][f] = owed[f]
                 => owed'[f] = 0
           /\ \A o \in Op : /\ manifest[o].kind = "export"
                            /\ Backup("export", o) \in DOMAIN del.snap.files
                            /\ del.snap.files[Backup("export", o)].content \in {0, owed[manifest[o].dest]}
                 => owed'[manifest[o].dest] = 0
<1>1. /\ PlainOps /\ PlainFiles /\ PlainManifests /\ del.shown = del.snap.files
      /\ del.target \in Target /\ runs \subseteq Run
  BY Plain DEF FilesInv, TypeOK, DeleteForm, IsDelete
<1>2. /\ RunsOf(del.target) = del.snap.runs /\ del.snap.runs \subseteq runs
      /\ Registered(del.target) = {p \in DOMAIN del.snap.files : del.snap.files[p].registered}
  BY DEF Unchanged, Deletable
<1>3. /\ runs' = runs \ del.snap.runs
      /\ rows' = [f \in File |-> IF rows[f].run \in del.snap.runs THEN NoRow ELSE rows[f]]
      /\ owed' = [f \in File |-> IF Shown(f) THEN 0 ELSE owed[f]]
  BY DEF RowsGo
<1>4. rows' \in [File -> RowForm] /\ owed' \in [File -> Nat]
  BY <1>1, <1>3 DEF PlainFiles, RowForm, NoRow
<1>5. \A f \in File : rows[f] # NoRow /\ rows[f].run \in del.snap.runs =>
         f \in DOMAIN del.snap.files /\ del.snap.files[f].registered
  BY <1>2 DEF Registered
<1>6. \A f \in File \cap DOMAIN del.snap.files :
         \/ del.snap.files[f].content \in {0, owed[f]}
         \/ \E o \in Op : aside[o][f] = owed[f]
         => Shown(f)
  BY <1>1 DEF Shown
<1>7. \A o \in Op : /\ manifest[o].kind = "export"
                    /\ Backup("export", o) \in DOMAIN del.snap.files
                    /\ del.snap.files[Backup("export", o)].content \in {0, owed[manifest[o].dest]}
         => Shown(manifest[o].dest) /\ manifest[o].dest \in File
  BY <1>1, Kinds DEF Shown, PlainManifests
<1>8. ASSUME NEW f \in File, rows[f] # NoRow, Shown(f)
      PROVE  rows[f].run \in del.snap.runs
  <2>1. rows[f].run \in runs
    BY <1>8 DEF FilesInv, RowsOwed
  <2>2. CASE del.target = All
    BY <1>2, <2>1, <2>2 DEF RunsOf
  <2>3. CASE del.target # All
    <3>1. /\ RunsOf(del.target) = {del.target}
          /\ \A p \in DOMAIN del.snap.files : p \in File /\
                (del.snap.files[p].registered \/ (p \in Raw /\ RawOf[p] = del.target))
      BY <2>3 DEF RunsOf, FilesInv, Deleting
    <3>2. \A o \in Op : Backup("export", o) \notin File
      BY HiddenApart, Kinds
    <3>3. f \in DOMAIN del.snap.files
      BY <1>1, <1>8, <3>1, <3>2 DEF Shown
    <3>4. CASE del.snap.files[f].registered
      BY <1>2, <3>3, <3>4 DEF Registered
    <3>5. CASE f \in Raw /\ RawOf[f] = del.target
      BY <1>2, <1>8, <3>1, <3>5 DEF FilesInv, RawFiles
    <3>6. QED BY <3>1, <3>3, <3>4, <3>5
  <2>4. QED BY <2>2, <2>3
<1>9. \A f \in File : /\ rows'[f] = IF rows[f].run \in del.snap.runs THEN NoRow ELSE rows[f]
                      /\ owed'[f] = IF Shown(f) THEN 0 ELSE owed[f]
  BY <1>3
<1>10. QED
  <2>1. \A f \in File : rows[f] # NoRow /\ owed'[f] # owed[f] => rows[f].run \in del.snap.runs
    BY <1>8, <1>9
  <2>2. \A o \in Op : /\ manifest[o].kind = "export"
                      /\ Backup("export", o) \in DOMAIN del.snap.files
                      /\ del.snap.files[Backup("export", o)].content \in {0, owed[manifest[o].dest]}
          => owed'[manifest[o].dest] = 0
    BY <1>7, <1>9
  <2>3. \A f \in File \cap DOMAIN del.snap.files :
          \/ del.snap.files[f].content \in {0, owed[f]}
          \/ \E o \in Op : aside[o][f] = owed[f]
          => owed'[f] = 0
    BY <1>6, <1>9
  <2>4. \A f \in File : owed'[f] \in {0, owed[f]}
    BY <1>9
  <2>5. QED BY <1>1, <1>2, <1>3, <1>4, <1>5, <1>9, <2>1, <2>2, <2>3, <2>4

(* The transaction takes rows, and with them what is owed; nothing that is *)
(* still owed is only where the purge will remove it.                      *)
LEMMA RowsGoKeeps ==
    ASSUME FilesInv, del.at = "commit", Unchanged(del.target, del.snap), RowsGo,
           UNCHANGED <<here, aside, manifest, receipts, running, born, doubted, exp, ops>>
    PROVE  /\ FreshFiles' /\ FilesAtWork' /\ RowAtWork' /\ Receipts' /\ RowsOwed' /\ RawFiles'
           /\ RunOfRow' /\ Unshown' /\ OldRows' /\ GoneRows' /\ NothingLost'
           /\ runs' \subseteq runs /\ rows' \in [File -> RowForm] /\ owed' \in [File -> Nat]
           /\ \A f \in File : owed'[f] # 0 => aside[del.op][f] # owed'[f]
           /\ \A o \in Op : manifest[o].kind \in Kind /\ owed'[manifest[o].dest] # 0 =>
                 aside[del.op][Backup(manifest[o].kind, o)] # owed'[manifest[o].dest]
<1>1. /\ runs' = runs \ del.snap.runs /\ del.snap.runs \subseteq Run
      /\ rows' \in [File -> RowForm] /\ owed' \in [File -> Nat]
      /\ \A f \in File : /\ rows'[f] = IF rows[f].run \in del.snap.runs THEN NoRow ELSE rows[f]
                         /\ owed'[f] \in {0, owed[f]}
      /\ \A f \in File : rows[f] # NoRow /\ rows[f].run \in del.snap.runs =>
            f \in DOMAIN del.snap.files /\ del.snap.files[f].registered
      /\ \A f \in File : rows[f] # NoRow /\ owed'[f] # owed[f] =>
            rows[f].run \in del.snap.runs
      /\ \A f \in File \cap DOMAIN del.snap.files :
            \/ del.snap.files[f].content \in {0, owed[f]}
            \/ \E o \in Op : aside[o][f] = owed[f]
            => owed'[f] = 0
      /\ \A o \in Op : /\ manifest[o].kind = "export"
                       /\ Backup("export", o) \in DOMAIN del.snap.files
                       /\ del.snap.files[Backup("export", o)].content \in {0, owed[manifest[o].dest]}
            => owed'[manifest[o].dest] = 0
  BY CommitEffect
<1>p. PlainOps /\ PlainFiles /\ PlainExport /\ PlainManifests
  BY Plain
<1>2. exp.at \notin Leased /\ maintenance = "delete"
  BY DEF FilesInv, Leases
<1>3. Limit \in Nat /\ Limit' = Limit
  BY LimitNat DEF Limit
<1>4. /\ del.op \in Op /\ manifest[del.op].kind = "delete"
      /\ manifest[del.op].files = del.snap.files
      /\ \A p \in DOMAIN del.snap.files :
            /\ p \in File \cup Inside
            /\ aside[del.op][p] = del.snap.files[p].content
            /\ p \in Report => here[p] = 0
  <2>1. del.op \in Op /\ manifest[del.op] = [kind |-> "delete", files |-> del.snap.files]
    BY <1>p DEF PlainOps, FilesInv, Deleting
  <2>2. manifest[del.op].kind = "delete" /\ manifest[del.op].files = del.snap.files
    BY <2>1
  <2>3. IsSnapshot(del.snap.files)
    BY <2>1, <2>2, ManifestKinds DEF FilesInv
  <2>4. \A p \in DOMAIN del.snap.files : aside[del.op][p] = del.snap.files[p].content
    BY DEF FilesInv, Deleting
  <2>5. \A p \in DOMAIN del.snap.files : p \in Report => here[p] = 0
    BY <2>4 DEF FilesInv, Deleting
  <2>6. QED BY <2>1, <2>2, <2>3, <2>4, <2>5 DEF IsSnapshot
<1>5. FreshFiles'
  <2>1. \A f \in File : rows'[f].content \in {0, rows[f].content}
    BY <1>1 DEF NoRow
  <2>2. QED BY <1>1, <1>3, <2>1 DEF FilesInv, FreshFiles
<1>6. FilesAtWork'
  BY <1>2, NoBackup, NotLeased
<1>7. RowAtWork'
  BY <1>2 DEF RowAtWork, Leased
<1>8. Receipts'
  <2>1. \A f \in File, o \in Op : owed'[f] = NewContent(o) => owed'[f] = owed[f]
    BY <1>1, Operations
  <2>2. \A o \in Op : manifest[o].kind = "external_export" => manifest[o].dest \in File
    BY <1>p, Kinds DEF PlainManifests
  <2>3. QED BY <1>1, <2>1, <2>2 DEF FilesInv, Receipts
<1>9. RowsOwed'
  <2>1. ASSUME NEW f \in File, rows'[f] # NoRow
        PROVE  rows'[f] = rows[f] /\ rows[f].run \notin del.snap.runs /\ owed'[f] = owed[f]
    BY <1>1, <2>1
  <2>2. QED BY <1>1, <2>1 DEF FilesInv, RowsOwed
<1>10. RawFiles'
  <2>1. ASSUME NEW f \in Raw, owed'[f] # 0
        PROVE  rows'[f] # NoRow
    <3>0. f \in File /\ owed'[f] = owed[f] /\ owed[f] \in Nat
      BY <1>1, <1>p, <2>1, Sorts DEF PlainFiles
    <3>1. f \in File /\ rows[f] # NoRow /\ owed'[f] = owed[f] /\ owed[f] = 1
      BY <2>1, <3>0 DEF FilesInv, RawFiles
    <3>2. CASE rows[f].run \in del.snap.runs
      <4>1. f \in DOMAIN del.snap.files /\ aside[del.op][f] <= 1
        BY <1>1, <1>4, <3>1, <3>2 DEF FilesInv, RawFiles
      <4>2. del.snap.files[f].content \in {0, 1}
        <5>1. aside[del.op][f] \in Nat
          BY <1>4, <1>p, <3>1, Sorts DEF PlainFiles
        <5>2. QED BY <1>4, <4>1, <5>1
      <4>3. QED BY <1>1, <2>1, <3>1, <4>1, <4>2
    <3>3. CASE rows[f].run \notin del.snap.runs
      BY <1>1, <3>1, <3>3
    <3>4. QED BY <3>2, <3>3
  <2>2. \A f \in Raw : /\ rows'[f] # NoRow => rows'[f] = rows[f]
                       /\ rows'[f].content <= 1 /\ owed'[f] <= 1
    BY <1>1, Sorts DEF FilesInv, RawFiles, NoRow
  <2>3. QED BY <2>1, <2>2 DEF FilesInv, RawFiles
<1>11. RunOfRow'
  <2>1. ASSUME NEW o \in Op, manifest[o].kind = "export",
               rows'[manifest[o].dest].content = NewContent(o)
        PROVE  rows'[manifest[o].dest] = rows[manifest[o].dest]
    BY <1>1, <1>p, <2>1, Kinds, Operations DEF PlainManifests, NoRow
  <2>2. QED BY <2>1 DEF FilesInv, RunOfRow
<1>12. Unshown'
  <2>1. ASSUME NEW f \in Report, owed'[f] >= 2, rows'[f] = NoRow
        PROVE  here[f] # owed'[f] /\ \A o \in Op : aside[o][f] # owed'[f]
    <3>1. f \in File /\ owed'[f] = owed[f] /\ owed[f] >= 2
      BY <1>1, <2>1, Sorts
    <3>2. CASE rows[f] = NoRow
      BY <3>1, <3>2 DEF FilesInv, Unshown
    <3>3. CASE rows[f] # NoRow
      <4>1. f \in DOMAIN del.snap.files
        BY <1>1, <2>1, <3>1, <3>3
      <4>2. \A o \in Op : aside[o][f] # owed[f]
        BY <1>1, <2>1, <3>1, <4>1
      <4>3. here[f] = 0
        BY <1>4, <4>1
      <4>4. QED BY <3>1, <4>2, <4>3
    <3>4. QED BY <3>2, <3>3
  <2>2. QED BY <2>1 DEF Unshown
<1>13. OldRows'
  BY <1>1, <1>p, Kinds DEF FilesInv, OldRows, PlainManifests
<1>14. GoneRows'
  <2>1. ASSUME NEW o \in Op, manifest[o].kind = "delete", NEW p \in DOMAIN manifest[o].files,
               manifest[o].files[p].registered, rows'[p] = NoRow
        PROVE  owed'[p] = 0 \/ aside[o][p] # owed'[p]
    <3>1. p \in File
      BY <2>1, ManifestKinds DEF FilesInv, IsSnapshot
    <3>2. CASE rows[p] = NoRow
      BY <1>1, <2>1, <3>1, <3>2 DEF FilesInv, GoneRows
    <3>3. CASE rows[p] # NoRow
      BY <1>1, <2>1, <3>1, <3>3
    <3>4. QED BY <3>2, <3>3
  <2>2. QED BY <2>1 DEF GoneRows
<1>15. NothingLost'
  <2>1. \A f \in File : owed'[f] # 0 => owed'[f] = owed[f]
    BY <1>1
  <2>2. QED BY <2>1 DEF FilesInv, NothingLost, Found
<1>16. \A f \in File : owed'[f] # 0 => aside[del.op][f] # owed'[f]
  <2>1. ASSUME NEW f \in File, owed'[f] # 0, aside[del.op][f] = owed'[f]
        PROVE  FALSE
    <3>1. owed'[f] = owed[f] /\ f \in Path
      BY <1>1, <2>1, Sorts
    <3>2. f \in DOMAIN del.snap.files
      BY <1>4, <2>1, <3>1 DEF FilesInv, Named
    <3>3. QED BY <1>1, <1>4, <2>1, <3>1, <3>2
  <2>2. QED BY <2>1
<1>17. ASSUME NEW o \in Op, manifest[o].kind \in Kind, owed'[manifest[o].dest] # 0,
              aside[del.op][Backup(manifest[o].kind, o)] = owed'[manifest[o].dest]
       PROVE  FALSE
  <2>1. Backup(manifest[o].kind, o) \in Path /\ manifest[o].dest \in File
    BY <1>p, <1>17, HiddenApart DEF PlainManifests
  <2>2. Backup(manifest[o].kind, o) \in DOMAIN del.snap.files
    BY <1>4, <1>17, <2>1 DEF FilesInv, Named
  <2>3. manifest[o].kind = "export"
    BY <1>4, <1>17, <2>2, OutsideHidden, Kinds
  <2>4. QED BY <1>1, <1>4, <1>17, <2>1, <2>2, <2>3
<1>18. QED BY <1>1, <1>5, <1>6, <1>7, <1>8, <1>9, <1>10, <1>11, <1>12, <1>13, <1>14,
              <1>15, <1>16, <1>17

-----------------------------------------------------------------------------
(* Exports                                                                 *)

\* the export at work and its three files
Places ==
    /\ exp.at # "idle" /\ exp.op \in Op /\ exp.op <= ops /\ exp.kind \in Kind
    /\ S \in Path \ File /\ B \in Path \ File /\ S # B
    /\ D \in File /\ D \in Path /\ D \notin Raw /\ exp.dest = D
    /\ (exp.kind = "export" <=> D \in Report) /\ (exp.kind = "export" <=> D \notin Outside)
    /\ New = exp.op + 1 /\ New = NewContent(exp.op) /\ New >= 2
    /\ \A k \in Kind, o \in Op :
          /\ Staged(k, o) \in Path \ File /\ Backup(k, o) \in Path \ File
          /\ S # Backup(k, o) /\ B # Staged(k, o)
          /\ S = Staged(k, o) => k = exp.kind /\ o = exp.op
          /\ B = Backup(k, o) => k = exp.kind /\ o = exp.op
    /\ B = Backup(exp.kind, exp.op) /\ S = Staged(exp.kind, exp.op)

\* an export at work has them
LEMMA AtWork == FilesInv /\ exp.at # "idle" => Places
<1> SUFFICES ASSUME FilesInv, exp.at # "idle" PROVE Places
  OBVIOUS
<1>1. PlainOps /\ PlainExport /\ exp.op <= ops
  BY Plain DEF FilesInv, FreshOps
<1>2. exp.op \in Op /\ exp.kind \in Kind
  BY <1>1 DEF PlainOps, PlainExport
<1>3. S = Staged(exp.kind, exp.op) /\ B = Backup(exp.kind, exp.op) /\ D = exp.dest
      /\ New = NewContent(exp.op)
  BY DEF S, B, D, New
<1>4. \A k \in Kind, o \in Op :
          /\ Staged(k, o) \in Path \ File /\ Backup(k, o) \in Path \ File
          /\ S # Backup(k, o) /\ B # Staged(k, o)
          /\ S = Staged(k, o) => k = exp.kind /\ o = exp.op
          /\ B = Backup(k, o) => k = exp.kind /\ o = exp.op
  BY <1>2, <1>3, HiddenApart
<1>5. D \in File /\ D \notin Raw /\ (exp.kind = "export" <=> D \in Report)
      /\ (exp.kind = "export" <=> D \notin Outside)
  BY <1>1, <1>2, <1>3, Kinds, Sorts DEF PlainExport
<1>6. New = exp.op + 1 /\ New >= 2
  <2>1. exp.op \in Nat /\ exp.op >= 1 /\ NewContent(exp.op) = exp.op + 1
    BY <1>2, Operations
  <2>2. New = exp.op + 1
    BY <1>3, <2>1
  <2>3. QED BY <2>1, <2>2
<1>7. D \in Path /\ S \in Path \ File /\ B \in Path \ File /\ S # B
  BY <1>2, <1>3, <1>4, <1>5, Sorts
<1>8. QED BY <1>1, <1>2, <1>3, <1>4, <1>5, <1>6, <1>7 DEF Places

\* who holds the lease is alone with the store
LEMMA HoldsLease ==
    ASSUME FilesInv, exp.at \in Leased
    PROVE  /\ maintenance = "export" /\ del.at = "idle" /\ rec.at = "none" /\ up = "up"
           /\ exp.at # "idle"
  BY DEF FilesInv, Leases, Leased

\* the export goes on with the same files
SamePlaces ==
    exp'.op = exp.op /\ exp'.kind = exp.kind /\ exp'.dest = exp.dest /\ exp'.run = exp.run

\* ... in the same places
LEMMA SamePlace == SamePlaces => S' = S /\ B' = B /\ D' = D /\ New' = New
  BY DEF SamePlaces, S, B, D, New

\* what is owed is still found after files have moved
LEMMA StillFound ==
    ASSUME NothingLost, PlainManifests, UNCHANGED <<owed, aside, manifest>>,
           \A f \in File : owed[f] # 0 /\ here[f] = owed[f] =>
               \/ here'[f] = owed[f]
               \/ \E o \in Op : /\ manifest[o].kind \in Kind /\ manifest[o].dest = f
                                /\ here'[Backup(manifest[o].kind, o)] = owed[f],
           \A o \in Op : LET b == Backup(manifest[o].kind, o)
                             f == manifest[o].dest IN
               manifest[o].kind \in Kind /\ owed[f] # 0 /\ here[b] = owed[f] =>
                   here'[b] = owed[f] \/ here'[f] = owed[f]
    PROVE  NothingLost'
<1>1. ASSUME NEW f \in File, owed[f] # 0
      PROVE  \/ here'[f] = owed[f]
             \/ \E o \in Op : /\ manifest[o].kind = "delete" /\ f \in DOMAIN manifest[o].files
                              /\ aside[o][f] = owed[f]
             \/ \E o \in Op : /\ manifest[o].kind \in Kind /\ manifest[o].dest = f
                              /\ \/ here'[Backup(manifest[o].kind, o)] = owed[f]
                                 \/ \E o1 \in Op :
                                      /\ manifest[o1].kind = "delete"
                                      /\ Backup(manifest[o].kind, o) \in DOMAIN manifest[o1].files
                                      /\ aside[o1][Backup(manifest[o].kind, o)] = owed[f]
  <2>1. CASE Found(f, owed[f])
    BY <1>1, <2>1 DEF Found
  <2>2. CASE ~ Found(f, owed[f])
    <3>1. PICK o \in Op : /\ manifest[o].kind \in Kind /\ manifest[o].dest = f
                          /\ Found(Backup(manifest[o].kind, o), owed[f])
      BY <1>1, <2>2 DEF NothingLost
    <3>2. QED BY <1>1, <3>1 DEF Found
  <2>3. QED BY <2>1, <2>2
<1>2. QED BY <1>1 DEF NothingLost, Found

\* an export that begins to work with the lease leaves deletions alone
LEMMA NoDeletion ==
    ASSUME del.at = "idle", UNCHANGED del
    PROVE  Deleting' /\ Purging'
  BY DEF Deleting, Purging

\* ... and there is no start under way
LEMMA NoRecoveryNow ==
    ASSUME rec.at = "none", UNCHANGED rec, rec.op = 0 => rec.todo = {}
    PROVE  Recovering'
  BY DEF Recovering

\* the manifests lead where they led
LEMMA LeadsKeep ==
    ASSUME NothingLost, UNCHANGED <<owed, here, aside>>,
           \A o \in Op : /\ manifest[o].kind = "delete" => manifest'[o] = manifest[o]
                         /\ manifest[o].kind \in Kind => /\ manifest'[o].kind = manifest[o].kind
                                                         /\ manifest'[o].dest = manifest[o].dest
    PROVE  NothingLost'
<1>1. ASSUME NEW q \in Path, NEW c, Found(q, c)
      PROVE  \/ here[q] = c
             \/ \E o1 \in Op : /\ manifest'[o1].kind = "delete" /\ q \in DOMAIN manifest'[o1].files
                               /\ aside[o1][q] = c
  BY <1>1 DEF Found
<1>2. ASSUME NEW f \in File, owed[f] # 0
      PROVE  \/ Found(f, owed[f])
             \/ \E o1 \in Op : /\ manifest'[o1].kind \in Kind /\ manifest'[o1].dest = f
                               /\ Found(Backup(manifest'[o1].kind, o1), owed[f])
                               /\ Backup(manifest'[o1].kind, o1) \in Path
  <2>1. CASE Found(f, owed[f])
    BY <2>1
  <2>2. CASE ~ Found(f, owed[f])
    <3>1. PICK o1 \in Op : /\ manifest[o1].kind \in Kind /\ manifest[o1].dest = f
                           /\ Found(Backup(manifest[o1].kind, o1), owed[f])
      BY <1>2, <2>2 DEF NothingLost
    <3>2. manifest'[o1].kind = manifest[o1].kind /\ manifest'[o1].dest = f
      BY <3>1
    <3>3. Backup(manifest[o1].kind, o1) \in Path
      BY <3>1, HiddenApart
    <3>4. QED BY <3>1, <3>2, <3>3
  <2>3. QED BY <2>1, <2>2
<1>3. \A f \in File : f \in Path
  BY Sorts
<1>4. QED BY <1>1, <1>2, <1>3 DEF NothingLost, Found

-----------------------------------------------------------------------------
(* Runs, the drive, previews                                               *)

(* A run begins: RunBegins.                                                *)
LEMMA RunBeginsKeeps ==
    ASSUME FilesInv, NEW r \in Run, RunBegins(r), UNCHANGED <<pending, del, exp>>
    PROVE  FilesInv'
<1>1. UNCHANGED <<rows, receipts, here, aside, manifest, owners, maintenance,
                 up, rec, waiting, ops, faults, crashes, detached, attached,
                 owed, doubted, overtaken, pending, del, exp>>
  BY DEF RunBegins, db, disk, start, counts, wish, files
<1>p. PlainOps /\ PlainFiles /\ PlainExport /\ PlainManifests
  BY Plain
<1>2. Limit' = Limit
  BY <1>1 DEF Limit
<1>3. Numbers' /\ Flags' /\ Manifests' /\ ExportForm' /\ DeleteForm' /\
        RecoveryForm' /\ PendingForm' /\ Leases' /\ FreshOps' /\ FreshFiles'
        /\ FreshHidden' /\ Unused' /\ Named' /\ NamedOutside' /\
        ManifestAtWork' /\ FilesAtWork' /\ RowAtWork' /\ Receipts' /\
        RawFiles' /\ RunOfRow' /\ Unshown' /\ OldRows' /\ GoneRows' /\
        Deleting' /\ Purging' /\ Recovering' /\ NothingLost'
  BY <1>1, <1>2, Frames DEF db, counts
<1>4. TypeOK'
  BY <1>1 DEF FilesInv, TypeOK, RunBegins
<1>5. RowsOwed'
  BY <1>1 DEF FilesInv, RowsOwed, RunBegins
<1>6. QED BY <1>2, <1>3, <1>4, <1>5 DEF FilesInv

(* A run ends: RunEnds.                                                    *)
LEMMA RunEndsKeeps ==
    ASSUME FilesInv, NEW r \in Run, RunEnds(r), UNCHANGED <<pending, del, exp>>
    PROVE  FilesInv'
<1>1. UNCHANGED <<runs, born, rows, receipts, here, aside, manifest, owners,
                 maintenance, up, rec, waiting, ops, faults, crashes,
                 detached, attached, owed, doubted, overtaken, pending, del,
                 exp>>
  BY DEF RunEnds, db, disk, start, counts, wish, files
<1>p. PlainOps /\ PlainFiles /\ PlainExport /\ PlainManifests
  BY Plain
<1>2. Limit' = Limit
  BY <1>1 DEF Limit
<1>3. Numbers' /\ Flags' /\ Manifests' /\ ExportForm' /\ DeleteForm' /\
        RecoveryForm' /\ PendingForm' /\ Leases' /\ FreshOps' /\ FreshFiles'
        /\ FreshHidden' /\ Unused' /\ Named' /\ NamedOutside' /\
        ManifestAtWork' /\ FilesAtWork' /\ RowAtWork' /\ Receipts' /\
        RowsOwed' /\ RawFiles' /\ RunOfRow' /\ Unshown' /\ OldRows' /\
        GoneRows' /\ Deleting' /\ Purging' /\ Recovering' /\ NothingLost'
  BY <1>1, <1>2, Frames DEF db, counts
<1>4. TypeOK'
  BY <1>1 DEF FilesInv, TypeOK, RunEnds
<1>5. QED BY <1>2, <1>3, <1>4 DEF FilesInv

(* The drive goes away or comes back.                                      *)
LEMMA DriveKeeps ==
    ASSUME FilesInv, Detach \/ Attach, UNCHANGED <<pending, del, exp>>
    PROVE  FilesInv'
<1>1. UNCHANGED <<runs, born, running, rows, receipts, here, aside, manifest,
                 owners, maintenance, up, rec, waiting, ops, faults, crashes,
                 owed, doubted, overtaken, pending, del, exp>>
  BY DEF Detach, Attach, db, disk, start, counts, wish, files
<1>p. PlainOps /\ PlainFiles /\ PlainExport /\ PlainManifests
  BY Plain
<1>2. Limit' = Limit
  BY <1>1 DEF Limit
<1>3. TypeOK' /\ Manifests' /\ ExportForm' /\ DeleteForm' /\ RecoveryForm' /\
        PendingForm' /\ Leases' /\ FreshOps' /\ FreshFiles' /\ FreshHidden' /\
        Unused' /\ Named' /\ NamedOutside' /\ ManifestAtWork' /\ FilesAtWork'
        /\ RowAtWork' /\ Receipts' /\ RowsOwed' /\ RawFiles' /\ RunOfRow' /\
        Unshown' /\ OldRows' /\ GoneRows' /\ Deleting' /\ Purging' /\
        Recovering' /\ NothingLost'
  BY <1>1, <1>2, Frames DEF db, counts
<1>4. Numbers'
  BY <1>1 DEF FilesInv, Numbers, Detach, Attach
<1>5. Flags'
  BY <1>1 DEF FilesInv, Flags, Detach, Attach
<1>6. QED BY <1>2, <1>3, <1>4, <1>5 DEF FilesInv

(* A deletion is shown ...                                                 *)
LEMMA PreviewKeeps ==
    ASSUME FilesInv, NEW t \in Run \cup {All}, Preview(t), UNCHANGED exp
    PROVE  FilesInv'
<1>1. UNCHANGED <<runs, born, running, rows, receipts, here, aside, manifest,
                 owners, maintenance, up, rec, waiting, ops, faults, crashes,
                 detached, attached, owed, doubted, overtaken, del, exp>>
  BY DEF Preview, db, disk, start, counts, wish, files
<1>p. PlainOps /\ PlainFiles /\ PlainExport /\ PlainManifests
  BY Plain
<1>2. Limit' = Limit
  BY <1>1 DEF Limit
<1>3. TypeOK' /\ Numbers' /\ Flags' /\ Manifests' /\ ExportForm' /\
        DeleteForm' /\ RecoveryForm' /\ Leases' /\ FreshOps' /\ FreshFiles' /\
        FreshHidden' /\ Unused' /\ Named' /\ NamedOutside' /\ ManifestAtWork'
        /\ FilesAtWork' /\ RowAtWork' /\ Receipts' /\ RowsOwed' /\ RawFiles'
        /\ RunOfRow' /\ Unshown' /\ OldRows' /\ GoneRows' /\ Deleting' /\
        Purging' /\ Recovering' /\ NothingLost'
  BY <1>1, <1>2, Frames DEF db, counts
<1>4. PendingForm'
  BY DEF FilesInv, PendingForm, Preview, Target
<1>5. QED BY <1>2, <1>3, <1>4 DEF FilesInv

(* ... dismissed ...                                                       *)
LEMMA DiscardKeeps ==
    ASSUME FilesInv, NEW p \in pending, Discard(p), UNCHANGED exp
    PROVE  FilesInv'
<1>1. UNCHANGED <<runs, born, running, rows, receipts, here, aside, manifest,
                 owners, maintenance, up, rec, waiting, ops, faults, crashes,
                 detached, attached, owed, doubted, overtaken, del, exp>>
  BY DEF Discard, db, disk, start, counts, wish, files
<1>p. PlainOps /\ PlainFiles /\ PlainExport /\ PlainManifests
  BY Plain
<1>2. Limit' = Limit
  BY <1>1 DEF Limit
<1>3. TypeOK' /\ Numbers' /\ Flags' /\ Manifests' /\ ExportForm' /\
        DeleteForm' /\ RecoveryForm' /\ Leases' /\ FreshOps' /\ FreshFiles' /\
        FreshHidden' /\ Unused' /\ Named' /\ NamedOutside' /\ ManifestAtWork'
        /\ FilesAtWork' /\ RowAtWork' /\ Receipts' /\ RowsOwed' /\ RawFiles'
        /\ RunOfRow' /\ Unshown' /\ OldRows' /\ GoneRows' /\ Deleting' /\
        Purging' /\ Recovering' /\ NothingLost'
  BY <1>1, <1>2, Frames DEF db, counts
<1>4. PendingForm'
  BY <1>1 DEF FilesInv, PendingForm, Discard
<1>5. QED BY <1>2, <1>3, <1>4 DEF FilesInv

(* ... or confirmed, and its delete() begins if the lease is free.         *)
LEMMA ConfirmKeeps ==
    ASSUME FilesInv, NEW p \in pending, Confirm(p), UNCHANGED exp
    PROVE  FilesInv'
<1>1. UNCHANGED <<runs, born, running, rows, receipts, here, aside, manifest,
                 owners, up, rec, waiting, faults, crashes, detached,
                 attached, owed, doubted, overtaken, exp>>
  BY DEF Confirm, NewOp, db, disk, start, counts, wish, files
<1>p. PlainOps /\ PlainFiles /\ PlainExport /\ PlainManifests
  BY Plain
<1>2. Flags' /\ Manifests' /\ ExportForm' /\ RecoveryForm' /\ FreshHidden' /\
        Named' /\ NamedOutside' /\ ManifestAtWork' /\ FilesAtWork' /\
        RowAtWork' /\ Receipts' /\ RowsOwed' /\ RawFiles' /\ RunOfRow' /\
        Unshown' /\ OldRows' /\ GoneRows' /\ Recovering' /\ NothingLost'
  BY <1>1, Frames DEF db, counts
<1>e. /\ ops' = ops + 1 /\ ops' \in Op /\ pending' \subseteq pending /\ up = "up"
      /\ \/ UNCHANGED <<maintenance, del>>
         \/ /\ maintenance = "free" /\ maintenance' = "delete" /\ del.at = "idle"
            /\ DeleteForm' /\ del'.at = "check" /\ del'.op = ops'
  <2>1. ops' = ops + 1 /\ ops' \in Op /\ pending' \subseteq pending /\ up = "up"
    BY Operations, AnOperation DEF FilesInv, Numbers, Confirm, NewOp
  <2>2. CASE maintenance # "free"
    BY <2>1, <2>2 DEF Confirm
  <2>3. CASE maintenance = "free"
    <3>1. /\ maintenance' = "delete" /\ del.at = "idle"
          /\ del' = [NoDelete EXCEPT !.at = "check", !.op = ops', !.target = p.target,
                                     !.snap = p.snap, !.shown = p.snap.files]
      BY <2>3 DEF Confirm
    <3>2. /\ del'.at = "check" /\ del'.op = ops' /\ del'.target = p.target
          /\ del'.snap = p.snap /\ del'.shown = p.snap.files
      BY <3>1 DEF NoDelete
    <3>3. del' = [at |-> del'.at, op |-> del'.op, target |-> del'.target,
                  snap |-> del'.snap, shown |-> del'.shown, kept |-> del'.kept]
      BY <3>1 DEF NoDelete
    <3>4. p.target \in Target
      BY DEF FilesInv, PendingForm
    <3>5. DeleteForm'
      BY <2>1, <3>2, <3>3, <3>4, Operations DEF DeleteForm, IsDelete
    <3>6. QED BY <2>1, <2>3, <3>1, <3>2, <3>5
  <2>4. QED BY <2>2, <2>3
<1>3. TypeOK'
  BY <1>1, <1>e, <1>p, Operations DEF FilesInv, TypeOK, PlainOps, PlainFiles,
     PlainExport, PlainManifests
<1>4. Numbers'
  BY <1>1, <1>e, <1>p, Operations DEF FilesInv, Numbers, PlainOps, PlainFiles,
     PlainExport, PlainManifests
<1>5. DeleteForm'
  BY <1>1, <1>e, <1>p, Operations DEF FilesInv, DeleteForm, PlainOps,
     PlainFiles, PlainExport, PlainManifests
<1>6. PendingForm'
  BY <1>1, <1>e, <1>p, Operations DEF FilesInv, PendingForm, PlainOps,
     PlainFiles, PlainExport, PlainManifests
<1>7. Leases'
  BY <1>1, <1>e, <1>p, Operations DEF FilesInv, Leases, PlainOps, PlainFiles,
     PlainExport, PlainManifests
<1>8. FreshOps'
  BY <1>1, <1>e, <1>p, Operations DEF FilesInv, FreshOps, PlainOps,
     PlainFiles, PlainExport, PlainManifests
<1>9. FreshFiles'
  <2>1. Limit' >= Limit /\ Limit' \in Nat /\ Limit \in Nat
    BY <1>1, <1>e, <1>p, Operations DEF PlainOps, Limit, NewContent
  <2>2. QED BY <1>1, <1>p, <2>1, LimitGrows DEF FilesInv
<1>10. Unused'
  <2>1. ops' >= ops /\ ops' \in Nat /\ ops \in Nat
    BY <1>1, <1>e, <1>p DEF PlainOps
  <2>2. \A o \in Op : o > ops' => o > ops
    BY <2>1, Operations
  <2>3. QED BY <1>1, <2>2 DEF FilesInv, Unused
<1>11. Deleting'
  BY <1>1, <1>e, <1>p, Kinds, Operations DEF PlainOps, FilesInv, Deleting, FreshOps
<1>12. Purging'
  BY <1>1, <1>e, <1>p, Operations DEF FilesInv, Purging, PlainOps, PlainFiles,
     PlainExport, PlainManifests
<1>13. QED BY <1>2, <1>3, <1>4, <1>5, <1>6, <1>7, <1>8, <1>9, <1>10, <1>11,
        <1>12 DEF FilesInv

-----------------------------------------------------------------------------
(* Deletions, step by step                                                 *)

(* Nothing has changed: the manifest is written.                           *)
LEMMA CheckKeeps ==
    ASSUME FilesInv, Check, UNCHANGED exp
    PROVE  FilesInv'
<1>1. UNCHANGED <<runs, born, running, rows, receipts, here, aside, owners,
                 maintenance, up, rec, waiting, ops, faults, crashes,
                 detached, attached, owed, doubted, overtaken, pending, exp>>
  BY DEF Check, Written, db, disk, start, counts, wish, files
<1>p. PlainOps /\ PlainFiles /\ PlainExport /\ PlainManifests
  BY Plain
<1>2. Limit' = Limit
  BY <1>1 DEF Limit
<1>3. TypeOK' /\ Numbers' /\ Flags' /\ ExportForm' /\ RecoveryForm' /\
        PendingForm' /\ FreshFiles' /\ Unused' /\ FilesAtWork' /\ RowAtWork'
        /\ RowsOwed' /\ RawFiles' /\ Unshown'
  BY <1>1, <1>2, Frames DEF db, counts
<1>e. /\ del.op \in Op /\ manifest[del.op] = NoManifest /\ (exp.at # "idle" => del.op # exp.op)
      /\ \A o \in Op : o # del.op => manifest'[o] = manifest[o]
      /\ manifest'[del.op] = [kind |-> "delete", files |-> del.snap.files]
      /\ manifest'[del.op].kind = "delete" /\ manifest'[del.op].files = del.snap.files
      /\ DeleteForm' /\ del.at = "check" /\ del'.at = "stage" /\ del'.op = del.op
      /\ del'.target = del.target /\ del'.snap = del.snap
  BY <1>p, DeleteGoes, WrittenManifest DEF PlainOps, FilesInv, FreshOps, Check, Deleting
<1>s. /\ IsSnapshot(del.snap.files)
      /\ \A p \in DOMAIN del.snap.files :
            /\ del.snap.files[p].content = here[p]
            /\ del.snap.files[p].registered => p \in File /\ rows[p] # NoRow
            /\ del.target # All => p \in File /\
                   (del.snap.files[p].registered \/ (p \in Raw /\ RawOf[p] = del.target))
  <2>1. /\ del.target \in Target /\ Deletable(del.target)
        /\ del.snap.files = Snapshot(del.target).files
    BY DEF FilesInv, DeleteForm, IsDelete, Check
  <2>2. RunsOf(del.target) \subseteq runs /\ runs \subseteq Run
    BY <2>1 DEF Deletable, FilesInv, TypeOK
  <2>3. QED BY <2>1, <2>2, SnapshotForm
<1>4. Manifests'
  <2>1. IsManifest([kind |-> "delete", files |-> del.snap.files])
    BY <1>s DEF IsManifest
  <2>2. QED BY <1>p, <2>1, WrittenManifest DEF PlainOps, FilesInv, Check
<1>5. DeleteForm'
  BY <1>1, <1>e, <1>p, Operations, Kinds DEF FilesInv, DeleteForm, PlainOps,
     PlainFiles, PlainExport, PlainManifests
<1>6. Leases'
  BY <1>1, <1>e, <1>p, Operations, Kinds DEF FilesInv, Leases, PlainOps,
     PlainFiles, PlainExport, PlainManifests
<1>7. FreshOps'
  <2>1. \A o \in Op : o > ops => o # del.op
    BY <1>p, Operations DEF PlainOps, FilesInv, FreshOps
  <2>2. \A o \in Op : manifest'[o].kind \in Kind => manifest'[o] = manifest[o]
    BY <1>e, Kinds
  <2>3. QED BY <1>1, <1>e, <2>1, <2>2 DEF FilesInv, FreshOps
<1>8. FreshHidden'
  BY <1>1, <1>e, <1>p, Operations, Kinds DEF FilesInv, FreshHidden, PlainOps,
     PlainFiles, PlainExport, PlainManifests
<1>9. Named'
  BY <1>1, <1>e, <1>p, Operations, Kinds DEF FilesInv, Named, PlainOps,
     PlainFiles, PlainExport, PlainManifests
<1>10. NamedOutside'
  BY <1>1, <1>e, <1>p, Operations, Kinds DEF FilesInv, NamedOutside, PlainOps,
     PlainFiles, PlainExport, PlainManifests
<1>11. ManifestAtWork'
  BY <1>1, <1>e, <1>p, Operations, Kinds DEF FilesInv, ManifestAtWork,
     PlainOps, PlainFiles, PlainExport, PlainManifests
<1>12. Receipts'
  BY <1>1, <1>e DEF FilesInv, Receipts
<1>13. RunOfRow'
  BY <1>1, <1>e, <1>p, Operations, Kinds DEF FilesInv, RunOfRow, PlainOps,
     PlainFiles, PlainExport, PlainManifests
<1>14. OldRows'
  BY <1>1, <1>e, <1>p, Operations, Kinds DEF FilesInv, OldRows, PlainOps,
     PlainFiles, PlainExport, PlainManifests
<1>15. GoneRows'
  BY <1>1, <1>e, <1>s DEF FilesInv, GoneRows
<1>16. Deleting'
  <2>1. \A p \in DOMAIN del.snap.files : p \in Path
    BY <1>s, Sorts DEF IsSnapshot
  <2>2. \A p \in Path : aside[del.op][p] = 0
    BY <1>e, Kinds DEF FilesInv, Named
  <2>3. QED BY <1>1, <1>e, <1>s, <2>1, <2>2 DEF Deleting
<1>17. Purging'
  BY <1>1, <1>e, <1>p, Operations, Kinds DEF FilesInv, Purging, PlainOps,
     PlainFiles, PlainExport, PlainManifests
<1>18. Recovering'
  BY <1>1, <1>e DEF FilesInv, Leases, Recovering
<1>19. NothingLost'
  BY <1>1, <1>e, NewManifestFinds DEF FilesInv
<1>20. QED BY <1>2, <1>3, <1>4, <1>5, <1>6, <1>7, <1>8, <1>9, <1>10, <1>11,
        <1>12, <1>13, <1>14, <1>15, <1>16, <1>17, <1>18, <1>19 DEF FilesInv

(* Every file is aside.                                                    *)
LEMMA AllStagedKeeps ==
    ASSUME FilesInv, AllStaged, UNCHANGED exp
    PROVE  FilesInv'
<1>1. UNCHANGED <<runs, born, running, rows, receipts, here, aside, manifest,
                 owners, maintenance, up, rec, waiting, ops, faults, crashes,
                 detached, attached, owed, doubted, overtaken, pending, exp>>
  BY DEF AllStaged, ToStage, db, disk, start, counts, wish, files
<1>p. PlainOps /\ PlainFiles /\ PlainExport /\ PlainManifests
  BY Plain
<1>2. Limit' = Limit
  BY <1>1 DEF Limit
<1>3. TypeOK' /\ Numbers' /\ Flags' /\ Manifests' /\ ExportForm' /\
        RecoveryForm' /\ PendingForm' /\ FreshFiles' /\ FreshHidden' /\
        Unused' /\ Named' /\ NamedOutside' /\ ManifestAtWork' /\ FilesAtWork'
        /\ RowAtWork' /\ Receipts' /\ RowsOwed' /\ RawFiles' /\ RunOfRow' /\
        Unshown' /\ OldRows' /\ GoneRows' /\ Recovering' /\ NothingLost'
  BY <1>1, <1>2, Frames DEF db, counts
<1>e. /\ del.at = "stage" /\ DeleteForm' /\ del'.at = "commit" /\ del'.op = del.op
      /\ del'.target = del.target /\ del'.snap = del.snap /\ ToStage = {}
  BY DeleteGoes DEF FilesInv, AllStaged
<1>4. DeleteForm'
  BY <1>1, <1>e DEF FilesInv, DeleteForm, PlainOps, PlainFiles, PlainExport,
     PlainManifests
<1>5. Leases'
  BY <1>1, <1>e DEF FilesInv, Leases, PlainOps, PlainFiles, PlainExport,
     PlainManifests
<1>6. FreshOps'
  BY <1>1, <1>e DEF FilesInv, FreshOps, PlainOps, PlainFiles, PlainExport,
     PlainManifests
<1>7. Deleting'
  BY <1>1, <1>e DEF FilesInv, Deleting, ToStage
<1>8. Purging'
  BY <1>1, <1>e DEF FilesInv, Purging, PlainOps, PlainFiles, PlainExport,
     PlainManifests
<1>9. QED BY <1>2, <1>3, <1>4, <1>5, <1>6, <1>7, <1>8 DEF FilesInv

(* The deletion is given up before its transaction.                        *)
LEMMA GiveUpKeeps ==
    ASSUME FilesInv, GiveUp, UNCHANGED exp
    PROVE  FilesInv'
<1>1. UNCHANGED <<runs, born, running, rows, receipts, here, aside, manifest,
                 owners, maintenance, up, rec, waiting, ops, faults, crashes,
                 detached, attached, owed, doubted, overtaken, pending, exp>>
  BY DEF GiveUp, db, disk, start, counts, wish, files
<1>p. PlainOps /\ PlainFiles /\ PlainExport /\ PlainManifests
  BY Plain
<1>2. Limit' = Limit
  BY <1>1 DEF Limit
<1>3. TypeOK' /\ Numbers' /\ Flags' /\ Manifests' /\ ExportForm' /\
        RecoveryForm' /\ PendingForm' /\ FreshFiles' /\ FreshHidden' /\
        Unused' /\ Named' /\ NamedOutside' /\ ManifestAtWork' /\ FilesAtWork'
        /\ RowAtWork' /\ Receipts' /\ RowsOwed' /\ RawFiles' /\ RunOfRow' /\
        Unshown' /\ OldRows' /\ GoneRows' /\ Recovering' /\ NothingLost'
  BY <1>1, <1>2, Frames DEF db, counts
<1>e. /\ del.at # "idle" /\ DeleteForm' /\ del'.at = "restore" /\ del'.op = del.op
  BY DeleteGoes DEF FilesInv, GiveUp
<1>4. DeleteForm'
  BY <1>1, <1>e DEF FilesInv, DeleteForm, PlainOps, PlainFiles, PlainExport,
     PlainManifests
<1>5. Leases'
  BY <1>1, <1>e DEF FilesInv, Leases, PlainOps, PlainFiles, PlainExport,
     PlainManifests
<1>6. FreshOps'
  BY <1>1, <1>e DEF FilesInv, FreshOps, PlainOps, PlainFiles, PlainExport,
     PlainManifests
<1>7. Deleting'
  BY <1>1, <1>e DEF FilesInv, Deleting, PlainOps, PlainFiles, PlainExport,
     PlainManifests
<1>8. Purging'
  BY <1>1, <1>e DEF FilesInv, Purging, PlainOps, PlainFiles, PlainExport,
     PlainManifests
<1>9. QED BY <1>2, <1>3, <1>4, <1>5, <1>6, <1>7, <1>8 DEF FilesInv

(* A file goes aside: the manifest names it.                               *)
LEMMA StageKeeps ==
    ASSUME FilesInv, NEW p \in Path, Stage(p), UNCHANGED exp
    PROVE  FilesInv'
<1>1. UNCHANGED <<runs, born, running, rows, receipts, manifest, owners,
                 maintenance, up, rec, waiting, ops, faults, crashes,
                 detached, attached, owed, doubted, overtaken, pending, del,
                 exp>>
  BY DEF Stage, Put, Unlinked, db, disk, start, counts, wish, files
<1>p. PlainOps /\ PlainFiles /\ PlainExport /\ PlainManifests
  BY Plain
<1>2. Numbers' /\ Flags' /\ Manifests' /\ ExportForm' /\ DeleteForm' /\
        RecoveryForm' /\ PendingForm' /\ Leases' /\ FreshOps' /\
        ManifestAtWork' /\ RowAtWork' /\ Receipts' /\ RowsOwed' /\ RunOfRow'
        /\ OldRows'
  BY <1>1, Frames DEF db, counts
<1>e. /\ del.at = "stage" /\ del.op \in Op /\ p \in DOMAIN del.snap.files
      /\ manifest[del.op].kind = "delete" /\ manifest[del.op].files = del.snap.files
      /\ here[p] = del.snap.files[p].content /\ here[p] # 0 /\ aside[del.op][p] = 0
      /\ here' \in [Path -> Nat] /\ here'[p] = 0
      /\ \A q \in Path : q # p => here'[q] = here[q]
      /\ aside' \in [Op -> [Path -> Nat]] /\ aside'[del.op][p] = here[p]
      /\ \A o1 \in Op, q \in Path : o1 # del.op \/ q # p => aside'[o1][q] = aside[o1][q]
      /\ maintenance = "delete" /\ exp.at \notin Leased /\ rec.at = "none"
  <2>1. del.at = "stage" /\ p \in ToStage /\ here[p] = del.snap.files[p].content
        /\ Put(del.op, p) /\ Unlinked(p)
    BY DEF Stage
  <2>2. del.op \in Op /\ here[p] \in Nat
    BY <1>p, <2>1 DEF PlainOps, PlainFiles
  <2>3. p \in DOMAIN del.snap.files /\ here[p] # 0 /\ aside[del.op][p] = 0
    BY <2>1 DEF ToStage
  <2>4. manifest[del.op].kind = "delete" /\ manifest[del.op].files = del.snap.files
    BY <2>1 DEF FilesInv, Deleting
  <2>5. /\ here' \in [Path -> Nat] /\ here'[p] = 0
        /\ \A q \in Path : q # p => here'[q] = here[q]
    BY <1>p, <2>1, UnlinkedFile DEF PlainFiles
  <2>6. /\ aside' \in [Op -> [Path -> Nat]] /\ aside'[del.op][p] = here[p]
        /\ \A o1 \in Op, q \in Path : o1 # del.op \/ q # p => aside'[o1][q] = aside[o1][q]
    BY <1>p, <2>1, <2>2, SetAside DEF PlainFiles, Put
  <2>7. maintenance = "delete" /\ exp.at \notin Leased /\ rec.at = "none"
    BY <2>1 DEF FilesInv, Leases
  <2>8. QED BY <2>1, <2>2, <2>3, <2>4, <2>5, <2>6, <2>7
<1>h. FreshHidden' /\ Unused'
  <2>1. \A q \in Path : \/ here'[q] \in {0, here[q]}
                         \/ \E o1 \in Op : here'[q] = aside[o1][q]
    BY <1>1, <1>e
  <2>2. \A o1 \in Op, q \in Path : aside'[o1][q] \in {0, aside[o1][q], here[q]}
    BY <1>1, <1>e
  <2>3. QED BY <1>1, <2>1, <2>2, ShiftsKeep
<1>o. p \in File \cup Inside
  BY <1>e, ManifestKinds DEF FilesInv, IsSnapshot
<1>3. TypeOK'
  BY <1>1, <1>e, <1>p, Operations, Kinds DEF FilesInv, TypeOK, PlainOps,
     PlainFiles, PlainExport, PlainManifests
<1>4. FreshFiles'
  BY <1>1, <1>e, Sorts DEF FilesInv, FreshFiles, Limit
<1>5. FreshHidden'
  BY <1>h
<1>6. Unused'
  BY <1>h
<1>7. Named'
  BY <1>1, <1>e, <1>p, Operations, Kinds DEF FilesInv, Named, PlainOps,
     PlainFiles, PlainExport, PlainManifests
<1>8. NamedOutside'
  BY <1>1, <1>e, <1>o, InsideKeepsOutside DEF FilesInv
<1>9. FilesAtWork'
  BY <1>1, <1>e, NoBackup, NotLeased
<1>10. RawFiles'
  BY <1>1, <1>e, Sorts DEF FilesInv, RawFiles
<1>11. Unshown'
  BY <1>1, <1>e, Sorts DEF FilesInv, Unshown
<1>12. GoneRows'
  <2>1. ASSUME NEW o \in Op, manifest[o].kind = "delete",
               NEW q \in DOMAIN manifest[o].files, manifest[o].files[q].registered,
               rows[q] = NoRow
        PROVE  owed[q] = 0 \/ aside'[o][q] # owed[q]
    <3>1. q \in Path /\ (owed[q] = 0 \/ aside[o][q] # owed[q])
      BY <2>1, ManifestKinds, Sorts DEF FilesInv, GoneRows, IsSnapshot
    <3>2. ~ (o = del.op /\ q = p)
      BY <1>e, <2>1 DEF FilesInv, Deleting
    <3>3. QED BY <1>e, <3>1, <3>2
  <2>2. QED BY <1>1, <2>1 DEF GoneRows
<1>13. Deleting'
  <2>1. IsSnapshot(del.snap.files)
    BY <1>e, ManifestKinds DEF FilesInv
  <2>2. \A q \in DOMAIN del.snap.files : q \in Path
    BY <2>1, Sorts DEF IsSnapshot
  <2>3. QED BY <1>1, <1>e, <2>2 DEF FilesInv, Deleting
<1>14. Purging'
  BY <1>1, <1>e, <1>p, Operations, Kinds DEF FilesInv, Purging, PlainOps,
     PlainFiles, PlainExport, PlainManifests
<1>15. Recovering'
  BY <1>1, <1>e, <1>p, Operations, Kinds DEF FilesInv, Recovering, PlainOps,
     PlainFiles, PlainExport, PlainManifests
<1>16. NothingLost'
  BY <1>1, <1>e, <1>p, Shifted DEF FilesInv
<1>17. QED BY <1>2, <1>3, <1>4, <1>5, <1>6, <1>7, <1>8, <1>9, <1>10, <1>11,
        <1>12, <1>13, <1>14, <1>15, <1>16 DEF FilesInv

(* A file is put back, or cannot be.                                       *)
LEMMA RestoreKeeps ==
    ASSUME FilesInv, NEW p \in Path, Restore(p), UNCHANGED exp
    PROVE  FilesInv'
<1>1. UNCHANGED <<runs, born, running, rows, receipts, manifest, owners,
                 maintenance, up, rec, waiting, ops, crashes, detached,
                 attached, owed, doubted, overtaken, pending, exp>>
  BY DEF Restore, Away, db, disk, start, counts, wish, files
<1>p. PlainOps /\ PlainFiles /\ PlainExport /\ PlainManifests
  BY Plain
<1>2. Flags' /\ Manifests' /\ ExportForm' /\ RecoveryForm' /\ PendingForm' /\
        ManifestAtWork' /\ RowAtWork' /\ Receipts' /\ RowsOwed' /\ RunOfRow'
        /\ OldRows'
  BY <1>1, Frames DEF db, counts
<1>e. /\ del.at = "restore" /\ del.op \in Op /\ aside[del.op][p] # 0
      /\ manifest[del.op].kind = "delete" /\ p \in DOMAIN manifest[del.op].files
      /\ \/ /\ here[p] = 0 /\ UNCHANGED <<del, faults>>
            /\ here' \in [Path -> Nat] /\ here'[p] = aside[del.op][p]
            /\ \A q \in Path : q # p => here'[q] = here[q]
            /\ aside' \in [Op -> [Path -> Nat]] /\ aside'[del.op][p] = 0
            /\ \A o1 \in Op, q \in Path : o1 # del.op \/ q # p => aside'[o1][q] = aside[o1][q]
         \/ /\ UNCHANGED <<here, aside>> /\ faults' \in {faults, faults + 1}
            /\ del'.at = "restore" /\ del'.op = del.op /\ DeleteForm'
      /\ maintenance = "delete" /\ exp.at \notin Leased /\ rec.at = "none"
  <2>1. del.at = "restore" /\ p \in ToRestore
    BY DEF Restore
  <2>2. del.op \in Op /\ aside[del.op][p] \in Nat /\ aside[del.op][p] # 0
    BY <1>p, <2>1 DEF PlainOps, PlainFiles, ToRestore
  <2>3. manifest[del.op].kind = "delete" /\ p \in DOMAIN manifest[del.op].files
    BY <2>2 DEF FilesInv, Named
  <2>4. maintenance = "delete" /\ exp.at \notin Leased /\ rec.at = "none"
    BY <2>1 DEF FilesInv, Leases
  <2>5. CASE /\ here[p] = 0 /\ UNCHANGED <<del, faults>> /\ Away(del.op, p)
             /\ here' = [here EXCEPT ![p] = aside[del.op][p]]
    <3>1. /\ aside' \in [Op -> [Path -> Nat]] /\ aside'[del.op][p] = 0
          /\ \A o1 \in Op, q \in Path : o1 # del.op \/ q # p => aside'[o1][q] = aside[o1][q]
      BY <1>p, <2>2, <2>5, SetAside DEF PlainFiles, Away
    <3>2. /\ here' \in [Path -> Nat] /\ here'[p] = aside[del.op][p]
          /\ \A q \in Path : q # p => here'[q] = here[q]
      BY <1>p, <2>2, <2>5 DEF PlainFiles
    <3>3. QED BY <2>1, <2>2, <2>3, <2>4, <2>5, <3>1, <3>2
  <2>6. CASE /\ UNCHANGED <<here, aside>> /\ faults' \in {faults, faults + 1}
             /\ del' = [del EXCEPT !.kept = @ \cup {p}]
    <3>1. del'.at = "restore" /\ del'.op = del.op /\ DeleteForm'
      BY <2>1, <2>6 DEF FilesInv, DeleteForm, IsDelete
    <3>2. QED BY <2>1, <2>2, <2>3, <2>4, <2>6, <3>1
  <2>7. QED BY <2>5, <2>6 DEF Restore
<1>d. DeleteForm' /\ del'.at = "restore" /\ del'.op = del.op
  BY <1>e DEF FilesInv, DeleteForm
<1>o. p \in File \cup Inside
  BY <1>e, ManifestKinds DEF FilesInv, IsSnapshot
<1>h. FreshHidden' /\ Unused'
  <2>1. \A q \in Path : \/ here'[q] \in {0, here[q]}
                         \/ \E o1 \in Op : here'[q] = aside[o1][q]
    BY <1>1, <1>e
  <2>2. \A o1 \in Op, q \in Path : aside'[o1][q] \in {0, aside[o1][q], here[q]}
    BY <1>1, <1>e
  <2>3. QED BY <1>1, <2>1, <2>2, ShiftsKeep
<1>3. TypeOK'
  BY <1>1, <1>e DEF FilesInv, TypeOK
<1>4. Numbers'
  BY <1>1, <1>e, <1>p, Operations, Kinds DEF FilesInv, Numbers, PlainOps,
     PlainFiles, PlainExport, PlainManifests
<1>5. DeleteForm'
  BY <1>d
<1>6. Leases'
  BY <1>1, <1>e, <1>d DEF FilesInv, Leases
<1>7. FreshOps'
  BY <1>1, <1>e, <1>d DEF FilesInv, FreshOps
<1>8. FreshFiles'
  BY <1>1, <1>e, Sorts DEF FilesInv, FreshFiles, Limit
<1>9. FreshHidden'
  BY <1>h
<1>10. Unused'
  BY <1>h
<1>11. Named'
  BY <1>1, <1>e DEF FilesInv, Named
<1>12. NamedOutside'
  <2>1. \A q \in Path : q # p => here'[q] = here[q]
    BY <1>1, <1>e
  <2>2. QED BY <1>1, <1>o, <2>1, InsideKeepsOutside DEF FilesInv
<1>13. FilesAtWork'
  BY <1>1, <1>e, NoBackup, NotLeased
<1>14. RawFiles'
  BY <1>1, <1>e, Sorts DEF FilesInv, RawFiles
<1>15. Unshown'
  BY <1>1, <1>e, Sorts DEF FilesInv, Unshown
<1>16. GoneRows'
  <2>1. ASSUME NEW o \in Op, manifest[o].kind = "delete",
               NEW q \in DOMAIN manifest[o].files, manifest[o].files[q].registered,
               rows[q] = NoRow
        PROVE  owed[q] = 0 \/ aside'[o][q] # owed[q]
    <3>1. q \in Path /\ (owed[q] = 0 \/ aside[o][q] # owed[q])
      BY <2>1, ManifestKinds, Sorts DEF FilesInv, GoneRows, IsSnapshot
    <3>2. QED BY <1>e, <3>1
  <2>2. QED BY <1>1, <2>1 DEF GoneRows
<1>17. Deleting'
  BY <1>1, <1>d, <1>e DEF FilesInv, Deleting
<1>18. Purging'
  BY <1>1, <1>d, <1>e DEF FilesInv, Purging
<1>19. Recovering'
  BY <1>1, <1>e DEF FilesInv, Recovering
<1>20. NothingLost'
  <2>1. CASE UNCHANGED <<here, aside>>
    BY <1>1, <2>1, Frames
  <2>2. CASE ~ UNCHANGED <<here, aside>>
    BY <1>1, <1>e, <1>p, <2>2, Shifted DEF FilesInv
  <2>3. QED BY <2>1, <2>2
<1>21. QED BY <1>2, <1>3, <1>4, <1>5, <1>6, <1>7, <1>8, <1>9, <1>10, <1>11,
        <1>12, <1>13, <1>14, <1>15, <1>16, <1>17, <1>18, <1>19, <1>20 DEF
        FilesInv

(* All are back, or the manifest is kept for the start.                    *)
LEMMA RestoredKeeps ==
    ASSUME FilesInv, Restored, UNCHANGED exp
    PROVE  FilesInv'
<1>1. UNCHANGED <<runs, born, running, rows, receipts, here, aside, owners,
                 up, rec, waiting, ops, faults, crashes, detached, attached,
                 owed, doubted, overtaken, pending, exp>>
  BY DEF Restored, Faulty, db, disk, start, counts, wish, files
<1>p. PlainOps /\ PlainFiles /\ PlainExport /\ PlainManifests
  BY Plain
<1>2. Limit' = Limit
  BY <1>1 DEF Limit
<1>3. Numbers' /\ Flags' /\ ExportForm' /\ RecoveryForm' /\ PendingForm' /\
        FreshFiles' /\ Unused' /\ FilesAtWork' /\ RowAtWork' /\ RowsOwed' /\
        RawFiles' /\ Unshown'
  BY <1>1, <1>2, Frames DEF db, counts
<1>e. /\ del.at = "restore" /\ del.op \in Op /\ manifest[del.op].kind \in {"none", "delete"}
      /\ exp.at # "idle" => exp.op # del.op
      /\ \A o \in Op : o # del.op => manifest'[o] = manifest[o]
      /\ \/ UNCHANGED manifest
         \/ manifest'[del.op] = NoManifest /\ \A p \in Path : aside[del.op][p] = 0
      /\ Manifests' /\ DeleteForm' /\ del'.at = "idle" /\ del'.op = 0
      /\ maintenance' = "free" /\ exp.at \notin Leased /\ rec.at = "none"
  <2>1. del.at = "restore" /\ del' = NoDelete /\ maintenance' = "free"
    BY DEF Restored, Faulty
  <2>2. del.op \in Op /\ manifest[del.op].kind \in {"none", "delete"}
        /\ (exp.at # "idle" => exp.op # del.op)
    BY <1>p, <2>1 DEF PlainOps, FilesInv, Deleting, FreshOps
  <2>3. exp.at \notin Leased /\ rec.at = "none"
    BY <2>1 DEF FilesInv, Leases
  <2>4. DeleteForm' /\ del'.at = "idle" /\ del'.op = 0
    BY <2>1, DeleteEnds
  <2>5. CASE UNCHANGED manifest
    BY <2>1, <2>2, <2>3, <2>4, <2>5 DEF FilesInv, Manifests
  <2>6. CASE Written(del.op, NoManifest) /\ \A p \in Path : aside[del.op][p] = 0
    BY <2>1, <2>2, <2>3, <2>4, <2>6, WrittenManifest, NoManifestForm DEF FilesInv
  <2>7. QED BY <2>5, <2>6 DEF Restored, ToRestore
<1>4. TypeOK'
  BY <1>1, <1>e, <1>p, Operations, Kinds DEF FilesInv, TypeOK, PlainOps,
     PlainFiles, PlainExport, PlainManifests
<1>5. Manifests'
  BY <1>e
<1>6. DeleteForm'
  BY <1>e
<1>7. Leases'
  BY <1>1, <1>e, <1>p, Operations, Kinds DEF FilesInv, Leases, PlainOps,
     PlainFiles, PlainExport, PlainManifests
<1>8. FreshOps'
  BY <1>1, <1>e, <1>p, Operations, Kinds DEF FilesInv, FreshOps, PlainOps,
     PlainFiles, PlainExport, PlainManifests
<1>9. FreshHidden'
  BY <1>1, <1>e, <1>p, Operations, Kinds DEF FilesInv, FreshHidden, PlainOps,
     PlainFiles, PlainExport, PlainManifests
<1>10. Named'
  BY <1>1, <1>e, <1>p, Operations, Kinds DEF FilesInv, Named, PlainOps,
     PlainFiles, PlainExport, PlainManifests
<1>11. NamedOutside'
  BY <1>1, <1>e, <1>p, Operations, Kinds DEF FilesInv, NamedOutside, PlainOps,
     PlainFiles, PlainExport, PlainManifests
<1>12. ManifestAtWork'
  BY <1>1, <1>e, <1>p, Operations, Kinds DEF FilesInv, ManifestAtWork,
     PlainOps, PlainFiles, PlainExport, PlainManifests
<1>13. Receipts'
  BY <1>1, <1>e, <1>p, Operations, Kinds DEF FilesInv, Receipts, PlainOps,
     PlainFiles, PlainExport, PlainManifests
<1>14. RunOfRow'
  BY <1>1, <1>e, <1>p, Operations, Kinds DEF FilesInv, RunOfRow, PlainOps,
     PlainFiles, PlainExport, PlainManifests
<1>15. OldRows'
  BY <1>1, <1>e, <1>p, Operations, Kinds DEF FilesInv, OldRows, PlainOps,
     PlainFiles, PlainExport, PlainManifests
<1>16. GoneRows'
  BY <1>1, <1>e, Kinds DEF FilesInv, GoneRows
<1>17. Deleting'
  BY <1>e DEF Deleting
<1>18. Purging'
  BY <1>e DEF Purging
<1>19. Recovering'
  BY <1>1, <1>e, <1>p, Operations, Kinds DEF FilesInv, Recovering, PlainOps,
     PlainFiles, PlainExport, PlainManifests
<1>20. NothingLost'
  <2>1. CASE UNCHANGED manifest
    BY <1>1, <2>1, Frames
  <2>2. CASE \A p \in Path : aside[del.op][p] = 0
    BY <1>1, <1>e, <2>2, Kinds, ManifestGoes DEF FilesInv
  <2>3. QED BY <1>e, <2>1, <2>2
<1>21. QED BY <1>2, <1>3, <1>4, <1>5, <1>6, <1>7, <1>8, <1>9, <1>10, <1>11,
        <1>12, <1>13, <1>14, <1>15, <1>16, <1>17, <1>18, <1>19, <1>20 DEF
        FilesInv

(* Nothing is aside any more, or the manifest is kept for the start.       *)
LEMMA PurgedKeeps ==
    ASSUME FilesInv, Purged, UNCHANGED exp
    PROVE  FilesInv'
<1>1. UNCHANGED <<runs, born, running, rows, receipts, here, aside, owners,
                 up, rec, waiting, ops, crashes, detached, attached, owed,
                 doubted, overtaken, pending, exp>>
  BY DEF Purged, Faulty, db, disk, start, counts, wish, files
<1>p. PlainOps /\ PlainFiles /\ PlainExport /\ PlainManifests
  BY Plain
<1>2. Limit' = Limit
  BY <1>1 DEF Limit
<1>3. Flags' /\ ExportForm' /\ RecoveryForm' /\ PendingForm' /\ FreshFiles' /\
        Unused' /\ FilesAtWork' /\ RowAtWork' /\ RowsOwed' /\ RawFiles' /\
        Unshown'
  BY <1>1, <1>2, Frames DEF db, counts
<1>e. /\ del.at = "purge" /\ del.op \in Op /\ manifest[del.op].kind \in {"none", "delete"}
      /\ exp.at # "idle" => exp.op # del.op
      /\ \A o \in Op : o # del.op => manifest'[o] = manifest[o]
      /\ \/ UNCHANGED manifest
         \/ manifest'[del.op] = NoManifest /\ \A p \in Path : aside[del.op][p] = 0
      /\ Manifests' /\ DeleteForm' /\ del'.at = "idle" /\ del'.op = 0
      /\ faults' \in {faults, faults + 1}
      /\ maintenance' = "free" /\ exp.at \notin Leased /\ rec.at = "none"
  <2>1. del.at = "purge" /\ del' = NoDelete /\ maintenance' = "free"
      /\ faults' \in {faults, faults + 1}
    BY DEF Purged, Faulty
  <2>2. del.op \in Op /\ manifest[del.op].kind \in {"none", "delete"}
        /\ (exp.at # "idle" => exp.op # del.op)
    BY <1>p, <2>1 DEF PlainOps, FilesInv, Deleting, FreshOps
  <2>3. exp.at \notin Leased /\ rec.at = "none"
    BY <2>1 DEF FilesInv, Leases
  <2>4. DeleteForm' /\ del'.at = "idle" /\ del'.op = 0
    BY <2>1, DeleteEnds
  <2>5. CASE UNCHANGED manifest
    BY <2>1, <2>2, <2>3, <2>4, <2>5 DEF FilesInv, Manifests
  <2>6. CASE Written(del.op, NoManifest) /\ \A p \in Path : aside[del.op][p] = 0
    BY <2>1, <2>2, <2>3, <2>4, <2>6, WrittenManifest, NoManifestForm DEF FilesInv
  <2>7. QED BY <2>5, <2>6 DEF Purged, ToRestore
<1>4. TypeOK'
  BY <1>1, <1>e, <1>p, Operations, Kinds DEF FilesInv, TypeOK, PlainOps,
     PlainFiles, PlainExport, PlainManifests
<1>5. Numbers'
  BY <1>1, <1>e DEF FilesInv, Numbers
<1>6. Manifests'
  BY <1>e
<1>7. DeleteForm'
  BY <1>e
<1>8. Leases'
  BY <1>1, <1>e, <1>p, Operations, Kinds DEF FilesInv, Leases, PlainOps,
     PlainFiles, PlainExport, PlainManifests
<1>9. FreshOps'
  BY <1>1, <1>e, <1>p, Operations, Kinds DEF FilesInv, FreshOps, PlainOps,
     PlainFiles, PlainExport, PlainManifests
<1>10. FreshHidden'
  BY <1>1, <1>e, <1>p, Operations, Kinds DEF FilesInv, FreshHidden, PlainOps,
     PlainFiles, PlainExport, PlainManifests
<1>11. Named'
  BY <1>1, <1>e, <1>p, Operations, Kinds DEF FilesInv, Named, PlainOps,
     PlainFiles, PlainExport, PlainManifests
<1>12. NamedOutside'
  BY <1>1, <1>e, <1>p, Operations, Kinds DEF FilesInv, NamedOutside, PlainOps,
     PlainFiles, PlainExport, PlainManifests
<1>13. ManifestAtWork'
  BY <1>1, <1>e, <1>p, Operations, Kinds DEF FilesInv, ManifestAtWork,
     PlainOps, PlainFiles, PlainExport, PlainManifests
<1>14. Receipts'
  BY <1>1, <1>e, <1>p, Operations, Kinds DEF FilesInv, Receipts, PlainOps,
     PlainFiles, PlainExport, PlainManifests
<1>15. RunOfRow'
  BY <1>1, <1>e, <1>p, Operations, Kinds DEF FilesInv, RunOfRow, PlainOps,
     PlainFiles, PlainExport, PlainManifests
<1>16. OldRows'
  BY <1>1, <1>e, <1>p, Operations, Kinds DEF FilesInv, OldRows, PlainOps,
     PlainFiles, PlainExport, PlainManifests
<1>17. GoneRows'
  BY <1>1, <1>e, Kinds DEF FilesInv, GoneRows
<1>18. Deleting'
  BY <1>e DEF Deleting
<1>19. Purging'
  BY <1>e DEF Purging
<1>20. Recovering'
  BY <1>1, <1>e, <1>p, Operations, Kinds DEF FilesInv, Recovering, PlainOps,
     PlainFiles, PlainExport, PlainManifests
<1>21. NothingLost'
  <2>1. CASE UNCHANGED manifest
    BY <1>1, <2>1, Frames
  <2>2. CASE \A p \in Path : aside[del.op][p] = 0
    BY <1>1, <1>e, <2>2, Kinds, ManifestGoes DEF FilesInv
  <2>3. QED BY <1>e, <2>1, <2>2
<1>22. QED BY <1>2, <1>3, <1>4, <1>5, <1>6, <1>7, <1>8, <1>9, <1>10, <1>11,
        <1>12, <1>13, <1>14, <1>15, <1>16, <1>17, <1>18, <1>19, <1>20, <1>21
        DEF FilesInv

(* A file aside is removed: nobody is owed it (Purging).                   *)
LEMMA PurgeKeeps ==
    ASSUME FilesInv, NEW p \in Path, Purge(p), UNCHANGED exp
    PROVE  FilesInv'
<1>1. UNCHANGED <<runs, born, running, rows, receipts, here, manifest, owners,
                 maintenance, up, rec, waiting, ops, faults, crashes,
                 detached, attached, owed, doubted, overtaken, pending, del,
                 exp>>
  BY DEF Purge, Away, db, disk, start, counts, wish, files
<1>p. PlainOps /\ PlainFiles /\ PlainExport /\ PlainManifests
  BY Plain
<1>2. Numbers' /\ Flags' /\ Manifests' /\ ExportForm' /\ DeleteForm' /\
        RecoveryForm' /\ PendingForm' /\ Leases' /\ FreshOps' /\ NamedOutside'
        /\ ManifestAtWork' /\ RowAtWork' /\ Receipts' /\ RowsOwed' /\
        RunOfRow' /\ OldRows'
  BY <1>1, Frames DEF db, counts
<1>e. /\ del.at = "purge" /\ del.op \in Op /\ aside[del.op][p] # 0
      /\ manifest[del.op].kind = "delete" /\ p \in DOMAIN manifest[del.op].files
      /\ aside' \in [Op -> [Path -> Nat]] /\ aside'[del.op][p] = 0
      /\ \A o1 \in Op, q \in Path : o1 # del.op \/ q # p => aside'[o1][q] = aside[o1][q]
      /\ maintenance = "delete" /\ exp.at \notin Leased /\ rec.at = "none"
  <2>1. del.at = "purge" /\ aside[del.op][p] # 0 /\ Away(del.op, p) /\ del.op \in Op
    BY <1>p DEF Purge, PlainOps
  <2>2. manifest[del.op].kind = "delete" /\ p \in DOMAIN manifest[del.op].files
    BY <2>1 DEF FilesInv, Named
  <2>3. /\ aside' \in [Op -> [Path -> Nat]] /\ aside'[del.op][p] = 0
        /\ \A o1 \in Op, q \in Path : o1 # del.op \/ q # p => aside'[o1][q] = aside[o1][q]
    BY <1>p, <2>1, SetAside DEF PlainFiles, Away
  <2>4. maintenance = "delete" /\ exp.at \notin Leased /\ rec.at = "none"
    BY <2>1 DEF FilesInv, Leases
  <2>5. QED BY <2>1, <2>2, <2>3, <2>4
<1>h. FreshHidden' /\ Unused'
  <2>1. \A q \in Path : \/ here'[q] \in {0, here[q]}
                         \/ \E o1 \in Op : here'[q] = aside[o1][q]
    BY <1>1, <1>e
  <2>2. \A o1 \in Op, q \in Path : aside'[o1][q] \in {0, aside[o1][q], here[q]}
    BY <1>1, <1>e
  <2>3. QED BY <1>1, <2>1, <2>2, ShiftsKeep
<1>3. TypeOK'
  BY <1>1, <1>e DEF FilesInv, TypeOK
<1>4. FreshFiles'
  <2>1. Limit \in Nat /\ Limit' = Limit
    BY <1>1, LimitNat DEF Limit
  <2>2. QED BY <1>1, <1>e, <2>1, Sorts DEF FilesInv, FreshFiles
<1>5. FreshHidden'
  BY <1>h
<1>6. Unused'
  BY <1>h
<1>7. Named'
  BY <1>1, <1>e DEF FilesInv, Named
<1>8. FilesAtWork'
  BY <1>1, <1>e, NoBackup, NotLeased
<1>9. RawFiles'
  BY <1>1, <1>e, Sorts DEF FilesInv, RawFiles
<1>10. Unshown'
  BY <1>1, <1>e, Sorts DEF FilesInv, Unshown
<1>11. GoneRows'
  <2>1. ASSUME NEW o \in Op, manifest[o].kind = "delete",
               NEW q \in DOMAIN manifest[o].files, manifest[o].files[q].registered,
               rows[q] = NoRow
        PROVE  owed[q] = 0 \/ aside'[o][q] # owed[q]
    <3>1. q \in Path /\ (owed[q] = 0 \/ aside[o][q] # owed[q])
      BY <2>1, ManifestKinds, Sorts DEF FilesInv, GoneRows, IsSnapshot
    <3>2. QED BY <1>e, <3>1
  <2>2. QED BY <1>1, <2>1 DEF GoneRows
<1>12. Deleting'
  BY <1>1, <1>e DEF FilesInv, Deleting
<1>13. Purging'
  <2>1. \A o \in Op : manifest[o].kind \in Kind => Backup(manifest[o].kind, o) \in Path
    BY HiddenApart
  <2>2. \A q \in Path : aside'[del.op][q] \in {0, aside[del.op][q]}
    BY <1>e
  <2>3. QED BY <1>1, <1>e, <2>1, <2>2, Sorts DEF FilesInv, Purging
<1>14. Recovering'
  BY <1>1, <1>e DEF FilesInv, Recovering
<1>15. NothingLost'
  <2>1. aside[del.op][p] = owed[p] => owed[p] = 0 \/ p \notin File
    BY <1>e DEF FilesInv, Purging
  <2>2. ASSUME Needed(p, aside[del.op][p])
        PROVE  FALSE
    BY <1>e, <2>1, <2>2 DEF Needed, FilesInv, Purging
  <2>3. QED BY <1>1, <1>e, <1>p, <2>2, Shifted DEF FilesInv
<1>16. QED BY <1>2, <1>3, <1>4, <1>5, <1>6, <1>7, <1>8, <1>9, <1>10, <1>11,
        <1>12, <1>13, <1>14, <1>15 DEF FilesInv

(* The transaction takes the rows ...                                      *)
LEMMA CommitKeeps ==
    ASSUME FilesInv, Commit, UNCHANGED exp
    PROVE  FilesInv'
<1>1. UNCHANGED <<born, running, receipts, here, aside, manifest, owners,
                 maintenance, up, rec, waiting, ops, faults, crashes,
                 detached, attached, doubted, overtaken, pending, exp>>
  BY DEF Commit, RowsGo, Faulty, db, disk, start, counts, wish, files
<1>p. PlainOps /\ PlainFiles /\ PlainExport /\ PlainManifests
  BY Plain
<1>2. Numbers' /\ Flags' /\ Manifests' /\ ExportForm' /\ RecoveryForm' /\
        PendingForm' /\ FreshHidden' /\ Unused' /\ Named' /\ NamedOutside' /\
        ManifestAtWork' /\ Recovering'
  BY <1>1, Frames DEF db, counts
<1>e. /\ del.at = "commit" /\ Unchanged(del.target, del.snap) /\ RowsGo
      /\ DeleteForm' /\ del'.at = "purge" /\ del'.op = del.op
  BY DeleteGoes DEF Commit, FilesInv
<1>k. /\ FreshFiles' /\ FilesAtWork' /\ RowAtWork' /\ Receipts' /\ RowsOwed' /\ RawFiles'
      /\ RunOfRow' /\ Unshown' /\ OldRows' /\ GoneRows' /\ NothingLost'
      /\ runs' \subseteq runs /\ rows' \in [File -> RowForm] /\ owed' \in [File -> Nat]
      /\ \A f \in File : owed'[f] # 0 => aside[del.op][f] # owed'[f]
      /\ \A o \in Op : manifest[o].kind \in Kind /\ owed'[manifest[o].dest] # 0 =>
            aside[del.op][Backup(manifest[o].kind, o)] # owed'[manifest[o].dest]
  BY <1>1, <1>e, RowsGoKeeps
<1>3. TypeOK'
  <2>1. running \subseteq runs'
    BY <1>e DEF Unchanged, Deletable, RowsGo, FilesInv, TypeOK
  <2>2. QED BY <1>1, <1>k, <2>1 DEF FilesInv, TypeOK, RowForm
<1>4. DeleteForm'
  BY <1>e
<1>5. Leases'
  BY <1>1, <1>e, <1>p, Operations, Kinds DEF FilesInv, Leases, PlainOps,
     PlainFiles, PlainExport, PlainManifests
<1>6. FreshOps'
  BY <1>1, <1>e, <1>p, Operations, Kinds DEF FilesInv, FreshOps, PlainOps,
     PlainFiles, PlainExport, PlainManifests
<1>7. FreshFiles'
  BY <1>k
<1>8. FilesAtWork'
  BY <1>k
<1>9. RowAtWork'
  BY <1>k
<1>10. Receipts'
  BY <1>k
<1>11. RowsOwed'
  BY <1>k
<1>12. RawFiles'
  BY <1>k
<1>13. RunOfRow'
  BY <1>k
<1>14. Unshown'
  BY <1>k
<1>15. OldRows'
  BY <1>k
<1>16. GoneRows'
  BY <1>k
<1>17. Deleting'
  BY <1>1, <1>e, Kinds DEF FilesInv, Deleting
<1>18. Purging'
  BY <1>1, <1>e, <1>k DEF Purging
<1>19. NothingLost'
  BY <1>k
<1>20. QED BY <1>2, <1>3, <1>4, <1>5, <1>6, <1>7, <1>8, <1>9, <1>10, <1>11,
        <1>12, <1>13, <1>14, <1>15, <1>16, <1>17, <1>18, <1>19 DEF FilesInv

(* ... or is applied and raises.                                           *)
LEMMA CommitInDoubtKeeps ==
    ASSUME FilesInv, CommitInDoubt, UNCHANGED exp
    PROVE  FilesInv'
<1>1. UNCHANGED <<born, running, receipts, here, aside, manifest, owners,
                 maintenance, up, rec, waiting, ops, crashes, detached,
                 attached, doubted, overtaken, pending, exp>>
  BY DEF CommitInDoubt, RowsGo, Faulty, db, disk, start, counts, wish, files
<1>p. PlainOps /\ PlainFiles /\ PlainExport /\ PlainManifests
  BY Plain
<1>2. Flags' /\ Manifests' /\ ExportForm' /\ RecoveryForm' /\ PendingForm' /\
        FreshHidden' /\ Unused' /\ Named' /\ NamedOutside' /\ ManifestAtWork'
        /\ Recovering'
  BY <1>1, Frames DEF db, counts
<1>e. /\ del.at = "commit" /\ Unchanged(del.target, del.snap) /\ RowsGo
      /\ DeleteForm' /\ del'.at = "restore" /\ del'.op = del.op
      /\ faults' \in {faults, faults + 1}
  BY DeleteGoes DEF CommitInDoubt, FilesInv, Faulty
<1>k. /\ FreshFiles' /\ FilesAtWork' /\ RowAtWork' /\ Receipts' /\ RowsOwed' /\ RawFiles'
      /\ RunOfRow' /\ Unshown' /\ OldRows' /\ GoneRows' /\ NothingLost'
      /\ runs' \subseteq runs /\ rows' \in [File -> RowForm] /\ owed' \in [File -> Nat]
      /\ \A f \in File : owed'[f] # 0 => aside[del.op][f] # owed'[f]
      /\ \A o \in Op : manifest[o].kind \in Kind /\ owed'[manifest[o].dest] # 0 =>
            aside[del.op][Backup(manifest[o].kind, o)] # owed'[manifest[o].dest]
  BY <1>1, <1>e, RowsGoKeeps
<1>3. TypeOK'
  <2>1. running \subseteq runs'
    BY <1>e DEF Unchanged, Deletable, RowsGo, FilesInv, TypeOK
  <2>2. QED BY <1>1, <1>k, <2>1 DEF FilesInv, TypeOK, RowForm
<1>4. Numbers'
  BY <1>1, <1>e DEF FilesInv, Numbers
<1>5. DeleteForm'
  BY <1>e
<1>6. Leases'
  BY <1>1, <1>e, <1>p, Operations, Kinds DEF FilesInv, Leases, PlainOps,
     PlainFiles, PlainExport, PlainManifests
<1>7. FreshOps'
  BY <1>1, <1>e, <1>p, Operations, Kinds DEF FilesInv, FreshOps, PlainOps,
     PlainFiles, PlainExport, PlainManifests
<1>8. FreshFiles'
  BY <1>k
<1>9. FilesAtWork'
  BY <1>k
<1>10. RowAtWork'
  BY <1>k
<1>11. Receipts'
  BY <1>k
<1>12. RowsOwed'
  BY <1>k
<1>13. RawFiles'
  BY <1>k
<1>14. RunOfRow'
  BY <1>k
<1>15. Unshown'
  BY <1>k
<1>16. OldRows'
  BY <1>k
<1>17. GoneRows'
  BY <1>k
<1>18. Deleting'
  BY <1>1, <1>e, Kinds DEF FilesInv, Deleting
<1>19. Purging'
  BY <1>1, <1>e, <1>k DEF Purging
<1>20. NothingLost'
  BY <1>k
<1>21. QED BY <1>2, <1>3, <1>4, <1>5, <1>6, <1>7, <1>8, <1>9, <1>10, <1>11,
        <1>12, <1>13, <1>14, <1>15, <1>16, <1>17, <1>18, <1>19, <1>20 DEF
        FilesInv

-----------------------------------------------------------------------------
(* The next start, about deletions                                         *)

(* The start puts a file back, or removes what is aside of it: if the row  *)
(* is gone nobody is owed it (GoneRows).                                   *)
LEMMA ReconcileKeeps ==
    ASSUME FilesInv, NEW p \in Path, Reconcile(p), UNCHANGED exp
    PROVE  FilesInv'
<1>1. UNCHANGED <<runs, born, running, rows, receipts, manifest, owners,
                 maintenance, up, waiting, ops, faults, crashes, detached,
                 attached, owed, doubted, overtaken, pending, del, exp>>
  BY DEF Reconcile, Away, db, disk, start, counts, wish, files
<1>p. PlainOps /\ PlainFiles /\ PlainExport /\ PlainManifests
  BY Plain
<1>2. Numbers' /\ Flags' /\ Manifests' /\ ExportForm' /\ DeleteForm' /\
        PendingForm' /\ FreshOps' /\ ManifestAtWork' /\ RowAtWork' /\
        Receipts' /\ RowsOwed' /\ RunOfRow' /\ OldRows'
  BY <1>1, Frames DEF db, counts
<1>e. /\ rec.at = "deletes" /\ rec.op \in Op /\ p \in rec.todo /\ ~ Unreconcilable(rec.op, p)
      /\ manifest[rec.op].kind = "delete" /\ p \in DOMAIN manifest[rec.op].files
      /\ p \in File \cup Inside
      /\ here' \in [Path -> Nat]
      /\ here'[p] = IF here[p] = 0 /\ ShouldRestore(rec.op, p) THEN aside[rec.op][p] ELSE here[p]
      /\ \A q \in Path : q # p => here'[q] = here[q]
      /\ aside' \in [Op -> [Path -> Nat]] /\ aside'[rec.op][p] = 0
      /\ \A o1 \in Op, q \in Path : o1 # rec.op \/ q # p => aside'[o1][q] = aside[o1][q]
      /\ RecoveryForm' /\ rec'.at = "deletes" /\ rec'.op = rec.op
      /\ rec'.todo = rec.todo \ {p} /\ rec'.before = rec.before
      /\ maintenance = "recovery" /\ exp.at \notin Leased /\ del.at = "idle"
  <2>1. /\ rec.at = "deletes" /\ p \in rec.todo /\ ~ Unreconcilable(rec.op, p)
        /\ Away(rec.op, p) /\ rec' = [rec EXCEPT !.todo = @ \ {p}]
        /\ here' = [here EXCEPT ![p] =
                      IF @ = 0 /\ ShouldRestore(rec.op, p) THEN aside[rec.op][p] ELSE @]
    BY DEF Reconcile
  <2>2. /\ rec.op \in Op /\ manifest[rec.op].kind = "delete"
        /\ p \in DOMAIN manifest[rec.op].files
    BY <1>p, <2>1 DEF FilesInv, Recovering, PlainOps
  <2>3. p \in File \cup Inside
    BY <2>2, ManifestKinds DEF FilesInv, IsSnapshot
  <2>4. /\ here' \in [Path -> Nat]
        /\ here'[p] = IF here[p] = 0 /\ ShouldRestore(rec.op, p) THEN aside[rec.op][p] ELSE here[p]
        /\ \A q \in Path : q # p => here'[q] = here[q]
    BY <1>p, <2>1, <2>2 DEF PlainFiles
  <2>5. /\ aside' \in [Op -> [Path -> Nat]] /\ aside'[rec.op][p] = 0
        /\ \A o1 \in Op, q \in Path : o1 # rec.op \/ q # p => aside'[o1][q] = aside[o1][q]
    BY <1>p, <2>1, <2>2, SetAside DEF PlainFiles, Away
  <2>6. /\ RecoveryForm' /\ rec'.at = "deletes" /\ rec'.op = rec.op
        /\ rec'.todo = rec.todo \ {p} /\ rec'.before = rec.before
    BY <2>1 DEF FilesInv, RecoveryForm, IsRecovery
  <2>7. maintenance = "recovery" /\ exp.at \notin Leased /\ del.at = "idle"
    BY <2>1 DEF FilesInv, Leases
  <2>8. QED BY <2>1, <2>2, <2>3, <2>4, <2>5, <2>6, <2>7
<1>h. FreshHidden' /\ Unused'
  <2>1. \A q \in Path : \/ here'[q] \in {0, here[q]}
                         \/ \E o1 \in Op : here'[q] = aside[o1][q]
    BY <1>1, <1>e
  <2>2. \A o1 \in Op, q \in Path : aside'[o1][q] \in {0, aside[o1][q], here[q]}
    BY <1>1, <1>e
  <2>3. QED BY <1>1, <2>1, <2>2, ShiftsKeep
<1>3. TypeOK'
  BY <1>1, <1>e DEF FilesInv, TypeOK
<1>4. RecoveryForm'
  BY <1>e
<1>5. Leases'
  BY <1>1, <1>e, <1>p, Operations, Kinds DEF FilesInv, Leases, PlainOps,
     PlainFiles, PlainExport, PlainManifests
<1>6. FreshFiles'
  <2>1. Limit \in Nat /\ Limit' = Limit
    BY <1>1, LimitNat DEF Limit
  <2>2. QED BY <1>1, <1>e, <2>1, Sorts DEF FilesInv, FreshFiles
<1>7. FreshHidden'
  BY <1>h
<1>8. Unused'
  BY <1>h
<1>9. Named'
  BY <1>1, <1>e DEF FilesInv, Named
<1>10. NamedOutside'
  BY <1>1, <1>e, InsideKeepsOutside DEF FilesInv
<1>11. FilesAtWork'
  BY <1>1, <1>e, NoBackup, NotLeased
<1>12. RawFiles'
  BY <1>1, <1>e, Sorts DEF FilesInv, RawFiles
<1>13. Unshown'
  BY <1>1, <1>e, Sorts DEF FilesInv, Unshown
<1>14. GoneRows'
  <2>1. ASSUME NEW o \in Op, manifest[o].kind = "delete",
               NEW q \in DOMAIN manifest[o].files, manifest[o].files[q].registered,
               rows[q] = NoRow
        PROVE  owed[q] = 0 \/ aside'[o][q] # owed[q]
    <3>1. q \in Path /\ (owed[q] = 0 \/ aside[o][q] # owed[q])
      BY <2>1, ManifestKinds, Sorts DEF FilesInv, GoneRows, IsSnapshot
    <3>2. QED BY <1>e, <3>1
  <2>2. QED BY <1>1, <2>1 DEF GoneRows
<1>15. Deleting'
  BY <1>1, <1>e DEF Deleting
<1>16. Purging'
  BY <1>1, <1>e DEF Purging
<1>17. Recovering'
  BY <1>1, <1>e DEF FilesInv, Recovering
<1>18. NothingLost'
  <2>1. ASSUME NEW c \in {here[p], aside[rec.op][p]}, Needed(p, c)
        PROVE  c \in {here'[p], aside'[rec.op][p]}
    <3>1. CASE here[p] = 0 /\ ShouldRestore(rec.op, p)
      BY <1>e, <2>1, <3>1 DEF Needed
    <3>2. CASE here[p] # 0
      BY <1>e, <2>1, <3>2 DEF Needed, Unreconcilable
    <3>3. CASE ~ ShouldRestore(rec.op, p)
      <4>1. p \in File /\ manifest[rec.op].files[p].registered /\ rows[p] = NoRow
        BY <1>e, <3>3, ManifestKinds DEF ShouldRestore, FilesInv, IsSnapshot
      <4>2. owed[p] = 0 \/ aside[rec.op][p] # owed[p]
        BY <1>e, <4>1 DEF FilesInv, GoneRows
      <4>3. \A o \in Op : manifest[o].kind \in Kind => p # Backup(manifest[o].kind, o)
        BY <4>1, HiddenApart
      <4>4. c # aside[rec.op][p]
        BY <2>1, <4>1, <4>2, <4>3 DEF Needed
      <4>5. QED BY <1>e, <2>1, <3>2, <4>4 DEF Needed
    <3>4. QED BY <3>1, <3>2, <3>3
  <2>2. p \in Path
    OBVIOUS
  <2>3. QED BY <1>1, <1>e, <1>p, <2>1, Shifted DEF FilesInv
<1>19. QED BY <1>2, <1>3, <1>4, <1>5, <1>6, <1>7, <1>8, <1>9, <1>10, <1>11,
        <1>12, <1>13, <1>14, <1>15, <1>16, <1>17, <1>18 DEF FilesInv

(* The start is done with a deletion.                                      *)
LEMMA ReconciledKeeps ==
    ASSUME FilesInv, Reconciled, UNCHANGED exp
    PROVE  FilesInv'
<1>1. UNCHANGED <<runs, born, running, rows, receipts, here, aside, owners,
                 maintenance, up, waiting, ops, faults, crashes, detached,
                 attached, owed, doubted, overtaken, pending, del, exp>>
  BY DEF Reconciled, db, disk, start, counts, wish, files
<1>p. PlainOps /\ PlainFiles /\ PlainExport /\ PlainManifests
  BY Plain
<1>2. Limit' = Limit
  BY <1>1 DEF Limit
<1>3. TypeOK' /\ Numbers' /\ Flags' /\ ExportForm' /\ DeleteForm' /\
        PendingForm' /\ FreshFiles' /\ Unused' /\ FilesAtWork' /\ RowAtWork'
        /\ RowsOwed' /\ RawFiles' /\ Unshown'
  BY <1>1, <1>2, Frames DEF db, counts
<1>e. /\ rec.op \in Op /\ manifest[rec.op].kind = "delete"
      /\ \A p \in Path : aside[rec.op][p] = 0
      /\ manifest'[rec.op] = NoManifest /\ Manifests'
      /\ \A o \in Op : o # rec.op => manifest'[o] = manifest[o]
      /\ RecoveryForm' /\ rec'.at = "deletes" /\ rec'.op = 0 /\ rec'.todo = {}
      /\ maintenance = "recovery" /\ exp.at \notin Leased /\ del.at = "idle"
      /\ exp.at # "idle" => exp.op # rec.op
  <2>1. /\ rec.at = "deletes" /\ rec.op # 0 /\ rec.todo = {} /\ Written(rec.op, NoManifest)
        /\ rec' = [rec EXCEPT !.op = 0]
    BY DEF Reconciled
  <2>2. /\ rec.op \in Op /\ manifest[rec.op].kind = "delete"
        /\ \A p \in Path : aside[rec.op][p] = 0
    BY <1>p, <2>1 DEF FilesInv, Recovering, PlainOps
  <2>3. /\ manifest'[rec.op] = NoManifest /\ Manifests'
        /\ \A o \in Op : o # rec.op => manifest'[o] = manifest[o]
    BY <2>1, <2>2, WrittenManifest, NoManifestForm DEF FilesInv
  <2>4. RecoveryForm' /\ rec'.at = "deletes" /\ rec'.op = 0 /\ rec'.todo = {}
    <3>1. rec' = [at |-> "deletes", op |-> 0, todo |-> {}, before |-> rec.before]
          /\ rec.before \in SUBSET Op
      BY <2>1 DEF FilesInv, RecoveryForm, IsRecovery
    <3>2. QED BY <3>1, Operations, RecoveryShape
  <2>5. maintenance = "recovery" /\ exp.at \notin Leased /\ del.at = "idle"
    BY <2>1 DEF FilesInv, Leases
  <2>6. exp.at # "idle" => exp.op # rec.op
    BY <1>p, <2>2, Kinds DEF FilesInv, ManifestAtWork, PlainExport
  <2>7. QED BY <2>1, <2>2, <2>3, <2>4, <2>5, <2>6
<1>4. Manifests'
  BY <1>e
<1>5. RecoveryForm'
  BY <1>e
<1>6. Leases'
  BY <1>1, <1>e, <1>p, Operations, Kinds DEF FilesInv, Leases, PlainOps,
     PlainFiles, PlainExport, PlainManifests
<1>7. FreshOps'
  BY <1>1, <1>e, <1>p, Operations, Kinds DEF FilesInv, FreshOps, PlainOps,
     PlainFiles, PlainExport, PlainManifests
<1>8. FreshHidden'
  BY <1>1, <1>e, <1>p, Operations, Kinds DEF FilesInv, FreshHidden, PlainOps,
     PlainFiles, PlainExport, PlainManifests
<1>9. Named'
  BY <1>1, <1>e, <1>p, Operations, Kinds DEF FilesInv, Named, PlainOps,
     PlainFiles, PlainExport, PlainManifests
<1>10. NamedOutside'
  BY <1>1, <1>e, <1>p, Operations, Kinds DEF FilesInv, NamedOutside, PlainOps,
     PlainFiles, PlainExport, PlainManifests
<1>11. ManifestAtWork'
  BY <1>1, <1>e, <1>p, Operations, Kinds DEF FilesInv, ManifestAtWork,
     PlainOps, PlainFiles, PlainExport, PlainManifests
<1>12. Receipts'
  BY <1>1, <1>e, <1>p, Operations, Kinds DEF FilesInv, Receipts, PlainOps,
     PlainFiles, PlainExport, PlainManifests
<1>13. RunOfRow'
  BY <1>1, <1>e, <1>p, Operations, Kinds DEF FilesInv, RunOfRow, PlainOps,
     PlainFiles, PlainExport, PlainManifests
<1>14. OldRows'
  BY <1>1, <1>e, <1>p, Operations, Kinds DEF FilesInv, OldRows, PlainOps,
     PlainFiles, PlainExport, PlainManifests
<1>15. GoneRows'
  BY <1>1, <1>e, Kinds DEF FilesInv, GoneRows
<1>16. Deleting'
  BY <1>1, <1>e DEF Deleting
<1>17. Purging'
  BY <1>1, <1>e DEF Purging
<1>18. Recovering'
  BY <1>e DEF Recovering
<1>19. NothingLost'
  BY <1>1, <1>e, Kinds, ManifestGoes DEF FilesInv
<1>20. QED BY <1>2, <1>3, <1>4, <1>5, <1>6, <1>7, <1>8, <1>9, <1>10, <1>11,
        <1>12, <1>13, <1>14, <1>15, <1>16, <1>17, <1>18, <1>19 DEF FilesInv

(* The start takes up a deletion.                                          *)
LEMMA NextDeleteKeeps ==
    ASSUME FilesInv, NEW o \in Op, NextDelete(o)
    PROVE  FilesInv'
<1>1. UNCHANGED <<runs, born, running, rows, receipts, here, aside, manifest,
                 owners, maintenance, up, waiting, ops, faults, crashes,
                 detached, attached, owed, doubted, overtaken, pending, del,
                 exp>>
  BY DEF NextDelete, db, disk, start, counts, wish, files
<1>p. PlainOps /\ PlainFiles /\ PlainExport /\ PlainManifests
  BY Plain
<1>2. Limit' = Limit
  BY <1>1 DEF Limit
<1>3. TypeOK' /\ Numbers' /\ Flags' /\ Manifests' /\ ExportForm' /\
        DeleteForm' /\ PendingForm' /\ FreshOps' /\ FreshFiles' /\
        FreshHidden' /\ Unused' /\ Named' /\ NamedOutside' /\ ManifestAtWork'
        /\ FilesAtWork' /\ RowAtWork' /\ Receipts' /\ RowsOwed' /\ RawFiles'
        /\ RunOfRow' /\ Unshown' /\ OldRows' /\ GoneRows' /\ Deleting' /\
        Purging' /\ NothingLost'
  BY <1>1, <1>2, Frames DEF db, counts
<1>e. /\ rec.at = "deletes" /\ manifest[o].kind = "delete"
      /\ RecoveryForm' /\ rec'.at = "deletes" /\ rec'.op = o
      /\ rec'.todo = DOMAIN manifest[o].files
  <2>1. /\ rec.at = "deletes" /\ manifest[o].kind = "delete"
        /\ rec' = [rec EXCEPT !.op = o, !.todo = DOMAIN manifest[o].files]
    BY DEF NextDelete, Left
  <2>2. /\ rec' = [at |-> "deletes", op |-> o, todo |-> DOMAIN manifest[o].files,
                   before |-> rec.before]
        /\ rec.before \in SUBSET Op
    BY <2>1 DEF FilesInv, RecoveryForm, IsRecovery
  <2>3. o \in 0..MaxOps
    BY Operations
  <2>4. QED BY <2>1, <2>2, <2>3, RecoveryShape
<1>4. RecoveryForm'
  BY <1>e
<1>5. Leases'
  BY <1>1, <1>e, <1>p, Operations, Kinds DEF FilesInv, Leases, PlainOps,
     PlainFiles, PlainExport, PlainManifests
<1>6. Recovering'
  BY <1>1, <1>e, Operations DEF FilesInv, Recovering, Named
<1>7. QED BY <1>2, <1>3, <1>4, <1>5, <1>6 DEF FilesInv

(* No deletion is left.                                                    *)
LEMMA DeletesDoneKeeps ==
    ASSUME FilesInv, DeletesDone
    PROVE  FilesInv'
<1>1. UNCHANGED <<runs, born, running, rows, receipts, here, aside, manifest,
                 owners, maintenance, up, waiting, ops, faults, crashes,
                 detached, attached, owed, doubted, overtaken, pending, del,
                 exp>>
  BY DEF DeletesDone, db, disk, start, counts, wish, files
<1>p. PlainOps /\ PlainFiles /\ PlainExport /\ PlainManifests
  BY Plain
<1>2. Limit' = Limit
  BY <1>1 DEF Limit
<1>3. TypeOK' /\ Numbers' /\ Flags' /\ Manifests' /\ ExportForm' /\
        DeleteForm' /\ PendingForm' /\ FreshOps' /\ FreshFiles' /\
        FreshHidden' /\ Unused' /\ Named' /\ NamedOutside' /\ ManifestAtWork'
        /\ FilesAtWork' /\ RowAtWork' /\ Receipts' /\ RowsOwed' /\ RawFiles'
        /\ RunOfRow' /\ Unshown' /\ OldRows' /\ GoneRows' /\ Deleting' /\
        Purging' /\ NothingLost'
  BY <1>1, <1>2, Frames DEF db, counts
<1>e. /\ rec.at = "deletes" /\ rec.op = 0 /\ Left({"delete"}) = {} /\ del.op = 0
      /\ RecoveryForm' /\ rec'.at = "exports" /\ rec'.op = 0 /\ rec'.todo = rec.todo
  <2>1. rec.at = "deletes" /\ rec.op = 0 /\ Left({"delete"}) = {}
        /\ rec' = [rec EXCEPT !.at = "exports"]
    BY DEF DeletesDone
  <2>2. del.op = 0
    BY <2>1 DEF FilesInv, Leases, DeleteForm, IsDelete
  <2>3. QED BY <2>1, <2>2 DEF FilesInv, RecoveryForm, IsRecovery
<1>x. \A o \in Op : manifest[o].kind # "delete"
  <2>1. ASSUME NEW o \in Op, manifest[o].kind = "delete"
        PROVE  FALSE
    <3>1. o = exp.op
      BY <1>e, <2>1, Operations DEF Left
    <3>2. exp.at # "idle"
      BY <3>1, Operations DEF FilesInv, ExportForm, IsExport
    <3>3. QED BY <1>p, <2>1, <3>1, <3>2, Kinds DEF FilesInv, ManifestAtWork, PlainExport
  <2>2. QED BY <2>1
<1>4. RecoveryForm'
  BY <1>e
<1>5. Leases'
  BY <1>1, <1>e, <1>p, Operations, Kinds DEF FilesInv, Leases, PlainOps,
     PlainFiles, PlainExport, PlainManifests
<1>6. Recovering'
  BY <1>1, <1>e, <1>x DEF FilesInv, Recovering
<1>7. QED BY <1>2, <1>3, <1>4, <1>5, <1>6 DEF FilesInv

(* A start, or a retry, begins.                                            *)
LEMMA RecoveryBeginsKeeps ==
    ASSUME FilesInv, RecoveryBegins
    PROVE  FilesInv'
<1>1. UNCHANGED <<runs, born, running, rows, receipts, here, aside, manifest,
                 owners, up, ops, faults, crashes, detached, attached, owed,
                 doubted, overtaken, pending, del, exp>>
  BY DEF RecoveryBegins, db, disk, start, counts, wish, files
<1>p. PlainOps /\ PlainFiles /\ PlainExport /\ PlainManifests
  BY Plain
<1>2. Limit' = Limit
  BY <1>1 DEF Limit
<1>3. Numbers' /\ Flags' /\ Manifests' /\ ExportForm' /\ DeleteForm' /\
        PendingForm' /\ FreshOps' /\ FreshFiles' /\ FreshHidden' /\ Unused' /\
        Named' /\ NamedOutside' /\ ManifestAtWork' /\ FilesAtWork' /\
        RowAtWork' /\ Receipts' /\ RowsOwed' /\ RawFiles' /\ RunOfRow' /\
        Unshown' /\ OldRows' /\ GoneRows' /\ Deleting' /\ Purging' /\
        NothingLost'
  BY <1>1, <1>2, Frames DEF db, counts
<1>e. /\ maintenance = "free" /\ maintenance' = "recovery" /\ waiting' = {}
      /\ RecoveryForm' /\ rec'.at = "deletes" /\ rec'.op = 0 /\ rec'.todo = {}
  <2>1. /\ maintenance = "free" /\ maintenance' = "recovery" /\ waiting' = {}
        /\ rec' = [NoRecovery EXCEPT !.at = "deletes", !.before = waiting]
    BY DEF RecoveryBegins
  <2>2. waiting \subseteq Op
    BY DEF FilesInv, TypeOK
  <2>3. rec' = [at |-> "deletes", op |-> 0, todo |-> {}, before |-> waiting]
    BY <2>1 DEF NoRecovery
  <2>4. /\ "deletes" \in {"none", "deletes", "exports"} /\ 0 \in 0..MaxOps
        /\ waiting \in SUBSET Op
    BY <2>2, Operations
  <2>5. RecoveryForm' /\ rec'.at = "deletes" /\ rec'.op = 0 /\ rec'.todo = {}
    BY <2>3, <2>4 DEF RecoveryForm, IsRecovery
  <2>6. QED BY <2>1, <2>5
<1>4. TypeOK'
  BY <1>1, <1>e, <1>p, Operations, Kinds DEF FilesInv, TypeOK, PlainOps,
     PlainFiles, PlainExport, PlainManifests
<1>5. RecoveryForm'
  BY <1>e
<1>6. Leases'
  BY <1>1, <1>e, <1>p, Operations, Kinds DEF FilesInv, Leases, PlainOps,
     PlainFiles, PlainExport, PlainManifests
<1>7. Recovering'
  BY <1>e DEF Recovering
<1>8. QED BY <1>2, <1>3, <1>4, <1>5, <1>6, <1>7 DEF FilesInv

(* A start is over: what no manifest speaks of goes.                       *)
LEMMA OrphansKeep ==
    ASSUME FilesInv, Orphans
    PROVE  FilesInv'
<1>1. UNCHANGED <<runs, born, rows, here, aside, manifest, waiting, ops,
                 faults, crashes, detached, attached, owed, doubted,
                 overtaken, pending, del, exp>>
  BY DEF Orphans, db, disk, start, counts, wish, files
<1>p. PlainOps /\ PlainFiles /\ PlainExport /\ PlainManifests
  BY Plain
<1>2. Limit' = Limit
  BY <1>1 DEF Limit
<1>3. Numbers' /\ Flags' /\ Manifests' /\ ExportForm' /\ DeleteForm' /\
        PendingForm' /\ FreshFiles' /\ FreshHidden' /\ Unused' /\ Named' /\
        NamedOutside' /\ FilesAtWork' /\ RowAtWork' /\ RowsOwed' /\ RawFiles'
        /\ RunOfRow' /\ Unshown' /\ OldRows' /\ GoneRows' /\ Deleting' /\
        Purging' /\ NothingLost'
  BY <1>1, <1>2, Frames DEF db, counts
<1>e. /\ maintenance = "recovery" /\ maintenance' = "free" /\ up' = "up"
      /\ exp.at \notin Leased /\ del.at = "idle"
      /\ receipts' = {o \in receipts : manifest[o] # NoManifest \/ o = exp.op}
      /\ owners' \subseteq owners /\ running' \subseteq running
      /\ RecoveryForm' /\ rec'.at = "none" /\ rec'.op = 0 /\ rec'.todo = {}
  <2>1. rec.at = "exports" /\ rec' = NoRecovery
    BY DEF Orphans
  <2>2. RecoveryForm' /\ rec'.at = "none" /\ rec'.op = 0 /\ rec'.todo = {}
    BY <2>1, Operations DEF RecoveryForm, IsRecovery, NoRecovery
  <2>3. exp.at \notin Leased /\ del.at = "idle" /\ maintenance = "recovery"
    BY <2>1 DEF FilesInv, Leases
  <2>4. QED BY <2>2, <2>3 DEF Orphans
<1>4. TypeOK'
  BY <1>1, <1>e DEF FilesInv, TypeOK
<1>5. RecoveryForm'
  BY <1>e
<1>6. Leases'
  BY <1>1, <1>e, <1>p, Operations, Kinds DEF FilesInv, Leases, PlainOps,
     PlainFiles, PlainExport, PlainManifests
<1>7. FreshOps'
  BY <1>1, <1>e, <1>p, Operations, Kinds DEF FilesInv, FreshOps, PlainOps,
     PlainFiles, PlainExport, PlainManifests
<1>8. ManifestAtWork'
  BY <1>1, <1>e, <1>p, Operations, Kinds DEF FilesInv, ManifestAtWork,
     PlainOps, PlainFiles, PlainExport, PlainManifests
<1>9. Receipts'
  BY <1>1, <1>e, <1>p, Operations, Kinds DEF FilesInv, Receipts, PlainOps,
     PlainFiles, PlainExport, PlainManifests
<1>10. Recovering'
  BY <1>e DEF Recovering
<1>11. QED BY <1>2, <1>3, <1>4, <1>5, <1>6, <1>7, <1>8, <1>9, <1>10 DEF
        FilesInv

(* A start fails.                                                          *)
LEMMA StuckKeeps ==
    ASSUME FilesInv, Stuck
    PROVE  FilesInv'
<1>1. UNCHANGED <<runs, born, running, rows, receipts, here, aside, manifest,
                 owners, ops, faults, crashes, detached, attached, owed,
                 doubted, overtaken, pending, del, exp>>
  BY DEF Stuck, db, disk, start, counts, wish, files
<1>p. PlainOps /\ PlainFiles /\ PlainExport /\ PlainManifests
  BY Plain
<1>2. Limit' = Limit
  BY <1>1 DEF Limit
<1>3. Numbers' /\ Flags' /\ Manifests' /\ ExportForm' /\ DeleteForm' /\
        PendingForm' /\ FreshOps' /\ FreshFiles' /\ FreshHidden' /\ Unused' /\
        Named' /\ NamedOutside' /\ ManifestAtWork' /\ FilesAtWork' /\
        RowAtWork' /\ Receipts' /\ RowsOwed' /\ RawFiles' /\ RunOfRow' /\
        Unshown' /\ OldRows' /\ GoneRows' /\ Deleting' /\ Purging' /\
        NothingLost'
  BY <1>1, <1>2, Frames DEF db, counts
<1>e. /\ maintenance = "recovery" /\ maintenance' = "free"
      /\ exp.at \notin Leased /\ del.at = "idle"
      /\ up' = IF up = "down" THEN "stuck" ELSE up
      /\ waiting' \subseteq waiting \cup rec.before /\ rec.before \subseteq Op
      /\ RecoveryForm' /\ rec'.at = "none" /\ rec'.op = 0 /\ rec'.todo = {}
  <2>1. rec.at # "none" /\ rec' = NoRecovery
    BY DEF Stuck, Blocked
  <2>2. RecoveryForm' /\ rec'.at = "none" /\ rec'.op = 0 /\ rec'.todo = {}
    BY <2>1, Operations DEF RecoveryForm, IsRecovery, NoRecovery
  <2>3. exp.at \notin Leased /\ del.at = "idle" /\ maintenance = "recovery"
    BY <2>1 DEF FilesInv, Leases
  <2>4. rec.before \subseteq Op
    BY DEF FilesInv, RecoveryForm, IsRecovery
  <2>5. QED BY <2>2, <2>3, <2>4 DEF Stuck, StillWaiting
<1>4. TypeOK'
  BY <1>1, <1>e DEF FilesInv, TypeOK
<1>5. RecoveryForm'
  BY <1>e
<1>6. Leases'
  BY <1>1, <1>e, <1>p, Operations, Kinds DEF FilesInv, Leases, PlainOps,
     PlainFiles, PlainExport, PlainManifests
<1>7. Recovering'
  BY <1>e DEF Recovering
<1>8. QED BY <1>2, <1>3, <1>4, <1>5, <1>6, <1>7 DEF FilesInv

(* The drive is not there: later.                                          *)
LEMMA PostponeKeeps ==
    ASSUME FilesInv, NEW o \in Op, Postpone(o), UNCHANGED <<pending, del>>
    PROVE  FilesInv'
<1>1. UNCHANGED <<runs, born, running, rows, receipts, here, aside, manifest,
                 owners, maintenance, up, rec, ops, faults, crashes, detached,
                 attached, owed, doubted, overtaken, pending, del, exp>>
  BY DEF Postpone, db, disk, start, counts, wish, files
<1>p. PlainOps /\ PlainFiles /\ PlainExport /\ PlainManifests
  BY Plain
<1>2. Limit' = Limit
  BY <1>1 DEF Limit
<1>3. Numbers' /\ Flags' /\ Manifests' /\ ExportForm' /\ DeleteForm' /\
        RecoveryForm' /\ PendingForm' /\ Leases' /\ FreshOps' /\ FreshFiles'
        /\ FreshHidden' /\ Unused' /\ Named' /\ NamedOutside' /\
        ManifestAtWork' /\ FilesAtWork' /\ RowAtWork' /\ Receipts' /\
        RowsOwed' /\ RawFiles' /\ RunOfRow' /\ Unshown' /\ OldRows' /\
        GoneRows' /\ Deleting' /\ Purging' /\ Recovering' /\ NothingLost'
  BY <1>1, <1>2, Frames DEF db, counts
<1>4. TypeOK'
  BY <1>1 DEF FilesInv, TypeOK, Postpone
<1>5. QED BY <1>2, <1>3, <1>4 DEF FilesInv

(* Whatever was at work is at work no longer; the files are where they are.*)
LEMMA CrashKeeps ==
    ASSUME FilesInv, Crash
    PROVE  FilesInv'
<1>1. UNCHANGED <<runs, born, running, rows, receipts, here, aside, manifest,
                 owners, ops, faults, detached, attached, owed, doubted,
                 overtaken>>
  BY DEF Crash, db, disk, start, counts, wish, files
<1>p. PlainOps /\ PlainFiles /\ PlainExport /\ PlainManifests
  BY Plain
<1>2. Flags' /\ Manifests' /\ Unused' /\ Named' /\ NamedOutside' /\ Receipts'
        /\ RowsOwed' /\ RawFiles' /\ RunOfRow' /\ Unshown' /\ OldRows' /\
        GoneRows' /\ NothingLost'
  BY <1>1, Frames DEF db, counts
<1>e. /\ crashes' = crashes + 1 /\ up' = "down" /\ waiting' = {} /\ maintenance' = "free"
      /\ pending' = {} /\ DeleteForm' /\ del'.at = "idle" /\ del'.op = 0
      /\ ExportForm' /\ exp'.at = "idle" /\ exp'.op = 0
      /\ RecoveryForm' /\ rec'.at = "none" /\ rec'.op = 0 /\ rec'.todo = {}
  <2>1. RecoveryForm' /\ rec'.at = "none" /\ rec'.op = 0 /\ rec'.todo = {}
    BY Operations DEF Crash, RecoveryForm, IsRecovery, NoRecovery
  <2>2. QED BY <2>1, DeleteEnds, ExportEnds DEF Crash, Ends
<1>3. TypeOK'
  BY <1>1, <1>e DEF FilesInv, TypeOK
<1>4. Numbers'
  BY <1>1, <1>e, <1>p, Operations, Kinds DEF FilesInv, Numbers, PlainOps,
     PlainFiles, PlainExport, PlainManifests
<1>5. ExportForm'
  BY <1>e
<1>6. DeleteForm'
  BY <1>e
<1>7. RecoveryForm'
  BY <1>e
<1>8. PendingForm'
  BY <1>1, <1>e, <1>p, Operations, Kinds DEF FilesInv, PendingForm, PlainOps,
     PlainFiles, PlainExport, PlainManifests
<1>9. Leases'
  BY <1>1, <1>e DEF Leases, Leased
<1>10. FreshOps'
  BY <1>1, <1>e, <1>p, Operations, Kinds DEF FilesInv, FreshOps, PlainOps,
     PlainFiles, PlainExport, PlainManifests
<1>11. FreshFiles'
  <2>1. Limit \in Nat /\ Limit' \in Nat /\ Limit' >= Limit
    BY <1>1, <1>e, <1>p, LimitNat DEF Limit, NewContent, PlainOps, FilesInv, FreshOps
  <2>2. QED BY <1>1, <1>p, <2>1, LimitGrows DEF FilesInv
<1>12. FreshHidden'
  BY <1>1, <1>e, <1>p, Operations, Kinds DEF FilesInv, FreshHidden, PlainOps,
     PlainFiles, PlainExport, PlainManifests
<1>13. ManifestAtWork'
  BY <1>1, <1>e, <1>p, Operations, Kinds DEF FilesInv, ManifestAtWork,
     PlainOps, PlainFiles, PlainExport, PlainManifests
<1>14. FilesAtWork'
  BY <1>1, <1>e, <1>p, Operations, Kinds DEF FilesInv, FilesAtWork, PlainOps,
     PlainFiles, PlainExport, PlainManifests
<1>15. RowAtWork'
  BY <1>e DEF RowAtWork, Leased
<1>16. Deleting'
  BY <1>1, <1>e DEF Deleting
<1>17. Purging'
  BY <1>1, <1>e DEF Purging
<1>18. Recovering'
  BY <1>e DEF Recovering
<1>19. QED BY <1>2, <1>3, <1>4, <1>5, <1>6, <1>7, <1>8, <1>9, <1>10, <1>11,
        <1>12, <1>13, <1>14, <1>15, <1>16, <1>17, <1>18 DEF FilesInv

(* The manifest of a batch that was stored goes, and with it the file if   *)
(* its run was deleted.                                                    *)
LEMMA RecoverRawKeeps ==
    ASSUME FilesInv, NEW o \in Op, RecoverRaw(o)
    PROVE  FilesInv'
<1>1. UNCHANGED <<runs, born, running, rows, receipts, aside, owners,
                 maintenance, up, rec, waiting, ops, faults, crashes,
                 detached, attached, owed, doubted, overtaken, pending, del,
                 exp>>
  BY DEF RecoverRaw, db, disk, start, counts, wish, files
<1>p. PlainOps /\ PlainFiles /\ PlainExport /\ PlainManifests
  BY Plain
<1>2. Numbers' /\ Flags' /\ ExportForm' /\ DeleteForm' /\ RecoveryForm' /\
        PendingForm' /\ Leases' /\ RowAtWork' /\ RowsOwed'
  BY <1>1, Frames DEF db, counts
<1>e. /\ rec.at = "exports" /\ manifest[o].kind = "raw_batch" /\ manifest[o].file \in Raw
      /\ exp.at # "idle" => exp.op # o
      /\ manifest'[o] = NoManifest /\ Manifests'
      /\ \A o1 \in Op : o1 # o => manifest'[o1] = manifest[o1]
      /\ here' \in [Path -> Nat]
      /\ here'[manifest[o].file] \in {0, here[manifest[o].file]}
      /\ here'[manifest[o].file] # here[manifest[o].file] => rows[manifest[o].file] = NoRow
      /\ \A q \in Path : q # manifest[o].file => here'[q] = here[q]
      /\ exp.at \notin Leased /\ del.at = "idle"
      /\ \A p \in Path : aside[o][p] = 0
  <2>1. /\ rec.at = "exports" /\ manifest[o].kind = "raw_batch" /\ Written(o, NoManifest)
        /\ IF rows[manifest[o].file] = NoRow THEN Unlinked(manifest[o].file) ELSE UNCHANGED here
    BY DEF RecoverRaw, Left
  <2>2. manifest[o].file \in Raw /\ manifest[o].file \in Path
    BY <2>1, ManifestKinds, Sorts DEF FilesInv
  <2>3. exp.at # "idle" => exp.op # o
    BY <1>p, <2>1, Kinds DEF FilesInv, ManifestAtWork, PlainExport
  <2>4. /\ manifest'[o] = NoManifest /\ Manifests'
        /\ \A o1 \in Op : o1 # o => manifest'[o1] = manifest[o1]
    BY <2>1, WrittenManifest, NoManifestForm DEF FilesInv
  <2>7. exp.at \notin Leased /\ del.at = "idle"
    BY <2>1 DEF FilesInv, Leases
  <2>8. \A p \in Path : aside[o][p] = 0
    BY <2>1 DEF FilesInv, Named
  <2>9. /\ here' \in [Path -> Nat]
        /\ here'[manifest[o].file] \in {0, here[manifest[o].file]}
        /\ here'[manifest[o].file] # here[manifest[o].file] => rows[manifest[o].file] = NoRow
        /\ \A q \in Path : q # manifest[o].file => here'[q] = here[q]
    <3>1. CASE rows[manifest[o].file] = NoRow
      BY <3>1, <2>1, <2>2, <1>p, UnlinkedFile DEF PlainFiles
    <3>2. CASE rows[manifest[o].file] # NoRow
      BY <1>p, <2>1, <3>2 DEF PlainFiles
    <3>3. QED BY <3>1, <3>2
  <2>10. QED BY <2>1, <2>2, <2>3, <2>4, <2>7, <2>8, <2>9
<1>3. TypeOK'
  BY <1>1, <1>e DEF FilesInv, TypeOK
<1>4. Manifests'
  BY <1>e
<1>5. FreshOps'
  BY <1>1, <1>e, <1>p, Operations, Kinds DEF FilesInv, FreshOps, PlainOps,
     PlainFiles, PlainExport, PlainManifests
<1>6. FreshFiles'
  <2>1. Limit \in Nat /\ Limit' = Limit
    BY <1>1, LimitNat DEF Limit
  <2>2. QED BY <1>1, <1>e, <2>1, Sorts DEF FilesInv, FreshFiles
<1>7. FreshHidden'
  <2>1. \A q \in Path : here'[q] \in {0, here[q]}
    BY <1>e
  <2>2. \A o1 \in Op : manifest'[o1].kind \in Kind => manifest'[o1] = manifest[o1]
    BY <1>e, Kinds
  <2>3. QED BY <1>1, <1>p, <2>1, <2>2, Operations, HiddenApart DEF FilesInv, FreshHidden, PlainFiles
<1>8. Unused'
  BY <1>1, <1>e, <1>p, Operations, Kinds, HiddenApart DEF FilesInv, Unused,
     PlainOps, PlainFiles, PlainExport, PlainManifests
<1>9. Named'
  BY <1>1, <1>e, <1>p, Operations, Kinds DEF FilesInv, Named, PlainOps,
     PlainFiles, PlainExport, PlainManifests
<1>10. NamedOutside'
  BY <1>1, <1>e, HiddenApart, Sorts, Kinds DEF FilesInv, NamedOutside
<1>11. ManifestAtWork'
  BY <1>1, <1>e, <1>p, Operations, Kinds DEF FilesInv, ManifestAtWork,
     PlainOps, PlainFiles, PlainExport, PlainManifests
<1>12. FilesAtWork'
  <2>1. exp.at # "idle" => B \in Path \ File /\ here[B] = 0 /\ \A o1 \in Op : aside[o1][B] = 0
    BY <1>e, NoBackup
  <2>2. QED BY <1>1, <1>e, <2>1, Sorts, NotLeased
<1>13. Receipts'
  BY <1>1, <1>e, <1>p, Operations, Kinds DEF FilesInv, Receipts, PlainOps,
     PlainFiles, PlainExport, PlainManifests
<1>14. RawFiles'
  BY <1>1, <1>e, Sorts DEF FilesInv, RawFiles
<1>15. RunOfRow'
  BY <1>1, <1>e, <1>p, Operations, Kinds DEF FilesInv, RunOfRow, PlainOps,
     PlainFiles, PlainExport, PlainManifests
<1>16. Unshown'
  BY <1>1, <1>e, Sorts DEF FilesInv, Unshown
<1>17. OldRows'
  BY <1>1, <1>e, <1>p, Operations, Kinds DEF FilesInv, OldRows, PlainOps,
     PlainFiles, PlainExport, PlainManifests
<1>18. GoneRows'
  BY <1>1, <1>e, Kinds DEF FilesInv, GoneRows
<1>19. Deleting'
  BY <1>1, <1>e DEF Deleting
<1>20. Purging'
  BY <1>1, <1>e DEF Purging
<1>21. Recovering'
  BY <1>1, <1>e, Kinds DEF FilesInv, Recovering
<1>22. NothingLost'
  <2>0. owed[manifest[o].file] # 0 => here'[manifest[o].file] = here[manifest[o].file]
    BY <1>e DEF FilesInv, RawFiles
  <2>1. ASSUME NEW q \in Path, NEW c, c # 0, Found(q, c), q = manifest[o].file => c = owed[q]
        PROVE  \/ here'[q] = c
               \/ \E o1 \in Op : /\ manifest'[o1].kind = "delete" /\ q \in DOMAIN manifest'[o1].files
                                 /\ aside[o1][q] = c
    BY <1>e, <2>0, <2>1 DEF Found
  <2>2. \A o1 \in Op : manifest[o1].kind \in Kind =>
            /\ o1 # o /\ Backup(manifest[o1].kind, o1) \in Path
            /\ Backup(manifest[o1].kind, o1) # manifest[o].file
    BY <1>e, HiddenApart, Kinds, Sorts
  <2>3. \A f \in File : f \in Path
    BY Sorts
  <2>4. ASSUME NEW f \in File, owed[f] # 0
        PROVE  \/ Found(f, owed[f])
               \/ \E o1 \in Op : /\ manifest'[o1].kind \in Kind /\ manifest'[o1].dest = f
                                 /\ Found(Backup(manifest'[o1].kind, o1), owed[f])
                                 /\ Backup(manifest'[o1].kind, o1) \in Path
                                 /\ Backup(manifest'[o1].kind, o1) # manifest[o].file
    BY <1>e, <2>2, <2>4 DEF FilesInv, NothingLost
  <2>5. ASSUME NEW f \in File, owed[f] # 0
        PROVE  \/ here'[f] = owed[f]
               \/ \E o1 \in Op : /\ manifest'[o1].kind = "delete" /\ f \in DOMAIN manifest'[o1].files
                                 /\ aside[o1][f] = owed[f]
               \/ \E o2 \in Op :
                    /\ manifest'[o2].kind \in Kind /\ manifest'[o2].dest = f
                    /\ \/ here'[Backup(manifest'[o2].kind, o2)] = owed[f]
                       \/ \E o1 \in Op :
                            /\ manifest'[o1].kind = "delete"
                            /\ Backup(manifest'[o2].kind, o2) \in DOMAIN manifest'[o1].files
                            /\ aside[o1][Backup(manifest'[o2].kind, o2)] = owed[f]
    <3>1. CASE Found(f, owed[f])
      BY <2>1, <2>3, <2>5, <3>1
    <3>2. CASE ~ Found(f, owed[f])
      <4>1. PICK o2 \in Op : /\ manifest'[o2].kind \in Kind /\ manifest'[o2].dest = f
                             /\ Found(Backup(manifest'[o2].kind, o2), owed[f])
                             /\ Backup(manifest'[o2].kind, o2) \in Path
                             /\ Backup(manifest'[o2].kind, o2) # manifest[o].file
        BY <2>4, <2>5, <3>2
      <4>2. QED BY <2>1, <2>5, <4>1
    <3>3. QED BY <3>1, <3>2
  <2>6. QED BY <1>1, <2>5 DEF NothingLost, Found
<1>23. QED BY <1>2, <1>3, <1>4, <1>5, <1>6, <1>7, <1>8, <1>9, <1>10, <1>11,
        <1>12, <1>13, <1>14, <1>15, <1>16, <1>17, <1>18, <1>19, <1>20, <1>21,
        <1>22 DEF FilesInv

-----------------------------------------------------------------------------
(* Exports, step by step                                                   *)

(* A report cannot be written.                                             *)
LEMMA NotRenderedKeeps ==
    ASSUME FilesInv, NotRendered, UNCHANGED <<pending, del>>
    PROVE  FilesInv'
<1>1. UNCHANGED <<runs, born, running, rows, receipts, here, aside, manifest,
                 owners, maintenance, up, rec, waiting, ops, faults, crashes,
                 detached, attached, owed, doubted, overtaken, pending, del>>
  BY DEF NotRendered, NoOther, db, disk, start, counts, wish, files
<1>p. PlainOps /\ PlainFiles /\ PlainExport /\ PlainManifests
  BY Plain
<1>2. TypeOK' /\ Numbers' /\ Flags' /\ Manifests' /\ DeleteForm' /\
        RecoveryForm' /\ PendingForm' /\ Unused' /\ Named' /\ NamedOutside' /\
        Receipts' /\ RowsOwed' /\ RawFiles' /\ RunOfRow' /\ Unshown' /\
        OldRows' /\ GoneRows' /\ Deleting' /\ Purging' /\ Recovering' /\
        NothingLost'
  BY <1>1, Frames DEF db, counts
<1>w. Places
  BY AtWork DEF NotRendered
<1>e. /\ ExportForm' /\ exp'.at = "discard" /\ exp.at = "render" /\ SamePlaces
      /\ exp'.prev = exp.prev /\ exp'.row = exp.row
      /\ S' = S /\ B' = B /\ D' = D /\ New' = New
  <2>1. Goes("discard") /\ exp.at = "render"
    BY DEF NotRendered
  <2>2. /\ ExportForm' /\ exp'.at = "discard" /\ SamePlaces
        /\ exp'.prev = exp.prev /\ exp'.row = exp.row
    BY <2>1, ExportGoes DEF FilesInv, ExportAt, SamePlaces
  <2>3. QED BY <2>1, <2>2, SamePlace
<1>3. ExportForm'
  BY <1>e
<1>4. Leases'
  BY <1>1, <1>e DEF FilesInv, Leases, Leased
<1>5. FreshOps'
  BY <1>1, <1>e DEF FilesInv, FreshOps, SamePlaces
<1>6. FreshFiles'
  <2>1. Limit' = Limit
    BY <1>1, <1>e DEF Limit, Early, SamePlaces
  <2>2. QED BY <1>1, <2>1, Frames DEF db
<1>7. FreshHidden'
  BY <1>1, <1>e DEF FilesInv, FreshHidden, SamePlaces
<1>8. ManifestAtWork'
  BY <1>1, <1>e, <1>w DEF FilesInv, ManifestAtWork, SamePlaces, Places
<1>9. FilesAtWork'
  BY <1>1, <1>e, <1>w DEF FilesInv, FilesAtWork, SamePlaces, Places
<1>10. RowAtWork'
  BY <1>1, <1>e, <1>w DEF FilesInv, RowAtWork, SamePlaces, Places, Leased
<1>11. QED BY <1>2, <1>3, <1>4, <1>5, <1>6, <1>7, <1>8, <1>9, <1>10 DEF
        FilesInv

(* Somebody else has the lease.                                            *)
LEMMA CommitRefusedKeeps ==
    ASSUME FilesInv, CommitRefused, UNCHANGED <<pending, del>>
    PROVE  FilesInv'
<1>1. UNCHANGED <<runs, born, running, rows, receipts, here, aside, manifest,
                 owners, maintenance, up, rec, waiting, ops, faults, crashes,
                 detached, attached, owed, doubted, overtaken, pending, del>>
  BY DEF CommitRefused, NoOther, db, disk, start, counts, wish, files
<1>p. PlainOps /\ PlainFiles /\ PlainExport /\ PlainManifests
  BY Plain
<1>2. TypeOK' /\ Numbers' /\ Flags' /\ Manifests' /\ DeleteForm' /\
        RecoveryForm' /\ PendingForm' /\ Unused' /\ Named' /\ NamedOutside' /\
        Receipts' /\ RowsOwed' /\ RawFiles' /\ RunOfRow' /\ Unshown' /\
        OldRows' /\ GoneRows' /\ Deleting' /\ Purging' /\ Recovering' /\
        NothingLost'
  BY <1>1, Frames DEF db, counts
<1>w. Places
  BY AtWork DEF CommitRefused
<1>e. /\ ExportForm' /\ exp'.at = "discard" /\ exp.at = "ready" /\ SamePlaces
      /\ exp'.prev = exp.prev /\ exp'.row = exp.row
      /\ S' = S /\ B' = B /\ D' = D /\ New' = New
  <2>1. Goes("discard") /\ exp.at = "ready"
    BY DEF CommitRefused
  <2>2. /\ ExportForm' /\ exp'.at = "discard" /\ SamePlaces
        /\ exp'.prev = exp.prev /\ exp'.row = exp.row
    BY <2>1, ExportGoes DEF FilesInv, ExportAt, SamePlaces
  <2>3. QED BY <2>1, <2>2, SamePlace
<1>3. ExportForm'
  BY <1>e
<1>4. Leases'
  BY <1>1, <1>e DEF FilesInv, Leases, Leased
<1>5. FreshOps'
  BY <1>1, <1>e DEF FilesInv, FreshOps, SamePlaces
<1>6. FreshFiles'
  <2>1. Limit' = Limit
    BY <1>1, <1>e DEF Limit, Early, SamePlaces
  <2>2. QED BY <1>1, <2>1, Frames DEF db
<1>7. FreshHidden'
  BY <1>1, <1>e DEF FilesInv, FreshHidden, SamePlaces
<1>8. ManifestAtWork'
  BY <1>1, <1>e, <1>w DEF FilesInv, ManifestAtWork, SamePlaces, Places
<1>9. FilesAtWork'
  BY <1>1, <1>e, <1>w DEF FilesInv, FilesAtWork, SamePlaces, Places
<1>10. RowAtWork'
  BY <1>1, <1>e, <1>w DEF FilesInv, RowAtWork, SamePlaces, Places, Leased
<1>11. QED BY <1>2, <1>3, <1>4, <1>5, <1>6, <1>7, <1>8, <1>9, <1>10 DEF
        FilesInv

(* An export begins, with a number of its own.                             *)
LEMMA ExportBeginsKeeps ==
    ASSUME FilesInv, NEW r \in Run, NEW d \in Report \cup Outside, ExportBegins(r, d),
           UNCHANGED <<pending, del>>
    PROVE  FilesInv'
<1>1. UNCHANGED <<runs, born, running, rows, receipts, here, aside, manifest,
                 maintenance, up, rec, waiting, faults, crashes, detached,
                 attached, owed, doubted, pending, del>>
  BY DEF ExportBegins, NewOp, NoOther, db, disk, start, counts, wish, files
<1>p. PlainOps /\ PlainFiles /\ PlainExport /\ PlainManifests
  BY Plain
<1>2. Manifests' /\ DeleteForm' /\ RecoveryForm' /\ PendingForm' /\ Named' /\
        NamedOutside' /\ Receipts' /\ RowsOwed' /\ RawFiles' /\ RunOfRow' /\
        Unshown' /\ OldRows' /\ GoneRows' /\ Deleting' /\ Purging' /\
        Recovering' /\ NothingLost'
  BY <1>1, Frames DEF db, counts
<1>e. /\ exp.at = "idle" /\ up = "up" /\ ops' = ops + 1 /\ ops' \in Op /\ overtaken' \in BOOLEAN
      /\ exp' = [at |-> "prepare", op |-> ops', run |-> r, dest |-> d, prev |-> 0,
                 row |-> NoRow, installed |-> FALSE,
                 kind |-> IF d \in Outside THEN "external_export" ELSE "export"]
      /\ owners' \subseteq Op
  <2>1. /\ exp.at = "idle" /\ up = "up" /\ ops < MaxOps /\ ops' = ops + 1
        /\ exp' = [NoExport EXCEPT !.op = ops', !.run = r, !.dest = d, !.at = "prepare",
                     !.kind = IF d \in Outside THEN "external_export" ELSE "export"]
        /\ owners' = IF d \in Outside THEN owners \cup {ops'} ELSE owners
        /\ overtaken' = (overtaken \/ \E o \in Op : manifest[o].kind \in Kind /\ manifest[o].dest = d)
    BY DEF ExportBegins, NewOp
  <2>2. ops' \in Op /\ owners \subseteq Op
    BY <1>p, <2>1, Operations DEF PlainOps, FilesInv, TypeOK, Op
  <2>3. overtaken \in BOOLEAN
    BY DEF FilesInv, Flags
  <2>4. overtaken' \in BOOLEAN
    BY <2>1, <2>3
  <2>5. owners' \subseteq Op
    BY <2>1, <2>2
  <2>6. exp' = [at |-> "prepare", op |-> ops', run |-> r, dest |-> d, prev |-> 0,
                row |-> NoRow, installed |-> FALSE,
                kind |-> IF d \in Outside THEN "external_export" ELSE "export"]
    BY <2>1 DEF NoExport
  <2>7. QED BY <2>1, <2>2, <2>4, <2>5, <2>6
<1>f. /\ exp'.at = "prepare" /\ exp'.op = ops' /\ exp'.run = r /\ exp'.dest = d /\ exp'.prev = 0
      /\ exp'.row = NoRow /\ exp'.installed = FALSE
      /\ exp'.kind = IF d \in Outside THEN "external_export" ELSE "export"
      /\ exp'.kind \in Kind
      /\ (exp'.kind = "external_export") <=> (d \in Outside)
  BY <1>e, Kinds
<1>n. manifest[ops'] = NoManifest /\ ops' \notin receipts /\ ops' > ops /\ ops' <= MaxOps
      /\ ops \in Nat
  BY <1>e, <1>p, Operations DEF PlainOps, FilesInv, FreshOps
<1>3. TypeOK'
  BY <1>1, <1>e DEF FilesInv, TypeOK
<1>4. Numbers'
  BY <1>1, <1>e, <1>n, Operations DEF FilesInv, Numbers
<1>5. Flags'
  BY <1>1, <1>e DEF FilesInv, Flags
<1>6. ExportForm'
  <2>1. NoRow \in RowForm
    BY DEF NoRow, RowForm
  <2>2. ops' \in 0..MaxOps
    BY <1>e, <1>n, Operations
  <2>3. exp' = [at |-> exp'.at, op |-> exp'.op, kind |-> exp'.kind, run |-> exp'.run,
                dest |-> exp'.dest, prev |-> exp'.prev, row |-> exp'.row,
                installed |-> exp'.installed]
    BY <1>e
  <2>4. exp'.prev \in Nat /\ exp'.installed \in BOOLEAN /\ exp'.at \in ExportAt
    <3>1. exp'.prev \in Nat
      BY <1>f
    <3>2. exp'.installed \in BOOLEAN
      BY <1>f, Zenon
    <3>3. exp'.at \in ExportAt
      BY <1>f DEF ExportAt
    <3>4. QED BY <3>1, <3>2, <3>3
  <2>5. /\ exp'.op \in Op /\ exp'.run \in Run /\ exp'.dest \in Report \cup Outside
        /\ exp'.row \in RowForm
        /\ exp'.kind \in Kind
        /\ (exp'.kind = "external_export") <=> (exp'.dest \in Outside)
        /\ exp'.at # "idle" /\ exp'.op \in 0..MaxOps
    BY <1>e, <1>f, <2>1, <2>2
  <2>6. IsExport(exp')
    BY <2>3, <2>4, <2>5 DEF IsExport
  <2>7. QED BY <2>6 DEF ExportForm
<1>7. Leases'
  BY <1>1, <1>e, <1>f DEF FilesInv, Leases, Leased
<1>8. FreshOps'
  <2>1. \A o \in Op : o > ops' => o > ops
    BY <1>n, <1>e, Operations
  <2>2. ASSUME NEW o \in Op, manifest[o].kind \in Kind
        PROVE  o <= ops
    <3>1. ~ o > ops
      BY <2>2, Kinds DEF FilesInv, FreshOps
    <3>2. QED BY <1>n, <3>1, Operations
  <2>3. del.op <= ops /\ del.op \in Nat /\ \A o \in receipts : o <= ops /\ o \in Nat
    BY <1>p, Operations DEF FilesInv, FreshOps, PlainOps
  <2>4. \A o \in Op : o <= ops => o <= ops'
    BY <1>n, <1>e, Operations
  <2>5. exp'.op <= ops' /\ del.op <= ops' /\ exp'.op # del.op
        /\ \A o \in receipts : o <= ops'
    BY <1>e, <1>f, <1>n, <2>3, Operations
  <2>6. \A o \in Op : manifest[o].kind \in Kind => o <= exp'.op
    BY <1>f, <2>2, <2>4
  <2>7. \A o \in Op : o > ops' => manifest[o] = NoManifest
    BY <2>1 DEF FilesInv, FreshOps
  <2>8. QED BY <1>1, <2>5, <2>6, <2>7 DEF FreshOps
<1>9. FreshFiles'
  <2>1. Limit' = Limit
    BY <1>1, <1>e, <1>f, <1>n DEF Limit, Early, NewContent
  <2>2. QED BY <1>1, <2>1, Frames DEF db
<1>10. FreshHidden'
  <2>1. exp'.prev <= exp'.op
    BY <1>e, <1>f, Operations
  <2>2. QED BY <1>1, <2>1 DEF FilesInv, FreshHidden
<1>11. Unused'
  <2>1. \A o \in Op : o > ops' => o > ops
    BY <1>n, <1>e, Operations
  <2>2. QED BY <1>1, <2>1 DEF FilesInv, Unused
<1>12. ManifestAtWork'
  BY <1>1, <1>e, <1>f, <1>n DEF ManifestAtWork
<1>13. FilesAtWork'
  <2>1. B' = Backup(exp'.kind, ops')
    BY <1>f DEF B
  <2>2. /\ here[Backup(exp'.kind, ops')] = 0
        /\ \A o \in Op : aside[o][Backup(exp'.kind, ops')] = 0
    <3>1. \A k \in Kind, o \in Op : o > ops =>
            here[Backup(k, o)] = 0 /\ \A o1 \in Op : aside[o1][Backup(k, o)] = 0
      BY DEF FilesInv, Unused
    <3>2. exp'.kind \in Kind
      BY <1>f
    <3>3. ops' \in Op
      BY <1>e
    <3>4. ops' > ops
      BY <1>n
    <3>5. QED BY <3>1, <3>2, <3>3, <3>4
  <2>3. QED BY <1>1, <1>f, <2>1, <2>2 DEF FilesAtWork
<1>14. RowAtWork'
  BY <1>f DEF RowAtWork, Leased
<1>15. QED BY <1>2, <1>3, <1>4, <1>5, <1>6, <1>7, <1>8, <1>9, <1>10, <1>11,
        <1>12, <1>13, <1>14 DEF FilesInv

(* Its manifest is written ...                                             *)
LEMMA PreparedKeeps ==
    ASSUME FilesInv, exp.at = "prepare", Written(exp.op, Manifest("PREPARED")), Goes("render"),
           UNCHANGED <<db, here, aside, owners, maintenance, start, counts, wish, pending, del>>
    PROVE  FilesInv'
<1>1. UNCHANGED <<runs, born, running, rows, receipts, here, aside, owners,
                 maintenance, up, rec, waiting, ops, faults, crashes,
                 detached, attached, owed, doubted, overtaken, pending, del>>
  BY DEF Manifest, db, disk, start, counts, wish, files
<1>p. PlainOps /\ PlainFiles /\ PlainExport /\ PlainManifests
  BY Plain
<1>2. TypeOK' /\ Numbers' /\ Flags' /\ DeleteForm' /\ RecoveryForm' /\
        PendingForm' /\ Unused' /\ RowsOwed' /\ RawFiles' /\ Unshown'
  BY <1>1, Frames DEF db, counts
<1>w. Places
  BY AtWork
<1>e. /\ ExportForm' /\ exp'.at = "render" /\ exp.at = "prepare" /\ SamePlaces
      /\ exp'.prev = exp.prev /\ exp'.row = exp.row
      /\ S' = S /\ B' = B /\ D' = D /\ New' = New
  <2>1. Goes("render") /\ exp.at = "prepare"
    OBVIOUS
  <2>2. /\ ExportForm' /\ exp'.at = "render" /\ SamePlaces
        /\ exp'.prev = exp.prev /\ exp'.row = exp.row
    BY <2>1, ExportGoes DEF FilesInv, ExportAt, SamePlaces
  <2>3. QED BY <2>1, <2>2, SamePlace
<1>m. /\ manifest'[exp.op] = Manifest("PREPARED")
      /\ \A o \in Op : o # exp.op => manifest'[o] = manifest[o]
      /\ manifest'[exp.op].kind = exp.kind /\ manifest'[exp.op].dest = D
      /\ manifest'[exp.op].run = exp.run /\ manifest'[exp.op].phase = "PREPARED"
      /\ manifest'[exp.op].prev = exp.prev /\ manifest'[exp.op].row = exp.row
      /\ Manifests'
  <2>1. Written(exp.op, Manifest("PREPARED"))
    OBVIOUS
  <2>2. IsManifest(Manifest("PREPARED"))
    <3>1. Manifest("PREPARED") = [kind |-> exp.kind, phase |-> "PREPARED", run |-> exp.run,
                                  dest |-> D,
                prev |-> exp.prev, row |-> exp.row]
      BY DEF Manifest
    <3>2. exp.run \in Run /\ exp.row \in RowForm /\ exp.prev \in Nat
          /\ D \in Report \cup Outside
          /\ ((exp.kind = "external_export") <=> (D \in Outside))
      BY <1>e, <1>w DEF FilesInv, ExportForm, IsExport, Places
    <3>3. exp.kind \in Kind /\ "PREPARED" \in Phases
      BY <1>w DEF Places, Phases
    <3>4. IsExporting(Manifest("PREPARED"))
      BY <3>1, <3>2, <3>3 DEF IsExporting
    <3>5. QED BY <3>4 DEF IsManifest
  <2>3. /\ manifest'[exp.op] = Manifest("PREPARED") /\ Manifests'
        /\ \A o \in Op : o # exp.op => manifest'[o] = manifest[o]
    BY <1>w, <2>1, <2>2, WrittenManifest DEF FilesInv, Places
  <2>4. QED BY <2>3 DEF Manifest
<1>n. manifest[exp.op] = NoManifest /\ exp.op \notin receipts
  BY <1>e DEF FilesInv, ManifestAtWork
<1>o. exp.op \in Nat /\ exp.op >= 1 /\ NewContent(exp.op) = exp.op + 1 /\ Limit = exp.op
  BY <1>e, <1>w, Operations DEF Places, Limit, Early
<1>3. Manifests'
  BY <1>m
<1>4. ExportForm'
  BY <1>e
<1>5. Leases'
  BY <1>1, <1>e DEF FilesInv, Leases, Leased
<1>6. FreshOps'
  <2>1. \A o \in Op : o > ops => o # exp.op
    BY <1>p, <1>w, Operations DEF PlainOps, Places
  <2>2. \A o \in Op : manifest'[o].kind \in Kind => o <= exp.op
    BY <1>e, <1>m, <1>o DEF FilesInv, FreshOps
  <2>3. \A o \in Op : o > ops => manifest'[o] = NoManifest
    BY <1>m, <2>1 DEF FilesInv, FreshOps
  <2>4. QED BY <1>1, <1>e, <2>2, <2>3 DEF FilesInv, FreshOps, SamePlaces
<1>7. FreshFiles'
  <2>1. Limit' = Limit
    BY <1>1, <1>e DEF Limit, Early, SamePlaces
  <2>2. QED BY <1>1, <2>1, Frames DEF db
<1>8. FreshHidden'
  <2>1. exp.prev < NewContent(exp.op) /\ exp.prev <= exp.op
    BY <1>e, <1>o, <1>p DEF FilesInv, FreshHidden, PlainExport
  <2>2. \A o \in Op : manifest'[o].kind \in Kind => manifest'[o].prev < NewContent(o)
    BY <1>m, <2>1 DEF FilesInv, FreshHidden
  <2>3. QED BY <1>1, <1>e, <2>1, <2>2 DEF FilesInv, FreshHidden, SamePlaces
<1>9. Named'
  BY <1>1, <1>m, <1>n, Kinds DEF FilesInv, Named
<1>10. NamedOutside'
  BY <1>1, <1>m, <1>n, Kinds DEF FilesInv, NamedOutside
<1>11. ManifestAtWork'
  <2>1. manifest'[exp'.op] # NoManifest
    BY <1>e, <1>m, <1>w, Kinds DEF SamePlaces, Places
  <2>2. /\ manifest'[exp'.op].kind = exp'.kind /\ manifest'[exp'.op].dest = exp'.dest
        /\ manifest'[exp'.op].run = exp'.run
    BY <1>e, <1>m DEF SamePlaces, D
  <2>3. QED BY <1>e, <2>1, <2>2 DEF ManifestAtWork
<1>12. FilesAtWork'
  BY <1>1, <1>e, <1>w DEF FilesInv, FilesAtWork, SamePlaces, Places
<1>13. RowAtWork'
  BY <1>1, <1>e, <1>w DEF FilesInv, RowAtWork, SamePlaces, Places, Leased
<1>14. Receipts'
  <2>1. \A f \in File : owed[f] # NewContent(exp.op)
    BY <1>o, <1>p DEF FilesInv, FreshFiles, PlainFiles
  <2>2. QED BY <1>1, <1>m, <1>n, <2>1 DEF FilesInv, Receipts
<1>15. RunOfRow'
  <2>1. rows[D].content # NewContent(exp.op)
    BY <1>o, <1>p, <1>w DEF FilesInv, FreshFiles, PlainFiles, Places
  <2>2. QED BY <1>1, <1>m, <2>1 DEF FilesInv, RunOfRow
<1>16. OldRows'
  BY <1>1, <1>m DEF FilesInv, OldRows
<1>17. GoneRows'
  BY <1>1, <1>m, <1>w, Kinds DEF FilesInv, GoneRows, Places
<1>18. Deleting'
  BY <1>1, <1>e, <1>m, <1>p DEF FilesInv, Deleting, FreshOps, PlainOps
<1>19. Purging'
  <2>1. \A o \in Op : aside[o][Backup(exp.kind, exp.op)] = 0
    BY <1>e, <1>w DEF FilesInv, FilesAtWork, Places
  <2>2. del.at # "idle" => del.op \in Op
    BY <1>p DEF PlainOps
  <2>3. QED BY <1>1, <1>m, <2>1, <2>2 DEF FilesInv, Purging
<1>20. Recovering'
  <2>1. \A o \in Op : manifest'[o].kind = "delete" <=> manifest[o].kind = "delete"
    BY <1>m, <1>n, <1>w, Kinds DEF Places
  <2>2. \A o \in Op : manifest[o].kind = "delete" => manifest'[o] = manifest[o]
    BY <1>m, <1>n, Kinds
  <2>3. QED BY <1>1, <1>p, <2>1, <2>2 DEF FilesInv, Recovering, PlainOps
<1>21. NothingLost'
  BY <1>1, <1>m, <1>n, <1>w, NewManifestFinds DEF FilesInv, Places
<1>22. QED BY <1>2, <1>3, <1>4, <1>5, <1>6, <1>7, <1>8, <1>9, <1>10, <1>11,
        <1>12, <1>13, <1>14, <1>15, <1>16, <1>17, <1>18, <1>19, <1>20, <1>21
        DEF FilesInv

(* ... and its report, beside the destination.                             *)
LEMMA RenderKeeps ==
    ASSUME FilesInv, Render, UNCHANGED <<pending, del>>
    PROVE  FilesInv'
<1>1. UNCHANGED <<runs, born, running, rows, receipts, aside, manifest,
                 owners, maintenance, up, rec, waiting, ops, faults, crashes,
                 detached, attached, owed, doubted, overtaken, pending, del>>
  BY DEF Render, NoOther, db, disk, start, counts, wish, files
<1>p. PlainOps /\ PlainFiles /\ PlainExport /\ PlainManifests
  BY Plain
<1>2. Numbers' /\ Flags' /\ Manifests' /\ DeleteForm' /\ RecoveryForm' /\
        PendingForm' /\ Named' /\ Receipts' /\ RowsOwed' /\ RunOfRow' /\
        OldRows' /\ GoneRows' /\ Purging' /\ Recovering'
  BY <1>1, Frames DEF db, counts
<1>w. Places
  BY AtWork DEF Render
<1>e. /\ ExportForm' /\ exp'.at = "ready" /\ exp.at = "render" /\ SamePlaces
      /\ exp'.prev = exp.prev /\ exp'.row = exp.row
      /\ S' = S /\ B' = B /\ D' = D /\ New' = New
  <2>1. Goes("ready") /\ exp.at = "render"
    BY DEF Render
  <2>2. /\ ExportForm' /\ exp'.at = "ready" /\ SamePlaces
        /\ exp'.prev = exp.prev /\ exp'.row = exp.row
    BY <2>1, ExportGoes DEF FilesInv, ExportAt, SamePlaces
  <2>3. QED BY <2>1, <2>2, SamePlace
<1>h. /\ here' \in [Path -> Nat] /\ here'[S] = New
      /\ \A q \in Path : q # S => here'[q] = here[q]
      /\ \A f \in File : here'[f] = here[f]
      /\ \A k \in Kind, o \in Op : here'[Backup(k, o)] = here[Backup(k, o)]
      /\ \A k \in Kind, o \in Op : k # exp.kind \/ o # exp.op =>
            here'[Staged(k, o)] = here[Staged(k, o)]
  <2>1. here' = [here EXCEPT ![S] = New]
    BY DEF Render
  <2>2. New \in Nat /\ S \in Path \ File
    BY <1>w, Operations DEF Places
  <2>3. /\ here' \in [Path -> Nat] /\ here'[S] = New
        /\ \A q \in Path : q # S => here'[q] = here[q]
    BY <1>p, <2>1, <2>2 DEF PlainFiles
  <2>4. QED BY <1>w, <2>2, <2>3, Sorts DEF Places
<1>3. TypeOK'
  BY <1>1, <1>e, <1>h, <1>p, Operations, Kinds DEF FilesInv, TypeOK, PlainOps,
     PlainFiles, PlainExport, PlainManifests
<1>4. ExportForm'
  BY <1>e
<1>5. Leases'
  BY <1>1, <1>e DEF FilesInv, Leases, Leased
<1>6. FreshOps'
  BY <1>1, <1>e DEF FilesInv, FreshOps, SamePlaces
<1>7. FreshFiles'
  <2>1. Limit' = Limit
    BY <1>1, <1>e DEF Limit, Early, SamePlaces
  <2>2. QED BY <1>1, <1>h, <2>1 DEF FilesInv, FreshFiles
<1>8. FreshHidden'
  <2>1. \A k \in Kind, o \in Op : here'[Staged(k, o)] \in {0, NewContent(o)}
    BY <1>h, <1>w DEF FilesInv, FreshHidden, Places
  <2>2. QED BY <1>1, <1>e, <1>h, <2>1 DEF FilesInv, FreshHidden, SamePlaces
<1>9. Unused'
  BY <1>1, <1>h DEF FilesInv, Unused
<1>10. NamedOutside'
  <2>1. exp.kind = "external_export" => manifest[exp.op].kind = "external_export"
    BY <1>e DEF FilesInv, ManifestAtWork
  <2>2. QED BY <1>1, <1>h, <2>1, Kinds DEF FilesInv, NamedOutside
<1>11. ManifestAtWork'
  BY <1>1, <1>e, <1>w DEF FilesInv, ManifestAtWork, SamePlaces, Places
<1>12. FilesAtWork'
  BY <1>1, <1>e, <1>h, <1>w DEF FilesInv, FilesAtWork, SamePlaces, Places
<1>13. RowAtWork'
  BY <1>1, <1>e, <1>w DEF FilesInv, RowAtWork, SamePlaces, Places, Leased
<1>14. RawFiles'
  BY <1>1, <1>h, Sorts DEF FilesInv, RawFiles
<1>15. Unshown'
  BY <1>1, <1>h, Sorts DEF FilesInv, Unshown
<1>16. Deleting'
  BY <1>1, <1>h, Sorts DEF FilesInv, Deleting
<1>17. NothingLost'
  BY <1>1, <1>h, <1>p, StillFound DEF FilesInv, PlainManifests
<1>18. QED BY <1>2, <1>3, <1>4, <1>5, <1>6, <1>7, <1>8, <1>9, <1>10, <1>11,
        <1>12, <1>13, <1>14, <1>15, <1>16, <1>17 DEF FilesInv

(* It has the lease and may not begin ...                                  *)
LEMMA CommitRefusedToBeginKeeps ==
    ASSUME FilesInv, CommitBegins, Refused, UNCHANGED <<pending, del>>
    PROVE  FilesInv'
<1>1. UNCHANGED <<runs, born, running, rows, receipts, here, aside, manifest,
                 owners, up, rec, waiting, ops, faults, crashes, detached,
                 attached, owed, doubted, overtaken, pending, del>>
  BY DEF CommitBegins, NoOther, db, disk, start, counts, wish, files
<1>p. PlainOps /\ PlainFiles /\ PlainExport /\ PlainManifests
  BY Plain
<1>2. Numbers' /\ Flags' /\ Manifests' /\ DeleteForm' /\ RecoveryForm' /\
        PendingForm' /\ Unused' /\ Named' /\ NamedOutside' /\ Receipts' /\
        RowsOwed' /\ RawFiles' /\ RunOfRow' /\ Unshown' /\ OldRows' /\
        GoneRows' /\ Deleting' /\ Purging' /\ Recovering' /\ NothingLost'
  BY <1>1, Frames DEF db, counts
<1>w. Places
  BY AtWork DEF CommitBegins
<1>e. /\ ExportForm' /\ exp'.at = "discard" /\ exp.at = "ready" /\ SamePlaces
      /\ exp'.prev = exp.prev /\ exp'.row = exp.row
      /\ maintenance = "free" /\ maintenance' = "export"
      /\ S' = S /\ B' = B /\ D' = D /\ New' = New
  <2>1. /\ Goes("discard") /\ exp.at = "ready" /\ maintenance = "free"
        /\ maintenance' = "export"
    BY DEF CommitBegins, Goes
  <2>2. /\ ExportForm' /\ exp'.at = "discard" /\ SamePlaces
        /\ exp'.prev = exp.prev /\ exp'.row = exp.row
    BY <2>1, ExportGoes DEF FilesInv, ExportAt, SamePlaces
  <2>3. QED BY <2>1, <2>2, SamePlace
<1>3. TypeOK'
  BY <1>1, <1>e DEF FilesInv, TypeOK
<1>4. ExportForm'
  BY <1>e
<1>5. Leases'
  BY <1>1, <1>e DEF FilesInv, Leases, Leased
<1>6. FreshOps'
  BY <1>1, <1>e DEF FilesInv, FreshOps, SamePlaces
<1>7. FreshFiles'
  <2>1. Limit' = Limit
    BY <1>1, <1>e DEF Limit, Early, SamePlaces
  <2>2. QED BY <1>1, <2>1, Frames DEF db
<1>8. FreshHidden'
  BY <1>1, <1>e DEF FilesInv, FreshHidden, SamePlaces
<1>9. ManifestAtWork'
  BY <1>1, <1>e, <1>w DEF FilesInv, ManifestAtWork, SamePlaces, Places
<1>10. FilesAtWork'
  BY <1>1, <1>e, <1>w DEF FilesInv, FilesAtWork, SamePlaces, Places
<1>11. RowAtWork'
  BY <1>1, <1>e, <1>w DEF FilesInv, RowAtWork, SamePlaces, Places, Leased
<1>12. QED BY <1>2, <1>3, <1>4, <1>5, <1>6, <1>7, <1>8, <1>9, <1>10, <1>11 DEF
        FilesInv

(* ... or begins, and notes what is there.                                 *)
LEMMA CommitBeginsKeeps ==
    ASSUME FilesInv, CommitBegins, ~ Refused, UNCHANGED <<pending, del>>
    PROVE  FilesInv'
<1>1. UNCHANGED <<runs, born, running, rows, receipts, here, aside, manifest,
                 owners, up, rec, waiting, ops, faults, crashes, detached,
                 attached, owed, doubted, overtaken, pending, del>>
  BY DEF CommitBegins, NoOther, db, disk, start, counts, wish, files
<1>p. PlainOps /\ PlainFiles /\ PlainExport /\ PlainManifests
  BY Plain
<1>2. Numbers' /\ Flags' /\ Manifests' /\ DeleteForm' /\ RecoveryForm' /\
        PendingForm' /\ Unused' /\ Named' /\ NamedOutside' /\ Receipts' /\
        RowsOwed' /\ RawFiles' /\ RunOfRow' /\ Unshown' /\ OldRows' /\
        GoneRows' /\ Deleting' /\ Purging' /\ Recovering' /\ NothingLost'
  BY <1>1, Frames DEF db, counts
<1>w. Places
  BY AtWork DEF CommitBegins
<1>e. /\ ExportForm' /\ exp'.at = "announce" /\ exp.at = "ready" /\ SamePlaces
      /\ exp'.prev = here[D] /\ exp'.row = (IF exp.kind = "export" THEN rows[D] ELSE NoRow)
      /\ maintenance = "free" /\ maintenance' = "export"
      /\ S' = S /\ B' = B /\ D' = D /\ New' = New
  <2>1. /\ exp' = [exp EXCEPT !.at = "announce", !.prev = here[D],
                     !.row = IF exp.kind = "export" THEN rows[D] ELSE NoRow]
        /\ exp.at = "ready" /\ maintenance = "free" /\ maintenance' = "export"
    BY DEF CommitBegins
  <2>2. exp' = [at |-> "announce", op |-> exp.op, kind |-> exp.kind, run |-> exp.run,
                dest |-> exp.dest, prev |-> here[D],
                row |-> IF exp.kind = "export" THEN rows[D] ELSE NoRow,
                installed |-> exp.installed]
    BY <2>1 DEF FilesInv, ExportForm, IsExport
  <2>3. here[D] \in Nat /\ (IF exp.kind = "export" THEN rows[D] ELSE NoRow) \in RowForm
    BY <1>p, <1>w DEF PlainFiles, Places, RowForm, NoRow
  <2>4. IsExport(exp')
    <3>1. exp.installed \in BOOLEAN /\ exp.op \in 0..MaxOps
      BY DEF FilesInv, ExportForm, IsExport
    <3>2. /\ exp.run \in Run /\ exp.dest \in Report \cup Outside
          /\ (exp.kind = "external_export") <=> (exp.dest \in Outside)
      BY <2>1 DEF FilesInv, ExportForm, IsExport
    <3>3. QED BY <1>w, <2>2, <2>3, <3>1, <3>2 DEF IsExport, ExportAt, Places
  <2>5. SamePlaces /\ exp'.at = "announce" /\ exp'.prev = here[D]
        /\ exp'.row = (IF exp.kind = "export" THEN rows[D] ELSE NoRow)
    BY <2>2 DEF SamePlaces
  <2>6. QED BY <2>1, <2>4, <2>5, SamePlace DEF ExportForm
<1>r. /\ here[S] # 0
      /\ exp.kind = "export" => rows[D] = NoRow \/ rows[D].content = here[D]
  BY DEF Refused
<1>3. TypeOK'
  BY <1>1, <1>e DEF FilesInv, TypeOK
<1>4. ExportForm'
  BY <1>e
<1>5. Leases'
  BY <1>1, <1>e DEF FilesInv, Leases, Leased
<1>6. FreshOps'
  BY <1>1, <1>e DEF FilesInv, FreshOps, SamePlaces
<1>7. FreshFiles'
  <2>1. Limit' = Limit
    BY <1>1, <1>e DEF Limit, Early, SamePlaces
  <2>2. QED BY <1>1, <2>1, Frames DEF db
<1>8. FreshHidden'
  <2>1. here[D] <= exp.op
    BY <1>e, <1>p, <1>w DEF FilesInv, FreshFiles, Limit, Early, Places
  <2>2. QED BY <1>1, <1>e, <2>1 DEF FilesInv, FreshHidden, SamePlaces
<1>9. ManifestAtWork'
  BY <1>1, <1>e, <1>w DEF FilesInv, ManifestAtWork, SamePlaces, Places
<1>10. FilesAtWork'
  <2>1. here[S] = New
    BY <1>r, <1>w DEF FilesInv, FreshHidden, Places
  <2>2. here[B] = 0 /\ \A o \in Op : aside[o][B] = 0
    BY <1>e, <1>w DEF FilesInv, FilesAtWork, Places
  <2>3. QED BY <1>1, <1>e, <2>1, <2>2 DEF FilesAtWork
<1>11. RowAtWork'
  <2>1. exp'.kind = exp.kind
    BY <1>e DEF SamePlaces
  <2>2. CASE exp.kind = "export"
    <3>1. exp'.row = rows[D] /\ D \in Report
      BY <1>e, <1>w, <2>2 DEF Places
    <3>2. rows[D].content \in {0, here[D]}
      BY <1>r, <2>2 DEF NoRow
    <3>3. rows[D].content = 0 /\ here[D] >= 2 => owed[D] # here[D]
      <4>1. rows[D].content = 0 => rows[D] = NoRow
        BY <1>w DEF FilesInv, RowsOwed, Places
      <4>2. QED BY <3>1, <4>1 DEF FilesInv, Unshown
    <3>4. QED BY <1>1, <1>e, <3>1, <3>2, <3>3 DEF RowAtWork
  <2>3. CASE exp.kind # "export"
    BY <2>1, <2>3 DEF RowAtWork
  <2>4. QED BY <2>2, <2>3
<1>12. QED BY <1>2, <1>3, <1>4, <1>5, <1>6, <1>7, <1>8, <1>9, <1>10, <1>11 DEF
        FilesInv

(* The manifest is written again, with the next phase.                     *)
LEMMA MarkedKeeps ==
    ASSUME FilesInv, NEW a \in {"backup", "record", "clean"}, NEW ph \in Phases \ {"PREPARED"},
           exp.at \in {"announce", "mark", "confirm"},
           a = (IF exp.at = "announce" THEN "backup"
                ELSE IF exp.at = "mark" THEN "record" ELSE "clean"),
           Written(exp.op, Manifest(ph)), Goes(a),
           UNCHANGED <<db, here, aside, owners, maintenance, start, counts, wish, pending, del>>
    PROVE  FilesInv'
<1>1. UNCHANGED <<runs, born, running, rows, receipts, here, aside, owners,
                 maintenance, up, rec, waiting, ops, faults, crashes,
                 detached, attached, owed, doubted, overtaken, pending, del>>
  BY DEF Manifest, db, disk, start, counts, wish, files
<1>p. PlainOps /\ PlainFiles /\ PlainExport /\ PlainManifests
  BY Plain
<1>2. TypeOK' /\ Numbers' /\ Flags' /\ DeleteForm' /\ RecoveryForm' /\
        PendingForm' /\ Unused' /\ RowsOwed' /\ RawFiles' /\ Unshown'
  BY <1>1, Frames DEF db, counts
<1>w. Places
  BY AtWork
<1>e. /\ ExportForm' /\ exp'.at = a /\ SamePlaces
      /\ exp'.prev = exp.prev /\ exp'.row = exp.row
      /\ S' = S /\ B' = B /\ D' = D /\ New' = New
      /\ exp.at \in Leased
  <2>1. /\ ExportForm' /\ exp'.at = a /\ SamePlaces
        /\ exp'.prev = exp.prev /\ exp'.row = exp.row
    BY ExportGoes DEF FilesInv, ExportAt, SamePlaces
  <2>2. QED BY <2>1, SamePlace DEF Leased
<1>l. /\ maintenance = "export" /\ del.at = "idle" /\ rec.at = "none"
      /\ rec.op = 0 => rec.todo = {}
  BY <1>e, HoldsLease DEF FilesInv, Recovering
<1>m. /\ manifest'[exp.op] = Manifest(ph)
      /\ \A o \in Op : o # exp.op => manifest'[o] = manifest[o]
      /\ manifest'[exp.op].kind = exp.kind /\ manifest'[exp.op].dest = D
      /\ manifest'[exp.op].run = exp.run /\ manifest'[exp.op].phase = ph
      /\ manifest'[exp.op].prev = exp.prev /\ manifest'[exp.op].row = exp.row
      /\ Manifests'
  <2>1. Written(exp.op, Manifest(ph))
    OBVIOUS
  <2>2. IsManifest(Manifest(ph))
    <3>1. Manifest(ph) = [kind |-> exp.kind, phase |-> ph, run |-> exp.run, dest |-> D,
                prev |-> exp.prev, row |-> exp.row]
      BY DEF Manifest
    <3>2. exp.run \in Run /\ exp.row \in RowForm /\ exp.prev \in Nat
          /\ D \in Report \cup Outside
          /\ ((exp.kind = "external_export") <=> (D \in Outside))
      BY <1>e, <1>w DEF FilesInv, ExportForm, IsExport, Places
    <3>3. exp.kind \in Kind /\ ph \in Phases
      BY <1>w DEF Places, Phases
    <3>4. IsExporting(Manifest(ph))
      BY <3>1, <3>2, <3>3 DEF IsExporting
    <3>5. QED BY <3>4 DEF IsManifest
  <2>3. /\ manifest'[exp.op] = Manifest(ph) /\ Manifests'
        /\ \A o \in Op : o # exp.op => manifest'[o] = manifest[o]
    BY <1>w, <2>1, <2>2, WrittenManifest DEF FilesInv, Places
  <2>4. QED BY <2>3 DEF Manifest
<1>n. /\ manifest[exp.op].kind = exp.kind /\ manifest[exp.op].dest = D
      /\ manifest[exp.op].run = exp.run
  BY DEF FilesInv, ManifestAtWork, D
<1>o. \A o \in Op : /\ manifest'[o].kind = manifest[o].kind
                    /\ manifest[o].kind \in Kind =>
                         manifest'[o].dest = manifest[o].dest /\ manifest'[o].run = manifest[o].run
                    /\ manifest[o].kind \notin Kind => manifest'[o] = manifest[o]
  BY <1>m, <1>n, <1>w DEF Places
<1>3. Manifests'
  BY <1>m
<1>4. ExportForm'
  BY <1>e
<1>5. Leases'
  BY <1>1, <1>e DEF FilesInv, Leases, Leased
<1>6. FreshOps'
  <2>1. \A o \in Op : o > ops => o # exp.op
    BY <1>p, <1>w, Operations DEF PlainOps, Places
  <2>2. \A o \in Op : manifest'[o].kind \in Kind => o <= exp.op
    BY <1>o, <1>w DEF FilesInv, FreshOps, Places
  <2>3. \A o \in Op : o > ops => manifest'[o] = NoManifest
    BY <1>m, <2>1 DEF FilesInv, FreshOps
  <2>4. QED BY <1>1, <1>e, <2>2, <2>3 DEF FilesInv, FreshOps, SamePlaces
<1>7. FreshFiles'
  <2>1. Limit' = Limit
    BY <1>1, <1>e DEF Limit, Early, SamePlaces
  <2>2. QED BY <1>1, <2>1, Frames DEF db
<1>8. FreshHidden'
  <2>1. exp.prev < NewContent(exp.op) /\ exp.prev <= exp.op
    BY <1>w, <1>p DEF FilesInv, FreshHidden, PlainExport, Places, PlainOps
  <2>2. \A o \in Op : manifest'[o].kind \in Kind => manifest'[o].prev < NewContent(o)
    BY <1>m, <2>1 DEF FilesInv, FreshHidden
  <2>3. QED BY <1>1, <1>e, <2>1, <2>2 DEF FilesInv, FreshHidden, SamePlaces
<1>9. Named'
  BY <1>1, <1>o, Kinds DEF FilesInv, Named
<1>10. NamedOutside'
  BY <1>1, <1>o, Kinds DEF FilesInv, NamedOutside
<1>11. ManifestAtWork'
  <2>1. manifest'[exp'.op] # NoManifest
    BY <1>e, <1>m, <1>w, Kinds DEF SamePlaces, Places
  <2>2. /\ manifest'[exp'.op].kind = exp'.kind /\ manifest'[exp'.op].dest = exp'.dest
        /\ manifest'[exp'.op].run = exp'.run
    BY <1>e, <1>m DEF SamePlaces, D
  <2>3. QED BY <1>e, <2>1, <2>2 DEF ManifestAtWork
<1>12. FilesAtWork'
  BY <1>1, <1>e, <1>w DEF FilesInv, FilesAtWork, SamePlaces, Places
<1>13. RowAtWork'
  BY <1>1, <1>e, <1>w DEF FilesInv, RowAtWork, SamePlaces, Places, Leased
<1>14. Receipts'
  <2>1. \A o \in Op : manifest'[o].kind = "external_export" =>
            manifest[o].kind = "external_export" /\ manifest'[o].dest = manifest[o].dest
    BY <1>o, Kinds
  <2>2. QED BY <1>1, <2>1 DEF FilesInv, Receipts
<1>15. RunOfRow'
  BY <1>1, <1>o, Kinds DEF FilesInv, RunOfRow
<1>16. OldRows'
  <2>1. exp.kind = "export" =>
            /\ exp.row.content \in {0, exp.prev}
            /\ exp.row.content = 0 /\ exp.prev >= 2 => owed[D] # exp.prev
    BY <1>e DEF FilesInv, RowAtWork
  <2>2. QED BY <1>1, <1>m, <2>1 DEF FilesInv, OldRows
<1>17. GoneRows'
  BY <1>1, <1>o, Kinds DEF FilesInv, GoneRows
<1>18. Deleting'
  BY <1>1, <1>l, NoDeletion
<1>19. Purging'
  BY <1>1, <1>l, NoDeletion
<1>20. Recovering'
  BY <1>1, <1>l, NoRecoveryNow
<1>21. NothingLost'
  BY <1>1, <1>o, Kinds, LeadsKeep DEF FilesInv
<1>22. QED BY <1>2, <1>3, <1>4, <1>5, <1>6, <1>7, <1>8, <1>9, <1>10, <1>11,
        <1>12, <1>13, <1>14, <1>15, <1>16, <1>17, <1>18, <1>19, <1>20, <1>21
        DEF FilesInv

(* What is at the destination becomes the backup: the manifest leads to it.*)
LEMMA BackUpKeeps ==
    ASSUME FilesInv, BackUp, UNCHANGED <<pending, del>>
    PROVE  FilesInv'
<1>1. UNCHANGED <<runs, born, running, rows, receipts, aside, manifest,
                 owners, maintenance, up, rec, waiting, ops, faults, crashes,
                 detached, attached, owed, doubted, overtaken, pending, del>>
  BY DEF BackUp, NoOther, db, disk, start, counts, wish, files
<1>p. PlainOps /\ PlainFiles /\ PlainExport /\ PlainManifests
  BY Plain
<1>2. Numbers' /\ Flags' /\ Manifests' /\ DeleteForm' /\ RecoveryForm' /\
        PendingForm' /\ Named' /\ Receipts' /\ RowsOwed' /\ RunOfRow' /\
        OldRows' /\ GoneRows' /\ Purging' /\ Recovering'
  BY <1>1, Frames DEF db, counts
<1>w. Places
  BY AtWork DEF BackUp
<1>e. /\ ExportForm' /\ exp'.at = "install" /\ exp.at = "backup" /\ SamePlaces
      /\ exp'.prev = exp.prev /\ exp'.row = exp.row
      /\ S' = S /\ B' = B /\ D' = D /\ New' = New
  <2>1. Goes("install") /\ exp.at = "backup"
    BY DEF BackUp
  <2>2. /\ ExportForm' /\ exp'.at = "install" /\ SamePlaces
        /\ exp'.prev = exp.prev /\ exp'.row = exp.row
    BY <2>1, ExportGoes DEF FilesInv, ExportAt, SamePlaces
  <2>3. QED BY <2>1, <2>2, SamePlace
<1>l. /\ maintenance = "export" /\ del.at = "idle" /\ rec.at = "none"
      /\ rec.op = 0 => rec.todo = {}
  <2>1. exp.at \in Leased
    BY <1>e DEF Leased
  <2>2. QED BY <2>1, HoldsLease DEF FilesInv, Recovering
<1>h. /\ here' \in [Path -> Nat] /\ here'[D] = 0 /\ here'[B] = here[D] /\ here[D] = exp.prev
      /\ here[B] = 0 /\ here[S] = New /\ here'[S] = New
      /\ \A q \in Path : q # D /\ q # B => here'[q] = here[q]
      /\ \A f \in File : f # D => here'[f] = here[f]
      /\ \A k \in Kind, o \in Op : /\ here'[Staged(k, o)] = here[Staged(k, o)]
                                   /\ k # exp.kind \/ o # exp.op =>
                                        here'[Backup(k, o)] = here[Backup(k, o)]
  <2>1. IF here[D] # 0 THEN Moved(D, B) ELSE UNCHANGED here
    BY DEF BackUp
  <2>2. D \in Path /\ B \in Path /\ D # B /\ S # D /\ S # B /\ S \in Path
    BY <1>w DEF Places
  <2>3. here[B] = 0 /\ here[D] = exp.prev /\ here[S] = New
    BY <1>e DEF FilesInv, FilesAtWork
  <2>4. /\ here' \in [Path -> Nat] /\ here'[D] = 0 /\ here'[B] = here[D]
        /\ \A q \in Path : q # D /\ q # B => here'[q] = here[q]
    <3>1. CASE here[D] # 0
      BY <1>p, <2>1, <2>2, <3>1, MovedFile DEF PlainFiles
    <3>2. CASE here[D] = 0
      BY <1>p, <2>1, <2>2, <2>3, <3>2 DEF PlainFiles
    <3>3. QED BY <3>1, <3>2
  <2>5. \A f \in File : f # D => here'[f] = here[f]
    BY <1>w, <2>4, Sorts DEF Places
  <2>6. \A k \in Kind, o \in Op : /\ here'[Staged(k, o)] = here[Staged(k, o)]
                                  /\ k # exp.kind \/ o # exp.op =>
                                       here'[Backup(k, o)] = here[Backup(k, o)]
    BY <1>w, <2>4 DEF Places
  <2>7. QED BY <2>2, <2>3, <2>4, <2>5, <2>6
<1>3. TypeOK'
  BY <1>1, <1>e, <1>h, <1>p, Operations, Kinds DEF FilesInv, TypeOK, PlainOps,
     PlainFiles, PlainExport, PlainManifests
<1>4. ExportForm'
  BY <1>e
<1>5. Leases'
  BY <1>1, <1>e DEF FilesInv, Leases, Leased
<1>6. FreshOps'
  BY <1>1, <1>e DEF FilesInv, FreshOps, SamePlaces
<1>7. FreshFiles'
  <2>1. Limit' = Limit
    BY <1>1, <1>e DEF Limit, Early, SamePlaces
  <2>2. 0 <= Limit
    BY LimitNat
  <2>3. QED BY <1>1, <1>h, <2>1, <2>2 DEF FilesInv, FreshFiles
<1>8. FreshHidden'
  <2>1. here'[B] < New
    BY <1>h, <1>w, <1>p DEF Places, PlainExport, FilesInv, FreshHidden, PlainOps
  <2>2. \A k \in Kind, o \in Op : here'[Backup(k, o)] < NewContent(o)
    BY <1>h, <1>w, <2>1 DEF FilesInv, FreshHidden, Places
  <2>3. QED BY <1>1, <1>e, <1>h, <2>2 DEF FilesInv, FreshHidden, SamePlaces
<1>9. Unused'
  <2>1. \A o \in Op : o > ops => o # exp.op
    BY <1>p, <1>w, Operations DEF PlainOps, Places
  <2>2. QED BY <1>1, <1>h, <2>1 DEF FilesInv, Unused
<1>10. NamedOutside'
  <2>1. exp.kind = "external_export" => manifest[exp.op].kind = "external_export"
    BY <1>e DEF FilesInv, ManifestAtWork
  <2>2. QED BY <1>1, <1>h, <2>1, Kinds DEF FilesInv, NamedOutside
<1>11. ManifestAtWork'
  BY <1>1, <1>e, <1>w DEF FilesInv, ManifestAtWork, SamePlaces, Places
<1>12. FilesAtWork'
  BY <1>1, <1>e, <1>h, <1>w DEF FilesInv, FilesAtWork, SamePlaces, Places
<1>13. RowAtWork'
  BY <1>1, <1>e, <1>w DEF FilesInv, RowAtWork, SamePlaces, Places, Leased
<1>14. RawFiles'
  BY <1>1, <1>h, <1>w, Sorts DEF FilesInv, RawFiles, Places
<1>15. Unshown'
  <2>1. \A f \in Report : f # D => here'[f] = here[f]
    BY <1>h, Sorts
  <2>2. QED BY <1>1, <1>h, <2>1 DEF FilesInv, Unshown
<1>16. Deleting'
  BY <1>1, <1>l, NoDeletion
<1>17. NothingLost'
  <2>1. manifest[exp.op].kind = exp.kind /\ manifest[exp.op].dest = D
    BY <1>e DEF FilesInv, ManifestAtWork, D
  <2>2. \A f \in File : here[f] = owed[f] =>
            \/ here'[f] = owed[f]
            \/ f = D /\ here'[Backup(exp.kind, exp.op)] = owed[f]
    BY <1>h, <1>w DEF Places
  <2>3. \A k \in Kind, o \in Op : here[Backup(k, o)] # 0 =>
            here'[Backup(k, o)] = here[Backup(k, o)]
    BY <1>h, <1>w DEF Places
  <2>4. exp.op \in Op /\ exp.kind \in Kind
    BY <1>w DEF Places
  <2>5. QED BY <1>1, <1>p, <2>1, <2>2, <2>3, <2>4, StillFound DEF FilesInv
<1>18. QED BY <1>2, <1>3, <1>4, <1>5, <1>6, <1>7, <1>8, <1>9, <1>10, <1>11,
        <1>12, <1>13, <1>14, <1>15, <1>16, <1>17 DEF FilesInv

(* The new report takes its place: nobody is owed it there yet.            *)
LEMMA InstallKeeps ==
    ASSUME FilesInv, Install, UNCHANGED <<pending, del>>
    PROVE  FilesInv'
<1>1. UNCHANGED <<runs, born, running, rows, receipts, aside, manifest,
                 owners, maintenance, up, rec, waiting, ops, faults, crashes,
                 detached, attached, owed, doubted, overtaken, pending, del>>
  BY DEF Install, NoOther, db, disk, start, counts, wish, files
<1>p. PlainOps /\ PlainFiles /\ PlainExport /\ PlainManifests
  BY Plain
<1>2. Numbers' /\ Flags' /\ Manifests' /\ DeleteForm' /\ RecoveryForm' /\
        PendingForm' /\ Named' /\ Receipts' /\ RowsOwed' /\ RunOfRow' /\
        OldRows' /\ GoneRows' /\ Purging' /\ Recovering'
  BY <1>1, Frames DEF db, counts
<1>w. Places
  BY AtWork DEF Install
<1>e. /\ ExportForm' /\ exp'.at = "mark" /\ exp.at = "install" /\ SamePlaces
      /\ exp'.prev = exp.prev /\ exp'.row = exp.row
      /\ S' = S /\ B' = B /\ D' = D /\ New' = New
  <2>1. exp' = [exp EXCEPT !.at = "mark", !.installed = TRUE] /\ exp.at = "install"
    BY DEF Install
  <2>2. /\ exp'.at = "mark" /\ SamePlaces /\ exp'.prev = exp.prev /\ exp'.row = exp.row
        /\ exp' = [at |-> "mark", op |-> exp.op, kind |-> exp.kind, run |-> exp.run,
                   dest |-> exp.dest, prev |-> exp.prev, row |-> exp.row, installed |-> TRUE]
    BY <2>1 DEF FilesInv, ExportForm, IsExport, SamePlaces
  <2>3. ExportForm'
    <3>1. IsExport(exp)
      BY DEF FilesInv, ExportForm
    <3>2. IsExport(exp')
      BY <2>1, <2>2, <3>1 DEF IsExport, ExportAt
    <3>3. QED BY <3>2 DEF ExportForm
  <2>4. QED BY <2>1, <2>2, <2>3, SamePlace
<1>l. /\ maintenance = "export" /\ del.at = "idle" /\ rec.at = "none"
      /\ rec.op = 0 => rec.todo = {}
  <2>1. exp.at \in Leased
    BY <1>e DEF Leased
  <2>2. QED BY <2>1, HoldsLease DEF FilesInv, Recovering
<1>h. /\ here' \in [Path -> Nat] /\ here'[S] = 0 /\ here'[D] = New /\ here[D] = 0
      /\ here[B] = exp.prev /\ here'[B] = exp.prev
      /\ \A q \in Path : q # D /\ q # S => here'[q] = here[q]
      /\ \A f \in File : f # D => here'[f] = here[f]
      /\ \A k \in Kind, o \in Op : /\ here'[Backup(k, o)] = here[Backup(k, o)]
                                   /\ here'[Staged(k, o)] \in {0, here[Staged(k, o)]}
  <2>1. Moved(S, D)
    BY DEF Install
  <2>2. D \in Path /\ S \in Path /\ D # S /\ B # D /\ S # B /\ B \in Path
    BY <1>w DEF Places
  <2>3. here[S] = New /\ here[D] = 0 /\ here[B] = exp.prev
    BY <1>e DEF FilesInv, FilesAtWork
  <2>4. /\ here' \in [Path -> Nat] /\ here'[S] = 0 /\ here'[D] = here[S]
        /\ \A q \in Path : q # S /\ q # D => here'[q] = here[q]
    BY <1>p, <2>1, <2>2, MovedFile DEF PlainFiles
  <2>5. \A f \in File : f # D => here'[f] = here[f]
    BY <1>w, <2>4, Sorts DEF Places
  <2>6. \A k \in Kind, o \in Op : /\ here'[Backup(k, o)] = here[Backup(k, o)]
                                  /\ here'[Staged(k, o)] \in {0, here[Staged(k, o)]}
    BY <1>w, <2>4 DEF Places
  <2>7. QED BY <2>2, <2>3, <2>4, <2>5, <2>6
<1>n. owed[D] # New
  BY <1>e, <1>w, <1>p DEF FilesInv, FreshFiles, Limit, Early, Places, PlainFiles, PlainOps
<1>3. TypeOK'
  BY <1>1, <1>e, <1>h, <1>p, Operations, Kinds DEF FilesInv, TypeOK, PlainOps,
     PlainFiles, PlainExport, PlainManifests
<1>4. ExportForm'
  BY <1>e
<1>5. Leases'
  BY <1>1, <1>e DEF FilesInv, Leases, Leased
<1>6. FreshOps'
  BY <1>1, <1>e DEF FilesInv, FreshOps, SamePlaces
<1>7. FreshFiles'
  <2>1. Limit = exp.op /\ Limit' = New /\ New = exp.op + 1 /\ exp.op \in Nat
    BY <1>1, <1>e, <1>w, <1>p DEF Limit, Early, SamePlaces, Places, PlainOps
  <2>2. ASSUME NEW f \in File
        PROVE  /\ here'[f] <= New /\ owed[f] <= New /\ rows[f].content <= New
               /\ \A o \in Op : aside[o][f] <= New
    <3>1. /\ here[f] <= exp.op /\ owed[f] <= exp.op /\ rows[f].content <= exp.op
          /\ \A o \in Op : aside[o][f] <= exp.op
      BY <2>1 DEF FilesInv, FreshFiles
    <3>2. /\ here[f] \in Nat /\ owed[f] \in Nat /\ rows[f].content \in Nat
          /\ \A o \in Op : aside[o][f] \in Nat
      BY <1>p, Sorts DEF PlainFiles
    <3>3. here'[f] <= New
      BY <1>h, <2>1, <3>1, <3>2
    <3>4. QED BY <2>1, <3>1, <3>2, <3>3
  <2>3. QED BY <1>1, <2>1, <2>2 DEF FreshFiles
<1>8. FreshHidden'
  <2>1. \A k \in Kind, o \in Op : here'[Staged(k, o)] \in {0, NewContent(o)}
    BY <1>h DEF FilesInv, FreshHidden
  <2>2. QED BY <1>1, <1>e, <1>h, <2>1 DEF FilesInv, FreshHidden, SamePlaces
<1>9. Unused'
  BY <1>1, <1>h DEF FilesInv, Unused
<1>10. NamedOutside'
  <2>1. \A o \in Op :
           \/ here'[Staged("external_export", o)] # 0
           \/ here'[Backup("external_export", o)] # 0
           => here[Staged("external_export", o)] # 0 \/ here[Backup("external_export", o)] # 0
    BY <1>h, Kinds
  <2>2. QED BY <1>1, <2>1 DEF FilesInv, NamedOutside
<1>11. ManifestAtWork'
  BY <1>1, <1>e, <1>w DEF FilesInv, ManifestAtWork, SamePlaces, Places
<1>12. FilesAtWork'
  BY <1>1, <1>e, <1>h, <1>n, <1>w DEF FilesInv, FilesAtWork, SamePlaces, Places
<1>13. RowAtWork'
  BY <1>1, <1>e, <1>w DEF FilesInv, RowAtWork, SamePlaces, Places, Leased
<1>14. RawFiles'
  BY <1>1, <1>h, <1>w, Sorts DEF FilesInv, RawFiles, Places
<1>15. Unshown'
  <2>1. \A f \in Report : f # D => here'[f] = here[f]
    BY <1>h, Sorts
  <2>2. \A f \in Report : owed[f] >= 2 /\ rows[f] = NoRow => here'[f] # owed[f]
    BY <1>h, <1>n, <2>1 DEF FilesInv, Unshown
  <2>3. QED BY <1>1, <2>2 DEF FilesInv, Unshown
<1>16. Deleting'
  BY <1>1, <1>l, NoDeletion
<1>17. NothingLost'
  <2>1. \A f \in File : owed[f] # 0 /\ here[f] = owed[f] => here'[f] = owed[f]
    BY <1>h
  <2>2. \A k \in Kind, o \in Op : here'[Backup(k, o)] = here[Backup(k, o)]
    BY <1>h
  <2>3. QED BY <1>1, <1>p, <2>1, <2>2, StillFound DEF FilesInv
<1>18. QED BY <1>2, <1>3, <1>4, <1>5, <1>6, <1>7, <1>8, <1>9, <1>10, <1>11,
        <1>12, <1>13, <1>14, <1>15, <1>16, <1>17 DEF FilesInv

(* Something fails before the report is recorded.                          *)
LEMMA FailsKeeps ==
    ASSUME FilesInv, Fails, UNCHANGED <<pending, del>>
    PROVE  FilesInv'
<1>1. UNCHANGED <<runs, born, running, rows, receipts, here, aside, manifest,
                 owners, maintenance, up, rec, waiting, ops, crashes,
                 detached, attached, owed, doubted, overtaken, pending, del>>
  BY DEF Fails, NoOther, db, disk, start, counts, wish, files
<1>p. PlainOps /\ PlainFiles /\ PlainExport /\ PlainManifests
  BY Plain
<1>2. TypeOK' /\ Flags' /\ Manifests' /\ DeleteForm' /\ RecoveryForm' /\
        PendingForm' /\ Unused' /\ Named' /\ NamedOutside' /\ Receipts' /\
        RowsOwed' /\ RawFiles' /\ RunOfRow' /\ Unshown' /\ OldRows' /\
        GoneRows' /\ Deleting' /\ Purging' /\ Recovering' /\ NothingLost'
  BY <1>1, Frames DEF db, counts
<1>w. Places
  BY AtWork DEF Fails
<1>e. /\ ExportForm' /\ exp'.at = "rollback" /\ SamePlaces
      /\ exp.at \in {"announce", "backup", "install", "mark", "record"}
      /\ exp'.prev = exp.prev /\ exp'.row = exp.row /\ faults' \in {faults, faults + 1}
      /\ S' = S /\ B' = B /\ D' = D /\ New' = New
  <2>1. /\ Goes("rollback") /\ exp.at \in {"announce", "backup", "install", "mark", "record"}
        /\ faults' \in {faults, faults + 1}
    BY DEF Fails, Faulty
  <2>2. /\ ExportForm' /\ exp'.at = "rollback" /\ SamePlaces
        /\ exp'.prev = exp.prev /\ exp'.row = exp.row
    BY <2>1, ExportGoes DEF FilesInv, ExportAt, SamePlaces
  <2>3. QED BY <2>1, <2>2, SamePlace
<1>n. owed[D] # New /\ here[B] \in {0, exp.prev}
  <2>1. CASE exp.at \in {"announce", "backup", "install"}
    <3>1. owed[D] <= exp.op /\ owed[D] \in Nat /\ exp.op \in Nat
      BY <1>w, <1>p, <2>1 DEF FilesInv, FreshFiles, Limit, Early, Places, PlainFiles, PlainOps
    <3>2. here[B] \in {0, exp.prev}
      BY <2>1 DEF FilesInv, FilesAtWork
    <3>3. QED BY <1>w, <3>1, <3>2 DEF Places
  <2>2. CASE exp.at \in {"mark", "record"}
    BY <2>2 DEF FilesInv, FilesAtWork
  <2>3. QED BY <1>e, <2>1, <2>2
<1>3. Numbers'
  BY <1>1, <1>e DEF FilesInv, Numbers
<1>4. ExportForm'
  BY <1>e
<1>5. Leases'
  <2>1. exp.at \in Leased
    BY <1>e DEF Leased
  <2>2. QED BY <1>1, <1>e, <2>1 DEF FilesInv, Leases, Leased
<1>6. FreshOps'
  BY <1>1, <1>e DEF FilesInv, FreshOps, SamePlaces
<1>7. FreshFiles'
  <2>1. Limit \in Nat /\ Limit' \in Nat /\ Limit' >= Limit
    BY <1>1, <1>e, <1>w, <1>p DEF Limit, Early, SamePlaces, Places, PlainOps, NewContent
  <2>2. QED BY <1>1, <1>p, <2>1, LimitGrows DEF FilesInv
<1>8. FreshHidden'
  BY <1>1, <1>e DEF FilesInv, FreshHidden, SamePlaces
<1>9. ManifestAtWork'
  BY <1>1, <1>e, <1>w DEF FilesInv, ManifestAtWork, SamePlaces, Places
<1>10. FilesAtWork'
  BY <1>1, <1>e, <1>n, <1>w DEF FilesInv, FilesAtWork, SamePlaces, Places
<1>11. RowAtWork'
  BY <1>1, <1>e, <1>w DEF FilesInv, RowAtWork, SamePlaces, Places, Leased
<1>12. QED BY <1>2, <1>3, <1>4, <1>5, <1>6, <1>7, <1>8, <1>9, <1>10, <1>11 DEF
        FilesInv

(* The report is recorded, and from now on owed ...                        *)
LEMMA RecordKeeps ==
    ASSUME FilesInv, Record, UNCHANGED <<pending, del>>
    PROVE  FilesInv'
<1>1. UNCHANGED <<runs, born, running, here, aside, manifest, owners,
                 maintenance, up, rec, waiting, ops, faults, crashes,
                 detached, attached, overtaken, pending, del>>
  BY DEF Record, NoOther, db, disk, start, counts, wish, files
<1>p. PlainOps /\ PlainFiles /\ PlainExport /\ PlainManifests
  BY Plain
<1>2. Numbers' /\ Flags' /\ Manifests' /\ DeleteForm' /\ RecoveryForm' /\
        PendingForm' /\ Unused' /\ Named' /\ NamedOutside' /\ Recovering'
  BY <1>1, Frames DEF db, counts
<1>w. Places
  BY AtWork DEF Record
<1>e. /\ ExportForm' /\ exp'.at = "confirm" /\ exp.at = "record" /\ SamePlaces
      /\ exp'.prev = exp.prev /\ exp'.row = exp.row
      /\ S' = S /\ B' = B /\ D' = D /\ New' = New
  <2>1. Goes("confirm") /\ exp.at = "record"
    BY DEF Record
  <2>2. /\ ExportForm' /\ exp'.at = "confirm" /\ SamePlaces
        /\ exp'.prev = exp.prev /\ exp'.row = exp.row
    BY <2>1, ExportGoes DEF FilesInv, ExportAt, SamePlaces
  <2>3. QED BY <2>1, <2>2, SamePlace
<1>l. /\ maintenance = "export" /\ del.at = "idle" /\ rec.at = "none"
      /\ rec.op = 0 => rec.todo = {}
  <2>1. exp.at \in Leased
    BY <1>e DEF Leased
  <2>2. QED BY <2>1, HoldsLease DEF FilesInv, Recovering
<1>h. /\ owed' \in [File -> Nat] /\ owed'[D] = New /\ \A f \in File : f # D => owed'[f] = owed[f]
      /\ doubted' = doubted \ {D}
      /\ rows' \in [File -> RowForm] /\ \A f \in File : f # D => rows'[f] = rows[f]
      /\ exp.run \in runs
      /\ exp.kind = "export" => /\ rows'[D] = [run |-> exp.run, content |-> New]
                                /\ rows'[D].run = exp.run /\ rows'[D].content = New
                                /\ rows'[D] # NoRow /\ receipts' = receipts
      /\ exp.kind # "export" => rows'[D] = rows[D] /\ receipts' = receipts \cup {exp.op}
      /\ here[D] = New /\ here[S] = 0 /\ here[B] \in {0, exp.prev} /\ owed[D] # New
      /\ New \in Nat
  <2>1. Recorded /\ owed' = [owed EXCEPT ![D] = New] /\ doubted' = doubted \ {D}
    BY DEF Record, Faulty
  <2>2. exp.run \in runs /\ exp.run \in Run /\ New \in Nat /\ New # 0 /\ D \in File
    <3>1. exp.run \in runs
      BY <2>1 DEF Recorded, Recordable
    <3>2. exp.run \in Run /\ D \in File
      BY <1>p, <1>w DEF PlainExport, Places
    <3>3. New \in Nat /\ New # 0
      BY <1>w, Operations DEF Places
    <3>4. QED BY <3>1, <3>2, <3>3
  <2>3. owed' \in [File -> Nat] /\ owed'[D] = New /\ \A f \in File : f # D => owed'[f] = owed[f]
    BY <1>p, <2>1, <2>2 DEF PlainFiles
  <2>4. [run |-> exp.run, content |-> New] \in RowForm
    BY <2>2 DEF RowForm
  <2>5. [run |-> exp.run, content |-> New] # NoRow
    BY <2>2, FilesAssumption DEF NoRow
  <2>6. CASE exp.kind = "export"
    <3>1. rows' = [rows EXCEPT ![D] = [run |-> exp.run, content |-> New]] /\ receipts' = receipts
      BY <2>1, <2>6 DEF Recorded
    <3>2. /\ rows' \in [File -> RowForm] /\ \A f \in File : f # D => rows'[f] = rows[f]
          /\ rows'[D] = [run |-> exp.run, content |-> New]
      BY <1>p, <2>2, <2>4, <3>1 DEF PlainFiles
    <3>3. rows'[D].run = exp.run /\ rows'[D].content = New
      BY <3>2
    <3>4. here[D] = New /\ here[S] = 0 /\ here[B] \in {0, exp.prev} /\ owed[D] # New
      BY <1>e DEF FilesInv, FilesAtWork
    <3>5. QED BY <2>1, <2>2, <2>3, <2>5, <2>6, <3>1, <3>2, <3>3, <3>4
  <2>7. CASE exp.kind # "export"
    <3>1. rows' = rows /\ receipts' = receipts \cup {exp.op}
      BY <2>1, <2>7 DEF Recorded
    <3>2. here[D] = New /\ here[S] = 0 /\ here[B] \in {0, exp.prev} /\ owed[D] # New
      BY <1>e DEF FilesInv, FilesAtWork
    <3>3. QED BY <1>p, <2>1, <2>2, <2>3, <2>7, <3>1, <3>2 DEF PlainFiles
  <2>8. QED BY <2>6, <2>7
<1>m. /\ manifest[exp.op].kind = exp.kind /\ manifest[exp.op].dest = D
      /\ manifest[exp.op].run = exp.run
      /\ \A o \in Op : manifest[o].kind \in Kind =>
            o <= exp.op /\ NewContent(o) <= New /\ (NewContent(o) = New => o = exp.op)
            /\ manifest[o].prev < New
  <2>1. /\ manifest[exp.op].kind = exp.kind /\ manifest[exp.op].dest = D
        /\ manifest[exp.op].run = exp.run
    BY <1>e DEF FilesInv, ManifestAtWork, D
  <2>2. ASSUME NEW o \in Op, manifest[o].kind \in Kind
        PROVE  o <= exp.op /\ NewContent(o) <= New /\ (NewContent(o) = New => o = exp.op)
               /\ manifest[o].prev < New
    <3>1. o <= exp.op /\ manifest[o].prev < NewContent(o) /\ manifest[o].prev \in Nat
      BY <1>e, <1>p, <2>2 DEF FilesInv, FreshOps, FreshHidden, PlainManifests
    <3>2. NewContent(o) = o + 1 /\ New = exp.op + 1 /\ o \in Nat /\ exp.op \in Nat
      BY <1>w, Operations DEF Places
    <3>3. QED BY <3>1, <3>2
  <2>3. QED BY <2>1, <2>2
<1>3. TypeOK'
  <2>1. receipts' \subseteq Op
    BY <1>h, <1>p, <1>w DEF PlainOps, Places
  <2>2. doubted' \subseteq File
    BY <1>h, <1>w DEF FilesInv, TypeOK, Places
  <2>3. rows' \in [File -> [run : Run \cup {None}, content : Nat]]
    BY <1>h DEF RowForm
  <2>4. QED BY <1>1, <1>h, <2>1, <2>2, <2>3 DEF FilesInv, TypeOK
<1>4. ExportForm'
  BY <1>e
<1>5. Leases'
  BY <1>1, <1>e DEF FilesInv, Leases, Leased
<1>6. FreshOps'
  <2>1. \A o \in receipts' : o <= ops
    BY <1>h, <1>w DEF FilesInv, FreshOps, Places
  <2>2. QED BY <1>1, <1>e, <2>1 DEF FilesInv, FreshOps, SamePlaces
<1>7. FreshFiles'
  <2>1. Limit = New /\ Limit' = New
    BY <1>1, <1>e, <1>w DEF Limit, Early, SamePlaces, Places
  <2>2. ASSUME NEW f \in File
        PROVE  owed'[f] <= New /\ rows'[f].content <= New
    <3>1. owed[f] <= New /\ rows[f].content <= New
      BY <2>1 DEF FilesInv, FreshFiles
    <3>2. CASE f # D
      BY <1>h, <3>1, <3>2
    <3>3. CASE f = D
      BY <1>h, <3>1, <3>3
    <3>4. QED BY <3>2, <3>3
  <2>3. QED BY <1>1, <2>1, <2>2 DEF FilesInv, FreshFiles
<1>8. FreshHidden'
  BY <1>1, <1>e DEF FilesInv, FreshHidden, SamePlaces
<1>9. ManifestAtWork'
  BY <1>1, <1>e, <1>w DEF FilesInv, ManifestAtWork, SamePlaces, Places
<1>10. FilesAtWork'
  BY <1>1, <1>e, <1>h, <1>w DEF FilesInv, FilesAtWork, SamePlaces, Places
<1>11. RowAtWork'
  <2>1. exp.prev # owed'[D]
    BY <1>h, <1>e, <1>w, <1>p DEF FilesInv, FreshHidden, Places, PlainExport, PlainOps
  <2>2. exp.kind = "export" => exp.row.content \in {0, exp.prev}
    BY <1>e DEF FilesInv, RowAtWork, Leased
  <2>3. QED BY <1>1, <1>e, <1>h, <2>1, <2>2 DEF RowAtWork, SamePlaces, Leased
<1>12. Receipts'
  <2>1. ASSUME NEW o \in Op, manifest[o].kind = "external_export"
        PROVE  /\ \A f \in File : owed'[f] = NewContent(o) => o \in receipts'
               /\ o \in receipts' => \/ owed'[manifest[o].dest] = 0
                                    \/ owed'[manifest[o].dest] >= NewContent(o)
    <3>1. manifest[o].dest \in File /\ NewContent(o) <= New /\ NewContent(o) # 0
          /\ (NewContent(o) = New => o = exp.op)
      BY <1>m, <1>p, <2>1, Kinds, Operations DEF PlainManifests
    <3>2. o = exp.op => exp.kind # "export"
      BY <1>m, <2>1
    <3>3. \A f \in File : owed'[f] = NewContent(o) => o \in receipts'
      BY <1>h, <2>1, <3>1, <3>2 DEF FilesInv, Receipts
    <3>4. ASSUME o \in receipts'
          PROVE  owed'[manifest[o].dest] = 0 \/ owed'[manifest[o].dest] >= NewContent(o)
      <4>1. CASE manifest[o].dest = D
        BY <1>h, <3>1, <4>1
      <4>2. CASE manifest[o].dest # D
        <5>1. o \in receipts
          BY <1>h, <1>m, <3>4, <4>2
        <5>2. QED BY <1>h, <2>1, <3>1, <4>2, <5>1 DEF FilesInv, Receipts
      <4>3. QED BY <4>1, <4>2
    <3>5. QED BY <3>3, <3>4
  <2>2. QED BY <1>1, <2>1 DEF Receipts
<1>13. RowsOwed'
  <2>1. ASSUME NEW f \in File, rows'[f] # NoRow
        PROVE  /\ rows'[f].content # 0 /\ rows'[f].run \in runs /\ f \notin Outside
               /\ owed'[f] \in {0, rows'[f].content}
               /\ f \notin doubted' => owed'[f] # 0
    <3>1. CASE f # D
      BY <1>h, <2>1, <3>1 DEF FilesInv, RowsOwed
    <3>2. CASE f = D /\ exp.kind = "export"
      BY <1>h, <1>w, <3>2 DEF Places
    <3>3. CASE f = D /\ exp.kind # "export"
      BY <1>h, <1>w, <2>1, <3>3 DEF FilesInv, RowsOwed, Places
    <3>4. QED BY <3>1, <3>2, <3>3
  <2>2. QED BY <1>1, <2>1 DEF RowsOwed
<1>14. RawFiles'
  <2>1. \A f \in Raw : f # D /\ f \in File
    BY <1>w, Sorts DEF Places
  <2>2. QED BY <1>1, <1>h, <2>1 DEF FilesInv, RawFiles
<1>15. RunOfRow'
  <2>1. ASSUME NEW o \in Op, manifest[o].kind = "export",
               rows'[manifest[o].dest].content = NewContent(o)
        PROVE  rows'[manifest[o].dest].run = manifest[o].run
    <3>1. manifest[o].dest \in File /\ manifest[o].kind \in Kind /\ manifest[o].dest \in Report
      BY <1>p, <2>1, Kinds DEF PlainManifests
    <3>2. CASE manifest[o].dest # D
      BY <1>h, <2>1, <3>1, <3>2 DEF FilesInv, RunOfRow
    <3>3. CASE manifest[o].dest = D
      <4>1. exp.kind = "export"
        BY <1>w, <3>1, <3>3 DEF Places
      <4>2. o = exp.op
        BY <1>h, <1>m, <2>1, <3>1, <3>3, <4>1
      <4>3. QED BY <1>h, <1>m, <3>3, <4>1, <4>2
    <3>4. QED BY <3>2, <3>3
  <2>2. QED BY <1>1, <2>1 DEF RunOfRow
<1>16. Unshown'
  <2>1. \A f \in Report : f \in File /\ (f = D => exp.kind = "export")
    BY <1>w, Sorts DEF Places
  <2>2. QED BY <1>1, <1>h, <2>1 DEF FilesInv, Unshown
<1>17. OldRows'
  <2>1. \A o \in Op : manifest[o].kind = "export" =>
            manifest[o].prev # owed'[D] \/ manifest[o].prev = 0
    BY <1>h, <1>m, <1>p, Kinds DEF PlainManifests
  <2>2. \A o \in Op : manifest[o].kind = "export" => manifest[o].dest \in File
    BY <1>p, Kinds DEF PlainManifests
  <2>3. QED BY <1>1, <1>h, <2>1, <2>2 DEF FilesInv, OldRows
<1>18. GoneRows'
  <2>1. ASSUME NEW o \in Op, manifest[o].kind = "delete",
               NEW q \in DOMAIN manifest[o].files, manifest[o].files[q].registered,
               rows'[q] = NoRow
        PROVE  owed'[q] = 0 \/ aside[o][q] # owed'[q]
    <3>1. q \in File \ Outside
      BY <2>1, ManifestKinds DEF FilesInv, IsSnapshot
    <3>2. q # D
      BY <1>h, <1>w, <2>1, <3>1 DEF Places
    <3>3. QED BY <1>h, <2>1, <3>1, <3>2 DEF FilesInv, GoneRows
  <2>2. QED BY <1>1, <2>1 DEF GoneRows
<1>19. Deleting'
  BY <1>1, <1>l, NoDeletion
<1>20. Purging'
  BY <1>1, <1>l, NoDeletion
<1>21. NothingLost'
  <2>1. \A f \in File : owed'[f] # 0 => owed'[f] = owed[f] \/ here[f] = owed'[f]
    BY <1>h
  <2>2. QED BY <1>1, <2>1 DEF FilesInv, NothingLost, Found
<1>22. QED BY <1>2, <1>3, <1>4, <1>5, <1>6, <1>7, <1>8, <1>9, <1>10, <1>11,
        <1>12, <1>13, <1>14, <1>15, <1>16, <1>17, <1>18, <1>19, <1>20, <1>21
        DEF FilesInv

(* ... or recorded with an answer that is lost.                            *)
LEMMA RecordInDoubtKeeps ==
    ASSUME FilesInv, RecordInDoubt, UNCHANGED <<pending, del>>
    PROVE  FilesInv'
<1>1. UNCHANGED <<runs, born, running, here, aside, manifest, owners,
                 maintenance, up, rec, waiting, ops, crashes, detached,
                 attached, overtaken, pending, del>>
  BY DEF RecordInDoubt, NoOther, db, disk, start, counts, wish, files
<1>p. PlainOps /\ PlainFiles /\ PlainExport /\ PlainManifests
  BY Plain
<1>2. Flags' /\ Manifests' /\ DeleteForm' /\ RecoveryForm' /\ PendingForm' /\
        Unused' /\ Named' /\ NamedOutside' /\ Recovering'
  BY <1>1, Frames DEF db, counts
<1>w. Places
  BY AtWork DEF RecordInDoubt
<1>e. /\ ExportForm' /\ exp'.at = "rollback" /\ exp.at = "record" /\ SamePlaces
      /\ exp'.prev = exp.prev /\ exp'.row = exp.row
      /\ S' = S /\ B' = B /\ D' = D /\ New' = New
  <2>1. Goes("rollback") /\ exp.at = "record"
    BY DEF RecordInDoubt
  <2>2. /\ ExportForm' /\ exp'.at = "rollback" /\ SamePlaces
        /\ exp'.prev = exp.prev /\ exp'.row = exp.row
    BY <2>1, ExportGoes DEF FilesInv, ExportAt, SamePlaces
  <2>3. QED BY <2>1, <2>2, SamePlace
<1>l. /\ maintenance = "export" /\ del.at = "idle" /\ rec.at = "none"
      /\ rec.op = 0 => rec.todo = {}
  <2>1. exp.at \in Leased
    BY <1>e DEF Leased
  <2>2. QED BY <2>1, HoldsLease DEF FilesInv, Recovering
<1>h. /\ owed' \in [File -> Nat] /\ owed'[D] = 0 /\ \A f \in File : f # D => owed'[f] = owed[f]
      /\ doubted' = doubted \cup {D}
      /\ rows' \in [File -> RowForm] /\ \A f \in File : f # D => rows'[f] = rows[f]
      /\ exp.run \in runs
      /\ exp.kind = "export" => /\ rows'[D] = [run |-> exp.run, content |-> New]
                                /\ rows'[D].run = exp.run /\ rows'[D].content = New
                                /\ rows'[D] # NoRow /\ receipts' = receipts
      /\ exp.kind # "export" => rows'[D] = rows[D] /\ receipts' = receipts \cup {exp.op}
      /\ here[D] = New /\ here[S] = 0 /\ here[B] \in {0, exp.prev} /\ owed[D] # New
      /\ New \in Nat
      /\ faults' = faults + 1
  <2>1. /\ Recorded /\ owed' = [owed EXCEPT ![D] = 0]
        /\ doubted' = doubted \cup {D} /\ faults' = faults + 1
    BY DEF RecordInDoubt, Faulty
  <2>2. exp.run \in runs /\ exp.run \in Run /\ New \in Nat /\ New # 0 /\ D \in File
    <3>1. exp.run \in runs
      BY <2>1 DEF Recorded, Recordable
    <3>2. exp.run \in Run /\ D \in File
      BY <1>p, <1>w DEF PlainExport, Places
    <3>3. New \in Nat /\ New # 0
      BY <1>w, Operations DEF Places
    <3>4. QED BY <3>1, <3>2, <3>3
  <2>3. owed' \in [File -> Nat] /\ owed'[D] = 0 /\ \A f \in File : f # D => owed'[f] = owed[f]
    BY <1>p, <2>1, <2>2 DEF PlainFiles
  <2>4. [run |-> exp.run, content |-> New] \in RowForm
    BY <2>2 DEF RowForm
  <2>5. [run |-> exp.run, content |-> New] # NoRow
    BY <2>2, FilesAssumption DEF NoRow
  <2>6. CASE exp.kind = "export"
    <3>1. rows' = [rows EXCEPT ![D] = [run |-> exp.run, content |-> New]] /\ receipts' = receipts
      BY <2>1, <2>6 DEF Recorded
    <3>2. /\ rows' \in [File -> RowForm] /\ \A f \in File : f # D => rows'[f] = rows[f]
          /\ rows'[D] = [run |-> exp.run, content |-> New]
      BY <1>p, <2>2, <2>4, <3>1 DEF PlainFiles
    <3>3. rows'[D].run = exp.run /\ rows'[D].content = New
      BY <3>2
    <3>4. here[D] = New /\ here[S] = 0 /\ here[B] \in {0, exp.prev} /\ owed[D] # New
      BY <1>e DEF FilesInv, FilesAtWork
    <3>5. QED BY <2>1, <2>2, <2>3, <2>5, <2>6, <3>1, <3>2, <3>3, <3>4
  <2>7. CASE exp.kind # "export"
    <3>1. rows' = rows /\ receipts' = receipts \cup {exp.op}
      BY <2>1, <2>7 DEF Recorded
    <3>2. here[D] = New /\ here[S] = 0 /\ here[B] \in {0, exp.prev} /\ owed[D] # New
      BY <1>e DEF FilesInv, FilesAtWork
    <3>3. QED BY <1>p, <2>1, <2>2, <2>3, <2>7, <3>1, <3>2 DEF PlainFiles
  <2>8. QED BY <2>6, <2>7
<1>m. /\ manifest[exp.op].kind = exp.kind /\ manifest[exp.op].dest = D
      /\ manifest[exp.op].run = exp.run
      /\ \A o \in Op : manifest[o].kind \in Kind =>
            o <= exp.op /\ NewContent(o) <= New /\ (NewContent(o) = New => o = exp.op)
            /\ manifest[o].prev < New
  <2>1. /\ manifest[exp.op].kind = exp.kind /\ manifest[exp.op].dest = D
        /\ manifest[exp.op].run = exp.run
    BY <1>e DEF FilesInv, ManifestAtWork, D
  <2>2. ASSUME NEW o \in Op, manifest[o].kind \in Kind
        PROVE  o <= exp.op /\ NewContent(o) <= New /\ (NewContent(o) = New => o = exp.op)
               /\ manifest[o].prev < New
    <3>1. o <= exp.op /\ manifest[o].prev < NewContent(o) /\ manifest[o].prev \in Nat
      BY <1>e, <1>p, <2>2 DEF FilesInv, FreshOps, FreshHidden, PlainManifests
    <3>2. NewContent(o) = o + 1 /\ New = exp.op + 1 /\ o \in Nat /\ exp.op \in Nat
      BY <1>w, Operations DEF Places
    <3>3. QED BY <3>1, <3>2
  <2>3. QED BY <2>1, <2>2
<1>3. TypeOK'
  <2>1. receipts' \subseteq Op
    BY <1>h, <1>p, <1>w DEF PlainOps, Places
  <2>2. doubted' \subseteq File
    BY <1>h, <1>w DEF FilesInv, TypeOK, Places
  <2>3. rows' \in [File -> [run : Run \cup {None}, content : Nat]]
    BY <1>h DEF RowForm
  <2>4. QED BY <1>1, <1>h, <2>1, <2>2, <2>3 DEF FilesInv, TypeOK
<1>4. Numbers'
  BY <1>1, <1>h DEF FilesInv, Numbers
<1>5. ExportForm'
  BY <1>e
<1>6. Leases'
  BY <1>1, <1>e DEF FilesInv, Leases, Leased
<1>7. FreshOps'
  <2>1. \A o \in receipts' : o <= ops
    BY <1>h, <1>w DEF FilesInv, FreshOps, Places
  <2>2. QED BY <1>1, <1>e, <2>1 DEF FilesInv, FreshOps, SamePlaces
<1>8. FreshFiles'
  <2>1. Limit = New /\ Limit' = New
    BY <1>1, <1>e, <1>w DEF Limit, Early, SamePlaces, Places
  <2>2. ASSUME NEW f \in File
        PROVE  owed'[f] <= New /\ rows'[f].content <= New
    <3>1. owed[f] <= New /\ rows[f].content <= New
      BY <2>1 DEF FilesInv, FreshFiles
    <3>2. CASE f # D
      BY <1>h, <3>1, <3>2
    <3>3. CASE f = D
      BY <1>h, <3>1, <3>3
    <3>4. QED BY <3>2, <3>3
  <2>3. QED BY <1>1, <2>1, <2>2 DEF FilesInv, FreshFiles
<1>9. FreshHidden'
  BY <1>1, <1>e DEF FilesInv, FreshHidden, SamePlaces
<1>10. ManifestAtWork'
  BY <1>1, <1>e, <1>w DEF FilesInv, ManifestAtWork, SamePlaces, Places
<1>11. FilesAtWork'
  BY <1>1, <1>e, <1>h, <1>w DEF FilesInv, FilesAtWork, SamePlaces, Places
<1>12. RowAtWork'
  <2>1. exp.kind = "export" => exp.row.content \in {0, exp.prev}
    BY <1>e DEF FilesInv, RowAtWork, Leased
  <2>2. QED BY <1>1, <1>e, <1>h, <2>1 DEF RowAtWork, SamePlaces, Leased
<1>13. Receipts'
  <2>1. ASSUME NEW o \in Op, manifest[o].kind = "external_export"
        PROVE  /\ \A f \in File : owed'[f] = NewContent(o) => o \in receipts'
               /\ o \in receipts' => \/ owed'[manifest[o].dest] = 0
                                    \/ owed'[manifest[o].dest] >= NewContent(o)
    <3>1. manifest[o].dest \in File /\ NewContent(o) <= New /\ NewContent(o) # 0
          /\ (NewContent(o) = New => o = exp.op)
      BY <1>m, <1>p, <2>1, Kinds, Operations DEF PlainManifests
    <3>2. o = exp.op => exp.kind # "export"
      BY <1>m, <2>1
    <3>3. \A f \in File : owed'[f] = NewContent(o) => o \in receipts'
      BY <1>h, <2>1, <3>1, <3>2 DEF FilesInv, Receipts
    <3>4. ASSUME o \in receipts'
          PROVE  owed'[manifest[o].dest] = 0 \/ owed'[manifest[o].dest] >= NewContent(o)
      <4>1. CASE manifest[o].dest = D
        BY <1>h, <3>1, <4>1
      <4>2. CASE manifest[o].dest # D
        <5>1. o \in receipts
          BY <1>h, <1>m, <3>4, <4>2
        <5>2. QED BY <1>h, <2>1, <3>1, <4>2, <5>1 DEF FilesInv, Receipts
      <4>3. QED BY <4>1, <4>2
    <3>5. QED BY <3>3, <3>4
  <2>2. QED BY <1>1, <2>1 DEF Receipts
<1>14. RowsOwed'
  <2>1. ASSUME NEW f \in File, rows'[f] # NoRow
        PROVE  /\ rows'[f].content # 0 /\ rows'[f].run \in runs /\ f \notin Outside
               /\ owed'[f] \in {0, rows'[f].content}
               /\ f \notin doubted' => owed'[f] # 0
    <3>1. CASE f # D
      BY <1>h, <2>1, <3>1 DEF FilesInv, RowsOwed
    <3>2. CASE f = D /\ exp.kind = "export"
      BY <1>h, <1>w, <3>2 DEF Places
    <3>3. CASE f = D /\ exp.kind # "export"
      BY <1>h, <1>w, <2>1, <3>3 DEF FilesInv, RowsOwed, Places
    <3>4. QED BY <3>1, <3>2, <3>3
  <2>2. QED BY <1>1, <2>1 DEF RowsOwed
<1>15. RawFiles'
  <2>1. \A f \in Raw : f # D /\ f \in File
    BY <1>w, Sorts DEF Places
  <2>2. QED BY <1>1, <1>h, <2>1 DEF FilesInv, RawFiles
<1>16. RunOfRow'
  <2>1. ASSUME NEW o \in Op, manifest[o].kind = "export",
               rows'[manifest[o].dest].content = NewContent(o)
        PROVE  rows'[manifest[o].dest].run = manifest[o].run
    <3>1. manifest[o].dest \in File /\ manifest[o].kind \in Kind /\ manifest[o].dest \in Report
      BY <1>p, <2>1, Kinds DEF PlainManifests
    <3>2. CASE manifest[o].dest # D
      BY <1>h, <2>1, <3>1, <3>2 DEF FilesInv, RunOfRow
    <3>3. CASE manifest[o].dest = D
      <4>1. exp.kind = "export"
        BY <1>w, <3>1, <3>3 DEF Places
      <4>2. o = exp.op
        BY <1>h, <1>m, <2>1, <3>1, <3>3, <4>1
      <4>3. QED BY <1>h, <1>m, <3>3, <4>1, <4>2
    <3>4. QED BY <3>2, <3>3
  <2>2. QED BY <1>1, <2>1 DEF RunOfRow
<1>17. Unshown'
  <2>1. \A f \in Report : f \in File /\ (f = D => exp.kind = "export")
    BY <1>w, Sorts DEF Places
  <2>2. QED BY <1>1, <1>h, <2>1 DEF FilesInv, Unshown
<1>18. OldRows'
  <2>1. \A o \in Op : manifest[o].kind = "export" =>
            manifest[o].prev # owed'[D] \/ manifest[o].prev = 0
    BY <1>h, <1>m, <1>p, Kinds DEF PlainManifests
  <2>2. \A o \in Op : manifest[o].kind = "export" => manifest[o].dest \in File
    BY <1>p, Kinds DEF PlainManifests
  <2>3. QED BY <1>1, <1>h, <2>1, <2>2 DEF FilesInv, OldRows
<1>19. GoneRows'
  <2>1. ASSUME NEW o \in Op, manifest[o].kind = "delete",
               NEW q \in DOMAIN manifest[o].files, manifest[o].files[q].registered,
               rows'[q] = NoRow
        PROVE  owed'[q] = 0 \/ aside[o][q] # owed'[q]
    <3>1. q \in File \ Outside
      BY <2>1, ManifestKinds DEF FilesInv, IsSnapshot
    <3>2. q # D
      BY <1>h, <1>w, <2>1, <3>1 DEF Places
    <3>3. QED BY <1>h, <2>1, <3>1, <3>2 DEF FilesInv, GoneRows
  <2>2. QED BY <1>1, <2>1 DEF GoneRows
<1>20. Deleting'
  BY <1>1, <1>l, NoDeletion
<1>21. Purging'
  BY <1>1, <1>l, NoDeletion
<1>22. NothingLost'
  <2>1. \A f \in File : owed'[f] # 0 => owed'[f] = owed[f] \/ here[f] = owed'[f]
    BY <1>h
  <2>2. QED BY <1>1, <2>1 DEF FilesInv, NothingLost, Found
<1>23. QED BY <1>2, <1>3, <1>4, <1>5, <1>6, <1>7, <1>8, <1>9, <1>10, <1>11,
        <1>12, <1>13, <1>14, <1>15, <1>16, <1>17, <1>18, <1>19, <1>20, <1>21,
        <1>22 DEF FilesInv

(* An export is over; its manifest may be left to the start.               *)
LEMMA ExportEndsKeeps ==
    ASSUME FilesInv, exp.at # "idle", Ends,
           owners' \subseteq owners, receipts' \subseteq receipts,
           \A o \in Op : manifest[o] # NoManifest => (o \in receipts' <=> o \in receipts),
           faults' \in {faults, faults + 1}, maintenance' \in {maintenance, "free"},
           maintenance # "export" => maintenance' = maintenance,
           UNCHANGED <<runs, born, running, rows, here, aside, manifest, up, rec, waiting,
                      ops, crashes, detached, attached, owed, doubted,
                      overtaken, pending, del>>
    PROVE  FilesInv'
<1>1. UNCHANGED <<runs, born, running, rows, here, aside, manifest, up, rec,
                 waiting, ops, crashes, detached, attached, owed, doubted,
                 overtaken, pending, del>>
  BY DEF Ends, db, disk, start, counts, wish, files
<1>p. PlainOps /\ PlainFiles /\ PlainExport /\ PlainManifests
  BY Plain
<1>2. Flags' /\ Manifests' /\ DeleteForm' /\ RecoveryForm' /\ PendingForm' /\
        Unused' /\ Named' /\ NamedOutside' /\ RowsOwed' /\ RawFiles' /\
        RunOfRow' /\ Unshown' /\ OldRows' /\ GoneRows' /\ Deleting' /\
        Purging' /\ Recovering' /\ NothingLost'
  BY <1>1, Frames DEF db, counts
<1>w. Places
  BY AtWork
<1>e. ExportForm' /\ exp'.at = "idle" /\ exp'.op = 0 /\ exp'.kind = "export"
  BY ExportEnds
<1>3. TypeOK'
  <2>1. /\ owners' \subseteq Op /\ receipts' \subseteq Op
        /\ maintenance' \in {"free", "delete", "export", "recovery"}
    BY DEF FilesInv, TypeOK
  <2>2. QED BY <1>1, <2>1 DEF FilesInv, TypeOK
<1>4. Numbers'
  BY <1>1, <1>e, <1>p, Operations, Kinds DEF FilesInv, Numbers, PlainOps,
     PlainFiles, PlainExport, PlainManifests
<1>5. ExportForm'
  BY <1>e
<1>6. Leases'
  BY <1>1, <1>e DEF FilesInv, Leases, Leased
<1>7. FreshOps'
  BY <1>1, <1>e, <1>p, Operations DEF FilesInv, FreshOps, PlainOps
<1>8. FreshFiles'
  <2>1. Limit \in Nat /\ Limit' \in Nat /\ Limit' >= Limit
    BY <1>1, <1>e, <1>w, <1>p DEF Limit, Early, Places, PlainOps, NewContent
  <2>2. QED BY <1>1, <1>p, <2>1, LimitGrows DEF FilesInv
<1>9. FreshHidden'
  BY <1>1, <1>e DEF FilesInv, FreshHidden
<1>10. ManifestAtWork'
  BY <1>e DEF ManifestAtWork
<1>11. FilesAtWork'
  BY <1>e DEF FilesAtWork
<1>12. RowAtWork'
  BY <1>e DEF RowAtWork, Leased
<1>13. Receipts'
  BY <1>1, Kinds DEF FilesInv, Receipts
<1>14. QED BY <1>2, <1>3, <1>4, <1>5, <1>6, <1>7, <1>8, <1>9, <1>10, <1>11,
        <1>12, <1>13 DEF FilesInv

(* A hidden file is removed that holds nothing owed.                       *)
LEMMA HiddenGoesKeeps ==
    ASSUME FilesInv, NEW k \in Kind, NEW o \in Op, NEW p \in {Staged(k, o), Backup(k, o)},
           Unlinked(p),
           p = Backup(k, o) /\ manifest[o].kind = k /\ owed[manifest[o].dest] # 0 =>
               here[p] # owed[manifest[o].dest],
           exp.at # "idle" /\ p = S => exp.at \in {"discard", "rollback"},
           exp.at # "idle" /\ p = B => exp.at = "clean",
           UNCHANGED <<runs, born, running, rows, receipts, aside, manifest, owners,
                      maintenance, up, rec, waiting, ops, faults, crashes,
                      detached, attached, owed, doubted, overtaken, pending,
                      del, exp>>
    PROVE  FilesInv'
<1>1. UNCHANGED <<runs, born, running, rows, receipts, aside, manifest,
                 owners, maintenance, up, rec, waiting, ops, faults, crashes,
                 detached, attached, owed, doubted, overtaken, pending, del,
                 exp>>
  BY DEF Unlinked, db, disk, start, counts, wish, files
<1>p. PlainOps /\ PlainFiles /\ PlainExport /\ PlainManifests
  BY Plain
<1>2. Numbers' /\ Flags' /\ Manifests' /\ ExportForm' /\ DeleteForm' /\
        RecoveryForm' /\ PendingForm' /\ Leases' /\ FreshOps' /\ Named' /\
        ManifestAtWork' /\ RowAtWork' /\ Receipts' /\ RowsOwed' /\ RunOfRow'
        /\ OldRows' /\ GoneRows' /\ Purging' /\ Recovering'
  BY <1>1, Frames DEF db, counts
<1>e. /\ here' \in [Path -> Nat] /\ here'[p] = 0 /\ p \in Path \ File
      /\ \A q \in Path : q # p => here'[q] = here[q]
      /\ \A q \in Path : here'[q] \in {0, here[q]}
      /\ \A f \in File : here'[f] = here[f]
  <2>1. p \in Path \ File
    BY HiddenApart
  <2>2. /\ here' \in [Path -> Nat] /\ here'[p] = 0
        /\ \A q \in Path : q # p => here'[q] = here[q]
    BY <1>p, <2>1, UnlinkedFile DEF PlainFiles
  <2>3. QED BY <2>1, <2>2, Sorts
<1>h. FreshHidden' /\ Unused'
  <2>1. \A o1 \in Op, q \in Path : aside'[o1][q] \in {0, aside[o1][q], here[q]}
    BY <1>1
  <2>2. QED BY <1>1, <1>e, <2>1, ShiftsKeep
<1>3. TypeOK'
  BY <1>1, <1>e DEF FilesInv, TypeOK
<1>4. FreshFiles'
  <2>1. Limit' = Limit
    BY <1>1 DEF Limit
  <2>2. QED BY <1>1, <1>e, <2>1 DEF FilesInv, FreshFiles
<1>5. FreshHidden'
  BY <1>h
<1>6. Unused'
  BY <1>h
<1>7. NamedOutside'
  <2>1. \A o1 \in Op : /\ here'[Staged("external_export", o1)] \in
                              {0, here[Staged("external_export", o1)]}
                      /\ here'[Backup("external_export", o1)] \in
                              {0, here[Backup("external_export", o1)]}
    BY <1>e, HiddenApart, Kinds
  <2>2. QED BY <1>1, <2>1 DEF FilesInv, NamedOutside
<1>8. FilesAtWork'
  <2>1. CASE exp.at = "idle"
    BY <1>1, <2>1 DEF FilesAtWork
  <2>2. CASE exp.at # "idle"
    <3>1. Places
      BY <2>2, AtWork
    <3>2. /\ here'[D] = here[D] /\ here'[B] \in {0, here[B]} /\ here'[S] \in {0, here[S]}
          /\ here'[B] # here[B] => exp.at = "clean"
          /\ here'[S] # here[S] => exp.at \in {"discard", "rollback"}
      BY <1>e, <2>2, <3>1 DEF Places
    <3>3. S' = S /\ B' = B /\ D' = D /\ New' = New
      BY <1>1 DEF S, B, D, New
    <3>4. QED BY <1>1, <3>2, <3>3 DEF FilesInv, FilesAtWork
  <2>3. QED BY <2>1, <2>2
<1>9. RawFiles'
  BY <1>1, <1>e, Sorts DEF FilesInv, RawFiles
<1>10. Unshown'
  BY <1>1, <1>e, Sorts DEF FilesInv, Unshown
<1>11. Deleting'
  BY <1>1, <1>e, Sorts DEF FilesInv, Deleting
<1>12. NothingLost'
  <2>1. \A f \in File : owed[f] # 0 /\ here[f] = owed[f] => here'[f] = owed[f]
    BY <1>e
  <2>2. ASSUME NEW o1 \in Op, manifest[o1].kind \in Kind, owed[manifest[o1].dest] # 0,
               here[Backup(manifest[o1].kind, o1)] = owed[manifest[o1].dest]
        PROVE  here'[Backup(manifest[o1].kind, o1)] = owed[manifest[o1].dest]
    <3>1. Backup(manifest[o1].kind, o1) # p
      BY <2>2, HiddenApart
    <3>2. Backup(manifest[o1].kind, o1) \in Path
      BY <2>2, HiddenApart
    <3>3. QED BY <1>e, <2>2, <3>1, <3>2
  <2>3. QED BY <1>1, <1>p, <2>1, <2>2, StillFound DEF FilesInv
<1>13. QED BY <1>2, <1>3, <1>4, <1>5, <1>6, <1>7, <1>8, <1>9, <1>10, <1>11,
        <1>12 DEF FilesInv

(* A manifest is removed that has no file left.                            *)
LEMMA ManifestRemovedKeeps ==
    ASSUME FilesInv, NEW o \in Op, manifest[o].kind \in Kind, Written(o, NoManifest),
           here[Staged(manifest[o].kind, o)] = 0, here[Backup(manifest[o].kind, o)] = 0,
           \A o1 \in Op : aside[o1][Backup(manifest[o].kind, o)] = 0,
           exp.at # "idle" /\ o = exp.op => exp.at \in {"discard", "clean", "rollback"},
           UNCHANGED <<runs, born, running, rows, receipts, here, aside, owners,
                      maintenance, up, rec, waiting, ops, faults, crashes,
                      detached, attached, owed, doubted, overtaken, pending,
                      del, exp>>
    PROVE  FilesInv'
<1>1. UNCHANGED <<runs, born, running, rows, receipts, here, aside, owners,
                 maintenance, up, rec, waiting, ops, faults, crashes,
                 detached, attached, owed, doubted, overtaken, pending, del,
                 exp>>
  BY DEF Written, db, disk, start, counts, wish, files
<1>p. PlainOps /\ PlainFiles /\ PlainExport /\ PlainManifests
  BY Plain
<1>2. Limit' = Limit
  BY <1>1 DEF Limit
<1>3. TypeOK' /\ Numbers' /\ Flags' /\ ExportForm' /\ DeleteForm' /\
        RecoveryForm' /\ PendingForm' /\ Leases' /\ FreshFiles' /\ Unused' /\
        FilesAtWork' /\ RowAtWork' /\ RowsOwed' /\ RawFiles' /\ Unshown'
  BY <1>1, <1>2, Frames DEF db, counts
<1>e. /\ manifest'[o] = NoManifest /\ Manifests'
      /\ \A o1 \in Op : o1 # o => manifest'[o1] = manifest[o1]
      /\ \A o1 \in Op : manifest'[o1].kind # "none" => o1 # o /\ manifest'[o1] = manifest[o1]
  <2>1. /\ manifest'[o] = NoManifest /\ Manifests'
        /\ \A o1 \in Op : o1 # o => manifest'[o1] = manifest[o1]
    BY WrittenManifest, NoManifestForm DEF FilesInv
  <2>2. QED BY <2>1, Kinds
<1>4. Manifests'
  BY <1>e
<1>5. FreshOps'
  BY <1>1, <1>e, <1>p, Operations, Kinds DEF FilesInv, FreshOps, PlainOps,
     PlainFiles, PlainExport, PlainManifests
<1>6. FreshHidden'
  BY <1>1, <1>e, <1>p, Operations, Kinds DEF FilesInv, FreshHidden, PlainOps,
     PlainFiles, PlainExport, PlainManifests
<1>7. Named'
  <2>1. \A o1 \in Op : manifest[o1].kind = "delete" => manifest'[o1] = manifest[o1]
    BY <1>e, Kinds
  <2>2. QED BY <1>1, <2>1 DEF FilesInv, Named
<1>8. NamedOutside'
  BY <1>1, <1>e, Kinds DEF FilesInv, NamedOutside
<1>9. ManifestAtWork'
  <2>1. CASE exp.at # "idle" /\ exp.op = o
    BY <1>1, <1>e, <2>1 DEF ManifestAtWork
  <2>2. CASE exp.at # "idle" /\ exp.op # o
    <3>1. manifest'[exp.op] = manifest[exp.op]
      BY <1>e, <1>p, <2>2 DEF PlainOps
    <3>2. QED BY <1>1, <2>2, <3>1 DEF FilesInv, ManifestAtWork
  <2>3. CASE exp.at = "idle"
    BY <1>1, <2>3 DEF ManifestAtWork
  <2>4. QED BY <2>1, <2>2, <2>3
<1>10. Receipts'
  BY <1>1, <1>e, <1>p, Operations, Kinds DEF FilesInv, Receipts, PlainOps,
     PlainFiles, PlainExport, PlainManifests
<1>11. RunOfRow'
  BY <1>1, <1>e, <1>p, Operations, Kinds DEF FilesInv, RunOfRow, PlainOps,
     PlainFiles, PlainExport, PlainManifests
<1>12. OldRows'
  BY <1>1, <1>e, <1>p, Operations, Kinds DEF FilesInv, OldRows, PlainOps,
     PlainFiles, PlainExport, PlainManifests
<1>13. GoneRows'
  BY <1>1, <1>e, Kinds DEF FilesInv, GoneRows
<1>14. Deleting'
  <2>1. del.at # "idle" => manifest[del.op].kind \in {"none", "delete"} /\ del.op \in Op
    BY <1>p DEF FilesInv, Deleting, PlainOps
  <2>2. del.at # "idle" => manifest'[del.op] = manifest[del.op]
    BY <1>e, <2>1, Kinds
  <2>3. QED BY <1>1, <2>2 DEF FilesInv, Deleting
<1>15. Purging'
  BY <1>1, <1>e, <1>p, Operations, Kinds DEF FilesInv, Purging, PlainOps,
     PlainFiles, PlainExport, PlainManifests
<1>16. Recovering'
  <2>1. \A o1 \in Op : /\ manifest[o1].kind = "delete" => manifest'[o1] = manifest[o1]
                       /\ manifest'[o1].kind = "delete" => manifest[o1].kind = "delete"
    BY <1>e, Kinds
  <2>2. ASSUME rec.at = "deletes", rec.op # 0
        PROVE  manifest'[rec.op] = manifest[rec.op]
    <3>1. rec.op \in Op
      BY <1>p, <2>2 DEF PlainOps
    <3>2. manifest[rec.op].kind = "delete"
      BY <2>2 DEF FilesInv, Recovering
    <3>3. QED BY <2>1, <3>1, <3>2
  <2>3. rec.at = "exports" => \A o1 \in Op : manifest'[o1].kind # "delete"
    BY <2>1 DEF FilesInv, Recovering
  <2>4. QED BY <1>1, <2>2, <2>3 DEF FilesInv, Recovering
<1>17. NothingLost'
  <2>1. manifest[o].kind # "delete"
    BY Kinds
  <2>2. QED BY <1>1, <1>e, <2>1, ManifestGoes DEF FilesInv
<1>18. QED BY <1>2, <1>3, <1>4, <1>5, <1>6, <1>7, <1>8, <1>9, <1>10, <1>11,
        <1>12, <1>13, <1>14, <1>15, <1>16, <1>17 DEF FilesInv

(* An ownership record is removed.                                         *)
LEMMA OwnerGoesKeeps ==
    ASSUME FilesInv, owners' \subseteq owners,
           UNCHANGED <<runs, born, running, rows, receipts, here, aside, manifest,
                      maintenance, up, rec, waiting, ops, faults, crashes,
                      detached, attached, owed, doubted, overtaken, pending,
                      del, exp>>
    PROVE  FilesInv'
<1>1. UNCHANGED <<runs, born, running, rows, receipts, here, aside, manifest,
                 maintenance, up, rec, waiting, ops, faults, crashes,
                 detached, attached, owed, doubted, overtaken, pending, del,
                 exp>>
  BY DEF Written, db, disk, start, counts, wish, files
<1>p. PlainOps /\ PlainFiles /\ PlainExport /\ PlainManifests
  BY Plain
<1>2. Limit' = Limit
  BY <1>1 DEF Limit
<1>3. Numbers' /\ Flags' /\ Manifests' /\ ExportForm' /\ DeleteForm' /\
        RecoveryForm' /\ PendingForm' /\ Leases' /\ FreshOps' /\ FreshFiles'
        /\ FreshHidden' /\ Unused' /\ Named' /\ NamedOutside' /\
        ManifestAtWork' /\ FilesAtWork' /\ RowAtWork' /\ Receipts' /\
        RowsOwed' /\ RawFiles' /\ RunOfRow' /\ Unshown' /\ OldRows' /\
        GoneRows' /\ Deleting' /\ Purging' /\ Recovering' /\ NothingLost'
  BY <1>1, <1>2, Frames DEF db, counts
<1>4. TypeOK'
  BY <1>1 DEF FilesInv, TypeOK
<1>5. QED BY <1>2, <1>3, <1>4 DEF FilesInv

\* what is left of an operation is removed, file by file
LEMMA RemoveNextKeeps ==
    ASSUME FilesInv, NEW o \in Op, NEW k \in Kind,
           NEW ps \in SUBSET {Staged(k, o), Backup(k, o)}, RemoveNext(o, ps),
           manifest[o] # NoManifest => manifest[o].kind = k,
           Backup(k, o) \in ps /\ manifest[o].kind = k /\ owed[manifest[o].dest] # 0 =>
               here[Backup(k, o)] # owed[manifest[o].dest],
           (\A p \in ps : here[p] = 0) /\ manifest[o].kind = k =>
               /\ here[Staged(k, o)] = 0 /\ here[Backup(k, o)] = 0
               /\ \A o1 \in Op : aside[o1][Backup(k, o)] = 0,
           exp.at # "idle" /\ o = exp.op =>
               /\ k = exp.kind /\ exp.at \in {"discard", "clean", "rollback"}
               /\ S \in ps => exp.at \in {"discard", "rollback"}
               /\ B \in ps => exp.at = "clean",
           UNCHANGED <<runs, born, running, rows, receipts, aside, maintenance, up, rec,
                       waiting, ops, faults, crashes, detached, attached, owed, doubted,
                       overtaken, pending, del, exp>>
    PROVE  FilesInv'
<1>1. CASE \E p \in ps : here[p] # 0
  <2>1. PICK p \in ps : here[p] # 0 /\ Unlinked(p) /\ UNCHANGED <<manifest, owners>>
    BY <1>1 DEF RemoveNext
  <2>2. p \in {Staged(k, o), Backup(k, o)}
    OBVIOUS
  <2>3. p = Backup(k, o) /\ manifest[o].kind = k /\ owed[manifest[o].dest] # 0 =>
            here[p] # owed[manifest[o].dest]
    BY <2>1
  <2>4. exp.at # "idle" /\ (p = S \/ p = B) => o = exp.op
    <3>1. exp.at # "idle" => Places
      BY AtWork
    <3>2. QED BY <2>2, <3>1 DEF Places
  <2>5. exp.at # "idle" /\ p = S => exp.at \in {"discard", "rollback"}
    BY <2>1, <2>4
  <2>6. exp.at # "idle" /\ p = B => exp.at = "clean"
    BY <2>1, <2>4
  <2>7. QED BY <2>1, <2>2, <2>3, <2>5, <2>6, HiddenGoesKeeps
<1>2. CASE ~ \E p \in ps : here[p] # 0
  <2>1. \A p \in ps : here[p] = 0
    BY <1>2
  <2>2. CASE manifest[o] # NoManifest /\ Written(o, NoManifest) /\ UNCHANGED <<here, owners>>
    <3>1. /\ manifest[o].kind = k /\ here[Staged(k, o)] = 0 /\ here[Backup(k, o)] = 0
          /\ \A o1 \in Op : aside[o1][Backup(k, o)] = 0
      BY <2>1, <2>2
    <3>2. exp.at # "idle" /\ o = exp.op => exp.at \in {"discard", "clean", "rollback"}
      OBVIOUS
    <3>3. QED BY <2>2, <3>1, <3>2, ManifestRemovedKeeps
  <2>3. CASE owners' \subseteq owners /\ UNCHANGED <<here, manifest>>
    BY <2>3, OwnerGoesKeeps
  <2>4. QED BY <1>2, <2>2, <2>3 DEF RemoveNext
<1>3. QED BY <1>1, <1>2

(* The steps of an export that are one of these.                           *)
LEMMA PrepareKeeps ==
    ASSUME FilesInv, Prepare, UNCHANGED <<pending, del>>
    PROVE  FilesInv'
<1>1. exp.at = "prepare" /\ UNCHANGED <<rows, receipts, here, maintenance, ops, wish>> /\ NoOther
  BY DEF Prepare
<1>2. CASE Written(exp.op, Manifest("PREPARED")) /\ Goes("render") /\ UNCHANGED <<owners, faults>>
  BY <1>1, <1>2, PreparedKeeps DEF NoOther, db, counts
<1>3. CASE owners' = owners \ {exp.op} /\ Ends /\ Faulty /\ UNCHANGED manifest
  <2>1. /\ owners' \subseteq owners /\ receipts' \subseteq receipts
        /\ faults' \in {faults, faults + 1} /\ maintenance' \in {maintenance, "free"}
        /\ maintenance' = maintenance /\ exp.at # "idle"
        /\ \A o \in Op : manifest[o] # NoManifest => (o \in receipts' <=> o \in receipts)
    BY <1>1, <1>3 DEF Faulty
  <2>2. QED BY <1>1, <1>3, <2>1, ExportEndsKeeps DEF NoOther, start, wish
<1>4. QED BY <1>2, <1>3 DEF Prepare

LEMMA AnnounceKeeps ==
    ASSUME FilesInv, Announce, UNCHANGED <<pending, del>>
    PROVE  FilesInv'
<1>1. "backup" \in {"backup", "record", "clean"} /\ "RENDERED" \in Phases \ {"PREPARED"}
  BY DEF Phases
<1>2. /\ exp.at = "announce" /\ Written(exp.op, Manifest("RENDERED")) /\ Goes("backup")
      /\ UNCHANGED <<db, here, aside, owners, maintenance, start, counts, wish>>
  BY DEF Announce, NoOther, db, start, counts, wish
<1>3. "backup" = (IF exp.at = "announce" THEN "backup"
                  ELSE IF exp.at = "mark" THEN "record" ELSE "clean")
  BY <1>2
<1>4. QED BY <1>1, <1>2, <1>3, MarkedKeeps

LEMMA MarkKeeps ==
    ASSUME FilesInv, Mark, UNCHANGED <<pending, del>>
    PROVE  FilesInv'
<1>1. "record" \in {"backup", "record", "clean"} /\ "INSTALLED" \in Phases \ {"PREPARED"}
  BY DEF Phases
<1>2. /\ exp.at = "mark" /\ Written(exp.op, Manifest("INSTALLED")) /\ Goes("record")
      /\ UNCHANGED <<db, here, aside, owners, maintenance, start, counts, wish>>
  BY DEF Mark, NoOther, db, start, counts, wish
<1>3. "record" = (IF exp.at = "announce" THEN "backup"
                  ELSE IF exp.at = "mark" THEN "record" ELSE "clean")
  BY <1>2
<1>4. QED BY <1>1, <1>2, <1>3, MarkedKeeps

LEMMA ConfirmRecordKeeps ==
    ASSUME FilesInv, ConfirmRecord, UNCHANGED <<pending, del>>
    PROVE  FilesInv'
<1>1. "clean" \in {"backup", "record", "clean"} /\ "DB_COMMITTED" \in Phases \ {"PREPARED"}
  BY DEF Phases
<1>2. /\ exp.at = "confirm" /\ Written(exp.op, Manifest("DB_COMMITTED")) /\ Goes("clean")
      /\ UNCHANGED <<db, here, aside, owners, maintenance, start, counts, wish>>
  BY DEF ConfirmRecord, NoOther, db, start, counts, wish
<1>3. "clean" = (IF exp.at = "announce" THEN "backup"
                  ELSE IF exp.at = "mark" THEN "record" ELSE "clean")
  BY <1>2
<1>4. QED BY <1>1, <1>2, <1>3, MarkedKeeps

LEMMA CommitBeginKeeps ==
    ASSUME FilesInv, CommitBegins, UNCHANGED <<pending, del>>
    PROVE  FilesInv'
  BY CommitBeginsKeeps, CommitRefusedToBeginKeeps

\* the hidden files of the export at work, and the manifest that names them
LEMMA OwnFiles ==
    ASSUME FilesInv, exp.at \in {"discard", "clean", "rollback"}
    PROVE  /\ Places
           /\ manifest[exp.op] # NoManifest =>
                 manifest[exp.op].kind = exp.kind /\ manifest[exp.op].dest = D
           /\ \A o \in Op : aside[o][B] = 0
           /\ exp.at = "discard" => here[B] = 0
           /\ exp.at = "clean" => here[S] = 0 /\ owed[D] = New /\ here[B] # New
<1>1. Places
  BY AtWork
<1>2. manifest[exp.op] # NoManifest => manifest[exp.op].kind = exp.kind /\ manifest[exp.op].dest = D
  BY <1>1 DEF FilesInv, ManifestAtWork, Places
<1>3. /\ \A o \in Op : aside[o][B] = 0
      /\ exp.at = "discard" => here[B] = 0
      /\ exp.at = "clean" => here[S] = 0 /\ owed[D] = New
  BY <1>1 DEF FilesInv, FilesAtWork, Places
<1>4. here[B] # New
  <2>1. here[B] \in Nat /\ New \in Nat
    BY <1>1, Plain, Operations DEF Places, PlainFiles
  <2>2. here[Backup(exp.kind, exp.op)] < NewContent(exp.op)
    BY <1>1 DEF FilesInv, FreshHidden, Places
  <2>3. here[B] < New
    BY <1>1, <2>2 DEF Places
  <2>4. QED BY <2>1, <2>3
<1>5. QED BY <1>1, <1>2, <1>3, <1>4

LEMMA DiscardStepKeeps ==
    ASSUME FilesInv, DiscardStep, UNCHANGED <<pending, del>>
    PROVE  FilesInv'
<1>1. /\ exp.at = "discard" /\ exp.at # "idle"
      /\ UNCHANGED <<runs, born, running, rows, receipts, aside, up, rec, waiting, ops,
                     crashes, detached, attached, owed, doubted, overtaken, pending, del>>
  BY DEF DiscardStep, NoOther, start, wish
<1>2. /\ Places /\ \A o \in Op : aside[o][B] = 0
      /\ manifest[exp.op] # NoManifest => manifest[exp.op].kind = exp.kind
      /\ here[B] = 0
  BY <1>1, OwnFiles
<1>3. CASE RemoveNext(exp.op, {S}) /\ UNCHANGED <<exp, maintenance, faults>>
  <2>1. {S} \in SUBSET {Staged(exp.kind, exp.op), Backup(exp.kind, exp.op)}
        /\ Backup(exp.kind, exp.op) \notin {S} /\ B \notin {S}
        /\ exp.op \in Op /\ exp.kind \in Kind
    BY <1>2 DEF Places
  <2>2. (\A p \in {S} : here[p] = 0) =>
          /\ here[Staged(exp.kind, exp.op)] = 0 /\ here[Backup(exp.kind, exp.op)] = 0
          /\ \A o1 \in Op : aside[o1][Backup(exp.kind, exp.op)] = 0
    BY <1>2 DEF Places
  <2>3. QED BY <1>1, <1>2, <1>3, <2>1, <2>2, RemoveNextKeeps
<1>4. CASE /\ Ends /\ ReleaseMine /\ UNCHANGED <<here, manifest, owners>>
           /\ faults' \in {faults, faults + 1}
  <2>1. /\ maintenance' \in {maintenance, "free"}
        /\ maintenance # "export" => maintenance' = maintenance
    BY <1>4 DEF ReleaseMine
  <2>2. /\ owners' \subseteq owners /\ receipts' \subseteq receipts
        /\ \A o \in Op : manifest[o] # NoManifest => (o \in receipts' <=> o \in receipts)
    BY <1>1, <1>4
  <2>3. QED BY <1>1, <1>4, <2>1, <2>2, ExportEndsKeeps
<1>5. QED BY <1>3, <1>4 DEF DiscardStep, Faulty

LEMMA CleanKeeps ==
    ASSUME FilesInv, Clean, UNCHANGED <<pending, del>>
    PROVE  FilesInv'
<1>1. /\ exp.at = "clean" /\ exp.at # "idle"
      /\ UNCHANGED <<runs, born, running, rows, aside, up, rec, waiting, ops, faults,
                     crashes, detached, attached, owed, doubted, overtaken, pending, del>>
  BY DEF Clean, NoOther, start, wish
<1>2. /\ Places /\ \A o \in Op : aside[o][B] = 0
      /\ manifest[exp.op] # NoManifest =>
             manifest[exp.op].kind = exp.kind /\ manifest[exp.op].dest = D
      /\ here[S] = 0 /\ owed[D] = New /\ here[B] # New
  BY <1>1, OwnFiles
<1>3. CASE RemoveNext(exp.op, {B}) /\ UNCHANGED <<receipts, exp, maintenance>>
  <2>1. {B} \in SUBSET {Staged(exp.kind, exp.op), Backup(exp.kind, exp.op)}
        /\ S \notin {B} /\ exp.op \in Op /\ exp.kind \in Kind
    BY <1>2 DEF Places
  <2>2. (\A p \in {B} : here[p] = 0) =>
          /\ here[Staged(exp.kind, exp.op)] = 0 /\ here[Backup(exp.kind, exp.op)] = 0
          /\ \A o1 \in Op : aside[o1][Backup(exp.kind, exp.op)] = 0
    BY <1>2 DEF Places
  <2>3. manifest[exp.op].kind = exp.kind /\ owed[manifest[exp.op].dest] # 0 =>
          here[Backup(exp.kind, exp.op)] # owed[manifest[exp.op].dest]
    BY <1>2, Kinds DEF Places
  <2>4. QED BY <1>1, <1>2, <1>3, <2>1, <2>2, <2>3, RemoveNextKeeps
<1>4. CASE /\ AllRemoved(exp.op, {B}) /\ receipts' = receipts \ {exp.op}
           /\ Ends /\ maintenance' = "free" /\ UNCHANGED <<here, manifest, owners>>
  <2>1. maintenance' \in {maintenance, "free"} /\ maintenance = "export"
    BY <1>1, <1>4, HoldsLease DEF Leased
  <2>2. /\ owners' \subseteq owners /\ receipts' \subseteq receipts
        /\ \A o \in Op : manifest[o] # NoManifest => (o \in receipts' <=> o \in receipts)
        /\ faults' \in {faults, faults + 1}
    BY <1>1, <1>4 DEF AllRemoved
  <2>3. QED BY <1>1, <1>4, <2>1, <2>2, ExportEndsKeeps
<1>5. QED BY <1>3, <1>4 DEF Clean

LEMMA LeftBehindKeeps ==
    ASSUME FilesInv, LeftBehind, UNCHANGED <<pending, del>>
    PROVE  FilesInv'
<1>1. /\ exp.at \in {"confirm", "clean"} /\ exp.at # "idle" /\ Ends /\ maintenance' = "free"
      /\ faults' \in {faults, faults + 1}
      /\ UNCHANGED <<runs, born, running, rows, receipts, here, aside, manifest, owners, up,
                     rec, waiting, ops, crashes, detached, attached, owed, doubted,
                     overtaken, pending, del>>
  BY DEF LeftBehind, NoOther, Faulty, disk, start, wish
<1>2. maintenance' \in {maintenance, "free"} /\ maintenance = "export"
  BY <1>1, HoldsLease DEF Leased
<1>3. /\ owners' \subseteq owners /\ receipts' \subseteq receipts
      /\ \A o \in Op : manifest[o] # NoManifest => (o \in receipts' <=> o \in receipts)
  BY <1>1
<1>4. QED BY <1>1, <1>2, <1>3, ExportEndsKeeps

(* A file moves to a destination or away from it, as it was, nothing owed  *)
(* being lost.                                                             *)
LEMMA SettlingKeeps ==
    ASSUME FilesInv, NEW d \in File \ Raw,
           exp' \in {exp, [exp EXCEPT !.installed = FALSE]}, del.at = "idle",
           here' \in [Path -> Nat], here'[d] <= Limit,
           \A f \in File : f # d => here'[f] = here[f],
           \A k \in Kind, o \in Op : /\ here'[Staged(k, o)] \in {0, here[Staged(k, o)]}
                                     /\ here'[Backup(k, o)] \in {0, here[Backup(k, o)]},
           exp.at # "idle" => /\ here'[S] = here[S]
                              /\ here'[B] # here[B] => exp.at = "rollback"
                              /\ here'[D] # here[D] => exp.at \in (ExportAt \ Leased) \cup {"rollback"},
           d \in Report /\ owed[d] >= 2 /\ rows[d] = NoRow => here'[d] # owed[d],
           owed[d] # 0 /\ here[d] = owed[d] => here'[d] = owed[d],
           \A o \in Op : LET b == Backup(manifest[o].kind, o)
                             f == manifest[o].dest IN
               manifest[o].kind \in Kind /\ owed[f] # 0 /\ here[b] = owed[f] =>
                   here'[b] = owed[f] \/ here'[f] = owed[f],
           UNCHANGED <<runs, born, running, rows, receipts, aside, manifest, owners,
                      maintenance, up, rec, waiting, ops, faults, crashes,
                      detached, attached, owed, doubted, overtaken, pending, del>>
    PROVE  FilesInv'
<1>1. UNCHANGED <<runs, born, running, rows, receipts, aside, manifest,
                 owners, maintenance, up, rec, waiting, ops, faults, crashes,
                 detached, attached, owed, doubted, overtaken, pending, del>>
  BY DEF Moved, db, disk, start, counts, wish, files
<1>p. PlainOps /\ PlainFiles /\ PlainExport /\ PlainManifests
  BY Plain
<1>2. Numbers' /\ Flags' /\ Manifests' /\ DeleteForm' /\ RecoveryForm' /\
        PendingForm' /\ Named' /\ Receipts' /\ RowsOwed' /\ RunOfRow' /\
        OldRows' /\ GoneRows' /\ Purging' /\ Recovering'
  BY <1>1, Frames DEF db, counts
<1>e. /\ ExportForm' /\ exp'.at = exp.at /\ exp'.op = exp.op /\ exp'.kind = exp.kind
      /\ exp'.run = exp.run /\ exp'.dest = exp.dest /\ exp'.prev = exp.prev /\ exp'.row = exp.row
  <2>1. IsExport(exp)
    BY DEF FilesInv, ExportForm
  <2>2. CASE exp' = exp
    BY <2>1, <2>2 DEF FilesInv, ExportForm
  <2>3. CASE exp' = [exp EXCEPT !.installed = FALSE]
    <3>1. exp' = [at |-> exp.at, op |-> exp.op, kind |-> exp.kind, run |-> exp.run,
                  dest |-> exp.dest, prev |-> exp.prev, row |-> exp.row, installed |-> FALSE]
      BY <2>1, <2>3 DEF IsExport
    <3>2. IsExport(exp')
      BY <2>1, <3>1 DEF IsExport
    <3>3. QED BY <3>1, <3>2 DEF ExportForm
  <2>4. QED BY <2>2, <2>3
<1>l. Limit' = Limit
  BY <1>1, <1>e DEF Limit
<1>k. \A k \in Kind, o \in Op :
         /\ Staged(k, o) \in Path /\ Backup(k, o) \in Path
         /\ here[Staged(k, o)] \in {0, NewContent(o)} /\ here[Backup(k, o)] < NewContent(o)
         /\ 0 < NewContent(o)
  BY HiddenApart, Operations DEF FilesInv, FreshHidden
<1>3. TypeOK'
  BY <1>1 DEF FilesInv, TypeOK
<1>4. ExportForm'
  BY <1>e
<1>5. Leases'
  BY <1>1, <1>e DEF FilesInv, Leases
<1>6. FreshOps'
  BY <1>1, <1>e DEF FilesInv, FreshOps
<1>7. FreshFiles'
  <2>1. \A f \in File : here'[f] <= Limit
    BY DEF FilesInv, FreshFiles
  <2>2. QED BY <1>1, <1>l, <2>1 DEF FilesInv, FreshFiles
<1>8. FreshHidden'
  <2>1. \A k \in Kind, o \in Op : here'[Staged(k, o)] \in {0, NewContent(o)}
    BY <1>k
  <2>2. \A k \in Kind, o \in Op : here'[Backup(k, o)] < NewContent(o)
    BY <1>k
  <2>3. QED BY <1>1, <1>e, <2>1, <2>2 DEF FilesInv, FreshHidden
<1>9. Unused'
  <2>1. \A k \in Kind, o \in Op : o > ops => here'[Backup(k, o)] = 0
    BY DEF FilesInv, Unused
  <2>2. QED BY <1>1, <2>1 DEF FilesInv, Unused
<1>10. NamedOutside'
  <2>1. \A o \in Op : /\ here'[Staged("external_export", o)] \in
                             {0, here[Staged("external_export", o)]}
                       /\ here'[Backup("external_export", o)] \in
                             {0, here[Backup("external_export", o)]}
    BY Kinds
  <2>2. QED BY <1>1, <2>1 DEF FilesInv, NamedOutside
<1>11. ManifestAtWork'
  BY <1>1, <1>e DEF FilesInv, ManifestAtWork
<1>12. FilesAtWork'
  <2>1. CASE exp.at = "idle"
    BY <1>e, <2>1 DEF FilesAtWork
  <2>2. CASE exp.at # "idle"
    <3>1. Places /\ S' = S /\ B' = B /\ D' = D /\ New' = New
      BY <1>e, <2>2, AtWork DEF S, B, D, New
    <3>2. /\ here'[S] = here[S] /\ here'[B] \in {0, here[B]}
          /\ here'[B] # here[B] => exp.at = "rollback"
      BY <2>2, <3>1 DEF Places
    <3>3. here'[D] # here[D] =>
             exp.at \notin {"announce", "backup", "install", "mark", "record", "confirm", "clean"}
      BY <2>2 DEF Leased
    <3>4. QED BY <1>1, <1>e, <3>1, <3>2, <3>3 DEF FilesInv, FilesAtWork
  <2>3. QED BY <2>1, <2>2
<1>13. RowAtWork'
  BY <1>1, <1>e DEF FilesInv, RowAtWork, D
<1>14. RawFiles'
  BY <1>1, Sorts DEF FilesInv, RawFiles
<1>15. Unshown'
  <2>1. \A f \in Report : f # d => here'[f] = here[f]
    BY Sorts
  <2>2. QED BY <1>1, <2>1 DEF FilesInv, Unshown
<1>16. Deleting'
  BY <1>1, NoDeletion
<1>17. NothingLost'
  <2>1. \A f \in File : owed[f] # 0 /\ here[f] = owed[f] => here'[f] = owed[f]
    OBVIOUS
  <2>2. QED BY <1>1, <1>p, <2>1, StillFound DEF FilesInv
<1>18. QED BY <1>2, <1>3, <1>4, <1>5, <1>6, <1>7, <1>8, <1>9, <1>10, <1>11,
        <1>12, <1>13, <1>14, <1>15, <1>16, <1>17 DEF FilesInv

\* what is moved or removed to undo the export at work
LEMMA UndoingKeeps ==
    ASSUME FilesInv, exp.at = "rollback", UNCHANGED <<pending, del>>,
           UNCHANGED <<rows, receipts, ops, wish, manifest, owners, maintenance, faults>>, NoOther,
           \/ /\ here[D] = New /\ Unlinked(D)
              /\ exp' = [exp EXCEPT !.installed = FALSE]
           \/ here[B] # 0 /\ here[D] = 0 /\ Moved(B, D) /\ UNCHANGED exp
    PROVE  FilesInv'
<1>p. PlainOps /\ PlainFiles /\ PlainExport /\ PlainManifests
  BY Plain
<1>1. Places /\ exp.at # "idle" /\ exp.at \in Leased
  BY AtWork DEF Leased
<1>2. del.at = "idle"
  BY <1>1, HoldsLease
<1>3. UNCHANGED <<runs, born, running, rows, receipts, aside, manifest, owners,
                  maintenance, up, rec, waiting, ops, faults, crashes,
                  detached, attached, owed, doubted, overtaken, pending, del>>
  BY DEF NoOther, start, wish
<1>4. D \in File \ Raw /\ D \in Path /\ B \in Path \ File /\ S \in Path \ File /\ S # B
      /\ exp.op \in Op /\ exp.kind \in Kind
  BY <1>1 DEF Places
<1>5. here[B] \in {0, exp.prev} /\ owed[D] # New
  BY DEF FilesInv, FilesAtWork
<1>6. Limit = NewContent(exp.op) /\ Limit \in Nat /\ exp.prev <= Limit /\ exp.prev \in Nat
  <2>1. Limit = NewContent(exp.op)
    BY DEF Limit, Early
  <2>2. exp.prev <= exp.op
    BY <1>1 DEF FilesInv, FreshHidden
  <2>3. QED BY <1>p, <2>1, <2>2, LimitNat DEF NewContent, PlainOps, PlainExport
<1>7. CASE here[D] = New /\ Unlinked(D) /\ exp' = [exp EXCEPT !.installed = FALSE]
  <2>1. /\ here' \in [Path -> Nat] /\ here'[D] = 0
        /\ \A q \in Path : q # D => here'[q] = here[q]
    BY <1>p, <1>4, <1>7, UnlinkedFile DEF PlainFiles
  <2>2. \A f \in File : f # D => here'[f] = here[f]
    BY <2>1, Sorts
  <2>3. \A k \in Kind, o \in Op : here'[Staged(k, o)] = here[Staged(k, o)]
                                  /\ here'[Backup(k, o)] = here[Backup(k, o)]
    BY <1>4, <2>1, HiddenApart
  <2>4. here'[S] = here[S] /\ here'[B] = here[B] /\ here'[D] <= Limit
    BY <1>4, <1>6, <2>1
  <2>5. owed[D] >= 2 => here'[D] # owed[D]
    BY <2>1
  <2>6. here[D] # owed[D]
    BY <1>5, <1>7
  <2>7. QED BY <1>2, <1>3, <1>4, <1>7, <2>1, <2>2, <2>3, <2>4, <2>5, <2>6, SettlingKeeps
<1>8. CASE here[B] # 0 /\ here[D] = 0 /\ Moved(B, D) /\ UNCHANGED exp
  <2>1. /\ here' \in [Path -> Nat] /\ here'[B] = 0 /\ here'[D] = exp.prev
        /\ \A q \in Path : q # B /\ q # D => here'[q] = here[q]
    BY <1>p, <1>4, <1>5, <1>8, MovedFile DEF PlainFiles
  <2>2. \A f \in File : f # D => here'[f] = here[f]
    BY <1>4, <2>1, Sorts
  <2>3. \A k \in Kind, o \in Op :
           /\ here'[Staged(k, o)] = here[Staged(k, o)]
           /\ \/ here'[Backup(k, o)] = here[Backup(k, o)]
              \/ k = exp.kind /\ o = exp.op /\ here'[Backup(k, o)] = 0
    BY <1>1, <2>1 DEF Places
  <2>4. here'[S] = here[S] /\ here'[D] <= Limit
    BY <1>4, <1>6, <2>1
  <2>5. D \in Report /\ owed[D] >= 2 /\ rows[D] = NoRow => here'[D] # owed[D]
    <3>1. SUFFICES ASSUME D \in Report, owed[D] >= 2, rows[D] = NoRow
                   PROVE  exp.prev # owed[D]
      BY <2>1
    <3>2. exp.kind = "export"
      BY <1>1, <3>1 DEF Places
    <3>3. rows[D].content = exp.row.content \/ owed[D] = 0
      BY <3>2 DEF FilesInv, RowAtWork
    <3>4. owed[D] \in Nat /\ rows[D].content = 0
      BY <1>p, <1>4, <3>1 DEF PlainFiles, NoRow
    <3>5. exp.row.content = 0
      BY <3>1, <3>3, <3>4
    <3>6. exp.prev >= 2 => owed[D] # exp.prev
      BY <1>1, <3>2, <3>5 DEF FilesInv, RowAtWork
    <3>7. QED BY <1>6, <3>1, <3>4, <3>6
  <2>6. ASSUME NEW o \in Op, manifest[o].kind \in Kind, owed[manifest[o].dest] # 0,
               here[Backup(manifest[o].kind, o)] = owed[manifest[o].dest]
        PROVE  \/ here'[Backup(manifest[o].kind, o)] = owed[manifest[o].dest]
               \/ here'[manifest[o].dest] = owed[manifest[o].dest]
    <3>1. CASE here'[Backup(manifest[o].kind, o)] = here[Backup(manifest[o].kind, o)]
      BY <2>6, <3>1
    <3>2. CASE manifest[o].kind = exp.kind /\ o = exp.op
      <4>1. manifest[o] # NoManifest
        BY <2>6, Kinds
      <4>2. manifest[o].dest = D
        BY <1>1, <3>2, <4>1, OwnFiles
      <4>3. here[B] = owed[D]
        BY <1>1, <2>6, <3>2, <4>2 DEF Places
      <4>4. QED BY <1>5, <1>8, <2>1, <4>2, <4>3
    <3>3. QED BY <2>3, <2>6, <3>1, <3>2
  <2>7. owed[D] # 0 /\ here[D] = owed[D] => here'[D] = owed[D]
    BY <1>8
  <2>8. exp' \in {exp, [exp EXCEPT !.installed = FALSE]}
    BY <1>8
  <2>9. \A k \in Kind, o \in Op : /\ here'[Staged(k, o)] \in {0, here[Staged(k, o)]}
                                  /\ here'[Backup(k, o)] \in {0, here[Backup(k, o)]}
    BY <2>3
  <2>10. QED BY <1>2, <1>3, <1>4, <2>1, <2>2, <2>4, <2>5, <2>6, <2>7, <2>8, <2>9,
                SettlingKeeps
<1>9. QED BY <1>7, <1>8

(* The steps back to what was there.                                       *)
LEMMA RollBackKeeps ==
    ASSUME FilesInv, RollBack, UNCHANGED <<pending, del>>
    PROVE  FilesInv'
<1>1. /\ exp.at = "rollback" /\ exp.at # "idle" /\ exp.at \in Leased
      /\ UNCHANGED <<rows, receipts, ops, wish>> /\ NoOther
  BY DEF RollBack, Leased
<1>2. UNCHANGED <<runs, born, running, rows, receipts, aside, up, rec, waiting, ops,
                  crashes, detached, attached, owed, doubted, overtaken, pending, del>>
  BY <1>1 DEF NoOther, start, wish
<1>3. /\ Places /\ \A o \in Op : aside[o][B] = 0
      /\ manifest[exp.op] # NoManifest => manifest[exp.op].kind = exp.kind
  BY <1>1, OwnFiles
<1>4. CASE /\ \/ /\ here[D] = New /\ Unlinked(D)
                 /\ exp' = [exp EXCEPT !.installed = FALSE]
              \/ here[B] # 0 /\ here[D] = 0 /\ Moved(B, D) /\ UNCHANGED exp
           /\ UNCHANGED <<manifest, owners, maintenance, faults>>
  BY <1>1, <1>4, UndoingKeeps
<1>5. CASE here[B] = 0 /\ RemoveNext(exp.op, {S}) /\ UNCHANGED <<exp, maintenance, faults>>
  <2>1. {S} \in SUBSET {Staged(exp.kind, exp.op), Backup(exp.kind, exp.op)}
        /\ Backup(exp.kind, exp.op) \notin {S} /\ B \notin {S}
        /\ exp.op \in Op /\ exp.kind \in Kind
    BY <1>3 DEF Places
  <2>2. (\A p \in {S} : here[p] = 0) =>
          /\ here[Staged(exp.kind, exp.op)] = 0 /\ here[Backup(exp.kind, exp.op)] = 0
          /\ \A o1 \in Op : aside[o1][Backup(exp.kind, exp.op)] = 0
    BY <1>3, <1>5 DEF Places
  <2>3. QED BY <1>1, <1>2, <1>3, <1>5, <2>1, <2>2, RemoveNextKeeps
<1>6. CASE /\ Ends /\ maintenance' = "free" /\ UNCHANGED <<here, manifest, owners>>
           /\ faults' \in {faults, faults + 1}
  <2>1. maintenance' \in {maintenance, "free"} /\ maintenance = "export"
    BY <1>1, <1>6, HoldsLease
  <2>2. /\ owners' \subseteq owners /\ receipts' \subseteq receipts
        /\ \A o \in Op : manifest[o] # NoManifest => (o \in receipts' <=> o \in receipts)
    BY <1>2, <1>6
  <2>3. QED BY <1>1, <1>2, <1>6, <2>1, <2>2, ExportEndsKeeps
<1>7. QED BY <1>4, <1>5, <1>6 DEF RollBack, Faulty

-----------------------------------------------------------------------------
(* The next start, about exports                                           *)

\* no deletion is left, and the export at work, if any, has not the lease
LEMMA RecoveryQuiet ==
    ASSUME FilesInv, rec.at = "exports"
    PROVE  /\ del.at = "idle" /\ exp.at \notin Leased
           /\ \A o \in Op, p \in Path : aside[o][p] = 0
           /\ exp.at # "idle" => Places /\ here[B] = 0
<1>1. del.at = "idle" /\ exp.at \notin Leased
  BY DEF FilesInv, Leases
<1>2. \A o \in Op, p \in Path : aside[o][p] = 0
  BY DEF FilesInv, Recovering, Named
<1>3. exp.at # "idle" => Places /\ here[B] = 0
  BY <1>1, AtWork, NoBackup
<1>4. QED BY <1>1, <1>2, <1>3

\* an export that was cut short: its manifest and its files
CutShort(o, s, b) ==
    /\ rec.at = "exports" /\ manifest[o].kind \in Kind /\ o # exp.op
    /\ s = Staged(manifest[o].kind, o) /\ b = Backup(manifest[o].kind, o)

\* ... which are its own
LEMMA CutShortFiles ==
    ASSUME FilesInv, NEW o \in Op, NEW s, NEW b, CutShort(o, s, b)
    PROVE  /\ s \in Path \ File /\ b \in Path \ File /\ s # b
           /\ manifest[o].dest \in File \ Raw /\ manifest[o].dest \in Path
           /\ \A k1 \in Kind, o1 \in Op :
                 /\ Staged(k1, o1) \in Path \ File /\ Backup(k1, o1) \in Path \ File
                 /\ s # Backup(k1, o1) /\ b # Staged(k1, o1)
                 /\ s = Staged(k1, o1) => k1 = manifest[o].kind /\ o1 = o
                 /\ b = Backup(k1, o1) => k1 = manifest[o].kind /\ o1 = o
           /\ NewContent(o) = o + 1 /\ NewContent(o) <= Limit /\ Limit \in Nat
           /\ here[b] < NewContent(o) /\ manifest[o].prev < NewContent(o)
           /\ here[b] \in Nat /\ owed[manifest[o].dest] \in Nat /\ manifest[o].prev \in Nat
           /\ exp.at # "idle" => /\ S \in Path \ {s, b} /\ B \in Path \ {s, b}
                                 /\ S \notin File /\ B \notin File
           /\ manifest[o].kind = "export" <=> manifest[o].dest \in Report
           /\ manifest[o].kind = "external_export" <=> manifest[o].kind # "export"
<1>p. PlainOps /\ PlainFiles /\ PlainExport /\ PlainManifests
  BY Plain
<1>1. /\ s = Staged(manifest[o].kind, o) /\ b = Backup(manifest[o].kind, o)
      /\ manifest[o].kind \in Kind /\ o # exp.op
  BY DEF CutShort
<1>2. /\ s \in Path \ File /\ b \in Path \ File /\ s # b
      /\ \A k1 \in Kind, o1 \in Op :
            /\ Staged(k1, o1) \in Path \ File /\ Backup(k1, o1) \in Path \ File
            /\ s # Backup(k1, o1) /\ b # Staged(k1, o1)
            /\ s = Staged(k1, o1) => k1 = manifest[o].kind /\ o1 = o
            /\ b = Backup(k1, o1) => k1 = manifest[o].kind /\ o1 = o
  BY <1>1, HiddenApart
<1>3. manifest[o].dest \in File \ Raw /\ manifest[o].dest \in Path
  BY <1>1, <1>p, Sorts DEF PlainManifests
<1>4. NewContent(o) = o + 1 /\ o \in Nat /\ o >= 1
  BY Operations
<1>5. Limit \in Nat /\ NewContent(o) <= Limit
  <2>1. Limit \in Nat
    BY LimitNat
  <2>2. CASE exp.at = "idle"
    <3>1. o <= ops
      BY <1>1, <1>4, <1>p, Kinds DEF FilesInv, FreshOps, PlainOps
    <3>2. QED BY <1>4, <1>p, <2>2, <3>1 DEF Limit, NewContent, PlainOps
  <2>3. CASE exp.at # "idle"
    <3>1. o <= exp.op
      BY <1>1, <2>3 DEF FilesInv, FreshOps
    <3>2. QED BY <1>1, <1>4, <1>p, <2>3, <3>1 DEF Limit, NewContent, PlainOps
  <2>4. QED BY <2>1, <2>2, <2>3
<1>6. here[b] < NewContent(o) /\ manifest[o].prev < NewContent(o)
  BY <1>1 DEF FilesInv, FreshHidden
<1>7. here[b] \in Nat /\ owed[manifest[o].dest] \in Nat /\ manifest[o].prev \in Nat
  BY <1>1, <1>2, <1>3, <1>p DEF PlainFiles, PlainManifests
<1>8. exp.at # "idle" => /\ S \in Path \ {s, b} /\ B \in Path \ {s, b}
                         /\ S \notin File /\ B \notin File
  <2>1. exp.at # "idle" => Places
    BY AtWork
  <2>2. QED BY <1>1, <2>1 DEF Places
<1>9. /\ manifest[o].kind = "export" <=> manifest[o].dest \in Report
      /\ manifest[o].kind = "external_export" <=> manifest[o].kind # "export"
  BY <1>1, <1>p, Kinds DEF PlainManifests
<1>10. QED BY <1>2, <1>3, <1>4, <1>5, <1>6, <1>7, <1>8, <1>9

\* a file of an export that was cut short is moved or removed
LEMMA SettleKeeps ==
    ASSUME FilesInv, NEW o \in Op, NEW s, NEW b, CutShort(o, s, b),
           manifest[o].phase # "PREPARED", ~ Unrecoverable(o, manifest[o], s, b),
           Settle(o, manifest[o], s, b),
           UNCHANGED <<runs, born, running, rows, receipts, aside, manifest, owners,
                      maintenance, up, rec, waiting, ops, faults, crashes,
                      detached, attached, owed, doubted, overtaken, pending, del, exp>>
    PROVE  FilesInv'
<1> DEFINE m == manifest[o]
           d == manifest[o].dest
<1>p. PlainOps /\ PlainFiles /\ PlainExport /\ PlainManifests
  BY Plain
<1>q. /\ del.at = "idle" /\ exp.at \notin Leased
      /\ exp.at # "idle" => Places
  BY RecoveryQuiet DEF CutShort
<1>f. /\ s \in Path \ File /\ b \in Path \ File /\ s # b /\ d \in File \ Raw /\ d \in Path
      /\ \A k1 \in Kind, o1 \in Op :
            /\ Staged(k1, o1) \in Path \ File /\ Backup(k1, o1) \in Path \ File
            /\ s # Backup(k1, o1) /\ b # Staged(k1, o1)
            /\ b = Backup(k1, o1) => k1 = m.kind /\ o1 = o
      /\ NewContent(o) = o + 1 /\ NewContent(o) <= Limit /\ Limit \in Nat
      /\ here[b] < NewContent(o) /\ m.prev < NewContent(o)
      /\ here[b] \in Nat /\ owed[d] \in Nat /\ m.prev \in Nat
      /\ exp.at # "idle" => S \in Path \ {s, b, d} /\ B \in Path \ {s, b, d}
      /\ m.kind = "export" <=> d \in Report
      /\ m.kind = "external_export" <=> m.kind # "export"
  BY CutShortFiles
<1>o. o \in Nat /\ o >= 1
  BY Operations
<1>a. exp.at \in (ExportAt \ Leased)
  BY <1>p, <1>q DEF PlainExport
<1>u. /\ m.kind \in Kind /\ here[s] \in {0, NewContent(o)} /\ here[b] \in {0, m.prev}
      /\ m.kind = "export" /\ ~ Done(o, m) => IsOld(m)
      /\ Done(o, m) /\ here[d] = 0 => m.kind = "export" /\ here[s] # 0
      /\ ~ Done(o, m) /\ (here[b] # 0 \/ m.prev = 0) => here[d] \in {0, NewContent(o)}
  BY DEF Unrecoverable, Contents, CutShort
<1>1. CASE Done(o, m)
  <2>1. here[d] = 0 /\ Moved(s, d) /\ m.kind = "export" /\ here[s] = NewContent(o)
    BY <1>1, <1>u DEF Settle
  <2>2. /\ here' \in [Path -> Nat] /\ here'[s] = 0 /\ here'[d] = NewContent(o)
        /\ \A q \in Path : q # s /\ q # d => here'[q] = here[q]
    BY <1>p, <1>f, <2>1, MovedFile DEF PlainFiles
  <2>3. \A f \in File : f # d => here'[f] = here[f]
    BY <1>f, <2>2, Sorts
  <2>4. \A k1 \in Kind, o1 \in Op : /\ here'[Staged(k1, o1)] \in {0, here[Staged(k1, o1)]}
                                    /\ here'[Backup(k1, o1)] = here[Backup(k1, o1)]
    BY <1>f, <2>2
  <2>5. rows[d] # NoRow
    BY <1>1, <1>f, <1>o, <2>1 DEF Done, IsNew, NoRow
  <2>6. here'[d] <= Limit
    BY <1>f, <2>2
  <2>7. exp.at # "idle" => here'[S] = here[S] /\ here'[B] = here[B]
    BY <1>f, <2>2
  <2>8. QED BY <1>a, <1>q, <1>f, <2>1, <2>2, <2>3, <2>4, <2>5, <2>6, <2>7, SettlingKeeps
<1>2. CASE ~ Done(o, m) /\ here[d] # 0
  <2>1. Unlinked(d) /\ here[d] = NewContent(o)
    BY <1>2, <1>u DEF Settle
  <2>2. /\ here' \in [Path -> Nat] /\ here'[d] = 0
        /\ \A q \in Path : q # d => here'[q] = here[q]
    BY <1>p, <1>f, <2>1, UnlinkedFile DEF PlainFiles
  <2>3. \A f \in File : f # d => here'[f] = here[f]
    BY <1>f, <2>2, Sorts
  <2>4. \A k1 \in Kind, o1 \in Op : /\ here'[Staged(k1, o1)] = here[Staged(k1, o1)]
                                    /\ here'[Backup(k1, o1)] = here[Backup(k1, o1)]
    BY <1>f, <2>2
  <2>5. owed[d] # NewContent(o)
    <3>1. CASE m.kind = "external_export"
      <4>1. o \notin receipts
        BY <1>2, <3>1 DEF Done
      <4>2. QED BY <1>f, <3>1, <4>1 DEF FilesInv, Receipts
    <3>2. CASE m.kind = "export" /\ owed[d] = NewContent(o)
      <4>1. d \in Report /\ owed[d] >= 2 /\ here[d] = owed[d] /\ owed[d] # 0
        BY <1>f, <1>o, <2>1, <3>2
      <4>2. rows[d] # NoRow
        BY <4>1 DEF FilesInv, Unshown
      <4>3. rows[d].content = NewContent(o)
        BY <1>f, <3>2, <4>1, <4>2 DEF FilesInv, RowsOwed
      <4>4. rows[d].run = m.run
        BY <3>2, <4>3 DEF FilesInv, RunOfRow
      <4>5. rows[d] = [run |-> m.run, content |-> NewContent(o)]
        BY <1>f, <1>p, <4>3, <4>4 DEF PlainFiles, RowForm
      <4>6. QED BY <1>2, <3>2, <4>5 DEF Done, IsNew
    <3>3. QED BY <1>f, <1>u, <3>1, <3>2
  <2>6. owed[d] >= 2 => here'[d] # owed[d]
    BY <2>2
  <2>7. here'[d] <= Limit
    BY <1>f, <2>2
  <2>8. exp.at # "idle" => here'[S] = here[S] /\ here'[B] = here[B]
    BY <1>f, <2>2
  <2>9. here[d] # owed[d]
    BY <2>1, <2>5
  <2>10. QED BY <1>a, <1>q, <1>f, <2>2, <2>3, <2>4, <2>6, <2>7, <2>8, <2>9, SettlingKeeps
<1>3. CASE ~ Done(o, m) /\ here[d] = 0
  <2>1. Moved(b, d) /\ here[b] # 0 /\ here[b] = m.prev
    BY <1>3, <1>u DEF Settle
  <2>2. /\ here' \in [Path -> Nat] /\ here'[b] = 0 /\ here'[d] = m.prev
        /\ \A q \in Path : q # b /\ q # d => here'[q] = here[q]
    BY <1>p, <1>f, <2>1, MovedFile DEF PlainFiles
  <2>3. \A f \in File : f # d => here'[f] = here[f]
    BY <1>f, <2>2, Sorts
  <2>4. \A k1 \in Kind, o1 \in Op :
           /\ here'[Staged(k1, o1)] = here[Staged(k1, o1)]
           /\ \/ here'[Backup(k1, o1)] = here[Backup(k1, o1)]
              \/ k1 = m.kind /\ o1 = o /\ here'[Backup(k1, o1)] = 0
    BY <1>f, <2>2
  <2>5. d \in Report /\ owed[d] >= 2 /\ rows[d] = NoRow => here'[d] # owed[d]
    <3>1. SUFFICES ASSUME d \in Report, owed[d] >= 2, rows[d] = NoRow
                   PROVE  m.prev # owed[d]
      BY <2>2
    <3>2. m.kind = "export" /\ IsOld(m)
      BY <1>f, <1>u, <1>3, <3>1
    <3>3. m.row.content = 0
      BY <3>1, <3>2 DEF IsOld, NoRow
    <3>4. m.prev >= 2 => owed[d] # m.prev
      BY <3>2, <3>3 DEF FilesInv, OldRows
    <3>5. QED BY <1>f, <3>1, <3>4
  <2>6. ASSUME NEW o1 \in Op, manifest[o1].kind \in Kind, owed[manifest[o1].dest] # 0,
               here[Backup(manifest[o1].kind, o1)] = owed[manifest[o1].dest]
        PROVE  \/ here'[Backup(manifest[o1].kind, o1)] = owed[manifest[o1].dest]
               \/ here'[manifest[o1].dest] = owed[manifest[o1].dest]
    <3>1. CASE here'[Backup(manifest[o1].kind, o1)] = here[Backup(manifest[o1].kind, o1)]
      BY <2>6, <3>1
    <3>2. CASE o1 = o
      <4>1. here[b] = owed[d]
        BY <2>6, <3>2 DEF CutShort
      <4>2. QED BY <2>1, <2>2, <3>2, <4>1
    <3>3. QED BY <2>4, <2>6, <3>1, <3>2
  <2>7. here'[d] <= Limit
    <3>1. /\ m.prev < NewContent(o) /\ NewContent(o) <= Limit /\ NewContent(o) = o + 1
          /\ m.prev \in Nat /\ Limit \in Nat /\ here'[d] = m.prev
      BY <1>f, <2>2
    <3>2. QED BY <1>o, <3>1
  <2>8. exp.at # "idle" => here'[S] = here[S] /\ here'[B] = here[B]
    BY <1>f, <2>2
  <2>9. \A k1 \in Kind, o1 \in Op : /\ here'[Staged(k1, o1)] \in {0, here[Staged(k1, o1)]}
                                    /\ here'[Backup(k1, o1)] \in {0, here[Backup(k1, o1)]}
    BY <2>4
  <2>10. QED BY <1>3, <1>a, <1>q, <1>f, <2>2, <2>3, <2>5, <2>6, <2>7, <2>8, <2>9,
                SettlingKeeps
<1>4. QED BY <1>1, <1>2, <1>3

(* A step of the start about an export that was cut short.                 *)
LEMMA RecoverExportKeeps ==
    ASSUME FilesInv, NEW o \in Op, RecoverExport(o), UNCHANGED <<pending, del>>
    PROVE  FilesInv'
<1> DEFINE m == manifest[o]
           d == manifest[o].dest
           s == Staged(manifest[o].kind, o)
           b == Backup(manifest[o].kind, o)
<1>p. PlainOps /\ PlainFiles /\ PlainExport /\ PlainManifests
  BY Plain
<1>1. /\ rec.at = "exports" /\ m.kind \in Kind /\ o # exp.op
      /\ ~ Unrecoverable(o, m, s, b)
      /\ UNCHANGED <<rows, receipts, exp, maintenance, ops, faults, wish>> /\ NoOther
      /\ \/ Settled(o, m, b) /\ RemoveNext(o, {s, b})
         \/ ~ Settled(o, m, b) /\ Settle(o, m, s, b) /\ UNCHANGED <<manifest, owners>>
  BY DEF RecoverExport
<1>2. UNCHANGED <<runs, born, running, rows, receipts, aside, maintenance, up, rec,
                  waiting, ops, faults, crashes, detached, attached, owed, doubted,
                  overtaken, pending, del, exp>>
  BY <1>1 DEF NoOther, start, wish
<1>3. CutShort(o, s, b)
  BY <1>1 DEF CutShort
<1>4. CASE ~ Settled(o, m, b) /\ Settle(o, m, s, b) /\ UNCHANGED <<manifest, owners>>
  <2>1. m.phase # "PREPARED"
    BY <1>4 DEF Settled
  <2>2. QED BY <1>1, <1>2, <1>3, <1>4, <2>1, SettleKeeps
<1>5. CASE Settled(o, m, b) /\ RemoveNext(o, {s, b})
  <2>f. /\ d \in File /\ NewContent(o) = o + 1 /\ here[b] < NewContent(o)
        /\ here[b] \in Nat /\ owed[d] \in Nat /\ o \in Nat
    BY <1>3, CutShortFiles, Operations
  <2>1. ASSUME owed[d] # 0
        PROVE  here[b] # owed[d]
    <3>1. CASE here[b] = 0
      BY <2>1, <3>1
    <3>2. CASE here[b] # 0
      <4>1. m.phase # "PREPARED"
        BY <1>1, <3>2 DEF Unrecoverable
      <4>2. Done(o, m)
        BY <1>5, <3>2, <4>1 DEF Settled
      <4>3. CASE m.kind = "export"
        <5>1. rows[d] = [run |-> m.run, content |-> NewContent(o)]
          BY <4>2, <4>3 DEF Done, IsNew
        <5>2. rows[d] # NoRow /\ rows[d].content = NewContent(o)
          BY <2>f, <5>1 DEF NoRow
        <5>3. owed[d] \in {0, NewContent(o)}
          BY <2>f, <5>2 DEF FilesInv, RowsOwed
        <5>4. QED BY <2>f, <2>1, <5>3
      <4>4. CASE m.kind = "external_export"
        <5>1. o \in receipts
          BY <4>2, <4>4 DEF Done
        <5>2. owed[d] = 0 \/ owed[d] >= NewContent(o)
          BY <4>4, <5>1 DEF FilesInv, Receipts
        <5>3. QED BY <2>f, <2>1, <5>2
      <4>5. QED BY <1>1, <4>3, <4>4, Kinds
    <3>3. QED BY <3>1, <3>2
  <2>2. \A o1 \in Op : aside[o1][b] = 0
    BY <1>1, <1>3, RecoveryQuiet, CutShortFiles
  <2>3. {s, b} \in SUBSET {Staged(m.kind, o), Backup(m.kind, o)}
    OBVIOUS
  <2>4. (\A p \in {s, b} : here[p] = 0) =>
          /\ here[Staged(m.kind, o)] = 0 /\ here[Backup(m.kind, o)] = 0
          /\ \A o1 \in Op : aside[o1][Backup(m.kind, o)] = 0
    BY <2>2
  <2>5. ~ (exp.at # "idle" /\ o = exp.op)
    BY <1>1
  <2>6. QED BY <1>1, <1>2, <1>5, <2>1, <2>3, <2>4, <2>5, RemoveNextKeeps
<1>6. QED BY <1>1, <1>4, <1>5

(* A poll stores a file under a name that is free.                         *)
LEMMA PollKeeps ==
    ASSUME FilesInv, NEW f \in Raw, Poll(f), UNCHANGED <<pending, del, exp>>
    PROVE  FilesInv'
<1>1. UNCHANGED <<runs, born, running, receipts, aside, owners, maintenance,
                 up, rec, waiting, faults, crashes, detached, attached,
                 doubted, overtaken, pending, del, exp>>
  BY DEF Poll, db, disk, start, counts, wish, files
<1>p. PlainOps /\ PlainFiles /\ PlainExport /\ PlainManifests
  BY Plain
<1>2. Flags' /\ ExportForm' /\ DeleteForm' /\ RecoveryForm' /\ PendingForm' /\
        Leases'
  BY <1>1, Frames DEF db, counts
<1>f. /\ f \in File /\ f \in Path /\ f \notin Report /\ f \notin Outside
      /\ RawOf[f] \in runs /\ RawOf[f] \in Run
      /\ \A o \in Op : manifest[o].kind \in Kind => manifest[o].dest # f
      /\ \A k \in Kind, o \in Op : Staged(k, o) \in Path \ {f} /\ Backup(k, o) \in Path \ {f}
  <2>1. f \in File /\ f \in Path /\ f \notin Report /\ f \notin Outside
    BY Sorts
  <2>2. RawOf[f] \in runs /\ RawOf[f] \in Run
    BY FilesAssumption DEF Poll, FilesInv, TypeOK
  <2>3. \A o \in Op : manifest[o].kind \in Kind => manifest[o].dest # f
    BY <1>p DEF PlainManifests
  <2>4. \A k \in Kind, o \in Op : Staged(k, o) \in Path \ {f} /\ Backup(k, o) \in Path \ {f}
    BY <2>1, HiddenApart
  <2>5. QED BY <2>1, <2>2, <2>3, <2>4
<1>e. /\ here' = [here EXCEPT ![f] = 1] /\ rows[f] = NoRow /\ \A o \in Op : aside[o][f] = 0
      /\ here' \in [Path -> Nat] /\ here'[f] = 1 /\ \A q \in Path : q # f => here'[q] = here[q]
      /\ owed' \in [File -> Nat] /\ owed'[f] = 1 /\ \A q \in File : q # f => owed'[q] = owed[q]
      /\ rows' \in [File -> RowForm] /\ rows'[f] = [run |-> RawOf[f], content |-> 1]
      /\ \A q \in File : q # f => rows'[q] = rows[q]
  <2>1. /\ here' = [here EXCEPT ![f] = 1] /\ owed' = [owed EXCEPT ![f] = 1]
        /\ rows' = [rows EXCEPT ![f] = [run |-> RawOf[f], content |-> 1]]
        /\ rows[f] = NoRow /\ \A o \in Op : aside[o][f] = 0
    BY DEF Poll
  <2>2. [run |-> RawOf[f], content |-> 1] \in RowForm
    BY <1>f DEF RowForm
  <2>3. QED BY <1>p, <1>f, <2>1, <2>2 DEF PlainFiles
<1>m. /\ ops' \in Nat /\ ops' >= ops /\ ops' <= MaxOps
      /\ Manifests' /\ \A o \in Op : /\ o > ops' => manifest'[o] = NoManifest
                                     /\ o <= ops => manifest'[o] = manifest[o]
                                     /\ manifest[o].kind # "none" => manifest'[o] = manifest[o]
                                     /\ manifest'[o].kind \in Kind \cup {"delete"} =>
                                           manifest'[o] = manifest[o]
  <2>1. \A o \in Op : o > ops => manifest[o] = NoManifest
    BY DEF FilesInv, FreshOps
  <2>2. CASE UNCHANGED <<manifest, ops>>
    BY <1>p, <2>1, <2>2 DEF FilesInv, Manifests, PlainOps
  <2>3. CASE NewOp /\ Written(ops', [kind |-> "raw_batch", file |-> f])
    <3>1. ops' = ops + 1 /\ ops' \in Op
      BY <1>p, <2>3, Operations DEF NewOp, PlainOps, Op
    <3>2. IsManifest([kind |-> "raw_batch", file |-> f])
      BY DEF IsManifest
    <3>3. /\ manifest'[ops'] = [kind |-> "raw_batch", file |-> f] /\ Manifests'
          /\ \A o \in Op : o # ops' => manifest'[o] = manifest[o]
      BY <2>3, <3>1, <3>2, WrittenManifest DEF FilesInv
    <3>4. manifest[ops'] = NoManifest
      BY <1>p, <2>1, <3>1 DEF PlainOps
    <3>5. \A o \in Op : o \in Nat /\ o <= MaxOps
      BY Operations
    <3>6. ASSUME NEW o \in Op
          PROVE  /\ o > ops' => manifest'[o] = NoManifest
                 /\ o <= ops => manifest'[o] = manifest[o]
      <4>1. o \in Nat /\ ops \in Nat
        BY <1>p, <3>5 DEF PlainOps
      <4>2. o > ops' \/ o <= ops => o # ops'
        BY <3>1, <4>1
      <4>3. o > ops' => o > ops
        BY <3>1, <4>1
      <4>4. QED BY <2>1, <3>3, <4>2, <4>3
    <3>7. ASSUME NEW o \in Op
          PROVE  /\ manifest[o].kind # "none" => manifest'[o] = manifest[o]
                 /\ manifest'[o].kind \in Kind \cup {"delete"} => manifest'[o] = manifest[o]
      BY <3>3, <3>4, Kinds
    <3>8. QED BY <1>p, <3>1, <3>3, <3>5, <3>6, <3>7 DEF PlainOps
  <2>4. QED BY <2>2, <2>3 DEF Poll
<1>w. exp.at # "idle" => Places /\ D # f /\ manifest'[exp.op] = manifest[exp.op]
                         /\ exp.op \in Op /\ S # f /\ B # f
  <2>1. exp.at # "idle" => Places
    BY AtWork
  <2>2. QED BY <1>f, <1>m, <2>1 DEF Places
<1>3. TypeOK'
  <2>1. rows' \in [File -> [run : Run \cup {None}, content : Nat]]
    BY <1>e DEF RowForm
  <2>2. QED BY <1>1, <1>e, <2>1 DEF FilesInv, TypeOK
<1>4. Numbers'
  BY <1>1, <1>m, Operations DEF FilesInv, Numbers
<1>5. Manifests'
  BY <1>m
<1>6. FreshOps'
  <2>1. exp.op <= ops' /\ del.op <= ops' /\ \A o \in receipts : o <= ops'
    BY <1>m, <1>p, Operations DEF FilesInv, FreshOps, PlainOps
  <2>2. exp.at # "idle" => \A o \in Op : manifest'[o].kind \in Kind => o <= exp.op
    BY <1>m DEF FilesInv, FreshOps
  <2>3. exp.at # "idle" /\ del.at # "idle" => exp.op # del.op
    BY DEF FilesInv, FreshOps
  <2>4. QED BY <1>1, <1>m, <2>1, <2>2, <2>3 DEF FreshOps
<1>7. FreshFiles'
  <2>1. Limit \in Nat /\ Limit' \in Nat /\ Limit' >= Limit /\ Limit' >= 1
    <3>1. Limit \in Nat
      BY LimitNat
    <3>2. exp.at # "idle" => exp.op \in Nat /\ exp.op >= 1
      BY <1>w, Operations
    <3>3. Limit' = IF exp.at = "idle" THEN ops' + 1
                   ELSE IF exp.at \in Early THEN exp.op ELSE exp.op + 1
      BY <1>1 DEF Limit, NewContent, Early
    <3>4. Limit = IF exp.at = "idle" THEN ops + 1
                  ELSE IF exp.at \in Early THEN exp.op ELSE exp.op + 1
      BY DEF Limit, NewContent
    <3>5. ops \in Nat /\ ops' \in Nat /\ ops' >= ops
      BY <1>m, <1>p DEF PlainOps
    <3>6. CASE exp.at = "idle"
      <4>1. Limit' = ops' + 1 /\ Limit = ops + 1
        BY <3>3, <3>4, <3>6
      <4>2. PICK n \in Nat : n = ops'
        BY <3>5
      <4>3. n >= ops /\ Limit' = n + 1 /\ Limit = ops + 1
        BY <3>5, <4>1, <4>2
      <4>4. n + 1 \in Nat /\ ops + 1 \in Nat /\ n + 1 >= ops + 1 /\ n + 1 >= 1
        BY <3>5, <4>3
      <4>5. QED BY <4>3, <4>4, Zenon
    <3>7. CASE exp.at # "idle"
      BY <3>2, <3>3, <3>4, <3>7
    <3>8. QED BY <3>1, <3>6, <3>7
  <2>2. ASSUME NEW q \in File
        PROVE  /\ here'[q] <= Limit' /\ owed'[q] <= Limit' /\ rows'[q].content <= Limit'
               /\ \A o \in Op : aside[o][q] <= Limit'
    <3>1. /\ here[q] <= Limit /\ owed[q] <= Limit /\ rows[q].content <= Limit
          /\ \A o \in Op : aside[o][q] <= Limit
      BY DEF FilesInv, FreshFiles
    <3>2. /\ here[q] \in Nat /\ owed[q] \in Nat /\ rows[q].content \in Nat
          /\ \A o \in Op : aside[o][q] \in Nat
      BY <1>p, Sorts DEF PlainFiles
    <3>3. q \in Path
      BY Sorts
    <3>4. here'[q] \in {1, here[q]} /\ owed'[q] \in {1, owed[q]}
          /\ rows'[q].content \in {1, rows[q].content}
      BY <1>e, <3>3
    <3>5. QED BY <2>1, <3>1, <3>2, <3>4
  <2>3. QED BY <1>1, <2>2 DEF FreshFiles
<1>8. FreshHidden'
  <2>1. \A k \in Kind, o \in Op : here'[Staged(k, o)] = here[Staged(k, o)]
                                  /\ here'[Backup(k, o)] = here[Backup(k, o)]
    BY <1>e, <1>f
  <2>2. QED BY <1>1, <1>m, <2>1 DEF FilesInv, FreshHidden
<1>9. Unused'
  <2>1. \A k \in Kind, o \in Op : here'[Backup(k, o)] = here[Backup(k, o)]
    BY <1>e, <1>f
  <2>2. \A o \in Op : o > ops' => o > ops
    BY <1>m, <1>p, Operations DEF PlainOps
  <2>3. QED BY <1>1, <2>1, <2>2 DEF FilesInv, Unused
<1>10. Named'
  <2>1. \A o \in Op : manifest[o].kind = "delete" => manifest'[o] = manifest[o]
    BY <1>m
  <2>2. QED BY <1>1, <2>1 DEF FilesInv, Named
<1>11. NamedOutside'
  <2>1. \A o \in Op : /\ here'[Staged("external_export", o)] = here[Staged("external_export", o)]
                       /\ here'[Backup("external_export", o)] = here[Backup("external_export", o)]
    BY <1>e, <1>f, Kinds
  <2>2. \A o \in Op : manifest[o].kind = "external_export" => manifest'[o] = manifest[o]
    BY <1>m
  <2>3. QED BY <2>1, <2>2 DEF FilesInv, NamedOutside
<1>12. ManifestAtWork'
  BY <1>1, <1>w DEF FilesInv, ManifestAtWork
<1>13. FilesAtWork'
  <2>1. CASE exp.at = "idle"
    BY <1>1, <2>1 DEF FilesAtWork
  <2>2. CASE exp.at # "idle"
    <3>1. S' = S /\ B' = B /\ D' = D /\ New' = New
      BY <1>1 DEF S, B, D, New
    <3>2. here'[S] = here[S] /\ here'[B] = here[B] /\ here'[D] = here[D] /\ owed'[D] = owed[D]
      BY <1>e, <1>w, <2>2 DEF Places
    <3>3. QED BY <1>1, <3>1, <3>2 DEF FilesInv, FilesAtWork
  <2>3. QED BY <2>1, <2>2
<1>14. RowAtWork'
  <2>1. exp.at \in Leased => exp.at # "idle"
    BY DEF Leased
  <2>2. exp.at # "idle" => rows'[D] = rows[D] /\ owed'[D] = owed[D] /\ D' = D
    BY <1>1, <1>e, <1>w DEF Places, D
  <2>3. QED BY <1>1, <2>1, <2>2 DEF FilesInv, RowAtWork
<1>15. Receipts'
  <2>1. ASSUME NEW o \in Op, manifest'[o].kind = "external_export"
        PROVE  /\ \A q \in File : owed'[q] = NewContent(o) => o \in receipts
               /\ o \in receipts =>
                     owed'[manifest'[o].dest] = 0 \/ owed'[manifest'[o].dest] >= NewContent(o)
    <3>1. manifest'[o] = manifest[o]
      BY <1>m, <2>1, Kinds
    <3>2. manifest[o].dest \in File /\ owed'[manifest[o].dest] = owed[manifest[o].dest]
      BY <1>e, <1>f, <1>p, <2>1, <3>1, Kinds DEF PlainManifests
    <3>3. NewContent(o) # 1
      BY Operations
    <3>4. \A q \in File : owed'[q] = NewContent(o) => owed[q] = NewContent(o)
      BY <1>e, <3>3
    <3>5. QED BY <2>1, <3>1, <3>2, <3>4 DEF FilesInv, Receipts
  <2>2. QED BY <1>1, <2>1 DEF Receipts
<1>16. RowsOwed'
  <2>1. ASSUME NEW q \in File, rows'[q] # NoRow
        PROVE  /\ rows'[q].content # 0 /\ rows'[q].run \in runs /\ q \notin Outside
               /\ owed'[q] \in {0, rows'[q].content}
               /\ q \notin doubted => owed'[q] # 0
    <3>1. CASE q = f
      BY <1>e, <1>f, <3>1
    <3>2. CASE q # f
      BY <1>e, <2>1, <3>2 DEF FilesInv, RowsOwed
    <3>3. QED BY <3>1, <3>2
  <2>2. QED BY <1>1, <2>1 DEF RowsOwed
<1>17. RawFiles'
  <2>1. ASSUME NEW q \in Raw
        PROVE  /\ rows'[q] # NoRow => rows'[q].run = RawOf[q]
               /\ q \notin doubted
               /\ owed'[q] # 0 => rows'[q] # NoRow
               /\ here'[q] <= 1 /\ owed'[q] <= 1 /\ rows'[q].content <= 1
               /\ \A o \in Op : aside[o][q] <= 1
    <3>1. CASE q = f
      BY <1>e, <1>f, <3>1 DEF FilesInv, RawFiles, NoRow
    <3>2. CASE q # f
      BY <1>e, <3>2, Sorts DEF FilesInv, RawFiles
    <3>3. QED BY <3>1, <3>2
  <2>2. QED BY <1>1, <2>1 DEF RawFiles
<1>18. RunOfRow'
  <2>1. \A o \in Op : manifest'[o].kind = "export" =>
            manifest'[o] = manifest[o] /\ rows'[manifest[o].dest] = rows[manifest[o].dest]
    BY <1>e, <1>f, <1>m, <1>p, Kinds DEF PlainManifests
  <2>2. QED BY <2>1 DEF FilesInv, RunOfRow
<1>19. Unshown'
  <2>1. \A q \in Report : q # f /\ q \in File /\ q \in Path
    BY <1>f, Sorts
  <2>2. QED BY <1>1, <1>e, <2>1 DEF FilesInv, Unshown
<1>20. OldRows'
  <2>1. \A o \in Op : manifest'[o].kind = "export" =>
            manifest'[o] = manifest[o] /\ owed'[manifest[o].dest] = owed[manifest[o].dest]
    BY <1>e, <1>f, <1>m, <1>p, Kinds DEF PlainManifests
  <2>2. QED BY <2>1 DEF FilesInv, OldRows
<1>21. GoneRows'
  <2>1. ASSUME NEW o \in Op, manifest'[o].kind = "delete", NEW p \in DOMAIN manifest'[o].files,
               manifest'[o].files[p].registered, rows'[p] = NoRow
        PROVE  owed'[p] = 0 \/ aside[o][p] # owed'[p]
    <3>1. manifest'[o] = manifest[o] /\ IsSnapshot(manifest[o].files)
      BY <1>m, <2>1, ManifestKinds DEF FilesInv
    <3>2. p \in File
      BY <2>1, <3>1 DEF IsSnapshot
    <3>3. p # f
      BY <1>e, <1>f, <2>1 DEF NoRow
    <3>4. rows[p] = NoRow /\ owed'[p] = owed[p]
      BY <1>e, <2>1, <3>2, <3>3
    <3>5. QED BY <2>1, <3>1, <3>4 DEF FilesInv, GoneRows
  <2>2. QED BY <1>1, <2>1 DEF GoneRows
<1>22. Deleting'
  <2>1. CASE del.at = "idle"
    BY <1>1, <2>1, NoDeletion
  <2>2. CASE del.at # "idle"
    <3>1. del.op \in Op /\ del.op <= ops /\ manifest'[del.op] = manifest[del.op]
      BY <1>m, <1>p, <2>2 DEF FilesInv, FreshOps, PlainOps
    <3>2. \A p \in Path : p \in Report => here'[p] = here[p]
      BY <1>e, <1>f
    <3>3. ASSUME del.at \in {"stage", "commit"}
          PROVE  /\ manifest[del.op] = [kind |-> "delete", files |-> del.snap.files]
                 /\ \A p \in DOMAIN del.snap.files :
                       /\ del.snap.files[p].registered => rows'[p] # NoRow
                       /\ aside[del.op][p] \in {0, del.snap.files[p].content}
                       /\ del.target # All => p \in File /\
                            (del.snap.files[p].registered \/ (p \in Raw /\ RawOf[p] = del.target))
                       /\ p \in Report /\ (del.snap.files[p].content = 0 \/ aside[del.op][p] # 0)
                             => here'[p] = 0
      <4>1. manifest[del.op] = [kind |-> "delete", files |-> del.snap.files]
        BY <3>3 DEF FilesInv, Deleting
      <4>2. IsSnapshot(del.snap.files)
        BY <3>1, <4>1, ManifestKinds DEF FilesInv
      <4>3. ASSUME NEW p \in DOMAIN del.snap.files
            PROVE  del.snap.files[p].registered => rows'[p] # NoRow
        <5>1. del.snap.files[p].registered => p \in File /\ rows[p] # NoRow
          BY <3>3, <4>2 DEF FilesInv, Deleting, IsSnapshot
        <5>2. rows'[f] # NoRow
          BY <1>e DEF NoRow
        <5>3. QED BY <1>e, <5>1, <5>2
      <4>4. ASSUME NEW p \in DOMAIN del.snap.files
            PROVE  /\ aside[del.op][p] \in {0, del.snap.files[p].content}
                   /\ del.target # All => p \in File /\
                        (del.snap.files[p].registered \/ (p \in Raw /\ RawOf[p] = del.target))
                   /\ p \in Report /\ (del.snap.files[p].content = 0 \/ aside[del.op][p] # 0)
                         => here'[p] = 0
        <5>1. p \in Report => here'[p] = here[p]
          BY <3>2, Sorts
        <5>2. QED BY <3>3, <5>1 DEF FilesInv, Deleting
      <4>5. QED BY <4>1, <4>3, <4>4
    <3>4. QED BY <1>1, <3>1, <3>3 DEF FilesInv, Deleting
  <2>3. QED BY <2>1, <2>2
<1>23. Purging'
  <2>1. SUFFICES ASSUME del.at = "purge"
                 PROVE  /\ \A q \in File : owed'[q] # 0 => aside[del.op][q] # owed'[q]
                        /\ \A o \in Op : manifest'[o].kind \in Kind /\ owed'[manifest'[o].dest] # 0 =>
                              aside[del.op][Backup(manifest'[o].kind, o)] # owed'[manifest'[o].dest]
    BY <1>1 DEF Purging
  <2>2. del.op \in Op /\ aside[del.op][f] = 0
    BY <1>e, <1>p, <2>1 DEF PlainOps
  <2>3. \A q \in File : owed'[q] # 0 => aside[del.op][q] # owed'[q]
    BY <1>e, <2>1, <2>2 DEF FilesInv, Purging
  <2>4. \A o \in Op : manifest'[o].kind \in Kind =>
            manifest'[o] = manifest[o] /\ owed'[manifest[o].dest] = owed[manifest[o].dest]
    BY <1>e, <1>f, <1>m, <1>p DEF PlainManifests
  <2>5. QED BY <2>1, <2>3, <2>4 DEF FilesInv, Purging
<1>24. Recovering'
  <2>1. rec.at = "exports" => \A o \in Op : manifest'[o].kind # "delete"
    BY <1>m DEF FilesInv, Recovering
  <2>2. ASSUME rec.at = "deletes", rec.op # 0
        PROVE  manifest'[rec.op] = manifest[rec.op]
    <3>1. rec.op \in Op
      BY <1>p, <2>2 DEF PlainOps
    <3>2. manifest[rec.op].kind = "delete"
      BY <2>2 DEF FilesInv, Recovering
    <3>3. QED BY <1>m, <3>1, <3>2
  <2>3. QED BY <1>1, <2>1, <2>2 DEF FilesInv, Recovering
<1>25. NothingLost'
  <2>1. ASSUME NEW q \in Path \ {f}, NEW c, Found(q, c)
        PROVE  \/ here'[q] = c
               \/ \E o1 \in Op : /\ manifest'[o1].kind = "delete" /\ q \in DOMAIN manifest'[o1].files
                                 /\ aside[o1][q] = c
    <3>1. CASE here[q] = c
      BY <1>e, <3>1
    <3>2. CASE here[q] # c
      <4>1. PICK o1 \in Op : /\ manifest[o1].kind = "delete" /\ q \in DOMAIN manifest[o1].files
                             /\ aside[o1][q] = c
        BY <2>1, <3>2 DEF Found
      <4>2. manifest'[o1] = manifest[o1]
        BY <1>m, <4>1
      <4>3. QED BY <4>1, <4>2
    <3>3. QED BY <3>1, <3>2
  <2>2. ASSUME NEW q \in File, owed'[q] # 0, q # f
        PROVE  \/ here'[q] = owed'[q]
               \/ \E o1 \in Op : /\ manifest'[o1].kind = "delete" /\ q \in DOMAIN manifest'[o1].files
                                 /\ aside[o1][q] = owed'[q]
               \/ \E o2 \in Op :
                    /\ manifest'[o2].kind \in Kind /\ manifest'[o2].dest = q
                    /\ \/ here'[Backup(manifest'[o2].kind, o2)] = owed'[q]
                       \/ \E o1 \in Op :
                            /\ manifest'[o1].kind = "delete"
                            /\ Backup(manifest'[o2].kind, o2) \in DOMAIN manifest'[o1].files
                            /\ aside[o1][Backup(manifest'[o2].kind, o2)] = owed'[q]
    <3>1. owed'[q] = owed[q] /\ q \in Path \ {f}
      BY <1>e, <2>2, Sorts
    <3>2. CASE Found(q, owed[q])
      BY <2>1, <3>1, <3>2
    <3>3. CASE ~ Found(q, owed[q])
      <4>1. PICK o2 \in Op : /\ manifest[o2].kind \in Kind /\ manifest[o2].dest = q
                             /\ Found(Backup(manifest[o2].kind, o2), owed[q])
        BY <2>2, <3>1, <3>3 DEF FilesInv, NothingLost
      <4>2. manifest'[o2] = manifest[o2] /\ Backup(manifest[o2].kind, o2) \in Path \ {f}
        BY <1>f, <1>m, <4>1, Kinds
      <4>3. QED BY <2>1, <3>1, <4>1, <4>2
    <3>4. QED BY <3>2, <3>3
  <2>3. here'[f] = owed'[f]
    BY <1>e
  <2>4. QED BY <1>1, <2>2, <2>3 DEF NothingLost, Found
<1>26. QED BY <1>2, <1>3, <1>4, <1>5, <1>6, <1>7, <1>8, <1>9, <1>10, <1>11,
        <1>12, <1>13, <1>14, <1>15, <1>16, <1>17, <1>18, <1>19, <1>20, <1>21,
        <1>22, <1>23, <1>24, <1>25 DEF FilesInv

-----------------------------------------------------------------------------
(* The theorems                                                            *)

\* at first every file is where it is owed, and nothing is under way
LEMMA InitHolds == Init => FilesInv
<1> SUFFICES ASSUME Init PROVE FilesInv
  OBVIOUS
<1>1. PICK N \in SUBSET File :
         /\ \A f \in File : rows[f] # NoRow => f \in N
         /\ \A f \in N \cap Raw : rows[f] # NoRow
         /\ here = [p \in Path |-> IF p \in N THEN 1 ELSE 0]
  BY DEF Init, FilesInit
<1>2. /\ runs \subseteq Run /\ born = runs /\ running = {}
      /\ rows \in [File -> {NoRow} \cup [run : runs, content : {1}]]
      /\ \A f \in File : rows[f] # NoRow => /\ f \notin Outside
                                            /\ f \in Raw => rows[f].run = RawOf[f]
      /\ receipts = {} /\ owners = {} /\ attached = TRUE
      /\ aside = [o \in Op |-> [p \in Path |-> 0]]
      /\ manifest = [o \in Op |-> NoManifest]
      /\ maintenance = "free" /\ up = "up" /\ rec = NoRecovery /\ waiting = {}
      /\ ops = 0 /\ faults = 0 /\ crashes = 0 /\ detached = 0
      /\ owed = [f \in File |-> here[f]] /\ doubted = {} /\ overtaken = FALSE
      /\ pending = {} /\ del = NoDelete /\ exp = NoExport
  BY DEF Init, FilesInit, DeleteInit, ExportInit
<1>3. /\ exp.at = "idle" /\ exp.op = 0 /\ exp.kind = "export" /\ del.at = "idle" /\ del.op = 0
      /\ rec.at = "none" /\ rec.op = 0 /\ rec.todo = {}
  BY <1>2 DEF NoExport, NoDelete, NoRecovery
<1>4. /\ here \in [Path -> {0, 1}] /\ \A f \in File : here[f] = 1 <=> f \in N
      /\ \A p \in Path \ File : here[p] = 0
      /\ owed \in [File -> {0, 1}] /\ \A f \in File : owed[f] = here[f]
      /\ \A o \in Op, p \in Path : aside[o][p] = 0
      /\ \A o \in Op : manifest[o] = NoManifest /\ manifest[o].kind = "none"
  <2>1. here \in [Path -> {0, 1}] /\ \A f \in File : here[f] = 1 <=> f \in N
    BY <1>1, Sorts
  <2>2. \A p \in Path \ File : here[p] = 0
    BY <1>1
  <2>3. owed \in [File -> {0, 1}] /\ \A f \in File : owed[f] = here[f]
    BY <1>2, <2>1, Sorts
  <2>4. /\ \A o \in Op, p \in Path : aside[o][p] = 0
        /\ \A o \in Op : manifest[o] = NoManifest /\ manifest[o].kind = "none"
    BY <1>2, Kinds
  <2>5. QED BY <2>1, <2>2, <2>3, <2>4
<1>5. \A f \in File : /\ rows[f] \in RowForm /\ rows[f].content \in {0, 1}
                      /\ rows[f] # NoRow => rows[f].content = 1 /\ rows[f].run \in runs
                                            /\ owed[f] = 1
  BY <1>1, <1>2, <1>4 DEF RowForm, NoRow
<1>6. TypeOK
  <2>1. rows \in [File -> [run : Run \cup {None}, content : Nat]]
    BY <1>2, <1>5 DEF RowForm
  <2>2. here \in [Path -> Nat] /\ owed \in [File -> Nat]
    BY <1>4
  <2>3. aside \in [Op -> [Path -> Nat]]
    BY <1>2
  <2>4. QED BY <1>2, <2>1, <2>2, <2>3 DEF TypeOK
<1>7. Numbers /\ Flags /\ PendingForm
  <2>1. ops \in 0..MaxOps
    BY <1>2, Operations
  <2>2. Numbers
    BY <1>2, <2>1 DEF Numbers
  <2>3. attached \in BOOLEAN /\ overtaken \in BOOLEAN
    BY <1>2
  <2>4. PendingForm
    BY <1>2 DEF PendingForm
  <2>5. QED BY <2>2, <2>3, <2>4 DEF Flags
<1>8. Manifests
  <2>1. \A o \in Op : IsManifest(manifest[o])
    BY <1>4, NoManifestForm
  <2>2. manifest = [o \in Op |-> manifest[o]]
    BY <1>2
  <2>3. QED BY <2>1, <2>2 DEF Manifests
<1>9. ExportForm
  BY <1>2, FilesAssumption DEF ExportForm, IsExport, NoExport, ExportAt, Kind, RowForm, NoRow
<1>10. DeleteForm
  BY <1>2, FilesAssumption DEF DeleteForm, IsDelete, NoDelete, Target
<1>11. RecoveryForm
  BY <1>2, FilesAssumption DEF RecoveryForm, IsRecovery, NoRecovery
<1>12. Leases
  BY <1>2, <1>3 DEF Leases, Leased
<1>13. FreshOps
  BY <1>2, <1>3, <1>4 DEF FreshOps
<1>14. FreshFiles
  <2>1. Limit = 1
    BY <1>2, <1>3 DEF Limit, NewContent
  <2>2. \A f \in File : /\ here[f] \in {0, 1} /\ owed[f] \in {0, 1} /\ rows[f].content \in {0, 1}
                        /\ \A o \in Op : aside[o][f] = 0
    BY <1>4, <1>5, Sorts
  <2>3. QED BY <2>1, <2>2 DEF FreshFiles
<1>15. FreshHidden /\ Unused
  <2>1. \A k \in Kind, o \in Op :
           /\ here[Staged(k, o)] = 0 /\ here[Backup(k, o)] = 0 /\ 0 < NewContent(o)
           /\ \A o1 \in Op : aside[o1][Staged(k, o)] = 0 /\ aside[o1][Backup(k, o)] = 0
    BY <1>4, HiddenApart, Operations
  <2>2. FreshHidden
    BY <1>3, <1>4, <2>1, Kinds DEF FreshHidden
  <2>3. Unused
    BY <2>1 DEF Unused
  <2>4. QED BY <2>2, <2>3
<1>16. Named
  BY <1>4 DEF Named
<1>17. NamedOutside
  BY <1>4, HiddenApart, Kinds DEF NamedOutside
<1>18. ManifestAtWork /\ FilesAtWork
  BY <1>3 DEF ManifestAtWork, FilesAtWork
<1>19. RowAtWork
  BY <1>3 DEF RowAtWork, Leased
<1>20. Receipts /\ RunOfRow /\ OldRows /\ GoneRows
  BY <1>4 DEF Receipts, RunOfRow, OldRows, GoneRows
<1>21. RowsOwed
  BY <1>2, <1>5 DEF RowsOwed
<1>22. RawFiles
  <2>1. ASSUME NEW f \in Raw
        PROVE  /\ rows[f] # NoRow => rows[f].run = RawOf[f]
               /\ f \notin doubted
               /\ owed[f] # 0 => rows[f] # NoRow
               /\ here[f] <= 1 /\ owed[f] <= 1 /\ rows[f].content <= 1
               /\ \A o \in Op : aside[o][f] <= 1
    <3>1. f \in File /\ f \in Path
      BY Sorts
    <3>2. here[f] \in {0, 1} /\ owed[f] \in {0, 1} /\ rows[f].content \in {0, 1}
          /\ \A o \in Op : aside[o][f] = 0
      BY <1>4, <1>5, <3>1
    <3>3. owed[f] # 0 => rows[f] # NoRow
      BY <1>1, <1>4, <3>1, <3>2
    <3>4. QED BY <1>2, <3>1, <3>2, <3>3
  <2>2. QED BY <2>1 DEF RawFiles
<1>23. Unshown
  <2>1. \A f \in Report : owed[f] \in {0, 1}
    BY <1>4, Sorts
  <2>2. QED BY <2>1 DEF Unshown
<1>24. Deleting /\ Purging /\ Recovering
  BY <1>3 DEF Deleting, Purging, Recovering
<1>25. NothingLost
  BY <1>4 DEF NothingLost, Found
<1>26. QED BY <1>6, <1>7, <1>8, <1>9, <1>10, <1>11, <1>12, <1>13, <1>14, <1>15, <1>16,
              <1>17, <1>18, <1>19, <1>20, <1>21, <1>22, <1>23, <1>24, <1>25 DEF FilesInv

\* every step of a deletion, of the start about it, and of its previews
LEMMA DeleteKeeps ==
    ASSUME FilesInv, DeleteNext, UNCHANGED exp
    PROVE  FilesInv'
<1>1. ASSUME NEW t \in Run \cup {All}, Preview(t) PROVE FilesInv'
  BY <1>1, PreviewKeeps
<1>2. ASSUME NEW p \in pending, Discard(p) \/ Confirm(p) PROVE FilesInv'
  BY <1>2, DiscardKeeps, ConfirmKeeps
<1>3. ASSUME Check \/ AllStaged \/ Commit \/ CommitInDoubt \/ GiveUp PROVE FilesInv'
  BY <1>3, CheckKeeps, AllStagedKeeps, CommitKeeps, CommitInDoubtKeeps, GiveUpKeeps
<1>4. ASSUME NEW p \in Path, Stage(p) \/ Restore(p) \/ Purge(p) \/ Reconcile(p)
      PROVE  FilesInv'
  BY <1>4, StageKeeps, RestoreKeeps, PurgeKeeps, ReconcileKeeps
<1>5. ASSUME Restored \/ Purged \/ Reconciled PROVE FilesInv'
  BY <1>5, RestoredKeeps, PurgedKeeps, ReconciledKeeps
<1>6. QED BY <1>1, <1>2, <1>3, <1>4, <1>5 DEF DeleteNext

\* every step of an export, and of the start about it
LEMMA ExportKeeps ==
    ASSUME FilesInv, ExportNext, UNCHANGED <<pending, del>>
    PROVE  FilesInv'
<1>1. ASSUME NEW r \in Run, NEW d \in Report \cup Outside, ExportBegins(r, d) PROVE FilesInv'
  BY <1>1, ExportBeginsKeeps
<1>2. ASSUME Prepare \/ Render \/ NotRendered \/ CommitBegins \/ CommitRefused \/ DiscardStep
      PROVE  FilesInv'
  BY <1>2, PrepareKeeps, RenderKeeps, NotRenderedKeeps, CommitBeginKeeps, CommitRefusedKeeps,
     DiscardStepKeeps
<1>3. ASSUME Announce \/ BackUp \/ Install \/ Mark \/ Record \/ RecordInDoubt PROVE FilesInv'
  BY <1>3, AnnounceKeeps, BackUpKeeps, InstallKeeps, MarkKeeps, RecordKeeps, RecordInDoubtKeeps
<1>4. ASSUME Fails \/ ConfirmRecord \/ Clean \/ LeftBehind \/ RollBack PROVE FilesInv'
  BY <1>4, FailsKeeps, ConfirmRecordKeeps, CleanKeeps, LeftBehindKeeps, RollBackKeeps
<1>5. ASSUME NEW o \in Op, RecoverExport(o) \/ Postpone(o) PROVE FilesInv'
  BY <1>5, RecoverExportKeeps, PostponeKeeps
<1>6. QED BY <1>1, <1>2, <1>3, <1>4, <1>5 DEF ExportNext

\* a step of something else
LEMMA NothingHappens == FilesInv /\ UNCHANGED vars => FilesInv'
<1> SUFFICES ASSUME FilesInv, UNCHANGED vars PROVE FilesInv'
  OBVIOUS
<1>1. UNCHANGED <<db, here, aside, manifest, owners, waiting, owed, doubted, born, receipts, runs,
                  rows, maintenance, up, rec, ops, faults, crashes, detached, attached,
                  overtaken, pending, del, exp>>
  BY DEF vars, files, db, disk, start, counts, wish
<1>2. Limit' = Limit
  BY <1>1 DEF Limit
<1>3. QED BY <1>1, <1>2, Frames DEF FilesInv

\* every step
LEMMA NextKeeps == FilesInv /\ [Next]_vars => FilesInv'
<1> SUFFICES ASSUME FilesInv, [Next]_vars PROVE FilesInv'
  OBVIOUS
<1>1. CASE DeleteNext /\ UNCHANGED exp
  BY <1>1, DeleteKeeps
<1>2. CASE ExportNext /\ UNCHANGED <<pending, del>>
  BY <1>2, ExportKeeps
<1>3. CASE (\E r \in Run : RunBegins(r) \/ RunEnds(r)) /\ UNCHANGED <<pending, del, exp>>
  BY <1>3, RunBeginsKeeps, RunEndsKeeps
<1>4. CASE (\E f \in Raw : Poll(f)) /\ UNCHANGED <<pending, del, exp>>
  BY <1>4, PollKeeps
<1>5. CASE (Detach \/ Attach) /\ UNCHANGED <<pending, del, exp>>
  BY <1>5, DriveKeeps
<1>6. CASE Crash \/ RecoveryBegins \/ DeletesDone \/ Orphans \/ Stuck
  BY <1>6, CrashKeeps, RecoveryBeginsKeeps, DeletesDoneKeeps, OrphansKeep, StuckKeeps
<1>7. CASE \E o \in Op : NextDelete(o) \/ RecoverRaw(o)
  BY <1>7, NextDeleteKeeps, RecoverRawKeeps
<1>8. CASE UNCHANGED vars
  BY <1>8, NothingHappens
<1>9. QED BY <1>1, <1>2, <1>3, <1>4, <1>5, <1>6, <1>7, <1>8 DEF Next

(* FilesInv holds in every state.                                          *)
THEOREM FilesInvariant == Spec => []FilesInv
<1>1. Init => FilesInv
  BY InitHolds
<1>2. FilesInv /\ [Next]_vars => FilesInv'
  BY NextKeeps
<1>3. QED BY <1>1, <1>2, PTL DEF Spec

(* The type invariant.                                                     *)
THEOREM TypesCorrect == Spec => []TypeOK
<1>1. FilesInv => TypeOK
  BY DEF FilesInv
<1>2. QED BY <1>1, FilesInvariant, PTL

(* No file is lost that was not confirmed for deletion or replaced by a    *)
(* recorded report: whatever crashed, failed or was cut short, it is in its*)
(* place, or a manifest leads the next start to it.                        *)
THEOREM NothingIsLost == Spec => []NothingLost
<1>1. FilesInv => NothingLost
  BY DEF FilesInv
<1>2. QED BY <1>1, FilesInvariant, PTL

(* When nothing is under way and no manifest is left, every row whose      *)
(* commit was answered has the file it describes, nothing is set aside, and*)
(* the drive outside has no hidden file of ours.                           *)
THEOREM RestLeavesNothing == Spec => []RestIsWhole
<1>1. ASSUME FilesInv PROVE RestIsWhole
  <2>1. SUFFICES ASSUME \A o \in Op : manifest[o] = NoManifest
                 PROVE  /\ \A f \in File \ doubted : rows[f] # NoRow => here[f] = rows[f].content
                        /\ \A o \in Op, p \in Path : aside[o][p] = 0
                        /\ \A p \in Hidden("external_export") : here[p] = 0
    BY DEF RestIsWhole
  <2>2. \A o \in Op : manifest[o].kind \notin Kind \cup {"delete"}
    BY <2>1, Kinds
  <2>3. ASSUME NEW f \in File \ doubted, rows[f] # NoRow
        PROVE  here[f] = rows[f].content
    <3>1. owed[f] # 0 /\ owed[f] = rows[f].content
      BY <1>1, <2>3 DEF FilesInv, RowsOwed
    <3>2. here[f] = owed[f]
      BY <1>1, <2>2, <3>1 DEF FilesInv, NothingLost, Found
    <3>3. QED BY <3>1, <3>2
  <2>4. \A o \in Op, p \in Path : aside[o][p] = 0
    BY <1>1, <2>2 DEF FilesInv, Named
  <2>5. ASSUME NEW p \in Hidden("external_export")
        PROVE  here[p] = 0
    <3>1. PICK o \in Op : p = Staged("external_export", o) \/ p = Backup("external_export", o)
      BY DEF Hidden
    <3>2. manifest[o].kind # "external_export"
      BY <2>2, Kinds
    <3>3. QED BY <1>1, <3>1, <3>2 DEF FilesInv, NamedOutside
  <2>6. QED BY <2>3, <2>4, <2>5
<1>2. FilesInv => RestIsWhole
  BY <1>1
<1>3. QED BY <1>2, FilesInvariant, PTL

-----------------------------------------------------------------------------
(* Crashes alone: what a step leaves                                       *)

\* manifests stay or go
Fewer == \A o \in Op : manifest'[o] \in {manifest[o], NoManifest}

\* what is left alone when they do
LEMMA FewerKeep ==
    ASSUME FilesInv, CalmInv, Fewer, born \ runs \subseteq born' \ runs'
    PROVE  /\ UNCHANGED <<waiting, rec, ops, exp, del>> => WaitingOutside'
           /\ UNCHANGED <<up, del>> => OneDeletion'
           /\ UNCHANGED <<up, exp>> => OneExport'
           /\ Apart'
           /\ UNCHANGED exp => Destinations'
           /\ UNCHANGED <<here, aside, rows>> => DeletedFiles'
           /\ UNCHANGED <<del, rows>> => RowsOfDeletion'
           /\ UNCHANGED <<here, rows>> => RawRows'
           /\ UNCHANGED <<here, aside, rows, receipts>> => ExportsLeft'
           /\ UNCHANGED <<ops, exp, here, aside>> => Unstaged'
<1>k. \A o \in Op : \/ manifest'[o] = manifest[o]
                    \/ manifest'[o] = NoManifest /\ manifest'[o].kind = "none"
  BY Kinds DEF Fewer
<1>o. waiting \cup rec.before \subseteq Op /\ (del.at # "idle" => del.op \in Op)
  BY DEF FilesInv, TypeOK, RecoveryForm, IsRecovery, DeleteForm, IsDelete
<1>1. UNCHANGED <<waiting, rec, ops, exp, del>> => WaitingOutside'
  BY <1>k, <1>o DEF CalmInv, WaitingOutside
<1>2. UNCHANGED <<up, del>> => OneDeletion'
  BY <1>k DEF CalmInv, OneDeletion
<1>3. UNCHANGED <<up, exp>> => OneExport'
  BY <1>k DEF CalmInv, OneExport
<1>4. Apart'
  BY <1>k DEF CalmInv, Apart
<1>5. UNCHANGED exp => Destinations'
  BY <1>k, Kinds DEF CalmInv, Destinations
<1>6. UNCHANGED <<here, aside, rows>> => DeletedFiles'
  BY <1>k DEF CalmInv, DeletedFiles, InOnePlace
<1>7. UNCHANGED <<del, rows>> => RowsOfDeletion'
  BY <1>k, <1>o DEF CalmInv, RowsOfDeletion
<1>8. UNCHANGED <<here, rows>> => RawRows'
  BY <1>k DEF CalmInv, RawRows
<1>9. UNCHANGED <<here, aside, rows, receipts>> => ExportsLeft'
  BY <1>k, Kinds DEF CalmInv, ExportsLeft, Recoverable, Unrecoverable, Done, IsNew, IsOld,
     Contents
<1>10. UNCHANGED <<ops, exp, here, aside>> => Unstaged'
  BY <1>k DEF CalmInv, Unstaged
<1>11. QED BY <1>1, <1>2, <1>3, <1>4, <1>5, <1>6, <1>7, <1>8, <1>9, <1>10

\* ... or nothing at all does
LEMMA AnnouncedFrame ==
    CalmInv /\ UNCHANGED <<exp, manifest, receipts, rows>> => Announced'
  BY DEF CalmInv, Announced, D, New

LEMMA CalmFrames ==
    ASSUME FilesInv, CalmInv,
           UNCHANGED <<manifest, waiting, rec, ops, exp, del, up, here, aside, rows, receipts,
                       doubted>>,
           born \ runs \subseteq born' \ runs'
    PROVE  CalmInv'
<1>1. Fewer
  BY DEF Fewer
<1>2. doubted' = {}
  BY DEF CalmInv
<1>3. QED BY <1>1, <1>2, FewerKeep, AnnouncedFrame DEF CalmInv

\* the files of an export that left a manifest
LEMMA ExportPaths ==
    ASSUME FilesInv, NEW o \in Op, manifest[o].kind \in Kind
    PROVE  /\ Staged(manifest[o].kind, o) \in Path \ File
           /\ Backup(manifest[o].kind, o) \in Path \ File
           /\ manifest[o].dest \in File \ Raw /\ manifest[o].dest \in Path
           /\ manifest[o].phase \in Phases /\ manifest[o].prev \in Nat
           /\ manifest[o].prev < NewContent(o) /\ NewContent(o) # 0
           /\ manifest[o].kind = "export" <=> manifest[o].dest \in Report
           /\ manifest[o].kind # "export" => manifest[o].dest \in Outside
<1>1. Staged(manifest[o].kind, o) \in Path \ File /\ Backup(manifest[o].kind, o) \in Path \ File
  BY HiddenApart
<1>2. /\ manifest[o].dest \in File \ Raw /\ manifest[o].prev \in Nat
      /\ manifest[o].kind = "export" <=> manifest[o].dest \in Report
      /\ manifest[o].kind # "export" => manifest[o].dest \in Outside
  BY Plain DEF PlainManifests
<1>3. manifest[o].phase \in Phases
  BY ManifestKinds DEF IsExporting, FilesInv
<1>4. manifest[o].prev < NewContent(o)
  BY DEF FilesInv, FreshHidden
<1>5. NewContent(o) # 0
  BY Operations
<1>6. QED BY <1>1, <1>2, <1>3, <1>4, <1>5, Sorts

\* a start accepts an export that it accepted
LEMMA RecoverableKeeps ==
    ASSUME NEW o \in Op, Recoverable(o), manifest'[o] = manifest[o],
           o \in receipts' <=> o \in receipts,
           LET m == manifest[o]
               b == Backup(m.kind, o) IN
           /\ here'[b] = here[b]
           /\ m.phase = "PREPARED" => \A o1 \in Op : aside'[o1][b] = 0
           /\ m.phase # "PREPARED" => /\ here'[m.dest] = here[m.dest]
                                      /\ here'[Staged(m.kind, o)] = here[Staged(m.kind, o)]
                                      /\ m.kind = "export" => rows'[m.dest] = rows[m.dest]
    PROVE  Recoverable(o)'
<1>1. CASE manifest[o].phase = "PREPARED"
  BY <1>1 DEF Recoverable, Unrecoverable
<1>2. CASE manifest[o].phase # "PREPARED"
  BY <1>2 DEF Recoverable, Unrecoverable, Done, IsNew, IsOld, Contents
<1>3. QED BY <1>1, <1>2

\* ... one that is to be undone: nothing is recorded, and the files are where
\* they can be told apart
Undone(o) ==
    LET m == manifest[o]
        s == Staged(m.kind, o)
        b == Backup(m.kind, o) IN
    /\ m.phase \in {"RENDERED", "INSTALLED"} /\ ~ Done(o, m)
    /\ m.kind = "export" => IsOld(m)
    /\ here[s] \in {0, NewContent(o)} /\ here[b] \in {0, m.prev}
    /\ here[b] # 0 \/ m.prev = 0 => here[m.dest] \in {0, NewContent(o)}
    /\ here[b] = 0 /\ m.prev # 0 => here[m.dest] = m.prev

LEMMA UndoneFits == ASSUME NEW o \in Op, Undone(o)' PROVE Recoverable(o)'
  BY DEF Undone, Recoverable, Unrecoverable, Done, IsNew, IsOld, Contents

\* ... and one that is done: the report is at its destination
Finished(o) ==
    LET m == manifest[o]
        s == Staged(m.kind, o)
        b == Backup(m.kind, o) IN
    /\ m.phase # "PREPARED" /\ Done(o, m) /\ (m.kind # "export" => m.phase # "RENDERED")
    /\ here[s] \in {0, NewContent(o)} /\ here[b] \in {0, m.prev}
    /\ here[m.dest] = NewContent(o) /\ NewContent(o) # 0

LEMMA FinishedFits == ASSUME NEW o \in Op, Finished(o)' PROVE Recoverable(o)'
  BY DEF Finished, Recoverable, Unrecoverable, Done, IsNew, IsOld, Contents

\* what is accepted is one or the other, or has not begun to move files
LEMMA Accepted ==
    ASSUME FilesInv, NEW o \in Op, manifest[o].kind \in Kind, Recoverable(o),
           manifest[o].phase # "PREPARED"
    PROVE  /\ ~ Done(o, manifest[o]) => Undone(o)
           /\ Done(o, manifest[o]) /\ here[manifest[o].dest] # 0 => Finished(o)
<1>1. manifest[o].phase \in Phases /\ NewContent(o) # 0
  BY ExportPaths
<1>2. ~ Done(o, manifest[o]) => Undone(o)
  BY <1>1 DEF Undone, Recoverable, Unrecoverable, Contents, Phases
<1>3. Done(o, manifest[o]) /\ here[manifest[o].dest] # 0 => Finished(o)
  BY <1>1 DEF Finished, Recoverable, Unrecoverable, Contents, Phases
<1>4. QED BY <1>2, <1>3
\* a file of a deletion goes aside, comes back or is purged
LEMMA FileShifts ==
    ASSUME FilesInv, CalmInv, NEW o \in Op, NEW p \in Path, manifest[o].kind = "delete",
           p \in DOMAIN manifest[o].files,
           UNCHANGED <<runs, born, rows, receipts, manifest, doubted, ops, exp, up, waiting,
                       del>>,
           rec'.before = rec.before,
           \A q \in Path : q # p => here'[q] = here[q],
           \A o1 \in Op, q \in Path : o1 # o \/ q # p => aside'[o1][q] = aside[o1][q],
           here'[p] \in {0, here[p], aside[o][p]}, aside'[o][p] \in {0, here[p], aside[o][p]},
           here'[p] = 0 \/ aside'[o][p] = 0,
           manifest[o].files[p].registered /\ rows[p] # NoRow => here'[p] # 0 \/ aside'[o][p] # 0,
           manifest[o].files[p].registered /\ rows[p] = NoRow => here'[p] = 0
    PROVE  CalmInv'
<1>f. InOnePlace(o, p) /\ p \in File \cup Inside
  BY ManifestKinds DEF CalmInv, DeletedFiles, FilesInv, IsSnapshot
<1>1. Fewer /\ doubted' = {} /\ born \ runs \subseteq born' \ runs'
  BY DEF Fewer, CalmInv
<1>2. OneDeletion' /\ OneExport' /\ Apart' /\ Destinations' /\ RowsOfDeletion' /\ Announced'
  BY <1>1, FewerKeep, AnnouncedFrame
<1>3. WaitingOutside'
  BY DEF CalmInv, WaitingOutside
<1>4. DeletedFiles'
  <2>1. ASSUME NEW o1 \in Op, manifest[o1].kind = "delete", NEW q \in DOMAIN manifest[o1].files
        PROVE  InOnePlace(o1, q)'
    <3>1. InOnePlace(o1, q) /\ q \in Path
      BY <2>1, ManifestKinds, Sorts DEF CalmInv, DeletedFiles, FilesInv, IsSnapshot
    <3>2. o1 = o
      BY <2>1 DEF CalmInv, OneDeletion
    <3>3. CASE q # p
      BY <3>1, <3>2, <3>3 DEF InOnePlace
    <3>4. CASE q = p
      BY <1>f, <3>2, <3>4 DEF InOnePlace
    <3>5. QED BY <3>3, <3>4
  <2>2. QED BY <2>1 DEF DeletedFiles
<1>5. RawRows'
  <2>1. ASSUME NEW f \in Raw, here'[f] # 0
        PROVE  rows[f] # NoRow
    <3>1. CASE f # p
      BY <2>1, <3>1, Sorts DEF CalmInv, RawRows
    <3>2. CASE f = p
      BY <2>1, <3>2, <1>f DEF InOnePlace
    <3>3. QED BY <3>1, <3>2
  <2>2. QED BY <2>1 DEF CalmInv, RawRows
<1>6. ExportsLeft'
  <2>1. ASSUME NEW o1 \in Op, manifest[o1].kind \in Kind
        PROVE  Recoverable(o1)'
    <3> DEFINE s == Staged(manifest[o1].kind, o1)
               b == Backup(manifest[o1].kind, o1)
               d == manifest[o1].dest
    <3>1. Recoverable(o1) /\ s \in Path \ File /\ b \in Path \ File /\ d \in File \ Raw
          /\ d \in Path
      BY <2>1, ExportPaths DEF CalmInv, ExportsLeft
    <3>2. CASE manifest[o1].phase = "PREPARED"
      <4>1. here[b] = 0 /\ \A o2 \in Op : aside[o2][b] = 0
        BY <3>1, <3>2 DEF Recoverable, Unrecoverable
      <4>2. here'[b] = 0 /\ \A o2 \in Op : aside'[o2][b] = 0
        BY <3>1, <4>1
      <4>3. QED BY <3>1, <3>2, <4>1, <4>2, RecoverableKeeps
    <3>3. CASE manifest[o1].phase # "PREPARED"
      <4>1. manifest[o1].kind = "external_export"
        BY <2>1, <3>3, Kinds DEF CalmInv, Apart
      <4>2. d \in Outside
        BY <2>1, <4>1, ExportPaths
      <4>3. p \notin Outside
        BY <1>f DEF InOnePlace
      <4>4. s # p /\ b # p /\ d # p
        BY <1>f, <4>1, <4>2, <4>3, OutsideHidden
      <4>5. here'[s] = here[s] /\ here'[b] = here[b] /\ here'[d] = here[d]
        BY <3>1, <4>4
      <4>6. QED BY <3>1, <3>3, <4>5, RecoverableKeeps
    <3>4. QED BY <3>2, <3>3
  <2>2. QED BY <2>1 DEF ExportsLeft
<1>7. Unstaged'
  <2>1. ASSUME NEW k \in Kind, NEW o1 \in Op,
               o1 > ops \/ (exp.at \in {"prepare", "render"} /\ o1 = exp.op)
        PROVE  /\ here'[Staged(k, o1)] = 0 /\ \A o2 \in Op : aside'[o2][Staged(k, o1)] = 0
               /\ \A o2 \in Op : manifest[o2].kind = "delete" =>
                      Staged(k, o1) \notin DOMAIN manifest[o2].files
    <3>1. /\ here[Staged(k, o1)] = 0 /\ \A o2 \in Op : aside[o2][Staged(k, o1)] = 0
          /\ \A o2 \in Op : manifest[o2].kind = "delete" =>
                 Staged(k, o1) \notin DOMAIN manifest[o2].files
      BY <2>1 DEF CalmInv, Unstaged
    <3>2. Staged(k, o1) # p /\ Staged(k, o1) \in Path
      BY <3>1, HiddenApart
    <3>3. QED BY <3>1, <3>2
  <2>2. QED BY <2>1 DEF Unstaged
<1>8. QED BY <1>1, <1>2, <1>3, <1>4, <1>5, <1>6, <1>7 DEF CalmInv

(* An export, or a start about one, works on the files of operation o and  *)
(* on destination d.                                                       *)
WorkOn(k, o, d) ==
    /\ \A q \in Path \ {Staged(k, o), Backup(k, o), d} : here'[q] = here[q]
    /\ \A f \in File \ {d} : rows'[f] = rows[f]
    /\ \A o1 \in Op : o1 # o => /\ manifest'[o1] = manifest[o1]
                                /\ (o1 \in receipts' <=> o1 \in receipts)
    /\ manifest[o].kind \in {k, "none"} /\ manifest'[o].kind \in {k, "none"}
    /\ UNCHANGED <<runs, born, aside>>

\* what the others have is as it was
LEMMA WorkKeeps ==
    ASSUME FilesInv, CalmInv, NEW k \in Kind, NEW o \in Op, NEW d \in File \ Raw,
           WorkOn(k, o, d),
           \A o1 \in Op : manifest[o1].kind \in Kind /\ manifest[o1].dest = d => o1 = o,
           manifest'[o].kind = k => Recoverable(o)',
           \/ \A o1 \in Op : manifest[o1].kind # "delete"
           \/ /\ here'[d] = here[d] /\ here'[Backup(k, o)] = here[Backup(k, o)] /\ UNCHANGED rows
              /\ \/ here'[Staged(k, o)] \in {0, here[Staged(k, o)]}
                 \/ exp.at \in {"prepare", "render"} /\ o = exp.op
    PROVE  /\ ExportsLeft' /\ DeletedFiles' /\ RawRows'
           /\ UNCHANGED del => RowsOfDeletion'
<1>k. k # "delete" /\ k # "raw_batch" /\ k # "none"
  BY Kinds
<1>1. ExportsLeft'
  <2>1. ASSUME NEW o1 \in Op, manifest'[o1].kind \in Kind
        PROVE  Recoverable(o1)'
    <3>1. CASE o1 = o
      BY <2>1, <3>1, Kinds DEF WorkOn
    <3>2. CASE o1 # o
      <4> DEFINE s == Staged(manifest[o1].kind, o1)
                 b == Backup(manifest[o1].kind, o1)
                 e == manifest[o1].dest
      <4>1. manifest'[o1] = manifest[o1] /\ manifest[o1].kind \in Kind
            /\ (o1 \in receipts' <=> o1 \in receipts)
        BY <2>1, <3>2 DEF WorkOn
      <4>2. /\ Recoverable(o1) /\ s \in Path \ File /\ b \in Path \ File /\ e \in File
            /\ e \in Path
        BY <4>1, ExportPaths DEF CalmInv, ExportsLeft
      <4>3. e # d
        BY <3>2, <4>1
      <4>4. /\ s \notin {Staged(k, o), Backup(k, o), d} /\ b \notin {Staged(k, o), Backup(k, o), d}
            /\ e \notin {Staged(k, o), Backup(k, o), d}
        BY <3>2, <4>1, <4>2, <4>3, HiddenApart
      <4>5. here'[s] = here[s] /\ here'[b] = here[b] /\ here'[e] = here[e]
            /\ rows'[e] = rows[e] /\ aside' = aside
        BY <4>2, <4>3, <4>4 DEF WorkOn
      <4>6. manifest[o1].phase = "PREPARED" => \A o2 \in Op : aside[o2][b] = 0
        BY <4>2 DEF Recoverable
      <4>7. QED BY <4>1, <4>2, <4>5, <4>6, RecoverableKeeps
    <3>3. QED BY <3>1, <3>2
  <2>2. QED BY <2>1 DEF ExportsLeft
<1>2. \A o1 \in Op : manifest'[o1].kind \in {"delete", "raw_batch"} => manifest'[o1] = manifest[o1]
  BY <1>k DEF WorkOn
<1>3. DeletedFiles'
  <2>1. ASSUME NEW o1 \in Op, manifest'[o1].kind = "delete", NEW q \in DOMAIN manifest'[o1].files
        PROVE  InOnePlace(o1, q)'
    <3>1. manifest'[o1] = manifest[o1] /\ manifest[o1].kind = "delete"
      BY <1>2, <2>1
    <3>2. /\ here'[d] = here[d] /\ here'[Backup(k, o)] = here[Backup(k, o)] /\ UNCHANGED rows
          /\ \/ here'[Staged(k, o)] \in {0, here[Staged(k, o)]}
             \/ exp.at \in {"prepare", "render"} /\ o = exp.op
      BY <3>1
    <3>3. /\ InOnePlace(o1, q) /\ q \in Path
          /\ manifest[o1].files[q].registered => q \in File
      BY <2>1, <3>1, ManifestKinds, Sorts DEF CalmInv, DeletedFiles, FilesInv, IsSnapshot
    <3>4. UNCHANGED <<runs, born, aside>>
      BY DEF WorkOn
    <3>5. CASE here'[q] = here[q]
      BY <3>1, <3>2, <3>3, <3>4, <3>5 DEF InOnePlace
    <3>6. CASE here'[q] # here[q]
      <4>1. q = Staged(k, o)
        BY <3>2, <3>3, <3>6 DEF WorkOn
      <4>2. q \notin File
        BY <4>1, HiddenApart
      <4>3. ~ (exp.at \in {"prepare", "render"} /\ o = exp.op)
        BY <2>1, <3>1, <4>1 DEF CalmInv, Unstaged
      <4>4. here'[q] = 0
        BY <3>2, <3>6, <4>1, <4>3
      <4>5. /\ ~ manifest[o1].files[q].registered /\ q \notin Raw
        BY <3>3, <4>2, Sorts
      <4>6. QED BY <3>1, <3>2, <3>3, <3>4, <4>4, <4>5 DEF InOnePlace
    <3>7. QED BY <3>5, <3>6
  <2>2. QED BY <2>1 DEF DeletedFiles
<1>4. RawRows'
  <2>1. \A f \in Raw : here'[f] = here[f] /\ rows'[f] = rows[f]
    <3>1. ASSUME NEW f \in Raw
          PROVE  here'[f] = here[f] /\ rows'[f] = rows[f]
      <4>1. f \in File /\ f \in Path /\ f # d
        BY Sorts
      <4>2. f # Staged(k, o) /\ f # Backup(k, o)
        BY <4>1, HiddenApart
      <4>3. QED BY <4>1, <4>2 DEF WorkOn
    <3>2. QED BY <3>1
  <2>2. \A o1 \in Op : manifest[o1].kind = "raw_batch" => manifest[o1].file \in Raw
    BY ManifestKinds DEF FilesInv
  <2>3. UNCHANGED <<runs, born>>
    BY DEF WorkOn
  <2>4. QED BY <1>2, <2>1, <2>2, <2>3 DEF CalmInv, RawRows
<1>5. ASSUME UNCHANGED del PROVE RowsOfDeletion'
  <2>1. CASE manifest'[del.op].kind = "delete" /\ del.at # "idle"
    <3>1. del.op \in Op
      BY <2>1, Plain DEF PlainOps
    <3>2. manifest'[del.op] = manifest[del.op] /\ UNCHANGED rows
      BY <1>2, <2>1, <3>1
    <3>3. QED BY <1>5, <3>2 DEF CalmInv, RowsOfDeletion
  <2>2. CASE ~ (manifest'[del.op].kind = "delete" /\ del.at # "idle")
    BY <1>5, <2>2 DEF CalmInv, RowsOfDeletion
  <2>3. QED BY <2>1, <2>2
<1>6. QED BY <1>1, <1>3, <1>4, <1>5

\* reports that are yet to be rendered are not there yet
LEMMA StillUnstaged ==
    ASSUME FilesInv, CalmInv, UNCHANGED aside,
           \A o \in Op : o > ops' => o > ops,
           exp'.at \in {"prepare", "render"} =>
               (exp.at \in {"prepare", "render"} /\ exp'.op = exp.op) \/ exp'.op > ops,
           \A o \in Op : manifest'[o].kind = "delete" => manifest'[o] = manifest[o],
           \A k \in Kind, o \in Op :
               \/ here'[Staged(k, o)] \in {0, here[Staged(k, o)]}
               \/ exp.at # "idle" /\ o = exp.op /\ o <= ops' /\ exp'.at \notin {"prepare", "render"}
    PROVE  Unstaged'
<1>1. ASSUME NEW k \in Kind, NEW o \in Op,
             o > ops' \/ (exp'.at \in {"prepare", "render"} /\ o = exp'.op)
      PROVE  /\ here'[Staged(k, o)] = 0
             /\ \A o1 \in Op : /\ aside[o1][Staged(k, o)] = 0
                               /\ manifest'[o1].kind = "delete" =>
                                     Staged(k, o) \notin DOMAIN manifest'[o1].files
  <2>1. o > ops \/ (exp.at \in {"prepare", "render"} /\ o = exp.op)
    BY <1>1
  <2>2. /\ here[Staged(k, o)] = 0
        /\ \A o1 \in Op : /\ aside[o1][Staged(k, o)] = 0
                          /\ manifest[o1].kind = "delete" =>
                                Staged(k, o) \notin DOMAIN manifest[o1].files
    BY <2>1 DEF CalmInv, Unstaged
  <2>3. here'[Staged(k, o)] = 0
    <3>1. CASE here'[Staged(k, o)] \in {0, here[Staged(k, o)]}
      BY <2>2, <3>1
    <3>2. CASE exp.at # "idle" /\ o = exp.op /\ o <= ops' /\ exp'.at \notin {"prepare", "render"}
      <4>1. o > ops' /\ o <= ops' /\ o \in Nat
        BY <1>1, <3>2, Operations
      <4>2. o > ops /\ exp.op <= ops /\ ops \in Nat
        BY <3>2, <4>1, Plain DEF FilesInv, FreshOps, PlainOps
      <4>3. QED BY <3>2, <4>1, <4>2
    <3>3. QED BY <3>1, <3>2
  <2>4. QED BY <2>2, <2>3
<1>2. QED BY <1>1 DEF Unstaged

\* an export goes on, with a manifest that it had or has written
LEMMA ExportStays ==
    ASSUME FilesInv, CalmInv, exp.at # "idle", exp'.op = exp.op, exp'.dest = exp.dest,
           exp'.at # "idle", \A o \in Op : o # exp.op => manifest'[o] = manifest[o],
           \/ manifest'[exp.op] \in {manifest[exp.op], NoManifest}
           \/ /\ manifest'[exp.op].kind = exp.kind /\ manifest'[exp.op].dest = exp.dest
              /\ \/ manifest'[exp.op].phase = "PREPARED"
                 \/ \A o \in Op : manifest[o].kind # "delete",
           UNCHANGED <<waiting, rec, up, del, ops>>
    PROVE  WaitingOutside' /\ OneDeletion' /\ OneExport' /\ Apart' /\ Destinations'
<1>o. waiting \cup rec.before \subseteq Op /\ exp.op \in Op /\ exp.kind \in Kind
  BY Plain DEF FilesInv, TypeOK, RecoveryForm, IsRecovery, PlainOps, PlainExport
<1>k. \A o \in Op : \/ manifest'[o] = manifest[o]
                    \/ manifest'[o] = NoManifest /\ manifest'[o].kind = "none"
                    \/ /\ o = exp.op /\ manifest'[o].kind = exp.kind /\ manifest'[o].dest = exp.dest
                       /\ \/ manifest'[o].phase = "PREPARED"
                          \/ \A o1 \in Op : manifest[o1].kind # "delete"
  BY Kinds
<1>1. WaitingOutside'
  BY <1>o, <1>k DEF CalmInv, WaitingOutside
<1>2. OneDeletion'
  BY <1>o, <1>k, Kinds DEF CalmInv, OneDeletion
<1>3. OneExport'
  BY <1>o, <1>k DEF CalmInv, OneExport
<1>4. Apart'
  BY <1>o, <1>k, Kinds DEF CalmInv, Apart
<1>5. Destinations'
  <2>1. ASSUME NEW o \in Op, manifest'[o].kind \in Kind, manifest'[o].dest = exp.dest
        PROVE  o = exp.op
    BY <1>k, <2>1, Kinds DEF CalmInv, Destinations
  <2>2. ASSUME NEW o1 \in Op, NEW o2 \in Op, manifest'[o1].kind \in Kind,
               manifest'[o2].kind \in Kind, manifest'[o1].dest = manifest'[o2].dest
        PROVE  o1 = o2
    <3>1. CASE manifest'[o1].dest = exp.dest
      BY <2>1, <2>2, <3>1
    <3>2. CASE manifest'[o1].dest # exp.dest
      <4>1. manifest'[o1] = manifest[o1] /\ manifest'[o2] = manifest[o2]
        BY <1>k, <2>2, <3>2, Kinds
      <4>2. QED BY <2>2, <4>1 DEF CalmInv, Destinations
    <3>3. QED BY <3>1, <3>2
  <2>3. QED BY <2>1, <2>2 DEF Destinations
<1>6. QED BY <1>1, <1>2, <1>3, <1>4, <1>5

\* ... and with files that a start accepts
LEMMA ExportStep ==
    ASSUME FilesInv, CalmInv, exp.at # "idle", exp'.op = exp.op, exp'.dest = exp.dest,
           exp'.at # "idle",
           exp'.at \in {"prepare", "render"} => exp.at \in {"prepare", "render"},
           WorkOn(exp.kind, exp.op, D),
           \/ manifest'[exp.op] \in {manifest[exp.op], NoManifest}
           \/ /\ manifest'[exp.op].kind = exp.kind /\ manifest'[exp.op].dest = exp.dest
              /\ \/ manifest'[exp.op].phase = "PREPARED"
                 \/ \A o \in Op : manifest[o].kind # "delete",
           manifest'[exp.op].kind = exp.kind => Recoverable(exp.op)',
           \/ \A o \in Op : manifest[o].kind # "delete"
           \/ /\ here'[D] = here[D] /\ here'[B] = here[B] /\ UNCHANGED rows
              /\ here'[S] \in {0, here[S]} \/ exp.at \in {"prepare", "render"},
           here'[S] \in {0, here[S]} \/ exp'.at \notin {"prepare", "render"},
           Announced', doubted' = {}, UNCHANGED <<waiting, rec, up, del, ops>>
    PROVE  CalmInv'
<1>p. Places
  BY AtWork
<1>k. exp.kind # "delete" /\ exp.kind # "none"
  BY <1>p, Kinds DEF Places
<1>1. WaitingOutside' /\ OneDeletion' /\ OneExport' /\ Apart' /\ Destinations'
  BY ExportStays DEF WorkOn
<1>2. \A o \in Op : manifest[o].kind \in Kind /\ manifest[o].dest = D => o = exp.op
  BY <1>p DEF CalmInv, Destinations, Places
<1>3. D \in File \ Raw /\ exp.kind \in Kind /\ exp.op \in Op
      /\ B = Backup(exp.kind, exp.op) /\ S = Staged(exp.kind, exp.op)
  BY <1>p DEF Places
<1>4. ExportsLeft' /\ DeletedFiles' /\ RawRows' /\ RowsOfDeletion'
  BY <1>2, <1>3, WorkKeeps
<1>5. Unstaged'
  <2>1. \A o \in Op : manifest'[o].kind = "delete" => manifest'[o] = manifest[o]
    BY <1>k, <1>3, Kinds DEF WorkOn
  <2>2. ASSUME NEW k \in Kind, NEW o \in Op
        PROVE  \/ here'[Staged(k, o)] \in {0, here[Staged(k, o)]}
               \/ exp.at # "idle" /\ o = exp.op /\ o <= ops'
                  /\ exp'.at \notin {"prepare", "render"}
    <3>1. CASE Staged(k, o) = S
      BY <1>p, <3>1 DEF Places
    <3>2. CASE Staged(k, o) # S
      <4>1. Staged(k, o) \in Path /\ Staged(k, o) # B /\ Staged(k, o) # D
        BY <1>p DEF Places
      <4>2. QED BY <1>3, <3>2, <4>1 DEF WorkOn
    <3>3. QED BY <3>1, <3>2
  <2>3. UNCHANGED aside
    BY DEF WorkOn
  <2>4. QED BY <2>1, <2>2, <2>3, StillUnstaged
<1>6. QED BY <1>1, <1>4, <1>5 DEF CalmInv

\* an export is over; its manifest is gone, or left for the drive to come back
LEMMA ExportOver ==
    ASSUME FilesInv, CalmInv, exp.at # "idle", exp'.at = "idle",
           manifest[exp.op].kind # "export",
           \A o \in Op : manifest[o].kind \in Kind => (o \in receipts' <=> o \in receipts),
           UNCHANGED <<runs, born, rows, here, aside, manifest, waiting, rec, up, del, ops,
                       doubted>>
    PROVE  CalmInv'
<1>1. Fewer /\ doubted' = {} /\ born \ runs \subseteq born' \ runs'
  BY DEF Fewer, CalmInv
<1>2. OneDeletion' /\ Apart' /\ DeletedFiles' /\ RowsOfDeletion' /\ RawRows'
  BY <1>1, FewerKeep
<1>3. WaitingOutside'
  BY DEF CalmInv, WaitingOutside
<1>4. OneExport'
  BY DEF CalmInv, OneExport
<1>5. Destinations'
  BY DEF CalmInv, Destinations
<1>6. Announced'
  BY DEF Announced
<1>7. ExportsLeft'
  <2>1. ASSUME NEW o \in Op, manifest[o].kind \in Kind
        PROVE  Recoverable(o)'
    <3>1. Recoverable(o)
      BY <2>1 DEF CalmInv, ExportsLeft
    <3>2. QED BY <2>1, <3>1, RecoverableKeeps DEF Recoverable
  <2>2. QED BY <2>1 DEF ExportsLeft
<1>8. Unstaged'
  BY StillUnstaged
<1>9. QED BY <1>1, <1>2, <1>3, <1>4, <1>5, <1>6, <1>7, <1>8 DEF CalmInv

-----------------------------------------------------------------------------
(* Crashes alone: runs, the drive, previews                                *)

(* A run begins or ends, the drive goes or comes, a deletion is shown or   *)
(* dismissed, or nothing happens.                                          *)
LEMMA RunsCalm ==
    ASSUME FilesInv, CalmInv, NEW r \in Run, RunBegins(r) \/ RunEnds(r),
           UNCHANGED <<pending, del, exp>>
    PROVE  CalmInv'
<1>1. UNCHANGED <<manifest, waiting, rec, ops, exp, del, up, here, aside, rows, receipts, doubted>>
  BY DEF RunBegins, RunEnds, disk, start, counts, wish
<1>2. born \ runs \subseteq born' \ runs'
  BY DEF RunBegins, RunEnds
<1>3. QED BY <1>1, <1>2, CalmFrames

LEMMA NothingCalm ==
    ASSUME FilesInv, CalmInv, UNCHANGED <<db, disk, start, del, exp, ops, doubted>>
    PROVE  CalmInv'
<1>1. UNCHANGED <<manifest, waiting, rec, ops, exp, del, up, here, aside, rows, receipts, doubted,
                  born, runs>>
  BY DEF db, disk, start
<1>2. QED BY <1>1, CalmFrames

LEMMA DriveCalm ==
    ASSUME FilesInv, CalmInv, Detach \/ Attach, UNCHANGED <<pending, del, exp>>
    PROVE  CalmInv'
  BY NothingCalm DEF Detach, Attach, wish

LEMMA PreviewsCalm ==
    ASSUME FilesInv, CalmInv, UNCHANGED exp,
           (\E t \in Run \cup {All} : Preview(t)) \/ (\E p \in pending : Discard(p))
    PROVE  CalmInv'
<1>1. UNCHANGED <<db, disk, start, del, exp, ops, doubted>>
  BY DEF Preview, Discard, files, counts, wish
<1>2. QED BY <1>1, NothingCalm

(* Raw output is stored: of a run that is there, which no deletion has.    *)
LEMMA PollCalm ==
    ASSUME FilesInv, CalmInv, NEW f \in Raw, Poll(f), UNCHANGED <<pending, del, exp>>
    PROVE  CalmInv'
<1>p. PlainOps /\ PlainFiles /\ PlainExport /\ PlainManifests /\ f \in File /\ f \in Path
  BY Plain, Sorts
<1>1. /\ UNCHANGED <<runs, born, running, receipts, aside, up, rec, waiting, doubted, del, exp>>
      /\ RawOf[f] \in running /\ rows[f] = NoRow
      /\ rows' = [rows EXCEPT ![f] = [run |-> RawOf[f], content |-> 1]]
      /\ here' = [here EXCEPT ![f] = 1]
      /\ \/ UNCHANGED <<manifest, ops>>
         \/ NewOp /\ Written(ops', [kind |-> "raw_batch", file |-> f])
  BY DEF Poll, start
<1>2. /\ rows'[f] # NoRow /\ \A g \in File : g # f => rows'[g] = rows[g]
      /\ \A q \in Path : q # f => here'[q] = here[q]
  <2>1. rows'[f] = [run |-> RawOf[f], content |-> 1]
    BY <1>1, <1>p DEF PlainFiles
  <2>2. QED BY <1>1, <1>p, <2>1 DEF PlainFiles, NoRow
<1>3. /\ \A o \in Op : \/ manifest'[o] = manifest[o]
                       \/ /\ o > ops /\ manifest[o].kind = "none"
                          /\ manifest'[o] = [kind |-> "raw_batch", file |-> f]
                          /\ manifest'[o].kind = "raw_batch" /\ manifest'[o].file = f
      /\ ops' \in Nat /\ ops' >= ops
  <2>1. CASE UNCHANGED <<manifest, ops>>
    BY <2>1, <1>p DEF PlainOps
  <2>2. CASE NewOp /\ Written(ops', [kind |-> "raw_batch", file |-> f])
    <3>1. ops' = ops + 1 /\ ops' \in Op
      BY <2>2, <1>p, Operations, AnOperation DEF NewOp, PlainOps, Op
    <3>2. ops' > ops /\ ops' \in Nat
      BY <3>1, <1>p DEF PlainOps
    <3>3. manifest[ops'].kind = "none"
      BY <3>1, <3>2, Kinds DEF FilesInv, FreshOps
    <3>4. /\ manifest'[ops'] = [kind |-> "raw_batch", file |-> f]
          /\ \A o \in Op : o # ops' => manifest'[o] = manifest[o]
      BY <2>2, <3>1, WrittenManifest DEF FilesInv
    <3>5. ops' >= ops
      BY <3>2, <1>p DEF PlainOps
    <3>6. QED BY <3>2, <3>3, <3>4, <3>5
  <2>3. QED BY <1>1, <2>1, <2>2
<1>4. \A o \in Op : manifest'[o].kind \in Kind \cup {"delete"} => manifest'[o] = manifest[o]
  BY <1>3, Kinds
<1>5. doubted' = {}
  BY <1>1 DEF CalmInv
<1>6. WaitingOutside'
  <2>1. waiting \cup rec.before \subseteq Op
    BY DEF FilesInv, TypeOK, RecoveryForm, IsRecovery
  <2>2. ASSUME NEW o \in waiting \cup rec.before
        PROVE  o <= ops' /\ manifest'[o] = manifest[o]
    <3>1. o <= ops /\ o \in Nat /\ o \in Op
      BY <2>1, Operations DEF CalmInv, WaitingOutside
    <3>2. ~ (o > ops)
      BY <3>1, <1>p DEF PlainOps
    <3>3. manifest'[o] = manifest[o]
      BY <1>3, <3>1, <3>2
    <3>4. o <= ops'
      BY <1>3, <1>p, <3>1 DEF PlainOps
    <3>5. QED BY <3>3, <3>4
  <2>3. QED BY <1>1, <2>2 DEF CalmInv, WaitingOutside
<1>7. OneDeletion' /\ OneExport' /\ Apart'
  <2>1. OneDeletion'
    BY <1>1, <1>4 DEF CalmInv, OneDeletion
  <2>2. OneExport'
    BY <1>1, <1>4, Kinds DEF CalmInv, OneExport
  <2>3. Apart'
    BY <1>4, Kinds DEF CalmInv, Apart
  <2>4. QED BY <2>1, <2>2, <2>3
<1>8. Destinations'
  BY <1>1, <1>4 DEF CalmInv, Destinations
<1>9. \A o \in Op : manifest[o].kind = "delete" => f \notin DOMAIN manifest[o].files
  <2>1. ASSUME NEW o \in Op, manifest[o].kind = "delete", f \in DOMAIN manifest[o].files
        PROVE  FALSE
    <3>1. RawOf[f] \notin runs
      BY <1>1, <2>1 DEF CalmInv, DeletedFiles, InOnePlace
    <3>2. QED BY <1>1, <3>1 DEF FilesInv, TypeOK
  <2>2. QED BY <2>1
<1>10. DeletedFiles'
  <2>1. ASSUME NEW o \in Op, manifest[o].kind = "delete", NEW p \in DOMAIN manifest[o].files
        PROVE  InOnePlace(o, p) => InOnePlace(o, p)' \/ manifest'[o] # manifest[o]
    <3>s. IsSnapshot(manifest[o].files)
      BY <2>1, ManifestKinds DEF FilesInv
    <3>1. p # f /\ p \in Path /\ (manifest[o].files[p].registered => p \in File)
      BY <1>9, <2>1, <3>s, Sorts DEF IsSnapshot
    <3>2. p \in Raw => p \in File
      BY Sorts
    <3>3. here'[p] = here[p] /\ (p \in File => rows'[p] = rows[p])
      BY <1>2, <3>1
    <3>4. QED BY <1>1, <3>1, <3>2, <3>3 DEF InOnePlace
  <2>2. QED BY <1>4, <2>1 DEF CalmInv, DeletedFiles
<1>11. RowsOfDeletion'
  <2>1. CASE del.at # "idle" /\ manifest'[del.op].kind = "delete"
    <3>1. del.op \in Op /\ manifest'[del.op] = manifest[del.op]
      BY <1>4, <1>p, <2>1 DEF PlainOps
    <3>s. manifest[del.op].kind = "delete" /\ IsSnapshot(manifest[del.op].files)
      BY <2>1, <3>1, ManifestKinds DEF FilesInv
    <3>2. \A p \in DOMAIN manifest[del.op].files :
             manifest[del.op].files[p].registered => p \in File /\ p # f
      BY <1>9, <3>1, <3>s DEF IsSnapshot
    <3>3. QED BY <1>1, <1>2, <2>1, <3>1, <3>2 DEF CalmInv, RowsOfDeletion
  <2>2. CASE ~ (del.at # "idle" /\ manifest'[del.op].kind = "delete")
    BY <1>1, <2>2 DEF CalmInv, RowsOfDeletion
  <2>3. QED BY <2>1, <2>2
<1>12. RawRows'
  <2>1. ASSUME NEW g \in Raw, here'[g] # 0 PROVE rows'[g] # NoRow
    BY <1>2, <2>1, Sorts DEF CalmInv, RawRows
  <2>2. ASSUME NEW o \in Op, manifest'[o].kind = "raw_batch", rows'[manifest'[o].file] = NoRow
        PROVE  RawOf[manifest'[o].file] \in born \ runs
    <3>1. manifest'[o] = manifest[o]
      BY <1>2, <1>3, <2>2
    <3>2. manifest[o].file \in File
      BY <2>2, <3>1, ManifestKinds, Sorts DEF FilesInv
    <3>3. QED BY <1>2, <2>2, <3>1, <3>2 DEF CalmInv, RawRows
  <2>3. QED BY <1>1, <2>1, <2>2 DEF RawRows
<1>13. Announced'
  <2>1. CASE exp.at = "idle"
    BY <1>1, <2>1 DEF Announced
  <2>2. CASE exp.at # "idle"
    <3>1. exp.op \in Op /\ exp.op <= ops /\ D \in File /\ D # f
      BY <2>2, AtWork DEF Places
    <3>2. ~ (exp.op > ops)
      BY <3>1, <1>p DEF PlainOps
    <3>3. manifest'[exp.op] = manifest[exp.op] /\ rows'[D] = rows[D]
      BY <1>2, <1>3, <3>1, <3>2
    <3>4. QED BY <1>1, <3>3 DEF CalmInv, Announced, D, New
  <2>3. QED BY <2>1, <2>2
<1>14. ExportsLeft'
  <2>1. ASSUME NEW o \in Op, manifest'[o].kind \in Kind PROVE Recoverable(o)'
    <3>1. manifest'[o] = manifest[o] /\ manifest[o].kind \in Kind /\ Recoverable(o)
      BY <1>4, <2>1 DEF CalmInv, ExportsLeft
    <3>2. /\ Staged(manifest[o].kind, o) \in Path \ File
          /\ Backup(manifest[o].kind, o) \in Path \ File
          /\ manifest[o].dest \in File \ Raw /\ manifest[o].dest \in Path
      BY <3>1, ExportPaths
    <3>3. QED BY <1>1, <1>2, <1>p, <3>1, <3>2, RecoverableKeeps DEF Recoverable
  <2>2. QED BY <2>1 DEF ExportsLeft
<1>15. Unstaged'
  <2>1. \A k \in Kind, o \in Op : here'[Staged(k, o)] = here[Staged(k, o)]
    BY <1>2, <1>p, HiddenApart
  <2>2. \A o \in Op : o > ops' => o > ops
    <3>1. PICK n \in Nat : n = ops' /\ n >= ops
      BY <1>3
    <3>2. \A o \in Op : o > n => o > ops
      BY <3>1, <1>p, Operations DEF PlainOps
    <3>3. QED BY <3>1, <3>2
  <2>3. QED BY <1>1, <1>4, <2>1, <2>2, StillUnstaged
<1>16. QED BY <1>5, <1>6, <1>7, <1>8, <1>10, <1>11, <1>12, <1>13, <1>14, <1>15 DEF CalmInv

-----------------------------------------------------------------------------
(* Crashes alone: deletions                                                *)

\* where the file of a row is, when no deletion has it
LEMMA FileOfRow ==
    ASSUME FilesInv, CalmInv, NEW f \in File, rows[f] # NoRow,
           \A o \in Op : manifest[o].kind # "delete"
    PROVE  /\ f \notin Outside /\ rows[f].content # 0
           /\ \/ here[f] = rows[f].content
              \/ \E o \in Op : /\ manifest[o].kind = "export" /\ manifest[o].dest = f
                               /\ here[Backup("export", o)] = rows[f].content
<1>1. f \notin Outside /\ owed[f] = rows[f].content /\ owed[f] # 0
  BY DEF FilesInv, RowsOwed, CalmInv
<1>2. \/ here[f] = owed[f]
      \/ \E o \in Op : /\ manifest[o].kind \in Kind /\ manifest[o].dest = f
                       /\ here[Backup(manifest[o].kind, o)] = owed[f]
  BY <1>1 DEF FilesInv, NothingLost, Found
<1>3. \A o \in Op : manifest[o].kind \in Kind /\ manifest[o].dest = f => manifest[o].kind = "export"
  BY <1>1, ExportPaths
<1>4. QED BY <1>1, <1>2, <1>3

\* who holds the lease for a deletion finds no file of an export moved
LEMMA DeletesAlone ==
    ASSUME FilesInv, CalmInv, del.at # "idle"
    PROVE  /\ up = "up" /\ del.op \in Op /\ del.op <= ops /\ rec.at = "none"
           /\ \A o \in Op : manifest[o].kind = "delete" => o = del.op
           /\ exp.at \in {"idle", "prepare", "render", "ready", "discard"}
           /\ exp.at # "idle" => exp.op # del.op
           /\ \A o \in Op : manifest[o].kind = "export" =>
                 /\ manifest[o].phase = "PREPARED" /\ here[Backup("export", o)] = 0
                 /\ o # del.op
<1>1. /\ del.op \in Op /\ exp.at \in ExportAt /\ exp.kind \in Kind
      /\ exp.at # "idle" => exp.op \in Op
  BY Plain DEF PlainOps, PlainExport
<1>2. maintenance = "delete" /\ up = "up" /\ rec.at = "none"
  BY DEF FilesInv, Leases
<1>3. exp.at \in {"idle", "prepare", "render", "ready", "discard"}
  BY <1>1, <1>2 DEF FilesInv, Leases, Leased, ExportAt
<1>4. exp.at # "idle" => exp.op # del.op
  BY DEF FilesInv, FreshOps
<1>5. ASSUME NEW o \in Op, manifest[o].kind = "export"
      PROVE  /\ manifest[o].phase = "PREPARED" /\ here[Backup("export", o)] = 0
             /\ o # del.op
  <2>1. exp.at # "idle" /\ o = exp.op
    BY <1>2, <1>5 DEF CalmInv, OneExport
  <2>2. manifest[o] # NoManifest
    BY <1>5, Kinds
  <2>3. exp.kind = "export"
    BY <1>5, <2>1, <2>2 DEF FilesInv, ManifestAtWork
  <2>4. exp.at \in {"prepare", "render", "ready", "discard"}
    BY <1>3, <2>1
  <2>5. manifest[o].phase = "PREPARED"
    BY <2>1, <2>2, <2>4 DEF CalmInv, Announced
  <2>6. here[Backup("export", o)] = 0
    BY <2>1, <2>3, <2>4, NoBackup DEF Leased, B
  <2>7. QED BY <1>4, <2>1, <2>5, <2>6
<1>6. del.op <= ops /\ \A o \in Op : manifest[o].kind = "delete" => o = del.op
  BY <1>2 DEF FilesInv, FreshOps, CalmInv, OneDeletion
<1>7. QED BY <1>1, <1>2, <1>3, <1>4, <1>5, <1>6

(* A deletion is confirmed: none is under way.                             *)
LEMMA ConfirmCalm ==
    ASSUME FilesInv, CalmInv, NEW p \in pending, Confirm(p), UNCHANGED exp
    PROVE  CalmInv'
<1>1. /\ UNCHANGED <<runs, born, rows, receipts, here, aside, manifest, up, rec, waiting, doubted,
                     exp>>
      /\ up = "up" /\ del.at = "idle" /\ ops' = ops + 1 /\ ops \in Nat
      /\ \/ UNCHANGED del
         \/ del'.op = ops' /\ del'.at = "check" /\ del'.kept = {}
  BY Plain DEF Confirm, NewOp, PlainOps, db, disk, start, wish, NoDelete
<1>2. Fewer /\ doubted' = {} /\ born \ runs \subseteq born' \ runs'
  BY <1>1 DEF Fewer, CalmInv
<1>3. OneExport' /\ Apart' /\ Destinations' /\ DeletedFiles' /\ RawRows' /\ ExportsLeft'
      /\ Announced'
  BY <1>1, <1>2, FewerKeep, AnnouncedFrame
<1>4. WaitingOutside'
  <2>1. PICK n \in Nat : n = ops' /\ n = ops + 1
    BY <1>1
  <2>2. \A o \in waiting \cup rec.before : o <= ops /\ o \in Nat
    BY Operations DEF FilesInv, TypeOK, RecoveryForm, IsRecovery, CalmInv, WaitingOutside
  <2>3. \A o \in waiting \cup rec.before : o <= n /\ o # n
    BY <1>1, <2>1, <2>2
  <2>4. QED BY <1>1, <2>1, <2>3 DEF CalmInv, WaitingOutside
<1>5. \A o \in Op : manifest[o].kind # "delete"
  BY <1>1 DEF CalmInv, OneDeletion
<1>6. OneDeletion'
  BY <1>1, <1>5 DEF OneDeletion
<1>7. RowsOfDeletion'
  BY <1>1 DEF CalmInv, RowsOfDeletion
<1>8. Unstaged'
  <2>1. PICK n \in Nat : n = ops' /\ n = ops + 1
    BY <1>1
  <2>2. \A o \in Op : o > n => o > ops
    <3>1. ops \in Nat /\ n = ops + 1 /\ \A o \in Op : o \in Nat
      BY <1>1, <2>1, Operations
    <3>2. QED BY <3>1
  <2>3. QED BY <1>1, <2>1, <2>2, StillUnstaged
<1>9. QED BY <1>2, <1>3, <1>4, <1>6, <1>7, <1>8 DEF CalmInv

(* The manifest names every file, each where it was seen; what has a row is*)
(* there.                                                                  *)
LEMMA CheckCalm ==
    ASSUME FilesInv, CalmInv, Check, UNCHANGED exp
    PROVE  CalmInv'
<1> DEFINE t == del.target
           ps == Snapshot(t).files
<1>1. /\ UNCHANGED <<runs, born, rows, receipts, here, aside, up, rec, waiting, ops, doubted, exp>>
      /\ del.at = "check" /\ Deletable(t) /\ Snapshot(t) = del.snap
      /\ Written(del.op, [kind |-> "delete", files |-> ps])
      /\ del' = [del EXCEPT !.at = "stage"]
  BY DEF Check, db, start, counts, wish
<1>2. /\ del'.at = "stage" /\ del'.op = del.op /\ del'.kept = del.kept /\ t \in Target
  BY <1>1 DEF FilesInv, DeleteForm, IsDelete
<1>3. /\ up = "up" /\ del.op \in Op /\ rec.at = "none"
      /\ manifest[del.op] = NoManifest /\ \A o \in Op : manifest[o].kind # "delete"
      /\ exp.at \in {"idle", "prepare", "render", "ready", "discard"}
      /\ exp.at # "idle" => exp.op # del.op
      /\ \A o \in Op : manifest[o].kind = "export" =>
            manifest[o].phase = "PREPARED" /\ here[Backup("export", o)] = 0
  BY <1>1, DeletesAlone, Kinds DEF FilesInv, Deleting
<1>4. /\ manifest'[del.op] = [kind |-> "delete", files |-> ps]
      /\ \A o \in Op : o # del.op => manifest'[o] = manifest[o]
  BY <1>1, <1>3, WrittenManifest DEF FilesInv
<1>5. \A o \in Op : manifest'[o].kind \in Kind \cup {"raw_batch"} =>
          o # del.op /\ manifest'[o] = manifest[o]
  BY <1>4, Kinds
<1>6. /\ IsSnapshot(ps)
      /\ \A p \in DOMAIN ps : /\ ps[p].content = here[p]
                              /\ ps[p].registered <=> p \in Registered(t)
                              /\ ps[p].registered => p \in File /\ rows[p] # NoRow
      /\ DOMAIN ps = Registered(t) \cup Scanned(t)
  <2>1. RunsOf(t) \subseteq Run
    BY <1>1 DEF Deletable, FilesInv, TypeOK
  <2>2. DOMAIN ps = Registered(t) \cup Scanned(t)
    BY DEF Snapshot
  <2>3. QED BY <1>2, <2>1, <2>2, SnapshotForm
<1>7. ASSUME NEW p \in DOMAIN ps
      PROVE  /\ here[p] # 0 /\ p \notin Outside /\ p \in Path
             /\ p \in Raw => ps[p].registered
  <2>1. CASE p \in Registered(t)
    <3>1. p \in File /\ rows[p] # NoRow
      BY <1>6, <2>1
    <3>2. here[p] # 0 /\ p \notin Outside
      BY <1>3, <3>1, FileOfRow
    <3>3. QED BY <1>6, <2>1, <3>1, <3>2, Sorts
  <2>2. CASE p \in Scanned(t) /\ p \notin Registered(t)
    <3>1. here[p] # 0 /\ p \in Inside
      BY <2>2, Sorts DEF Scanned, Inside
    <3>2. p \notin Outside
      BY <3>1, FilesAssumption DEF Inside, File, Kind
    <3>3. p \notin Raw
      <4>1. SUFFICES ASSUME p \in Raw PROVE FALSE
        OBVIOUS
      <4>2. p \in File /\ rows[p] # NoRow
        BY <3>1, <4>1, Sorts DEF CalmInv, RawRows
      <4>3. rows[p].run = RawOf[p] /\ rows[p].run \in runs
        BY <4>1, <4>2 DEF FilesInv, RawFiles, RowsOwed
      <4>4. t # All => RawOf[p] = t
        BY <2>2 DEF Scanned
      <4>5. rows[p].run \in RunsOf(t)
        BY <4>3, <4>4 DEF RunsOf
      <4>6. QED BY <2>2, <4>2, <4>5 DEF Registered
    <3>4. QED BY <3>1, <3>2, <3>3, Sorts
  <2>3. QED BY <1>6, <2>1, <2>2
<1>8. doubted' = {}
  BY <1>1 DEF CalmInv
<1>9. WaitingOutside'
  <2>1. \A o \in waiting \cup rec.before : o # del.op /\ o \in Op
    BY <1>1 DEF FilesInv, TypeOK, RecoveryForm, IsRecovery, CalmInv, WaitingOutside
  <2>2. QED BY <1>1, <1>2, <1>4, <2>1 DEF CalmInv, WaitingOutside
<1>10. OneDeletion'
  <2>1. \A o \in Op : manifest'[o].kind = "delete" => o = del.op
    BY <1>3, <1>4
  <2>2. QED BY <1>2, <2>1 DEF OneDeletion
<1>11. OneExport' /\ Apart' /\ Destinations'
  <2>1. OneExport'
    BY <1>1, <1>5, Kinds DEF CalmInv, OneExport
  <2>2. Apart'
    BY <1>3, <1>5, Kinds DEF Apart
  <2>3. Destinations'
    BY <1>1, <1>5 DEF CalmInv, Destinations
  <2>4. QED BY <2>1, <2>2, <2>3
<1>12. DeletedFiles'
  <2>1. ASSUME NEW o \in Op, manifest'[o].kind = "delete", NEW p \in DOMAIN manifest'[o].files
        PROVE  InOnePlace(o, p)'
    <3>1. o = del.op /\ manifest'[o].files = ps
      BY <1>3, <1>4, <2>1
    <3>2. aside[o][p] = 0
      BY <1>3, <1>7, <2>1, <3>1, Kinds DEF FilesInv, Named
    <3>3. /\ here[p] # 0 /\ p \notin Outside /\ (p \in Raw => ps[p].registered)
          /\ ps[p].content = here[p] /\ (ps[p].registered => rows[p] # NoRow)
      BY <1>6, <1>7, <2>1, <3>1
    <3>4. QED BY <1>1, <3>1, <3>2, <3>3 DEF InOnePlace
  <2>2. QED BY <2>1 DEF DeletedFiles
<1>13. RowsOfDeletion'
  BY <1>1, <1>2 DEF CalmInv, RowsOfDeletion
<1>14. RawRows'
  BY <1>1, <1>5 DEF CalmInv, RawRows
<1>15. Announced'
  <2>1. CASE exp.at = "idle"
    BY <1>1, <2>1 DEF Announced
  <2>2. CASE exp.at # "idle"
    <3>1. exp.op \in Op /\ manifest'[exp.op] = manifest[exp.op]
      BY <1>3, <1>4, <2>2, Plain DEF PlainOps
    <3>2. QED BY <1>1, <3>1 DEF CalmInv, Announced, D, New
  <2>3. QED BY <2>1, <2>2
<1>16. ExportsLeft'
  <2>1. ASSUME NEW o \in Op, manifest'[o].kind \in Kind PROVE Recoverable(o)'
    <3>1. manifest'[o] = manifest[o] /\ manifest[o].kind \in Kind /\ Recoverable(o)
      BY <1>5, <2>1 DEF CalmInv, ExportsLeft
    <3>2. QED BY <1>1, <3>1, RecoverableKeeps DEF Recoverable
  <2>2. QED BY <2>1 DEF ExportsLeft
<1>17. Unstaged'
  <2>1. ASSUME NEW k \in Kind, NEW o \in Op,
               o > ops \/ (exp.at \in {"prepare", "render"} /\ o = exp.op)
        PROVE  /\ here[Staged(k, o)] = 0
               /\ \A o1 \in Op : /\ aside[o1][Staged(k, o)] = 0
                                 /\ manifest'[o1].kind = "delete" =>
                                       Staged(k, o) \notin DOMAIN manifest'[o1].files
    <3>1. here[Staged(k, o)] = 0 /\ \A o1 \in Op : aside[o1][Staged(k, o)] = 0
      BY <2>1 DEF CalmInv, Unstaged
    <3>2. Staged(k, o) \notin DOMAIN ps
      BY <1>7, <3>1
    <3>3. QED BY <1>3, <1>4, <3>1, <3>2
  <2>2. QED BY <1>1, <2>1 DEF Unstaged
<1>18. QED BY <1>8, <1>9, <1>10, <1>11, <1>12, <1>13, <1>14, <1>15, <1>16, <1>17 DEF CalmInv

(* A file goes aside: it is as it was seen.                                *)
LEMMA StageCalm ==
    ASSUME FilesInv, CalmInv, NEW p \in Path, Stage(p), UNCHANGED exp
    PROVE  CalmInv'
<1> DEFINE o == del.op
<1>p. PlainOps /\ PlainFiles
  BY Plain
<1>1. /\ UNCHANGED <<runs, born, rows, receipts, manifest, doubted, ops, exp, up, rec, waiting, del>>
      /\ del.at = "stage" /\ p \in DOMAIN del.snap.files /\ aside[o][p] = 0
      /\ Put(o, p) /\ Unlinked(p)
  BY DEF Stage, db, start, counts, wish, ToStage
<1>2. o \in Op /\ manifest[o].kind = "delete" /\ p \in DOMAIN manifest[o].files
  BY <1>1, <1>p DEF PlainOps, FilesInv, Deleting
<1>3. /\ here'[p] = 0 /\ \A q \in Path : q # p => here'[q] = here[q]
      /\ aside'[o][p] = here[p]
      /\ \A o1 \in Op, q \in Path : o1 # o \/ q # p => aside'[o1][q] = aside[o1][q]
  BY <1>1, <1>2, <1>p, UnlinkedFile, SetAside DEF Put, PlainFiles
<1>4. InOnePlace(o, p)
  BY <1>2 DEF CalmInv, DeletedFiles
<1>5. manifest[o].files[p].registered /\ rows[p] # NoRow => aside'[o][p] # 0
  BY <1>1, <1>3, <1>4 DEF InOnePlace
<1>6. QED BY <1>1, <1>2, <1>3, <1>5, FileShifts

(* Every file is aside, or the deletion is given up.                       *)
LEMMA AllStagedCalm ==
    ASSUME FilesInv, CalmInv, AllStaged \/ GiveUp, UNCHANGED exp
    PROVE  CalmInv'
<1>1. /\ UNCHANGED <<runs, born, rows, receipts, here, aside, manifest, up, rec, waiting, ops,
                     doubted, exp>>
      /\ del.at \in {"check", "stage", "commit"}
      /\ \/ del' = [del EXCEPT !.at = "commit"]
         \/ del' = [del EXCEPT !.at = "restore"]
  BY DEF AllStaged, GiveUp, files, db, disk, start, counts, wish
<1>2. del'.op = del.op /\ del'.kept = del.kept /\ del'.at \in {"commit", "restore"} /\ del.at # "idle"
  BY <1>1 DEF FilesInv, DeleteForm, IsDelete
<1>3. Fewer /\ doubted' = {} /\ born \ runs \subseteq born' \ runs'
  BY <1>1 DEF Fewer, CalmInv
<1>4. OneExport' /\ Apart' /\ Destinations' /\ DeletedFiles' /\ RawRows' /\ ExportsLeft'
      /\ Announced' /\ Unstaged'
  BY <1>1, <1>3, FewerKeep, AnnouncedFrame
<1>5. WaitingOutside'
  BY <1>1, <1>2 DEF CalmInv, WaitingOutside
<1>6. OneDeletion'
  BY <1>1, <1>2 DEF CalmInv, OneDeletion
<1>7. RowsOfDeletion'
  <2>1. ASSUME manifest[del.op].kind = "delete", NEW p \in DOMAIN manifest[del.op].files,
               manifest[del.op].files[p].registered
        PROVE  rows[p] # NoRow
    <3>1. del.at \in {"stage", "commit"}
      BY <1>1, <2>1, Kinds DEF FilesInv, Deleting
    <3>2. manifest[del.op].files = del.snap.files
      BY <3>1 DEF FilesInv, Deleting
    <3>3. QED BY <2>1, <3>1, <3>2 DEF FilesInv, Deleting
  <2>2. QED BY <1>1, <1>2, <2>1 DEF CalmInv, RowsOfDeletion
<1>8. QED BY <1>3, <1>4, <1>5, <1>6, <1>7 DEF CalmInv

(* The transaction takes the rows: the files are aside.                    *)
LEMMA CommitCalm ==
    ASSUME FilesInv, CalmInv, Commit, UNCHANGED exp
    PROVE  CalmInv'
<1> DEFINE t == del.target
           ps == del.snap.files
<1>1. /\ UNCHANGED <<born, receipts, here, aside, manifest, up, rec, waiting, ops, doubted, exp>>
      /\ del.at = "commit" /\ Deletable(t) /\ RunsOf(t) = del.snap.runs
      /\ Registered(t) = {p \in DOMAIN ps : ps[p].registered}
      /\ runs' = runs \ del.snap.runs
      /\ rows' = [f \in File |-> IF rows[f].run \in del.snap.runs THEN NoRow ELSE rows[f]]
      /\ del' = [del EXCEPT !.at = "purge"]
  BY DEF Commit, RowsGo, Unchanged, disk, start, counts
<1>2. del'.op = del.op /\ del'.kept = del.kept /\ del'.at = "purge"
  BY <1>1 DEF FilesInv, DeleteForm, IsDelete
<1>3. /\ del.op \in Op /\ \A o \in Op : manifest[o].kind = "delete" => o = del.op
      /\ exp.at \in {"idle", "prepare", "render", "ready", "discard"}
      /\ \A o \in Op : manifest[o].kind = "export" => manifest[o].phase = "PREPARED"
  BY <1>1, DeletesAlone
<1>4. /\ manifest[del.op] = [kind |-> "delete", files |-> ps]
      /\ manifest[del.op].files = ps /\ manifest[del.op].kind = "delete"
      /\ \A p \in DOMAIN ps : aside[del.op][p] = ps[p].content
  BY <1>1 DEF FilesInv, Deleting
<1>5. \A p \in DOMAIN ps : InOnePlace(del.op, p)
  BY <1>3, <1>4 DEF CalmInv, DeletedFiles
<1>6. \A p \in DOMAIN ps : here[p] = 0 /\ aside[del.op][p] # 0
  BY <1>4, <1>5 DEF InOnePlace
<1>7. \A f \in File : \/ rows'[f] = rows[f]
                      \/ /\ rows'[f] = NoRow /\ f \in DOMAIN ps /\ ps[f].registered
                         /\ rows[f].run \in del.snap.runs
  <2>1. ASSUME NEW f \in File, rows[f].run \in del.snap.runs
        PROVE  f \in Registered(t)
    BY <1>1, <2>1 DEF Registered
  <2>2. QED BY <1>1, <2>1
<1>8. \A p \in DOMAIN ps : ps[p].registered => p \in File /\ rows'[p] = NoRow
  <2>1. ASSUME NEW p \in DOMAIN ps, ps[p].registered
        PROVE  p \in File /\ rows[p].run \in del.snap.runs
    <3>1. p \in Registered(t)
      BY <1>1, <2>1
    <3>2. QED BY <1>1, <3>1 DEF Registered
  <2>2. QED BY <1>1, <2>1
<1>9. \A f \in Raw : rows'[f] = NoRow /\ rows[f] # NoRow => RawOf[f] \in born' \ runs'
  <2>1. ASSUME NEW f \in Raw, rows'[f] = NoRow, rows[f] # NoRow
        PROVE  RawOf[f] \in born' \ runs'
    <3>1. f \in File
      BY Sorts
    <3>2. rows[f].run \in del.snap.runs /\ rows[f].run = RawOf[f] /\ rows[f].run \in runs
      BY <1>7, <2>1, <3>1 DEF FilesInv, RawFiles, RowsOwed
    <3>3. runs \subseteq born
      BY DEF FilesInv, TypeOK
    <3>4. QED BY <1>1, <3>2, <3>3
  <2>2. QED BY <2>1
<1>10. Fewer /\ doubted' = {} /\ born \ runs \subseteq born' \ runs'
  BY <1>1 DEF Fewer, CalmInv
<1>11. OneExport' /\ Apart' /\ Destinations' /\ Unstaged'
  BY <1>1, <1>10, FewerKeep
<1>12. WaitingOutside' /\ OneDeletion'
  <2>1. WaitingOutside'
    BY <1>1, <1>2 DEF CalmInv, WaitingOutside
  <2>2. OneDeletion'
    BY <1>1, <1>2 DEF CalmInv, OneDeletion
  <2>3. QED BY <2>1, <2>2
<1>13. DeletedFiles'
  <2>1. ASSUME NEW o \in Op, manifest[o].kind = "delete", NEW p \in DOMAIN manifest[o].files
        PROVE  InOnePlace(o, p)'
    <3>1. o = del.op /\ p \in DOMAIN ps /\ manifest[o].files = ps
      BY <1>3, <1>4, <2>1
    <3>2. here[p] = 0 /\ aside[o][p] # 0
      BY <1>6, <3>1
    <3>3. p \in Raw /\ rows'[p] = NoRow => RawOf[p] \in born' \ runs'
      BY <1>5, <1>9, <1>10, <3>1 DEF InOnePlace
    <3>4. QED BY <1>1, <1>5, <3>1, <3>2, <3>3 DEF InOnePlace
  <2>2. QED BY <1>1, <2>1 DEF DeletedFiles
<1>14. RowsOfDeletion'
  BY <1>1, <1>2, <1>4, <1>8 DEF CalmInv, RowsOfDeletion
<1>15. RawRows'
  <2>1. ASSUME NEW f \in Raw, here[f] # 0 PROVE rows'[f] # NoRow
    <3>1. f \in File /\ rows[f] # NoRow
      BY <2>1, Sorts DEF CalmInv, RawRows
    <3>2. f \notin DOMAIN ps
      BY <1>6, <2>1
    <3>3. QED BY <1>7, <3>1, <3>2
  <2>2. ASSUME NEW o \in Op, manifest[o].kind = "raw_batch", rows'[manifest[o].file] = NoRow
        PROVE  RawOf[manifest[o].file] \in born' \ runs'
    <3>1. manifest[o].file \in Raw
      BY <2>2, ManifestKinds DEF FilesInv
    <3>2. QED BY <1>9, <1>10, <2>2, <3>1 DEF CalmInv, RawRows
  <2>3. QED BY <1>1, <2>1, <2>2 DEF RawRows
<1>16. Announced'
  BY <1>1, <1>3 DEF CalmInv, Announced, D, New
<1>17. ExportsLeft'
  <2>1. ASSUME NEW o \in Op, manifest[o].kind \in Kind PROVE Recoverable(o)'
    <3>1. Recoverable(o)
      BY <2>1 DEF CalmInv, ExportsLeft
    <3>2. QED BY <1>1, <1>3, <3>1, RecoverableKeeps DEF Recoverable
  <2>2. QED BY <1>1, <2>1 DEF ExportsLeft
<1>18. QED BY <1>10, <1>11, <1>12, <1>13, <1>14, <1>15, <1>16, <1>17 DEF CalmInv

(* A file is put back, or purged.                                          *)
LEMMA RestoreCalm ==
    ASSUME FilesInv, CalmInv, faults' = 0, NEW p \in Path, Restore(p), UNCHANGED exp
    PROVE  CalmInv'
<1> DEFINE o == del.op
<1>p. PlainOps /\ PlainFiles
  BY Plain
<1>1. /\ UNCHANGED <<runs, born, rows, receipts, manifest, doubted, ops, exp, up, rec, waiting>>
      /\ del.at = "restore" /\ aside[o][p] # 0
      /\ \/ /\ here[p] = 0 /\ UNCHANGED del
            /\ here' = [here EXCEPT ![p] = aside[o][p]] /\ Away(o, p)
         \/ here[p] # 0
         \/ faults' = faults + 1
  BY DEF Restore, db, start, counts, wish, ToRestore
<1>2. o \in Op /\ manifest[o].kind = "delete" /\ p \in DOMAIN manifest[o].files
  BY <1>1, <1>p DEF PlainOps, FilesInv, Named
<1>3. InOnePlace(o, p)
  BY <1>2 DEF CalmInv, DeletedFiles
<1>4. here[p] = 0
  BY <1>1, <1>3 DEF InOnePlace
<1>5. faults' # faults + 1
  BY DEF FilesInv, Numbers
<1>6. UNCHANGED del /\ here' = [here EXCEPT ![p] = aside[o][p]] /\ Away(o, p)
  BY <1>1, <1>4, <1>5
<1>7. /\ here'[p] = aside[o][p] /\ \A q \in Path : q # p => here'[q] = here[q]
      /\ aside'[o][p] = 0
      /\ \A o1 \in Op, q \in Path : o1 # o \/ q # p => aside'[o1][q] = aside[o1][q]
  BY <1>2, <1>6, <1>p, SetAside DEF Away, PlainFiles
<1>8. manifest[o].files[p].registered => rows[p] # NoRow
  BY <1>1, <1>2 DEF CalmInv, RowsOfDeletion
<1>9. QED BY <1>1, <1>2, <1>6, <1>7, <1>8, FileShifts

LEMMA PurgeCalm ==
    ASSUME FilesInv, CalmInv, NEW p \in Path, Purge(p), UNCHANGED exp
    PROVE  CalmInv'
<1> DEFINE o == del.op
<1>p. PlainOps /\ PlainFiles
  BY Plain
<1>1. /\ UNCHANGED <<runs, born, rows, receipts, here, manifest, doubted, ops, exp, up, rec,
                     waiting, del>>
      /\ del.at = "purge" /\ aside[o][p] # 0 /\ Away(o, p)
  BY DEF Purge, db, start, counts, wish
<1>2. o \in Op /\ manifest[o].kind = "delete" /\ p \in DOMAIN manifest[o].files
  BY <1>1, <1>p DEF PlainOps, FilesInv, Named
<1>3. InOnePlace(o, p)
  BY <1>2 DEF CalmInv, DeletedFiles
<1>4. here[p] = 0
  BY <1>1, <1>3 DEF InOnePlace
<1>5. /\ aside'[o][p] = 0
      /\ \A o1 \in Op, q \in Path : o1 # o \/ q # p => aside'[o1][q] = aside[o1][q]
  BY <1>1, <1>2, <1>p, SetAside DEF Away, PlainFiles
<1>6. manifest[o].files[p].registered => rows[p] = NoRow
  BY <1>1, <1>2 DEF CalmInv, RowsOfDeletion
<1>7. QED BY <1>1, <1>2, <1>4, <1>5, <1>6, FileShifts

(* A deletion is over, and has nothing aside.                              *)
LEMMA DeletedCalm ==
    ASSUME FilesInv, CalmInv, faults' = 0, Restored \/ Purged, UNCHANGED exp
    PROVE  CalmInv'
<1>1. /\ UNCHANGED <<runs, born, rows, receipts, here, aside, doubted, ops, exp, up, rec, waiting>>
      /\ del.at # "idle" /\ del' = NoDelete
  BY DEF Restored, Purged, db, start, counts, wish
<1>2. faults' # faults + 1 /\ del.kept = {}
  BY <1>1 DEF FilesInv, Numbers, CalmInv, RowsOfDeletion
<1>3. Written(del.op, NoManifest)
  BY <1>2 DEF Restored, Purged, Faulty
<1>4. /\ up = "up" /\ del.op \in Op
      /\ \A o \in Op : manifest[o].kind = "delete" => o = del.op
  BY <1>1, DeletesAlone
<1>5. /\ manifest'[del.op] = NoManifest
      /\ \A o \in Op : o # del.op => manifest'[o] = manifest[o]
  BY <1>3, <1>4, WrittenManifest DEF FilesInv
<1>6. Fewer /\ doubted' = {} /\ born \ runs \subseteq born' \ runs'
      /\ del'.at = "idle" /\ \A o \in Op : manifest'[o].kind # "delete"
  BY <1>1, <1>4, <1>5, Kinds DEF Fewer, CalmInv, NoDelete
<1>7. OneExport' /\ Apart' /\ Destinations' /\ DeletedFiles' /\ RawRows' /\ ExportsLeft'
      /\ Unstaged'
  BY <1>1, <1>6, FewerKeep
<1>8. OneDeletion' /\ RowsOfDeletion'
  <2>1. OneDeletion'
    BY <1>6 DEF OneDeletion
  <2>2. RowsOfDeletion'
    BY <1>6 DEF RowsOfDeletion
  <2>3. QED BY <2>1, <2>2
<1>9. WaitingOutside'
  <2>1. \A o \in waiting \cup rec.before : o \in Op /\ o # del.op
    BY <1>1 DEF FilesInv, TypeOK, RecoveryForm, IsRecovery, CalmInv, WaitingOutside
  <2>2. QED BY <1>1, <1>5, <1>6, <2>1 DEF CalmInv, WaitingOutside
<1>10. Announced'
  <2>1. CASE exp.at = "idle"
    BY <1>1, <2>1 DEF Announced
  <2>2. CASE exp.at # "idle"
    <3>1. exp.op # del.op /\ exp.op \in Op
      BY <1>1, <2>2, DeletesAlone, Plain DEF PlainOps
    <3>2. QED BY <1>1, <1>5, <3>1 DEF CalmInv, Announced, D, New
  <2>3. QED BY <2>1, <2>2
<1>11. QED BY <1>6, <1>7, <1>8, <1>9, <1>10 DEF CalmInv

(* The start puts back what has a row or never had one, and purges what has*)
(* lost its row.                                                           *)
LEMMA ReconcileCalm ==
    ASSUME FilesInv, CalmInv, NEW p \in Path, Reconcile(p), UNCHANGED exp
    PROVE  CalmInv'
<1> DEFINE o == rec.op
<1>p. PlainOps /\ PlainFiles
  BY Plain
<1>1. /\ UNCHANGED <<runs, born, rows, receipts, manifest, doubted, ops, exp, up, waiting, del>>
      /\ rec.at = "deletes" /\ p \in rec.todo /\ ~ Unreconcilable(o, p) /\ Away(o, p)
      /\ here' = [here EXCEPT ![p] = IF @ = 0 /\ ShouldRestore(o, p) THEN aside[o][p] ELSE @]
      /\ rec' = [rec EXCEPT !.todo = @ \ {p}]
  BY DEF Reconcile, db, counts, wish
<1>2. o \in Op /\ manifest[o].kind = "delete" /\ p \in DOMAIN manifest[o].files
  BY <1>1, <1>p DEF PlainOps, FilesInv, Recovering
<1>3. rec'.before = rec.before
  BY <1>1 DEF FilesInv, RecoveryForm, IsRecovery
<1>4. /\ \A q \in Path : q # p => here'[q] = here[q]
      /\ here'[p] = IF here[p] = 0 /\ ShouldRestore(o, p) THEN aside[o][p] ELSE here[p]
      /\ aside'[o][p] = 0
      /\ \A o1 \in Op, q \in Path : o1 # o \/ q # p => aside'[o1][q] = aside[o1][q]
  BY <1>1, <1>2, <1>p, SetAside DEF Away, PlainFiles
<1>5. InOnePlace(o, p)
  BY <1>2 DEF CalmInv, DeletedFiles
<1>6. manifest[o].files[p].registered /\ rows[p] # NoRow => here'[p] # 0
  BY <1>1, <1>4, <1>5 DEF InOnePlace, ShouldRestore
<1>7. manifest[o].files[p].registered /\ rows[p] = NoRow => here'[p] = 0
  BY <1>1, <1>4, <1>5 DEF InOnePlace, ShouldRestore
<1>8. QED BY <1>1, <1>2, <1>3, <1>4, <1>6, <1>7, FileShifts

-----------------------------------------------------------------------------
(* Crashes alone: the start                                                *)

\* a start leaves the files of deletions and exports; manifests may go
LEMMA StartCalm ==
    ASSUME FilesInv, CalmInv, Fewer,
           waiting' \cup rec'.before \subseteq waiting \cup rec.before,
           up' = "up" /\ up # "up" => \A o \in Op : manifest[o].kind \notin {"delete", "export"},
           \A o \in Op : manifest[o].kind \in Kind => (o \in receipts' <=> o \in receipts),
           exp.at # "idle" => /\ manifest'[exp.op] = manifest[exp.op]
                              /\ (exp.op \in receipts' <=> exp.op \in receipts),
           UNCHANGED <<runs, born, rows, here, aside, doubted, ops, exp, del>>
    PROVE  CalmInv'
<1>1. doubted' = {} /\ born \ runs \subseteq born' \ runs'
  BY DEF CalmInv
<1>k. \A o \in Op : \/ manifest'[o] = manifest[o]
                    \/ manifest'[o] = NoManifest /\ manifest'[o].kind = "none"
  BY Kinds DEF Fewer
<1>2. Apart' /\ Destinations' /\ DeletedFiles' /\ RowsOfDeletion' /\ RawRows' /\ Unstaged'
  BY <1>1, FewerKeep
<1>3. WaitingOutside'
  <2>1. waiting \cup rec.before \subseteq Op
    BY DEF FilesInv, TypeOK, RecoveryForm, IsRecovery
  <2>2. QED BY <1>k, <2>1 DEF CalmInv, WaitingOutside
<1>4. OneDeletion'
  BY <1>k DEF CalmInv, OneDeletion
<1>5. OneExport'
  BY <1>k DEF CalmInv, OneExport
<1>6. Announced'
  BY DEF CalmInv, Announced, D, New
<1>7. ExportsLeft'
  <2>1. ASSUME NEW o \in Op, manifest'[o].kind \in Kind PROVE Recoverable(o)'
    <3>1. manifest'[o] = manifest[o] /\ manifest[o].kind \in Kind /\ Recoverable(o)
      BY <1>k, <2>1, Kinds DEF CalmInv, ExportsLeft
    <3>2. QED BY <3>1, RecoverableKeeps DEF Recoverable
  <2>2. QED BY <2>1 DEF ExportsLeft
<1>8. QED BY <1>1, <1>2, <1>3, <1>4, <1>5, <1>6, <1>7 DEF CalmInv

\* while it is at work
LEMMA WhileStarting ==
    ASSUME FilesInv, rec.at # "none"
    PROVE  /\ del.at = "idle" /\ del.op = 0 /\ 0 \notin Op
           /\ (exp.at = "idle" => exp.op = 0) /\ (exp.at # "idle" => exp.op \in Op)
  BY DEF FilesInv, Leases, DeleteForm, IsDelete, ExportForm, IsExport, Op

(* It begins, and takes the deletions one by one.                          *)
LEMMA StartStepCalm ==
    ASSUME FilesInv, CalmInv, RecoveryBegins \/ DeletesDone \/ \E o \in Op : NextDelete(o)
    PROVE  CalmInv'
<1>1. UNCHANGED <<runs, born, rows, here, aside, receipts, manifest, doubted, ops, exp, del, up>>
  BY DEF RecoveryBegins, DeletesDone, NextDelete, db, disk, counts, wish
<1>2. waiting' \cup rec'.before \subseteq waiting \cup rec.before
  <2>1. CASE RecoveryBegins
    <3>1. rec' = [NoRecovery EXCEPT !.at = "deletes", !.before = waiting] /\ waiting' = {}
      BY <2>1 DEF RecoveryBegins
    <3>2. QED BY <3>1 DEF NoRecovery
  <2>2. CASE DeletesDone
    BY <2>2 DEF DeletesDone, FilesInv, RecoveryForm, IsRecovery
  <2>3. ASSUME NEW o \in Op, NextDelete(o)
        PROVE  waiting' \cup rec'.before \subseteq waiting \cup rec.before
    BY <2>3 DEF NextDelete, FilesInv, RecoveryForm, IsRecovery
  <2>4. QED BY <2>1, <2>2, <2>3
<1>3. QED BY <1>1, <1>2, StartCalm DEF Fewer

(* A deletion is settled.                                                  *)
LEMMA ReconciledCalm ==
    ASSUME FilesInv, CalmInv, Reconciled, UNCHANGED exp
    PROVE  CalmInv'
<1>1. /\ UNCHANGED <<runs, born, rows, receipts, here, aside, doubted, ops, exp, up, waiting, del>>
      /\ rec.at = "deletes" /\ rec.op # 0 /\ Written(rec.op, NoManifest)
      /\ rec' = [rec EXCEPT !.op = 0]
  BY DEF Reconciled, db, counts, wish
<1>2. rec.op \in Op /\ manifest[rec.op].kind = "delete" /\ rec'.before = rec.before
  BY <1>1, Plain DEF PlainOps, FilesInv, Recovering, RecoveryForm, IsRecovery
<1>3. manifest'[rec.op] = NoManifest /\ \A o \in Op : o # rec.op => manifest'[o] = manifest[o]
  BY <1>1, <1>2, WrittenManifest DEF FilesInv
<1>4. exp.at # "idle" => exp.op \in Op /\ exp.op # rec.op
  BY <1>1, <1>2, WhileStarting, AtWork, Kinds DEF FilesInv, ManifestAtWork, Places
<1>5. QED BY <1>1, <1>2, <1>3, <1>4, StartCalm DEF Fewer

(* Ownership records and receipts that are nobody's go: no deletion and no *)
(* export to the exports root is left.                                     *)
LEMMA OrphansCalm ==
    ASSUME FilesInv, CalmInv, Orphans
    PROVE  CalmInv'
<1>1. /\ UNCHANGED <<runs, born, rows, here, aside, manifest, doubted, ops, exp, waiting, del>>
      /\ rec.at = "exports" /\ Left(Kind \cup {"raw_batch"}) \subseteq waiting
      /\ receipts' = {o \in receipts : manifest[o] # NoManifest \/ o = exp.op}
      /\ rec' = NoRecovery
  BY DEF Orphans, counts, wish
<1>2. receipts \subseteq Op /\ rec'.before = {}
  BY <1>1 DEF FilesInv, TypeOK, NoRecovery
<1>3. \A o \in Op : manifest[o].kind \in Kind => manifest[o] # NoManifest
  BY Kinds
<1>4. ASSUME up # "up", NEW o \in Op
      PROVE  manifest[o].kind \notin {"delete", "export"}
  <2>1. manifest[o].kind # "delete"
    BY <1>1 DEF FilesInv, Recovering
  <2>2. o # exp.op /\ o # del.op
    BY <1>1, <1>4, WhileStarting DEF FilesInv, Leases
  <2>3. manifest[o].kind = "export" => o \in waiting
    BY <1>1, <2>2, Kinds DEF Left
  <2>4. QED BY <2>1, <2>3 DEF CalmInv, WaitingOutside
<1>5. QED BY <1>1, <1>2, <1>3, <1>4, StartCalm DEF Fewer

(* The start fails, and is over.                                           *)
LEMMA StuckCalm ==
    ASSUME FilesInv, CalmInv, Stuck
    PROVE  CalmInv'
<1>1. /\ UNCHANGED <<runs, born, rows, here, aside, receipts, manifest, doubted, ops, exp, del>>
      /\ rec' = NoRecovery /\ waiting' = waiting \cup StillWaiting /\ (up' = "up" => up = "up")
  BY DEF Stuck, db, disk, counts, wish
<1>2. rec'.before = {} /\ StillWaiting \subseteq rec.before
  BY <1>1 DEF NoRecovery, StillWaiting
<1>3. QED BY <1>1, <1>2, StartCalm DEF Fewer

(* An export to the drive that is not there is put off.                    *)
LEMMA PostponeCalm ==
    ASSUME FilesInv, CalmInv, NEW o \in Op, Postpone(o), UNCHANGED <<pending, del>>
    PROVE  CalmInv'
<1>1. /\ UNCHANGED <<runs, born, rows, here, aside, receipts, manifest, doubted, ops, exp, up, rec,
                     del>>
      /\ rec.at = "exports" /\ manifest[o].kind = "external_export" /\ o # exp.op
      /\ waiting' = waiting \cup {o}
  BY DEF Postpone, db, disk, counts, wish
<1>2. Fewer /\ doubted' = {} /\ born \ runs \subseteq born' \ runs'
  BY <1>1 DEF Fewer, CalmInv
<1>3. /\ OneDeletion' /\ OneExport' /\ Apart' /\ Destinations' /\ DeletedFiles' /\ RowsOfDeletion'
      /\ RawRows' /\ ExportsLeft' /\ Announced' /\ Unstaged'
  BY <1>1, <1>2, FewerKeep, AnnouncedFrame
<1>4. o <= ops /\ del.at = "idle"
  <2>1. ~ (o > ops)
    BY <1>1, Kinds DEF FilesInv, FreshOps
  <2>2. QED BY <1>1, <2>1, Operations, Plain, WhileStarting DEF PlainOps
<1>5. WaitingOutside'
  BY <1>1, <1>4 DEF CalmInv, WaitingOutside
<1>6. QED BY <1>2, <1>3, <1>5 DEF CalmInv

(* A crash leaves manifests and files.                                     *)
LEMMA CrashCalm ==
    ASSUME FilesInv, CalmInv, Crash
    PROVE  CalmInv'
<1>1. /\ UNCHANGED <<runs, born, rows, here, aside, receipts, manifest, doubted, ops>>
      /\ up' = "down" /\ rec'.before = {} /\ waiting' = {} /\ del'.at = "idle" /\ exp'.at = "idle"
  BY DEF Crash, db, disk, wish, NoRecovery, NoDelete, NoExport
<1>2. Fewer /\ doubted' = {} /\ born \ runs \subseteq born' \ runs'
  BY <1>1 DEF Fewer, CalmInv
<1>3. Apart' /\ DeletedFiles' /\ RawRows' /\ ExportsLeft'
  BY <1>1, <1>2, FewerKeep
<1>4. WaitingOutside' /\ OneExport'
  BY <1>1 DEF WaitingOutside, OneExport
<1>5. OneDeletion'
  BY <1>1 DEF CalmInv, OneDeletion
<1>6. RowsOfDeletion' /\ Announced'
  <2>1. RowsOfDeletion'
    BY <1>1 DEF RowsOfDeletion
  <2>2. Announced'
    BY <1>1 DEF Announced
  <2>3. QED BY <2>1, <2>2
<1>7. Destinations'
  BY <1>1 DEF CalmInv, Destinations
<1>8. Unstaged'
  BY <1>1, StillUnstaged
<1>9. QED BY <1>2, <1>3, <1>4, <1>5, <1>6, <1>7, <1>8 DEF CalmInv

(* A batch of Raw output that was stored is settled.                       *)
LEMMA RecoverRawCalm ==
    ASSUME FilesInv, CalmInv, NEW o \in Op, RecoverRaw(o)
    PROVE  CalmInv'
<1> DEFINE f == manifest[o].file
<1>1. /\ UNCHANGED <<runs, born, rows, receipts, aside, doubted, ops, exp, up, rec, waiting, del>>
      /\ rec.at = "exports" /\ o \in Left({"raw_batch"}) /\ Written(o, NoManifest)
      /\ IF rows[f] = NoRow THEN Unlinked(f) ELSE UNCHANGED here
  BY DEF RecoverRaw, db, start, counts, wish
<1>2. manifest[o].kind = "raw_batch" /\ o # exp.op /\ f \in Raw /\ f \in File /\ f \in Path
  BY <1>1, ManifestKinds, Sorts DEF FilesInv, Left
<1>3. manifest'[o] = NoManifest /\ \A o1 \in Op : o1 # o => manifest'[o1] = manifest[o1]
  BY <1>1, WrittenManifest DEF FilesInv
<1>4. here'[f] \in {0, here[f]} /\ \A q \in Path : q # f => here'[q] = here[q]
  BY <1>1, <1>2, UnlinkedFile, Plain DEF PlainFiles
<1>5. Fewer /\ doubted' = {} /\ born \ runs \subseteq born' \ runs'
      /\ \A o1 \in Op : manifest[o1].kind # "delete"
  BY <1>1, <1>3 DEF Fewer, CalmInv, FilesInv, Recovering
<1>6. WaitingOutside' /\ OneDeletion' /\ OneExport' /\ Apart' /\ Destinations' /\ RowsOfDeletion'
  BY <1>1, <1>5, FewerKeep
<1>k. \A o1 \in Op : \/ manifest'[o1] = manifest[o1]
                     \/ manifest'[o1] = NoManifest /\ manifest'[o1].kind = "none"
  BY <1>3, Kinds
<1>7. DeletedFiles'
  BY <1>5, <1>k DEF DeletedFiles
<1>8. RawRows'
  <2>1. \A g \in Raw : here'[g] # 0 => here[g] # 0
    BY <1>4, Sorts
  <2>2. QED BY <1>1, <1>k, <2>1 DEF CalmInv, RawRows
<1>9. Announced'
  <2>1. exp.at # "idle" => manifest'[exp.op] = manifest[exp.op]
    BY <1>1, <1>2, <1>3, WhileStarting
  <2>2. QED BY <1>1, <2>1 DEF CalmInv, Announced, D, New
<1>10. ExportsLeft'
  <2>1. ASSUME NEW o1 \in Op, manifest'[o1].kind \in Kind PROVE Recoverable(o1)'
    <3>1. manifest'[o1] = manifest[o1] /\ manifest[o1].kind \in Kind /\ Recoverable(o1)
      BY <1>k, <2>1, Kinds DEF CalmInv, ExportsLeft
    <3>2. /\ Staged(manifest[o1].kind, o1) \in Path \ File
          /\ Backup(manifest[o1].kind, o1) \in Path \ File
          /\ manifest[o1].dest \in File \ Raw /\ manifest[o1].dest \in Path
      BY <3>1, ExportPaths
    <3>3. QED BY <1>1, <1>2, <1>4, <3>1, <3>2, RecoverableKeeps DEF Recoverable
  <2>2. QED BY <2>1 DEF ExportsLeft
<1>11. Unstaged'
  <2>1. \A k \in Kind, o1 \in Op : here'[Staged(k, o1)] = here[Staged(k, o1)]
    BY <1>2, <1>4, HiddenApart
  <2>2. \A o1 \in Op : manifest'[o1].kind = "delete" => manifest'[o1] = manifest[o1]
    BY <1>k
  <2>3. QED BY <1>1, <2>1, <2>2, StillUnstaged
<1>12. QED BY <1>5, <1>6, <1>7, <1>8, <1>9, <1>10, <1>11 DEF CalmInv

-----------------------------------------------------------------------------
(* Crashes alone: exports                                                  *)

\* an export that has prepared itself only
LEMMA PreparedFits ==
    ASSUME NEW o \in Op, manifest'[o].phase = "PREPARED", o \notin receipts',
           here'[Backup(manifest'[o].kind, o)] = 0,
           \A o1 \in Op : aside'[o1][Backup(manifest'[o].kind, o)] = 0
    PROVE  Recoverable(o)'
  BY DEF Recoverable, Unrecoverable

\* hidden files of one may be removed when its destination is settled
LEMMA RemovalFits ==
    ASSUME FilesInv, NEW o \in Op, manifest[o].kind \in Kind, Recoverable(o),
           UNCHANGED <<rows, receipts, aside>>, manifest'[o] = manifest[o],
           LET m == manifest[o]
               s == Staged(m.kind, o)
               b == Backup(m.kind, o) IN
           /\ here'[s] \in {0, here[s]} /\ here'[b] \in {0, here[b]} /\ here'[m.dest] = here[m.dest]
           /\ m.phase # "PREPARED" =>
                 \/ Done(o, m) /\ here[m.dest] # 0
                 \/ ~ Done(o, m) /\ here'[b] = here[b]
    PROVE  Recoverable(o)'
<1> DEFINE m == manifest[o]
           s == Staged(m.kind, o)
           b == Backup(m.kind, o)
<1>1. CASE m.phase = "PREPARED"
  <2>1. here[b] = 0 /\ o \notin receipts /\ \A o1 \in Op : aside[o1][b] = 0
    BY <1>1 DEF Recoverable, Unrecoverable
  <2>2. QED BY <1>1, <2>1, PreparedFits
<1>2. CASE m.phase # "PREPARED" /\ Done(o, m) /\ here[m.dest] # 0
  <2>1. Finished(o)
    BY <1>2, Accepted
  <2>2. Finished(o)'
    BY <2>1 DEF Finished, Done, IsNew
  <2>3. QED BY <2>2, FinishedFits
<1>3. CASE m.phase # "PREPARED" /\ ~ Done(o, m) /\ here'[b] = here[b]
  <2>1. Undone(o)
    BY <1>3, Accepted
  <2>2. Undone(o)'
    BY <1>3, <2>1 DEF Undone, Done, IsNew, IsOld
  <2>3. QED BY <2>2, UndoneFits
<1>4. QED BY <1>1, <1>2, <1>3

\* the report of one that is to be undone goes, or its backup returns
LEMMA UndoingFits ==
    ASSUME FilesInv, NEW o \in Op, manifest[o].kind \in Kind, Undone(o),
           UNCHANGED <<rows, receipts>>, manifest'[o] = manifest[o],
           LET m == manifest[o]
               s == Staged(m.kind, o)
               b == Backup(m.kind, o) IN
           /\ here'[s] = here[s]
           /\ \/ here[m.dest] = NewContent(o) /\ here'[m.dest] = 0 /\ here'[b] = here[b]
              \/ here[b] # 0 /\ here'[m.dest] = here[b] /\ here'[b] = 0
    PROVE  Recoverable(o)'
<1> DEFINE m == manifest[o]
           b == Backup(m.kind, o)
<1>1. m.prev \in Nat /\ m.prev < NewContent(o)
  BY ExportPaths
<1>2. m.prev # NewContent(o)
  BY <1>1, Operations
<1>3. CASE here[m.dest] = NewContent(o) /\ here'[m.dest] = 0 /\ here'[b] = here[b]
  <2>1. Undone(o)'
    BY <1>2, <1>3 DEF Undone, Done, IsNew, IsOld
  <2>2. QED BY <2>1, UndoneFits
<1>4. CASE here[b] # 0 /\ here'[m.dest] = here[b] /\ here'[b] = 0
  <2>1. Undone(o)'
    BY <1>4 DEF Undone, Done, IsNew, IsOld
  <2>2. QED BY <2>1, UndoneFits
<1>5. QED BY <1>3, <1>4

\* what is removed, one by one
LEMMA RemoveEffect ==
    ASSUME FilesInv, NEW o \in Op, NEW ps \in SUBSET Path, RemoveNext(o, ps)
    PROVE  /\ \A q \in Path : q \notin ps => here'[q] = here[q]
           /\ \A q \in ps : here'[q] \in {0, here[q]}
           /\ \A o1 \in Op : o1 # o => manifest'[o1] = manifest[o1]
           /\ manifest'[o] \in {manifest[o], NoManifest}
<1>1. CASE \E p \in ps : here[p] # 0
  <2>1. PICK p \in ps : Unlinked(p) /\ UNCHANGED manifest
    BY <1>1 DEF RemoveNext
  <2>2. QED BY <2>1, UnlinkedFile, Plain DEF PlainFiles
<1>2. CASE ~ \E p \in ps : here[p] # 0
  <2>1. UNCHANGED here /\ (UNCHANGED manifest \/ Written(o, NoManifest))
    BY <1>2 DEF RemoveNext
  <2>2. QED BY <2>1, WrittenManifest DEF FilesInv
<1>3. QED BY <1>1, <1>2

\* the manifest of the export at work
LEMMA OwnManifest ==
    ASSUME FilesInv, CalmInv, exp.at # "idle"
    PROVE  /\ Places /\ B = Backup(exp.kind, exp.op) /\ S = Staged(exp.kind, exp.op)
           /\ manifest[exp.op] # NoManifest =>
                 /\ manifest[exp.op].kind = exp.kind /\ manifest[exp.op].dest = D
                 /\ manifest[exp.op].run = exp.run /\ Recoverable(exp.op)
           /\ manifest[exp.op].kind \in {exp.kind, "none"}
           /\ manifest[exp.op].kind # "none" => manifest[exp.op] # NoManifest
<1>1. Places
  BY AtWork
<1>2. manifest[exp.op] # NoManifest =>
          /\ manifest[exp.op].kind = exp.kind /\ manifest[exp.op].dest = D
          /\ manifest[exp.op].run = exp.run
  BY <1>1 DEF FilesInv, ManifestAtWork, Places
<1>3. manifest[exp.op] # NoManifest => Recoverable(exp.op)
  BY <1>1, <1>2 DEF CalmInv, ExportsLeft, Places
<1>4. QED BY <1>1, <1>2, <1>3, Kinds DEF Places

\* ... when it has the lease
LEMMA LeasedAlone ==
    ASSUME FilesInv, CalmInv, exp.at \in Leased
    PROVE  /\ exp.at # "idle" /\ up = "up" /\ rec.at = "none"
           /\ \A o \in Op : manifest[o].kind # "delete"
  BY HoldsLease DEF CalmInv, OneDeletion

\* ... before it is recorded
LEMMA NotRecorded ==
    ASSUME FilesInv, CalmInv,
           exp.at \in {"announce", "backup", "install", "mark", "record", "rollback"}
    PROVE  /\ exp.op \notin receipts /\ exp.prev < New /\ exp.prev \in Nat
           /\ exp.kind = "export" => /\ rows[D].content = exp.row.content
                                     /\ rows[D].content # New
<1>1. Places /\ exp.at # "idle" /\ exp.at \in Leased /\ exp.prev \in Nat /\ exp.op \in Nat
  BY AtWork, Plain DEF Leased, PlainExport, PlainOps
<1>2. exp.prev < New
  BY <1>1 DEF FilesInv, FreshHidden, Places
<1>3. exp.op \notin receipts
  BY <1>1 DEF CalmInv, Announced
<1>4. ASSUME exp.kind = "export"
      PROVE  rows[D].content = exp.row.content /\ rows[D].content # New
  <2>1. rows[D].content = exp.row.content
    BY <1>1, <1>4 DEF FilesInv, RowAtWork, CalmInv, Announced
  <2>2. exp.row.content \in {0, exp.prev}
    BY <1>1, <1>4 DEF FilesInv, RowAtWork
  <2>3. 0 # New /\ exp.prev # New
    BY <1>1, <1>2 DEF Places
  <2>4. QED BY <2>1, <2>2, <2>3
<1>5. QED BY <1>1, <1>2, <1>3, <1>4

\* an export goes on and leaves everything where it is
LEMMA ExportIdles ==
    ASSUME FilesInv, CalmInv, exp.at # "idle", exp'.op = exp.op, exp'.dest = exp.dest,
           exp'.at # "idle", exp'.at \notin {"prepare", "render"}, Announced',
           UNCHANGED <<runs, born, rows, receipts, here, aside, manifest, waiting, rec, up, del,
                       ops, doubted>>
    PROVE  CalmInv'
<1>1. Places /\ manifest[exp.op].kind \in {exp.kind, "none"}
  BY OwnManifest
<1>2. WorkOn(exp.kind, exp.op, D)
  BY <1>1 DEF WorkOn
<1>3. manifest'[exp.op].kind = exp.kind => Recoverable(exp.op)'
  <2>1. ASSUME manifest[exp.op].kind = exp.kind PROVE Recoverable(exp.op)'
    <3>1. Recoverable(exp.op) /\ exp.op \in Op
      BY <1>1, <2>1 DEF CalmInv, ExportsLeft, Places
    <3>2. QED BY <3>1, RecoverableKeeps DEF Recoverable
  <2>2. QED BY <2>1
<1>4. doubted' = {}
  BY DEF CalmInv
<1>5. QED BY <1>2, <1>3, <1>4, ExportStep

(* An export begins; no other is at its destination.                       *)
LEMMA ExportBeginsCalm ==
    ASSUME FilesInv, CalmInv, ~ overtaken', NEW r \in Run, NEW d \in Report \cup Outside,
           ExportBegins(r, d), UNCHANGED <<pending, del>>
    PROVE  CalmInv'
<1>1. /\ UNCHANGED <<runs, born, rows, receipts, here, aside, manifest, up, rec, waiting, doubted,
                     del>>
      /\ up = "up" /\ exp.at = "idle" /\ ops' = ops + 1 /\ ops' \in Op
      /\ exp'.at = "prepare" /\ exp'.op = ops' /\ exp'.dest = d
  BY Plain, Operations, AnOperation
     DEF ExportBegins, NewOp, NoOther, NoExport, PlainOps, Op, db, disk, start, wish
<1>2. PICK n \in Nat : n = ops' /\ n > ops /\ n \in Op /\ ops \in Nat
  BY <1>1, Plain, Operations DEF PlainOps
<1>3. \A o \in Op : manifest[o].kind \in Kind => manifest[o].dest # d
  BY DEF ExportBegins
<1>4. Fewer /\ doubted' = {} /\ born \ runs \subseteq born' \ runs'
  BY <1>1 DEF Fewer, CalmInv
<1>5. /\ OneDeletion' /\ Apart' /\ DeletedFiles' /\ RowsOfDeletion' /\ RawRows'
      /\ ExportsLeft'
  BY <1>1, <1>4, FewerKeep
<1>6. WaitingOutside'
  <2>1. \A o \in waiting \cup rec.before : o <= ops /\ o \in Nat
    BY Operations DEF FilesInv, TypeOK, RecoveryForm, IsRecovery, CalmInv, WaitingOutside
  <2>2. \A o \in waiting \cup rec.before : o <= n /\ o # n
    BY <1>2, <2>1
  <2>3. QED BY <1>1, <1>2, <2>2 DEF CalmInv, WaitingOutside
<1>7. OneExport'
  BY <1>1 DEF CalmInv, OneExport
<1>8. Destinations'
  BY <1>1, <1>3 DEF CalmInv, Destinations
<1>9. Announced'
  <2>1. n \notin receipts /\ manifest[n] = NoManifest
    BY <1>2 DEF FilesInv, FreshOps
  <2>2. QED BY <1>1, <1>2, <2>1 DEF Announced
<1>10. Unstaged'
  <2>1. \A o \in Op : o > n => o > ops
    BY <1>2, Operations
  <2>2. QED BY <1>1, <1>2, <2>1, StillUnstaged
<1>11. QED BY <1>4, <1>5, <1>6, <1>7, <1>8, <1>9, <1>10 DEF CalmInv

(* Its manifest is written.                                                *)
LEMMA PrepareCalm ==
    ASSUME FilesInv, CalmInv, faults' = 0, Prepare, UNCHANGED <<pending, del>>
    PROVE  CalmInv'
<1>0. faults' # faults + 1
  BY DEF FilesInv, Numbers
<1>1. /\ UNCHANGED <<runs, born, rows, receipts, here, aside, up, rec, waiting, doubted, ops, del>>
      /\ exp.at = "prepare" /\ Written(exp.op, Manifest("PREPARED")) /\ Goes("render")
  BY <1>0 DEF Prepare, Faulty, NoOther, start, wish
<1>2. /\ exp'.at = "render" /\ exp'.op = exp.op /\ exp'.dest = exp.dest /\ exp'.kind = exp.kind
  BY <1>1, ExportGoes DEF FilesInv, ExportAt
<1>3. Places /\ manifest[exp.op] = NoManifest /\ exp.op \notin receipts
      /\ here[B] = 0 /\ \A o \in Op : aside[o][B] = 0
  BY <1>1, AtWork, NoBackup DEF FilesInv, ManifestAtWork, Leased
<1>4. /\ manifest'[exp.op] = Manifest("PREPARED")
      /\ \A o \in Op : o # exp.op => manifest'[o] = manifest[o]
  BY <1>1, <1>3, WrittenManifest DEF FilesInv, Places
<1>5. /\ manifest'[exp.op].kind = exp.kind /\ manifest'[exp.op].dest = exp.dest
      /\ manifest'[exp.op].phase = "PREPARED"
  BY <1>4 DEF Manifest, D
<1>6. Recoverable(exp.op)'
  <2>1. Backup(manifest'[exp.op].kind, exp.op) = B /\ exp.op \in Op
    BY <1>3, <1>5 DEF Places
  <2>2. /\ here'[Backup(manifest'[exp.op].kind, exp.op)] = 0
        /\ \A o1 \in Op : aside'[o1][Backup(manifest'[exp.op].kind, exp.op)] = 0
        /\ exp.op \notin receipts'
    BY <1>1, <1>3, <2>1
  <2>3. QED BY <1>2, <1>5, <2>1, <2>2, PreparedFits
<1>7. WorkOn(exp.kind, exp.op, D)
  BY <1>1, <1>3, <1>4, <1>5, Kinds DEF WorkOn
<1>8. Announced' /\ doubted' = {}
  <2>1. Announced'
    BY <1>1, <1>2, <1>3, <1>5 DEF Announced
  <2>2. QED BY <1>1, <2>1 DEF CalmInv
<1>9. QED BY <1>1, <1>2, <1>5, <1>6, <1>7, <1>8, ExportStep

(* It is rendered.                                                         *)
LEMMA RenderCalm ==
    ASSUME FilesInv, CalmInv, Render, UNCHANGED <<pending, del>>
    PROVE  CalmInv'
<1>1. /\ UNCHANGED <<runs, born, rows, receipts, aside, manifest, up, rec, waiting, doubted, ops,
                     del>>
      /\ exp.at = "render" /\ here' = [here EXCEPT ![S] = New] /\ Goes("ready")
  BY DEF Render, NoOther, start, wish
<1>2. /\ exp'.at = "ready" /\ exp'.op = exp.op /\ exp'.dest = exp.dest /\ exp'.kind = exp.kind
      /\ exp'.prev = exp.prev /\ exp'.row = exp.row /\ exp'.run = exp.run
  BY <1>1, ExportGoes DEF FilesInv, ExportAt
<1>3. /\ Places /\ B = Backup(exp.kind, exp.op) /\ S = Staged(exp.kind, exp.op)
      /\ manifest[exp.op].kind \in {exp.kind, "none"} /\ manifest[exp.op] # NoManifest
      /\ manifest[exp.op].kind = exp.kind /\ Recoverable(exp.op)
  BY <1>1, OwnManifest DEF FilesInv, ManifestAtWork
<1>4. \A q \in Path : q # S => here'[q] = here[q]
  BY <1>1, Plain DEF PlainFiles
<1>5. here'[B] = here[B] /\ here'[D] = here[D]
  BY <1>3, <1>4 DEF Places
<1>6. manifest[exp.op].phase = "PREPARED"
  BY <1>1, <1>3 DEF CalmInv, Announced
<1>7. Recoverable(exp.op)'
  <2>1. exp.op \in Op /\ Backup(manifest[exp.op].kind, exp.op) = B
    BY <1>3 DEF Places
  <2>2. \A o1 \in Op : aside[o1][B] = 0
    BY <1>3, <1>6, <2>1 DEF Recoverable
  <2>3. QED BY <1>1, <1>2, <1>3, <1>5, <1>6, <2>1, <2>2, RecoverableKeeps
<1>8. WorkOn(exp.kind, exp.op, D)
  BY <1>1, <1>3, <1>4 DEF WorkOn
<1>9. Announced' /\ doubted' = {}
  <2>1. Announced'
    BY <1>1, <1>2, <1>6 DEF CalmInv, Announced
  <2>2. QED BY <1>1, <2>1 DEF CalmInv
<1>10. QED BY <1>1, <1>2, <1>5, <1>7, <1>8, <1>9, ExportStep

(* It is not, or the lease is taken, or refused.                           *)
LEMMA CommitBeginsCalm ==
    ASSUME FilesInv, CalmInv, NotRendered \/ CommitBegins \/ CommitRefused,
           UNCHANGED <<pending, del>>
    PROVE  CalmInv'
<1>1. /\ UNCHANGED <<runs, born, rows, receipts, here, aside, manifest, up, rec, waiting, doubted,
                     ops, del>>
      /\ exp.at \in {"render", "ready"}
      /\ \/ exp' = [exp EXCEPT !.at = "discard"]
         \/ exp' = [exp EXCEPT !.at = "announce", !.prev = here[D],
                               !.row = IF exp.kind = "export" THEN rows[D] ELSE NoRow]
  BY DEF NotRendered, CommitBegins, CommitRefused, NoOther, start, wish, disk, Goes
<1>2. exp'.at \in {"discard", "announce"} /\ exp'.op = exp.op /\ exp'.dest = exp.dest
  BY <1>1 DEF FilesInv, ExportForm, IsExport
<1>3. manifest[exp.op] = NoManifest \/ manifest[exp.op].phase = "PREPARED"
  BY <1>1 DEF CalmInv, Announced
<1>4. exp.op \notin receipts
  BY <1>1 DEF CalmInv, Announced
<1>5. Announced'
  BY <1>1, <1>2, <1>3, <1>4 DEF Announced
<1>6. QED BY <1>1, <1>2, <1>5, ExportIdles

\* hidden files of the export at work go, then its manifest
LEMMA OwnRemoved ==
    ASSUME FilesInv, CalmInv, exp.at \in {"discard", "clean", "rollback"},
           NEW ps \in SUBSET {S, B}, RemoveNext(exp.op, ps), B \in ps => exp.at = "clean",
           UNCHANGED <<runs, born, rows, receipts, aside, waiting, rec, up, del, ops, doubted, exp>>
    PROVE  CalmInv'
<1>1. /\ Places /\ B = Backup(exp.kind, exp.op) /\ S = Staged(exp.kind, exp.op)
      /\ manifest[exp.op] # NoManifest =>
            /\ manifest[exp.op].kind = exp.kind /\ manifest[exp.op].dest = D
            /\ manifest[exp.op].run = exp.run /\ Recoverable(exp.op)
      /\ manifest[exp.op].kind \in {exp.kind, "none"}
      /\ manifest[exp.op].kind # "none" => manifest[exp.op] # NoManifest
  BY OwnManifest
<1>2. /\ \A q \in Path : q \notin ps => here'[q] = here[q]
      /\ \A q \in ps : here'[q] \in {0, here[q]}
      /\ \A o1 \in Op : o1 # exp.op => manifest'[o1] = manifest[o1]
      /\ manifest'[exp.op] \in {manifest[exp.op], NoManifest}
  BY <1>1, RemoveEffect DEF Places
<1>3. /\ here'[S] \in {0, here[S]} /\ here'[B] \in {0, here[B]} /\ here'[D] = here[D]
      /\ B \notin ps => here'[B] = here[B]
  BY <1>1, <1>2 DEF Places
<1>4. WorkOn(exp.kind, exp.op, D)
  <2>1. manifest'[exp.op].kind \in {exp.kind, "none"}
    BY <1>1, <1>2, Kinds
  <2>2. \A q \in Path \ {S, B, D} : here'[q] = here[q]
    BY <1>2
  <2>3. QED BY <1>1, <1>2, <2>1, <2>2 DEF WorkOn
<1>5. ASSUME manifest'[exp.op].kind = exp.kind PROVE Recoverable(exp.op)'
  <2>1. /\ manifest'[exp.op] = manifest[exp.op] /\ manifest[exp.op] # NoManifest
        /\ exp.kind \in Kind /\ exp.op \in Op
    BY <1>1, <1>2, <1>5, Kinds DEF Places
  <2>2. ASSUME manifest[exp.op].phase # "PREPARED"
        PROVE  \/ Done(exp.op, manifest[exp.op]) /\ here[D] # 0
               \/ ~ Done(exp.op, manifest[exp.op]) /\ here'[B] = here[B]
    <3>1. CASE exp.at = "clean"
      <4>1. here[D] = New /\ New # 0
        BY <1>1, <3>1 DEF FilesInv, FilesAtWork, Places
      <4>2. Done(exp.op, manifest[exp.op])
        BY <1>1, <2>1, <3>1 DEF CalmInv, Announced, Done, IsNew, New
      <4>3. QED BY <4>1, <4>2
    <3>2. CASE exp.at = "rollback"
      <4>1. ~ Done(exp.op, manifest[exp.op])
        BY <1>1, <2>1, <3>2, NotRecorded DEF Done, IsNew, Places
      <4>2. QED BY <1>3, <3>2, <4>1
    <3>3. CASE exp.at = "discard"
      BY <2>1, <2>2, <3>3 DEF CalmInv, Announced
    <3>4. QED BY <3>1, <3>2, <3>3
  <2>3. QED BY <1>1, <1>3, <2>1, <2>2, RemovalFits
<1>6. \/ \A o \in Op : manifest[o].kind # "delete"
      \/ here'[D] = here[D] /\ here'[B] = here[B] /\ UNCHANGED rows /\ here'[S] \in {0, here[S]}
  BY <1>3, LeasedAlone DEF Leased
<1>7. Announced' /\ doubted' = {}
  <2>1. Announced'
    BY <1>2 DEF CalmInv, Announced, D, New
  <2>2. QED BY <2>1 DEF CalmInv
<1>8. QED BY <1>3, <1>4, <1>2, <1>5, <1>6, <1>7, ExportStep

(* What was prepared and rendered is discarded.                            *)
LEMMA DiscardStepCalm ==
    ASSUME FilesInv, CalmInv, faults' = 0, DiscardStep, UNCHANGED <<pending, del>>
    PROVE  CalmInv'
<1>0. faults' # faults + 1
  BY DEF FilesInv, Numbers
<1>1. /\ UNCHANGED <<runs, born, rows, receipts, aside, up, rec, waiting, doubted, ops, del>>
      /\ exp.at = "discard"
      /\ \/ RemoveNext(exp.op, {S}) /\ UNCHANGED exp
         \/ /\ AllRemoved(exp.op, {S}) \/ ~ Reachable(exp.kind)
            /\ exp' = NoExport /\ UNCHANGED <<here, manifest>>
  BY <1>0 DEF DiscardStep, Faulty, NoOther, Ends, start, wish
<1>2. Places /\ manifest[exp.op].kind \in {exp.kind, "none"}
  BY <1>1, OwnManifest
<1>3. CASE RemoveNext(exp.op, {S}) /\ UNCHANGED exp
  <2>1. {S} \in SUBSET {S, B} /\ B \notin {S}
    BY <1>2 DEF Places
  <2>2. QED BY <1>1, <1>3, <2>1, OwnRemoved
<1>4. CASE /\ AllRemoved(exp.op, {S}) \/ ~ Reachable(exp.kind)
           /\ exp' = NoExport /\ UNCHANGED <<here, manifest>>
  <2>1. manifest[exp.op].kind # "export"
    BY <1>2, <1>4, Kinds DEF AllRemoved, Reachable
  <2>2. exp'.at = "idle"
    BY <1>4 DEF NoExport
  <2>3. QED BY <1>1, <1>4, <2>1, <2>2, ExportOver
<1>5. QED BY <1>1, <1>3, <1>4

\* a manifest is written by the export that has the lease
LEMMA MarkedCalm ==
    ASSUME FilesInv, CalmInv, exp.at \in Leased, exp' = [exp EXCEPT !.at = exp'.at],
           NEW ph \in Phases \ {"PREPARED"}, Written(exp.op, Manifest(ph)),
           exp'.at # "idle", exp'.at \notin {"prepare", "render"},
           exp.at \in {"announce", "mark", "confirm"},
           exp.at = "announce" => exp'.at = "backup" /\ ph = "RENDERED",
           exp.at = "mark" => exp'.at = "record" /\ ph = "INSTALLED",
           exp.at = "confirm" => exp'.at = "clean" /\ ph = "DB_COMMITTED",
           UNCHANGED <<runs, born, rows, receipts, here, aside, waiting, rec, up, del, ops,
                       doubted>>
    PROVE  CalmInv'
<1>1. /\ Places /\ B = Backup(exp.kind, exp.op) /\ S = Staged(exp.kind, exp.op)
      /\ manifest[exp.op].kind \in {exp.kind, "none"} /\ exp.at # "idle"
      /\ \A o \in Op : manifest[o].kind # "delete"
  BY OwnManifest, LeasedAlone
<1>2. /\ exp'.op = exp.op /\ exp'.dest = exp.dest /\ exp'.kind = exp.kind /\ exp'.run = exp.run
      /\ exp'.prev = exp.prev /\ exp'.row = exp.row
  BY DEF FilesInv, ExportForm, IsExport
<1>3. /\ manifest'[exp.op] = Manifest(ph)
      /\ \A o \in Op : o # exp.op => manifest'[o] = manifest[o]
  BY <1>1, WrittenManifest DEF FilesInv, Places
<1>4. /\ manifest'[exp.op].kind = exp.kind /\ manifest'[exp.op].dest = D
      /\ manifest'[exp.op].phase = ph /\ manifest'[exp.op].run = exp.run
      /\ manifest'[exp.op].prev = exp.prev /\ manifest'[exp.op].row = exp.row
  BY <1>3 DEF Manifest
<1>5. WorkOn(exp.kind, exp.op, D)
  BY <1>1, <1>3, <1>4 DEF WorkOn
<1>6. Recoverable(exp.op)'
  <2>1. CASE exp.at = "confirm"
    <3>1. here[D] = New /\ here[S] = 0 /\ New # 0 /\ here[B] \in {0, exp.prev}
      <4>1. here[D] = New /\ here[S] = 0 /\ New # 0
        BY <1>1, <2>1 DEF FilesInv, FilesAtWork, Places
      <4>2. manifest[exp.op] # NoManifest /\ manifest[exp.op].phase = "INSTALLED"
        BY <1>1, <2>1 DEF FilesInv, ManifestAtWork, CalmInv, Announced
      <4>3. manifest[exp.op].prev = exp.prev /\ manifest[exp.op].kind = exp.kind
        BY <1>1, <4>2 DEF CalmInv, Announced, FilesInv, ManifestAtWork
      <4>4. Recoverable(exp.op)
        BY <4>2, OwnManifest, <1>1
      <4>5. here[B] \in {0, exp.prev}
        BY <1>1, <4>2, <4>3, <4>4 DEF Recoverable, Unrecoverable, Contents
      <4>6. QED BY <4>1, <4>5
    <3>2. IF exp.kind = "export" THEN rows[D] = [run |-> exp.run, content |-> New]
                                 ELSE exp.op \in receipts
      BY <1>1, <2>1 DEF CalmInv, Announced
    <3>3. Finished(exp.op)'
      BY <1>1, <1>2, <1>4, <2>1, <3>1, <3>2 DEF Finished, Done, IsNew, Places
    <3>4. QED BY <1>1, <1>2, <3>3, FinishedFits DEF Places
  <2>2. CASE exp.at \in {"announce", "mark"}
    <3>1. /\ here[S] \in {0, New} /\ here[B] \in {0, exp.prev}
          /\ here[B] # 0 \/ exp.prev = 0 => here[D] \in {0, New}
          /\ here[B] = 0 /\ exp.prev # 0 => here[D] = exp.prev
      <4>1. CASE exp.at = "announce"
        BY <1>1, <4>1 DEF FilesInv, FilesAtWork
      <4>2. CASE exp.at = "mark"
        <5>1. here[S] = 0 /\ here[B] \in {0, exp.prev} /\ here[D] = New
          BY <1>1, <4>2 DEF FilesInv, FilesAtWork
        <5>2. manifest[exp.op] # NoManifest /\ manifest[exp.op].phase = "RENDERED"
          BY <1>1, <4>2 DEF FilesInv, ManifestAtWork, CalmInv, Announced
        <5>3. /\ manifest[exp.op].prev = exp.prev /\ manifest[exp.op].kind = exp.kind
              /\ manifest[exp.op].dest = D /\ manifest[exp.op].run = exp.run
          BY <1>1, <5>2, OwnManifest DEF CalmInv, Announced
        <5>4. Recoverable(exp.op)
          BY <1>1, <5>2, OwnManifest
        <5>5. ~ Done(exp.op, manifest[exp.op])
          BY <1>1, <4>2, <5>3, NotRecorded DEF Done, IsNew, Places
        <5>6. here[B] = 0 /\ exp.prev # 0 => here[D] = exp.prev
          BY <1>1, <5>2, <5>3, <5>4, <5>5 DEF Recoverable, Unrecoverable, Contents
        <5>7. QED BY <5>1, <5>6
      <4>3. QED BY <2>2, <4>1, <4>2
    <3>2. /\ exp.op \notin receipts
          /\ exp.kind = "export" => rows[D].content = exp.row.content /\ rows[D].content # New
      BY <2>2, NotRecorded
    <3>3. Undone(exp.op)'
      BY <1>1, <1>2, <1>4, <2>2, <3>1, <3>2 DEF Undone, Done, IsNew, IsOld, Places
    <3>4. QED BY <1>1, <1>2, <3>3, UndoneFits DEF Places
  <2>3. QED BY <2>1, <2>2
<1>7. Announced' /\ doubted' = {}
  <2>1. exp.at = "confirm" => IF exp.kind = "export"
                              THEN rows[D] = [run |-> exp.run, content |-> New]
                              ELSE exp.op \in receipts
    BY <1>1 DEF CalmInv, Announced
  <2>2. exp.at \in {"announce", "mark"} => exp.op \notin receipts
    BY NotRecorded
  <2>3. manifest'[exp.op].phase # "PREPARED"
    BY <1>4
  <2>4. D' = D /\ New' = New
    BY <1>2 DEF D, New
  <2>5. Announced'
    BY <1>2, <1>4, <2>1, <2>2, <2>3, <2>4 DEF Announced
  <2>6. QED BY <2>5 DEF CalmInv
<1>8. manifest'[exp.op].dest = exp.dest
  BY <1>4 DEF D
<1>9. QED BY <1>1, <1>2, <1>4, <1>5, <1>6, <1>7, <1>8, ExportStep

(* It is announced, marked as installed, and as recorded.                  *)
LEMMA MarksCalm ==
    ASSUME FilesInv, CalmInv, Announce \/ Mark \/ ConfirmRecord, UNCHANGED <<pending, del>>
    PROVE  CalmInv'
<1>1. /\ UNCHANGED <<runs, born, rows, receipts, here, aside, up, rec, waiting, doubted, ops, del>>
      /\ \/ exp.at = "announce" /\ Written(exp.op, Manifest("RENDERED")) /\ Goes("backup")
         \/ exp.at = "mark" /\ Written(exp.op, Manifest("INSTALLED")) /\ Goes("record")
         \/ exp.at = "confirm" /\ Written(exp.op, Manifest("DB_COMMITTED")) /\ Goes("clean")
  BY DEF Announce, Mark, ConfirmRecord, NoOther, start, wish
<1>2. exp.at \in Leased /\ exp' = [exp EXCEPT !.at = exp'.at]
  BY <1>1 DEF Leased, Goes, FilesInv, ExportForm, IsExport
<1>3. /\ exp.at = "announce" => exp'.at = "backup"
      /\ exp.at = "mark" => exp'.at = "record"
      /\ exp.at = "confirm" => exp'.at = "clean"
  BY <1>1, ExportGoes DEF FilesInv, ExportAt
<1>4. /\ "RENDERED" \in Phases \ {"PREPARED"} /\ "INSTALLED" \in Phases \ {"PREPARED"}
      /\ "DB_COMMITTED" \in Phases \ {"PREPARED"}
  BY DEF Phases
<1>5. exp'.at # "idle" /\ exp'.at \notin {"prepare", "render"}
  BY <1>1, <1>3
<1>6. CASE exp.at = "announce"
  <2>1. Written(exp.op, Manifest("RENDERED")) /\ exp'.at = "backup"
    BY <1>1, <1>3, <1>6
  <2>2. QED BY <1>1, <1>2, <1>4, <1>5, <1>6, <2>1, MarkedCalm
<1>7. CASE exp.at = "mark"
  <2>1. Written(exp.op, Manifest("INSTALLED")) /\ exp'.at = "record"
    BY <1>1, <1>3, <1>7
  <2>2. QED BY <1>1, <1>2, <1>4, <1>5, <1>7, <2>1, MarkedCalm
<1>8. CASE exp.at = "confirm"
  <2>1. Written(exp.op, Manifest("DB_COMMITTED")) /\ exp'.at = "clean"
    BY <1>1, <1>3, <1>8
  <2>2. QED BY <1>1, <1>2, <1>4, <1>5, <1>8, <2>1, MarkedCalm
<1>9. QED BY <1>1, <1>6, <1>7, <1>8
\* files of the export that has the lease move
LEMMA MovesCalm ==
    ASSUME FilesInv, CalmInv, exp.at \in Leased, exp'.op = exp.op, exp'.dest = exp.dest,
           exp'.at # "idle", exp'.at \notin {"prepare", "render"},
           \A q \in Path \ {S, B, D} : here'[q] = here[q],
           manifest[exp.op].kind = exp.kind => Recoverable(exp.op)', Announced',
           UNCHANGED <<runs, born, rows, receipts, aside, manifest, waiting, rec, up, del, ops,
                       doubted>>
    PROVE  CalmInv'
<1>1. /\ Places /\ B = Backup(exp.kind, exp.op) /\ S = Staged(exp.kind, exp.op)
      /\ manifest[exp.op].kind \in {exp.kind, "none"} /\ exp.at # "idle"
      /\ \A o \in Op : manifest[o].kind # "delete"
  BY OwnManifest, LeasedAlone
<1>2. WorkOn(exp.kind, exp.op, D)
  BY <1>1 DEF WorkOn
<1>3. doubted' = {}
  BY DEF CalmInv
<1>4. manifest'[exp.op].kind = exp.kind => Recoverable(exp.op)'
  OBVIOUS
<1>5. QED BY <1>1, <1>2, <1>3, <1>4, ExportStep

\* ... when they are in the order in which they are to move
LEMMA InstallsCalm ==
    ASSUME FilesInv, CalmInv, exp.at \in {"backup", "install"},
           /\ exp'.op = exp.op /\ exp'.dest = exp.dest /\ exp'.kind = exp.kind
           /\ exp'.run = exp.run /\ exp'.prev = exp.prev /\ exp'.row = exp.row,
           exp'.at \in {"install", "mark"}, \A q \in Path \ {S, B, D} : here'[q] = here[q],
           here'[S] \in {0, New}, here'[B] = exp.prev, here'[D] \in {0, New},
           UNCHANGED <<runs, born, rows, receipts, aside, manifest, waiting, rec, up, del, ops,
                       doubted>>
    PROVE  CalmInv'
<1>1. /\ Places /\ B = Backup(exp.kind, exp.op) /\ S = Staged(exp.kind, exp.op)
      /\ exp.at # "idle" /\ exp.at \in Leased
  BY OwnManifest DEF Leased
<1>2. manifest[exp.op] # NoManifest /\ manifest[exp.op].phase = "RENDERED"
  BY <1>1 DEF FilesInv, ManifestAtWork, CalmInv, Announced
<1>3. /\ manifest[exp.op].kind = exp.kind /\ manifest[exp.op].dest = D
      /\ manifest[exp.op].run = exp.run /\ manifest[exp.op].prev = exp.prev
      /\ manifest[exp.op].row = exp.row
  BY <1>1, <1>2, OwnManifest DEF CalmInv, Announced
<1>4. /\ exp.op \notin receipts
      /\ exp.kind = "export" => rows[D].content = exp.row.content /\ rows[D].content # New
  BY NotRecorded
<1>5. Undone(exp.op)'
  BY <1>1, <1>2, <1>3, <1>4 DEF Undone, Done, IsNew, IsOld, Places
<1>6. Recoverable(exp.op)'
  BY <1>1, <1>5, UndoneFits DEF Places
<1>7. Announced'
  <2>1. D' = D /\ New' = New
    BY DEF D, New
  <2>2. QED BY <1>2, <1>3, <1>4, <2>1 DEF Announced
<1>8. exp'.at # "idle" /\ exp'.at \notin {"prepare", "render"}
  OBVIOUS
<1>9. QED BY <1>1, <1>6, <1>7, <1>8, MovesCalm

(* What was there is kept.                                                 *)
LEMMA BackUpCalm ==
    ASSUME FilesInv, CalmInv, BackUp, UNCHANGED <<pending, del>>
    PROVE  CalmInv'
<1>1. /\ UNCHANGED <<runs, born, rows, receipts, aside, manifest, up, rec, waiting, doubted, ops,
                     del>>
      /\ exp.at = "backup" /\ Goes("install")
      /\ IF here[D] # 0 THEN Moved(D, B) ELSE UNCHANGED here
  BY DEF BackUp, NoOther, start, wish
<1>2. /\ exp'.at = "install" /\ exp'.op = exp.op /\ exp'.dest = exp.dest /\ exp'.kind = exp.kind
      /\ exp'.prev = exp.prev /\ exp'.row = exp.row /\ exp'.run = exp.run
  BY <1>1, ExportGoes DEF FilesInv, ExportAt
<1>3. Places /\ here[B] = 0 /\ here[S] = New /\ here[D] = exp.prev
  BY <1>1, AtWork DEF FilesInv, FilesAtWork
<1>4. /\ \A q \in Path \ {S, B, D} : here'[q] = here[q]
      /\ here'[S] = New /\ here'[B] = exp.prev /\ here'[D] = 0
  BY <1>1, <1>3, MovedFile, Plain DEF Places, PlainFiles
<1>5. QED BY <1>1, <1>2, <1>4, InstallsCalm

(* The report takes its place.                                             *)
LEMMA InstallCalm ==
    ASSUME FilesInv, CalmInv, Install, UNCHANGED <<pending, del>>
    PROVE  CalmInv'
<1>1. /\ UNCHANGED <<runs, born, rows, receipts, aside, manifest, up, rec, waiting, doubted, ops,
                     del>>
      /\ exp.at = "install" /\ exp' = [exp EXCEPT !.at = "mark", !.installed = TRUE]
      /\ Moved(S, D)
  BY DEF Install, NoOther, start, wish
<1>2. /\ exp'.at = "mark" /\ exp'.op = exp.op /\ exp'.dest = exp.dest /\ exp'.kind = exp.kind
      /\ exp'.prev = exp.prev /\ exp'.row = exp.row /\ exp'.run = exp.run
  BY <1>1 DEF FilesInv, ExportForm, IsExport
<1>3. Places /\ here[B] = exp.prev /\ here[S] = New /\ here[D] = 0
  BY <1>1, AtWork DEF FilesInv, FilesAtWork
<1>4. /\ \A q \in Path \ {S, B, D} : here'[q] = here[q]
      /\ here'[S] = 0 /\ here'[B] = exp.prev /\ here'[D] = New
  BY <1>1, <1>3, MovedFile, Plain DEF Places, PlainFiles
<1>5. QED BY <1>1, <1>2, <1>4, InstallsCalm

(* It is recorded.                                                         *)
LEMMA RecordCalm ==
    ASSUME FilesInv, CalmInv, Record, UNCHANGED <<pending, del>>
    PROVE  CalmInv'
<1>1. /\ UNCHANGED <<runs, born, here, aside, manifest, up, rec, waiting, ops, del>>
      /\ exp.at = "record" /\ Goes("confirm") /\ doubted' = doubted \ {D}
      /\ IF exp.kind = "export"
         THEN /\ rows' = [rows EXCEPT ![D] = [run |-> exp.run, content |-> New]]
              /\ UNCHANGED receipts
         ELSE receipts' = receipts \cup {exp.op} /\ UNCHANGED rows
  BY DEF Record, Recorded, NoOther, start, disk
<1>2. /\ exp'.at = "confirm" /\ exp'.op = exp.op /\ exp'.dest = exp.dest /\ exp'.kind = exp.kind
      /\ exp'.prev = exp.prev /\ exp'.row = exp.row /\ exp'.run = exp.run
  BY <1>1, ExportGoes DEF FilesInv, ExportAt
<1>3. /\ Places /\ B = Backup(exp.kind, exp.op) /\ S = Staged(exp.kind, exp.op)
      /\ exp.at # "idle" /\ exp.at \in Leased
      /\ \A o \in Op : manifest[o].kind # "delete"
  BY <1>1, OwnManifest, LeasedAlone DEF Leased
<1>4. manifest[exp.op] # NoManifest /\ manifest[exp.op].phase = "INSTALLED"
  BY <1>1, <1>3 DEF FilesInv, ManifestAtWork, CalmInv, Announced
<1>5. /\ manifest[exp.op].kind = exp.kind /\ manifest[exp.op].dest = D
      /\ manifest[exp.op].run = exp.run /\ manifest[exp.op].prev = exp.prev
      /\ manifest[exp.op].row = exp.row
  BY <1>3, <1>4, OwnManifest DEF CalmInv, Announced
<1>6. here[S] = 0 /\ here[D] = New /\ here[B] \in {0, exp.prev} /\ New # 0
  BY <1>1, <1>3 DEF FilesInv, FilesAtWork, Places
<1>7. /\ \A f \in File \ {D} : rows'[f] = rows[f]
      /\ exp.kind = "export" => rows'[D] = [run |-> exp.run, content |-> New]
      /\ exp.kind # "export" => exp.op \in receipts'
      /\ \A o \in Op : o # exp.op => (o \in receipts' <=> o \in receipts)
  BY <1>1, <1>3, Plain DEF PlainFiles, Places
<1>8. Finished(exp.op)'
  BY <1>1, <1>2, <1>3, <1>4, <1>5, <1>6, <1>7 DEF Finished, Done, IsNew, Places
<1>9. Recoverable(exp.op)'
  BY <1>2, <1>3, <1>8, FinishedFits DEF Places
<1>10. WorkOn(exp.kind, exp.op, D)
  BY <1>1, <1>3, <1>5, <1>7 DEF WorkOn
<1>11. Announced' /\ doubted' = {}
  <2>1. D' = D /\ New' = New
    BY <1>2 DEF D, New
  <2>2. Announced'
    BY <1>1, <1>2, <1>4, <1>5, <1>7, <2>1 DEF Announced
  <2>3. QED BY <1>1, <2>2 DEF CalmInv
<1>12. QED BY <1>1, <1>2, <1>3, <1>5, <1>9, <1>10, <1>11, ExportStep

(* A step of it cannot be taken: the drive is gone, or the run.            *)
LEMMA FailsCalm ==
    ASSUME FilesInv, CalmInv, Fails, UNCHANGED <<pending, del>>
    PROVE  CalmInv'
<1>1. /\ UNCHANGED <<runs, born, rows, receipts, here, aside, manifest, up, rec, waiting, doubted,
                     ops, del>>
      /\ exp.at \in {"announce", "backup", "install", "mark", "record"} /\ Goes("rollback")
  BY DEF Fails, NoOther, start, wish, disk
<1>2. /\ exp'.at = "rollback" /\ exp'.op = exp.op /\ exp'.dest = exp.dest /\ exp'.kind = exp.kind
      /\ exp'.prev = exp.prev /\ exp'.row = exp.row /\ exp'.run = exp.run
  BY <1>1, ExportGoes DEF FilesInv, ExportAt
<1>3. /\ exp.op \notin receipts /\ exp.at # "idle"
      /\ exp.kind = "export" => rows[D].content = exp.row.content
  BY <1>1, NotRecorded
<1>4. Announced'
  <2>1. D' = D /\ New' = New
    BY <1>2 DEF D, New
  <2>2. manifest[exp.op] # NoManifest /\ manifest[exp.op].phase # "PREPARED" =>
          manifest[exp.op].prev = exp.prev /\ manifest[exp.op].row = exp.row
    BY <1>3 DEF CalmInv, Announced
  <2>3. QED BY <1>1, <1>2, <1>3, <2>1, <2>2 DEF Announced
<1>5. exp'.at # "idle" /\ exp'.at \notin {"prepare", "render"}
  BY <1>2
<1>6. QED BY <1>1, <1>2, <1>3, <1>4, <1>5, ExportIdles

(* What is left of it is removed, or cannot be: the drive is gone.         *)
LEMMA CleanCalm ==
    ASSUME FilesInv, CalmInv, Clean, UNCHANGED <<pending, del>>
    PROVE  CalmInv'
<1>1. /\ UNCHANGED <<runs, born, rows, aside, up, rec, waiting, doubted, ops, del>>
      /\ exp.at = "clean"
      /\ \/ RemoveNext(exp.op, {B}) /\ UNCHANGED <<exp, receipts>>
         \/ /\ AllRemoved(exp.op, {B}) /\ exp' = NoExport /\ UNCHANGED <<here, manifest>>
            /\ receipts' = receipts \ {exp.op}
  BY DEF Clean, NoOther, Ends, start, wish
<1>2. CASE RemoveNext(exp.op, {B}) /\ UNCHANGED <<exp, receipts>>
  BY <1>1, <1>2, OwnRemoved
<1>3. CASE /\ AllRemoved(exp.op, {B}) /\ exp' = NoExport /\ UNCHANGED <<here, manifest>>
           /\ receipts' = receipts \ {exp.op}
  <2>1. manifest[exp.op] = NoManifest /\ exp'.at = "idle"
    BY <1>3 DEF AllRemoved, NoExport
  <2>2. manifest[exp.op].kind # "export" /\ manifest[exp.op].kind \notin Kind
    BY <2>1, Kinds
  <2>3. \A o \in Op : manifest[o].kind \in Kind => (o \in receipts' <=> o \in receipts)
    BY <1>3, <2>2
  <2>4. QED BY <1>1, <1>3, <2>1, <2>2, <2>3, ExportOver
<1>4. QED BY <1>1, <1>2, <1>3

LEMMA LeftBehindCalm ==
    ASSUME FilesInv, CalmInv, faults' = 0, LeftBehind, UNCHANGED <<pending, del>>
    PROVE  CalmInv'
<1>0. faults' # faults + 1
  BY DEF FilesInv, Numbers
<1>1. /\ UNCHANGED <<runs, born, rows, receipts, here, aside, manifest, up, rec, waiting, doubted,
                     ops, del>>
      /\ exp.at = "clean" /\ ~ Reachable(exp.kind) /\ exp' = NoExport
  BY <1>0 DEF LeftBehind, Faulty, NoOther, Ends, start, wish, disk
<1>2. manifest[exp.op].kind \in {exp.kind, "none"}
  BY <1>1, OwnManifest
<1>3. manifest[exp.op].kind # "export" /\ exp'.at = "idle"
  BY <1>1, <1>2 DEF Reachable, NoExport
<1>4. QED BY <1>1, <1>3, ExportOver

\* the report goes, and what was there comes back
LEMMA UndoesCalm ==
    ASSUME FilesInv, CalmInv, exp.at = "rollback",
           UNCHANGED <<runs, born, rows, receipts, aside, manifest, up, rec, waiting, doubted, ops,
                       del>>,
           /\ exp'.at = "rollback" /\ exp'.op = exp.op /\ exp'.dest = exp.dest
           /\ exp'.kind = exp.kind /\ exp'.prev = exp.prev /\ exp'.row = exp.row
           /\ exp'.run = exp.run,
           \/ here[D] = New /\ Unlinked(D)
           \/ here[B] # 0 /\ here[D] = 0 /\ Moved(B, D)
    PROVE  CalmInv'
<1>1. /\ Places /\ B = Backup(exp.kind, exp.op) /\ S = Staged(exp.kind, exp.op)
      /\ exp.at # "idle" /\ exp.at \in Leased /\ exp.op \in Op
      /\ manifest[exp.op].kind # "none" => manifest[exp.op] # NoManifest
  BY OwnManifest DEF Leased, Places
<1>2. /\ \A q \in Path \ {S, B, D} : here'[q] = here[q]
      /\ here'[S] = here[S]
      /\ \/ here[D] = New /\ here'[D] = 0 /\ here'[B] = here[B]
         \/ here[B] # 0 /\ here'[D] = here[B] /\ here'[B] = 0
  <2>1. CASE here[D] = New /\ Unlinked(D)
    BY <1>1, <2>1, UnlinkedFile, Plain DEF Places, PlainFiles
  <2>2. CASE here[B] # 0 /\ here[D] = 0 /\ Moved(B, D)
    BY <1>1, <2>2, MovedFile, Plain DEF Places, PlainFiles
  <2>3. QED BY <2>1, <2>2
<1>3. ASSUME manifest[exp.op].kind = exp.kind PROVE Recoverable(exp.op)'
  <2>1. /\ manifest[exp.op].dest = D /\ manifest[exp.op].run = exp.run /\ Recoverable(exp.op)
        /\ manifest[exp.op].kind \in Kind /\ manifest[exp.op] # NoManifest
    BY <1>1, <1>3, Kinds, OwnManifest DEF Places
  <2>2. Backup(manifest[exp.op].kind, exp.op) = B /\ Staged(manifest[exp.op].kind, exp.op) = S
    BY <1>1, <1>3
  <2>3. CASE manifest[exp.op].phase = "PREPARED"
    <3>1. here[B] = 0 /\ exp.op \notin receipts /\ \A o1 \in Op : aside[o1][B] = 0
      BY <2>1, <2>2, <2>3 DEF Recoverable, Unrecoverable
    <3>2. here'[B] = 0
      BY <1>2, <3>1
    <3>3. QED BY <1>1, <2>2, <2>3, <3>1, <3>2, PreparedFits
  <2>4. CASE manifest[exp.op].phase # "PREPARED"
    <3>1. ~ Done(exp.op, manifest[exp.op])
      BY <1>1, <1>3, <2>1, NotRecorded DEF Done, IsNew, Places
    <3>2. Undone(exp.op)
      BY <1>1, <2>1, <2>4, <3>1, Accepted
    <3>3. New = NewContent(exp.op)
      BY <1>1 DEF Places
    <3>4. QED BY <1>1, <1>2, <2>1, <2>2, <3>2, <3>3, UndoingFits
  <2>5. QED BY <2>3, <2>4
<1>4. Announced'
  <2>1. D' = D /\ New' = New
    BY DEF D, New
  <2>2. QED BY <2>1 DEF CalmInv, Announced
<1>5. exp'.at # "idle" /\ exp'.at \notin {"prepare", "render"}
  OBVIOUS
<1>6. QED BY <1>1, <1>2, <1>3, <1>4, <1>5, MovesCalm

(* It is undone.                                                           *)
LEMMA RollBackCalm ==
    ASSUME FilesInv, CalmInv, faults' = 0, RollBack, UNCHANGED <<pending, del>>
    PROVE  CalmInv'
<1>0. faults' # faults + 1
  BY DEF FilesInv, Numbers
<1>1. /\ UNCHANGED <<runs, born, rows, receipts, aside, up, rec, waiting, doubted, ops, del>>
      /\ exp.at = "rollback"
      /\ \/ /\ UNCHANGED manifest
            /\ \/ here[D] = New /\ Unlinked(D) /\ exp' = [exp EXCEPT !.installed = FALSE]
               \/ here[B] # 0 /\ here[D] = 0 /\ Moved(B, D) /\ UNCHANGED exp
         \/ RemoveNext(exp.op, {S}) /\ UNCHANGED exp
         \/ /\ AllRemoved(exp.op, {S}) \/ ~ Reachable(exp.kind)
            /\ exp' = NoExport /\ UNCHANGED <<here, manifest>>
  BY <1>0 DEF RollBack, Faulty, NoOther, Ends, start, wish
<1>2. Places /\ manifest[exp.op].kind \in {exp.kind, "none"}
  BY <1>1, OwnManifest
<1>3. CASE /\ UNCHANGED manifest
           /\ \/ here[D] = New /\ Unlinked(D) /\ exp' = [exp EXCEPT !.installed = FALSE]
              \/ here[B] # 0 /\ here[D] = 0 /\ Moved(B, D) /\ UNCHANGED exp
  <2>1. /\ exp'.at = "rollback" /\ exp'.op = exp.op /\ exp'.dest = exp.dest
        /\ exp'.kind = exp.kind /\ exp'.prev = exp.prev /\ exp'.row = exp.row
        /\ exp'.run = exp.run
    BY <1>1, <1>3 DEF FilesInv, ExportForm, IsExport
  <2>2. QED BY <1>1, <1>3, <2>1, UndoesCalm
<1>4. CASE RemoveNext(exp.op, {S}) /\ UNCHANGED exp
  <2>1. {S} \in SUBSET {S, B} /\ B \notin {S}
    BY <1>2 DEF Places
  <2>2. QED BY <1>1, <1>4, <2>1, OwnRemoved
<1>5. CASE /\ AllRemoved(exp.op, {S}) \/ ~ Reachable(exp.kind)
           /\ exp' = NoExport /\ UNCHANGED <<here, manifest>>
  <2>1. manifest[exp.op].kind # "export"
    BY <1>2, <1>5, Kinds DEF AllRemoved, Reachable
  <2>2. exp'.at = "idle"
    BY <1>5 DEF NoExport
  <2>3. QED BY <1>1, <1>5, <2>1, <2>2, ExportOver
<1>6. QED BY <1>1, <1>3, <1>4, <1>5

(* An export that was cut short is undone, or finished.                    *)
LEMMA RecoverExportCalm ==
    ASSUME FilesInv, CalmInv, NEW o \in Op, RecoverExport(o), UNCHANGED <<pending, del>>
    PROVE  CalmInv'
<1> DEFINE m == manifest[o]
           s == Staged(manifest[o].kind, o)
           b == Backup(manifest[o].kind, o)
           d == manifest[o].dest
<1>1. /\ UNCHANGED <<runs, born, rows, receipts, aside, up, rec, waiting, doubted, ops, exp, del>>
      /\ rec.at = "exports" /\ m.kind \in Kind /\ o # exp.op
      /\ IF Settled(o, m, b) THEN RemoveNext(o, {s, b})
                             ELSE Settle(o, m, s, b) /\ UNCHANGED manifest
  BY DEF RecoverExport, NoOther, start, wish
<1>2. /\ Recoverable(o) /\ s \in Path \ File /\ b \in Path \ File /\ d \in File \ Raw /\ d \in Path
      /\ NewContent(o) # 0 /\ s # b /\ s # d /\ b # d
  <2>1. s # b
    BY <1>1, HiddenApart
  <2>2. QED BY <1>1, <2>1, ExportPaths DEF CalmInv, ExportsLeft
<1>3. \A o1 \in Op : manifest[o1].kind # "delete"
  BY <1>1 DEF FilesInv, Recovering
<1>4. /\ \A q \in Path \ {s, b, d} : here'[q] = here[q]
      /\ \A o1 \in Op : o1 # o => manifest'[o1] = manifest[o1]
      /\ manifest'[o] \in {m, NoManifest}
      /\ here'[s] \in {0, here[s]}
  <2>1. CASE RemoveNext(o, {s, b})
    BY <1>2, <2>1, RemoveEffect
  <2>2. CASE Settle(o, m, s, b) /\ UNCHANGED manifest
    BY <1>2, <2>2, MovedFile, UnlinkedFile, Plain DEF Settle, PlainFiles
  <2>3. QED BY <1>1, <2>1, <2>2
<1>5. ASSUME manifest'[o] = m PROVE Recoverable(o)'
  <2>1. CASE Settled(o, m, b)
    <3>1. /\ here'[s] \in {0, here[s]} /\ here'[b] \in {0, here[b]} /\ here'[d] = here[d]
      BY <1>1, <1>2, <2>1, RemoveEffect
    <3>2. m.phase # "PREPARED" => \/ Done(o, m) /\ here[d] # 0
                                  \/ ~ Done(o, m) /\ here'[b] = here[b]
      BY <2>1, <3>1 DEF Settled
    <3>3. QED BY <1>1, <1>2, <1>5, <3>1, <3>2, RemovalFits
  <2>2. CASE ~ Settled(o, m, b) /\ Done(o, m)
    <3>1. here[d] = 0 /\ Moved(s, d) /\ m.phase # "PREPARED"
      BY <1>1, <2>2 DEF Settle, Settled
    <3>2. /\ here'[s] = 0 /\ here'[d] = here[s] /\ here'[b] = here[b]
      BY <1>2, <3>1, MovedFile, Plain DEF PlainFiles
    <3>3. /\ here[s] = NewContent(o) /\ here[b] \in {0, m.prev}
          /\ m.kind # "export" => m.phase # "RENDERED"
      BY <1>2, <2>2, <3>1 DEF Recoverable, Unrecoverable, Contents
    <3>4. Finished(o)'
      BY <1>1, <1>2, <1>5, <2>2, <3>1, <3>2, <3>3 DEF Finished, Done, IsNew
    <3>5. QED BY <3>4, FinishedFits
  <2>3. CASE ~ Settled(o, m, b) /\ ~ Done(o, m)
    <3>1. m.phase # "PREPARED" /\ (here[b] # 0 \/ (m.prev = 0 /\ here[d] # 0))
      BY <1>1, <2>3 DEF Settle, Settled
    <3>2. IF here[d] # 0 THEN Unlinked(d) ELSE Moved(b, d)
      BY <1>1, <2>3 DEF Settle
    <3>3. Undone(o)
      BY <1>1, <1>2, <2>3, <3>1, Accepted DEF Settled
    <3>4. /\ here'[s] = here[s]
          /\ \/ here[d] = NewContent(o) /\ here'[d] = 0 /\ here'[b] = here[b]
             \/ here[b] # 0 /\ here'[d] = here[b] /\ here'[b] = 0
      <4>1. CASE here[d] # 0
        <5>1. here[d] = NewContent(o)
          BY <3>1, <3>3, <4>1 DEF Undone
        <5>2. QED BY <1>2, <3>2, <4>1, <5>1, UnlinkedFile, Plain DEF PlainFiles
      <4>2. CASE here[d] = 0
        BY <1>2, <3>1, <3>2, <4>2, MovedFile, Plain DEF PlainFiles
      <4>3. QED BY <4>1, <4>2
    <3>5. QED BY <1>1, <1>5, <3>3, <3>4, UndoingFits
  <2>4. QED BY <2>1, <2>2, <2>3
<1>6. WorkOn(m.kind, o, d)
  BY <1>1, <1>4, Kinds DEF WorkOn
<1>7. \A o1 \in Op : manifest[o1].kind \in Kind /\ manifest[o1].dest = d => o1 = o
  BY <1>1 DEF CalmInv, Destinations
<1>8. manifest'[o].kind = m.kind => Recoverable(o)'
  BY <1>1, <1>4, <1>5, Kinds
<1>9. ExportsLeft' /\ DeletedFiles' /\ RawRows' /\ RowsOfDeletion'
  BY <1>1, <1>2, <1>3, <1>6, <1>7, <1>8, WorkKeeps
<1>10. Fewer /\ born \ runs \subseteq born' \ runs' /\ doubted' = {}
  BY <1>1, <1>4 DEF Fewer, CalmInv
<1>11. WaitingOutside' /\ OneDeletion' /\ OneExport' /\ Apart' /\ Destinations'
  BY <1>1, <1>10, FewerKeep
<1>12. Announced'
  <2>1. exp.at # "idle" => exp.op \in Op /\ manifest'[exp.op] = manifest[exp.op]
    BY <1>1, <1>4, Plain DEF PlainOps
  <2>2. QED BY <1>1, <2>1 DEF CalmInv, Announced, D, New
<1>13. Unstaged'
  <2>1. \A o1 \in Op : manifest'[o1].kind = "delete" => manifest'[o1] = manifest[o1]
    BY <1>4, <1>10, Kinds DEF Fewer
  <2>2. ASSUME NEW k \in Kind, NEW o1 \in Op
        PROVE  here'[Staged(k, o1)] \in {0, here[Staged(k, o1)]}
    <3>1. CASE Staged(k, o1) = s
      BY <1>4, <3>1
    <3>2. CASE Staged(k, o1) # s
      <4>1. Staged(k, o1) \in Path \ File /\ Staged(k, o1) # b /\ Staged(k, o1) # d
        BY <1>1, <1>2, HiddenApart
      <4>2. QED BY <1>4, <3>2, <4>1
    <3>3. QED BY <3>1, <3>2
  <2>3. QED BY <1>1, <2>1, <2>2, StillUnstaged
<1>14. QED BY <1>9, <1>10, <1>11, <1>12, <1>13 DEF CalmInv

-----------------------------------------------------------------------------
(* Crashes alone: every step, and the theorem                              *)

\* at first nothing is under way
LEMMA InitCalm == Init => CalmInv /\ StuckRests
<1> SUFFICES ASSUME Init PROVE CalmInv /\ StuckRests
  OBVIOUS
<1>1. FilesInv
  BY InitHolds
<1>2. /\ manifest = [o \in Op |-> NoManifest] /\ up = "up" /\ rec = NoRecovery /\ waiting = {}
      /\ ops = 0 /\ doubted = {} /\ del = NoDelete /\ exp = NoExport
      /\ aside = [o \in Op |-> [p \in Path |-> 0]]
  BY DEF Init, FilesInit, DeleteInit, ExportInit
<1>3. /\ rec.at = "none" /\ rec.before = {} /\ del.at = "idle" /\ del.kept = {} /\ exp.at = "idle"
      /\ \A o \in Op : manifest[o].kind = "none"
  BY <1>2, Kinds DEF NoRecovery, NoDelete, NoExport
<1>4. PICK N \in SUBSET File :
         /\ \A f \in N \cap Raw : rows[f] # NoRow
         /\ here = [p \in Path |-> IF p \in N THEN 1 ELSE 0]
  BY DEF Init, FilesInit
<1>5. /\ doubted = {} /\ WaitingOutside /\ OneDeletion /\ OneExport /\ Apart /\ Destinations
      /\ DeletedFiles /\ Announced /\ ExportsLeft
  BY <1>2, <1>3, Kinds DEF WaitingOutside, OneDeletion, OneExport, Apart, Destinations,
     DeletedFiles, Announced, ExportsLeft
<1>6. RowsOfDeletion
  BY <1>3 DEF RowsOfDeletion
<1>7. RawRows
  BY <1>3, <1>4, Sorts DEF RawRows
<1>8. Unstaged
  <2>1. \A k \in Kind, o \in Op : here[Staged(k, o)] = 0
    BY <1>4, HiddenApart
  <2>2. \A k \in Kind, o \in Op, o1 \in Op : aside[o1][Staged(k, o)] = 0
    BY <1>2, HiddenApart
  <2>3. QED BY <1>3, <2>1, <2>2 DEF Unstaged
<1>9. StuckRests
  BY <1>2 DEF StuckRests
<1>10. QED BY <1>5, <1>6, <1>7, <1>8, <1>9 DEF CalmInv

\* a failure is never forgotten, nor that an export was overtaken
LEMMA TroubleStays ==
    ASSUME FilesInv, [Next]_vars, Calm'
    PROVE  Calm
<1>1. faults \in Nat /\ overtaken \in BOOLEAN
  BY DEF FilesInv, Numbers, Flags
<1>2. CASE DeleteNext /\ UNCHANGED exp
  <2>1. faults' \in {faults, faults + 1} /\ (overtaken => overtaken')
    <3>1. ASSUME NEW t \in Run \cup {All}, Preview(t)
          PROVE  faults' = faults /\ overtaken' = overtaken
      BY <3>1 DEF Preview, files, counts, wish
    <3>2. ASSUME NEW p \in pending, Discard(p) \/ Confirm(p)
          PROVE  faults' = faults /\ overtaken' = overtaken
      BY <3>2 DEF Discard, Confirm, files, counts, wish
    <3>3. ASSUME Check \/ AllStaged \/ GiveUp \/ Commit \/ Reconciled \/ Restored
          PROVE  faults' = faults /\ overtaken' = overtaken
      BY <3>3 DEF Check, AllStaged, GiveUp, Commit, Reconciled, Restored, files, counts, wish
    <3>4. ASSUME CommitInDoubt \/ Purged
          PROVE  faults' \in {faults, faults + 1} /\ overtaken' = overtaken
      BY <3>4 DEF CommitInDoubt, Purged, Faulty, wish
    <3>5. ASSUME NEW p \in Path, Stage(p) \/ Purge(p) \/ Reconcile(p)
          PROVE  faults' = faults /\ overtaken' = overtaken
      BY <3>5 DEF Stage, Purge, Reconcile, counts, wish
    <3>6. ASSUME NEW p \in Path, Restore(p)
          PROVE  faults' \in {faults, faults + 1} /\ overtaken' = overtaken
      BY <3>6 DEF Restore, wish
    <3>7. QED BY <1>2, <3>1, <3>2, <3>3, <3>4, <3>5, <3>6 DEF DeleteNext
  <2>2. QED BY <1>1, <2>1 DEF Calm
<1>3. CASE ExportNext /\ UNCHANGED <<pending, del>>
  <2>1. faults' \in {faults, faults + 1} /\ (overtaken => overtaken')
    <3>1. ASSUME NEW r \in Run, NEW d \in Report \cup Outside, ExportBegins(r, d)
          PROVE  faults' = faults /\ (overtaken => overtaken')
      BY <3>1 DEF ExportBegins, wish
    <3>2. ASSUME Prepare \/ DiscardStep \/ RollBack \/ LeftBehind \/ Fails
          PROVE  faults' \in {faults, faults + 1} /\ overtaken' = overtaken
      BY <3>2 DEF Prepare, DiscardStep, RollBack, LeftBehind, Fails, Faulty, wish
    <3>3. ASSUME Render \/ NotRendered \/ CommitBegins \/ CommitRefused \/ Announce \/ BackUp
                 \/ Install \/ Mark \/ ConfirmRecord \/ Clean
          PROVE  faults' = faults /\ overtaken' = overtaken
      BY <3>3 DEF Render, NotRendered, CommitBegins, CommitRefused, Announce, BackUp, Install,
         Mark, ConfirmRecord, Clean, wish
    <3>4. ASSUME Record \/ RecordInDoubt
          PROVE  faults' \in {faults, faults + 1} /\ overtaken' = overtaken
      BY <3>4 DEF Record, RecordInDoubt, Faulty
    <3>5. ASSUME NEW o \in Op, RecoverExport(o) \/ Postpone(o)
          PROVE  faults' = faults /\ overtaken' = overtaken
      BY <3>5 DEF RecoverExport, Postpone, counts, wish
    <3>6. QED BY <1>3, <3>1, <3>2, <3>3, <3>4, <3>5 DEF ExportNext
  <2>2. QED BY <1>1, <2>1 DEF Calm
<1>4. CASE \/ \E r \in Run : RunBegins(r) \/ RunEnds(r)
           \/ \E f \in Raw : Poll(f)
           \/ Detach \/ Attach
  <2>1. ASSUME NEW r \in Run, RunBegins(r) \/ RunEnds(r) PROVE UNCHANGED <<faults, overtaken>>
    BY <2>1 DEF RunBegins, RunEnds, counts, wish
  <2>2. ASSUME NEW f \in Raw, Poll(f) PROVE UNCHANGED <<faults, overtaken>>
    BY <2>2 DEF Poll
  <2>3. ASSUME Detach \/ Attach PROVE UNCHANGED <<faults, overtaken>>
    BY <2>3 DEF Detach, Attach, wish
  <2>4. UNCHANGED <<faults, overtaken>>
    BY <1>4, <2>1, <2>2, <2>3
  <2>5. QED BY <2>4 DEF Calm
<1>5. CASE Crash \/ RecoveryBegins \/ DeletesDone \/ Orphans \/ Stuck
  BY <1>5 DEF Crash, RecoveryBegins, DeletesDone, Orphans, Stuck, counts, wish, Calm
<1>6. CASE \E o \in Op : NextDelete(o) \/ RecoverRaw(o)
  BY <1>6 DEF NextDelete, RecoverRaw, counts, wish, Calm
<1>7. CASE UNCHANGED vars
  BY <1>7 DEF vars, files, counts, wish, Calm
<1>8. QED BY <1>2, <1>3, <1>4, <1>5, <1>6, <1>7 DEF Next

\* every step of a deletion
LEMMA DeleteCalm ==
    ASSUME FilesInv, CalmInv, faults' = 0, DeleteNext, UNCHANGED exp
    PROVE  CalmInv'
<1>1. ASSUME NEW t \in Run \cup {All}, Preview(t) PROVE CalmInv'
  BY <1>1, PreviewsCalm
<1>2. ASSUME NEW p \in pending, Discard(p) \/ Confirm(p) PROVE CalmInv'
  BY <1>2, PreviewsCalm, ConfirmCalm
<1>3. ASSUME CommitInDoubt PROVE FALSE
  BY <1>3 DEF CommitInDoubt, Faulty, FilesInv, Numbers
<1>4. ASSUME Check \/ AllStaged \/ Commit \/ GiveUp PROVE CalmInv'
  BY <1>4, CheckCalm, AllStagedCalm, CommitCalm
<1>5. ASSUME NEW p \in Path, Stage(p) \/ Restore(p) \/ Purge(p) \/ Reconcile(p) PROVE CalmInv'
  BY <1>5, StageCalm, RestoreCalm, PurgeCalm, ReconcileCalm
<1>6. ASSUME Restored \/ Purged \/ Reconciled PROVE CalmInv'
  BY <1>6, DeletedCalm, ReconciledCalm
<1>7. QED BY <1>1, <1>2, <1>3, <1>4, <1>5, <1>6 DEF DeleteNext

\* every step of an export
LEMMA ExportCalm ==
    ASSUME FilesInv, CalmInv, Calm', ExportNext, UNCHANGED <<pending, del>>
    PROVE  CalmInv'
<1>0. faults' = 0 /\ ~ overtaken'
  BY DEF Calm
<1>1. ASSUME NEW r \in Run, NEW d \in Report \cup Outside, ExportBegins(r, d) PROVE CalmInv'
  BY <1>0, <1>1, ExportBeginsCalm
<1>2. ASSUME Prepare \/ Render \/ NotRendered \/ CommitBegins \/ CommitRefused \/ DiscardStep
      PROVE  CalmInv'
  BY <1>0, <1>2, PrepareCalm, RenderCalm, CommitBeginsCalm, DiscardStepCalm
<1>3. ASSUME RecordInDoubt PROVE FALSE
  BY <1>0, <1>3 DEF RecordInDoubt, Faulty, FilesInv, Numbers
<1>4. ASSUME Announce \/ BackUp \/ Install \/ Mark \/ Record \/ ConfirmRecord PROVE CalmInv'
  BY <1>4, MarksCalm, BackUpCalm, InstallCalm, RecordCalm
<1>5. ASSUME Fails \/ Clean \/ LeftBehind \/ RollBack PROVE CalmInv'
  BY <1>0, <1>5, FailsCalm, CleanCalm, LeftBehindCalm, RollBackCalm
<1>6. ASSUME NEW o \in Op, RecoverExport(o) \/ Postpone(o) PROVE CalmInv'
  BY <1>6, RecoverExportCalm, PostponeCalm
<1>7. QED BY <1>1, <1>2, <1>3, <1>4, <1>5, <1>6 DEF ExportNext

\* every step
LEMMA NextCalm ==
    ASSUME FilesInv, CalmInv, Calm', [Next]_vars
    PROVE  CalmInv'
<1>0. faults' = 0
  BY DEF Calm
<1>1. CASE DeleteNext /\ UNCHANGED exp
  BY <1>0, <1>1, DeleteCalm
<1>2. CASE ExportNext /\ UNCHANGED <<pending, del>>
  BY <1>2, ExportCalm
<1>3. CASE (\E r \in Run : RunBegins(r) \/ RunEnds(r)) /\ UNCHANGED <<pending, del, exp>>
  BY <1>3, RunsCalm
<1>4. CASE (\E f \in Raw : Poll(f)) /\ UNCHANGED <<pending, del, exp>>
  BY <1>4, PollCalm
<1>5. CASE (Detach \/ Attach) /\ UNCHANGED <<pending, del, exp>>
  BY <1>5, DriveCalm
<1>6. CASE Crash \/ RecoveryBegins \/ DeletesDone \/ Orphans \/ Stuck
  BY <1>6, CrashCalm, StartStepCalm, OrphansCalm, StuckCalm
<1>7. CASE \E o \in Op : NextDelete(o) \/ RecoverRaw(o)
  BY <1>7, StartStepCalm, RecoverRawCalm
<1>8. CASE UNCHANGED vars
  <2>1. UNCHANGED <<db, disk, start, del, exp, ops, doubted>>
    BY <1>8 DEF vars, files, counts, wish
  <2>2. QED BY <2>1, NothingCalm
<1>9. QED BY <1>1, <1>2, <1>3, <1>4, <1>5, <1>6, <1>7, <1>8 DEF Next

\* a start fails about a deletion that had removed a file without a row
LEMMA StuckHalfPurged ==
    ASSUME FilesInv, CalmInv, NEW o \in Op, Blocked(o)
    PROVE  HalfPurged
<1> DEFINE m == manifest[o]
<1>1. ~ (rec.at = "exports" /\ m.kind = "raw_batch" /\ RawLost(o))
  <2> SUFFICES ASSUME rec.at = "exports", m.kind = "raw_batch", RawLost(o) PROVE FALSE
    OBVIOUS
  <2> DEFINE f == manifest[o].file
  <2>1. f \in Raw /\ f \in File /\ \A o1 \in Op : manifest[o1].kind # "delete"
    BY ManifestKinds, Sorts DEF FilesInv, Recovering
  <2>2. CASE rows[f] = NoRow
    BY <2>2 DEF RawLost, CalmInv, RawRows
  <2>3. CASE rows[f] # NoRow
    <3>1. here[f] # rows[f].content
      BY <2>3 DEF RawLost
    <3>2. PICK o1 \in Op : manifest[o1].kind = "export" /\ manifest[o1].dest = f
      BY <2>1, <2>3, <3>1, FileOfRow
    <3>3. QED BY <2>1, <3>2, ExportPaths, Kinds
  <2>4. QED BY <2>2, <2>3
<1>2. m.kind \in Kind => ~ Unrecoverable(o, m, Staged(m.kind, o), Backup(m.kind, o))
  BY DEF CalmInv, ExportsLeft, Recoverable
<1>3. rec.at = "deletes" /\ rec.op = o /\ \E p \in rec.todo : Unreconcilable(o, p)
  BY <1>1, <1>2 DEF Blocked
<1>4. PICK p \in rec.todo : Unreconcilable(o, p)
  BY <1>3
<1>5. m.kind = "delete" /\ p \in DOMAIN m.files
  BY <1>3, <1>4, Operations DEF FilesInv, Recovering
<1>6. InOnePlace(o, p)
  BY <1>5 DEF CalmInv, DeletedFiles
<1>7. /\ ~ m.files[p].registered /\ here[p] = 0 /\ aside[o][p] = 0
      /\ m.files[p].content # 0
  BY <1>4, <1>6 DEF InOnePlace, Unreconcilable, ShouldRestore
<1>8. \A o1 \in Op : manifest[o1].kind = "delete" => o1 = o
  BY <1>5 DEF CalmInv, OneDeletion
<1>9. ~ Found(p, m.files[p].content)
  BY <1>7, <1>8 DEF Found
<1>10. QED BY <1>5, <1>7, <1>9 DEF HalfPurged

\* a start that has failed fails for good
LEMMA StuckStays ==
    ASSUME FilesInv, StuckRests, up = "stuck", [Next]_vars
    PROVE  UNCHANGED <<up, rec, here, aside, manifest, faults, overtaken>>
<1>1. exp.at = "idle" /\ del.at = "idle" /\ rec.at = "none"
  BY DEF FilesInv, Leases, StuckRests
<1>2. CASE DeleteNext /\ UNCHANGED exp
  <2>1. PICK p \in pending : Discard(p)
    BY <1>1, <1>2 DEF DeleteNext, Preview, Confirm, Check, AllStaged, Commit, CommitInDoubt, GiveUp,
       Stage, Restore, Purge, Reconcile, Restored, Purged, Reconciled
  <2>2. QED BY <2>1 DEF Discard, files, disk, start, counts, wish
<1>3. ~ ExportNext
  BY <1>1 DEF ExportNext, ExportBegins, Prepare, Render, NotRendered, CommitBegins, CommitRefused,
     DiscardStep, Announce, BackUp, Install, Mark, Record, RecordInDoubt, Fails, ConfirmRecord,
     Clean, LeftBehind, RollBack, RecoverExport, Postpone
<1>4. CASE Detach \/ Attach
  BY <1>4 DEF Detach, Attach, disk, start, wish
<1>5. ~ (\E r \in Run : RunBegins(r) \/ RunEnds(r)) /\ ~ (\E f \in Raw : Poll(f))
  BY DEF RunBegins, RunEnds, Poll
<1>6. ~ (Crash \/ RecoveryBegins \/ DeletesDone \/ Orphans \/ Stuck)
  BY <1>1 DEF Crash, RecoveryBegins, DeletesDone, Orphans, Stuck, Blocked
<1>7. ~ \E o \in Op : NextDelete(o) \/ RecoverRaw(o)
  BY <1>1 DEF NextDelete, RecoverRaw
<1>8. CASE UNCHANGED vars
  BY <1>8 DEF vars, files, disk, start, counts, wish
<1>9. QED BY <1>2, <1>3, <1>4, <1>5, <1>6, <1>7, <1>8 DEF Next

\* ... and only Stuck is such a start
LEMMA OnlyStuck ==
    ASSUME up # "stuck", up' = "stuck", [Next]_vars
    PROVE  Stuck
<1>1. ~ (DeleteNext \/ ExportNext)
  <2>1. ~ DeleteNext
    BY DEF DeleteNext, Preview, Discard, Confirm, Check, AllStaged, Commit, CommitInDoubt, GiveUp,
       Stage, Restore, Purge, Reconcile, Restored, Purged, Reconciled, files, start
  <2>2. ~ ExportNext
    BY DEF ExportNext, ExportBegins, Prepare, Render, NotRendered, CommitBegins, CommitRefused,
       DiscardStep, Announce, BackUp, Install, Mark, Record, RecordInDoubt, Fails, ConfirmRecord,
       Clean, LeftBehind, RollBack, RecoverExport, Postpone, NoOther, start
  <2>3. QED BY <2>1, <2>2
<1>2. /\ ~ \E r \in Run : RunBegins(r) \/ RunEnds(r)
      /\ ~ \E f \in Raw : Poll(f)
      /\ ~ (Detach \/ Attach)
  BY DEF RunBegins, RunEnds, Poll, Detach, Attach, start
<1>3. ~ (Crash \/ RecoveryBegins \/ DeletesDone \/ Orphans)
  BY DEF Crash, RecoveryBegins, DeletesDone, Orphans
<1>4. ~ \E o \in Op : NextDelete(o) \/ RecoverRaw(o)
  BY DEF NextDelete, RecoverRaw, start
<1>5. ~ UNCHANGED vars
  BY DEF vars, files, start
<1>6. QED BY <1>1, <1>2, <1>3, <1>4, <1>5 DEF Next

\* every step keeps what the theorem says
LEMMA CrashKeepsCalm ==
    ASSUME FilesInv, CrashInv, [Next]_vars
    PROVE  CrashInv'
<1>1. Calm' => Calm /\ CalmInv /\ CalmInv'
  BY TroubleStays, NextCalm DEF CrashInv
<1>2. CASE up = "stuck"
  <2>1. UNCHANGED <<up, rec, here, aside, manifest, faults, overtaken>>
    BY <1>2, StuckStays DEF CrashInv
  <2>2. UNCHANGED HalfPurged
    BY <2>1 DEF HalfPurged, Found
  <2>3. StuckRests' /\ CrashesAreSurvived'
    BY <2>1, <2>2 DEF CrashInv, StuckRests, CrashesAreSurvived
  <2>4. QED BY <1>1, <2>3 DEF CrashInv
<1>3. CASE up # "stuck" /\ up' = "stuck"
  <2>1. Stuck
    BY <1>3, OnlyStuck
  <2>2. UNCHANGED <<here, aside, manifest, faults, overtaken>> /\ rec' = NoRecovery
        /\ \E o \in Op : Blocked(o)
    BY <2>1 DEF Stuck, disk, counts, wish
  <2>3. StuckRests'
    BY <2>2 DEF StuckRests, NoRecovery
  <2>4. CrashesAreSurvived'
    <3>1. CASE Calm
      <4>1. HalfPurged
        BY <2>2, <3>1, StuckHalfPurged DEF CrashInv
      <4>2. HalfPurged'
        BY <2>2, <4>1 DEF HalfPurged, Found
      <4>3. QED BY <4>2 DEF CrashesAreSurvived
    <3>2. CASE ~ Calm
      BY <2>2, <3>2 DEF Calm, CrashesAreSurvived, FilesInv, Numbers
    <3>3. QED BY <3>1, <3>2
  <2>5. QED BY <1>1, <2>3, <2>4 DEF CrashInv
<1>4. CASE up' # "stuck"
  <2>1. StuckRests' /\ CrashesAreSurvived'
    BY <1>4 DEF StuckRests, CrashesAreSurvived
  <2>2. QED BY <1>1, <2>1 DEF CrashInv
<1>5. QED BY <1>2, <1>3, <1>4

(* As long as only crashes and losses of the drive have happened, every    *)
(* manifest is of something at work, or of something that a start settles. *)
THEOREM CrashInvariant == Spec => []CrashInv
<1>1. Init => CrashInv
  <2>1. ASSUME Init PROVE CrashInv
    <3>1. up # "stuck"
      BY <2>1 DEF Init, FilesInit
    <3>2. QED BY <2>1, <3>1, InitCalm DEF CrashInv, CrashesAreSurvived
  <2>2. QED BY <2>1
<1>2. FilesInv /\ CrashInv /\ [Next]_vars => CrashInv'
  BY CrashKeepsCalm
<1>3. QED BY <1>1, <1>2, FilesInvariant, PTL DEF Spec

(* Crashes alone, at whatever step, and a drive that goes away never keep  *)
(* the store from starting: a start that fails has found a full deletion   *)
(* that had removed a file without a row (HalfPurged), unless the disk or  *)
(* the database has failed, or a report was exported again before an       *)
(* export that the drive cut short was undone.                             *)
THEOREM CrashesSurvive == Spec => []CrashesAreSurvived
<1>1. CrashInv => CrashesAreSurvived
  BY DEF CrashInv
<1>2. QED BY <1>1, CrashInvariant, PTL

=============================================================================
