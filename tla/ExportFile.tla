----------------------------- MODULE ExportFile -----------------------------
(***************************************************************************)
(* storage/session_store.py: a report (CSV or HTML) is written beside its  *)
(* destination, then installed over what was there, then recorded: as a    *)
(* row if the destination is in the exports root, else, while it lasts, as *)
(* a receipt (and an ownership record, for a place that is not ours).      *)
(*                                                                         *)
(* What was there before is kept as a backup until the record is made.     *)
(* Undoing and cleaning up take a step per file, and what the next one is  *)
(* can be told from the files: so can what a start has to do.              *)
(***************************************************************************)
EXTENDS ManagedFiles

VARIABLE exp   \* the export at work: step, operation, kind, run,
               \* destination, the content and the row the destination had,
               \* and whether the new file is installed

NoExport == [at |-> "idle", op |-> 0, kind |-> "export", run |-> None, dest |-> None,
             prev |-> 0, row |-> NoRow, installed |-> FALSE]

ExportInit == exp = NoExport

S == Staged(exp.kind, exp.op)
B == Backup(exp.kind, exp.op)
D == exp.dest
New == NewContent(exp.op)

Goes(at)  == exp' = [exp EXCEPT !.at = at]
Ends      == exp' = NoExport
NoOther   == UNCHANGED <<born, runs, running, aside, start, crashes, detached, attached>>

\* the manifest of an export in a phase
Manifest(phase) ==
    [kind |-> exp.kind, phase |-> phase, run |-> exp.run, dest |-> D,
     prev |-> exp.prev, row |-> exp.row]

-----------------------------------------------------------------------------
(* The report is written                                                   *)

(* An external export is owned first: _prepare_external_export.            *)
ExportBegins(r, d) ==
    /\ up = "up" /\ exp.at = "idle" /\ r \in runs /\ NewOp
    /\ d \in Outside => attached
    /\ exp' = [NoExport EXCEPT !.op = ops', !.run = r, !.dest = d, !.at = "prepare",
                 !.kind = IF d \in Outside THEN "external_export" ELSE "export"]
    /\ owners' = IF d \in Outside THEN owners \cup {ops'} ELSE owners
    /\ overtaken' = (overtaken \/ \E o \in Op : manifest[o].kind \in Kind /\ manifest[o].dest = d)
    /\ UNCHANGED <<rows, receipts, here, manifest, maintenance, faults, owed, doubted>>
    /\ NoOther

(* _write_manifest PREPARED; if it fails the ownership record goes again.  *)
Prepare ==
    /\ exp.at = "prepare"
    /\ \/ Written(exp.op, Manifest("PREPARED")) /\ Goes("render") /\ UNCHANGED <<owners, faults>>
       \/ owners' = owners \ {exp.op} /\ Ends /\ Faulty /\ UNCHANGED manifest
    /\ UNCHANGED <<rows, receipts, here, maintenance, ops, wish>> /\ NoOther

Render ==
    /\ exp.at = "render" /\ Reachable(exp.kind)
    /\ here' = [here EXCEPT ![S] = New] /\ Goes("ready")
    /\ UNCHANGED <<rows, receipts, manifest, owners, maintenance, ops, faults, wish>> /\ NoOther

(* Raw output is damaged, the disk is full, the operator cancels.          *)
NotRendered ==
    /\ exp.at = "render" /\ Goes("discard")
    /\ UNCHANGED <<rows, receipts, disk, maintenance, ops, faults, wish>> /\ NoOther

\* what forbids to begin: the run is gone, or file and row do not agree
Refused ==
    \/ ~ Reachable(exp.kind) \/ here[S] = 0
    \/ exp.kind = "export" /\ (\/ exp.run \notin runs
                               \/ rows[D] # NoRow /\ rows[D].content # here[D])

(* The maintenance lease is taken, or somebody else has it.                *)
CommitBegins ==
    /\ exp.at = "ready" /\ maintenance = "free"
    /\ maintenance' = "export"
    /\ exp' = IF Refused THEN [exp EXCEPT !.at = "discard"]
              ELSE [exp EXCEPT !.at = "announce", !.prev = here[D],
                               !.row = IF exp.kind = "export" THEN rows[D] ELSE NoRow]
    /\ UNCHANGED <<rows, receipts, disk, ops, faults, wish>> /\ NoOther

CommitRefused ==
    /\ exp.at = "ready" /\ maintenance # "free" /\ Goes("discard")
    /\ UNCHANGED <<rows, receipts, disk, maintenance, ops, faults, wish>> /\ NoOther

(* _discard_..._export_stage: it may fail itself.                          *)
ReleaseMine == maintenance' = IF maintenance = "export" THEN "free" ELSE maintenance

DiscardStep ==
    /\ exp.at = "discard"
    /\ \/ /\ Reachable(exp.kind) /\ ~ AllRemoved(exp.op, {S})
          /\ RemoveNext(exp.op, {S}) /\ UNCHANGED <<exp, maintenance, faults>>
       \/ /\ AllRemoved(exp.op, {S}) /\ Ends /\ ReleaseMine
          /\ UNCHANGED <<here, manifest, owners, faults>>
       \/ /\ ~ Reachable(exp.kind) /\ Ends /\ ReleaseMine
          /\ UNCHANGED <<here, manifest, owners, faults>>
       \/ Faulty /\ Ends /\ ReleaseMine /\ UNCHANGED <<here, manifest, owners>>
    /\ UNCHANGED <<rows, receipts, ops, wish>> /\ NoOther

-----------------------------------------------------------------------------
(* The report is installed and recorded                                    *)

(* MISTAKE: the file that was there is not kept                            *)
BackUpNothing ==
    /\ exp.at = "backup" /\ Reachable(exp.kind)
    /\ Unlinked(D) /\ Goes("install")
    /\ UNCHANGED <<rows, receipts, manifest, owners, maintenance, ops, faults, wish>> /\ NoOther

Announce ==
    /\ exp.at = "announce"
    /\ Written(exp.op, Manifest("RENDERED")) /\ Goes("backup")
    /\ UNCHANGED <<rows, receipts, here, owners, maintenance, ops, faults, wish>> /\ NoOther

BackUp ==
    /\ exp.at = "backup" /\ Reachable(exp.kind)
    /\ IF here[D] # 0 THEN Moved(D, B) ELSE UNCHANGED here
    /\ Goes("install")
    /\ UNCHANGED <<rows, receipts, manifest, owners, maintenance, ops, faults, wish>> /\ NoOther

Install ==
    /\ exp.at = "install" /\ Reachable(exp.kind)
    /\ Moved(S, D) /\ exp' = [exp EXCEPT !.at = "mark", !.installed = TRUE]
    /\ UNCHANGED <<rows, receipts, manifest, owners, maintenance, ops, faults, wish>> /\ NoOther

Mark ==
    /\ exp.at = "mark"
    /\ Written(exp.op, Manifest("INSTALLED")) /\ Goes("record")
    /\ UNCHANGED <<rows, receipts, here, owners, maintenance, ops, faults, wish>> /\ NoOther

\* the run is still there, and the row as it was
Recordable ==
    exp.run \in runs /\ (exp.kind = "export" => rows[D].content = exp.row.content)

\* the row or the receipt
Recorded ==
    /\ Recordable
    /\ IF exp.kind = "export"
       THEN /\ rows' = [rows EXCEPT ![D] = [run |-> exp.run, content |-> New]]
            /\ UNCHANGED receipts
       ELSE receipts' = receipts \cup {exp.op} /\ UNCHANGED rows

Record ==
    /\ exp.at = "record" /\ Reachable(exp.kind) /\ Recorded
    /\ owed' = [owed EXCEPT ![D] = New] /\ doubted' = doubted \ {D} /\ Goes("confirm")
    /\ UNCHANGED <<disk, maintenance, ops, faults, overtaken>> /\ NoOther

(* The transaction is applied, and raises.                                 *)
RecordInDoubt ==
    /\ exp.at = "record" /\ Reachable(exp.kind) /\ Recorded /\ Faulty
    /\ owed' = [owed EXCEPT ![D] = 0] /\ doubted' = doubted \cup {D}
    /\ Goes("rollback")
    /\ UNCHANGED <<disk, maintenance, ops, overtaken>> /\ NoOther

(* A write, a move or the transaction fails before it is applied.          *)
Fails ==
    /\ exp.at \in {"announce", "backup", "install", "mark", "record"}
    /\ \/ Faulty
       \/ /\ ~ Reachable(exp.kind) \/ (exp.at = "record" /\ ~ Recordable)
          /\ UNCHANGED faults
    /\ Goes("rollback")
    /\ UNCHANGED <<rows, receipts, disk, maintenance, ops, wish>> /\ NoOther

ConfirmRecord ==
    /\ exp.at = "confirm"
    /\ Written(exp.op, Manifest("DB_COMMITTED")) /\ Goes("clean")
    /\ UNCHANGED <<rows, receipts, here, owners, maintenance, ops, faults, wish>> /\ NoOther

(* The backup, the manifest, the ownership record, the receipt ...         *)
Clean ==
    /\ exp.at = "clean" /\ Reachable(exp.kind)
    /\ IF AllRemoved(exp.op, {B})
       THEN /\ receipts' = receipts \ {exp.op}
            /\ Ends /\ maintenance' = "free"
            /\ UNCHANGED <<here, manifest, owners>>
       ELSE RemoveNext(exp.op, {B}) /\ UNCHANGED <<receipts, exp, maintenance>>
    /\ UNCHANGED <<rows, ops, faults, wish>> /\ NoOther

(* ... any of which may stay behind: the report is there all the same.     *)
LeftBehind ==
    /\ exp.at \in {"confirm", "clean"} /\ Ends /\ maintenance' = "free"
    /\ \/ Faulty
       \/ exp.at = "clean" /\ ~ Reachable(exp.kind) /\ UNCHANGED faults
    /\ UNCHANGED <<rows, receipts, disk, ops, wish>> /\ NoOther

(* Back to what was there: the new file goes, the backup returns, then the *)
(* rest is removed.                                                        *)
RollBack ==
    /\ exp.at = "rollback"
    /\ \/ /\ Reachable(exp.kind)
          /\ \/ /\ here[B] # 0 \/ exp.installed
                /\ IF here[D] = New
                   THEN Unlinked(D) /\ exp' = [exp EXCEPT !.installed = FALSE]
                   ELSE here[B] # 0 /\ here[D] = 0 /\ Moved(B, D) /\ UNCHANGED exp
                /\ UNCHANGED <<manifest, owners, maintenance>>
             \/ /\ here[B] = 0 /\ ~ exp.installed
                /\ IF AllRemoved(exp.op, {S})
                   THEN Ends /\ maintenance' = "free" /\ UNCHANGED <<here, manifest, owners>>
                   ELSE RemoveNext(exp.op, {S}) /\ UNCHANGED <<exp, maintenance>>
          /\ UNCHANGED faults
       \/ /\ Faulty \/ (~ Reachable(exp.kind) /\ UNCHANGED faults)
          /\ Ends /\ maintenance' = "free" /\ UNCHANGED <<here, manifest, owners>>
    /\ UNCHANGED <<rows, receipts, ops, wish>> /\ NoOther

-----------------------------------------------------------------------------
(* The next start, with the manifest m of operation o                      *)

IsNew(o, m) == rows[m.dest] = [run |-> m.run, content |-> NewContent(o)]
IsOld(m)    == rows[m.dest].content = m.row.content

\* the commit took place
Done(o, m) == IF m.kind = "export" THEN IsNew(o, m) ELSE o \in receipts

Contents(o, m, s, b) ==   \* nothing is there that should not be
    here[s] \in {0, NewContent(o)} /\ here[b] \in {0, m.prev}

Unrecoverable(o, m, s, b) ==
    LET d == here[m.dest] IN
    IF m.phase = "PREPARED"
    THEN here[b] # 0 \/ o \in receipts
    ELSE \/ m.phase = "DB_COMMITTED" /\ ~ Done(o, m)
         \/ m.kind = "export" /\ ~ Done(o, m) /\ ~ IsOld(m)
         \/ m.kind # "export" /\ Done(o, m) /\ m.phase = "RENDERED"
         \/ ~ Contents(o, m, s, b)
         \/ Done(o, m) /\ (\/ d \notin {0, NewContent(o)}
                           \/ d = 0 /\ (m.kind # "export" \/ here[s] = 0))
         \/ ~ Done(o, m) /\ (IF here[b] # 0 \/ m.prev = 0
                             THEN d \notin {0, NewContent(o)}
                             ELSE d # m.prev)

(* The destination gets the file the database speaks of.                   *)
Settle(o, m, s, b) ==
    IF Done(o, m)
    THEN here[m.dest] = 0 /\ Moved(s, m.dest)
    ELSE /\ here[b] # 0 \/ (m.prev = 0 /\ here[m.dest] # 0)
         /\ IF here[m.dest] # 0 THEN Unlinked(m.dest) ELSE Moved(b, m.dest)

Settled(o, m, b) ==
    \/ m.phase = "PREPARED"
    \/ IF Done(o, m) THEN here[m.dest] # 0
       ELSE here[b] = 0 /\ (m.prev = 0 => here[m.dest] = 0)

(* One step of _recover_export_manifest or _recover_external_export_...    *)
RecoverExport(o) ==
    LET m == manifest[o] IN
    /\ rec.at = "exports" /\ m.kind \in Kind /\ o \notin waiting
    /\ o # exp.op /\ Reachable(m.kind)
    /\ LET s == Staged(m.kind, o)
           b == Backup(m.kind, o) IN
       /\ ~ Unrecoverable(o, m, s, b)
       /\ IF Settled(o, m, b)
          THEN RemoveNext(o, {s, b})
          ELSE Settle(o, m, s, b) /\ UNCHANGED <<manifest, owners>>
    /\ UNCHANGED <<rows, receipts, exp, maintenance, ops, faults, wish>> /\ NoOther

(* The outside drive is not there: later.                                  *)
Postpone(o) ==
    /\ rec.at = "exports" /\ manifest[o].kind = "external_export"
    /\ ~ attached /\ o # exp.op /\ o \notin waiting
    /\ waiting' = waiting \cup {o}
    /\ UNCHANGED <<db, disk, maintenance, up, rec, counts, wish, exp>>

ExportNext ==
    \/ \E r \in Run, d \in Report \cup Outside : ExportBegins(r, d)
    \/ Prepare \/ Render \/ NotRendered \/ CommitBegins \/ CommitRefused
    \/ DiscardStep \/ Announce \/ BackUp \/ Install \/ Mark \/ Record
    \/ RecordInDoubt \/ Fails \/ ConfirmRecord \/ Clean \/ LeftBehind \/ RollBack
    \/ \E o \in Op : RecoverExport(o) \/ Postpone(o)

=============================================================================
