-------------------------- MODULE PollStoreProofs ---------------------------
(***************************************************************************)
(* StoreInv is an inductive invariant of PollStore, for any number of      *)
(* processes, runs, polls and payloads, and any number of crashes and      *)
(* failures.  With it come PublishedWhole, NothingToRefuse and the         *)
(* implementation of PollLog.                                              *)
(*                                                                         *)
(* The argument is one of tenancy: a step changes only polls whose lease   *)
(* its process holds - except for manifests, which anybody may remove late *)
(* - so what a call relies on survives the steps of all the others.        *)
(*                                                                         *)
(* What callers are told rests on a second invariant, ReportInv: a run is  *)
(* opened once, by one process, so nobody else adds a receipt to a poll    *)
(* one has reported on.  OneInv is about a process that has the data       *)
(* directory to itself: what it leaves on disk is named by a manifest, and *)
(* what start-up has not visited it still has to visit.                    *)
(***************************************************************************)
EXTENDS PollStore, TLAPS

-----------------------------------------------------------------------------
(* Type correctness                                                        *)

(* The initial state of the store has the declared types.                  *)
LEMMA TypeInit == Init => TypeOK
BY PollStoreAssumption
   DEF Init, TypeOK, TypeDurable, TypeLeases, TypeLocal, RunStatus, Manifest,
       NoManifest, ProcPhase, PC, Told

(* Reporting a result keeps the reports typed.                             *)
LEMMA TypeTell ==
    ASSUME told \in [Proc -> [Poll -> Told]],
           NEW x \in Proc, NEW p \in Poll, NEW what \in Told,
           Tell(x, p, what)
    PROVE  told' \in [Proc -> [Poll -> Told]]
<1> DEFINE new == IF what = "failed" /\ told[x][p] # "unasked"
                  THEN told[x][p] ELSE what
<1>1. new \in Told
  OBVIOUS
<1>2. told' = [told EXCEPT ![x] = [told[x] EXCEPT ![p] = new]]
  BY DEF Tell
<1> QED BY <1>1, <1>2

(* The manifests the code writes are manifests, "no manifest" is one.      *)
LEMMA TypeManifest ==
    /\ NoManifest \in Manifest
    /\ \A d \in Payload :
          /\ [phase |-> "PREPARED", payload |-> d] \in Manifest
          /\ [phase |-> "INSTALLED", payload |-> d] \in Manifest
          /\ [phase |-> "DB_COMMITTED", payload |-> d] \in Manifest
BY DEF Manifest

(* A payload's Raw output is a set of payloads.                            *)
LEMMA TypeRaw == \A d : Raw(d) \subseteq Payload
BY PollStoreAssumption DEF Raw

(* The words the code reports are reports.                                 *)
LEMMA TypeConst ==
    {"unasked", "committed", "recovery_pending", "failed",
     "indeterminate"} \subseteq Told
BY DEF Told

(* The places of a call and of recovery are places.                        *)
LEMMA Places ==
    {"idle", "look", "load", "tidyOld", "drop", "receipt", "gone", "write",
     "stage", "install", "mark", "commit", "probe", "markdb", "tidy",
     "release", "unlink", "undoRaw", "undoStage", "undoManifest", "sLease",
     "sLoad", "sTidy", "sRelease", "sUnlink"} \subseteq PC
BY DEF PC, RecordPC, RollbackPC, StartupPC

(* A process that leaves, orderly or not, keeps every variable typed.      *)
LEMMA TypeDrop ==
    ASSUME TypeOK, NEW x \in Proc, NEW phase \in ProcPhase,
           DropProcess(x, phase), UNCHANGED durable,
           faults' \in 0..MaxFaults
    PROVE  TypeOK'
<1>1. TypeDurable'
  BY DEF TypeOK, TypeDurable, durable
<1>2. TypeLeases'
  BY DEF TypeOK, TypeLeases, DropProcess
<1>3. /\ proc' \in [Proc -> ProcPhase]
      /\ owned' \in [Proc -> SUBSET Run]
      /\ pc' \in [Proc -> PC]
  BY Places DEF TypeOK, TypeLocal, DropProcess
<1>4. /\ todo' \in [Proc -> SUBSET Poll]
      /\ abandoned' \in [Proc -> SUBSET Run]
  BY DEF TypeOK, TypeLocal, DropProcess
<1>5. told' \in [Proc -> [Poll -> Told]]
  <2>1. [p \in Poll |-> "unasked"] \in [Poll -> Told]
    BY TypeConst
  <2> QED BY <2>1 DEF TypeOK, TypeLocal, DropProcess
<1>6. job' \in [Proc -> Poll] /\ body' \in [Proc -> Payload]
  BY DEF TypeOK, TypeLocal, DropProcess
<1>7. tries' \in [Proc -> 0..Attempts - 1]
  BY PollStoreAssumption DEF TypeOK, TypeLocal, DropProcess
<1> QED BY <1>1, <1>2, <1>3, <1>4, <1>5, <1>6, <1>7 DEF TypeOK, TypeLocal

(* Reconciling a poll with its manifest keeps its files typed.             *)
LEMMA TypeReconcile ==
    ASSUME dest \in [Poll -> SUBSET Payload],
           staged \in [Poll -> SUBSET Payload],
           NEW p \in Poll, NEW m, Reconcile(p, m)
    PROVE  /\ dest' \in [Poll -> SUBSET Payload]
           /\ staged' \in [Poll -> SUBSET Payload]
<1>1. /\ dest[p] \cup Raw(m.payload) \in SUBSET Payload
      /\ dest[p] \ Raw(m.payload) \in SUBSET Payload
      /\ staged[p] \ (Raw(m.payload) \ dest[p]) \in SUBSET Payload
      /\ staged[p] \ Raw(m.payload) \in SUBSET Payload
  BY TypeRaw
<1>2. \/ dest' = [dest EXCEPT ![p] = dest[p] \cup Raw(m.payload)]
      \/ dest' = [dest EXCEPT ![p] = dest[p] \ Raw(m.payload)]
  BY DEF Reconcile
<1>3. \/ staged' = [staged EXCEPT ![p] =
                        staged[p] \ (Raw(m.payload) \ dest[p])]
      \/ staged' = [staged EXCEPT ![p] = staged[p] \ Raw(m.payload)]
  BY DEF Reconcile
<1> QED BY <1>1, <1>2, <1>3

(* A process counts its attempts from 0 and never beyond the last one.     *)
LEMMA TypeTries ==
    ASSUME TypeOK, [Next]_vars
    PROVE  tries' \in [Proc -> 0..Attempts - 1]
<1> DEFINE Counts(x) ==
        \/ tries' = tries
        \/ tries' = [tries EXCEPT ![x] = 0]
        \/ /\ tries[x] + 1 < Attempts
           /\ tries' = [tries EXCEPT ![x] = tries[x] + 1]
<1>1. ASSUME NEW x \in Proc, RecordStep(x) PROVE Counts(x)
  <2>1. CASE BusyAgain(x) \/ CommitApplied(x)
    BY <2>1 DEF BusyAgain, CommitApplied, TryAgain, Goto
  <2>2. CASE LookForManifest(x) \/ LoadManifest(x) \/ TidyOldStaging(x) \/
             DropOldManifest(x) \/ LookForReceipt(x) \/ WriteManifest(x) \/
             StageRaw(x) \/ InstallRaw(x) \/ MarkInstalled(x)
    BY <2>2 DEF LookForManifest, LoadManifest, TidyOldStaging,
                DropOldManifest, LookForReceipt, WriteManifest, StageRaw,
                InstallRaw, MarkInstalled, Goto, Fail
  <2>3. CASE CommitRefused(x) \/ ProbeReceipt(x) \/ ProbeFails(x) \/
             MarkCommitted(x) \/ TidyStaging(x) \/ ReleaseOperation(x) \/
             UnlinkManifest(x)
    BY <2>3 DEF CommitRefused, ProbeReceipt, ProbeFails, MarkCommitted,
                TidyStaging, ReleaseOperation, UnlinkManifest, Goto
  <2>4. CASE FailBeforeManifest(x) \/ FailAfterManifest(x) \/ UndoRaw(x) \/
             UndoStaging(x) \/ UndoManifest(x) \/ UndoFails(x)
    BY <2>4 DEF FailBeforeManifest, FailAfterManifest, UndoRaw, UndoStaging,
                UndoManifest, UndoFails, Goto, Fail
  <2> QED BY <1>1, <2>1, <2>2, <2>3, <2>4 DEF RecordStep
<1>2. ASSUME NEW x \in Proc, StartupStep(x) PROVE Counts(x)
  BY <1>2 DEF StartupStep, EnterRecovery, VisitManifest, LeaseManifest,
              ReconcileManifest, TidyRecovered, ReleaseRecovered,
              UnlinkRecovered, LeaveRecovery, SelectRunning, TryRunLease,
              InterruptAbandoned, Goto, DropProcess
<1>3. ASSUME NEW x \in Proc, CallerStep(x) PROVE Counts(x)
  BY <1>3 DEF CallerStep, Launch, Close, Crash, StartRun,
              StartRunUnacknowledged, FinishRun, Begin, Goto, DropProcess,
              local
<1>4. tries' = tries \/ \E x \in Proc : Counts(x)
  BY <1>1, <1>2, <1>3 DEF Next, vars, local
<1>5. tries \in [Proc -> 0..Attempts - 1] /\ Attempts \in Nat \ {0}
  BY PollStoreAssumption DEF TypeOK, TypeLocal
<1> QED BY <1>4, <1>5

(* Every step keeps every variable typed.                                  *)
LEMMA TypeStep == TypeOK /\ [Next]_vars => TypeOK'
<1> SUFFICES ASSUME TypeOK, [Next]_vars PROVE TypeOK'
  OBVIOUS
<1>0. /\ runStatus \in [Run -> RunStatus]
      /\ receipt \in [Poll -> Payload \cup {NoPayload}]
      /\ rows \in [Poll -> Nat]
      /\ manifest \in [Poll -> Manifest]
      /\ staged \in [Poll -> SUBSET Payload]
      /\ dest \in [Poll -> SUBSET Payload]
      /\ runLease \in [Run -> Proc \cup {Nobody}]
      /\ opLease \in [Poll -> Proc \cup {Nobody}]
      /\ maintenance \in Proc \cup {Nobody}
      /\ proc \in [Proc -> ProcPhase]
      /\ owned \in [Proc -> SUBSET Run]
      /\ pc \in [Proc -> PC]
      /\ job \in [Proc -> Poll]
      /\ body \in [Proc -> Payload]
      /\ todo \in [Proc -> SUBSET Poll]
      /\ abandoned \in [Proc -> SUBSET Run]
      /\ told \in [Proc -> [Poll -> Told]]
      /\ faults \in 0..MaxFaults
      /\ TypeOK
  BY DEF TypeOK, TypeDurable, TypeLeases, TypeLocal
<1>t. tries' \in [Proc -> 0..Attempts - 1]
  BY TypeTries
<1>1. CASE UNCHANGED vars
  BY <1>0, <1>t, <1>1 DEF vars, durable, leases, local, TypeOK, TypeDurable,
                    TypeLeases, TypeLocal
<1>2. ASSUME NEW x \in Proc, RecordStep(x) PROVE TypeOK'
  <2>1. CASE LookForManifest(x)
    <3>1. pc' \in [Proc -> PC]
      BY <2>1, <1>0, Places DEF LookForManifest, Goto
    <3>2. UNCHANGED <<runStatus, receipt, rows, manifest, staged, dest,
                     runLease, opLease, maintenance, proc, owned, job, body,
                     todo, abandoned, told, faults>>
      BY <2>1 DEF LookForManifest, Local, durable
    <3> QED BY <1>0, <1>t, <3>1, <3>2 DEF TypeOK, TypeDurable, TypeLeases,
            TypeLocal
  <2>2. CASE LoadManifest(x)
    <3>1. staged' \in [Poll -> SUBSET Payload]
      BY <2>2, <1>0, TypeReconcile DEF LoadManifest, durable
    <3>2. dest' \in [Poll -> SUBSET Payload]
      BY <2>2, <1>0, TypeReconcile DEF LoadManifest, durable
    <3>3. opLease' \in [Poll -> Proc \cup {Nobody}]
      BY <2>2, <1>0 DEF LoadManifest, Fail, FreeOp
    <3>4. pc' \in [Proc -> PC]
      BY <2>2, <1>0, Places DEF LoadManifest, Goto, Fail
    <3>5. told' \in [Proc -> [Poll -> Told]]
      BY <2>2, <1>0, TypeTell, TypeConst DEF LoadManifest, Fail
    <3>6. UNCHANGED <<runStatus, receipt, rows, manifest, runLease,
                     maintenance, proc, owned, job, body, todo, abandoned,
                     faults>>
      BY <2>2 DEF LoadManifest, Local, durable, Reconcile
    <3> QED BY <1>0, <1>t, <3>1, <3>2, <3>3, <3>4, <3>5, <3>6 DEF TypeOK,
            TypeDurable, TypeLeases, TypeLocal
  <2>3. CASE TidyOldStaging(x)
    <3>1. staged' \in [Poll -> SUBSET Payload]
      BY <2>3, <1>0 DEF TidyOldStaging
    <3>2. pc' \in [Proc -> PC]
      BY <2>3, <1>0, Places DEF TidyOldStaging, Goto
    <3>3. UNCHANGED <<runStatus, receipt, rows, manifest, dest, runLease,
                     opLease, maintenance, proc, owned, job, body, todo,
                     abandoned, told, faults>>
      BY <2>3 DEF TidyOldStaging, Local
    <3> QED BY <1>0, <1>t, <3>1, <3>2, <3>3 DEF TypeOK, TypeDurable,
            TypeLeases, TypeLocal
  <2>4. CASE DropOldManifest(x)
    <3>1. manifest' \in [Poll -> Manifest]
      <4>1. PICK m \in Manifest :
               \/ manifest' = [manifest EXCEPT ![job[x]] = m]
               \/ manifest' = manifest
        BY <2>4, <1>0, TypeManifest DEF DropOldManifest
      <4> QED BY <1>0, <4>1
    <3>2. pc' \in [Proc -> PC]
      BY <2>4, <1>0, Places DEF DropOldManifest, Goto
    <3>3. UNCHANGED <<runStatus, receipt, rows, staged, dest, runLease,
                     opLease, maintenance, proc, owned, job, body, todo,
                     abandoned, told, faults>>
      BY <2>4 DEF DropOldManifest, Local
    <3> QED BY <1>0, <1>t, <3>1, <3>2, <3>3 DEF TypeOK, TypeDurable,
            TypeLeases, TypeLocal
  <2>5. CASE LookForReceipt(x)
    <3>1. opLease' \in [Poll -> Proc \cup {Nobody}]
      BY <2>5, <1>0 DEF LookForReceipt, Fail, FreeOp
    <3>2. pc' \in [Proc -> PC]
      BY <2>5, <1>0, Places DEF LookForReceipt, Goto, Fail
    <3>3. told' \in [Proc -> [Poll -> Told]]
      BY <2>5, <1>0, TypeTell, TypeConst DEF LookForReceipt, Fail
    <3>4. UNCHANGED <<runStatus, receipt, rows, manifest, staged, dest,
                     runLease, maintenance, proc, owned, job, body, todo,
                     abandoned, faults>>
      BY <2>5 DEF LookForReceipt, Local, durable
    <3> QED BY <1>0, <1>t, <3>1, <3>2, <3>3, <3>4 DEF TypeOK, TypeDurable,
            TypeLeases, TypeLocal
  <2>6. CASE WriteManifest(x)
    <3>1. manifest' \in [Poll -> Manifest]
      <4>1. PICK m \in Manifest :
               \/ manifest' = [manifest EXCEPT ![job[x]] = m]
               \/ manifest' = manifest
        BY <2>6, <1>0, TypeManifest DEF WriteManifest
      <4> QED BY <1>0, <4>1
    <3>2. opLease' \in [Poll -> Proc \cup {Nobody}]
      BY <2>6, <1>0 DEF WriteManifest, Fail, FreeOp
    <3>3. pc' \in [Proc -> PC]
      BY <2>6, <1>0, Places DEF WriteManifest, Goto, Fail
    <3>4. told' \in [Proc -> [Poll -> Told]]
      BY <2>6, <1>0, TypeTell, TypeConst DEF WriteManifest, Fail
    <3>5. UNCHANGED <<runStatus, receipt, rows, staged, dest, runLease,
                     maintenance, proc, owned, job, body, todo, abandoned,
                     faults>>
      BY <2>6 DEF WriteManifest, Local
    <3> QED BY <1>0, <1>t, <3>1, <3>2, <3>3, <3>4, <3>5 DEF TypeOK,
            TypeDurable, TypeLeases, TypeLocal
  <2>7. CASE StageRaw(x)
    <3>1. staged' \in [Poll -> SUBSET Payload]
      <4>1. PICK s \in SUBSET Payload :
               \/ staged' = [staged EXCEPT ![job[x]] = s]
               \/ staged' = staged
        BY <2>7, <1>0, TypeRaw DEF StageRaw
      <4> QED BY <1>0, <4>1
    <3>2. pc' \in [Proc -> PC]
      BY <2>7, <1>0, Places DEF StageRaw, Goto
    <3>3. UNCHANGED <<runStatus, receipt, rows, manifest, dest, runLease,
                     opLease, maintenance, proc, owned, job, body, todo,
                     abandoned, told, faults>>
      BY <2>7 DEF StageRaw, Local
    <3> QED BY <1>0, <1>t, <3>1, <3>2, <3>3 DEF TypeOK, TypeDurable,
            TypeLeases, TypeLocal
  <2>8. CASE InstallRaw(x)
    <3>1. staged' \in [Poll -> SUBSET Payload]
      <4>1. PICK s \in SUBSET Payload :
               \/ staged' = [staged EXCEPT ![job[x]] = s]
               \/ staged' = staged
        BY <2>8, <1>0, TypeRaw DEF InstallRaw
      <4> QED BY <1>0, <4>1
    <3>2. dest' \in [Poll -> SUBSET Payload]
      <4>1. dest[job[x]] \cup Raw(body[x]) \in SUBSET Payload
        BY <1>0, TypeRaw
      <4>2. dest' = [dest EXCEPT ![job[x]] = dest[job[x]] \cup Raw(body[x])]
        BY <2>8 DEF InstallRaw
      <4> QED BY <1>0, <4>1, <4>2
    <3>3. pc' \in [Proc -> PC]
      BY <2>8, <1>0, Places DEF InstallRaw, Goto
    <3>4. UNCHANGED <<runStatus, receipt, rows, manifest, runLease, opLease,
                     maintenance, proc, owned, job, body, todo, abandoned,
                     told, faults>>
      BY <2>8 DEF InstallRaw, Local
    <3> QED BY <1>0, <1>t, <3>1, <3>2, <3>3, <3>4 DEF TypeOK, TypeDurable,
            TypeLeases, TypeLocal
  <2>9. CASE MarkInstalled(x)
    <3>1. manifest' \in [Poll -> Manifest]
      <4>1. PICK m \in Manifest :
               \/ manifest' = [manifest EXCEPT ![job[x]] = m]
               \/ manifest' = manifest
        BY <2>9, <1>0, TypeManifest DEF MarkInstalled
      <4> QED BY <1>0, <4>1
    <3>2. pc' \in [Proc -> PC]
      BY <2>9, <1>0, Places DEF MarkInstalled, Goto
    <3>3. UNCHANGED <<runStatus, receipt, rows, staged, dest, runLease,
                     opLease, maintenance, proc, owned, job, body, todo,
                     abandoned, told, faults>>
      BY <2>9 DEF MarkInstalled, Local
    <3> QED BY <1>0, <1>t, <3>1, <3>2, <3>3 DEF TypeOK, TypeDurable,
            TypeLeases, TypeLocal
  <2>10. CASE CommitApplied(x)
    <3>1. receipt' \in [Poll -> Payload \cup {NoPayload}]
      BY <2>10, <1>0 DEF CommitApplied
    <3>2. rows' \in [Poll -> Nat]
      BY <2>10, <1>0 DEF CommitApplied
    <3>3. pc' \in [Proc -> PC]
      BY <2>10, <1>0, Places DEF CommitApplied, Goto, TryAgain
    <3>4. faults' \in 0..MaxFaults
      BY <2>10, <1>0, PollStoreAssumption DEF CommitApplied, Fault
    <3>5. UNCHANGED <<runStatus, manifest, staged, dest, runLease, opLease,
                     maintenance, proc, owned, job, body, todo, abandoned,
                     told>>
      BY <2>10 DEF CommitApplied, Local
    <3> QED BY <1>0, <1>t, <3>1, <3>2, <3>3, <3>4, <3>5 DEF TypeOK,
            TypeDurable, TypeLeases, TypeLocal
  <2>11. CASE CommitRefused(x)
    <3>1. pc' \in [Proc -> PC]
      BY <2>11, <1>0, Places DEF CommitRefused, Goto
    <3>2. UNCHANGED <<runStatus, receipt, rows, manifest, staged, dest,
                     runLease, opLease, maintenance, proc, owned, job, body,
                     todo, abandoned, told, faults>>
      BY <2>11 DEF CommitRefused, Local, durable
    <3> QED BY <1>0, <1>t, <3>1, <3>2 DEF TypeOK, TypeDurable, TypeLeases,
            TypeLocal
  <2>12. CASE ProbeReceipt(x)
    <3>1. pc' \in [Proc -> PC]
      BY <2>12, <1>0, Places DEF ProbeReceipt, Goto
    <3>2. UNCHANGED <<runStatus, receipt, rows, manifest, staged, dest,
                     runLease, opLease, maintenance, proc, owned, job, body,
                     todo, abandoned, told, faults>>
      BY <2>12 DEF ProbeReceipt, Local, durable
    <3> QED BY <1>0, <1>t, <3>1, <3>2 DEF TypeOK, TypeDurable, TypeLeases,
            TypeLocal
  <2>13. CASE ProbeFails(x)
    <3>1. opLease' \in [Poll -> Proc \cup {Nobody}]
      BY <2>13, <1>0 DEF ProbeFails, FreeOp
    <3>2. pc' \in [Proc -> PC]
      BY <2>13, <1>0, Places DEF ProbeFails, Goto
    <3>3. told' \in [Proc -> [Poll -> Told]]
      BY <2>13, <1>0, TypeTell, TypeConst DEF ProbeFails
    <3>4. faults' \in 0..MaxFaults
      BY <2>13, <1>0, PollStoreAssumption DEF ProbeFails, CallRaises, Fault
    <3>5. UNCHANGED <<runStatus, receipt, rows, manifest, staged, dest,
                     runLease, maintenance, proc, owned, job, body, todo,
                     abandoned>>
      BY <2>13 DEF ProbeFails, Local, durable
    <3> QED BY <1>0, <1>t, <3>1, <3>2, <3>3, <3>4, <3>5 DEF TypeOK,
            TypeDurable, TypeLeases, TypeLocal
  <2>14. CASE MarkCommitted(x)
    <3>1. manifest' \in [Poll -> Manifest]
      <4>1. PICK m \in Manifest :
               \/ manifest' = [manifest EXCEPT ![job[x]] = m]
               \/ manifest' = manifest
        BY <2>14, <1>0, TypeManifest DEF MarkCommitted
      <4> QED BY <1>0, <4>1
    <3>2. opLease' \in [Poll -> Proc \cup {Nobody}]
      BY <2>14, <1>0 DEF MarkCommitted, FreeOp
    <3>3. pc' \in [Proc -> PC]
      <4>1. Goto(x, "tidy") \/ Goto(x, "idle")
        BY <2>14 DEF MarkCommitted
      <4> QED BY <1>0, <4>1, Places DEF Goto
    <3>4. told' \in [Proc -> [Poll -> Told]]
      BY <2>14, <1>0, TypeTell, TypeConst DEF MarkCommitted
    <3>5. faults' \in 0..MaxFaults
      BY <2>14, <1>0, PollStoreAssumption DEF MarkCommitted, Fault
    <3>6. UNCHANGED <<runStatus, receipt, rows, staged, dest, runLease,
                     maintenance, proc, owned, job, body, todo, abandoned>>
      BY <2>14 DEF MarkCommitted, Local
    <3> QED BY <1>0, <1>t, <3>1, <3>2, <3>3, <3>4, <3>5, <3>6 DEF TypeOK,
            TypeDurable, TypeLeases, TypeLocal
  <2>15. CASE TidyStaging(x)
    <3>1. staged' \in [Poll -> SUBSET Payload]
      BY <2>15, <1>0 DEF TidyStaging
    <3>2. opLease' \in [Poll -> Proc \cup {Nobody}]
      BY <2>15, <1>0 DEF TidyStaging, FreeOp
    <3>3. pc' \in [Proc -> PC]
      BY <2>15, <1>0, Places DEF TidyStaging, Goto
    <3>4. told' \in [Proc -> [Poll -> Told]]
      BY <2>15, <1>0, TypeTell, TypeConst DEF TidyStaging
    <3>5. faults' \in 0..MaxFaults
      BY <2>15, <1>0, PollStoreAssumption DEF TidyStaging, Fault
    <3>6. UNCHANGED <<runStatus, receipt, rows, manifest, dest, runLease,
                     maintenance, proc, owned, job, body, todo, abandoned>>
      BY <2>15 DEF TidyStaging, Local
    <3> QED BY <1>0, <1>t, <3>1, <3>2, <3>3, <3>4, <3>5, <3>6 DEF TypeOK,
            TypeDurable, TypeLeases, TypeLocal
  <2>16. CASE ReleaseOperation(x)
    <3>1. opLease' \in [Poll -> Proc \cup {Nobody}]
      BY <2>16, <1>0 DEF ReleaseOperation, FreeOp
    <3>2. pc' \in [Proc -> PC]
      BY <2>16, <1>0, Places DEF ReleaseOperation, Goto
    <3>3. told' \in [Proc -> [Poll -> Told]]
      BY <2>16, <1>0, TypeTell, TypeConst DEF ReleaseOperation
    <3>4. faults' \in 0..MaxFaults
      BY <2>16, <1>0, PollStoreAssumption DEF ReleaseOperation, Fault
    <3>5. UNCHANGED <<runStatus, receipt, rows, manifest, staged, dest,
                     runLease, maintenance, proc, owned, job, body, todo,
                     abandoned>>
      BY <2>16 DEF ReleaseOperation, Local, durable
    <3> QED BY <1>0, <1>t, <3>1, <3>2, <3>3, <3>4, <3>5 DEF TypeOK,
            TypeDurable, TypeLeases, TypeLocal
  <2>17. CASE UnlinkManifest(x)
    <3>1. manifest' \in [Poll -> Manifest]
      <4>1. PICK m \in Manifest :
               \/ manifest' = [manifest EXCEPT ![job[x]] = m]
               \/ manifest' = manifest
        BY <2>17, <1>0, TypeManifest DEF UnlinkManifest
      <4> QED BY <1>0, <4>1
    <3>2. pc' \in [Proc -> PC]
      BY <2>17, <1>0, Places DEF UnlinkManifest, Goto
    <3>3. told' \in [Proc -> [Poll -> Told]]
      BY <2>17, <1>0, TypeTell, TypeConst DEF UnlinkManifest
    <3>4. faults' \in 0..MaxFaults
      BY <2>17, <1>0, PollStoreAssumption DEF UnlinkManifest, Fault
    <3>5. UNCHANGED <<runStatus, receipt, rows, staged, dest, runLease,
                     opLease, maintenance, proc, owned, job, body, todo,
                     abandoned>>
      BY <2>17 DEF UnlinkManifest, Local
    <3> QED BY <1>0, <1>t, <3>1, <3>2, <3>3, <3>4, <3>5 DEF TypeOK,
            TypeDurable, TypeLeases, TypeLocal
  <2>18. CASE FailBeforeManifest(x)
    <3>1. opLease' \in [Poll -> Proc \cup {Nobody}]
      BY <2>18, <1>0 DEF FailBeforeManifest, Fail, FreeOp
    <3>2. pc' \in [Proc -> PC]
      BY <2>18, <1>0, Places DEF FailBeforeManifest, Fail, Goto
    <3>3. told' \in [Proc -> [Poll -> Told]]
      BY <2>18, <1>0, TypeTell, TypeConst DEF FailBeforeManifest, Fail
    <3>4. faults' \in 0..MaxFaults
      BY <2>18, <1>0, PollStoreAssumption
         DEF FailBeforeManifest, CallRaises, Fault
    <3>5. UNCHANGED <<runStatus, receipt, rows, manifest, staged, dest,
                     runLease, maintenance, proc, owned, job, body, todo,
                     abandoned>>
      BY <2>18 DEF FailBeforeManifest, Local, durable
    <3> QED BY <1>0, <1>t, <3>1, <3>2, <3>3, <3>4, <3>5 DEF TypeOK,
            TypeDurable, TypeLeases, TypeLocal
  <2>19. CASE FailAfterManifest(x)
    <3>1. pc' \in [Proc -> PC]
      BY <2>19, <1>0, Places DEF FailAfterManifest, Goto
    <3>2. faults' \in 0..MaxFaults
      BY <2>19, <1>0, PollStoreAssumption
         DEF FailAfterManifest, CallRaises, Fault
    <3>3. UNCHANGED <<runStatus, receipt, rows, manifest, staged, dest,
                     runLease, opLease, maintenance, proc, owned, job, body,
                     todo, abandoned, told>>
      BY <2>19 DEF FailAfterManifest, Local, durable
    <3> QED BY <1>0, <1>t, <3>1, <3>2, <3>3 DEF TypeOK, TypeDurable,
            TypeLeases, TypeLocal
  <2>20. CASE UndoRaw(x)
    <3>1. dest' \in [Poll -> SUBSET Payload]
      <4>1. dest[job[x]] \ Raw(body[x]) \in SUBSET Payload
        BY <1>0, TypeRaw
      <4>2. dest' = [dest EXCEPT ![job[x]] = dest[job[x]] \ Raw(body[x])]
        BY <2>20 DEF UndoRaw
      <4> QED BY <1>0, <4>1, <4>2
    <3>2. pc' \in [Proc -> PC]
      BY <2>20, <1>0, Places DEF UndoRaw, Goto
    <3>3. UNCHANGED <<runStatus, receipt, rows, manifest, staged, runLease,
                     opLease, maintenance, proc, owned, job, body, todo,
                     abandoned, told, faults>>
      BY <2>20 DEF UndoRaw, Local
    <3> QED BY <1>0, <1>t, <3>1, <3>2, <3>3 DEF TypeOK, TypeDurable,
            TypeLeases, TypeLocal
  <2>21. CASE UndoStaging(x)
    <3>1. staged' \in [Poll -> SUBSET Payload]
      BY <2>21, <1>0 DEF UndoStaging
    <3>2. pc' \in [Proc -> PC]
      BY <2>21, <1>0, Places DEF UndoStaging, Goto
    <3>3. UNCHANGED <<runStatus, receipt, rows, manifest, dest, runLease,
                     opLease, maintenance, proc, owned, job, body, todo,
                     abandoned, told, faults>>
      BY <2>21 DEF UndoStaging, Local
    <3> QED BY <1>0, <1>t, <3>1, <3>2, <3>3 DEF TypeOK, TypeDurable,
            TypeLeases, TypeLocal
  <2>22. CASE UndoManifest(x)
    <3>1. manifest' \in [Poll -> Manifest]
      <4>1. PICK m \in Manifest :
               \/ manifest' = [manifest EXCEPT ![job[x]] = m]
               \/ manifest' = manifest
        BY <2>22, <1>0, TypeManifest DEF UndoManifest
      <4> QED BY <1>0, <4>1
    <3>2. opLease' \in [Poll -> Proc \cup {Nobody}]
      BY <2>22, <1>0 DEF UndoManifest, Fail, FreeOp
    <3>3. pc' \in [Proc -> PC]
      BY <2>22, <1>0, Places DEF UndoManifest, Fail, Goto
    <3>4. told' \in [Proc -> [Poll -> Told]]
      BY <2>22, <1>0, TypeTell, TypeConst DEF UndoManifest, Fail
    <3>5. UNCHANGED <<runStatus, receipt, rows, staged, dest, runLease,
                     maintenance, proc, owned, job, body, todo, abandoned,
                     faults>>
      BY <2>22 DEF UndoManifest, Local
    <3> QED BY <1>0, <1>t, <3>1, <3>2, <3>3, <3>4, <3>5 DEF TypeOK,
            TypeDurable, TypeLeases, TypeLocal
  <2>23. CASE UndoFails(x)
    <3>1. opLease' \in [Poll -> Proc \cup {Nobody}]
      BY <2>23, <1>0 DEF UndoFails, Fail, FreeOp
    <3>2. pc' \in [Proc -> PC]
      BY <2>23, <1>0, Places DEF UndoFails, Fail, Goto
    <3>3. told' \in [Proc -> [Poll -> Told]]
      BY <2>23, <1>0, TypeTell, TypeConst DEF UndoFails, Fail
    <3>4. faults' \in 0..MaxFaults
      BY <2>23, <1>0, PollStoreAssumption DEF UndoFails, Fault
    <3>5. UNCHANGED <<runStatus, receipt, rows, manifest, staged, dest,
                     runLease, maintenance, proc, owned, job, body, todo,
                     abandoned>>
      BY <2>23 DEF UndoFails, Local, durable
    <3> QED BY <1>0, <1>t, <3>1, <3>2, <3>3, <3>4, <3>5 DEF TypeOK,
            TypeDurable, TypeLeases, TypeLocal
  <2>24. CASE BusyAgain(x)
    <3>1. UNCHANGED <<runStatus, receipt, rows, manifest, staged, dest,
                     runLease, opLease, maintenance, proc, owned, pc, job,
                     body, todo, abandoned, told, faults>>
      BY <2>24 DEF BusyAgain, TryAgain, Local, durable
    <3> QED BY <1>0, <1>t, <3>1 DEF TypeOK, TypeDurable, TypeLeases,
            TypeLocal
  <2> QED BY <1>2, <2>1, <2>2, <2>3, <2>4, <2>5, <2>6, <2>7, <2>8, <2>9,
            <2>10, <2>11, <2>12, <2>13, <2>14, <2>15, <2>16, <2>17, <2>18,
            <2>19, <2>20, <2>21, <2>22, <2>23, <2>24
            DEF RecordStep
<1>3. ASSUME NEW x \in Proc, StartupStep(x) PROVE TypeOK'
  <2>1. CASE EnterRecovery(x)
    <3>1. maintenance' \in Proc \cup {Nobody}
      BY <2>1, <1>0 DEF EnterRecovery
    <3>2. proc' \in [Proc -> ProcPhase]
      BY <2>1, <1>0 DEF EnterRecovery, ProcPhase
    <3>3. todo' \in [Proc -> SUBSET Poll]
      <4>1. PICK s \in SUBSET Poll :
               \/ todo' = [todo EXCEPT ![x] = s]
               \/ todo' = todo
        BY <2>1, <1>0 DEF EnterRecovery
      <4> QED BY <1>0, <4>1
    <3>4. UNCHANGED <<runStatus, receipt, rows, manifest, staged, dest,
                     runLease, opLease, owned, pc, job, body, abandoned,
                     told, faults>>
      BY <2>1 DEF EnterRecovery, durable
    <3> QED BY <1>0, <1>t, <3>1, <3>2, <3>3, <3>4 DEF TypeOK, TypeDurable,
            TypeLeases, TypeLocal
  <2>2. ASSUME NEW p \in Poll, VisitManifest(x, p) PROVE TypeOK'
    <3>1. pc' \in [Proc -> PC]
      BY <2>2, <1>0, Places DEF VisitManifest, Goto
    <3>2. job' \in [Proc -> Poll]
      BY <2>2, <1>0 DEF VisitManifest
    <3>3. todo' \in [Proc -> SUBSET Poll]
      <4>1. PICK s \in SUBSET Poll :
               \/ todo' = [todo EXCEPT ![x] = s]
               \/ todo' = todo
        BY <2>2, <1>0 DEF VisitManifest
      <4> QED BY <1>0, <4>1
    <3>4. UNCHANGED <<runStatus, receipt, rows, manifest, staged, dest,
                     runLease, opLease, maintenance, proc, owned, body,
                     abandoned, told, faults>>
      BY <2>2 DEF VisitManifest, durable, leases
    <3> QED BY <1>0, <1>t, <3>1, <3>2, <3>3, <3>4 DEF TypeOK, TypeDurable,
            TypeLeases, TypeLocal
  <2>3. CASE LeaseManifest(x)
    <3>1. opLease' \in [Poll -> Proc \cup {Nobody}]
      BY <2>3, <1>0 DEF LeaseManifest
    <3>2. pc' \in [Proc -> PC]
      BY <2>3, <1>0, Places DEF LeaseManifest, Goto
    <3>3. UNCHANGED <<runStatus, receipt, rows, manifest, staged, dest,
                     runLease, maintenance, proc, owned, job, body, todo,
                     abandoned, told, faults>>
      BY <2>3 DEF LeaseManifest, Local, durable
    <3> QED BY <1>0, <1>t, <3>1, <3>2, <3>3 DEF TypeOK, TypeDurable,
            TypeLeases, TypeLocal
  <2>4. CASE ReconcileManifest(x)
    <3>1. CASE DropProcess(x, "corrupt") /\ UNCHANGED <<durable, faults>>
      BY <1>0, <3>1, TypeDrop DEF ProcPhase
    <3>2. CASE DropProcess(x, "vanished") /\ UNCHANGED <<durable, faults>>
      BY <1>0, <3>2, TypeDrop DEF ProcPhase
    <3>3. CASE /\ Reconcile(job[x], manifest[job[x]]) /\ Goto(x, "sTidy")
               /\ Local(x) /\ UNCHANGED <<opLease, told, faults>>
      <4>1. dest' \in [Poll -> SUBSET Payload]
        BY <1>0, <3>3, TypeReconcile
      <4>2. staged' \in [Poll -> SUBSET Payload]
        BY <1>0, <3>3, TypeReconcile
      <4>3. UNCHANGED <<runStatus, receipt, rows, manifest>>
        BY <3>3 DEF Reconcile
      <4>4. pc' \in [Proc -> PC]
        BY <1>0, <3>3, Places DEF Goto
      <4>5. UNCHANGED <<runLease, opLease, maintenance, proc, owned, job, body,
                        todo, abandoned, told, faults>>
        BY <3>3 DEF Local
      <4> QED BY <1>0, <1>t, <4>1, <4>2, <4>3, <4>4, <4>5
              DEF TypeOK, TypeDurable, TypeLeases, TypeLocal
    <3>4. CASE /\ Goto(x, "idle") /\ FreeOp(job[x])
               /\ Local(x) /\ UNCHANGED <<durable, told, faults>>
      <4>1. pc' \in [Proc -> PC]
        BY <1>0, <3>4, Places DEF Goto
      <4>2. opLease' \in [Poll -> Proc \cup {Nobody}]
        BY <1>0, <3>4 DEF FreeOp
      <4>3. UNCHANGED <<durable, runLease, maintenance, proc, owned, job, body,
                        todo, abandoned, told, faults>>
        BY <3>4 DEF Local
      <4> QED BY <1>0, <1>t, <4>1, <4>2, <4>3
              DEF durable, TypeOK, TypeDurable, TypeLeases, TypeLocal
    <3> QED BY <2>4, <3>1, <3>2, <3>3, <3>4 DEF ReconcileManifest
  <2>5. CASE TidyRecovered(x)
    <3>1. staged' \in [Poll -> SUBSET Payload]
      BY <2>5, <1>0 DEF TidyRecovered
    <3>2. pc' \in [Proc -> PC]
      BY <2>5, <1>0, Places DEF TidyRecovered, Goto
    <3>3. UNCHANGED <<runStatus, receipt, rows, manifest, dest, runLease,
                     opLease, maintenance, proc, owned, job, body, todo,
                     abandoned, told, faults>>
      BY <2>5 DEF TidyRecovered, Local
    <3> QED BY <1>0, <1>t, <3>1, <3>2, <3>3 DEF TypeOK, TypeDurable,
            TypeLeases, TypeLocal
  <2>6. CASE ReleaseRecovered(x)
    <3>1. opLease' \in [Poll -> Proc \cup {Nobody}]
      BY <2>6, <1>0 DEF ReleaseRecovered, FreeOp
    <3>2. pc' \in [Proc -> PC]
      BY <2>6, <1>0, Places DEF ReleaseRecovered, Goto
    <3>3. UNCHANGED <<runStatus, receipt, rows, manifest, staged, dest,
                     runLease, maintenance, proc, owned, job, body, todo,
                     abandoned, told, faults>>
      BY <2>6 DEF ReleaseRecovered, Local, durable
    <3> QED BY <1>0, <1>t, <3>1, <3>2, <3>3 DEF TypeOK, TypeDurable,
            TypeLeases, TypeLocal
  <2>7. CASE UnlinkRecovered(x)
    <3>1. manifest' \in [Poll -> Manifest]
      <4>1. PICK m \in Manifest :
               \/ manifest' = [manifest EXCEPT ![job[x]] = m]
               \/ manifest' = manifest
        BY <2>7, <1>0, TypeManifest DEF UnlinkRecovered
      <4> QED BY <1>0, <4>1
    <3>2. pc' \in [Proc -> PC]
      BY <2>7, <1>0, Places DEF UnlinkRecovered, Goto
    <3>3. UNCHANGED <<runStatus, receipt, rows, staged, dest, runLease,
                     opLease, maintenance, proc, owned, job, body, todo,
                     abandoned, told, faults>>
      BY <2>7 DEF UnlinkRecovered, Local
    <3> QED BY <1>0, <1>t, <3>1, <3>2, <3>3 DEF TypeOK, TypeDurable,
            TypeLeases, TypeLocal
  <2>8. CASE LeaveRecovery(x)
    <3>1. maintenance' \in Proc \cup {Nobody}
      BY <2>8, <1>0 DEF LeaveRecovery
    <3>2. proc' \in [Proc -> ProcPhase]
      BY <2>8, <1>0 DEF LeaveRecovery, ProcPhase
    <3>3. UNCHANGED <<runStatus, receipt, rows, manifest, staged, dest,
                     runLease, opLease, owned, pc, job, body, todo,
                     abandoned, told, faults>>
      BY <2>8 DEF LeaveRecovery, durable
    <3> QED BY <1>0, <1>t, <3>1, <3>2, <3>3 DEF TypeOK, TypeDurable,
            TypeLeases, TypeLocal
  <2>9. CASE SelectRunning(x)
    <3>1. proc' \in [Proc -> ProcPhase]
      BY <2>9, <1>0 DEF SelectRunning, ProcPhase
    <3>2. abandoned' \in [Proc -> SUBSET Run]
      <4>1. PICK s \in SUBSET Run :
               \/ abandoned' = [abandoned EXCEPT ![x] = s]
               \/ abandoned' = abandoned
        BY <2>9, <1>0 DEF SelectRunning
      <4> QED BY <1>0, <4>1
    <3>3. UNCHANGED <<runStatus, receipt, rows, manifest, staged, dest,
                     runLease, opLease, maintenance, owned, pc, job, body,
                     todo, told, faults>>
      BY <2>9 DEF SelectRunning, durable, leases
    <3> QED BY <1>0, <1>t, <3>1, <3>2, <3>3 DEF TypeOK, TypeDurable,
            TypeLeases, TypeLocal
  <2>10. ASSUME NEW r \in Run, TryRunLease(x, r) PROVE TypeOK'
    <3>1. runLease' \in [Run -> Proc \cup {Nobody}]
      BY <2>10, <1>0 DEF TryRunLease
    <3>2. abandoned' \in [Proc -> SUBSET Run]
      <4>1. PICK s \in SUBSET Run :
               \/ abandoned' = [abandoned EXCEPT ![x] = s]
               \/ abandoned' = abandoned
        BY <2>10, <1>0 DEF TryRunLease
      <4> QED BY <1>0, <4>1
    <3>3. UNCHANGED <<runStatus, receipt, rows, manifest, staged, dest,
                     opLease, maintenance, proc, owned, pc, job, body, todo,
                     told, faults>>
      BY <2>10 DEF TryRunLease, durable
    <3> QED BY <1>0, <1>t, <3>1, <3>2, <3>3 DEF TypeOK, TypeDurable,
            TypeLeases, TypeLocal
  <2>11. CASE InterruptAbandoned(x)
    <3>1. runStatus' \in [Run -> RunStatus]
      BY <2>11, <1>0 DEF InterruptAbandoned, RunStatus
    <3>2. runLease' \in [Run -> Proc \cup {Nobody}]
      BY <2>11, <1>0 DEF InterruptAbandoned
    <3>3. proc' \in [Proc -> ProcPhase]
      BY <2>11, <1>0 DEF InterruptAbandoned, ProcPhase
    <3>4. UNCHANGED <<receipt, rows, manifest, staged, dest, opLease,
                     maintenance, owned, pc, job, body, todo, abandoned,
                     told, faults>>
      BY <2>11 DEF InterruptAbandoned
    <3> QED BY <1>0, <1>t, <3>1, <3>2, <3>3, <3>4 DEF TypeOK, TypeDurable,
            TypeLeases, TypeLocal
  <2> QED BY <1>3, <2>1, <2>2, <2>3, <2>4, <2>5, <2>6, <2>7, <2>8, <2>9,
            <2>10, <2>11 DEF StartupStep
<1>4. ASSUME NEW x \in Proc, CallerStep(x) PROVE TypeOK'
  <2>1. CASE Launch(x)
    <3>1. proc' \in [Proc -> ProcPhase]
      BY <2>1, <1>0 DEF Launch, ProcPhase
    <3>2. UNCHANGED <<runStatus, receipt, rows, manifest, staged, dest,
                     runLease, opLease, maintenance, owned, pc, job, body,
                     todo, abandoned, told, faults>>
      BY <2>1 DEF Launch, durable, leases
    <3> QED BY <1>0, <1>t, <3>1, <3>2 DEF TypeOK, TypeDurable, TypeLeases,
            TypeLocal
  <2>2. CASE Close(x)
    BY <1>0, <2>2, TypeDrop DEF Close, ProcPhase
  <2>3. CASE Crash(x)
    BY <1>0, <2>3, TypeDrop, PollStoreAssumption
       DEF Crash, Fault, ProcPhase
  <2>4. ASSUME NEW r \in Run, StartRun(x, r) PROVE TypeOK'
    <3>1. runStatus' \in [Run -> RunStatus]
      BY <2>4, <1>0 DEF StartRun, RunStatus
    <3>2. runLease' \in [Run -> Proc \cup {Nobody}]
      BY <2>4, <1>0 DEF StartRun
    <3>3. owned' \in [Proc -> SUBSET Run]
      <4>1. PICK s \in SUBSET Run :
               \/ owned' = [owned EXCEPT ![x] = s]
               \/ owned' = owned
        BY <2>4, <1>0 DEF StartRun
      <4> QED BY <1>0, <4>1
    <3>4. UNCHANGED <<receipt, rows, manifest, staged, dest, opLease,
                     maintenance, proc, pc, job, body, todo, abandoned, told,
                     faults>>
      BY <2>4 DEF StartRun
    <3> QED BY <1>0, <1>t, <3>1, <3>2, <3>3, <3>4 DEF TypeOK, TypeDurable,
            TypeLeases, TypeLocal
  <2>5. ASSUME NEW r \in Run, StartRunUnacknowledged(x, r) PROVE TypeOK'
    <3>1. runStatus' \in [Run -> RunStatus]
      BY <2>5, <1>0 DEF StartRunUnacknowledged, RunStatus
    <3>2. faults' \in 0..MaxFaults
      BY <2>5, <1>0, PollStoreAssumption DEF StartRunUnacknowledged, Fault
    <3>3. UNCHANGED <<receipt, rows, manifest, staged, dest, runLease,
                     opLease, maintenance, proc, owned, pc, job, body, todo,
                     abandoned, told>>
      BY <2>5 DEF StartRunUnacknowledged, leases, local
    <3> QED BY <1>0, <1>t, <3>1, <3>2, <3>3 DEF TypeOK, TypeDurable,
            TypeLeases, TypeLocal
  <2>6. ASSUME NEW r \in Run, FinishRun(x, r) PROVE TypeOK'
    <3>1. runStatus' \in [Run -> RunStatus]
      BY <2>6, <1>0 DEF FinishRun, RunStatus
    <3>2. runLease' \in [Run -> Proc \cup {Nobody}]
      BY <2>6, <1>0 DEF FinishRun
    <3>3. owned' \in [Proc -> SUBSET Run]
      <4>1. PICK s \in SUBSET Run :
               \/ owned' = [owned EXCEPT ![x] = s]
               \/ owned' = owned
        BY <2>6, <1>0 DEF FinishRun
      <4> QED BY <1>0, <4>1
    <3>4. faults' \in 0..MaxFaults
      BY <2>6, <1>0, PollStoreAssumption DEF FinishRun, Fault
    <3>5. UNCHANGED <<receipt, rows, manifest, staged, dest, opLease,
                     maintenance, proc, pc, job, body, todo, abandoned, told>>
      BY <2>6 DEF FinishRun
    <3> QED BY <1>0, <1>t, <3>1, <3>2, <3>3, <3>4, <3>5 DEF TypeOK,
            TypeDurable, TypeLeases, TypeLocal
  <2>7. ASSUME NEW p \in Poll, NEW d \in Payload, Begin(x, p, d) PROVE TypeOK'
    <3>1. opLease' \in [Poll -> Proc \cup {Nobody}]
      BY <2>7, <1>0 DEF Begin
    <3>2. pc' \in [Proc -> PC]
      BY <2>7, <1>0, Places DEF Begin, Goto
    <3>3. job' \in [Proc -> Poll]
      BY <2>7, <1>0 DEF Begin
    <3>4. body' \in [Proc -> Payload]
      BY <2>7, <1>0 DEF Begin
    <3>5. told' \in [Proc -> [Poll -> Told]]
      BY <2>7, <1>0, TypeTell, TypeConst DEF Begin
    <3>6. UNCHANGED <<runStatus, receipt, rows, manifest, staged, dest,
                     runLease, maintenance, proc, owned, todo, abandoned,
                     faults>>
      BY <2>7 DEF Begin, durable
    <3> QED BY <1>0, <1>t, <3>1, <3>2, <3>3, <3>4, <3>5, <3>6 DEF TypeOK,
            TypeDurable, TypeLeases, TypeLocal
  <2> QED BY <1>4, <2>1, <2>2, <2>3, <2>4, <2>5, <2>6, <2>7 DEF CallerStep
<1> QED BY <1>1, <1>2, <1>3, <1>4 DEF Next

(* Every variable keeps its type: in particular no step invents a manifest *)
(* phase, a run status or a report that the rest of the code does not      *)
(* know.                                                                   *)
THEOREM Typing == Spec => []TypeOK
<1>1. Init => TypeOK
  BY TypeInit
<1>2. TypeOK /\ [Next]_vars => TypeOK'
  BY TypeStep
<1> QED BY <1>1, <1>2, PTL DEF Spec

-----------------------------------------------------------------------------
(* Tenancy                                                                 *)

Tenant(x) ==
    /\ \A y \in Proc \ {x} :
          pc'[y] = pc[y] /\ job'[y] = job[y] /\ body'[y] = body[y]
    /\ \A p \in Poll : opLease[p] \notin {x, Nobody} =>
          /\ opLease'[p] = opLease[p]
          /\ receipt'[p] = receipt[p]
          /\ dest'[p] = dest[p]
          /\ manifest'[p] \in {manifest[p], NoManifest}

(* A step of a process leaves the polls alone that others have leased.     *)
LEMMA Tenancy ==
    ASSUME StoreInv, NEW x \in Proc,
           RecordStep(x) \/ StartupStep(x) \/ CallerStep(x)
    PROVE  Tenant(x)
<1>a. /\ pc \in [Proc -> PC] /\ job \in [Proc -> Poll]
      /\ body \in [Proc -> Payload]
      /\ opLease \in [Poll -> Proc \cup {Nobody}]
      /\ receipt \in [Poll -> Payload \cup {NoPayload}]
      /\ dest \in [Poll -> SUBSET Payload] /\ manifest \in [Poll -> Manifest]
      /\ pc[x] \in Holding => opLease[job[x]] = x
  BY DEF StoreInv, TypeOK, TypeDurable, TypeLeases, TypeLocal, HoldsLease
<1>1. CASE RecordStep(x)
  <2>1. CASE LookForManifest(x)
    BY <2>1, <1>a DEF LookForManifest, Local, Goto, durable, Tenant
  <2>2. CASE LoadManifest(x)
    BY <2>2, <1>a
       DEF LoadManifest, Local, Goto, Fail, durable, Reconcile, FreeOp,
           Tenant, Holding, RecordPC
  <2>3. CASE TidyOldStaging(x)
    BY <2>3, <1>a DEF TidyOldStaging, Local, Goto, Tenant
  <2>4. CASE DropOldManifest(x)
    BY <2>4, <1>a DEF DropOldManifest, Local, Goto, Tenant
  <2>5. CASE LookForReceipt(x)
    BY <2>5, <1>a
       DEF LookForReceipt, Local, Goto, Fail, durable, FreeOp, Tenant,
           Holding, RecordPC
  <2>6. CASE WriteManifest(x)
    BY <2>6, <1>a
       DEF WriteManifest, Local, Goto, Fail, FreeOp, Tenant, Holding, RecordPC
  <2>7. CASE StageRaw(x)
    BY <2>7, <1>a DEF StageRaw, Local, Goto, Tenant
  <2>8. CASE InstallRaw(x)
    BY <2>8, <1>a DEF InstallRaw, Local, Goto, Tenant, Holding, RecordPC
  <2>9. CASE MarkInstalled(x)
    BY <2>9, <1>a DEF MarkInstalled, Local, Goto, Tenant, Holding, RecordPC
  <2>10. CASE CommitApplied(x)
    BY <2>10, <1>a DEF CommitApplied, TryAgain, Local, Goto, Tenant, Holding,
           RecordPC
  <2>11. CASE CommitRefused(x)
    BY <2>11, <1>a DEF CommitRefused, Local, Goto, durable, Tenant
  <2>12. CASE ProbeReceipt(x)
    BY <2>12, <1>a DEF ProbeReceipt, Local, Goto, durable, Tenant
  <2>13. CASE ProbeFails(x)
    BY <2>13, <1>a
       DEF ProbeFails, Local, Goto, FreeOp, durable, Tenant, Holding, RecordPC
  <2>14. CASE MarkCommitted(x)
    BY <2>14, <1>a
       DEF MarkCommitted, Local, Goto, FreeOp, Tenant, Holding, RecordPC
  <2>15. CASE TidyStaging(x)
    BY <2>15, <1>a
       DEF TidyStaging, Local, Goto, FreeOp, Tenant, Holding, RecordPC
  <2>16. CASE ReleaseOperation(x)
    BY <2>16, <1>a
       DEF ReleaseOperation, Local, Goto, FreeOp, durable, Tenant, Holding,
           RecordPC
  <2>17. CASE UnlinkManifest(x)
    BY <2>17, <1>a DEF UnlinkManifest, Local, Goto, Tenant
  <2>18. CASE FailBeforeManifest(x)
    BY <2>18, <1>a
       DEF FailBeforeManifest, Local, Fail, durable, Goto, FreeOp, Tenant,
           Holding, RecordPC
  <2>19. CASE FailAfterManifest(x)
    BY <2>19, <1>a DEF FailAfterManifest, Local, Goto, durable, Tenant
  <2>20. CASE UndoRaw(x)
    BY <2>20, <1>a DEF UndoRaw, Local, Goto, Tenant, Holding, RollbackPC
  <2>21. CASE UndoStaging(x)
    BY <2>21, <1>a DEF UndoStaging, Local, Goto, Tenant
  <2>22. CASE UndoManifest(x)
    BY <2>22, <1>a
       DEF UndoManifest, Local, Fail, Goto, FreeOp, Tenant, Holding, RollbackPC
  <2>23. CASE UndoFails(x)
    BY <2>23, <1>a
       DEF UndoFails, Local, Fail, durable, Goto, FreeOp, Tenant, Holding
  <2>24. CASE BusyAgain(x)
    BY <2>24, <1>a DEF BusyAgain, TryAgain, Local, durable, Tenant
  <2> QED BY <1>1, <2>1, <2>2, <2>3, <2>4, <2>5, <2>6, <2>7, <2>8, <2>9,
            <2>10, <2>11, <2>12, <2>13, <2>14, <2>15, <2>16, <2>17, <2>18,
            <2>19, <2>20, <2>21, <2>22, <2>23, <2>24
            DEF RecordStep
<1>2. CASE StartupStep(x)
  <2>1. CASE EnterRecovery(x)
    BY <2>1, <1>a DEF EnterRecovery, durable, Tenant
  <2>2. CASE \E p \in Poll : VisitManifest(x, p)
    BY <2>2, <1>a DEF VisitManifest, Goto, durable, leases, Tenant
  <2>3. CASE LeaseManifest(x)
    BY <2>3, <1>a DEF LeaseManifest, Local, Goto, durable, Tenant
  <2>4. CASE ReconcileManifest(x)
    BY <2>4, <1>a
       DEF ReconcileManifest, Local, Goto, FreeOp, durable, Reconcile,
           DropProcess, Tenant, Holding
  <2>5. CASE TidyRecovered(x)
    BY <2>5, <1>a DEF TidyRecovered, Local, Goto, Tenant
  <2>6. CASE ReleaseRecovered(x)
    BY <2>6, <1>a
       DEF ReleaseRecovered, Local, Goto, FreeOp, durable, Tenant, Holding
  <2>7. CASE UnlinkRecovered(x)
    BY <2>7, <1>a DEF UnlinkRecovered, Local, Goto, Tenant
  <2>8. CASE LeaveRecovery(x)
    BY <2>8, <1>a DEF LeaveRecovery, durable, Tenant
  <2>9. CASE SelectRunning(x)
    BY <2>9, <1>a DEF SelectRunning, durable, leases, Tenant
  <2>10. CASE \E r \in Run : TryRunLease(x, r)
    BY <2>10, <1>a DEF TryRunLease, durable, Tenant
  <2>11. CASE InterruptAbandoned(x)
    BY <2>11, <1>a DEF InterruptAbandoned, Tenant
  <2> QED BY <1>2, <2>1, <2>2, <2>3, <2>4, <2>5, <2>6, <2>7, <2>8, <2>9,
            <2>10, <2>11 DEF StartupStep
<1>3. CASE CallerStep(x)
  <2>1. CASE Launch(x)
    BY <2>1, <1>a DEF Launch, durable, leases, Tenant
  <2>2. CASE Close(x)
    BY <2>2, <1>a DEF Close, durable, DropProcess, Tenant
  <2>3. CASE Crash(x)
    BY <2>3, <1>a DEF Crash, durable, DropProcess, Tenant
  <2>4. CASE \E r \in Run : StartRun(x, r)
    BY <2>4, <1>a DEF StartRun, Tenant
  <2>5. CASE \E r \in Run : StartRunUnacknowledged(x, r)
    BY <2>5, <1>a DEF StartRunUnacknowledged, leases, local, Tenant
  <2>6. CASE \E r \in Run : FinishRun(x, r)
    BY <2>6, <1>a DEF FinishRun, Tenant
  <2>7. CASE \E p \in Poll, d \in Payload : Begin(x, p, d)
    BY <2>7, <1>a DEF Begin, Goto, durable, Tenant
  <2> QED BY <1>3, <2>1, <2>2, <2>3, <2>4, <2>5, <2>6, <2>7 DEF CallerStep
<1> QED BY <1>1, <1>2, <1>3

(* What a process may rely on survives the steps of the others.            *)
LEMMA OthersUndisturbed ==
    ASSUME StoreInv, NEW x \in Proc, Tenant(x), NEW y \in Proc \ {x}
    PROVE  HoldsLease(y)' /\ OnCourse(y)'
<1>1. /\ HoldsLease(y) /\ OnCourse(y)
      /\ job[y] \in Poll /\ Nobody \notin Proc
  BY PollStoreAssumption DEF StoreInv, TypeOK, TypeLocal
<1>2. /\ pc'[y] = pc[y] /\ job'[y] = job[y] /\ body'[y] = body[y]
  BY DEF Tenant
<1>3. HoldsLease(y)'
  BY <1>1, <1>2 DEF HoldsLease, Tenant
<1>4. ASSUME pc[y] \in Holding
      PROVE  /\ receipt'[job[y]] = receipt[job[y]]
             /\ dest'[job[y]] = dest[job[y]]
             /\ manifest'[job[y]] \in {manifest[job[y]], NoManifest}
  BY <1>1, <1>4 DEF HoldsLease, Tenant
<1>5. OnCourse(y)'
  BY <1>1, <1>2, <1>4 DEF OnCourse, Holding, RecordPC
<1> QED BY <1>3, <1>5

(* A step of a process leaves it on course.                                *)
LEMMA OwnCourse ==
    ASSUME StoreInv, NEW x \in Proc,
           RecordStep(x) \/ StartupStep(x) \/ CallerStep(x)
    PROVE  HoldsLease(x)' /\ OnCourse(x)'
<1>a. /\ pc \in [Proc -> PC] /\ job \in [Proc -> Poll]
      /\ body \in [Proc -> Payload]
      /\ opLease \in [Poll -> Proc \cup {Nobody}]
      /\ receipt \in [Poll -> Payload \cup {NoPayload}]
      /\ dest \in [Poll -> SUBSET Payload] /\ manifest \in [Poll -> Manifest]
      /\ HoldsLease(x) /\ OnCourse(x)
  BY DEF StoreInv, TypeOK, TypeDurable, TypeLeases, TypeLocal
<1>1. CASE RecordStep(x)
  <2>1. CASE LookForManifest(x)
    BY <2>1, <1>a
       DEF LookForManifest, Local, Goto, HoldsLease, OnCourse, Holding,
           RecordPC, RollbackPC
  <2>2. CASE LoadManifest(x)
    BY <2>2, <1>a
       DEF LoadManifest, Local, Goto, Fail, HoldsLease, OnCourse, Holding,
           RecordPC, RollbackPC
  <2>3. CASE TidyOldStaging(x)
    BY <2>3, <1>a
       DEF TidyOldStaging, Local, Goto, HoldsLease, OnCourse, Holding,
           RecordPC, RollbackPC
  <2>4. CASE DropOldManifest(x)
    BY <2>4, <1>a
       DEF DropOldManifest, Local, Goto, HoldsLease, OnCourse, Holding,
           RecordPC, RollbackPC
  <2>5. CASE LookForReceipt(x)
    BY <2>5, <1>a
       DEF LookForReceipt, Local, Goto, Fail, durable, HoldsLease, OnCourse,
           Holding, RecordPC, RollbackPC
  <2>6. CASE WriteManifest(x)
    BY <2>6, <1>a
       DEF WriteManifest, Local, Goto, Fail, HoldsLease, OnCourse, Holding,
           RecordPC, RollbackPC
  <2>7. CASE StageRaw(x)
    BY <2>7, <1>a
       DEF StageRaw, Local, Goto, HoldsLease, OnCourse, Holding, RecordPC
  <2>8. CASE InstallRaw(x)
    BY <2>8, <1>a
       DEF InstallRaw, Local, Goto, HoldsLease, OnCourse, Holding, RecordPC
  <2>9. CASE MarkInstalled(x)
    BY <2>9, <1>a
       DEF MarkInstalled, Local, Goto, HoldsLease, OnCourse, Holding, RecordPC
  <2>10. CASE CommitApplied(x)
    BY <2>10, <1>a
       DEF CommitApplied, TryAgain, Local, Goto, HoldsLease, OnCourse, Holding,
           RecordPC, RollbackPC
  <2>11. CASE CommitRefused(x)
    BY <2>11, <1>a
       DEF CommitRefused, Local, Goto, durable, HoldsLease, OnCourse,
           Holding, RecordPC, RollbackPC
  <2>12. CASE ProbeReceipt(x)
    BY <2>12, <1>a
       DEF ProbeReceipt, Local, Goto, durable, HoldsLease, OnCourse, Holding,
           RecordPC, RollbackPC
  <2>13. CASE ProbeFails(x)
    BY <2>13, <1>a
       DEF ProbeFails, Local, Goto, HoldsLease, OnCourse, Holding, RecordPC,
           RollbackPC
  <2>14. CASE MarkCommitted(x)
    BY <2>14, <1>a
       DEF MarkCommitted, Local, Goto, HoldsLease, OnCourse, Holding,
           RecordPC, RollbackPC
  <2>15. CASE TidyStaging(x)
    BY <2>15, <1>a
       DEF TidyStaging, Local, Goto, HoldsLease, OnCourse, Holding, RecordPC,
           RollbackPC
  <2>16. CASE ReleaseOperation(x)
    BY <2>16, <1>a
       DEF ReleaseOperation, Local, Goto, HoldsLease, OnCourse, Holding,
           RecordPC, RollbackPC
  <2>17. CASE UnlinkManifest(x)
    BY <2>17, <1>a
       DEF UnlinkManifest, Local, Goto, HoldsLease, OnCourse, Holding,
           RecordPC, RollbackPC
  <2>18. CASE FailBeforeManifest(x)
    BY <2>18, <1>a
       DEF FailBeforeManifest, Local, Fail, Goto, HoldsLease, OnCourse,
           Holding, RecordPC, RollbackPC
  <2>19. CASE FailAfterManifest(x)
    BY <2>19, <1>a
       DEF FailAfterManifest, Local, Goto, durable, HoldsLease, OnCourse,
           Holding, RecordPC, RollbackPC
  <2>20. CASE UndoRaw(x)
    BY <2>20, <1>a
       DEF UndoRaw, Local, Goto, HoldsLease, OnCourse, Holding, RollbackPC
  <2>21. CASE UndoStaging(x)
    BY <2>21, <1>a
       DEF UndoStaging, Local, Goto, HoldsLease, OnCourse, Holding, RollbackPC
  <2>22. CASE UndoManifest(x)
    BY <2>22, <1>a
       DEF UndoManifest, Local, Fail, Goto, HoldsLease, OnCourse, Holding,
           RecordPC, RollbackPC
  <2>23. CASE UndoFails(x)
    BY <2>23, <1>a
       DEF UndoFails, Local, Fail, Goto, HoldsLease, OnCourse, Holding,
           RecordPC, RollbackPC
  <2>24. CASE BusyAgain(x)
    BY <2>24, <1>a
       DEF BusyAgain, TryAgain, Local, durable, HoldsLease, OnCourse
  <2> QED BY <1>1, <2>1, <2>2, <2>3, <2>4, <2>5, <2>6, <2>7, <2>8, <2>9,
            <2>10, <2>11, <2>12, <2>13, <2>14, <2>15, <2>16, <2>17, <2>18,
            <2>19, <2>20, <2>21, <2>22, <2>23, <2>24
            DEF RecordStep
<1>2. CASE StartupStep(x)
  <2>1. CASE EnterRecovery(x)
    BY <2>1, <1>a DEF EnterRecovery, durable, HoldsLease, OnCourse
  <2>2. CASE \E p \in Poll : VisitManifest(x, p)
    BY <2>2, <1>a
       DEF VisitManifest, Goto, HoldsLease, OnCourse, Holding, RecordPC,
           RollbackPC
  <2>3. CASE LeaseManifest(x)
    BY <2>3, <1>a
       DEF LeaseManifest, Local, Goto, HoldsLease, OnCourse, Holding,
           RecordPC, RollbackPC
  <2>4. CASE ReconcileManifest(x)
    BY <2>4, <1>a
       DEF ReconcileManifest, Local, Goto, DropProcess, HoldsLease, OnCourse,
           Holding, RecordPC, RollbackPC
  <2>5. CASE TidyRecovered(x)
    BY <2>5, <1>a
       DEF TidyRecovered, Local, Goto, HoldsLease, OnCourse, Holding,
           RollbackPC
  <2>6. CASE ReleaseRecovered(x)
    BY <2>6, <1>a
       DEF ReleaseRecovered, Local, Goto, HoldsLease, OnCourse, Holding,
           RecordPC, RollbackPC
  <2>7. CASE UnlinkRecovered(x)
    BY <2>7, <1>a
       DEF UnlinkRecovered, Local, Goto, HoldsLease, OnCourse, Holding,
           RecordPC, RollbackPC
  <2>8. CASE LeaveRecovery(x)
    BY <2>8, <1>a DEF LeaveRecovery, HoldsLease, OnCourse, RollbackPC
  <2>9. CASE SelectRunning(x)
    BY <2>9, <1>a DEF SelectRunning, durable, leases, HoldsLease, OnCourse
  <2>10. CASE \E r \in Run : TryRunLease(x, r)
    BY <2>10, <1>a DEF TryRunLease, durable, HoldsLease, OnCourse
  <2>11. CASE InterruptAbandoned(x)
    BY <2>11, <1>a DEF InterruptAbandoned, HoldsLease, OnCourse
  <2> QED BY <1>2, <2>1, <2>2, <2>3, <2>4, <2>5, <2>6, <2>7, <2>8, <2>9,
            <2>10, <2>11 DEF StartupStep
<1>3. CASE CallerStep(x)
  <2>1. CASE Launch(x)
    BY <2>1, <1>a DEF Launch, durable, leases, HoldsLease, OnCourse
  <2>2. CASE Close(x)
    BY <2>2, <1>a
       DEF Close, DropProcess, HoldsLease, OnCourse, Holding, RecordPC,
           RollbackPC
  <2>3. CASE Crash(x)
    BY <2>3, <1>a
       DEF Crash, DropProcess, HoldsLease, OnCourse, Holding, RecordPC,
           RollbackPC
  <2>4. CASE \E r \in Run : StartRun(x, r)
    BY <2>4, <1>a DEF StartRun, HoldsLease, OnCourse
  <2>5. CASE \E r \in Run : StartRunUnacknowledged(x, r)
    BY <2>5, <1>a
       DEF StartRunUnacknowledged, leases, local, HoldsLease, OnCourse
  <2>6. CASE \E r \in Run : FinishRun(x, r)
    BY <2>6, <1>a DEF FinishRun, HoldsLease, OnCourse
  <2>7. CASE \E p \in Poll, d \in Payload : Begin(x, p, d)
    BY <2>7, <1>a DEF Begin, Goto, HoldsLease, OnCourse, RollbackPC
  <2> QED BY <1>3, <2>1, <2>2, <2>3, <2>4, <2>5, <2>6, <2>7 DEF CallerStep
<1> QED BY <1>1, <1>2, <1>3

(* No step tears a published poll or makes a manifest contradict it.       *)
LEMMA PollsKept ==
    ASSUME StoreInv, NEW x \in Proc,
           RecordStep(x) \/ StartupStep(x) \/ CallerStep(x)
    PROVE  PublishedWhole' /\ ManifestHonest'
<1>a. /\ pc \in [Proc -> PC] /\ job \in [Proc -> Poll]
      /\ body \in [Proc -> Payload]
      /\ opLease \in [Poll -> Proc \cup {Nobody}]
      /\ receipt \in [Poll -> Payload \cup {NoPayload}]
      /\ dest \in [Poll -> SUBSET Payload] /\ manifest \in [Poll -> Manifest]
      /\ rows \in [Poll -> Nat]
      /\ OnCourse(x) /\ PublishedWhole /\ ManifestHonest
  BY DEF StoreInv, TypeOK, TypeDurable, TypeLeases, TypeLocal
<1>1. CASE RecordStep(x)
  <2>1. CASE LookForManifest(x)
    BY <2>1, <1>a
       DEF LookForManifest, Local, durable, PublishedWhole, ManifestHonest,
           OnCourse
  <2>2. CASE LoadManifest(x)
    BY <2>2, <1>a
       DEF LoadManifest, Local, durable, Reconcile, PublishedWhole,
           ManifestHonest, OnCourse
  <2>3. CASE TidyOldStaging(x)
    BY <2>3, <1>a
       DEF TidyOldStaging, Local, PublishedWhole, ManifestHonest, OnCourse
  <2>4. CASE DropOldManifest(x)
    BY <2>4, <1>a
       DEF DropOldManifest, Local, PublishedWhole, ManifestHonest, OnCourse
  <2>5. CASE LookForReceipt(x)
    BY <2>5, <1>a
       DEF LookForReceipt, Local, durable, PublishedWhole, ManifestHonest,
           OnCourse
  <2>6. CASE WriteManifest(x)
    BY <2>6, <1>a
       DEF WriteManifest, Local, PublishedWhole, ManifestHonest, OnCourse
  <2>7. CASE StageRaw(x)
    BY <2>7, <1>a DEF StageRaw, Local, PublishedWhole, ManifestHonest, OnCourse
  <2>8. CASE InstallRaw(x)
    BY <2>8, <1>a
       DEF InstallRaw, Local, PublishedWhole, ManifestHonest, OnCourse
  <2>9. CASE MarkInstalled(x)
    BY <2>9, <1>a
       DEF MarkInstalled, Local, PublishedWhole, ManifestHonest, OnCourse
  <2>10. CASE CommitApplied(x)
    <3>1. /\ receipt' = [receipt EXCEPT ![job[x]] = body[x]]
          /\ rows' = [rows EXCEPT ![job[x]] = @ + 1]
          /\ UNCHANGED <<dest, manifest>>
          /\ pc[x] = "commit" /\ receipt[job[x]] = NoPayload
      BY <2>10 DEF CommitApplied
    <3>2. /\ receipt[job[x]] = NoPayload /\ rows[job[x]] = 0
          /\ Raw(body[x]) \subseteq dest[job[x]]
          /\ manifest[job[x]] \in
                {NoManifest, [phase |-> "INSTALLED", payload |-> body[x]]}
      BY <1>a, <3>1 DEF OnCourse, PublishedWhole
    <3>3. body[x] \in Payload /\ NoPayload \notin Payload /\ job[x] \in Poll
      BY <1>a, PollStoreAssumption
    <3>4. PublishedWhole'
      BY <1>a, <3>1, <3>2, <3>3 DEF PublishedWhole
    <3>5. ManifestHonest'
      BY <1>a, <3>1, <3>2, <3>3 DEF ManifestHonest
    <3> QED BY <3>4, <3>5
  <2>11. CASE CommitRefused(x)
    BY <2>11, <1>a
       DEF CommitRefused, Local, durable, PublishedWhole, ManifestHonest,
           OnCourse
  <2>12. CASE ProbeReceipt(x)
    BY <2>12, <1>a
       DEF ProbeReceipt, Local, durable, PublishedWhole, ManifestHonest,
           OnCourse
  <2>13. CASE ProbeFails(x)
    BY <2>13, <1>a
       DEF ProbeFails, Local, durable, PublishedWhole, ManifestHonest, OnCourse
  <2>14. CASE MarkCommitted(x)
    <3>1. /\ UNCHANGED <<receipt, rows, dest>> /\ pc[x] = "markdb"
          /\ \/ manifest' = [manifest EXCEPT ![job[x]] =
                   [phase |-> "DB_COMMITTED", payload |-> body[x]]]
             \/ UNCHANGED manifest
      BY <2>14 DEF MarkCommitted
    <3>2. receipt[job[x]] = body[x] /\ body[x] # NoPayload
      BY <1>a, <3>1, PollStoreAssumption DEF OnCourse
    <3>3. PublishedWhole'
      BY <1>a, <3>1 DEF PublishedWhole
    <3>4. ManifestHonest'
      BY <1>a, <3>1, <3>2 DEF ManifestHonest
    <3> QED BY <3>3, <3>4
  <2>15. CASE TidyStaging(x)
    BY <2>15, <1>a
       DEF TidyStaging, Local, PublishedWhole, ManifestHonest, OnCourse
  <2>16. CASE ReleaseOperation(x)
    BY <2>16, <1>a
       DEF ReleaseOperation, Local, durable, PublishedWhole, ManifestHonest,
           OnCourse
  <2>17. CASE UnlinkManifest(x)
    BY <2>17, <1>a
       DEF UnlinkManifest, Local, PublishedWhole, ManifestHonest, OnCourse
  <2>18. CASE FailBeforeManifest(x)
    BY <2>18, <1>a
       DEF FailBeforeManifest, Local, durable, PublishedWhole,
           ManifestHonest, OnCourse
  <2>19. CASE FailAfterManifest(x)
    BY <2>19, <1>a
       DEF FailAfterManifest, Local, durable, PublishedWhole, ManifestHonest,
           OnCourse
  <2>20. CASE UndoRaw(x)
    BY <2>20, <1>a
       DEF UndoRaw, Local, PublishedWhole, ManifestHonest, OnCourse, RollbackPC
  <2>21. CASE UndoStaging(x)
    BY <2>21, <1>a
       DEF UndoStaging, Local, PublishedWhole, ManifestHonest, OnCourse
  <2>22. CASE UndoManifest(x)
    BY <2>22, <1>a
       DEF UndoManifest, Local, PublishedWhole, ManifestHonest, OnCourse
  <2>23. CASE UndoFails(x)
    BY <2>23, <1>a
       DEF UndoFails, Local, durable, PublishedWhole, ManifestHonest, OnCourse
  <2>24. CASE BusyAgain(x)
    BY <2>24, <1>a
       DEF BusyAgain, Local, durable, PublishedWhole, ManifestHonest, OnCourse
  <2> QED BY <1>1, <2>1, <2>2, <2>3, <2>4, <2>5, <2>6, <2>7, <2>8, <2>9,
            <2>10, <2>11, <2>12, <2>13, <2>14, <2>15, <2>16, <2>17, <2>18,
            <2>19, <2>20, <2>21, <2>22, <2>23, <2>24
            DEF RecordStep
<1>2. CASE StartupStep(x)
  <2>1. CASE EnterRecovery(x)
    BY <2>1, <1>a
       DEF EnterRecovery, durable, PublishedWhole, ManifestHonest, OnCourse
  <2>2. CASE \E p \in Poll : VisitManifest(x, p)
    BY <2>2, <1>a
       DEF VisitManifest, durable, PublishedWhole, ManifestHonest, OnCourse
  <2>3. CASE LeaseManifest(x)
    BY <2>3, <1>a
       DEF LeaseManifest, Local, durable, PublishedWhole, ManifestHonest,
           OnCourse
  <2>4. CASE ReconcileManifest(x)
    BY <2>4, <1>a
       DEF ReconcileManifest, Local, durable, Reconcile, DropProcess,
           PublishedWhole, ManifestHonest, OnCourse
  <2>5. CASE TidyRecovered(x)
    BY <2>5, <1>a
       DEF TidyRecovered, Local, PublishedWhole, ManifestHonest, OnCourse
  <2>6. CASE ReleaseRecovered(x)
    BY <2>6, <1>a
       DEF ReleaseRecovered, Local, durable, PublishedWhole, ManifestHonest,
           OnCourse
  <2>7. CASE UnlinkRecovered(x)
    BY <2>7, <1>a
       DEF UnlinkRecovered, Local, PublishedWhole, ManifestHonest, OnCourse
  <2>8. CASE LeaveRecovery(x)
    BY <2>8, <1>a
       DEF LeaveRecovery, durable, PublishedWhole, ManifestHonest, OnCourse
  <2>9. CASE SelectRunning(x)
    BY <2>9, <1>a
       DEF SelectRunning, durable, PublishedWhole, ManifestHonest, OnCourse
  <2>10. CASE \E r \in Run : TryRunLease(x, r)
    BY <2>10, <1>a
       DEF TryRunLease, durable, PublishedWhole, ManifestHonest, OnCourse
  <2>11. CASE InterruptAbandoned(x)
    BY <2>11, <1>a
       DEF InterruptAbandoned, PublishedWhole, ManifestHonest, OnCourse
  <2> QED BY <1>2, <2>1, <2>2, <2>3, <2>4, <2>5, <2>6, <2>7, <2>8, <2>9,
            <2>10, <2>11 DEF StartupStep
<1>3. CASE CallerStep(x)
  <2>1. CASE Launch(x)
    BY <2>1, <1>a DEF Launch, durable, PublishedWhole, ManifestHonest, OnCourse
  <2>2. CASE Close(x)
    BY <2>2, <1>a
       DEF Close, durable, DropProcess, PublishedWhole, ManifestHonest,
           OnCourse
  <2>3. CASE Crash(x)
    BY <2>3, <1>a
       DEF Crash, durable, DropProcess, PublishedWhole, ManifestHonest,
           OnCourse
  <2>4. CASE \E r \in Run : StartRun(x, r)
    BY <2>4, <1>a DEF StartRun, PublishedWhole, ManifestHonest, OnCourse
  <2>5. CASE \E r \in Run : StartRunUnacknowledged(x, r)
    BY <2>5, <1>a
       DEF StartRunUnacknowledged, PublishedWhole, ManifestHonest, OnCourse
  <2>6. CASE \E r \in Run : FinishRun(x, r)
    BY <2>6, <1>a DEF FinishRun, PublishedWhole, ManifestHonest, OnCourse
  <2>7. CASE \E p \in Poll, d \in Payload : Begin(x, p, d)
    BY <2>7, <1>a DEF Begin, durable, PublishedWhole, ManifestHonest, OnCourse
  <2> QED BY <1>3, <2>1, <2>2, <2>3, <2>4, <2>5, <2>6, <2>7 DEF CallerStep
<1> QED BY <1>1, <1>2, <1>3

-----------------------------------------------------------------------------
(* The invariant                                                           *)

(* An empty store satisfies the invariant.                                 *)
LEMMA StoreInit == Init => StoreInv
<1> SUFFICES ASSUME Init PROVE StoreInv
  OBVIOUS
<1>1. TypeOK
  BY TypeInit
<1>2. PublishedWhole /\ ManifestHonest
  BY DEF Init, PublishedWhole, ManifestHonest
<1>3. \A x \in Proc : HoldsLease(x) /\ OnCourse(x)
  BY DEF Init, HoldsLease, OnCourse, Holding, RecordPC, RollbackPC
<1> QED BY <1>1, <1>2, <1>3 DEF StoreInv

(* Every step preserves the invariant.                                     *)
LEMMA StoreStep == StoreInv /\ [Next]_vars => StoreInv'
<1> SUFFICES ASSUME StoreInv, [Next]_vars PROVE StoreInv'
  OBVIOUS
<1>1. TypeOK'
  BY TypeStep DEF StoreInv
<1>2. CASE UNCHANGED vars
  BY <1>1, <1>2
     DEF vars, durable, leases, local, StoreInv, PublishedWhole,
         ManifestHonest, HoldsLease, OnCourse
<1>3. ASSUME NEW x \in Proc,
             RecordStep(x) \/ StartupStep(x) \/ CallerStep(x)
      PROVE  StoreInv'
  <2>1. Tenant(x)
    BY <1>3, Tenancy
  <2>2. \A y \in Proc \ {x} : HoldsLease(y)' /\ OnCourse(y)'
    BY <2>1, OthersUndisturbed
  <2>3. HoldsLease(x)' /\ OnCourse(x)'
    BY <1>3, OwnCourse
  <2>4. PublishedWhole' /\ ManifestHonest'
    BY <1>3, PollsKept
  <2> QED BY <1>1, <2>2, <2>3, <2>4 DEF StoreInv
<1> QED BY <1>2, <1>3 DEF Next

(* StoreInv holds in every reachable state.                                *)
THEOREM Invariance == Spec => []StoreInv
<1>1. Init => StoreInv
  BY StoreInit
<1>2. StoreInv /\ [Next]_vars => StoreInv'
  BY StoreStep
<1> QED BY <1>1, <1>2, PTL DEF Spec

(* Whatever crashes, fails, is retried or is reconciled by whom: a receipt *)
(* comes with exactly one set of rows and with its Raw file.               *)
THEOREM NeverTorn == Spec => []PublishedWhole
<1>1. StoreInv => PublishedWhole
  BY DEF StoreInv
<1> QED BY <1>1, Invariance, PTL

-----------------------------------------------------------------------------
(* Start-up has nothing to refuse                                          *)

(* Under the invariant no manifest is in a state recovery cannot repair.   *)
LEMMA Repairable ==
    ASSUME StoreInv, NEW p \in Poll, manifest[p] # NoManifest
    PROVE  ~ Corrupt(p, manifest[p])
<1>1. /\ rows \in [Poll -> Nat] /\ PublishedWhole /\ ManifestHonest
      /\ NoPayload \notin Payload
  BY PollStoreAssumption DEF StoreInv, TypeOK, TypeDurable
<1> QED BY <1>1 DEF PublishedWhole, ManifestHonest, Corrupt

(* A process is never driven into refusing the store.                      *)
LEMMA NoRefusalStep ==
    StoreInv /\ NothingToRefuse /\ [Next]_vars => NothingToRefuse'
<1> SUFFICES ASSUME StoreInv, NothingToRefuse, [Next]_vars
             PROVE  NothingToRefuse'
  OBVIOUS
<1>0. proc \in [Proc -> ProcPhase] /\ job \in [Proc -> Poll]
  BY DEF StoreInv, TypeOK, TypeLocal
<1>1. CASE UNCHANGED vars
  BY <1>1 DEF vars, local, NothingToRefuse
<1>2. ASSUME NEW x \in Proc, RecordStep(x) PROVE NothingToRefuse'
  <2>1. UNCHANGED proc
    BY <1>2
       DEF RecordStep, LookForManifest, LoadManifest, TidyOldStaging,
           DropOldManifest, LookForReceipt, WriteManifest, StageRaw,
           InstallRaw, MarkInstalled, CommitApplied, TryAgain, CommitRefused,
           ProbeReceipt, ProbeFails, MarkCommitted, TidyStaging,
           ReleaseOperation, UnlinkManifest, FailBeforeManifest,
           BusyAgain, TryAgain, FailAfterManifest, UndoRaw, UndoStaging,
           UndoManifest, UndoFails,
           Local
  <2> QED BY <2>1 DEF NothingToRefuse
<1>3. ASSUME NEW x \in Proc, StartupStep(x) PROVE NothingToRefuse'
  <2>1. CASE ReconcileManifest(x)
    <3>1. ~ (manifest[job[x]] # NoManifest
               /\ Corrupt(job[x], manifest[job[x]]))
      BY <1>0, Repairable
    <3> QED BY <1>0, <2>1, <3>1
               DEF ReconcileManifest, DropProcess, Local, NothingToRefuse
  <2>2. CASE \/ LeaseManifest(x) \/ TidyRecovered(x) \/ ReleaseRecovered(x)
             \/ UnlinkRecovered(x) \/ \E p \in Poll : VisitManifest(x, p)
             \/ \E r \in Run : TryRunLease(x, r)
    BY <2>2
       DEF LeaseManifest, TidyRecovered, ReleaseRecovered, UnlinkRecovered,
           VisitManifest, TryRunLease, Local, NothingToRefuse
  <2>3. CASE \/ EnterRecovery(x) \/ LeaveRecovery(x) \/ SelectRunning(x)
             \/ InterruptAbandoned(x)
    BY <1>0, <2>3
       DEF EnterRecovery, LeaveRecovery, SelectRunning, InterruptAbandoned,
           NothingToRefuse
  <2> QED BY <1>3, <2>1, <2>2, <2>3 DEF StartupStep
<1>4. ASSUME NEW x \in Proc, CallerStep(x) PROVE NothingToRefuse'
  <2>1. CASE Launch(x) \/ Close(x) \/ Crash(x)
    BY <1>0, <2>1 DEF Launch, Close, Crash, DropProcess, NothingToRefuse
  <2>2. CASE \E r \in Run : \/ StartRun(x, r) \/ FinishRun(x, r)
                            \/ StartRunUnacknowledged(x, r)
    BY <2>2
       DEF StartRun, FinishRun, StartRunUnacknowledged, local, NothingToRefuse
  <2>3. CASE \E p \in Poll, d \in Payload : Begin(x, p, d)
    BY <2>3 DEF Begin, NothingToRefuse
  <2> QED BY <1>4, <2>1, <2>2, <2>3 DEF CallerStep
<1> QED BY <1>1, <1>2, <1>3, <1>4 DEF Next

(* initialize() never finds a poll it has to refuse with STORAGE_CORRUPT:  *)
(* no order of crashes, failures and retries of any number of processes    *)
(* produces one of the inconsistencies it checks for.                      *)
THEOREM NothingRefused == Spec => []NothingToRefuse
<1>1. Init => NothingToRefuse
  BY DEF Init, NothingToRefuse
<1>2. StoreInv /\ NothingToRefuse /\ [Next]_vars => NothingToRefuse'
  BY NoRefusalStep
<1> QED BY <1>1, <1>2, Invariance, PTL DEF Spec

-----------------------------------------------------------------------------
(* PollStore implements PollLog                                            *)

(* Since nothing is torn, a reader sees the receipts.                      *)
LEMMA ReadersSeeReceipts ==
    StoreInv => ReaderView = receipt
<1> SUFFICES ASSUME StoreInv PROVE ReaderView = receipt
  OBVIOUS
<1>1. ASSUME NEW p \in Poll PROVE ReaderView[p] = receipt[p]
  BY <1>1 DEF StoreInv, ReaderView, PublishedWhole
<1>2. receipt = [p \in Poll |-> receipt[p]]
  BY DEF StoreInv, TypeOK, TypeDurable
<1> QED BY <1>1, <1>2 DEF ReaderView

(* ... and will see them after the next step, too.                         *)
LEMMA ReadersWillSeeReceipts ==
    StoreInv' => ReaderView' = receipt'
<1> SUFFICES ASSUME StoreInv' PROVE ReaderView' = receipt'
  OBVIOUS
<1>1. ASSUME NEW p \in Poll PROVE ReaderView'[p] = receipt'[p]
  BY <1>1 DEF StoreInv, ReaderView, PublishedWhole
<1>2. receipt' = [p \in Poll |-> receipt'[p]]
  BY DEF StoreInv, TypeOK, TypeDurable
<1> QED BY <1>1, <1>2 DEF ReaderView

(* A step that changes neither a run's status nor a receipt is none of the *)
(* abstract log's.                                                         *)
LEMMA Unseen ==
    ASSUME StoreInv, StoreInv', UNCHANGED <<runStatus, receipt>>
    PROVE  UNCHANGED Log!vars
<1>1. ReaderView = receipt
  BY ReadersSeeReceipts
<1>2. ReaderView' = receipt'
  BY ReadersWillSeeReceipts
<1> QED BY <1>1, <1>2 DEF Log!vars

(* Every step is a step of the abstract log or is not seen there.          *)
LEMMA LogStep ==
    ASSUME StoreInv, StoreInv', [Next]_vars PROVE [Log!Next]_(Log!vars)
<1>a. ReaderView' = receipt'
  BY ReadersWillSeeReceipts
<1>0. /\ ReaderView = receipt /\ ReaderView' = receipt'
      /\ runStatus \in [Run -> RunStatus]
      /\ receipt \in [Poll -> Payload \cup {NoPayload}]
      /\ job \in [Proc -> Poll] /\ body \in [Proc -> Payload]
  BY <1>a, ReadersSeeReceipts DEF StoreInv, TypeOK, TypeDurable, TypeLocal
<1>1. CASE UNCHANGED vars
  BY <1>1, Unseen DEF vars, durable
<1>2. ASSUME NEW x \in Proc, RecordStep(x) PROVE [Log!Next]_(Log!vars)
  <2>1. CASE CommitApplied(x)
    <3>1. /\ runStatus[RunOf[job[x]]] = "RUNNING"
          /\ ReaderView[job[x]] = NoPayload
          /\ ReaderView' = [ReaderView EXCEPT ![job[x]] = body[x]]
          /\ UNCHANGED runStatus
      BY <1>0, <2>1 DEF CommitApplied
    <3>2. Log!Record(job[x], body[x])
      BY <3>1 DEF Log!Record
    <3> QED BY <1>0, <3>2 DEF Log!Next
  <2>2. CASE ~ CommitApplied(x)
    <3>1. UNCHANGED <<runStatus, receipt>>
      BY <1>2, <2>2
         DEF RecordStep, LookForManifest, LoadManifest, TidyOldStaging,
             DropOldManifest, LookForReceipt, WriteManifest, StageRaw,
             InstallRaw, MarkInstalled, CommitRefused, ProbeReceipt,
             ProbeFails, MarkCommitted, TidyStaging, ReleaseOperation,
             UnlinkManifest, FailBeforeManifest, BusyAgain, TryAgain,
             FailAfterManifest, UndoRaw,
             UndoStaging, UndoManifest, UndoFails, Local, durable, Reconcile
    <3> QED BY <3>1, Unseen
  <2> QED BY <2>1, <2>2
<1>3. ASSUME NEW x \in Proc, StartupStep(x) PROVE [Log!Next]_(Log!vars)
  <2>1. CASE InterruptAbandoned(x)
    <3> DEFINE rs == {r \in Run : runLease[r] = x /\ runStatus[r] = "RUNNING"}
    <3>1. /\ runStatus' = [r \in Run |-> IF r \in rs THEN "INTERRUPTED"
                                                    ELSE runStatus[r]]
          /\ UNCHANGED ReaderView
      BY <1>0, <2>1 DEF InterruptAbandoned
    <3>2. Log!EndRuns(rs, "INTERRUPTED")
      BY <3>1 DEF Log!EndRuns
    <3>3. rs \in SUBSET Run /\ "INTERRUPTED" \in Log!Ended
      BY DEF Log!Ended
    <3> QED BY <3>2, <3>3 DEF Log!Next
  <2>2. CASE ~ InterruptAbandoned(x)
    <3>1. UNCHANGED <<runStatus, receipt>>
      BY <1>3, <2>2
         DEF StartupStep, EnterRecovery, VisitManifest, LeaseManifest,
             ReconcileManifest, TidyRecovered, ReleaseRecovered,
             UnlinkRecovered, LeaveRecovery, SelectRunning, TryRunLease,
             Local, durable, Reconcile
    <3> QED BY <3>1, Unseen
  <2> QED BY <2>1, <2>2
<1>4. ASSUME NEW x \in Proc, CallerStep(x) PROVE [Log!Next]_(Log!vars)
  <2>1. ASSUME NEW r \in Run,
               StartRun(x, r) \/ StartRunUnacknowledged(x, r)
        PROVE  [Log!Next]_(Log!vars)
    <3>1. Log!StartRun(r)
      BY <1>0, <2>1 DEF StartRun, StartRunUnacknowledged, Log!StartRun
    <3> QED BY <3>1 DEF Log!Next
  <2>2. ASSUME NEW r \in Run, FinishRun(x, r) PROVE [Log!Next]_(Log!vars)
    <3>1. /\ runStatus' = [runStatus EXCEPT ![r] = "FINISHED"]
          /\ UNCHANGED receipt /\ runStatus[r] \in {"RUNNING", "FINISHED"}
      BY <2>2 DEF FinishRun
    <3>2. CASE runStatus[r] = "FINISHED"
      <4>1. UNCHANGED <<runStatus, receipt>>
        BY <1>0, <3>1, <3>2
      <4> QED BY <4>1, Unseen
    <3>3. CASE runStatus[r] = "RUNNING"
      <4>1. Log!EndRuns({r}, "FINISHED")
        BY <1>0, <3>1, <3>3 DEF Log!EndRuns
      <4>2. {r} \in SUBSET Run /\ "FINISHED" \in Log!Ended
        BY DEF Log!Ended
      <4> QED BY <4>1, <4>2 DEF Log!Next
    <3> QED BY <3>1, <3>2, <3>3
  <2>3. CASE \/ Launch(x) \/ Close(x) \/ Crash(x)
             \/ \E p \in Poll, d \in Payload : Begin(x, p, d)
    <3>1. UNCHANGED <<runStatus, receipt>>
      BY <2>3 DEF Launch, Close, Crash, Begin, durable
    <3> QED BY <3>1, Unseen
  <2> QED BY <1>4, <2>1, <2>2, <2>3 DEF CallerStep
<1> QED BY <1>1, <1>2, <1>3, <1>4 DEF Next

(* The files, manifests, leases, retries and recoveries of the store add   *)
(* up to the log its callers are promised: a poll enters it at most once,  *)
(* in one step, whole, and only while its run is RUNNING.                  *)
THEOREM Refinement == Spec => LogSpec
<1>1. Init => Log!Init
  <2> SUFFICES ASSUME Init PROVE Log!Init
    OBVIOUS
  <2>1. ReaderView = receipt
    BY StoreInit, ReadersSeeReceipts
  <2> QED BY <2>1 DEF Init, Log!Init
<1>2. StoreInv /\ StoreInv' /\ [Next]_vars => [Log!Next]_(Log!vars)
  BY LogStep
<1> QED BY <1>1, <1>2, Invariance, PTL DEF Spec, LogSpec, Log!Spec

-----------------------------------------------------------------------------
(* What callers are told                                                   *)

(* Who has opened a run in this life of its process, or has recorded a     *)
(* poll of it.                                                             *)
Begun(x, r) ==
    \/ r \in owned[x]
    \/ pc[x] \in RecordPC \cup RollbackPC /\ RunOf[job[x]] = r
    \/ \E p \in Poll : RunOf[p] = r /\ told[x][p] # "unasked"

BegunOnce ==
    /\ \A x, y \in Proc, r \in Run : Begun(x, r) /\ Begun(y, r) => x = y
    /\ \A x \in Proc, r \in Run : Begun(x, r) => runStatus[r] # "absent"
    /\ \A p \in Poll : receipt[p] # NoPayload => runStatus[RunOf[p]] # "absent"

(* A process that has opened the run knows of the receipts of its polls.   *)
Settled == {"committed", "recovery_pending", "indeterminate"}
Past == {"commit", "probe", "markdb", "tidy", "release", "unlink"}

ReceiptsKnown(x) ==
    \A p \in Poll :
        receipt[p] # NoPayload /\ Begun(x, RunOf[p]) =>
            told[x][p] \in Settled \/ (job[x] = p /\ pc[x] \in Past)

Recorded(x) ==
    /\ pc[x] = "unlink" => receipt[job[x]] # NoPayload
    /\ \A p \in Poll : told[x][p] \in {"committed", "recovery_pending"} =>
            receipt[p] # NoPayload

(* A run that is owned and not ended is under the lease of its owner.      *)
OwnersLease(x) ==
    \A r \in owned[x] :
        /\ proc[x] = "up" /\ runStatus[r] # "absent"
        /\ runStatus[r] = "RUNNING" => runLease[r] = x

ReportInv ==
    /\ StoreInv /\ BegunOnce
    /\ \A x \in Proc : ReceiptsKnown(x) /\ Recorded(x) /\ OwnersLease(x)

(* What a process tells of itself and of the runs it leaves to others.     *)
Apart(x) ==
    \A y \in Proc \ {x} :
        /\ proc'[y] = proc[y] /\ owned'[y] = owned[y] /\ pc'[y] = pc[y]
        /\ job'[y] = job[y] /\ told'[y] = told[y]

(* A receipt is written by the call that works on the poll, and for good.  *)
Writes(x) ==
    /\ \A r \in Run : runStatus[r] # "absent" => runStatus'[r] # "absent"
    /\ \A p \in Poll :
          \/ receipt'[p] = receipt[p]
          \/ /\ receipt[p] = NoPayload /\ runStatus[RunOf[p]] = "RUNNING"
             /\ job[x] = p /\ pc[x] = "commit"
             /\ job'[x] = p /\ pc'[x] \in {"commit", "markdb", "probe"}

(* The other processes stay as they are.                                   *)
LEMMA Apartness ==
    ASSUME NEW x \in Proc, TypeOK, RecordStep(x) \/ StartupStep(x) \/
           CallerStep(x)
    PROVE  Apart(x)
  <1>a. /\ pc \in [Proc -> PC] /\ job \in [Proc -> Poll]
        /\ proc \in [Proc -> ProcPhase] /\ owned \in [Proc -> SUBSET Run]
        /\ told \in [Proc -> [Poll -> Told]]
    BY DEF TypeOK, TypeLocal
  <1>1. CASE LookForManifest(x) \/ TidyOldStaging(x) \/ DropOldManifest(x) \/
           StageRaw(x) \/ InstallRaw(x) \/ MarkInstalled(x) \/
           CommitRefused(x) \/ ProbeReceipt(x) \/ BusyAgain(x) \/
           FailAfterManifest(x) \/ UndoRaw(x) \/ UndoStaging(x)
    BY <1>1, <1>a
       DEF LookForManifest, Goto, Local, durable, TidyOldStaging,
           DropOldManifest, StageRaw, InstallRaw, MarkInstalled,
           CommitRefused, ProbeReceipt, BusyAgain, TryAgain,
           FailAfterManifest, UndoRaw,
           UndoStaging, Apart
  <1>2. CASE LoadManifest(x) \/ LookForReceipt(x) \/ WriteManifest(x) \/
           FailBeforeManifest(x) \/ UndoManifest(x) \/ UndoFails(x)
    BY <1>2, <1>a
       DEF LoadManifest, Goto, durable, Fail, Local, FreeOp, Tell,
           LookForReceipt, WriteManifest, FailBeforeManifest, UndoManifest,
           UndoFails, Apart
  <1>3. CASE ProbeFails(x) \/ MarkCommitted(x) \/ TidyStaging(x) \/
           ReleaseOperation(x) \/ UnlinkManifest(x)
    BY <1>3, <1>a
       DEF ProbeFails, Goto, FreeOp, Tell, Local, durable, MarkCommitted,
           TidyStaging, ReleaseOperation, UnlinkManifest, Apart
  <1>4. CASE EnterRecovery(x) \/ (\E p \in Poll : VisitManifest(x, p)) \/
           LeaseManifest(x) \/ TidyRecovered(x) \/ ReleaseRecovered(x) \/
           UnlinkRecovered(x) \/ LeaveRecovery(x) \/ SelectRunning(x) \/ (\E r
           \in Run : TryRunLease(x, r))
    BY <1>4, <1>a
       DEF EnterRecovery, durable, VisitManifest, Goto, leases, LeaseManifest,
           Local, TidyRecovered, ReleaseRecovered, FreeOp, UnlinkRecovered,
           LeaveRecovery, SelectRunning, TryRunLease, Apart
  <1>5. CASE Close(x) \/ Crash(x) \/ ReconcileManifest(x)
    BY <1>5, <1>a
       DEF Close, DropProcess, durable, Crash, ReconcileManifest, Goto, Local,
           FreeOp, Apart
  <1>6. CASE Launch(x) \/ (\E r \in Run : StartRun(x, r)) \/ (\E r \in Run :
           StartRunUnacknowledged(x, r)) \/ (\E r \in Run : FinishRun(x, r))
           \/ (\E p \in Poll, d \in Payload : Begin(x, p, d))
    BY <1>6, <1>a
       DEF Launch, durable, leases, StartRun, StartRunUnacknowledged, local,
           FinishRun, Begin, Goto, Tell, Apart
  <1>7. CASE CommitApplied(x)
    BY <1>7, <1>a
       DEF CommitApplied, TryAgain, Goto, Local, Apart
  <1>8. CASE InterruptAbandoned(x)
    BY <1>8, <1>a
       DEF InterruptAbandoned, Apart
  <1> QED BY <1>1, <1>2, <1>3, <1>4, <1>5, <1>6, <1>7, <1>8
           DEF RecordStep, StartupStep, CallerStep

(* Rows are added, and never taken back.                                   *)
LEMMA Writing ==
    ASSUME NEW x \in Proc, TypeOK, RecordStep(x) \/ StartupStep(x) \/
           CallerStep(x)
    PROVE  Writes(x)
  <1>a. /\ pc \in [Proc -> PC] /\ job \in [Proc -> Poll]
        /\ runStatus \in [Run -> RunStatus]
        /\ receipt \in [Poll -> Payload \cup {NoPayload}]
    BY DEF TypeOK, TypeLocal, TypeDurable
  <1>1. CASE LookForManifest(x) \/ TidyOldStaging(x) \/ DropOldManifest(x) \/
           StageRaw(x) \/ InstallRaw(x) \/ MarkInstalled(x) \/
           CommitRefused(x) \/ ProbeReceipt(x) \/ BusyAgain(x) \/
           FailAfterManifest(x) \/ UndoRaw(x) \/ UndoStaging(x)
    BY <1>1, <1>a
       DEF LookForManifest, Goto, Local, durable, TidyOldStaging,
           DropOldManifest, StageRaw, InstallRaw, MarkInstalled,
           CommitRefused, ProbeReceipt, BusyAgain, TryAgain,
           FailAfterManifest, UndoRaw,
           UndoStaging, Writes
  <1>2. CASE LoadManifest(x) \/ LookForReceipt(x) \/ WriteManifest(x) \/
           FailBeforeManifest(x) \/ UndoManifest(x) \/ UndoFails(x)
    BY <1>2, <1>a
       DEF LoadManifest, Goto, durable, Fail, Reconcile, Local,
           LookForReceipt, WriteManifest, FailBeforeManifest, UndoManifest,
           UndoFails, Writes
  <1>3. CASE ProbeFails(x) \/ MarkCommitted(x) \/ TidyStaging(x) \/
           ReleaseOperation(x) \/ UnlinkManifest(x)
    BY <1>3, <1>a
       DEF ProbeFails, Goto, Local, durable, MarkCommitted, TidyStaging,
           ReleaseOperation, UnlinkManifest, Writes
  <1>4. CASE EnterRecovery(x) \/ (\E p \in Poll : VisitManifest(x, p)) \/
           LeaseManifest(x) \/ TidyRecovered(x) \/ ReleaseRecovered(x) \/
           UnlinkRecovered(x) \/ LeaveRecovery(x) \/ SelectRunning(x) \/ (\E r
           \in Run : TryRunLease(x, r))
    BY <1>4, <1>a
       DEF EnterRecovery, durable, VisitManifest, Goto, leases, LeaseManifest,
           Local, TidyRecovered, ReleaseRecovered, UnlinkRecovered,
           LeaveRecovery, SelectRunning, TryRunLease, Writes
  <1>5. CASE Close(x) \/ Crash(x) \/ ReconcileManifest(x)
    BY <1>5, <1>a
       DEF Close, durable, Crash, ReconcileManifest, Reconcile, Goto, Local,
           Writes
  <1>6. CASE Launch(x) \/ (\E p \in Poll, d \in Payload : Begin(x, p, d))
    BY <1>6, <1>a
       DEF Launch, durable, leases, Begin, Goto, Writes
  <1>7. CASE CommitApplied(x)
    BY <1>7, <1>a
       DEF CommitApplied, TryAgain, Goto, Local, Writes
  <1>8. CASE InterruptAbandoned(x)
    BY <1>8, <1>a
       DEF InterruptAbandoned, Writes
  <1>9. CASE \E r \in Run : StartRun(x, r)
    BY <1>9, <1>a
       DEF StartRun, Writes
  <1>10. CASE \E r \in Run : StartRunUnacknowledged(x, r)
    BY <1>10, <1>a
       DEF StartRunUnacknowledged, leases, local, Writes
  <1>11. CASE \E r \in Run : FinishRun(x, r)
    BY <1>11, <1>a
       DEF FinishRun, Writes
  <1> QED BY <1>1, <1>2, <1>3, <1>4, <1>5, <1>6, <1>7, <1>8, <1>9, <1>10,
             <1>11
           DEF RecordStep, StartupStep, CallerStep

(* A process begins with a run only when it starts it.                     *)
Begins(x) ==
    \A r \in Run : Begun(x, r)' =>
        \/ Begun(x, r)
        \/ runStatus[r] = "absent" /\ runStatus'[r] # "absent"

(* A process that ends forgets.                                            *)
Dropped(x) ==
    /\ owned'[x] = {} /\ pc'[x] = "idle"
    /\ \A p \in Poll : told'[x][p] = "unasked"

(* What a call reports rests on the receipt.                               *)
Reports(x) ==
    \/ Dropped(x)
    \/ /\ \A p \in Poll :
             /\ told[x][p] \in Settled => told'[x][p] \in Settled
             /\ job[x] = p /\ pc[x] \in Past /\ receipt[p] # NoPayload =>
                   told'[x][p] \in Settled \/ (job'[x] = p /\ pc'[x] \in Past)
             /\ told'[x][p] \in {"committed", "recovery_pending"} =>
                   told[x][p] = told'[x][p] \/ receipt[p] # NoPayload
       /\ pc'[x] = "unlink" => receipt[job'[x]] # NoPayload

(* A process that ends has opened nothing and heard of nothing.            *)
LEMMA Dropping ==
    ASSUME TypeOK, NEW x \in Proc, NEW phase, DropProcess(x, phase)
    PROVE  Dropped(x)
  <1>1. /\ owned' = [owned EXCEPT ![x] = {}] /\ pc' = [pc EXCEPT ![x] = "idle"]
        /\ told' = [told EXCEPT ![x] = [p \in Poll |-> "unasked"]]
    BY DEF DropProcess
  <1>2. /\ owned \in [Proc -> SUBSET Run] /\ pc \in [Proc -> PC]
        /\ told \in [Proc -> [Poll -> Told]]
    BY DEF TypeOK, TypeLocal
  <1>3. told'[x] = [p \in Poll |-> "unasked"]
    BY <1>1, <1>2
  <1> QED BY <1>1, <1>2, <1>3 DEF Dropped

(* A call is of a run that its process owned when it began.                *)
LEMMA Beginning ==
    ASSUME NEW x \in Proc, TypeOK, RecordStep(x) \/ StartupStep(x) \/
           CallerStep(x)
    PROVE  Begins(x)
  <1>a. /\ pc \in [Proc -> PC] /\ job \in [Proc -> Poll]
        /\ owned \in [Proc -> SUBSET Run]
        /\ told \in [Proc -> [Poll -> Told]]
    BY DEF TypeOK, TypeLocal
  <1>1. CASE LookForManifest(x) \/ TidyOldStaging(x) \/ DropOldManifest(x) \/
           StageRaw(x) \/ InstallRaw(x) \/ MarkInstalled(x) \/
           CommitRefused(x) \/ ProbeReceipt(x) \/ BusyAgain(x) \/
           FailAfterManifest(x) \/ UndoRaw(x) \/ UndoStaging(x)
    BY <1>1, <1>a
       DEF LookForManifest, Goto, Local, TidyOldStaging, DropOldManifest,
           StageRaw, InstallRaw, MarkInstalled, CommitRefused, ProbeReceipt,
           BusyAgain, TryAgain, FailAfterManifest, UndoRaw, UndoStaging,
           Begins, Begun, RecordPC,
           RollbackPC
  <1>2. CASE LoadManifest(x) \/ LookForReceipt(x) \/ WriteManifest(x) \/
           FailBeforeManifest(x) \/ UndoManifest(x) \/ UndoFails(x)
    BY <1>2, <1>a
       DEF LoadManifest, Goto, Fail, Local, FreeOp, Tell, LookForReceipt,
           WriteManifest, FailBeforeManifest, UndoManifest, UndoFails, Begins,
           Begun, RecordPC, RollbackPC
  <1>3. CASE ProbeFails(x) \/ MarkCommitted(x) \/ TidyStaging(x) \/
           ReleaseOperation(x) \/ UnlinkManifest(x)
    BY <1>3, <1>a
       DEF ProbeFails, Goto, FreeOp, Tell, Local, MarkCommitted, TidyStaging,
           ReleaseOperation, UnlinkManifest, Begins, Begun, RecordPC,
           RollbackPC
  <1>4. CASE EnterRecovery(x) \/ (\E p \in Poll : VisitManifest(x, p)) \/
           LeaseManifest(x) \/ TidyRecovered(x) \/ ReleaseRecovered(x) \/
           UnlinkRecovered(x) \/ LeaveRecovery(x) \/ SelectRunning(x) \/ (\E r
           \in Run : TryRunLease(x, r))
    BY <1>4, <1>a
       DEF EnterRecovery, VisitManifest, Goto, leases, LeaseManifest, Local,
           TidyRecovered, ReleaseRecovered, FreeOp, UnlinkRecovered,
           LeaveRecovery, SelectRunning, TryRunLease, Begins, Begun, RecordPC,
           RollbackPC
  <1>5. CASE Close(x) \/ Crash(x)
    BY <1>5, <1>a
       DEF Close, DropProcess, Crash, Begins, Begun, RecordPC, RollbackPC
  <1>6. CASE \E r \in Run : StartRun(x, r)
    <2>1. PICK r \in Run : StartRun(x, r)
      BY <1>6
    <2>2. /\ runStatus[r] = "absent" /\ runStatus'[r] # "absent"
          /\ owned'[x] = owned[x] \cup {r} /\ UNCHANGED <<pc, job, told>>
      BY <1>a, <2>1 DEF StartRun, TypeOK, TypeDurable
    <2> QED BY <2>2 DEF Begins, Begun
  <1>7. CASE CommitApplied(x)
    BY <1>7, <1>a
       DEF CommitApplied, TryAgain, Goto, Local, Begins, Begun, RecordPC,
           RollbackPC
  <1>8. CASE ReconcileManifest(x)
    BY <1>8, <1>a
       DEF ReconcileManifest, Goto, Local, DropProcess, FreeOp, Begins, Begun,
           RecordPC, RollbackPC
  <1>9. CASE InterruptAbandoned(x)
    BY <1>9, <1>a
       DEF InterruptAbandoned, Begins, Begun, RecordPC, RollbackPC
  <1>10. CASE Launch(x)
    BY <1>10, <1>a
       DEF Launch, leases, Begins, Begun, RecordPC, RollbackPC
  <1>11. CASE \E r \in Run : StartRunUnacknowledged(x, r)
    BY <1>11, <1>a
       DEF StartRunUnacknowledged, leases, local, Begins, Begun, RecordPC,
           RollbackPC
  <1>12. CASE \E r \in Run : FinishRun(x, r)
    BY <1>12, <1>a
       DEF FinishRun, Begins, Begun, RecordPC, RollbackPC
  <1>13. CASE \E p \in Poll, d \in Payload : Begin(x, p, d)
    BY <1>13, <1>a
       DEF Begin, Goto, Tell, Begins, Begun, RecordPC, RollbackPC
  <1> QED BY <1>1, <1>2, <1>3, <1>4, <1>5, <1>6, <1>7, <1>8, <1>9, <1>10,
             <1>11, <1>12, <1>13
           DEF RecordStep, StartupStep, CallerStep

(* ... and reports what it has found.                                      *)
LEMMA Reporting ==
    ASSUME NEW x \in Proc, TypeOK, OnCourse(x), Recorded(x), RecordStep(x) \/
           StartupStep(x) \/ CallerStep(x)
    PROVE  Reports(x)
  <1>a. /\ pc \in [Proc -> PC] /\ job \in [Proc -> Poll]
        /\ told \in [Proc -> [Poll -> Told]]
        /\ receipt \in [Poll -> Payload \cup {NoPayload}]
        /\ body \in [Proc -> Payload]
    BY DEF TypeOK, TypeLocal, TypeDurable
  <1>b. /\ pc[x] \in {"markdb", "tidy", "release"} => receipt[job[x]] = body[x]
        /\ pc[x] = "probe" => receipt[job[x]] \in {NoPayload, body[x]}
        /\ body[x] # NoPayload
    BY <1>a, PollStoreAssumption DEF OnCourse, PollStoreAssumption
  <1>1. CASE LookForManifest(x) \/ TidyOldStaging(x) \/ DropOldManifest(x) \/
           StageRaw(x) \/ InstallRaw(x) \/ MarkInstalled(x) \/
           CommitRefused(x) \/ ProbeReceipt(x) \/ BusyAgain(x) \/
           FailAfterManifest(x) \/ UndoRaw(x) \/ UndoStaging(x)
    BY <1>1, <1>a, <1>b
       DEF LookForManifest, Goto, Local, TidyOldStaging, DropOldManifest,
           StageRaw, InstallRaw, MarkInstalled, CommitRefused, ProbeReceipt,
           BusyAgain, TryAgain, FailAfterManifest, UndoRaw, UndoStaging,
           Reports, Settled, Past,
           Recorded, Dropped, RecordPC, RollbackPC, StartupPC
  <1>2. CASE LoadManifest(x) \/ LookForReceipt(x) \/ WriteManifest(x) \/
           FailBeforeManifest(x) \/ UndoManifest(x) \/ UndoFails(x)
    BY <1>2, <1>a, <1>b
       DEF LoadManifest, Goto, Fail, Local, Tell, LookForReceipt,
           WriteManifest, FailBeforeManifest, UndoManifest, UndoFails,
           Reports, Settled, Past, Recorded, Dropped, RecordPC, RollbackPC,
           StartupPC
  <1>3. CASE ProbeFails(x) \/ MarkCommitted(x) \/ TidyStaging(x) \/
           ReleaseOperation(x) \/ UnlinkManifest(x)
    BY <1>3, <1>a, <1>b
       DEF ProbeFails, Goto, Tell, Local, MarkCommitted, TidyStaging,
           ReleaseOperation, UnlinkManifest, Reports, Settled, Past, Recorded,
           Dropped, RecordPC, RollbackPC, StartupPC
  <1>4. CASE EnterRecovery(x) \/ (\E p \in Poll : VisitManifest(x, p)) \/
           LeaseManifest(x) \/ TidyRecovered(x) \/ ReleaseRecovered(x) \/
           UnlinkRecovered(x) \/ LeaveRecovery(x) \/ SelectRunning(x) \/ (\E r
           \in Run : TryRunLease(x, r))
    BY <1>4, <1>a, <1>b
       DEF EnterRecovery, VisitManifest, Goto, leases, LeaseManifest, Local,
           TidyRecovered, ReleaseRecovered, UnlinkRecovered, LeaveRecovery,
           SelectRunning, TryRunLease, Reports, Settled, Past, Recorded,
           Dropped, RecordPC, RollbackPC, StartupPC
  <1>5. CASE Close(x) \/ Crash(x)
    <2>1. Dropped(x)
      BY <1>5, Dropping DEF Close, Crash
    <2> QED BY <2>1 DEF Reports
  <1>6. CASE ReconcileManifest(x)
    <2>1. CASE Goto(x, "sTidy") /\ UNCHANGED <<told, job>>
      BY <1>a, <1>b, <1>6, <2>1
         DEF ReconcileManifest, Goto, Reports, Past
    <2>2. CASE \E phase : DropProcess(x, phase)
      BY <2>2, Dropping DEF Reports
    <2>3. CASE Goto(x, "idle") /\ UNCHANGED <<told, job>>
      BY <1>a, <1>b, <1>6, <2>3
         DEF ReconcileManifest, Goto, Reports, Past
    <2> QED BY <1>6, <2>1, <2>2, <2>3 DEF ReconcileManifest, Local
  <1>7. CASE CommitApplied(x)
    BY <1>7, <1>a, <1>b
       DEF CommitApplied, TryAgain, Goto, Local, Reports, Settled, Past,
           Recorded,
           Dropped, RecordPC, RollbackPC, StartupPC
  <1>8. CASE InterruptAbandoned(x)
    BY <1>8, <1>a, <1>b
       DEF InterruptAbandoned, Reports, Settled, Past, Recorded, Dropped,
           RecordPC, RollbackPC, StartupPC
  <1>9. CASE Launch(x)
    BY <1>9, <1>a, <1>b
       DEF Launch, leases, Reports, Settled, Past, Recorded, Dropped,
           RecordPC, RollbackPC, StartupPC
  <1>10. CASE \E r \in Run : StartRun(x, r)
    BY <1>10, <1>a, <1>b
       DEF StartRun, Reports, Settled, Past, Recorded, Dropped, RecordPC,
           RollbackPC, StartupPC
  <1>11. CASE \E r \in Run : StartRunUnacknowledged(x, r)
    BY <1>11, <1>a, <1>b
       DEF StartRunUnacknowledged, leases, local, Reports, Settled, Past,
           Recorded, Dropped, RecordPC, RollbackPC, StartupPC
  <1>12. CASE \E r \in Run : FinishRun(x, r)
    BY <1>12, <1>a, <1>b
       DEF FinishRun, Reports, Settled, Past, Recorded, Dropped, RecordPC,
           RollbackPC, StartupPC
  <1>13. CASE \E p \in Poll, d \in Payload : Begin(x, p, d)
    BY <1>13, <1>a, <1>b
       DEF Begin, Goto, Tell, Reports, Settled, Past, Recorded, Dropped,
           RecordPC, RollbackPC, StartupPC
  <1> QED BY <1>1, <1>2, <1>3, <1>4, <1>5, <1>6, <1>7, <1>8, <1>9, <1>10,
             <1>11, <1>12, <1>13
           DEF RecordStep, StartupStep, CallerStep

(* The reports of all processes stay true.                                 *)
LEMMA ReportsKept ==
    ASSUME ReportInv, NEW x \in Proc,
           RecordStep(x) \/ StartupStep(x) \/ CallerStep(x)
    PROVE  /\ BegunOnce'
           /\ \A y \in Proc : ReceiptsKnown(y)' /\ Recorded(y)'
  <1>1. /\ TypeOK /\ BegunOnce /\ OnCourse(x)
        /\ \A y \in Proc : ReceiptsKnown(y) /\ Recorded(y)
    BY DEF ReportInv, StoreInv
  <1>2. Apart(x) /\ Writes(x) /\ Begins(x) /\ Reports(x)
    BY <1>1, Apartness, Writing, Beginning, Reporting
  <1>3. RunOf \in [Poll -> Run]
    BY PollStoreAssumption DEF PollStoreAssumption
  <1>4. \A y \in Proc \ {x}, r \in Run : Begun(y, r)' => Begun(y, r)
    BY <1>2 DEF Apart, Begun
  <1>5. BegunOnce'
    <2>1. ASSUME NEW y \in Proc, NEW r \in Run, Begun(y, r)'
          PROVE  /\ runStatus'[r] # "absent"
                 /\ Begun(y, r) \/ (y = x /\ runStatus[r] = "absent")
      BY <1>1, <1>2, <1>4, <2>1 DEF BegunOnce, Begins, Writes
    <2>2. ASSUME NEW y \in Proc, NEW z \in Proc, NEW r \in Run,
                 Begun(y, r)', Begun(z, r)'
          PROVE  y = z
      BY <1>1, <2>1, <2>2 DEF BegunOnce
    <2>3. ASSUME NEW p \in Poll, receipt'[p] # NoPayload
          PROVE  runStatus'[RunOf[p]] # "absent"
      BY <1>1, <1>2, <1>3, <2>3 DEF BegunOnce, Writes
    <2> QED BY <2>1, <2>2, <2>3 DEF BegunOnce
  <1>6. \A p \in Poll : receipt[p] # NoPayload => receipt'[p] = receipt[p]
    BY <1>2 DEF Writes
  <1>7. ASSUME NEW y \in Proc \ {x}
        PROVE  ReceiptsKnown(y)' /\ Recorded(y)'
    <2>1. /\ pc'[y] = pc[y] /\ job'[y] = job[y] /\ told'[y] = told[y]
          /\ job[y] \in Poll
      BY <1>1, <1>2 DEF Apart, TypeOK, TypeLocal
    <2>2. Recorded(y)'
      BY <1>1, <1>6, <2>1 DEF Recorded
    <2>3. ReceiptsKnown(y)'
      <3> SUFFICES ASSUME NEW p \in Poll, receipt'[p] # NoPayload,
                          Begun(y, RunOf[p])'
                   PROVE  \/ told'[y][p] \in Settled
                          \/ job'[y] = p /\ pc'[y] \in Past
        BY DEF ReceiptsKnown
      <3>1. Begun(y, RunOf[p]) /\ RunOf[p] \in Run
        BY <1>3, <1>4
      <3>2. receipt'[p] = receipt[p]
        <4> SUFFICES ASSUME pc[x] = "commit", job[x] = p
                     PROVE  FALSE
          BY <1>2 DEF Writes
        <4>1. Begun(x, RunOf[p])
          BY DEF Begun, RecordPC
        <4> QED BY <1>1, <3>1, <4>1 DEF BegunOnce
      <3> QED BY <1>1, <2>1, <3>1, <3>2 DEF ReceiptsKnown
    <2> QED BY <2>2, <2>3
  <1>8. Recorded(x)'
    <2>1. CASE Dropped(x)
      BY <2>1 DEF Dropped, Recorded
    <2>2. CASE ~Dropped(x)
      <3>1. job'[x] \in Poll
        BY <1>1, TypeStep DEF TypeOK, TypeLocal, Next
      <3> QED BY <1>1, <1>2, <1>6, <2>2, <3>1 DEF Reports, Recorded
    <2> QED BY <2>1, <2>2
  <1>9. ReceiptsKnown(x)'
    <2> SUFFICES ASSUME NEW p \in Poll, receipt'[p] # NoPayload,
                        Begun(x, RunOf[p])'
                 PROVE  \/ told'[x][p] \in Settled
                        \/ job'[x] = p /\ pc'[x] \in Past
      BY DEF ReceiptsKnown
    <2>1. CASE receipt'[p] # receipt[p]
      BY <1>2, <2>1 DEF Writes, Past
    <2>2. CASE receipt'[p] = receipt[p]
      <3>1. Begun(x, RunOf[p])
        BY <1>1, <1>2, <1>3, <2>2 DEF Begins, BegunOnce
      <3>2. ~Dropped(x)
        BY <1>1, <1>2 DEF Begun, Dropped, RecordPC, RollbackPC
      <3>3. told[x][p] \in Settled \/ (job[x] = p /\ pc[x] \in Past)
        BY <1>1, <2>2, <3>1 DEF ReceiptsKnown
      <3> QED BY <1>2, <2>2, <3>2, <3>3 DEF Reports
    <2> QED BY <2>1, <2>2
  <1> QED BY <1>5, <1>7, <1>8, <1>9

-----------------------------------------------------------------------------
(* Who ends a run                                                          *)

(* Who owns a run that is not ended holds its lease.                       *)
LEMMA OwnersKeepLease ==
    ASSUME NEW x \in Proc, TypeOK, \A y \in Proc : OwnersLease(y),
           RecordStep(x) \/ StartupStep(x) \/ CallerStep(x)
    PROVE  \A y \in Proc : OwnersLease(y)'
  <1>a. /\ runStatus \in [Run -> RunStatus] /\ proc \in [Proc -> ProcPhase]
        /\ owned \in [Proc -> SUBSET Run]
        /\ runLease \in [Run -> Proc \cup {Nobody}] /\ Nobody \notin Proc
    BY PollStoreAssumption
       DEF PollStoreAssumption, TypeOK, TypeLocal, TypeLeases, TypeDurable
  <1> USE DEF OwnersLease
  <1>1. CASE LookForManifest(x) \/ LoadManifest(x) \/ TidyOldStaging(x) \/
           DropOldManifest(x) \/ LookForReceipt(x) \/ WriteManifest(x) \/
           StageRaw(x) \/ InstallRaw(x) \/ MarkInstalled(x) \/
           CommitApplied(x) \/ CommitRefused(x) \/ ProbeReceipt(x) \/
           ProbeFails(x) \/ MarkCommitted(x) \/ TidyStaging(x) \/
           ReleaseOperation(x) \/ UnlinkManifest(x) \/ FailBeforeManifest(x)
           \/ BusyAgain(x) \/ FailAfterManifest(x) \/ UndoRaw(x) \/
           UndoStaging(x) \/
           UndoManifest(x) \/ UndoFails(x)
    BY <1>1, <1>a
       DEF LookForManifest, Local, durable, LoadManifest, Fail, Reconcile,
           TidyOldStaging, DropOldManifest, LookForReceipt, WriteManifest,
           StageRaw, InstallRaw, MarkInstalled, CommitApplied, TryAgain,
           CommitRefused,
           ProbeReceipt, ProbeFails, MarkCommitted, TidyStaging,
           ReleaseOperation, UnlinkManifest, FailBeforeManifest,
           BusyAgain, TryAgain, FailAfterManifest, UndoRaw, UndoStaging,
           UndoManifest, UndoFails
  <1>2. CASE (\E p \in Poll : VisitManifest(x, p)) \/ LeaseManifest(x) \/
           TidyRecovered(x) \/ ReleaseRecovered(x) \/ UnlinkRecovered(x)
    BY <1>2, <1>a
       DEF VisitManifest, durable, leases, LeaseManifest, Local,
           TidyRecovered, ReleaseRecovered, UnlinkRecovered
  <1>3. CASE EnterRecovery(x) \/ LeaveRecovery(x) \/ SelectRunning(x) \/
           Launch(x)
    BY <1>3, <1>a
       DEF EnterRecovery, durable, LeaveRecovery, SelectRunning, leases,
           Launch
  <1>4. CASE \E p \in Poll, d \in Payload : Begin(x, p, d)
    BY <1>4, <1>a
       DEF Begin, durable
  <1>5. CASE Close(x) \/ Crash(x)
    BY <1>5, <1>a
       DEF Close, DropProcess, durable, Crash
  <1>6. CASE ReconcileManifest(x)
    BY <1>6, <1>a
       DEF ReconcileManifest, Reconcile, Local, DropProcess, durable
  <1>7. CASE \E r \in Run : TryRunLease(x, r)
    BY <1>7, <1>a
       DEF TryRunLease, durable
  <1>8. CASE InterruptAbandoned(x)
    BY <1>8, <1>a
       DEF InterruptAbandoned
  <1>9. CASE \E r \in Run : StartRun(x, r)
    BY <1>9, <1>a
       DEF StartRun
  <1>10. CASE \E r \in Run : StartRunUnacknowledged(x, r)
    BY <1>10, <1>a
       DEF StartRunUnacknowledged, leases, local
  <1>11. CASE \E r \in Run : FinishRun(x, r)
    BY <1>11, <1>a
       DEF FinishRun
  <1> QED BY <1>1, <1>2, <1>3, <1>4, <1>5, <1>6, <1>7, <1>8, <1>9, <1>10,
             <1>11
           DEF RecordStep, StartupStep, CallerStep

(* A run is interrupted when nobody owns it, and finished by its owner.    *)
LEMMA OwnersEnd ==
    ASSUME NEW x \in Proc, TypeOK, \A y \in Proc : OwnersLease(y),
           RecordStep(x) \/ StartupStep(x) \/ CallerStep(x)
    PROVE  \A r \in Run :
             /\ runStatus[r] # runStatus'[r] /\ runStatus'[r] = "INTERRUPTED"
                    => \A y \in Proc : r \notin owned[y]
             /\ runStatus[r] # runStatus'[r] /\ runStatus'[r] = "FINISHED"
                    => runLease[r] \in Proc /\ r \in owned[runLease[r]]
  <1>a. /\ runStatus \in [Run -> RunStatus] /\ proc \in [Proc -> ProcPhase]
        /\ owned \in [Proc -> SUBSET Run]
        /\ runLease \in [Run -> Proc \cup {Nobody}] /\ Nobody \notin Proc
    BY PollStoreAssumption
       DEF PollStoreAssumption, TypeOK, TypeLocal, TypeLeases, TypeDurable
  <1> USE DEF OwnersLease
  <1>1. CASE LookForManifest(x) \/ LoadManifest(x) \/ TidyOldStaging(x) \/
           DropOldManifest(x) \/ LookForReceipt(x) \/ WriteManifest(x) \/
           StageRaw(x) \/ InstallRaw(x) \/ MarkInstalled(x) \/
           CommitApplied(x) \/ CommitRefused(x) \/ ProbeReceipt(x) \/
           ProbeFails(x) \/ MarkCommitted(x) \/ TidyStaging(x) \/
           ReleaseOperation(x) \/ UnlinkManifest(x) \/ FailBeforeManifest(x)
           \/ BusyAgain(x) \/ FailAfterManifest(x) \/ UndoRaw(x) \/
           UndoStaging(x) \/
           UndoManifest(x) \/ UndoFails(x)
    BY <1>1, <1>a
       DEF LookForManifest, Local, durable, LoadManifest, Fail, Reconcile,
           TidyOldStaging, DropOldManifest, LookForReceipt, WriteManifest,
           StageRaw, InstallRaw, MarkInstalled, CommitApplied, TryAgain,
           CommitRefused,
           ProbeReceipt, ProbeFails, MarkCommitted, TidyStaging,
           ReleaseOperation, UnlinkManifest, FailBeforeManifest,
           BusyAgain, TryAgain, FailAfterManifest, UndoRaw, UndoStaging,
           UndoManifest, UndoFails
  <1>2. CASE EnterRecovery(x) \/ (\E p \in Poll : VisitManifest(x, p)) \/
           LeaseManifest(x) \/ ReconcileManifest(x) \/ TidyRecovered(x) \/
           ReleaseRecovered(x) \/ UnlinkRecovered(x) \/ LeaveRecovery(x) \/
           SelectRunning(x) \/ (\E r \in Run : TryRunLease(x, r))
    BY <1>2, <1>a
       DEF EnterRecovery, durable, VisitManifest, leases, LeaseManifest,
           Local, ReconcileManifest, Reconcile, TidyRecovered,
           ReleaseRecovered, UnlinkRecovered, LeaveRecovery, SelectRunning,
           TryRunLease
  <1>3. CASE Launch(x) \/ (\E p \in Poll, d \in Payload : Begin(x, p, d)) \/
           Close(x) \/ Crash(x)
    BY <1>3, <1>a
       DEF Launch, durable, leases, Begin, Close, Crash
  <1>4. CASE InterruptAbandoned(x)
    BY <1>4, <1>a
       DEF InterruptAbandoned
  <1>5. CASE \E r \in Run : StartRun(x, r)
    BY <1>5, <1>a
       DEF StartRun
  <1>6. CASE \E r \in Run : StartRunUnacknowledged(x, r)
    BY <1>6, <1>a
       DEF StartRunUnacknowledged, leases, local
  <1>7. CASE \E r \in Run : FinishRun(x, r)
    BY <1>7, <1>a
       DEF FinishRun
  <1> QED BY <1>1, <1>2, <1>3, <1>4, <1>5, <1>6, <1>7
           DEF RecordStep, StartupStep, CallerStep

(* Before anything has started, nobody has been told anything.             *)
LEMMA ReportStart == Init => ReportInv
  <1> SUFFICES ASSUME Init PROVE ReportInv
    OBVIOUS
  <1>1. /\ owned = [x \in Proc |-> {}] /\ pc = [x \in Proc |-> "idle"]
        /\ told = [x \in Proc |-> [p \in Poll |-> "unasked"]]
        /\ receipt = [p \in Poll |-> NoPayload]
    BY DEF Init
  <1>2. ASSUME NEW x \in Proc
        PROVE  /\ owned[x] = {} /\ pc[x] = "idle"
               /\ \A p \in Poll : told[x][p] = "unasked"
    BY <1>1
  <1>3. \A x \in Proc, r \in Run : ~Begun(x, r)
    BY <1>2 DEF Begun, RecordPC, RollbackPC
  <1>4. BegunOnce
    BY <1>1, <1>3 DEF BegunOnce
  <1>5. \A x \in Proc : ReceiptsKnown(x) /\ Recorded(x) /\ OwnersLease(x)
    BY <1>1, <1>2 DEF ReceiptsKnown, Recorded, OwnersLease
  <1> QED BY <1>4, <1>5, StoreInit DEF ReportInv

(* No step makes a report of anybody untrue.                               *)
LEMMA ReportStep == ReportInv /\ [Next]_vars => ReportInv'
  <1> SUFFICES ASSUME ReportInv, [Next]_vars
               PROVE  ReportInv'
    OBVIOUS
  <1>1. StoreInv'
    BY StoreStep DEF ReportInv
  <1>2. CASE UNCHANGED vars
    <2>1. /\ UNCHANGED <<owned, pc, job, told, receipt, runStatus>>
          /\ UNCHANGED <<proc, runLease>>
      BY <1>2 DEF vars, durable, leases, local
    <2>2. BegunOnce' /\ \A y \in Proc : ReceiptsKnown(y)' /\ Recorded(y)'
      BY <2>1 DEF ReportInv, BegunOnce, Begun, ReceiptsKnown, Recorded
    <2>3. \A y \in Proc : OwnersLease(y)'
      BY <2>1 DEF ReportInv, OwnersLease
    <2> QED BY <1>1, <2>2, <2>3 DEF ReportInv
  <1>3. ASSUME NEW x \in Proc,
               RecordStep(x) \/ StartupStep(x) \/ CallerStep(x)
        PROVE  ReportInv'
    <2>1. BegunOnce' /\ \A y \in Proc : ReceiptsKnown(y)' /\ Recorded(y)'
      BY <1>3, ReportsKept
    <2>2. TypeOK /\ \A y \in Proc : OwnersLease(y)
      BY DEF ReportInv, StoreInv
    <2>3. \A y \in Proc : OwnersLease(y)'
      BY <1>3, <2>2, OwnersKeepLease
    <2> QED BY <1>1, <2>1, <2>3 DEF ReportInv
  <1> QED BY <1>2, <1>3 DEF Next

(* The inductive invariant of what callers are told.                       *)
THEOREM ReportInvariance == Spec => []ReportInv
  <1> QED BY ReportStart, ReportStep, PTL DEF Spec

(* COMMITTED is true for good, with or without RECOVERY_PENDING, and so is *)
(* a plain failure, while no other call for the poll is under way: what    *)
(* RuntimeExecutor relies on when it applies a poll or gives it up.        *)
THEOREM ReportsStayTrue == Spec => []ReportsAreTrue
  <1>1. ReportInv => ReportsAreTrue
    <2> SUFFICES ASSUME ReportInv, NEW x \in Proc, NEW p \in Poll
                 PROVE  /\ told[x][p] \in {"committed", "recovery_pending"}
                               => receipt[p] # NoPayload
                        /\ /\ told[x][p] = "failed"
                           /\ ~ (pc[x] # "idle" /\ job[x] = p)
                           => receipt[p] = NoPayload
      BY DEF ReportsAreTrue
    <2>1. ReceiptsKnown(x) /\ Recorded(x)
      BY DEF ReportInv
    <2>2. told[x][p] = "failed" => Begun(x, RunOf[p])
      BY DEF Begun
    <2> QED BY <2>1, <2>2 DEF ReceiptsKnown, Recorded, Settled, Past
  <1> QED BY <1>1, ReportInvariance, PTL

(* No process interrupts a run another one has open, and nobody else ends  *)
(* it (finish_run, _interrupt_abandoned_runs).                             *)
THEOREM RunsEndWithOwners == Spec => OnlyAbandonedInterrupted
  <1>1. ReportInv /\ [Next]_vars =>
           [\A r \in Run :
             /\ runStatus[r] # runStatus'[r] /\ runStatus'[r] = "INTERRUPTED"
                    => \A x \in Proc : r \notin owned[x]
             /\ runStatus[r] # runStatus'[r] /\ runStatus'[r] = "FINISHED"
                    => runLease[r] \in Proc /\ r \in owned[runLease[r]]]_vars
    <2> SUFFICES ASSUME ReportInv, NEW x \in Proc,
                        RecordStep(x) \/ StartupStep(x) \/ CallerStep(x)
                 PROVE  \A r \in Run :
             /\ runStatus[r] # runStatus'[r] /\ runStatus'[r] = "INTERRUPTED"
                    => \A y \in Proc : r \notin owned[y]
             /\ runStatus[r] # runStatus'[r] /\ runStatus'[r] = "FINISHED"
                    => runLease[r] \in Proc /\ r \in owned[runLease[r]]
      BY DEF Next
    <2>1. TypeOK /\ \A y \in Proc : OwnersLease(y)
      BY DEF ReportInv, StoreInv
    <2> QED BY <2>1, OwnersEnd
  <1> QED BY <1>1, ReportInvariance, PTL DEF Spec, OnlyAbandonedInterrupted

-----------------------------------------------------------------------------
(* One process                                                             *)

(* One process: what is on disk is the published file, or is named by the  *)
(* manifest.                                                               *)
Accounted(p) ==
    /\ staged[p] \cup dest[p] \subseteq RawPayload
    /\ IF manifest[p] = NoManifest
       THEN staged[p] = {} /\ dest[p] \subseteq {receipt[p]}
       ELSE staged[p] \cup dest[p] \subseteq {manifest[p].payload}

Tidied(x) ==
    LET p == job[x] IN
    /\ pc[x] \in {"drop", "release", "unlink", "undoManifest", "sRelease",
                  "sUnlink"} => staged[p] = {}
    /\ pc[x] \in {"undoStage", "undoManifest"} => dest[p] = {}
    /\ pc[x] \in {"tidyOld", "drop", "sTidy", "sRelease", "sUnlink"} =>
            dest[p] \subseteq {receipt[p]}
    /\ pc[x] \in {"stage", "install", "mark", "commit", "probe", "undoRaw"} =>
            manifest[p] # NoManifest /\ manifest[p].payload = body[x]
    /\ pc[x] \in {"receipt", "gone", "write"} => manifest[p] = NoManifest

(* ... and start-up visits every manifest, and takes every run.            *)
Alone(x) ==
    /\ maintenance = x <=> proc[x] = "recovering"
    /\ \A p \in Poll : opLease[p] = x <=> pc[x] \in Holding /\ job[x] = p
    /\ pc[x] \in RecordPC \cup RollbackPC => proc[x] = "up"
    /\ pc[x] \in StartupPC => proc[x] = "recovering"

Visited(x) ==
    /\ proc[x] = "recovering" => \A p \in Poll : manifest[p] # NoManifest =>
            p \in todo[x] \/ (job[x] = p /\ pc[x] \in StartupPC)
    /\ proc[x] \in {"select", "interrupting"} =>
            \A p \in Poll : manifest[p] = NoManifest
    /\ proc[x] = "interrupting" => \A r \in Run : runStatus[r] = "RUNNING" =>
            r \in abandoned[x] \/ runLease[r] = x

OneInv ==
    /\ ReportInv
    /\ \A p \in Poll : Accounted(p)
    /\ \A x \in Proc : Tidied(x) /\ Alone(x) /\ Visited(x)

(* The leases are where the process is.                                    *)
LEMMA StaysAlone ==
    ASSUME NEW x \in Proc, TypeOK, Alone(x), OwnersLease(x), \A y \in Proc : y
           = x, RecordStep(x) \/ StartupStep(x) \/ CallerStep(x)
    PROVE  Alone(x)'
  <1>a. /\ pc \in [Proc -> PC] /\ job \in [Proc -> Poll]
        /\ body \in [Proc -> Payload] /\ proc \in [Proc -> ProcPhase]
        /\ opLease \in [Poll -> Proc \cup {Nobody}]
        /\ maintenance \in Proc \cup {Nobody} /\ Nobody \notin Proc
        /\ owned \in [Proc -> SUBSET Run]
    BY PollStoreAssumption
       DEF PollStoreAssumption, TypeOK, TypeLocal, TypeLeases
  <1>1. CASE Close(x) \/ Crash(x)
    BY <1>1, <1>a
       DEF Close, DropProcess, Crash, Alone, OwnersLease, Holding, RecordPC,
           RollbackPC, StartupPC
  <1>2. CASE LookForManifest(x)
    BY <1>2, <1>a
       DEF LookForManifest, Goto, Local, Alone, OwnersLease, Holding,
           RecordPC, RollbackPC, StartupPC
  <1>3. CASE LoadManifest(x)
    BY <1>3, <1>a
       DEF LoadManifest, Goto, Fail, Local, FreeOp, Alone, OwnersLease,
           Holding, RecordPC, RollbackPC, StartupPC
  <1>4. CASE TidyOldStaging(x)
    BY <1>4, <1>a
       DEF TidyOldStaging, Goto, Local, Alone, OwnersLease, Holding, RecordPC,
           RollbackPC, StartupPC
  <1>5. CASE DropOldManifest(x)
    BY <1>5, <1>a
       DEF DropOldManifest, Goto, Local, Alone, OwnersLease, Holding,
           RecordPC, RollbackPC, StartupPC
  <1>6. CASE LookForReceipt(x)
    BY <1>6, <1>a
       DEF LookForReceipt, Goto, Fail, Local, FreeOp, Alone, OwnersLease,
           Holding, RecordPC, RollbackPC, StartupPC
  <1>7. CASE WriteManifest(x)
    BY <1>7, <1>a
       DEF WriteManifest, Goto, Fail, Local, FreeOp, Alone, OwnersLease,
           Holding, RecordPC, RollbackPC, StartupPC
  <1>8. CASE StageRaw(x)
    BY <1>8, <1>a
       DEF StageRaw, Goto, Local, Alone, OwnersLease, Holding, RecordPC,
           RollbackPC, StartupPC
  <1>9. CASE InstallRaw(x)
    BY <1>9, <1>a
       DEF InstallRaw, Goto, Local, Alone, OwnersLease, Holding, RecordPC,
           RollbackPC, StartupPC
  <1>10. CASE MarkInstalled(x)
    BY <1>10, <1>a
       DEF MarkInstalled, Goto, Local, Alone, OwnersLease, Holding, RecordPC,
           RollbackPC, StartupPC
  <1>11. CASE CommitApplied(x)
    BY <1>11, <1>a
       DEF CommitApplied, TryAgain, Goto, Local, Alone, OwnersLease, Holding,
           RecordPC,
           RollbackPC, StartupPC
  <1>12. CASE CommitRefused(x)
    BY <1>12, <1>a
       DEF CommitRefused, Goto, Local, Alone, OwnersLease, Holding, RecordPC,
           RollbackPC, StartupPC
  <1>13. CASE ProbeReceipt(x)
    BY <1>13, <1>a
       DEF ProbeReceipt, Goto, Local, Alone, OwnersLease, Holding, RecordPC,
           RollbackPC, StartupPC
  <1>14. CASE ProbeFails(x)
    BY <1>14, <1>a
       DEF ProbeFails, Goto, FreeOp, Local, Alone, OwnersLease, Holding,
           RecordPC, RollbackPC, StartupPC
  <1>15. CASE MarkCommitted(x)
    BY <1>15, <1>a
       DEF MarkCommitted, Goto, FreeOp, Local, Alone, OwnersLease, Holding,
           RecordPC, RollbackPC, StartupPC
  <1>16. CASE TidyStaging(x)
    BY <1>16, <1>a
       DEF TidyStaging, Goto, FreeOp, Local, Alone, OwnersLease, Holding,
           RecordPC, RollbackPC, StartupPC
  <1>17. CASE ReleaseOperation(x)
    BY <1>17, <1>a
       DEF ReleaseOperation, FreeOp, Goto, Local, Alone, OwnersLease, Holding,
           RecordPC, RollbackPC, StartupPC
  <1>18. CASE UnlinkManifest(x)
    BY <1>18, <1>a
       DEF UnlinkManifest, Goto, Local, Alone, OwnersLease, Holding, RecordPC,
           RollbackPC, StartupPC
  <1>19. CASE FailBeforeManifest(x)
    BY <1>19, <1>a
       DEF FailBeforeManifest, Fail, Local, Goto, FreeOp, Alone, OwnersLease,
           Holding, RecordPC, RollbackPC, StartupPC
  <1>20. CASE FailAfterManifest(x)
    BY <1>20, <1>a
       DEF FailAfterManifest, Goto, Local, Alone, OwnersLease, Holding,
           RecordPC, RollbackPC, StartupPC
  <1>21. CASE UndoRaw(x)
    BY <1>21, <1>a
       DEF UndoRaw, Goto, Local, Alone, OwnersLease, Holding, RecordPC,
           RollbackPC, StartupPC
  <1>22. CASE UndoStaging(x)
    BY <1>22, <1>a
       DEF UndoStaging, Goto, Local, Alone, OwnersLease, Holding, RecordPC,
           RollbackPC, StartupPC
  <1>23. CASE UndoManifest(x)
    BY <1>23, <1>a
       DEF UndoManifest, Fail, Local, Goto, FreeOp, Alone, OwnersLease,
           Holding, RecordPC, RollbackPC, StartupPC
  <1>24. CASE UndoFails(x)
    BY <1>24, <1>a
       DEF UndoFails, Fail, Local, Goto, FreeOp, Alone, OwnersLease, Holding,
           RecordPC, RollbackPC, StartupPC
  <1>25. CASE EnterRecovery(x)
    BY <1>25, <1>a
       DEF EnterRecovery, Alone, OwnersLease, Holding, RecordPC, RollbackPC,
           StartupPC
  <1>26. CASE \E p \in Poll : VisitManifest(x, p)
    BY <1>26, <1>a
       DEF VisitManifest, Goto, leases, Alone, OwnersLease, Holding, RecordPC,
           RollbackPC, StartupPC
  <1>27. CASE LeaseManifest(x)
    BY <1>27, <1>a
       DEF LeaseManifest, Goto, Local, Alone, OwnersLease, Holding, RecordPC,
           RollbackPC, StartupPC
  <1>28. CASE ReconcileManifest(x)
    BY <1>28, <1>a
       DEF ReconcileManifest, Goto, Local, DropProcess, FreeOp, Alone,
           OwnersLease, Holding, RecordPC, RollbackPC, StartupPC
  <1>29. CASE TidyRecovered(x)
    BY <1>29, <1>a
       DEF TidyRecovered, Goto, Local, Alone, OwnersLease, Holding, RecordPC,
           RollbackPC, StartupPC
  <1>30. CASE ReleaseRecovered(x)
    BY <1>30, <1>a
       DEF ReleaseRecovered, FreeOp, Goto, Local, Alone, OwnersLease, Holding,
           RecordPC, RollbackPC, StartupPC
  <1>31. CASE UnlinkRecovered(x)
    BY <1>31, <1>a
       DEF UnlinkRecovered, Goto, Local, Alone, OwnersLease, Holding,
           RecordPC, RollbackPC, StartupPC
  <1>32. CASE LeaveRecovery(x)
    BY <1>32, <1>a
       DEF LeaveRecovery, Alone, OwnersLease, Holding, RecordPC, RollbackPC,
           StartupPC
  <1>33. CASE SelectRunning(x)
    BY <1>33, <1>a
       DEF SelectRunning, leases, Alone, OwnersLease, Holding, RecordPC,
           RollbackPC, StartupPC
  <1>34. CASE \E r \in Run : TryRunLease(x, r)
    BY <1>34, <1>a
       DEF TryRunLease, Alone, OwnersLease, Holding, RecordPC, RollbackPC,
           StartupPC
  <1>35. CASE InterruptAbandoned(x)
    BY <1>35, <1>a
       DEF InterruptAbandoned, Alone, OwnersLease, Holding, RecordPC,
           RollbackPC, StartupPC
  <1>36. CASE Launch(x)
    BY <1>36, <1>a
       DEF Launch, leases, Alone, OwnersLease, Holding, RecordPC, RollbackPC,
           StartupPC
  <1>37. CASE \E r \in Run : StartRun(x, r)
    BY <1>37, <1>a
       DEF StartRun, Alone, OwnersLease, Holding, RecordPC, RollbackPC,
           StartupPC
  <1>38. CASE \E r \in Run : StartRunUnacknowledged(x, r)
    BY <1>38, <1>a
       DEF StartRunUnacknowledged, leases, local, Alone, OwnersLease, Holding,
           RecordPC, RollbackPC, StartupPC
  <1>39. CASE \E r \in Run : FinishRun(x, r)
    BY <1>39, <1>a
       DEF FinishRun, Alone, OwnersLease, Holding, RecordPC, RollbackPC,
           StartupPC
  <1>40. CASE \E p \in Poll, d \in Payload : Begin(x, p, d)
    BY <1>40, <1>a
       DEF Begin, Goto, Alone, OwnersLease, Holding, RecordPC, RollbackPC,
           StartupPC
  <1>41. CASE BusyAgain(x)
    BY <1>41, <1>a
       DEF BusyAgain, TryAgain, Local, Alone, OwnersLease, Holding, RecordPC,
           RollbackPC, StartupPC
  <1> QED BY <1>1, <1>2, <1>3, <1>4, <1>5, <1>6, <1>7, <1>8, <1>9, <1>10,
             <1>11, <1>12, <1>13, <1>14, <1>15, <1>16, <1>17, <1>18, <1>19,
             <1>20, <1>21, <1>22, <1>23, <1>24, <1>25, <1>26, <1>27, <1>28,
             <1>29, <1>30, <1>31, <1>32, <1>33, <1>34, <1>35, <1>36, <1>37,
             <1>38, <1>39, <1>40, <1>41
           DEF RecordStep, StartupStep, CallerStep

(* What is on disk stays accounted for.                                    *)
LEMMA DiskAccounted ==
    ASSUME NEW x \in Proc, TypeOK, ManifestHonest, OnCourse(x), Recorded(x),
           Alone(x), \A p \in Poll : Accounted(p), Tidied(x), RecordStep(x) \/
           StartupStep(x) \/ CallerStep(x)
    PROVE  (\A p \in Poll : Accounted(p)') /\ Tidied(x)'
  <1>a. /\ pc \in [Proc -> PC] /\ job \in [Proc -> Poll]
        /\ body \in [Proc -> Payload]
        /\ receipt \in [Poll -> Payload \cup {NoPayload}]
        /\ dest \in [Poll -> SUBSET Payload] /\ manifest \in [Poll -> Manifest]
        /\ staged \in [Poll -> SUBSET Payload]
        /\ NoPayload \notin Payload /\ NoManifest.payload = NoPayload
        /\ \A phase, d : /\ [phase |-> phase, payload |-> d].payload = d
                          /\ d \in Payload =>
                                [phase |-> phase, payload |-> d] # NoManifest
    BY PollStoreAssumption
       DEF PollStoreAssumption, TypeOK, TypeLocal, TypeDurable, NoManifest
  <1> USE DEF Accounted, Tidied, Raw
  <1>1. CASE UnlinkManifest(x)
    BY <1>1, <1>a
       DEF UnlinkManifest, Goto, Local, OnCourse, RollbackPC, Holding,
           ManifestHonest, Recorded
  <1>2. CASE MarkCommitted(x)
    BY <1>2, <1>a
       DEF MarkCommitted, Goto, Local, OnCourse, RollbackPC, Holding,
           ManifestHonest
  <1>3. CASE Close(x) \/ Crash(x)
    BY <1>3, <1>a
       DEF Close, DropProcess, durable, Crash, OnCourse, RollbackPC, Holding
  <1>4. CASE EnterRecovery(x) \/ LeaveRecovery(x) \/ SelectRunning(x) \/ (\E r
           \in Run : TryRunLease(x, r)) \/ InterruptAbandoned(x) \/ Launch(x)
           \/ (\E r \in Run : StartRun(x, r)) \/ (\E r \in Run :
           StartRunUnacknowledged(x, r)) \/ (\E r \in Run : FinishRun(x, r))
    BY <1>4, <1>a
       DEF EnterRecovery, durable, LeaveRecovery, SelectRunning, leases,
           TryRunLease, InterruptAbandoned, Launch, StartRun,
           StartRunUnacknowledged, local, FinishRun, OnCourse, RollbackPC,
           Holding
  <1>5. CASE CommitRefused(x) \/ ProbeReceipt(x) \/ ProbeFails(x) \/
           FailBeforeManifest(x) \/ BusyAgain(x) \/ FailAfterManifest(x) \/
           UndoFails(x) \/
           ReleaseOperation(x)
    BY <1>5, <1>a
       DEF CommitRefused, Goto, Local, durable, ProbeReceipt, ProbeFails,
           FailBeforeManifest, Fail, BusyAgain, TryAgain, FailAfterManifest,
           UndoFails,
           ReleaseOperation, OnCourse, RollbackPC, Holding
  <1>6. CASE LookForManifest(x)
    BY <1>6, <1>a
       DEF LookForManifest, Goto, Local, durable, OnCourse, RollbackPC,
           Holding
  <1>7. CASE LoadManifest(x)
    BY <1>7, <1>a
       DEF LoadManifest, Goto, durable, Corrupt, Fail, Reconcile, Local,
           OnCourse, RollbackPC, Holding
  <1>8. CASE TidyOldStaging(x)
    BY <1>8, <1>a
       DEF TidyOldStaging, Goto, Local, OnCourse, RollbackPC, Holding
  <1>9. CASE DropOldManifest(x)
    BY <1>9, <1>a
       DEF DropOldManifest, Goto, Local, OnCourse, RollbackPC, Holding
  <1>10. CASE LookForReceipt(x)
    BY <1>10, <1>a
       DEF LookForReceipt, Goto, Fail, Local, durable, OnCourse, RollbackPC,
           Holding
  <1>11. CASE WriteManifest(x)
    BY <1>11, <1>a
       DEF WriteManifest, Goto, Fail, Local, OnCourse, RollbackPC, Holding
  <1>12. CASE StageRaw(x)
    BY <1>12, <1>a
       DEF StageRaw, Goto, Local, OnCourse, RollbackPC, Holding
  <1>13. CASE InstallRaw(x)
    BY <1>13, <1>a
       DEF InstallRaw, Goto, Local, OnCourse, RollbackPC, Holding
  <1>14. CASE MarkInstalled(x)
    BY <1>14, <1>a
       DEF MarkInstalled, Goto, Local, OnCourse, RollbackPC, Holding
  <1>15. CASE CommitApplied(x)
    BY <1>15, <1>a
       DEF CommitApplied, TryAgain, Goto, Local, OnCourse, RollbackPC, Holding
  <1>16. CASE TidyStaging(x)
    BY <1>16, <1>a
       DEF TidyStaging, Goto, Local, OnCourse, RollbackPC, Holding
  <1>17. CASE UndoRaw(x)
    BY <1>17, <1>a
       DEF UndoRaw, Goto, Local, OnCourse, RollbackPC, Holding
  <1>18. CASE UndoStaging(x)
    BY <1>18, <1>a
       DEF UndoStaging, Goto, Local, OnCourse, RollbackPC, Holding
  <1>19. CASE UndoManifest(x)
    BY <1>19, <1>a
       DEF UndoManifest, Fail, Local, Goto, OnCourse, RollbackPC, Holding
  <1>20. CASE \E p \in Poll : VisitManifest(x, p)
    BY <1>20, <1>a
       DEF VisitManifest, Goto, durable, leases, OnCourse, RollbackPC, Holding
  <1>21. CASE LeaseManifest(x)
    BY <1>21, <1>a
       DEF LeaseManifest, Goto, Local, durable, OnCourse, RollbackPC, Holding
  <1>22. CASE ReconcileManifest(x)
    <2>1. CASE pc'[x] = "idle" /\ UNCHANGED durable
      BY <1>a, <2>1 DEF durable
    <2>2. CASE /\ Reconcile(job[x], manifest[job[x]]) /\ Local(x)
               /\ Goto(x, "sTidy") /\ pc[x] = "sLoad"
               /\ manifest[job[x]] # NoManifest
               /\ ~ Corrupt(job[x], manifest[job[x]])
      BY <1>a, <2>2
         DEF Corrupt, Reconcile, Goto, Local, OnCourse, RollbackPC, Holding
    <2> QED BY <1>22, <1>a, <2>1, <2>2
            DEF ReconcileManifest, Goto, DropProcess
  <1>23. CASE TidyRecovered(x)
    BY <1>23, <1>a
       DEF TidyRecovered, Goto, Local, OnCourse, RollbackPC, Holding
  <1>24. CASE ReleaseRecovered(x)
    BY <1>24, <1>a
       DEF ReleaseRecovered, Goto, Local, durable, OnCourse, RollbackPC,
           Holding
  <1>25. CASE UnlinkRecovered(x)
    BY <1>25, <1>a
       DEF UnlinkRecovered, Goto, Local, OnCourse, RollbackPC, Holding
  <1>26. CASE \E p \in Poll, d \in Payload : Begin(x, p, d)
    BY <1>26, <1>a
       DEF Begin, Goto, durable, OnCourse, RollbackPC, Holding
  <1> QED BY <1>1, <1>2, <1>3, <1>4, <1>5, <1>6, <1>7, <1>8, <1>9, <1>10,
             <1>11, <1>12, <1>13, <1>14, <1>15, <1>16, <1>17, <1>18, <1>19,
             <1>20, <1>21, <1>22, <1>23, <1>24, <1>25, <1>26
           DEF RecordStep, StartupStep, CallerStep

(* Start-up visits every manifest, and every run nobody owns.              *)
LEMMA VisitsAll ==
    ASSUME NEW x \in Proc, TypeOK, Alone(x), Visited(x), \A y \in Proc : y =
           x, RecordStep(x) \/ StartupStep(x) \/ CallerStep(x)
    PROVE  Visited(x)'
  <1>a. /\ pc \in [Proc -> PC] /\ job \in [Proc -> Poll]
        /\ proc \in [Proc -> ProcPhase] /\ manifest \in [Poll -> Manifest]
        /\ runStatus \in [Run -> RunStatus] /\ todo \in [Proc -> SUBSET Poll]
        /\ abandoned \in [Proc -> SUBSET Run]
        /\ runLease \in [Run -> Proc \cup {Nobody}]
        /\ maintenance \in Proc \cup {Nobody} /\ Nobody \notin Proc
        /\ opLease \in [Poll -> Proc \cup {Nobody}]
    BY PollStoreAssumption
       DEF PollStoreAssumption, TypeOK, TypeLocal, TypeLeases, TypeDurable
  <1> USE DEF Visited, Alone
  <1>1. CASE Close(x) \/ Crash(x)
    BY <1>1, <1>a
       DEF Close, DropProcess, durable, Crash, Holding, RecordPC, RollbackPC,
           StartupPC
  <1>2. CASE ReconcileManifest(x)
    <2>1. /\ pc[x] = "sLoad" /\ UNCHANGED <<manifest, runStatus>>
          /\ job'[x] = job[x]
      BY <1>2, <1>a
         DEF ReconcileManifest, DropProcess, Local, Reconcile, durable
    <2>2. proc[x] = "recovering"
      BY <2>1 DEF StartupPC
    <2>3. \/ proc'[x] \in {"corrupt", "vanished"}
          \/ UNCHANGED <<proc, todo>> /\ pc'[x] = "sTidy"
          \/ UNCHANGED <<proc, todo>> /\ manifest[job[x]] = NoManifest
      <3> HIDE DEF Visited, Alone
      <3> QED BY <1>2, <1>a
                 DEF ReconcileManifest, DropProcess, Local, Goto
    <2>4. CASE proc'[x] \in {"corrupt", "vanished"}
      BY <2>4
    <2>5. CASE UNCHANGED <<proc, todo>> /\ pc'[x] = "sTidy"
      BY <2>1, <2>2, <2>5 DEF StartupPC
    <2>6. CASE UNCHANGED <<proc, todo>> /\ manifest[job[x]] = NoManifest
      BY <2>1, <2>2, <2>6
    <2> QED BY <2>3, <2>4, <2>5, <2>6
  <1>3. CASE LookForManifest(x) \/ LoadManifest(x) \/ TidyOldStaging(x) \/
           DropOldManifest(x) \/ LookForReceipt(x) \/ WriteManifest(x) \/
           StageRaw(x) \/ InstallRaw(x) \/ MarkInstalled(x) \/
           CommitApplied(x) \/ CommitRefused(x) \/ ProbeReceipt(x) \/
           ProbeFails(x) \/ MarkCommitted(x) \/ TidyStaging(x) \/
           ReleaseOperation(x) \/ UnlinkManifest(x) \/ FailBeforeManifest(x)
           \/ BusyAgain(x) \/ FailAfterManifest(x) \/ UndoRaw(x) \/
           UndoStaging(x) \/
           UndoManifest(x) \/ UndoFails(x)
    <2>1. UNCHANGED proc /\ pc[x] \in RecordPC \cup RollbackPC
      BY <1>3
         DEF LookForManifest, Local, LoadManifest, TidyOldStaging,
             DropOldManifest, LookForReceipt, WriteManifest, StageRaw,
             InstallRaw, MarkInstalled, CommitApplied, TryAgain, CommitRefused,
             ProbeReceipt, ProbeFails, MarkCommitted, TidyStaging,
             ReleaseOperation, UnlinkManifest, FailBeforeManifest,
             BusyAgain, Asking, FailAfterManifest, UndoRaw, UndoStaging,
             UndoManifest, UndoFails, RecordPC, RollbackPC
    <2>2. proc'[x] = "up"
      BY <2>1
    <2> QED BY <2>2
  <1>4. CASE EnterRecovery(x)
    BY <1>4, <1>a
       DEF EnterRecovery, durable, Holding, RecordPC, RollbackPC, StartupPC
  <1>5. CASE \E p \in Poll : VisitManifest(x, p)
    BY <1>5, <1>a
       DEF VisitManifest, Goto, durable, leases, Holding, RecordPC,
           RollbackPC, StartupPC
  <1>6. CASE LeaseManifest(x)
    BY <1>6, <1>a
       DEF LeaseManifest, Goto, Local, durable, Holding, RecordPC, RollbackPC,
           StartupPC
  <1>7. CASE TidyRecovered(x)
    BY <1>7, <1>a
       DEF TidyRecovered, Goto, Local, Holding, RecordPC, RollbackPC,
           StartupPC
  <1>8. CASE ReleaseRecovered(x)
    BY <1>8, <1>a
       DEF ReleaseRecovered, Goto, Local, durable, Holding, RecordPC,
           RollbackPC, StartupPC
  <1>9. CASE UnlinkRecovered(x)
    BY <1>9, <1>a
       DEF UnlinkRecovered, Goto, Local, Holding, RecordPC, RollbackPC,
           StartupPC
  <1>10. CASE LeaveRecovery(x)
    BY <1>10, <1>a
       DEF LeaveRecovery, durable, Holding, RecordPC, RollbackPC, StartupPC
  <1>11. CASE SelectRunning(x)
    BY <1>11, <1>a
       DEF SelectRunning, durable, leases, Holding, RecordPC, RollbackPC,
           StartupPC
  <1>12. CASE \E r \in Run : TryRunLease(x, r)
    BY <1>12, <1>a
       DEF TryRunLease, durable, Holding, RecordPC, RollbackPC, StartupPC
  <1>13. CASE InterruptAbandoned(x)
    BY <1>13, <1>a
       DEF InterruptAbandoned, Holding, RecordPC, RollbackPC, StartupPC
  <1>14. CASE Launch(x)
    BY <1>14, <1>a
       DEF Launch, durable, leases, Holding, RecordPC, RollbackPC, StartupPC
  <1>15. CASE \E r \in Run : StartRun(x, r)
    BY <1>15, <1>a
       DEF StartRun, Holding, RecordPC, RollbackPC, StartupPC
  <1>16. CASE \E r \in Run : StartRunUnacknowledged(x, r)
    BY <1>16, <1>a
       DEF StartRunUnacknowledged, leases, local, Holding, RecordPC,
           RollbackPC, StartupPC
  <1>17. CASE \E r \in Run : FinishRun(x, r)
    BY <1>17, <1>a
       DEF FinishRun, Holding, RecordPC, RollbackPC, StartupPC
  <1>18. CASE \E p \in Poll, d \in Payload : Begin(x, p, d)
    BY <1>18, <1>a
       DEF Begin, Goto, durable, Holding, RecordPC, RollbackPC, StartupPC
  <1> QED BY <1>1, <1>2, <1>3, <1>4, <1>5, <1>6, <1>7, <1>8, <1>9, <1>10,
             <1>11, <1>12, <1>13, <1>14, <1>15, <1>16, <1>17, <1>18
           DEF RecordStep, StartupStep, CallerStep

(* Before anything has started, nothing is on disk.                        *)
LEMMA OneStart == Init => OneInv
  <1> SUFFICES ASSUME Init PROVE OneInv
    OBVIOUS
  <1>1. ReportInv
    BY ReportStart
  <1>2. ASSUME NEW p \in Poll
        PROVE  Accounted(p)
    BY DEF Init, Accounted
  <1>3. ASSUME NEW x \in Proc
        PROVE  Tidied(x) /\ Alone(x) /\ Visited(x)
    <2>1. /\ pc[x] = "idle" /\ proc[x] = "down" /\ maintenance = Nobody
          /\ \A p \in Poll : opLease[p] = Nobody
          /\ Nobody \notin Proc
      BY PollStoreAssumption DEF PollStoreAssumption, Init
    <2>2. Tidied(x) /\ Visited(x)
      BY <2>1 DEF Tidied, Visited
    <2>3. Alone(x)
      BY <2>1 DEF Alone, Holding, RecordPC, RollbackPC, StartupPC
    <2> QED BY <2>2, <2>3
  <1> QED BY <1>1, <1>2, <1>3 DEF OneInv

(* A process that has the data directory to itself keeps it accounted for. *)
LEMMA OneStep ==
    ASSUME \A x, y \in Proc : x = y, OneInv, [Next]_vars
    PROVE  OneInv'
  <1>1. ReportInv'
    BY ReportStep DEF OneInv
  <1>2. CASE UNCHANGED vars
    <2>1. /\ UNCHANGED <<pc, job, body, proc, todo, abandoned>>
          /\ UNCHANGED <<receipt, runStatus, manifest, staged, dest>>
          /\ UNCHANGED <<runLease, opLease, maintenance>>
      BY <1>2 DEF vars, durable, leases, local
    <2>2. \A p \in Poll : Accounted(p)'
      BY <2>1 DEF OneInv, Accounted
    <2>3. ASSUME NEW x \in Proc
          PROVE  Tidied(x)' /\ Alone(x)' /\ Visited(x)'
      <3>1. Tidied(x) /\ Alone(x) /\ Visited(x)
        BY DEF OneInv
      <3>2. Tidied(x)'
        BY <2>1, <3>1 DEF Tidied
      <3>3. Alone(x)'
        BY <2>1, <3>1 DEF Alone
      <3>4. Visited(x)'
        BY <2>1, <3>1 DEF Visited
      <3> QED BY <3>2, <3>3, <3>4
    <2> QED BY <1>1, <2>2, <2>3 DEF OneInv
  <1>3. ASSUME NEW x \in Proc,
               RecordStep(x) \/ StartupStep(x) \/ CallerStep(x)
        PROVE  OneInv'
    <2>1. /\ TypeOK /\ ManifestHonest /\ OnCourse(x)
          /\ Recorded(x) /\ OwnersLease(x)
      BY DEF OneInv, ReportInv, StoreInv
    <2>2. /\ \A p \in Poll : Accounted(p)
          /\ Tidied(x) /\ Alone(x) /\ Visited(x)
      BY DEF OneInv
    <2>3. \A y \in Proc : y = x
      OBVIOUS
    <2>4. (\A p \in Poll : Accounted(p)') /\ Tidied(x)'
      BY <1>3, <2>1, <2>2, DiskAccounted
    <2>5. Alone(x)'
      BY <1>3, <2>1, <2>2, <2>3, StaysAlone
    <2>6. Visited(x)'
      BY <1>3, <2>1, <2>2, <2>3, VisitsAll
    <2>7. \A y \in Proc : Tidied(y)' /\ Alone(y)' /\ Visited(y)'
      BY <2>3, <2>4, <2>5, <2>6
    <2> QED BY <1>1, <2>4, <2>7 DEF OneInv
  <1> QED BY <1>2, <1>3 DEF Next

(* The inductive invariant of a process that is alone.                     *)
THEOREM OneInvariance ==
    ASSUME \A x, y \in Proc : x = y
    PROVE  Spec => []OneInv
  <1>1. OneInv /\ [Next]_vars => OneInv'
    BY OneStep
  <1> QED BY <1>1, OneStart, PTL DEF Spec

(* "A failure therefore always leaves a durable startup-recovery anchor":  *)
(* whatever record_poll_batch left on disk without a receipt, a manifest   *)
(* names.                                                                  *)
THEOREM LeftoversStayAnchored ==
    ASSUME \A x, y \in Proc : x = y
    PROVE  Spec => []LeftoversAnchored
  <1>1. OneInv => LeftoversAnchored
    BY DEF OneInv, Accounted, LeftoversAnchored
  <1> QED BY <1>1, OneInvariance, PTL

(* initialize() has dealt with every manifest and every RUNNING run when   *)
(* it returns.                                                             *)
THEOREM StartsReconciled ==
    ASSUME \A x, y \in Proc : x = y
    PROVE  Spec => UpMeansReconciled
  <1>1. ASSUME OneInv, NEW x \in Proc,
               RecordStep(x) \/ StartupStep(x) \/ CallerStep(x),
               NEW y \in Proc, proc[y] # "up", proc'[y] = "up"
        PROVE  /\ \A p \in Poll : /\ manifest'[p] = NoManifest
                                  /\ staged'[p] = {}
                                  /\ dest'[p] \subseteq {receipt'[p]}
               /\ \A r \in Run : runStatus'[r] # "RUNNING"
    <2>1. /\ Alone(x) /\ Visited(x) /\ TypeOK /\ y = x
          /\ \A p \in Poll : Accounted(p)
      BY <1>1 DEF OneInv, ReportInv, StoreInv
    <2>2. proc \in [Proc -> ProcPhase] /\ runStatus \in [Run -> RunStatus]
      BY <2>1 DEF TypeOK, TypeLocal, TypeDurable
    <2>3. InterruptAbandoned(x)
      <3>1. proc'[x] # proc[x] /\ proc'[x] = "up"
        BY <1>1, <2>1
      <3>2. ~RecordStep(x)
        BY <3>1
           DEF RecordStep, Local, LookForManifest, LoadManifest,
               TidyOldStaging, DropOldManifest, LookForReceipt, WriteManifest,
               StageRaw, InstallRaw, MarkInstalled, CommitApplied, TryAgain,
               CommitRefused, ProbeReceipt, ProbeFails, MarkCommitted,
               TidyStaging, ReleaseOperation, UnlinkManifest,
               FailBeforeManifest, BusyAgain, TryAgain, FailAfterManifest,
               UndoRaw, UndoStaging,
               UndoManifest, UndoFails
      <3>3. CallerStep(x) => FALSE
        BY <2>2, <3>1
           DEF CallerStep, Launch, Close, Crash, DropProcess, StartRun,
               StartRunUnacknowledged, FinishRun, Begin, leases, local
      <3>4. StartupStep(x)
        BY <1>1, <3>2, <3>3
      <3> QED BY <2>2, <3>1, <3>4
              DEF StartupStep, EnterRecovery, VisitManifest, LeaseManifest,
                  ReconcileManifest, DropProcess, TidyRecovered,
                  ReleaseRecovered, UnlinkRecovered, LeaveRecovery, Local,
                  SelectRunning, TryRunLease
    <2>4. /\ proc[x] = "interrupting" /\ abandoned[x] = {}
          /\ UNCHANGED <<manifest, staged, dest, receipt>>
          /\ runStatus' = [r \in Run |->
                IF runLease[r] = x /\ runStatus[r] = "RUNNING"
                THEN "INTERRUPTED" ELSE runStatus[r]]
      BY <2>3 DEF InterruptAbandoned
    <2>5. /\ \A p \in Poll : manifest[p] = NoManifest
          /\ \A r \in Run : runStatus[r] = "RUNNING" => runLease[r] = x
      BY <2>1, <2>4 DEF Visited
    <2>6. \A p \in Poll : staged[p] = {} /\ dest[p] \subseteq {receipt[p]}
      BY <2>1, <2>5 DEF Accounted
    <2>7. \A r \in Run : runStatus'[r] # "RUNNING"
      BY <2>4, <2>5
    <2> QED BY <2>4, <2>5, <2>6, <2>7
  <1>2. OneInv /\ [Next]_vars =>
          [\A x \in Proc :
             proc[x] # "up" /\ proc'[x] = "up" =>
                 /\ \A p \in Poll : /\ manifest'[p] = NoManifest
                                    /\ staged'[p] = {}
                                    /\ dest'[p] \subseteq {receipt'[p]}
                 /\ \A r \in Run : runStatus'[r] # "RUNNING"]_vars
    BY <1>1 DEF Next
  <1> QED BY <1>2, OneInvariance, PTL DEF Spec, UpMeansReconciled
=============================================================================
