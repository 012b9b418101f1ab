---------------------------- MODULE InputsProofs ----------------------------
(***************************************************************************)
(* The properties of the parts that MCInputs composes, each proved of its  *)
(* own specification, for every value of the constants.                    *)
(*                                                                         *)
(* KnownHosts.  What is saved is right because of what happened several    *)
(* steps earlier: the operator agreed in time, and since the file was read *)
(* again nobody else can have replaced it.  OnCourse says what a connect() *)
(* that has come to a step may rely on.                                    *)
(*                                                                         *)
(* DurableReplace.  The check of an attempt is worth nothing in the next   *)
(* one.  The argument is therefore about one attempt: what it has checked  *)
(* so far still holds, unless somebody made a change in this attempt.      *)
(*                                                                         *)
(* StorageReconcile.  Only numbers are compared.  They tell that the named *)
(* files are the same because rows are only added while the lease is held; *)
(* Stands says what a number of sized files stands for until somebody      *)
(* touches the directory.                                                  *)
(***************************************************************************)
EXTENDS KnownHosts, DurableReplace, StorageReconcile, FiniteSetTheorems, TLAPS

-----------------------------------------------------------------------------
(* KnownHosts: for every set of processes, devices and keys                *)

OnCourse(p) ==
    /\ stage[p] # "idle" => target[p] \in Host
    /\ stage[p] \in {"verify", "ask", "reload", "save"} => offered[p] \in Key
    /\ stage[p] = "ask" /\ prompt[p] = "yes" => inTime[p] \/ interrupted[p]
    /\ stage[p] \in {"reload", "save"} => prompt[p] = "yes" /\ inTime[p]
    /\ stage[p] = "save" => /\ holder = p
                            /\ loaded[p] = file
                            /\ file[target[p]] = {}

KnownInv == TypeKnown /\ \A p \in Proc : OnCourse(p)

-----------------------------------------------------------------------------
(* Initially every process is idle and KnownInv holds of it: nothing has   *)
(* been read, asked or saved.                                              *)
LEMMA InitKnown == KnownInit => KnownInv
  BY KnownHostsAssumption
  DEF KnownInit, KnownInv, TypeKnown, OnCourse, Stage, NoKey

(* The saved file is the one that was read, with one key more for a device *)
(* that had none (_save_host_keys).                                        *)
LEMMA WhatIsSaved ==
    ASSUME KnownInv, NEW p \in Proc, Save(p)
    PROVE  /\ target[p] \in Host /\ offered[p] \in Key
           /\ file' = [file EXCEPT ![target[p]] = {offered[p]}]
           /\ loaded' = [loaded EXCEPT ![p] = file']
           /\ holder = p /\ file[target[p]] = {} /\ inTime[p]
  <1>1. OnCourse(p) /\ TypeKnown
    BY DEF KnownInv
  <1>2. /\ target[p] \in Host /\ offered[p] \in Key
        /\ holder = p /\ file[target[p]] = {} /\ inTime[p] /\ loaded[p] = file
    BY <1>1 DEF OnCourse, Save
  <1>3. Added({}, offered[p]) = {offered[p]}
    BY DEF Added
  <1>4. loaded' = [loaded EXCEPT ![p] = [file EXCEPT ![target[p]] = {offered[p]}]]
    BY <1>1, <1>2, <1>3, Zenon DEF Save, TypeKnown
  <1>5. file' = [file EXCEPT ![target[p]] = {offered[p]}]
    BY <1>1, <1>4 DEF Save, TypeKnown
  <1> QED
    BY <1>2, <1>4, <1>5

(* Types are kept by every step.                                           *)
LEMMA StepType == KnownInv /\ [KnownNext]_known => TypeKnown'
  <1> SUFFICES ASSUME KnownInv, [KnownNext]_known PROVE TypeKnown'
    OBVIOUS
  <1> USE DEF TypeKnown
  <1>0. TypeKnown
    BY DEF KnownInv
  <1>1. CASE Forget
    BY <1>0, <1>1, KnownHostsAssumption DEF Forget, dial
  <1>2. ASSUME NEW p \in Proc, NEW t \in Host, Begin(p, t) PROVE TypeKnown'
    BY <1>0, <1>2 DEF Begin, Goto, Stage, trust
  <1>3. ASSUME NEW p \in Proc, ConnectFails(p) PROVE TypeKnown'
    BY <1>0, <1>3 DEF ConnectFails, Goto, Stage, trust
  <1>4. ASSUME NEW p \in Proc, Snapshot(p) PROVE TypeKnown'
    BY <1>0, <1>4 DEF Snapshot, Goto, Load, Stage, trust
  <1>5. ASSUME NEW p \in Proc, Probe(p) PROVE TypeKnown'
    BY <1>0, <1>5 DEF Probe, Goto, Stage, trust
  <1>6. ASSUME NEW p \in Proc, Verify(p) PROVE TypeKnown'
    BY <1>0, <1>6 DEF Verify, Goto, Load, Stage, trust
  <1>7. ASSUME NEW p \in Proc, TakeAnswer(p) PROVE TypeKnown'
    BY <1>0, <1>7 DEF TakeAnswer, Goto, Stage, trust
  <1>8. ASSUME NEW p \in Proc, Reload(p) PROVE TypeKnown'
    BY <1>0, <1>8 DEF Reload, Goto, Load, Stage, trust
  <1>9. ASSUME NEW p \in Proc, Save(p) PROVE TypeKnown'
    <2>1. /\ offered[p] \in Key
          /\ file' = [file EXCEPT ![target[p]] = {offered[p]}]
          /\ loaded' = [loaded EXCEPT ![p] = file']
      BY <1>9, WhatIsSaved
    <2>2. file' \in [Host -> SUBSET Key]
      BY <1>0, <2>1
    <2>3. loaded' \in [Proc -> [Host -> SUBSET Key]]
      BY <1>0, <2>1, <2>2
    <2> QED
      BY <1>0, <1>9, <2>2, <2>3 DEF Save, Goto, Stage
  <1>10. ASSUME NEW p \in Proc, SaveFails(p) PROVE TypeKnown'
    BY <1>0, <1>10 DEF SaveFails, Goto, Stage
  <1>11. ASSUME NEW p \in Proc, Dial(p) PROVE TypeKnown'
    BY <1>0, <1>11 DEF Dial, Goto, Stage, trust
  <1>12. ASSUME NEW p \in Proc, End(p) PROVE TypeKnown'
    BY <1>0, <1>12 DEF End, EndConnect, Stage, trust
  <1>13. ASSUME NEW p \in Proc, Crash(p) PROVE TypeKnown'
    BY <1>0, <1>13 DEF Crash, EndConnect, Stage
  <1>14. ASSUME NEW p \in Proc, Interrupt(p) PROVE TypeKnown'
    BY <1>0, <1>14 DEF Interrupt, trust, dial
  <1>15. ASSUME NEW p \in Proc, NEW yes \in BOOLEAN, Answer(p, yes)
         PROVE TypeKnown'
    BY <1>0, <1>15 DEF Answer, At, trust
  <1>16. CASE UNCHANGED known
    BY <1>0, <1>16 DEF known, trust, dial
  <1> QED
    BY <1>1, <1>2, <1>3, <1>4, <1>5, <1>6, <1>7, <1>8, <1>9, <1>10, <1>11,
       <1>12, <1>13, <1>14, <1>15, <1>16 DEF KnownNext, ProcStep

(* Every process stays on course, whoever takes a step: no step of another *)
(* process is possible between Reload and Save that changes the file.      *)
LEMMA StepCourse ==
    KnownInv /\ [KnownNext]_known => \A q \in Proc : OnCourse(q)'
  <1> SUFFICES ASSUME KnownInv, [KnownNext]_known, NEW q \in Proc
               PROVE  OnCourse(q)'
    OBVIOUS
  <1> USE KnownHostsAssumption DEF OnCourse
  <1>0. TypeKnown /\ OnCourse(q)
    BY DEF KnownInv
  <1>1. CASE Forget
    BY <1>0, <1>1 DEF Forget, dial, TypeKnown
  <1>2. ASSUME NEW p \in Proc, NEW t \in Host, Begin(p, t) PROVE OnCourse(q)'
    BY <1>0, <1>2 DEF Begin, Goto, trust, TypeKnown
  <1>3. ASSUME NEW p \in Proc, ConnectFails(p) PROVE OnCourse(q)'
    BY <1>0, <1>3 DEF ConnectFails, Goto, trust, TypeKnown
  <1>4. ASSUME NEW p \in Proc, Snapshot(p) PROVE OnCourse(q)'
    BY <1>0, <1>4 DEF Snapshot, Goto, Load, At, trust, TypeKnown
  <1>5. ASSUME NEW p \in Proc, Probe(p) PROVE OnCourse(q)'
    BY <1>0, <1>5 DEF Probe, Goto, At, trust, TypeKnown
  <1>6. ASSUME NEW p \in Proc, Verify(p) PROVE OnCourse(q)'
    BY <1>0, <1>6 DEF Verify, Goto, Load, At, trust, TypeKnown
  <1>7. ASSUME NEW p \in Proc, TakeAnswer(p) PROVE OnCourse(q)'
    BY <1>0, <1>7 DEF TakeAnswer, Goto, At, trust, TypeKnown
  <1>8. ASSUME NEW p \in Proc, Reload(p) PROVE OnCourse(q)'
    BY <1>0, <1>8 DEF Reload, Goto, Load, Matches, At, trust, TypeKnown
  <1>9. ASSUME NEW p \in Proc, Save(p) PROVE OnCourse(q)'
    <2>1. holder = p /\ stage[p] = "save"
      BY <1>9, WhatIsSaved DEF Save
    <2>2. stage'[q] # "save"
      BY <1>0, <1>9, <2>1 DEF Save, Goto, TypeKnown
    <2> QED
      BY <1>0, <1>9, <2>2 DEF Save, Goto, TypeKnown
  <1>10. ASSUME NEW p \in Proc, SaveFails(p) PROVE OnCourse(q)'
    <2>1. OnCourse(p)
      BY DEF KnownInv
    <2> QED
      BY <1>0, <1>10, <2>1 DEF SaveFails, Goto, TypeKnown
  <1>11. ASSUME NEW p \in Proc, Dial(p) PROVE OnCourse(q)'
    BY <1>0, <1>11 DEF Dial, Goto, At, trust, TypeKnown
  <1>12. ASSUME NEW p \in Proc, End(p) PROVE OnCourse(q)'
    BY <1>0, <1>12 DEF End, EndConnect, trust, TypeKnown
  <1>13. ASSUME NEW p \in Proc, Crash(p) PROVE OnCourse(q)'
    BY <1>0, <1>13 DEF Crash, EndConnect, TypeKnown
  <1>14. ASSUME NEW p \in Proc, Interrupt(p) PROVE OnCourse(q)'
    BY <1>0, <1>14 DEF Interrupt, trust, dial, TypeKnown
  <1>15. ASSUME NEW p \in Proc, NEW yes \in BOOLEAN, Answer(p, yes)
         PROVE OnCourse(q)'
    BY <1>0, <1>15 DEF Answer, At, trust, TypeKnown
  <1>16. CASE UNCHANGED known
    BY <1>0, <1>16 DEF known, trust, dial
  <1> QED
    BY <1>1, <1>2, <1>3, <1>4, <1>5, <1>6, <1>7, <1>8, <1>9, <1>10, <1>11,
       <1>12, <1>13, <1>14, <1>15, <1>16 DEF KnownNext, ProcStep

(* KnownInv holds of every reachable state of the processes that share     *)
(* known_hosts.                                                            *)
THEOREM KnownInvariance == KnownSpec => []KnownInv
  <1>1. KnownInv /\ [KnownNext]_known => KnownInv'
    BY StepType, StepCourse DEF KnownInv
  <1> QED
    BY InitKnown, <1>1, PTL DEF KnownSpec

(* Every variable has its type: no step of connect() leaves the stages,    *)
(* keys and devices there are.                                             *)
THEOREM KnownTyping == KnownSpec => []TypeKnown
  BY KnownInvariance, PTL DEF KnownInv

(* Only Save and Forget change known_hosts.                                *)
LEMMA WhoChangesTheFile ==
    ASSUME KnownInv, [KnownNext]_known
    PROVE  file' = file \/ Forget \/ \E p \in Proc : Save(p)
  BY DEF KnownNext, ProcStep, Begin, ConnectFails, Snapshot, Probe, Verify,
         TakeAnswer, Reload, SaveFails, Dial, End, Crash, Interrupt, Answer,
         known, trust

(* A key enters known_hosts only by a process whose operator agreed, in    *)
(* time, to that key for that device (_verify_or_approve).                 *)
THEOREM ApprovedOnly == KnownSpec => OnlyApprovedKeysAdded
  <1>1. ASSUME KnownInv, [KnownNext]_known,
               NEW t \in Host, NEW k \in file'[t] \ file[t]
        PROVE  \E p \in Proc : /\ stage[p] = "save" /\ target[p] = t
                               /\ offered[p] = k /\ inTime[p]
    <2>0. TypeKnown
      BY <1>1 DEF KnownInv
    <2>1. CASE file' = file
      BY <1>1, <2>1
    <2>2. CASE Forget
      BY <1>1, <2>0, <2>2 DEF Forget, TypeKnown
    <2>3. ASSUME NEW p \in Proc, Save(p)
          PROVE  /\ stage[p] = "save" /\ target[p] = t
                 /\ offered[p] = k /\ inTime[p]
      <3>1. /\ target[p] \in Host /\ inTime[p] /\ stage[p] = "save"
            /\ file' = [file EXCEPT ![target[p]] = {offered[p]}]
        BY <1>1, <2>3, WhatIsSaved DEF Save
      <3>2. file'[target[p]] = {offered[p]}
            /\ (t # target[p] => file'[t] = file[t])
        BY <2>0, <3>1 DEF TypeKnown
      <3> QED
        BY <1>1, <3>1, <3>2
    <2> QED
      BY <1>1, <2>1, <2>2, <2>3, WhoChangesTheFile
  <1>2. KnownInv /\ [KnownNext]_known =>
          [\A t \in Host : \A k \in file'[t] \ file[t] :
             \E p \in Proc : /\ stage[p] = "save" /\ target[p] = t
                             /\ offered[p] = k /\ inTime[p]]_known
    BY <1>1
  <1> QED
    BY KnownInvariance, <1>2, PTL DEF KnownSpec, OnlyApprovedKeysAdded

(* A host that is known keeps exactly its keys until the operator removes  *)
(* it (_verify_or_approve, "Reload after approval").                       *)
THEOREM KnownStay == KnownSpec => KnownKeysStay
  <1>1. ASSUME KnownInv, [KnownNext]_known, ~ Forget,
               NEW t \in Host, file[t] # {}
        PROVE  file'[t] = file[t]
    <2>0. TypeKnown
      BY <1>1 DEF KnownInv
    <2>1. ASSUME NEW p \in Proc, Save(p) PROVE file'[t] = file[t]
      BY <1>1, <2>0, <2>1, WhatIsSaved DEF TypeKnown
    <2> QED
      BY <1>1, <2>1, WhoChangesTheFile
  <1>2. KnownInv /\ [KnownNext]_known =>
          [Forget \/ \A t \in Host : file[t] # {} => file'[t] = file[t]]_known
    BY <1>1
  <1> QED
    BY KnownInvariance, <1>2, PTL DEF KnownSpec, KnownKeysStay

-----------------------------------------------------------------------------
(* DurableReplace: for every number of tries, changes and holds            *)

Capturing ==
    {"stat-source", "open-source", "hash-source", "compare-source",
     "stat-destination", "open-destination", "hash-destination"}

ReplaceTypes ==
    /\ windows \in BOOLEAN /\ held \in BOOLEAN
    /\ source \in Nat /\ destination \in Nat /\ folder \in Nat /\ begun \in Nat
    /\ seen \in [from : Nat, over : Nat, where : Nat]
    /\ at \in Capturing \cup Attempting \cup {"published", "failed"}
    /\ tries \in Nat \ {0} /\ lastWrite \in Nat
    /\ writes \in Nat /\ holds \in Nat

(* Changes made before the first attempt are not counted; in an attempt    *)
(* the latest one is of this attempt or of an earlier one.                 *)
ChangesInTime ==
    /\ at \in Capturing => lastWrite = 0
    /\ at \in Attempting => lastWrite <= tries

(* What was captured is what the caller staged.                            *)
CapturedAsStaged ==
    /\ at \in Attempting \cup {"stat-destination", "open-destination",
                               "hash-destination"} => seen.from = Staged
    /\ at = "destination-absent" => seen.over = Nothing

SourceChecked ==
    at \in {"destination-absent", "open-destination-again",
            "hash-destination-again", "replace"} =>
        source = seen.from \/ lastWrite = tries

DestinationChecked ==
    at = "replace" => destination = seen.over \/ lastWrite = tries

AttemptInv ==
    /\ ReplaceTypes /\ ChangesInTime /\ CapturedAsStaged
    /\ SourceChecked /\ DestinationChecked

-----------------------------------------------------------------------------
(* Before anything is captured AttemptInv holds: there was no attempt.     *)
LEMMA InitAttempt == ReplaceInit => AttemptInv
  <1> SUFFICES ASSUME ReplaceInit PROVE AttemptInv
    OBVIOUS
  <1>1. windows \in BOOLEAN /\ held \in BOOLEAN
    BY Zenon DEF ReplaceInit
  <1>2. ReplaceTypes
    BY <1>1 DEF ReplaceInit, ReplaceTypes, Capturing, Nothing, Staged, Old
  <1>3. ChangesInTime /\ CapturedAsStaged /\ SourceChecked /\ DestinationChecked
    BY DEF ReplaceInit, ChangesInTime, CapturedAsStaged, SourceChecked,
           DestinationChecked, Attempting
  <1> QED
    BY <1>2, <1>3 DEF AttemptInv

(* A change of another program is one of the attempt it falls in.          *)
LEMMA WriteAttempt == AttemptInv /\ Write => AttemptInv'
  <1> SUFFICES ASSUME AttemptInv, Write PROVE AttemptInv'
    OBVIOUS
  <1> USE DEF AttemptInv
  <1>1. ReplaceTypes'
    <2>1. writes' \in Nat /\ Old + writes' \in Nat
      BY DEF ReplaceTypes, Write, Old
    <2>2. source' \in Nat /\ destination' \in Nat /\ folder' \in Nat
      BY <2>1 DEF ReplaceTypes, Write, Nothing
    <2> QED
      BY <2>1, <2>2 DEF ReplaceTypes, Write
  <1>2. at' = at /\ seen' = seen /\ tries' = tries
    BY DEF Write
  <1>3. lastWrite' = IF at \in Attempting THEN tries ELSE 0
    BY DEF Write
  <1>4. ChangesInTime'
    BY <1>2, <1>3 DEF ChangesInTime, ReplaceTypes, Capturing, Attempting
  <1>5. CapturedAsStaged'
    BY <1>2 DEF CapturedAsStaged
  <1>6. SourceChecked' /\ DestinationChecked'
    BY <1>2, <1>3 DEF SourceChecked, DestinationChecked, Attempting
  <1> QED
    BY <1>1, <1>4, <1>5, <1>6

(* The steps before the first attempt leave AttemptInv true.               *)
LEMMA CaptureAttempt ==
    ASSUME AttemptInv,
           \/ StatSource \/ OpenSource \/ HashSource \/ CompareSource
           \/ StatDestination \/ OpenDestination \/ HashDestination
    PROVE  AttemptInv'
  <1> USE DEF AttemptInv, ReplaceTypes, ChangesInTime, CapturedAsStaged,
              SourceChecked, DestinationChecked, Capturing, Attempting, files,
              Denied, Nothing, Staged
  <1>1. CASE StatSource
    BY <1>1 DEF StatSource, Stat
  <1>2. CASE OpenSource
    BY <1>2 DEF OpenSource, Open
  <1>3. CASE HashSource
    BY <1>3 DEF HashSource, Hashed
  <1>4. CASE CompareSource
    BY <1>4 DEF CompareSource
  <1>5. CASE StatDestination
    BY <1>5 DEF StatDestination, Stat
  <1>6. CASE OpenDestination
    BY <1>6 DEF OpenDestination, Open
  <1>7. CASE HashDestination
    BY <1>7 DEF HashDestination
  <1> QED
    BY <1>1, <1>2, <1>3, <1>4, <1>5, <1>6, <1>7

(* The steps of an attempt leave AttemptInv true: each adds what it has    *)
(* compared, and one that is denied begins another attempt, which no       *)
(* change has fallen in yet.                                               *)
LEMMA RetryAttempt ==
    ASSUME AttemptInv,
           \/ Attempt \/ OpenSourceAgain \/ HashSourceAgain \/ DestinationAbsent
           \/ OpenDestinationAgain \/ HashDestinationAgain \/ Replace
    PROVE  AttemptInv'
  <1> USE DEF AttemptInv, ReplaceTypes, ChangesInTime, CapturedAsStaged,
              SourceChecked, DestinationChecked, Capturing, Attempting, files,
              Denied, Nothing, Staged
  <1>1. CASE Attempt
    BY <1>1 DEF Attempt
  <1>2. CASE OpenSourceAgain
    BY <1>2 DEF OpenSourceAgain, Open
  <1>3. CASE HashSourceAgain
    BY <1>3 DEF HashSourceAgain, Hashed
  <1>4. CASE DestinationAbsent
    BY <1>4 DEF DestinationAbsent
  <1>5. CASE OpenDestinationAgain
    BY <1>5 DEF OpenDestinationAgain, Open
  <1>6. CASE HashDestinationAgain
    BY <1>6 DEF HashDestinationAgain, Hashed
  <1>7. CASE Replace
    BY <1>7 DEF Replace
  <1> QED
    BY <1>1, <1>2, <1>3, <1>4, <1>5, <1>6, <1>7

(* Every step of the call or of another program keeps AttemptInv.          *)
LEMMA StepAttempt == AttemptInv /\ [ReplaceNext]_replaceVars => AttemptInv'
  <1> SUFFICES ASSUME AttemptInv, [ReplaceNext]_replaceVars PROVE AttemptInv'
    OBVIOUS
  <1>1. CASE Hold \/ LetGo \/ UNCHANGED replaceVars
    <2>1. /\ UNCHANGED <<windows, source, destination, folder, at, begun, seen,
                         tries, writes, lastWrite>>
          /\ holds' = holds \/ holds' = holds + 1
      BY <1>1 DEF Hold, LetGo, replaceVars
    <2>2. held' \in BOOLEAN
      BY <1>1, Zenon DEF Hold, LetGo, replaceVars, AttemptInv, ReplaceTypes
    <2>3. ReplaceTypes'
      BY <2>1, <2>2 DEF AttemptInv, ReplaceTypes
    <2> QED
      BY <2>1, <2>3 DEF AttemptInv, ChangesInTime, CapturedAsStaged,
                        SourceChecked, DestinationChecked
  <1>2. CASE Write
    BY <1>2, WriteAttempt
  <1>3. CASE Call
    BY <1>3, CaptureAttempt, RetryAttempt DEF Call
  <1> QED
    BY <1>1, <1>2, <1>3 DEF ReplaceNext

(* AttemptInv holds in every state of every call (durable_io.py,           *)
(* replace_with_retry).                                                    *)
THEOREM AttemptInvariance == ReplaceSpec => []AttemptInv
  BY InitAttempt, StepAttempt, PTL DEF ReplaceSpec

(* What is published is the staged file, over the file captured before,    *)
(* unless somebody changed one of them in the attempt that succeeds,       *)
(* between its checks and the replacement (durable_io.py:68-94).           *)
THEOREM ChangesAreSeen == ReplaceSpec => OnlyTheLatestChangesAreLost
  <1>1. ASSUME AttemptInv, [ReplaceNext]_replaceVars,
               at' = "published", at = "replace"
        PROVE  \/ source = Staged /\ destination = seen.over
               \/ lastWrite = tries
    BY <1>1 DEF AttemptInv, CapturedAsStaged, SourceChecked, DestinationChecked,
                Attempting
  <1>2. AttemptInv /\ [ReplaceNext]_replaceVars =>
            [at' = "published" /\ at = "replace" =>
                \/ source = Staged /\ destination = seen.over
                \/ lastWrite = tries]_replaceVars
    BY <1>1
  <1> QED
    BY <1>2, AttemptInvariance, PTL DEF ReplaceSpec, OnlyTheLatestChangesAreLost

-----------------------------------------------------------------------------
(* StorageReconcile: for every finite set of files                         *)

(* The two processes that store polls, and what their polls are about.     *)
Writer == {Us, Them}
PollSteps == {"none", "staged", "installed", "committed", "undo", "undone"}
Wheres == {"staged", "installed"}
ReconSteps == {"idle", "registered", "revision", "list", "size",
               "again", "keep", "locked"}

Recon == [at : ReconSteps, attempt : Nat, registered : Nat,
          toVisit : SUBSET Wheres, found : SUBSET (RawFile \X Wheres), sized : Nat,
          rows : SUBSET RawFile]

ReconcileTypes ==
    /\ place \in [RawFile -> Wheres \cup {"none"}]
    /\ named \in SUBSET RawFile /\ unused \in SUBSET RawFile
    /\ left \in SUBSET RawFile
    /\ touched \in BOOLEAN
    /\ poll \in [Writer -> [step : PollSteps, file : SUBSET RawFile]]
    /\ lease \in {"free", Us}
    /\ recon \in Recon

(* A poll is about one file, of its own, that no row names before it is    *)
(* committed.                                                              *)
PollsApart ==
    /\ \A p \in Writer : IF poll[p].step = "none" THEN poll[p].file = {}
                         ELSE \E f \in RawFile : poll[p].file = {f}
    /\ poll[Us].file \cap poll[Them].file = {}
    /\ \A p \in Writer : poll[p].step \in {"installed", "committed"} =>
           \A f \in poll[p].file : place[f] = "installed"

NamedAreInstalled ==
    \A f \in named :
        /\ place[f] = "installed"
        /\ \A p \in Writer : f \in poll[p].file => poll[p].step = "committed"

UnusedAreNowhere ==
    \A f \in unused : place[f] = "none" /\ f \notin UnderWay /\ f \notin named

(* Files that a poll is at work on, or was, since reconciling began.       *)
Doubtful == UnderWay \cup left

(* What was sized stands for the files it was found to be: those that are  *)
(* there, those of polls, and, as long as no row was added, all that rows  *)
(* name; after the last reading of the rows, all that they named then.     *)
Stands(Z) ==
    /\ Cardinality(Z) = recon.sized
    /\ recon.at = "list" => Z = {}
    /\ \A f \in Z :
           /\ There(f) \/ f \in Doubtful
           /\ <<f, "installed">> \notin recon.found
           /\ <<f, "staged">> \in recon.found => place[f] # "staged"
    /\ \A f \in RawFile : There(f) /\ f \notin Doubtful =>
           place[f] \in recon.toVisit \/ <<f, place[f]>> \in recon.found \/ f \in Z
    /\ Cardinality(named) = recon.registered => \A f \in named :
           \/ "installed" \in recon.toVisit \/ <<f, "installed">> \in recon.found
           \/ f \in Z
    /\ ReconcileLocks => recon.rows \subseteq Z

Counting == {"list", "size", "again", "keep", "locked"}

Counted ==
    /\ recon.at # "idle" => lease = Us
    /\ recon.at \notin {"idle", "registered"} =>
           recon.registered <= Cardinality(named)
    /\ recon.at \in {"registered", "revision"} => recon.found = {} /\ recon.sized = 0
    /\ recon.at \in Counting \ {"list"} => recon.toVisit = {}
    /\ recon.at \in {"again", "keep", "locked"} => recon.found = {}
    /\ ReconcileLocks =>
           /\ recon.rows \subseteq named /\ Cardinality(recon.rows) = recon.registered
           /\ ~touched => named \ recon.rows \subseteq Doubtful
    /\ recon.at \in Counting /\ ~touched =>
           /\ \A f \in RawFile : <<f, "installed">> \in recon.found => place[f] # "staged"
           /\ \E Z \in SUBSET RawFile : Stands(Z)

ReconcileInv ==
    /\ ReconcileTypes /\ PollsApart /\ NamedAreInstalled /\ UnusedAreNowhere
    /\ Counted

-----------------------------------------------------------------------------
(* Polls                                                                   *)

(* A step of a poll changes its step, and nothing else about polls (Step). *)
LEMMA StepIsTaken ==
    ASSUME ReconcileTypes, NEW p \in Writer, NEW step \in PollSteps, Step(p, step)
    PROVE  /\ poll' \in [Writer -> [step : PollSteps, file : SUBSET RawFile]]
           /\ \A q \in Writer : poll'[q].file = poll[q].file
           /\ poll'[p].step = step
           /\ \A q \in Writer \ {p} : poll'[q] = poll[q]
           /\ UnderWay' = UnderWay
  <1>1. poll \in [Writer -> [step : PollSteps, file : SUBSET RawFile]]
    BY DEF ReconcileTypes
  <1>2. poll' = [poll EXCEPT ![p] = [poll[p] EXCEPT !.step = step]]
    BY DEF Step
  <1>3. /\ [poll[p] EXCEPT !.step = step] \in [step : PollSteps, file : SUBSET RawFile]
        /\ [poll[p] EXCEPT !.step = step].file = poll[p].file
        /\ [poll[p] EXCEPT !.step = step].step = step
    BY <1>1
  <1>4. \A q \in Writer : poll'[q].file = poll[q].file
    BY <1>1, <1>2, <1>3
  <1>5. UnderWay' = UnderWay
    BY <1>4 DEF UnderWay, Writer
  <1> QED BY <1>1, <1>2, <1>3, <1>4, <1>5

(* A poll is begun or ended for one process and not for the other.         *)
LEMMA PollIsSet ==
    ASSUME ReconcileTypes, NEW p \in Writer,
           NEW next \in [step : PollSteps, file : SUBSET RawFile],
           poll' = [poll EXCEPT ![p] = next]
    PROVE  /\ poll' \in [Writer -> [step : PollSteps, file : SUBSET RawFile]]
           /\ poll'[p] = next
           /\ \A q \in Writer \ {p} : poll'[q] = poll[q]
  BY DEF ReconcileTypes

(* A file is put where it goes, and the others stay (Put).                 *)
LEMMA FileIsPut ==
    ASSUME ReconcileTypes, NEW f \in RawFile, NEW where \in Wheres \cup {"none"},
           Put(f, where)
    PROVE  /\ place' \in [RawFile -> Wheres \cup {"none"}]
           /\ place'[f] = where
           /\ \A g \in RawFile \ {f} : place'[g] = place[g]
  BY DEF ReconcileTypes, Put

(* The files that rows name can be counted.                                *)
LEMMA NamedIsFinite ==
    ASSUME ReconcileTypes
    PROVE  IsFiniteSet(named) /\ Cardinality(named) \in Nat
  BY FS_Subset, FS_CardinalityType, ReconcileAssumption DEF ReconcileTypes

(* A file is of one poll, and every file of a poll is under way.           *)
LEMMA OwnFile ==
    ASSUME PollsApart, NEW p \in Writer, NEW f \in poll[p].file
    PROVE  /\ poll[p].file = {f} /\ f \in UnderWay /\ poll[p].step # "none"
           /\ \A q \in Writer \ {p} : f \notin poll[q].file
  BY DEF PollsApart, UnderWay, Writer

(* What all these steps leave alone.                                       *)
LEMMA PollsGoOn ==
    ASSUME ReconcileInv, recon' = recon, lease' = lease,
           \/ named' = named
           \/ /\ Cardinality(named') > Cardinality(named)
              /\ named \subseteq named' /\ named' \ named \subseteq Doubtful',
           Cardinality(named') \in Nat,
           \/ touched'
           \/ /\ touched' = touched
              /\ Doubtful \subseteq Doubtful'
              /\ \A f \in RawFile : \/ place'[f] = place[f]
                                    \/ f \in Doubtful /\ place'[f] \in {"installed", "none"}
    PROVE  Counted'
  <1>1. Counted /\ ReconcileTypes /\ Cardinality(named) \in Nat
    BY NamedIsFinite DEF ReconcileInv
  <1>2. recon.registered \in Nat
    BY <1>1 DEF ReconcileTypes, Recon
  <1> DEFINE before == Cardinality(named)
             after == Cardinality(named')
             registered == recon.registered
  <1>a. before \in Nat /\ after \in Nat /\ registered \in Nat
    BY <1>1, <1>2
  <1>b. (named' = named /\ after = before) \/ after > before
    OBVIOUS
  <1>c. recon.at \notin {"idle", "registered"} => registered <= before
    BY <1>1 DEF Counted
  <1> HIDE DEF before, after, registered
  <1>3. recon.at \notin {"idle", "registered"} =>
           /\ registered <= after
           /\ after = registered => named' = named
    BY <1>a, <1>b, <1>c
  <1> USE DEF before, after, registered
  <1>4. ASSUME recon.at \in Counting, ~touched'
        PROVE  /\ \A f \in RawFile : <<f, "installed">> \in recon.found => place'[f] # "staged"
               /\ \E Z \in SUBSET RawFile : Stands(Z)'
    <2>1. /\ ~touched /\ Doubtful \subseteq Doubtful'
          /\ \A f \in RawFile : \/ place'[f] = place[f]
                                \/ f \in Doubtful /\ place'[f] \in {"installed", "none"}
      BY <1>4
    <2>2. PICK Z \in SUBSET RawFile : Stands(Z)
      BY <1>1, <1>4, <2>1 DEF Counted
    <2>3. \A f \in RawFile : <<f, "installed">> \in recon.found => place'[f] # "staged"
      BY <1>1, <1>4, <2>1 DEF Counted
    <2>4. \A f \in Z : There(f)' \/ f \in Doubtful'
      BY <2>1, <2>2 DEF Stands, There, ReconcileLocks
    <2>5. \A f \in Z : <<f, "installed">> \notin recon.found
                       /\ (<<f, "staged">> \in recon.found => place'[f] # "staged")
      BY <2>1, <2>2 DEF Stands
    <2>6. \A f \in RawFile : There(f)' /\ f \notin Doubtful' =>
           place'[f] \in recon.toVisit \/ <<f, place'[f]>> \in recon.found \/ f \in Z
      BY <2>1, <2>2 DEF Stands, There, ReconcileLocks
    <2>7. Cardinality(named') = recon.registered => named' = named
      BY <1>3, <1>4 DEF Counting
    <2>8. Stands(Z)'
      BY <2>2, <2>4, <2>5, <2>6, <2>7 DEF Stands, ReconcileLocks
    <2> QED BY <2>3, <2>8
  <1>5. ReconcileLocks => /\ recon.rows \subseteq named'
                          /\ ~touched' => named' \ recon.rows \subseteq Doubtful'
    <2> SUFFICES ASSUME ReconcileLocks
                 PROVE  /\ recon.rows \subseteq named'
                        /\ ~touched' => named' \ recon.rows \subseteq Doubtful'
      OBVIOUS
    <2>1. /\ recon.rows \subseteq named
          /\ ~touched => named \ recon.rows \subseteq Doubtful
      BY <1>1 DEF Counted
    <2>2. named \subseteq named' /\ (named' = named \/ named' \ named \subseteq Doubtful')
      OBVIOUS
    <2> QED BY <2>1, <2>2
  <1> QED BY <1>1, <1>3, <1>4, <1>5 DEF Counted, ReconcileLocks

(* A poll is given a file of its own, and the directory is touched         *)
(* (StagePoll).                                                            *)
LEMMA StagingKeeps ==
    ASSUME ReconcileInv, NEW p \in Writer, NEW f \in unused, StagePoll(p, f)
    PROVE  ReconcileInv'
  <1>1. /\ ReconcileTypes /\ PollsApart /\ NamedAreInstalled /\ UnusedAreNowhere
        /\ f \in RawFile /\ f \notin UnderWay /\ f \notin named
    BY DEF ReconcileInv, UnusedAreNowhere, ReconcileTypes
  <1>2. /\ poll[p] = NoPoll /\ Put(f, "staged") /\ unused' = unused \ {f}
        /\ poll' = [poll EXCEPT ![p] = [step |-> "staged", file |-> {f}]]
        /\ touched' /\ named' = named /\ left' = left /\ lease' = lease
        /\ recon' = recon
    BY DEF StagePoll, resting
  <1>3. /\ place' \in [RawFile -> Wheres \cup {"none"}] /\ place'[f] = "staged"
        /\ \A g \in RawFile \ {f} : place'[g] = place[g]
    BY <1>1, <1>2, FileIsPut DEF Wheres
  <1>4. /\ poll' \in [Writer -> [step : PollSteps, file : SUBSET RawFile]]
        /\ poll'[p].step = "staged" /\ poll'[p].file = {f}
        /\ \A q \in Writer \ {p} : poll'[q] = poll[q]
    <2>1. [step |-> "staged", file |-> {f}] \in [step : PollSteps, file : SUBSET RawFile]
      BY <1>1 DEF PollSteps
    <2> QED BY <1>1, <1>2, <2>1, PollIsSet
  <1>5. \A q \in Writer : f \notin poll[q].file
    BY <1>1 DEF UnderWay, Writer
  <1>6. UnderWay' \subseteq UnderWay \cup {f}
    BY <1>4 DEF UnderWay, Writer
  <1>7. ReconcileTypes'
    BY <1>1, <1>2, <1>3, <1>4 DEF ReconcileTypes
  <1>8. PollsApart'
    <2>1. ASSUME NEW q \in Writer
          PROVE  /\ IF poll'[q].step = "none" THEN poll'[q].file = {}
                    ELSE \E g \in RawFile : poll'[q].file = {g}
                 /\ poll'[q].step \in {"installed", "committed"} =>
                        \A g \in poll'[q].file : place'[g] = "installed"
      <3>1. CASE q = p
        BY <1>1, <1>4, <3>1
      <3>2. CASE q # p
        <4>1. poll'[q] = poll[q] /\ poll[q].file \subseteq RawFile \ {f}
          BY <1>1, <1>4, <1>5, <3>2 DEF ReconcileTypes
        <4> QED BY <1>1, <1>3, <4>1 DEF PollsApart
      <3> QED BY <3>1, <3>2
    <2>2. poll'[Us].file \cap poll'[Them].file = {}
      BY <1>4, <1>5, ReconcileAssumption DEF Writer
    <2> QED BY <2>1, <2>2 DEF PollsApart
  <1>9. NamedAreInstalled'
    <2> SUFFICES ASSUME NEW g \in named
                 PROVE  /\ place'[g] = "installed"
                        /\ \A q \in Writer : g \in poll'[q].file => poll'[q].step = "committed"
      BY <1>2 DEF NamedAreInstalled
    <2>1. g \in RawFile \ {f}
      BY <1>1 DEF ReconcileTypes
    <2> QED BY <1>1, <1>3, <1>4, <2>1 DEF NamedAreInstalled
  <1>10. UnusedAreNowhere'
    <2> SUFFICES ASSUME NEW g \in unused \ {f}
                 PROVE  place'[g] = "none" /\ g \notin UnderWay' /\ g \notin named
      BY <1>2 DEF UnusedAreNowhere
    <2>1. g \in RawFile
      BY <1>1 DEF ReconcileTypes
    <2> QED BY <1>1, <1>3, <1>6, <2>1 DEF UnusedAreNowhere
  <1>11. Counted'
    BY <1>1, <1>2, NamedIsFinite, PollsGoOn
  <1> QED BY <1>7, <1>8, <1>9, <1>10, <1>11 DEF ReconcileInv

(* A step of a poll that changes nothing but where its file is, if that.   *)
LEMMA PollMovesOn ==
    ASSUME ReconcileInv, NEW p \in Writer, NEW step \in PollSteps \ {"none"},
           poll[p].step # "none", Step(p, step),
           UNCHANGED <<named, unused, left, lease, recon, touched>>,
           \/ UNCHANGED place
           \/ \E f \in poll[p].file : \E where \in {"installed", "none"} : Put(f, where),
           step = "installed" => \E f \in poll[p].file : Put(f, "installed"),
           step # "committed", poll[p].step # "committed"
    PROVE  ReconcileInv'
  <1>1. /\ ReconcileTypes /\ PollsApart /\ NamedAreInstalled /\ UnusedAreNowhere
    BY DEF ReconcileInv
  <1>2. PICK f \in RawFile : poll[p].file = {f}
    BY <1>1 DEF PollsApart
  <1>3. f \in UnderWay /\ \A q \in Writer \ {p} : f \notin poll[q].file
    BY <1>1, <1>2, OwnFile
  <1>4. f \notin named /\ f \notin unused
    BY <1>1, <1>2, <1>3 DEF NamedAreInstalled, UnusedAreNowhere
  <1>5. /\ poll' \in [Writer -> [step : PollSteps, file : SUBSET RawFile]]
        /\ \A q \in Writer : poll'[q].file = poll[q].file
        /\ poll'[p].step = step /\ UnderWay' = UnderWay
        /\ \A q \in Writer \ {p} : poll'[q] = poll[q]
    BY <1>1, StepIsTaken
  <1>6. /\ place' \in [RawFile -> Wheres \cup {"none"}]
        /\ \A g \in RawFile \ {f} : place'[g] = place[g]
        /\ place'[f] = place[f] \/ place'[f] \in {"installed", "none"}
        /\ step = "installed" => place'[f] = "installed"
    <2>1. CASE UNCHANGED place
      <3>1. step = "installed" => place'[f] = "installed"
        BY <1>1, <1>2, FileIsPut DEF Wheres
      <3> QED BY <1>1, <2>1, <3>1 DEF ReconcileTypes
    <2>2. ASSUME NEW where \in {"installed", "none"}, Put(f, where)
          PROVE  /\ place' \in [RawFile -> Wheres \cup {"none"}]
                 /\ \A g \in RawFile \ {f} : place'[g] = place[g]
                 /\ place'[f] \in {"installed", "none"}
      BY <1>1, <2>2, FileIsPut DEF Wheres
    <2>3. step = "installed" => place'[f] = "installed"
      BY <1>1, <1>2, FileIsPut DEF Wheres
    <2> QED BY <1>2, <2>1, <2>2, <2>3
  <1>7. ReconcileTypes'
    BY <1>1, <1>5, <1>6 DEF ReconcileTypes
  <1>8. PollsApart'
    <2>1. ASSUME NEW q \in Writer
          PROVE  /\ IF poll'[q].step = "none" THEN poll'[q].file = {}
                    ELSE \E g \in RawFile : poll'[q].file = {g}
                 /\ poll'[q].step \in {"installed", "committed"} =>
                        \A g \in poll'[q].file : place'[g] = "installed"
      <3>1. CASE q = p
        BY <1>2, <1>5, <1>6, <3>1
      <3>2. CASE q # p
        <4>1. poll'[q] = poll[q] /\ poll[q].file \subseteq RawFile \ {f}
          BY <1>1, <1>3, <1>5, <3>2 DEF ReconcileTypes
        <4> QED BY <1>1, <1>6, <4>1 DEF PollsApart
      <3> QED BY <3>1, <3>2
    <2>2. poll'[Us].file \cap poll'[Them].file = {}
      BY <1>1, <1>5 DEF PollsApart, Writer
    <2> QED BY <2>1, <2>2 DEF PollsApart
  <1>9. NamedAreInstalled'
    <2> SUFFICES ASSUME NEW g \in named
                 PROVE  /\ place'[g] = "installed"
                        /\ \A q \in Writer : g \in poll'[q].file => poll'[q].step = "committed"
      BY DEF NamedAreInstalled
    <2>1. g \in RawFile \ {f}
      BY <1>1, <1>4 DEF ReconcileTypes
    <2>2. g \notin poll'[p].file
      BY <1>2, <1>5, <2>1
    <2> QED BY <1>1, <1>5, <1>6, <2>1, <2>2 DEF NamedAreInstalled
  <1>10. UnusedAreNowhere'
    <2> SUFFICES ASSUME NEW g \in unused
                 PROVE  place'[g] = "none" /\ g \notin UnderWay' /\ g \notin named
      BY DEF UnusedAreNowhere
    <2>1. g \in RawFile \ {f}
      BY <1>1, <1>4 DEF ReconcileTypes
    <2> QED BY <1>1, <1>5, <1>6, <2>1 DEF UnusedAreNowhere
  <1>11. Counted'
    <2>1. Doubtful' = Doubtful /\ f \in Doubtful
      BY <1>3, <1>5 DEF Doubtful
    <2>2. \A g \in RawFile : \/ place'[g] = place[g]
                             \/ g \in Doubtful /\ place'[g] \in {"installed", "none"}
      BY <1>6, <2>1
    <2> QED BY <1>1, <2>1, <2>2, NamedIsFinite, PollsGoOn
  <1> QED BY <1>7, <1>8, <1>9, <1>10, <1>11 DEF ReconcileInv

(* The commit adds a row: the number of named files differs from then on   *)
(* (CommitPoll).                                                           *)
LEMMA CommitKeeps ==
    ASSUME ReconcileInv, NEW p \in Writer, CommitPoll(p)
    PROVE  ReconcileInv'
  <1>1. /\ ReconcileTypes /\ PollsApart /\ NamedAreInstalled /\ UnusedAreNowhere
    BY DEF ReconcileInv
  <1>2. /\ poll[p].step = "installed" /\ Step(p, "committed")
        /\ named' = named \cup poll[p].file /\ place' = place
        /\ touched' = touched /\ unused' = unused /\ left' = left
        /\ lease' = lease /\ recon' = recon
    BY DEF CommitPoll, resting
  <1>3. PICK f \in RawFile : poll[p].file = {f}
    BY <1>1, <1>2 DEF PollsApart
  <1>4. /\ f \in UnderWay /\ place[f] = "installed"
        /\ \A q \in Writer \ {p} : f \notin poll[q].file
    BY <1>1, <1>2, <1>3, OwnFile DEF PollsApart
  <1>5. f \notin named /\ f \notin unused /\ named' = named \cup {f}
    BY <1>1, <1>2, <1>3, <1>4 DEF NamedAreInstalled, UnusedAreNowhere
  <1>6. /\ poll' \in [Writer -> [step : PollSteps, file : SUBSET RawFile]]
        /\ \A q \in Writer : poll'[q].file = poll[q].file
        /\ poll'[p].step = "committed" /\ UnderWay' = UnderWay
        /\ \A q \in Writer \ {p} : poll'[q] = poll[q]
    BY <1>1, <1>2, StepIsTaken DEF PollSteps
  <1>7. ReconcileTypes'
    BY <1>1, <1>2, <1>5, <1>6 DEF ReconcileTypes
  <1>8. PollsApart'
    <2>1. ASSUME NEW q \in Writer
          PROVE  /\ IF poll'[q].step = "none" THEN poll'[q].file = {}
                    ELSE \E g \in RawFile : poll'[q].file = {g}
                 /\ poll'[q].step \in {"installed", "committed"} =>
                        \A g \in poll'[q].file : place'[g] = "installed"
      <3>1. CASE q = p
        BY <1>2, <1>3, <1>4, <1>6, <3>1
      <3>2. CASE q # p
        BY <1>1, <1>2, <1>6, <3>2 DEF PollsApart
      <3> QED BY <3>1, <3>2
    <2>2. poll'[Us].file \cap poll'[Them].file = {}
      BY <1>1, <1>6 DEF PollsApart, Writer
    <2> QED BY <2>1, <2>2 DEF PollsApart
  <1>9. NamedAreInstalled'
    <2> SUFFICES ASSUME NEW g \in named'
                 PROVE  /\ place[g] = "installed"
                        /\ \A q \in Writer : g \in poll'[q].file => poll'[q].step = "committed"
      BY <1>2 DEF NamedAreInstalled
    <2>1. CASE g = f
      BY <1>4, <1>6, <2>1
    <2>2. CASE g \in named
      <3>1. g \notin poll'[p].file
        BY <1>3, <1>5, <1>6, <2>2
      <3> QED BY <1>1, <1>6, <2>2, <3>1 DEF NamedAreInstalled
    <2> QED BY <1>5, <2>1, <2>2
  <1>10. UnusedAreNowhere'
    BY <1>1, <1>2, <1>5, <1>6 DEF UnusedAreNowhere
  <1>11. Counted'
    <2>1. Doubtful' = Doubtful
      BY <1>2, <1>6 DEF Doubtful
    <2>2. IsFiniteSet(named) /\ Cardinality(named) \in Nat
      BY <1>1, NamedIsFinite
    <2>3. Cardinality(named') = Cardinality(named) + 1
      BY <1>5, <2>2, FS_AddElement
    <2>4. Cardinality(named') > Cardinality(named) /\ Cardinality(named') \in Nat
      BY <2>2, <2>3
    <2>5. named \subseteq named' /\ named' \ named \subseteq Doubtful'
      BY <1>4, <1>5, <2>1 DEF Doubtful
    <2> QED BY <1>2, <2>1, <2>4, <2>5, PollsGoOn
  <1> QED BY <1>7, <1>8, <1>9, <1>10, <1>11 DEF ReconcileInv

(* A poll is over: tidied up, or left for the next start.                  *)
LEMMA EndingKeeps ==
    ASSUME ReconcileInv, NEW p \in Writer, poll' = [poll EXCEPT ![p] = NoPoll],
           UNCHANGED <<place, named, unused, lease, recon>>,
           left' = left \/ left' = left \cup poll[p].file,
           touched' = TRUE \/ (touched' = touched /\ left' = left \cup poll[p].file)
    PROVE  ReconcileInv'
  <1>1. /\ ReconcileTypes /\ PollsApart /\ NamedAreInstalled /\ UnusedAreNowhere
    BY DEF ReconcileInv
  <1>2. /\ poll' \in [Writer -> [step : PollSteps, file : SUBSET RawFile]]
        /\ poll'[p].step = "none" /\ poll'[p].file = {}
        /\ \A q \in Writer \ {p} : poll'[q] = poll[q]
    <2>1. /\ NoPoll \in [step : PollSteps, file : SUBSET RawFile]
          /\ NoPoll.step = "none" /\ NoPoll.file = {}
      BY DEF NoPoll, PollSteps
    <2> QED BY <1>1, <2>1, PollIsSet
  <1>3. poll[p].file \subseteq RawFile
    BY <1>1 DEF ReconcileTypes
  <1>4. UnderWay' \subseteq UnderWay /\ UnderWay \subseteq UnderWay' \cup poll[p].file
    BY <1>2 DEF UnderWay, Writer
  <1>5. ReconcileTypes'
    BY <1>1, <1>2, <1>3 DEF ReconcileTypes
  <1>6. PollsApart'
    <2>1. ASSUME NEW q \in Writer
          PROVE  /\ IF poll'[q].step = "none" THEN poll'[q].file = {}
                    ELSE \E g \in RawFile : poll'[q].file = {g}
                 /\ poll'[q].step \in {"installed", "committed"} =>
                        \A g \in poll'[q].file : place'[g] = "installed"
      BY <1>1, <1>2 DEF PollsApart
    <2>2. \A q \in Writer : poll'[q].file \subseteq poll[q].file
      BY <1>2
    <2>3. poll'[Us].file \cap poll'[Them].file = {}
      BY <1>1, <2>2 DEF PollsApart, Writer
    <2> QED BY <2>1, <2>3 DEF PollsApart
  <1>7. NamedAreInstalled'
    BY <1>1, <1>2 DEF NamedAreInstalled
  <1>8. UnusedAreNowhere'
    BY <1>1, <1>4 DEF UnusedAreNowhere
  <1>9. Counted'
    <2>1. left' = left \cup poll[p].file => Doubtful \subseteq Doubtful'
      BY <1>4 DEF Doubtful
    <2> QED BY <1>1, <2>1, NamedIsFinite, PollsGoOn
  <1> QED BY <1>5, <1>6, <1>7, <1>8, <1>9 DEF ReconcileInv

(* Files are deleted while nobody reconciles.                              *)
LEMMA DeletingKeeps ==
    ASSUME ReconcileInv, Acquired, NEW gone \in SUBSET RawFile,
           UNCHANGED <<unused, poll, left, lease, recon>>,
           touched' = TRUE, named' = named \ gone,
           \/ UNCHANGED place
           \/ /\ \A f \in gone : \A q \in Writer : f \notin poll[q].file
              /\ place' = [f \in RawFile |-> IF f \in gone THEN "none" ELSE place[f]]
    PROVE  ReconcileInv'
  <1>1. /\ ReconcileTypes /\ PollsApart /\ NamedAreInstalled /\ UnusedAreNowhere
        /\ Counted
    BY DEF ReconcileInv
  <1>2. recon.at = "idle"
    BY <1>1, ReconcileAssumption DEF Counted, Acquired
  <1>3. /\ place' \in [RawFile -> Wheres \cup {"none"}]
        /\ \A f \in RawFile : place'[f] = place[f] \/ (f \in gone /\ place'[f] = "none")
        /\ \A q \in Writer : \A f \in poll[q].file : place'[f] = place[f]
    BY <1>1 DEF ReconcileTypes
  <1>4. UnderWay' = UnderWay
    BY DEF UnderWay
  <1>5. ReconcileTypes'
    BY <1>1, <1>3 DEF ReconcileTypes
  <1>6. PollsApart'
    BY <1>1, <1>3 DEF PollsApart
  <1>7. NamedAreInstalled'
    <2> SUFFICES ASSUME NEW f \in named \ gone
                 PROVE  /\ place'[f] = "installed"
                        /\ \A q \in Writer : f \in poll[q].file => poll[q].step = "committed"
      BY DEF NamedAreInstalled
    <2>1. f \in RawFile
      BY <1>1 DEF ReconcileTypes
    <2> QED BY <1>1, <1>3, <2>1 DEF NamedAreInstalled
  <1>8. UnusedAreNowhere'
    <2> SUFFICES ASSUME NEW f \in unused
                 PROVE  place'[f] = "none" /\ f \notin UnderWay /\ f \notin named
      BY <1>4 DEF UnusedAreNowhere
    <2>1. f \in RawFile
      BY <1>1 DEF ReconcileTypes
    <2> QED BY <1>1, <1>3, <2>1 DEF UnusedAreNowhere
  <1>9. Counted'
    BY <1>2 DEF Counted, Counting, ReconcileLocks
  <1> QED BY <1>5, <1>6, <1>7, <1>8, <1>9 DEF ReconcileInv

-----------------------------------------------------------------------------
(* Reconciling                                                             *)

(* Reconciling changes nothing about files and polls: it is enough to look *)
(* at what it has counted.                                                 *)
LEMMA ReconcilingKeeps ==
    ASSUME ReconcileInv, UNCHANGED <<place, named, unused, poll>>,
           left' \in SUBSET RawFile, touched' \in BOOLEAN,
           lease' \in {"free", Us}, recon' \in Recon, Counted'
    PROVE  ReconcileInv'
  BY DEF ReconcileInv, ReconcileTypes, PollsApart, NamedAreInstalled,
         UnusedAreNowhere, UnderWay, Recon

(* The first step, and the last one of an attempt.                         *)
LEMMA StartingOver ==
    ASSUME \/ recon' = NotReconciling
           \/ /\ lease' = Us
              /\ \E n \in Nat : recon' = [NotReconciling EXCEPT !.at = "registered",
                                                                !.attempt = n]
    PROVE  Counted' /\ recon' \in Recon
  <1>1. NotReconciling \in Recon /\ NotReconciling.at = "idle"
        /\ NotReconciling.found = {} /\ NotReconciling.sized = 0
    BY DEF NotReconciling, Recon, ReconSteps
  <1>2. CASE recon' = NotReconciling
    BY <1>1, <1>2 DEF Counted, Counting, ReconcileLocks
  <1>3. ASSUME lease' = Us, NEW n \in Nat,
               recon' = [NotReconciling EXCEPT !.at = "registered", !.attempt = n]
        PROVE  Counted' /\ recon' \in Recon
    <2>1. /\ recon' \in Recon /\ recon'.at = "registered" /\ recon'.found = {}
          /\ recon'.sized = 0
      BY <1>3 DEF NotReconciling, Recon, ReconSteps
    <2> QED BY <1>3, <2>1 DEF Counted, Counting, ReconcileLocks
  <1> QED BY <1>2, <1>3

(* A second attempt starts over, and there is no third (TryAgain, Ended).  *)
LEMMA TryingAgain ==
    ASSUME ReconcileInv, recon.at # "idle", TryAgain \/ Ended
    PROVE  Counted' /\ recon' \in Recon /\ lease' \in {"free", Us}
  <1>1. lease = Us
    BY DEF ReconcileInv, Counted
  <1>2. CASE Ended
    BY <1>2, StartingOver DEF Ended
  <1>3. CASE TryAgain /\ ~Ended
    <2>1. recon' = [NotReconciling EXCEPT !.at = "registered", !.attempt = 2]
          /\ lease' = lease
      BY <1>3 DEF TryAgain
    <2> QED BY <1>1, <2>1, StartingOver
  <1> QED BY <1>2, <1>3

(* The number of named files and the revision are read before anything is  *)
(* counted (ReadRegistered, ReadRevision).                                 *)
LEMMA ReadingKeeps ==
    ASSUME ReconcileInv, ReadRegistered \/ ReadRevision
    PROVE  ReconcileInv'
  <1>1. ReconcileTypes /\ Counted /\ recon \in Recon /\ Cardinality(named) \in Nat
    BY NamedIsFinite DEF ReconcileInv, ReconcileTypes, Recon
  <1>2. CASE ReadRegistered
    <2>1. /\ recon.at = "registered"
          /\ recon' = [recon EXCEPT !.registered = Cardinality(named), !.at = "revision"]
          /\ UNCHANGED <<place, named, unused, poll, touched, left, lease>>
      BY <1>2 DEF ReadRegistered, Going, world
    <2>2. /\ recon' \in Recon /\ recon'.at = "revision"
          /\ recon'.registered = Cardinality(named)
          /\ recon'.found = recon.found /\ recon'.sized = recon.sized
      BY <1>1, <2>1 DEF Recon, ReconSteps
    <2>3. Counted'
      BY <1>1, <2>1, <2>2 DEF Counted, Counting, ReconcileLocks
    <2> QED BY <1>1, <2>1, <2>2, <2>3, ReconcilingKeeps DEF ReconcileTypes
  <1>3. CASE ReadRevision
    <2>1. /\ recon.at = "revision" /\ touched' = FALSE
          /\ recon' = [recon EXCEPT !.at = "list", !.toVisit = {"staged", "installed"}]
          /\ UNCHANGED <<place, named, unused, poll, left, lease>>
      BY <1>3 DEF ReadRevision, world
    <2>2. /\ recon' \in Recon /\ recon'.at = "list"
          /\ recon'.registered = recon.registered
          /\ recon'.toVisit = Wheres /\ recon'.found = {} /\ recon'.sized = 0
      BY <1>1, <2>1 DEF Recon, ReconSteps, Counted, Wheres
    <2>3. Stands({})'
      <3>1. Cardinality({}) = 0
        BY FS_EmptySet
      <3>2. \A f \in RawFile : There(f)' => place'[f] \in Wheres
        BY <1>1, <2>1 DEF ReconcileTypes, There
      <3> QED BY <2>1, <2>2, <3>1, <3>2 DEF Stands, Wheres, ReconcileLocks
    <2>4. Counted'
      BY <1>1, <2>1, <2>2, <2>3 DEF Counted, Counting, ReconcileLocks
    <2> QED BY <1>1, <2>1, <2>2, <2>4, ReconcilingKeeps DEF ReconcileTypes
  <1> QED BY <1>2, <1>3

(* Every file that is where the walk has come is found (List).             *)
LEMMA ListingKeeps ==
    ASSUME ReconcileInv, NEW where \in recon.toVisit, List(where)
    PROVE  ReconcileInv'
  <1>1. /\ ReconcileTypes /\ Counted /\ NamedAreInstalled /\ recon \in Recon
        /\ Cardinality(named) \in Nat
    BY NamedIsFinite DEF ReconcileInv, ReconcileTypes, Recon
  <1> DEFINE new == {<<f, where>> : f \in {g \in RawFile : place[g] = where}}
  <1>2. /\ recon.at = "list"
        /\ recon' = [recon EXCEPT !.toVisit = @ \ {where}, !.found = @ \cup new]
        /\ UNCHANGED <<place, named, unused, poll, touched, left, lease>>
    BY DEF List, Going, world
  <1>3. new \subseteq RawFile \X Wheres
    BY <1>1 DEF ReconcileTypes, Recon
  <1>4. /\ \A f \in RawFile : \A w \in Wheres :
               <<f, w>> \in new <=> w = where /\ place[f] = where
    OBVIOUS
  <1> HIDE DEF new
  <1>5. /\ recon' \in Recon /\ recon'.at = "list"
        /\ recon'.registered = recon.registered /\ recon'.sized = recon.sized
        /\ recon'.toVisit = recon.toVisit \ {where}
        /\ recon'.found = recon.found \cup new
    BY <1>1, <1>2, <1>3 DEF Recon
  <1>6. Doubtful' = Doubtful
    BY <1>2 DEF Doubtful, UnderWay
  <1>7. ASSUME ~touched
        PROVE  /\ \A f \in RawFile : <<f, "installed">> \in recon'.found => place[f] # "staged"
               /\ Stands({})'
    <2>1. /\ \A f \in RawFile : <<f, "installed">> \in recon.found => place[f] # "staged"
          /\ Stands({})
      BY <1>1, <1>2, <1>7 DEF Counted, Counting, Stands, ReconcileLocks
    <2>2. \A f \in RawFile : <<f, "installed">> \in recon'.found => place[f] # "staged"
      BY <1>4, <1>5, <2>1 DEF Wheres
    <2>3. \A f \in RawFile : There(f) /\ f \notin Doubtful =>
            place[f] \in recon'.toVisit \/ <<f, place[f]>> \in recon'.found
      <3> SUFFICES ASSUME NEW f \in RawFile, There(f), f \notin Doubtful,
                          place[f] \notin recon'.toVisit
                   PROVE  <<f, place[f]>> \in recon'.found
        OBVIOUS
      <3>1. place[f] \in Wheres
        BY <1>1 DEF ReconcileTypes, There
      <3>2. CASE place[f] = where
        BY <1>4, <1>5, <3>1, <3>2
      <3>3. CASE place[f] # where
        BY <1>5, <2>1, <3>3 DEF Stands
      <3> QED BY <3>2, <3>3
    <2>4. Cardinality(named) = recon.registered => \A f \in named :
            "installed" \in recon'.toVisit \/ <<f, "installed">> \in recon'.found
      <3> SUFFICES ASSUME Cardinality(named) = recon.registered, NEW f \in named,
                          "installed" \notin recon'.toVisit
                   PROVE  <<f, "installed">> \in recon'.found
        OBVIOUS
      <3>1. f \in RawFile /\ place[f] = "installed"
        BY <1>1 DEF ReconcileTypes, NamedAreInstalled
      <3>2. CASE where = "installed"
        BY <1>4, <1>5, <3>1, <3>2 DEF Wheres
      <3>3. CASE where # "installed"
        BY <1>5, <2>1, <3>3 DEF Stands
      <3> QED BY <3>2, <3>3
    <2>5. Stands({})'
      BY <1>2, <1>5, <1>6, <2>1, <2>3, <2>4 DEF Stands, There, ReconcileLocks
    <2> QED BY <2>2, <2>5
  <1>8. Counted'
    BY <1>1, <1>2, <1>5, <1>7 DEF Counted, Counting, ReconcileLocks
  <1> QED BY <1>1, <1>2, <1>5, <1>8, ReconcilingKeeps DEF ReconcileTypes

(* From one stage of counting to the next nothing is found or lost.        *)
LEMMA StageKeeps ==
    ASSUME ReconcileInv, NEW next \in Counting \ {"list", "locked"}, Goes(next),
           UNCHANGED <<place, named, unused, poll, touched, left, lease>>,
           recon.at \in Counting, recon.toVisit = {},
           next # "size" => recon.found = {}
    PROVE  ReconcileInv'
  <1>1. /\ ReconcileTypes /\ Counted /\ recon \in Recon
    BY DEF ReconcileInv, ReconcileTypes, Recon
  <1>2. /\ recon' \in Recon /\ recon'.at = next
        /\ recon'.registered = recon.registered /\ recon'.sized = recon.sized
        /\ recon'.toVisit = recon.toVisit /\ recon'.found = recon.found
    BY <1>1 DEF Goes, Recon, Counting, ReconSteps
  <1>3. Doubtful' = Doubtful
    BY DEF Doubtful, UnderWay
  <1>4. \A Z \in SUBSET RawFile : Stands(Z) => Stands(Z)'
    BY <1>2, <1>3 DEF Stands, There, Counting, ReconcileLocks
  <1>5. ~touched => /\ \A f \in RawFile : <<f, "installed">> \in recon'.found =>
                                              place[f] # "staged"
                    /\ \E Z \in SUBSET RawFile : Stands(Z)'
    BY <1>1, <1>2, <1>4 DEF Counted
  <1>6. Counted'
    BY <1>1, <1>2, <1>5 DEF Counted, Counting, ReconcileLocks
  <1> QED BY <1>1, <1>2, <1>6, ReconcilingKeeps DEF ReconcileTypes

(* The rows are read for the last time: what was sized stands for all that *)
(* they name (RegisteredUnderLock).                                        *)
LEMMA LockingKeeps ==
    ASSUME ReconcileInv, RegisteredUnderLock, SameRegistered
    PROVE  ReconcileInv'
  <1>1. /\ ReconcileTypes /\ Counted /\ recon \in Recon /\ named \in SUBSET RawFile
    BY DEF ReconcileInv, ReconcileTypes, Recon
  <1>2. /\ recon.at = "keep" /\ recon.found = {} /\ recon.toVisit = {}
        /\ recon' = [recon EXCEPT !.at = "locked", !.rows = named]
        /\ UNCHANGED <<place, named, unused, poll, touched, left, lease>>
    BY <1>1 DEF RegisteredUnderLock, world, Counted, Counting
  <1>3. /\ recon' \in Recon /\ recon'.at = "locked" /\ recon'.rows = named
        /\ recon'.registered = recon.registered /\ recon'.sized = recon.sized
        /\ recon'.toVisit = {} /\ recon'.found = {}
    BY <1>1, <1>2 DEF Recon, ReconSteps
  <1>4. Doubtful' = Doubtful
    BY <1>2 DEF Doubtful, UnderWay
  <1>5. \A Z \in SUBSET RawFile : Stands(Z) => Stands(Z)'
    <2> SUFFICES ASSUME NEW Z \in SUBSET RawFile, Stands(Z)
                 PROVE  Stands(Z)'
      OBVIOUS
    <2>1. named \subseteq Z
      BY <1>2 DEF Stands, SameRegistered
    <2> QED BY <1>2, <1>3, <1>4, <2>1 DEF Stands, There, ReconcileLocks
  <1>6. Counted'
    BY <1>1, <1>2, <1>3, <1>4, <1>5 DEF Counted, Counting, ReconcileLocks, SameRegistered
  <1> QED BY <1>1, <1>2, <1>3, <1>6, ReconcilingKeeps DEF ReconcileTypes

(* A file that is sized was not counted before: it has been where it was   *)
(* found ever since, or has been installed, and is then sized once         *)
(* (SizeFile).                                                             *)
LEMMA SizingKeeps ==
    ASSUME ReconcileInv, NEW e \in recon.found, SizeFile(e[1], e[2])
    PROVE  ReconcileInv'
  <1>1. /\ ReconcileTypes /\ Counted /\ recon \in Recon
    BY DEF ReconcileInv, ReconcileTypes, Recon
  <1>2. PICK f \in RawFile, where \in Wheres : e = <<f, where>>
    BY <1>1 DEF Recon
  <1>3. /\ recon.at = "size" /\ <<f, where>> \in recon.found /\ place[f] = where
        /\ recon' = [recon EXCEPT !.found = @ \ {<<f, where>>}, !.sized = @ + 1]
        /\ UNCHANGED <<place, named, unused, poll, touched, left, lease>>
    BY <1>2 DEF SizeFile, Going, world
  <1>4. /\ recon' \in Recon /\ recon'.at = "size"
        /\ recon'.registered = recon.registered /\ recon'.sized = recon.sized + 1
        /\ recon'.toVisit = recon.toVisit
        /\ recon'.found = recon.found \ {<<f, where>>}
    <2>1. /\ recon.found \ {<<f, where>>} \in SUBSET (RawFile \X Wheres)
          /\ recon.sized + 1 \in Nat
      BY <1>1 DEF Recon
    <2>2. recon' = [at |-> recon.at, attempt |-> recon.attempt,
                    registered |-> recon.registered, toVisit |-> recon.toVisit,
                    found |-> recon.found \ {<<f, where>>}, sized |-> recon.sized + 1,
                    rows |-> recon.rows]
      BY <1>1, <1>3 DEF Recon
    <2> QED BY <1>1, <1>3, <2>1, <2>2 DEF Recon
  <1>5. Doubtful' = Doubtful
    BY <1>3 DEF Doubtful, UnderWay
  <1>6. ASSUME ~touched
        PROVE  /\ \A g \in RawFile : <<g, "installed">> \in recon'.found => place[g] # "staged"
               /\ \E Z \in SUBSET RawFile : Stands(Z)'
    <2>1. PICK Z \in SUBSET RawFile : Stands(Z)
      BY <1>1, <1>3, <1>6 DEF Counted, Counting, ReconcileLocks
    <2>2. \A g \in RawFile : <<g, "installed">> \in recon.found => place[g] # "staged"
      BY <1>1, <1>3, <1>6 DEF Counted, Counting, ReconcileLocks
    <2>3. f \notin Z
      BY <1>3, <2>1 DEF Stands, Wheres, ReconcileLocks
    <2>4. Cardinality(Z \cup {f}) = recon'.sized
      <3>1. IsFiniteSet(Z) /\ Cardinality(Z) = recon.sized
        BY <2>1, FS_Subset, ReconcileAssumption DEF Stands
      <3>2. Cardinality(Z \cup {f}) = Cardinality(Z) + 1
        BY <2>3, <3>1, FS_AddElement
      <3> QED BY <1>4, <3>1, <3>2
    <2>5. ASSUME NEW g \in Z \cup {f}
          PROVE  /\ There(g) \/ g \in Doubtful
                 /\ <<g, "installed">> \notin recon'.found
                 /\ <<g, "staged">> \in recon'.found => place[g] # "staged"
      <3>1. CASE g = f
        <4>1. There(f)
          BY <1>3, <1>2 DEF There, Wheres
        <4>2. CASE where = "installed"
          BY <1>3, <1>4, <3>1, <4>1, <4>2
        <4>3. CASE where = "staged"
          BY <1>3, <1>4, <2>2, <3>1, <4>1, <4>3
        <4> QED BY <4>2, <4>3 DEF Wheres
      <3>2. CASE g \in Z
        BY <1>4, <2>1, <3>2 DEF Stands
      <3> QED BY <3>1, <3>2
    <2>6. \A g \in RawFile : There(g) /\ g \notin Doubtful =>
              \/ place[g] \in recon'.toVisit \/ <<g, place[g]>> \in recon'.found
              \/ g \in Z \cup {f}
      BY <1>4, <2>1 DEF Stands
    <2>7. Cardinality(named) = recon'.registered => \A g \in named :
              \/ "installed" \in recon'.toVisit \/ <<g, "installed">> \in recon'.found
              \/ g \in Z \cup {f}
      BY <1>4, <2>1 DEF Stands
    <2>8. Stands(Z \cup {f})'
      BY <1>3, <1>4, <1>5, <2>4, <2>5, <2>6, <2>7 DEF Stands, There, ReconcileLocks
    <2>9. Z \cup {f} \in SUBSET RawFile
      OBVIOUS
    <2>10. \A g \in RawFile : <<g, "installed">> \in recon'.found => place[g] # "staged"
      BY <1>4, <2>2
    <2> QED BY <2>8, <2>9, <2>10
  <1>7. Counted'
    BY <1>1, <1>3, <1>4, <1>6 DEF Counted, Counting, ReconcileLocks
  <1> QED BY <1>1, <1>3, <1>4, <1>7, ReconcilingKeeps DEF ReconcileTypes

-----------------------------------------------------------------------------
(* The theorems                                                            *)

(* Before anything has happened there are no polls and nobody reconciles.  *)
LEMMA ReconcileStarts == ReconcileInit => ReconcileInv
  <1> SUFFICES ASSUME ReconcileInit PROVE ReconcileInv
    OBVIOUS
  <1>1. NotReconciling \in Recon /\ NotReconciling.at = "idle"
    BY DEF NotReconciling, Recon, ReconSteps
  <1>2. /\ \A p \in Writer : poll[p] = NoPoll
        /\ poll \in [Writer -> [step : PollSteps, file : SUBSET RawFile]]
        /\ NoPoll.step = "none" /\ NoPoll.file = {}
    BY DEF ReconcileInit, Writer, NoPoll, PollSteps
  <1>3. UnderWay = {}
    BY <1>2 DEF UnderWay, Writer
  <1>4. ReconcileTypes
    BY <1>1, <1>2 DEF ReconcileInit, ReconcileTypes, Recon, Wheres
  <1>5. PollsApart
    BY <1>2 DEF PollsApart, Writer
  <1>6. NamedAreInstalled
    BY <1>2 DEF NamedAreInstalled, ReconcileInit, There
  <1>7. UnusedAreNowhere
    BY <1>3 DEF UnusedAreNowhere, ReconcileInit, There
  <1>8. Counted
    BY <1>1 DEF Counted, Counting, ReconcileInit, ReconcileLocks
  <1> QED BY <1>4, <1>5, <1>6, <1>7, <1>8 DEF ReconcileInv

(* Storing a poll, by either process, keeps the invariant (StorePolls).    *)
LEMMA StoringKeeps ==
    ASSUME ReconcileInv, StorePolls
    PROVE  ReconcileInv'
  <1>1. PICK p \in Writer :
            \/ \E f \in unused : StagePoll(p, f)
            \/ InstallPoll(p) \/ CommitPoll(p) \/ TidyPoll(p)
            \/ PollFails(p) \/ UndoPoll(p) \/ TidyFailedPoll(p) \/ LeavePoll(p)
    BY DEF StorePolls, Writer
  <1>2. poll[p].step \in PollSteps
    BY DEF ReconcileInv, ReconcileTypes
  <1>3. ASSUME NEW f \in unused, StagePoll(p, f) PROVE ReconcileInv'
    BY <1>3, StagingKeeps
  <1>4. CASE InstallPoll(p)
    BY <1>4, PollMovesOn DEF InstallPoll, resting, PollSteps
  <1>5. CASE CommitPoll(p)
    BY <1>5, CommitKeeps
  <1>6. CASE TidyPoll(p) \/ TidyFailedPoll(p)
    BY <1>6, EndingKeeps DEF TidyPoll, TidyFailedPoll, resting
  <1>7. CASE PollFails(p)
    BY <1>7, PollMovesOn DEF PollFails, resting, PollSteps
  <1>8. CASE UndoPoll(p)
    BY <1>8, PollMovesOn DEF UndoPoll, resting, PollSteps
  <1>9. CASE LeavePoll(p)
    BY <1>9, EndingKeeps DEF LeavePoll
  <1> QED BY <1>1, <1>3, <1>4, <1>5, <1>6, <1>7, <1>8, <1>9

(* Deleting files needs the lease, which reconciling holds (Deletions).    *)
LEMMA DeletionsKeep ==
    ASSUME ReconcileInv, Deletions
    PROVE  ReconcileInv'
  <1>1. PICK gone \in SUBSET RawFile :
            DeleteFiles(Us, gone) \/ DeleteFiles(Them, gone) \/ DeletionCutShort(gone)
    BY DEF Deletions
  <1>2. CASE DeletionCutShort(gone)
    BY <1>2, DeletingKeeps DEF DeletionCutShort
  <1>3. ASSUME NEW p \in Writer, DeleteFiles(p, gone) PROVE ReconcileInv'
    BY <1>3, DeletingKeeps DEF DeleteFiles, Writer
  <1> QED BY <1>1, <1>2, <1>3 DEF Writer

(* Every step of reconcile_storage_health() keeps the invariant            *)
(* (Reconcile).                                                            *)
LEMMA ReconcileKeeps ==
    ASSUME ReconcileInv, Reconcile
    PROVE  ReconcileInv'
  <1>1. /\ ReconcileTypes /\ Counted /\ left \in SUBSET RawFile /\ touched \in BOOLEAN
    BY DEF ReconcileInv, ReconcileTypes
  <1>2. CASE ReconcileBegins
    <2>1. Counted' /\ recon' \in Recon
      BY <1>2, StartingOver DEF ReconcileBegins
    <2> QED BY <1>1, <1>2, <2>1, ReconcilingKeeps DEF ReconcileBegins, world
  <1>3. CASE ReadRegistered \/ ReadRevision
    BY <1>3, ReadingKeeps
  <1>4. ASSUME NEW where \in recon.toVisit, List(where) PROVE ReconcileInv'
    BY <1>4, ListingKeeps
  <1>5. CASE Listed
    BY <1>5, StageKeeps DEF Listed, Going, world, Counting
  <1>6. ASSUME NEW e \in recon.found, SizeFile(e[1], e[2]) PROVE ReconcileInv'
    BY <1>6, SizingKeeps
  <1>7. ASSUME recon.at # "idle", TryAgain \/ Ended,
               UNCHANGED <<place, named, unused, poll, touched, left>>
        PROVE  ReconcileInv'
    BY <1>1, <1>7, TryingAgain, ReconcilingKeeps
  <1>8. CASE ReconcileRaises
    BY <1>7, <1>8 DEF ReconcileRaises, world
  <1>9. CASE RegisteredAgain
    <2>1. CASE SameRegistered
      BY <1>1, <1>9, <2>1, StageKeeps DEF RegisteredAgain, world, Counting, Counted
    <2>2. CASE ~SameRegistered
      BY <1>7, <1>9, <2>2 DEF RegisteredAgain, world
    <2> QED BY <2>1, <2>2
  <1>10. CASE RevisionAgain
    <2>1. CASE SameRevision
      BY <1>1, <1>10, <2>1, StageKeeps DEF RevisionAgain, world, Counting, Counted
    <2>2. CASE ~SameRevision
      BY <1>7, <1>10, <2>2 DEF RevisionAgain, world
    <2> QED BY <2>1, <2>2
  <1>11. CASE RegisteredUnderLock
    <2>1. CASE SameRegistered
      BY <1>11, <2>1, LockingKeeps
    <2>2. CASE ~SameRegistered
      BY <1>7, <1>11, <2>2 DEF RegisteredUnderLock, world
    <2> QED BY <2>1, <2>2
  <1>12. CASE KeepResult
    BY <1>7, <1>12 DEF KeepResult, world
  <1> QED BY <1>2, <1>3, <1>4, <1>5, <1>6, <1>8, <1>9, <1>10, <1>11, <1>12 DEF Reconcile

(* The invariant holds in every state that reconcile_storage_health(), the *)
(* polls and the deletions can reach, whatever files there are.            *)
THEOREM ReconcileInvariance == ReconcileSpec => []ReconcileInv
  <1>1. ReconcileInv /\ [ReconcileNext]_reconcileVars => ReconcileInv'
    <2> SUFFICES ASSUME ReconcileInv, [ReconcileNext]_reconcileVars
                 PROVE  ReconcileInv'
      OBVIOUS
    <2>1. CASE UNCHANGED reconcileVars
      <3>1. /\ UNCHANGED <<place, named, unused, poll, left, touched, lease, recon>>
            /\ Doubtful' = Doubtful
        BY <2>1 DEF reconcileVars, Doubtful, UnderWay
      <3>2. \A Z \in SUBSET RawFile : Stands(Z)' <=> Stands(Z)
        BY <3>1 DEF Stands, There, ReconcileLocks
      <3>3. Counted'
        BY <3>1, <3>2 DEF ReconcileInv, Counted, ReconcileLocks
      <3> QED BY <3>1, <3>3, ReconcilingKeeps DEF ReconcileInv, ReconcileTypes
    <2> QED BY <2>1, StoringKeeps, DeletionsKeep, ReconcileKeeps DEF ReconcileNext
  <1> QED BY <1>1, ReconcileStarts, PTL DEF ReconcileSpec

(* The files that rows named when they were read for the last time are as  *)
(* many as before, and all of them were sized.  What is left is all that   *)
(* no row names, but for files that polls are or were at work on.          *)
LEMMA OrphansBetween ==
    ASSUME ReconcileInv, NEW Z \in SUBSET RawFile, Stands(Z), recon.found = {},
           recon.toVisit = {}, ReconcileLocks, ~touched
    PROVE  /\ recon.sized >= recon.registered
           /\ Less(recon.sized, recon.registered)
                 \in Cardinality(Orphans \ Doubtful)
                     .. Cardinality(Orphans \cup (Doubtful \ recon.rows))
  <1> DEFINE rows == recon.rows
             low == Orphans \ Doubtful
             rest == Z \ rows
             high == Orphans \cup (Doubtful \ rows)
  <1>1. /\ rows \in SUBSET RawFile /\ Orphans \in SUBSET RawFile
        /\ Doubtful \in SUBSET RawFile /\ recon \in Recon
    BY DEF ReconcileInv, ReconcileTypes, Orphans, Doubtful, UnderWay, Recon, Writer
  <1>2. /\ rows \subseteq Z /\ rows \subseteq named /\ named \ rows \subseteq Doubtful
        /\ Cardinality(rows) = recon.registered
    BY DEF Stands, ReconcileInv, Counted
  <1>3. low \subseteq rest
    <2> SUFFICES ASSUME NEW f \in low PROVE f \in Z
      BY <1>2 DEF Orphans
    <2> QED BY <1>1, <1>2 DEF Stands, Orphans
  <1>4. rest \subseteq high
    BY <1>1, <1>2 DEF Stands, Orphans
  <1>5. /\ IsFiniteSet(low) /\ IsFiniteSet(rest) /\ IsFiniteSet(high)
        /\ IsFiniteSet(Z) /\ IsFiniteSet(rows)
    BY <1>1, FS_Subset, ReconcileAssumption
  <1>6. Cardinality(rest) = Cardinality(Z) - Cardinality(rows)
    <2>1. Z \cap rows = rows
      BY <1>2
    <2>2. Cardinality(Z \ rows) = Cardinality(Z) - Cardinality(Z \cap rows)
      BY <1>5, FS_Difference
    <2> QED BY <2>1, <2>2
  <1>7. /\ Cardinality(low) <= Cardinality(rest)
        /\ Cardinality(rest) <= Cardinality(high)
    BY <1>3, <1>4, <1>5, FS_Subset
  <1>8. /\ Cardinality(low) \in Nat /\ Cardinality(rest) \in Nat /\ Cardinality(high) \in Nat
        /\ Cardinality(Z) \in Nat /\ Cardinality(rows) \in Nat
    BY <1>5, FS_CardinalityType
  <1>9. Cardinality(Z) = recon.sized /\ Cardinality(rows) = recon.registered
    BY <1>2 DEF Stands
  <1>10. Less(recon.sized, recon.registered) = Cardinality(rest)
    BY <1>6, <1>8, <1>9 DEF Less
  <1> HIDE DEF rows, low, rest, high
  <1>11. Cardinality(rest) \in Cardinality(low) .. Cardinality(high)
    BY <1>7, <1>8
  <1>12. recon.sized >= recon.registered
    BY <1>6, <1>8, <1>9
  <1> QED BY <1>10, <1>11, <1>12 DEF rows, low, high

(* OrphansAreCounted: a result is kept only if it counts the files that no *)
(* row names, give or take those that a poll was at work on                *)
(* (reconcile_storage_health).                                             *)
THEOREM OrphansCounted == ReconcileSpec => OrphansAreCounted
  <1>1. ASSUME ReconcileInv, [ReconcileNext]_reconcileVars, reconciled' # reconciled
        PROVE  unregistered' \in Cardinality(Orphans \ (UnderWay \cup left))
                         .. Cardinality(Orphans \cup ((UnderWay \cup left) \ recon.rows))
    <2>1. ~StorePolls /\ ~Deletions
      BY <1>1 DEF StorePolls, Deletions, StagePoll, InstallPoll, CommitPoll, TidyPoll,
                  PollFails, UndoPoll, TidyFailedPoll, LeavePoll, DeleteFiles,
                  DeletionCutShort, resting
    <2>2. KeepResult /\ SameRevision
      BY <1>1, <2>1 DEF ReconcileNext, Reconcile, reconcileVars, ReconcileBegins,
                  ReadRegistered, ReadRevision, List, Listed, SizeFile, Going,
                  RegisteredAgain, RevisionAgain, RegisteredUnderLock, KeepResult,
                  ReconcileRaises
    <2>3. /\ recon.at = "locked" /\ ~touched
          /\ unregistered' = Less(recon.sized, recon.registered)
      BY <2>2 DEF KeepResult, SameRevision
    <2>4. /\ recon.found = {} /\ recon.toVisit = {}
          /\ \E Z \in SUBSET RawFile : Stands(Z)
      BY <1>1, <2>3 DEF ReconcileInv, Counted, Counting
    <2> QED BY <1>1, <2>2, <2>3, <2>4, OrphansBetween DEF Doubtful, ReconcileLocks
  <1>2. ReconcileInv /\ [ReconcileNext]_reconcileVars =>
            [reconciled' # reconciled =>
               unregistered' \in Cardinality(Orphans \ (UnderWay \cup left))
                         .. Cardinality(Orphans \cup ((UnderWay \cup left) \ recon.rows))]_reconcileVars
    BY <1>1
  <1> QED BY <1>2, ReconcileInvariance, PTL DEF ReconcileSpec, OrphansAreCounted

=============================================================================
