--------------------------- MODULE RuntimeProofs ----------------------------
(***************************************************************************)
(* RuntimeInv is an inductive invariant of RuntimeExecutor, for any number *)
(* of runs, polls and identities and any number of faults.  With it come   *)
(* the properties of what is in doubt, of what the monitor has applied and *)
(* of the runs that are open.                                              *)
(*                                                                         *)
(* Three arguments meet in it.  A run that the store has open has exactly  *)
(* one keeper, so that nobody ends it twice and nobody forgets it.  A poll *)
(* in doubt has exactly one holder, so that what its holder knows of it    *)
(* (not applied, not given to another run) stays true until its record is  *)
(* confirmed.  And only the thread with the lease changes the monitor's    *)
(* poll: a stop that finds a lease leaves the rest to its owner, and a     *)
(* thread that begins to end a run takes it from its keeper (HandOver).    *)
(***************************************************************************)
EXTENDS RuntimeExecutor, TLAPS

Ending    == {"finish", "ended", "notEnded"}
Resolving == {"resolve", "giveUp", "resolved"}

(* The stage of a call: one that is ending a run goes on from there.       *)
Stage(t) == IF pc[t] \in Ending THEN after[t] ELSE pc[t]

(* Stages in which a poll of execute() has a new ID, or none any more.     *)
Polling == {"restarted", "open", "attach", "prepare", "save"}
Leaving == {"unwind", "unwound", "leave", "left"}
Working == ((Polling \cup Leaving) \ {"leave"})
               \cup Resolving \cup {"retryPoll", "leaveDoubt"}

-----------------------------------------------------------------------------
(* Where the threads are                                                   *)

StagesMatch ==
    /\ \A t \in Thread : pc[t] \in Ending <=> finishing[t] # None
    /\ pc[Query] \in Ending => after[Query] \in
          {"restarted", "answer", "one", "raise", "unwound", "left", "first",
           "last"}
    /\ pc[Stop] \in Ending => after[Stop] = "last"
    /\ pc[Stop] \notin {"answer", "raise", "first"}

LeaseMatches ==
    /\ active = Stop <=> pc[Stop] \in Resolving
    /\ Stage(Query) \in Working => active = Query
    /\ active = Query => Stage(Query) \in Working \cup {"leave"}
    /\ pc[Query] = "unwind" /\ monitor # None => lease[Query].run = monitor
    /\ Stage(Query) = "unwound" => monitor = None
    /\ pc[Query] = "leave" /\ active # Query => monitor = None
    /\ pc[Query] = "unwind" /\ monitor # None => lease[Query].run = monitor
    /\ Stage(Query) = "unwound" => monitor = None
    /\ pc[Query] = "leave" /\ active # Query => monitor = None

-----------------------------------------------------------------------------
(* The polls                                                               *)

Unrecorded(p) == p \in Poll /\ recorded[p] = None /\ p \notin doubt

(* The poll of a thread that retries its record is the one in doubt.       *)
PendingIsLeased ==
    /\ Stage(Query) \in Polling \cup Leaving => pending = Nothing
    /\ \A t \in Thread : pc[t] \in Resolving \cup {"retryPoll"} =>
          pending # Nothing /\ lease[t] = pending

PendingHeld ==
    pending # Nothing =>
        /\ pending.poll \in Poll /\ pending.run \in Run
        /\ pending.run = monitor
        /\ pending.poll # pendingOne.job.poll
        /\ IF \E t \in Thread : pc[t] = "resolved"
           THEN pending.poll \in applied
           ELSE pending.poll \in doubt /\ slot[monitor] = pending.poll

OneShotHeld ==
    /\ pendingOne.job # Nothing =>
          /\ pendingOne.job.poll \in doubt /\ pendingOne.job.run \in Run
    /\ pc[Query] \in {"start1", "ask1", "save1"} => pendingOne.job = Nothing
    /\ pc[Query] \in {"ask1", "save1"} =>
          Unrecorded(job.poll) /\ job.poll # pending.poll

(* A new poll, and a new run: nothing is known of it yet.                  *)
PollIsNew ==
    /\ \A r \in Run, p \in Poll : runState[r] = "absent" => recorded[p] # r
    /\ Stage(Query) \in Polling => Unrecorded(lease[Query].poll)
    /\ Stage(Query) \in {"restarted", "attach"} => monitor = None
    /\ pc[Query] = "attach" =>
          /\ job.poll = lease[Query].poll
          /\ \A p \in Poll : recorded[p] # job.run
    /\ pc[Query] \in {"prepare", "save"} =>
          job = lease[Query] /\ monitor # None /\ job.run = monitor
    /\ pc[Query] = "save" => slot[monitor] = job.poll

-----------------------------------------------------------------------------
(* The keepers of the runs                                                 *)

(* The run execute() has opened and not yet handed to a keeper.            *)
Opening == {"ask1", "save1", "attach"}
Opened  == IF pc[Query] \in Opening THEN job.run ELSE None

(* Open runs, each by whom it is kept apart from the queue.                *)
KeepersOwn ==
    /\ {monitor, pendingOne.job.run, Opened} \subseteq owned \cup {None}
    /\ pc[Query] \in Opening => job.run \in Run
    /\ \A t \in Thread :
          pc[t] \in {"finish", "notEnded"} => finishing[t] \in owned
    /\ \A t \in Thread : pc[t] = "ended" =>
          finishing[t] \notin owned /\ runState[finishing[t]] = "ended"
    /\ \A r \in owned : runState[r] # "absent"

KeepersDiffer ==
    /\ monitor # None => monitor \notin {pendingOne.job.run, Opened}
    /\ Opened # None => Opened # pendingOne.job.run
    /\ {monitor, pendingOne.job.run, Opened} \cap queued = {}
    /\ \A t \in Thread : finishing[t] # None =>
          finishing[t] \notin {monitor, pendingOne.job.run, Opened}
    /\ finishing[Query] # None => finishing[Query] # finishing[Stop]

(* Only the thread whose pass it is ends a queued run.                     *)
PassesMatch ==
    /\ \A t \in Thread : finishLock = t =>
          /\ Stage(t) \in {"first", "last"}
          /\ todo[t] \subseteq queued
          /\ finishing[t] # None => finishing[t] \in queued \ todo[t]
    /\ \A t \in Thread : finishing[t] \in queued => finishLock = t

KeepersMatch == KeepersOwn /\ KeepersDiffer /\ PassesMatch

RuntimeInv ==
    /\ TypeOK
    /\ StagesMatch /\ LeaseMatches
    /\ PendingIsLeased /\ PendingHeld /\ OneShotHeld /\ PollIsNew
    /\ NothingInDoubtForgotten /\ EngineKnowsWhatIsRecorded
    /\ KeepersMatch
    /\ EveryRunHasAKeeper /\ QueuedEndsCanSucceed

-----------------------------------------------------------------------------
(* Facts about the constants and the choices                               *)

LEMMA TwoThreads ==
    /\ Query \in Thread /\ Stop \in Thread /\ Query # Stop
    /\ None # Query /\ None # Stop
    /\ \A t \in Thread : t = Query \/ t = Stop
  BY RuntimeAssumption DEF Thread, Query, Stop

LEMMA NewPoll ==
    FreshPolls # {} =>
        Unrecorded(FreshPoll) /\ \A t \in Thread : FreshPoll # lease[t].poll
  <1> SUFFICES ASSUME FreshPolls # {} PROVE FreshPoll \in FreshPolls
    BY DEF FreshPolls, Unrecorded
  <1> QED
    BY DEF FreshPoll

LEMMA NewRun ==
    FreshRuns # {} => FreshRun \in Run /\ runState[FreshRun] = "absent"
  <1> SUFFICES ASSUME FreshRuns # {} PROVE FreshRun \in FreshRuns
    BY DEF FreshRuns
  <1> QED
    BY DEF FreshRun

(* RuntimeInv holds before anything is started.                            *)
LEMMA InitRuntime == Init => RuntimeInv
  <1> SUFFICES ASSUME Init PROVE RuntimeInv
    OBVIOUS
  <1> USE TwoThreads, RuntimeAssumption DEF Init, Nothing
  <1>1. TypeFlags
    BY Zenon DEF TypeFlags
  <1>2. TypeStore /\ TypeMonitor /\ TypeCall /\ TypeEnds
    BY DEF TypeStore, TypeMonitor, TypeCall, TypeEnds, Pair
  <1>3. TypeControl /\ StagesMatch
    BY DEF TypeControl, QueryPC, StopPC, BothPC, StagesMatch, Ending
  <1>4. LeaseMatches
    BY DEF LeaseMatches, Working, Polling, Leaving, Resolving, Stage, Ending
  <1>5. PendingIsLeased /\ PendingHeld /\ OneShotHeld /\ PollIsNew
    BY DEF PendingIsLeased, PendingHeld, OneShotHeld, PollIsNew, Polling,
           Leaving, Resolving, Stage, Ending
  <1>6. NothingInDoubtForgotten /\ EngineKnowsWhatIsRecorded
    BY DEF NothingInDoubtForgotten, EngineKnowsWhatIsRecorded
  <1>7. KeepersMatch
    BY DEF KeepersMatch, KeepersOwn, KeepersDiffer, PassesMatch, Opened,
           Opening
  <1>8. EveryRunHasAKeeper /\ QueuedEndsCanSucceed
    BY DEF EveryRunHasAKeeper, QueuedEndsCanSucceed
  <1> QED
    BY <1>1, <1>2, <1>3, <1>4, <1>5, <1>6, <1>7, <1>8 DEF RuntimeInv, TypeOK

-----------------------------------------------------------------------------
(* Types                                                                   *)

(* The rows of runs and polls keep their types: a poll that is recorded is *)
(* in doubt or new.                                                        *)
LEMMA StepTypeStore ==
    ASSUME RuntimeInv, [Next]_vars
    PROVE  TypeStore'
  <1> USE TwoThreads, RuntimeAssumption
          DEF RuntimeInv, TypeOK, Goto, store, engine, mon, call, ends,
                 window, TypeStore, TypeMonitor, TypeCall, PendingIsLeased,
                 PendingHeld, OneShotHeld, PollIsNew, Unrecorded,
                 KeepersMatch, KeepersOwn, StagesMatch, Ending, Resolving,
                 Stage, Polling, Nothing, Pair
  <1>1. CASE ConfirmOneShot \/ Proceed
    BY <1>1 DEF ConfirmOneShot, Proceed, Fault, Raise, CanRecord, Recorded,
           InDoubt, NotRecorded, End
  <1>2. CASE StartOneShot \/ AskOnce \/ SaveOnce
    BY <1>2, NewPoll, NewRun DEF StartOneShot, AskOnce, SaveOnce, Fault,
           Raise, Started, NotStarted, CanRecord, Recorded, InDoubt,
           NotRecorded, End
  <1>3. CASE TakeLease \/ RefuseLease \/ ConfirmPoll \/ DoubtRemains
             \/ Restarted
    BY <1>3, NewPoll DEF TakeLease, RefuseLease, ConfirmPoll, DoubtRemains,
           Restarted, Fault, Raise, CanRecord, Recorded, InDoubt, NotRecorded,
           Commit, Detach, DropLease, End, Busy
  <1>4. CASE OpenRun \/ UseMonitor \/ Attach \/ Prepare
    BY <1>4, NewRun DEF OpenRun, UseMonitor, Attach, Prepare, Fault, Started,
           NotStarted
  <1>5. CASE SavePoll \/ SaveInDoubt \/ SaveFails
    BY <1>5 DEF SavePoll, SaveInDoubt, SaveFails, Fault, Raise, CanRecord,
           Recorded, InDoubt, NotRecorded, Commit, OwnsMonitor, DropLease
  <1>6. CASE Unwind \/ Unwound \/ LeaveStopped \/ Leave \/
             LeaveInDoubt \/ RecoverStop
    BY <1>6 DEF Unwind, Unwound, LeaveStopped, Leave, LeaveInDoubt,
           RecoverStop, Raise, OwnsMonitor, Detach, DropLease, End
  <1>7. CASE RequestStop
    BY <1>7 DEF RequestStop, Raise, Detach, End
  <1>8. ASSUME NEW t \in Thread,
               FinishRun(t) \/ FinishRaises(t) \/ NoteEnd(t)
        PROVE  TypeStore'
    BY <1>8 DEF FinishRun, FinishRaises, NoteEnd, Fault
  <1>9. ASSUME NEW t \in Thread,
               EnterPass(t) \/ LeavePass(t) \/ Settle(t)
        PROVE  TypeStore'
    BY <1>9 DEF EnterPass, LeavePass, Settle, Raise
  <1>10. ASSUME NEW t \in Thread,
               ResolvePoll(t) \/ GiveUp(t) \/ DetachResolved(t)
        PROVE  TypeStore'
    BY <1>10 DEF ResolvePoll, GiveUp, DetachResolved, Fault, Raise, CanRecord,
           Recorded, InDoubt, NotRecorded, Commit, OwnsMonitor, Detach,
           DropLease, End
  <1>11. ASSUME NEW t \in Thread, NEW r \in Run,
               RetryEnd(t, r)
        PROVE  TypeStore'
    BY <1>11 DEF RetryEnd
  <1>12. ASSUME NEW k \in {"monitor", "oneshot"}, NEW i \in Identity,
               BeginQuery(k, i)
        PROVE  TypeStore'
    BY <1>12 DEF BeginQuery
  <1>13. CASE BeginStop \/ GraceExpires
    BY <1>13 DEF BeginStop, GraceExpires
  <1>14. CASE UNCHANGED vars
    BY <1>14 DEF vars
  <1> QED
    BY <1>1, <1>2, <1>3, <1>4, <1>5, <1>6, <1>7, <1>8, <1>9, <1>10,
       <1>11, <1>12, <1>13, <1>14
       DEF Next, QueryStep, StopStep, ThreadStep, WindowStep

(* So do the monitor, the leases and the poll in doubt.                    *)
LEMMA StepTypeMonitor ==
    ASSUME RuntimeInv, [Next]_vars
    PROVE  TypeMonitor'
  <1> USE TwoThreads, RuntimeAssumption
          DEF RuntimeInv, TypeOK, Goto, store, engine, mon, call, ends,
                 window, TypeStore, TypeMonitor, TypeCall, PendingIsLeased,
                 PendingHeld, OneShotHeld, PollIsNew, Unrecorded,
                 KeepersMatch, KeepersOwn, StagesMatch, Ending, Resolving,
                 Stage, Polling, Nothing, Pair
  <1>1. CASE ConfirmOneShot \/ Proceed \/ StartOneShot \/ AskOnce \/
             SaveOnce
    BY <1>1, NewPoll, NewRun DEF ConfirmOneShot, Proceed, StartOneShot,
           AskOnce, SaveOnce, Fault, Raise, Started, NotStarted, CanRecord,
           Recorded, InDoubt, NotRecorded, End
  <1>2. CASE TakeLease \/ RefuseLease
    BY <1>2, NewPoll DEF TakeLease, RefuseLease, Raise, Detach, End, Busy
  <1>3. CASE ConfirmPoll \/ DoubtRemains \/ Restarted
    BY <1>3, NewPoll DEF ConfirmPoll, DoubtRemains, Restarted, Fault, Raise,
           CanRecord, Recorded, InDoubt, NotRecorded, Commit, Detach,
           DropLease, End
  <1>4. CASE OpenRun \/ UseMonitor \/ Attach \/ Prepare
    BY <1>4, NewRun DEF OpenRun, UseMonitor, Attach, Prepare, Fault, Started,
           NotStarted
  <1>5. CASE SavePoll \/ SaveInDoubt \/ SaveFails
    BY <1>5 DEF SavePoll, SaveInDoubt, SaveFails, Fault, Raise, CanRecord,
           Recorded, InDoubt, NotRecorded, Commit, OwnsMonitor, DropLease
  <1>6. CASE Unwind \/ Unwound \/ LeaveStopped \/ Leave \/
             LeaveInDoubt \/ RecoverStop
    BY <1>6 DEF Unwind, Unwound, LeaveStopped, Leave, LeaveInDoubt,
           RecoverStop, Raise, OwnsMonitor, Detach, DropLease, End
  <1>7. CASE RequestStop
    BY <1>7 DEF RequestStop, Raise, Detach, End
  <1>8. ASSUME NEW t \in Thread,
               FinishRun(t) \/ FinishRaises(t) \/ NoteEnd(t)
        PROVE  TypeMonitor'
    BY <1>8 DEF FinishRun, FinishRaises, NoteEnd, Fault
  <1>9. ASSUME NEW t \in Thread,
               EnterPass(t) \/ LeavePass(t) \/ Settle(t)
        PROVE  TypeMonitor'
    BY <1>9 DEF EnterPass, LeavePass, Settle, Raise
  <1>10. ASSUME NEW t \in Thread,
               ResolvePoll(t) \/ GiveUp(t) \/ DetachResolved(t)
        PROVE  TypeMonitor'
    BY <1>10 DEF ResolvePoll, GiveUp, DetachResolved, Fault, Raise, CanRecord,
           Recorded, InDoubt, NotRecorded, Commit, OwnsMonitor, Detach,
           DropLease, End
  <1>11. ASSUME NEW t \in Thread, NEW r \in Run,
               RetryEnd(t, r)
        PROVE  TypeMonitor'
    BY <1>11 DEF RetryEnd
  <1>12. ASSUME NEW k \in {"monitor", "oneshot"}, NEW i \in Identity,
               BeginQuery(k, i)
        PROVE  TypeMonitor'
    BY <1>12 DEF BeginQuery
  <1>13. CASE BeginStop \/ GraceExpires
    BY <1>13 DEF BeginStop, GraceExpires
  <1>14. CASE UNCHANGED vars
    BY <1>14 DEF vars
  <1> QED
    BY <1>1, <1>2, <1>3, <1>4, <1>5, <1>6, <1>7, <1>8, <1>9, <1>10,
       <1>11, <1>12, <1>13, <1>14
       DEF Next, QueryStep, StopStep, ThreadStep, WindowStep

(* So do the query and its job.                                            *)
LEMMA StepTypeCall ==
    ASSUME RuntimeInv, [Next]_vars
    PROVE  TypeCall'
  <1> USE TwoThreads, RuntimeAssumption
          DEF RuntimeInv, TypeOK, Goto, store, engine, mon, call, ends,
                 window, TypeMonitor, TypeCall, Unrecorded, Nothing, Pair
  <1>1. CASE ConfirmOneShot \/ Proceed \/ StartOneShot \/ AskOnce \/
             SaveOnce
    BY <1>1, NewPoll, NewRun DEF ConfirmOneShot, Proceed, StartOneShot,
           AskOnce, SaveOnce, Fault, Raise, Started, NotStarted, CanRecord,
           Recorded, InDoubt, NotRecorded, End
  <1>2. CASE TakeLease \/ RefuseLease \/ ConfirmPoll \/ DoubtRemains
             \/ Restarted
    BY <1>2, NewPoll DEF TakeLease, RefuseLease, ConfirmPoll, DoubtRemains,
           Restarted, Fault, Raise, CanRecord, Recorded, InDoubt, NotRecorded,
           Commit, Detach, DropLease, End, Busy
  <1>3. CASE OpenRun \/ UseMonitor \/ Attach \/ Prepare
    BY <1>3, NewRun DEF OpenRun, UseMonitor, Attach, Prepare, Fault, Started,
           NotStarted
  <1>4. CASE SavePoll \/ SaveInDoubt \/ SaveFails
    BY <1>4 DEF SavePoll, SaveInDoubt, SaveFails, Fault, Raise, CanRecord,
           Recorded, InDoubt, NotRecorded, Commit, OwnsMonitor, DropLease
  <1>5. CASE Unwind \/ Unwound \/ LeaveStopped \/ Leave \/
             LeaveInDoubt \/ RecoverStop
    BY <1>5 DEF Unwind, Unwound, LeaveStopped, Leave, LeaveInDoubt,
           RecoverStop, Raise, OwnsMonitor, Detach, DropLease, End
  <1>6. CASE RequestStop
    BY <1>6 DEF RequestStop, Raise, Detach, End
  <1>7. ASSUME NEW t \in Thread,
               FinishRun(t) \/ FinishRaises(t) \/ NoteEnd(t)
        PROVE  TypeCall'
    BY <1>7 DEF FinishRun, FinishRaises, NoteEnd, Fault
  <1>8. ASSUME NEW t \in Thread,
               EnterPass(t) \/ LeavePass(t) \/ Settle(t)
        PROVE  TypeCall'
    BY <1>8 DEF EnterPass, LeavePass, Settle, Raise
  <1>9. ASSUME NEW t \in Thread,
               ResolvePoll(t) \/ GiveUp(t) \/ DetachResolved(t)
        PROVE  TypeCall'
    BY <1>9 DEF ResolvePoll, GiveUp, DetachResolved, Fault, Raise, CanRecord,
           Recorded, InDoubt, NotRecorded, Commit, OwnsMonitor, Detach,
           DropLease, End
  <1>10. ASSUME NEW t \in Thread, NEW r \in Run,
               RetryEnd(t, r)
        PROVE  TypeCall'
    BY <1>10 DEF RetryEnd
  <1>11. ASSUME NEW k \in {"monitor", "oneshot"}, NEW i \in Identity,
               BeginQuery(k, i)
        PROVE  TypeCall'
    BY <1>11 DEF BeginQuery
  <1>12. CASE BeginStop \/ GraceExpires
    BY <1>12 DEF BeginStop, GraceExpires
  <1>13. CASE UNCHANGED vars
    BY <1>13 DEF vars
  <1> QED
    BY <1>1, <1>2, <1>3, <1>4, <1>5, <1>6, <1>7, <1>8, <1>9, <1>10,
       <1>11, <1>12, <1>13
       DEF Next, QueryStep, StopStep, ThreadStep, WindowStep

(* So do the queue of ends and what the threads take from it.              *)
LEMMA StepTypeEnds ==
    ASSUME RuntimeInv, [Next]_vars
    PROVE  TypeEnds'
  <1> USE TwoThreads, RuntimeAssumption
          DEF RuntimeInv, TypeOK, Goto, store, engine, mon, call, ends,
                 window, TypeMonitor, TypeCall, TypeEnds, StagesMatch, Ending,
                 Pair
  <1>1. CASE ConfirmOneShot \/ Proceed \/ StartOneShot \/ AskOnce \/
             SaveOnce
    BY <1>1, NewPoll, NewRun DEF ConfirmOneShot, Proceed, StartOneShot,
           AskOnce, SaveOnce, Fault, Raise, Started, NotStarted, CanRecord,
           Recorded, InDoubt, NotRecorded, End
  <1>2. CASE TakeLease \/ RefuseLease
    BY <1>2, NewPoll DEF TakeLease, RefuseLease, Raise, Detach, End, Busy
  <1>3. CASE ConfirmPoll
    BY <1>3, NewPoll DEF ConfirmPoll, CanRecord, Recorded, Commit, Detach, End
  <1>4. CASE DoubtRemains \/ Restarted
    BY <1>4 DEF DoubtRemains, Restarted, Fault, Raise, CanRecord, InDoubt,
           NotRecorded, DropLease
  <1>5. CASE OpenRun \/ UseMonitor \/ Attach \/ Prepare
    BY <1>5, NewRun DEF OpenRun, UseMonitor, Attach, Prepare, Fault, Started,
           NotStarted
  <1>6. CASE SavePoll \/ SaveInDoubt \/ SaveFails
    BY <1>6 DEF SavePoll, SaveInDoubt, SaveFails, Fault, Raise, CanRecord,
           Recorded, InDoubt, NotRecorded, Commit, OwnsMonitor, DropLease
  <1>7. CASE Unwind \/ Unwound \/ LeaveStopped \/ Leave \/
             LeaveInDoubt \/ RecoverStop
    BY <1>7 DEF Unwind, Unwound, LeaveStopped, Leave, LeaveInDoubt,
           RecoverStop, Raise, OwnsMonitor, Detach, DropLease, End
  <1>8. CASE RequestStop
    BY <1>8 DEF RequestStop, Raise, Detach, End
  <1>9. ASSUME NEW t \in Thread,
               FinishRun(t) \/ FinishRaises(t)
        PROVE  TypeEnds'
    BY <1>9 DEF FinishRun, FinishRaises, Fault
  <1>10. ASSUME NEW t \in Thread,
               NoteEnd(t)
        PROVE  TypeEnds'
    BY <1>10 DEF NoteEnd
  <1>11. ASSUME NEW t \in Thread,
               EnterPass(t) \/ LeavePass(t) \/ Settle(t)
        PROVE  TypeEnds'
    BY <1>11 DEF EnterPass, LeavePass, Settle, Raise
  <1>12. ASSUME NEW t \in Thread,
               ResolvePoll(t) \/ GiveUp(t) \/ DetachResolved(t)
        PROVE  TypeEnds'
    BY <1>12 DEF ResolvePoll, GiveUp, DetachResolved, Fault, Raise, CanRecord,
           Recorded, InDoubt, NotRecorded, Commit, OwnsMonitor, Detach,
           DropLease, End
  <1>13. ASSUME NEW t \in Thread, NEW r \in Run,
               RetryEnd(t, r)
        PROVE  TypeEnds'
    BY <1>13 DEF RetryEnd
  <1>14. ASSUME NEW k \in {"monitor", "oneshot"}, NEW i \in Identity,
               BeginQuery(k, i)
        PROVE  TypeEnds'
    BY <1>14 DEF BeginQuery
  <1>15. CASE BeginStop \/ GraceExpires
    BY <1>15 DEF BeginStop, GraceExpires
  <1>16. CASE UNCHANGED vars
    BY <1>16 DEF vars
  <1> QED
    BY <1>1, <1>2, <1>3, <1>4, <1>5, <1>6, <1>7, <1>8, <1>9, <1>10,
       <1>11, <1>12, <1>13, <1>14, <1>15, <1>16
       DEF Next, QueryStep, StopStep, ThreadStep, WindowStep

(* So do the flags.                                                        *)
LEMMA StepTypeFlags ==
    ASSUME RuntimeInv, [Next]_vars
    PROVE  TypeFlags'
  <1> USE TwoThreads, RuntimeAssumption
          DEF RuntimeInv, TypeOK, Goto, store, engine, mon, call, ends,
                 window, TypeFlags
  <1>1. CASE ConfirmOneShot \/ Proceed \/ StartOneShot \/ AskOnce \/
             SaveOnce
    BY <1>1, Zenon DEF ConfirmOneShot, Proceed, StartOneShot, AskOnce,
           SaveOnce, Fault, Raise, Started, NotStarted, CanRecord, Recorded,
           InDoubt, NotRecorded, End
  <1>2. CASE TakeLease \/ RefuseLease \/ ConfirmPoll \/ DoubtRemains
             \/ Restarted
    BY <1>2, Zenon DEF TakeLease, RefuseLease, ConfirmPoll, DoubtRemains,
           Restarted, Fault, Raise, CanRecord, Recorded, InDoubt, NotRecorded,
           Commit, Detach, DropLease, End, Busy
  <1>3. CASE OpenRun \/ UseMonitor \/ Attach \/ Prepare
    BY <1>3, Zenon DEF OpenRun, UseMonitor, Attach, Prepare, Fault, Started,
           NotStarted
  <1>4. CASE SavePoll \/ SaveInDoubt \/ SaveFails
    BY <1>4, Zenon DEF SavePoll, SaveInDoubt, SaveFails, Fault, Raise,
           CanRecord, Recorded, InDoubt, NotRecorded, Commit, OwnsMonitor,
           DropLease
  <1>5. CASE Unwind \/ Unwound \/ LeaveStopped \/ Leave \/
             LeaveInDoubt \/ RecoverStop
    BY <1>5, Zenon DEF Unwind, Unwound, LeaveStopped, Leave, LeaveInDoubt,
           RecoverStop, Raise, OwnsMonitor, Detach, DropLease, End
  <1>6. CASE RequestStop
    BY <1>6, Zenon DEF RequestStop, Raise, Detach, End
  <1>7. ASSUME NEW t \in Thread,
               FinishRun(t) \/ FinishRaises(t) \/ NoteEnd(t)
        PROVE  TypeFlags'
    BY <1>7, Zenon DEF FinishRun, FinishRaises, NoteEnd, Fault
  <1>8. ASSUME NEW t \in Thread,
               EnterPass(t) \/ LeavePass(t) \/ Settle(t)
        PROVE  TypeFlags'
    BY <1>8, Zenon DEF EnterPass, LeavePass, Settle, Raise
  <1>9. ASSUME NEW t \in Thread,
               ResolvePoll(t) \/ GiveUp(t) \/ DetachResolved(t)
        PROVE  TypeFlags'
    BY <1>9, Zenon DEF ResolvePoll, GiveUp, DetachResolved, Fault, Raise,
           CanRecord, Recorded, InDoubt, NotRecorded, Commit, OwnsMonitor,
           Detach, DropLease, End
  <1>10. ASSUME NEW t \in Thread, NEW r \in Run,
               RetryEnd(t, r)
        PROVE  TypeFlags'
    BY <1>10, Zenon DEF RetryEnd
  <1>11. ASSUME NEW k \in {"monitor", "oneshot"}, NEW i \in Identity,
               BeginQuery(k, i)
        PROVE  TypeFlags'
    BY <1>11, Zenon DEF BeginQuery
  <1>12. CASE BeginStop \/ GraceExpires
    BY <1>12, Zenon DEF BeginStop, GraceExpires
  <1>13. CASE UNCHANGED vars
    BY <1>13, Zenon DEF vars
  <1> QED
    BY <1>1, <1>2, <1>3, <1>4, <1>5, <1>6, <1>7, <1>8, <1>9, <1>10,
       <1>11, <1>12, <1>13
       DEF Next, QueryStep, StopStep, ThreadStep, WindowStep

(* Each thread stays within its own call.                                  *)
LEMMA StepTypeControl ==
    ASSUME RuntimeInv, [Next]_vars
    PROVE  TypeControl'
  <1> USE TwoThreads, RuntimeAssumption
          DEF RuntimeInv, TypeOK, Goto, store, engine, mon, call, ends,
                 window, TypeControl, StagesMatch, QueryPC, BothPC, StopPC,
                 Ending
  <1>1. CASE ConfirmOneShot \/ Proceed \/ StartOneShot \/ AskOnce \/
             SaveOnce
    BY <1>1, NewPoll, NewRun DEF ConfirmOneShot, Proceed, StartOneShot,
           AskOnce, SaveOnce, Fault, Raise, Started, NotStarted, CanRecord,
           Recorded, InDoubt, NotRecorded, End
  <1>2. CASE TakeLease \/ RefuseLease \/ ConfirmPoll \/ DoubtRemains
             \/ Restarted
    BY <1>2, NewPoll DEF TakeLease, RefuseLease, ConfirmPoll, DoubtRemains,
           Restarted, Fault, Raise, CanRecord, Recorded, InDoubt, NotRecorded,
           Commit, Detach, DropLease, End, Busy
  <1>3. CASE OpenRun \/ UseMonitor \/ Attach \/ Prepare
    BY <1>3, NewRun DEF OpenRun, UseMonitor, Attach, Prepare, Fault, Started,
           NotStarted
  <1>4. CASE SavePoll \/ SaveInDoubt \/ SaveFails
    BY <1>4 DEF SavePoll, SaveInDoubt, SaveFails, Fault, Raise, CanRecord,
           Recorded, InDoubt, NotRecorded, Commit, OwnsMonitor, DropLease
  <1>5. CASE Unwind \/ Unwound \/ LeaveStopped \/ Leave \/
             LeaveInDoubt \/ RecoverStop
    BY <1>5 DEF Unwind, Unwound, LeaveStopped, Leave, LeaveInDoubt,
           RecoverStop, Raise, OwnsMonitor, Detach, DropLease, End
  <1>6. CASE RequestStop
    BY <1>6 DEF RequestStop, Raise, Detach, End
  <1>7. ASSUME NEW t \in Thread,
               FinishRun(t) \/ FinishRaises(t) \/ NoteEnd(t)
        PROVE  TypeControl'
    BY <1>7 DEF FinishRun, FinishRaises, NoteEnd, Fault
  <1>8. ASSUME NEW t \in Thread,
               EnterPass(t) \/ LeavePass(t) \/ Settle(t)
        PROVE  TypeControl'
    BY <1>8 DEF EnterPass, LeavePass, Settle, Raise
  <1>9. ASSUME NEW t \in Thread,
               ResolvePoll(t) \/ GiveUp(t) \/ DetachResolved(t)
        PROVE  TypeControl'
    BY <1>9 DEF ResolvePoll, GiveUp, DetachResolved, Fault, Raise, CanRecord,
           Recorded, InDoubt, NotRecorded, Commit, OwnsMonitor, Detach,
           DropLease, End
  <1>10. ASSUME NEW t \in Thread, NEW r \in Run,
               RetryEnd(t, r)
        PROVE  TypeControl'
    BY <1>10 DEF RetryEnd
  <1>11. ASSUME NEW k \in {"monitor", "oneshot"}, NEW i \in Identity,
               BeginQuery(k, i)
        PROVE  TypeControl'
    BY <1>11 DEF BeginQuery
  <1>12. CASE BeginStop \/ GraceExpires
    BY <1>12 DEF BeginStop, GraceExpires
  <1>13. CASE UNCHANGED vars
    BY <1>13 DEF vars
  <1> QED
    BY <1>1, <1>2, <1>3, <1>4, <1>5, <1>6, <1>7, <1>8, <1>9, <1>10,
       <1>11, <1>12, <1>13
       DEF Next, QueryStep, StopStep, ThreadStep, WindowStep

-----------------------------------------------------------------------------
(* Where the threads are                                                   *)

(* A thread has a run to end while it is ending one, and goes on from      *)
(* there.                                                                  *)
LEMMA StepStages ==
    ASSUME RuntimeInv, [Next]_vars
    PROVE  StagesMatch'
  <1> USE TwoThreads, RuntimeAssumption
          DEF RuntimeInv, TypeOK, Goto, store, engine, mon, call, ends,
                 window, TypeControl, TypeEnds, StagesMatch, KeepersMatch,
                 KeepersOwn, Ending, Resolving, QueryPC, StopPC, BothPC
  <1>1. CASE ConfirmOneShot \/ Proceed \/ StartOneShot \/ AskOnce \/
             SaveOnce
    BY <1>1, NewPoll, NewRun DEF ConfirmOneShot, Proceed, StartOneShot,
           AskOnce, SaveOnce, Fault, Raise, Started, NotStarted, CanRecord,
           Recorded, InDoubt, NotRecorded, End
  <1>2. CASE TakeLease \/ RefuseLease \/ ConfirmPoll \/ DoubtRemains
             \/ Restarted
    BY <1>2, NewPoll DEF TakeLease, RefuseLease, ConfirmPoll, DoubtRemains,
           Restarted, Fault, Raise, CanRecord, Recorded, InDoubt, NotRecorded,
           Commit, Detach, DropLease, End, Busy
  <1>3. CASE OpenRun \/ UseMonitor \/ Attach \/ Prepare
    BY <1>3, NewRun DEF OpenRun, UseMonitor, Attach, Prepare, Fault, Started,
           NotStarted
  <1>4. CASE SavePoll \/ SaveInDoubt \/ SaveFails
    BY <1>4 DEF SavePoll, SaveInDoubt, SaveFails, Fault, Raise, CanRecord,
           Recorded, InDoubt, NotRecorded, Commit, OwnsMonitor, DropLease
  <1>5. CASE Unwind \/ Unwound \/ LeaveStopped \/ Leave \/
             LeaveInDoubt \/ RecoverStop
    BY <1>5 DEF Unwind, Unwound, LeaveStopped, Leave, LeaveInDoubt,
           RecoverStop, Raise, OwnsMonitor, Detach, DropLease, End
  <1>6. CASE RequestStop
    BY <1>6 DEF RequestStop, Raise, Detach, End
  <1>7. ASSUME NEW t \in Thread,
               FinishRun(t) \/ FinishRaises(t) \/ NoteEnd(t)
        PROVE  StagesMatch'
    BY <1>7 DEF FinishRun, FinishRaises, NoteEnd, Fault
  <1>8. ASSUME NEW t \in Thread,
               EnterPass(t) \/ LeavePass(t) \/ Settle(t)
        PROVE  StagesMatch'
    BY <1>8 DEF EnterPass, LeavePass, Settle, Raise
  <1>9. ASSUME NEW t \in Thread,
               ResolvePoll(t) \/ GiveUp(t) \/ DetachResolved(t)
        PROVE  StagesMatch'
    BY <1>9 DEF ResolvePoll, GiveUp, DetachResolved, Fault, Raise, CanRecord,
           Recorded, InDoubt, NotRecorded, Commit, OwnsMonitor, Detach,
           DropLease, End
  <1>10. ASSUME NEW t \in Thread, NEW r \in Run,
               RetryEnd(t, r)
        PROVE  StagesMatch'
    BY <1>10 DEF RetryEnd
  <1>11. ASSUME NEW k \in {"monitor", "oneshot"}, NEW i \in Identity,
               BeginQuery(k, i)
        PROVE  StagesMatch'
    BY <1>11 DEF BeginQuery
  <1>12. CASE BeginStop \/ GraceExpires
    BY <1>12 DEF BeginStop, GraceExpires
  <1>13. CASE UNCHANGED vars
    BY <1>13 DEF vars
  <1> QED
    BY <1>1, <1>2, <1>3, <1>4, <1>5, <1>6, <1>7, <1>8, <1>9, <1>10,
       <1>11, <1>12, <1>13
       DEF Next, QueryStep, StopStep, ThreadStep, WindowStep

(* There is one lease, and the thread that has it is where it may have     *)
(* one.                                                                    *)
LEMMA StepLease ==
    ASSUME RuntimeInv, [Next]_vars
    PROVE  LeaseMatches'
  <1> USE TwoThreads, RuntimeAssumption
          DEF RuntimeInv, TypeOK, Goto, store, engine, mon, call, ends,
                 window, TypeControl, TypeEnds, TypeMonitor, StagesMatch,
                 LeaseMatches, PollIsNew, Ending, Resolving, Stage, Polling,
                 Leaving, Working
  <1>1. CASE ConfirmOneShot \/ Proceed \/ StartOneShot \/ AskOnce \/
             SaveOnce
    BY <1>1, NewPoll, NewRun DEF ConfirmOneShot, Proceed, StartOneShot,
           AskOnce, SaveOnce, Fault, Raise, Started, NotStarted, CanRecord,
           Recorded, InDoubt, NotRecorded, End
  <1>2. CASE TakeLease \/ RefuseLease \/ ConfirmPoll \/ DoubtRemains
             \/ Restarted
    BY <1>2, NewPoll DEF TakeLease, RefuseLease, ConfirmPoll, DoubtRemains,
           Restarted, Fault, Raise, CanRecord, Recorded, InDoubt, NotRecorded,
           Commit, Detach, DropLease, End, Busy
  <1>3. CASE OpenRun \/ UseMonitor \/ Attach \/ Prepare
    BY <1>3, NewRun DEF OpenRun, UseMonitor, Attach, Prepare, Fault, Started,
           NotStarted
  <1>4. CASE SavePoll \/ SaveInDoubt \/ SaveFails
    BY <1>4 DEF SavePoll, SaveInDoubt, SaveFails, Fault, Raise, CanRecord,
           Recorded, InDoubt, NotRecorded, Commit, OwnsMonitor, DropLease
  <1>5. CASE Unwind \/ Unwound \/ LeaveStopped \/ Leave \/
             LeaveInDoubt \/ RecoverStop
    BY <1>5 DEF Unwind, Unwound, LeaveStopped, Leave, LeaveInDoubt,
           RecoverStop, Raise, OwnsMonitor, Detach, DropLease, End
  <1>6. CASE RequestStop
    BY <1>6 DEF RequestStop, Raise, Detach, End
  <1>7. ASSUME NEW t \in Thread,
               FinishRun(t) \/ FinishRaises(t) \/ NoteEnd(t)
        PROVE  LeaseMatches'
    BY <1>7 DEF FinishRun, FinishRaises, NoteEnd, Fault
  <1>8. ASSUME NEW t \in Thread,
               EnterPass(t) \/ LeavePass(t) \/ Settle(t)
        PROVE  LeaseMatches'
    BY <1>8 DEF EnterPass, LeavePass, Settle, Raise
  <1>9. ASSUME NEW t \in Thread,
               ResolvePoll(t) \/ GiveUp(t) \/ DetachResolved(t)
        PROVE  LeaseMatches'
    BY <1>9 DEF ResolvePoll, GiveUp, DetachResolved, Fault, Raise, CanRecord,
           Recorded, InDoubt, NotRecorded, Commit, OwnsMonitor, Detach,
           DropLease, End
  <1>10. ASSUME NEW t \in Thread, NEW r \in Run,
               RetryEnd(t, r)
        PROVE  LeaseMatches'
    BY <1>10 DEF RetryEnd
  <1>11. ASSUME NEW k \in {"monitor", "oneshot"}, NEW i \in Identity,
               BeginQuery(k, i)
        PROVE  LeaseMatches'
    BY <1>11 DEF BeginQuery
  <1>12. CASE BeginStop \/ GraceExpires
    BY <1>12 DEF BeginStop, GraceExpires
  <1>13. CASE UNCHANGED vars
    BY <1>13 DEF vars
  <1> QED
    BY <1>1, <1>2, <1>3, <1>4, <1>5, <1>6, <1>7, <1>8, <1>9, <1>10,
       <1>11, <1>12, <1>13
       DEF Next, QueryStep, StopStep, ThreadStep, WindowStep

-----------------------------------------------------------------------------
(* The polls                                                               *)

(* A poll in doubt is retried by the thread that has leased it, and a new  *)
(* poll begins only when there is none.                                    *)
LEMMA StepPendingIsLeased ==
    ASSUME RuntimeInv, [Next]_vars
    PROVE  PendingIsLeased'
  <1> USE TwoThreads, RuntimeAssumption
          DEF RuntimeInv, TypeOK, Goto, store, engine, mon, call, ends,
                 window, TypeStore, TypeMonitor, TypeCall, TypeEnds,
                 TypeControl, StagesMatch, LeaseMatches, PendingIsLeased,
                 PendingHeld, OneShotHeld, PollIsNew, Unrecorded, Nothing,
                 Pair, Ending, Resolving, Stage, Polling, Leaving, Working
  <1>1. CASE ConfirmOneShot \/ Proceed \/ StartOneShot \/ AskOnce \/
             SaveOnce
    BY <1>1, NewPoll, NewRun DEF ConfirmOneShot, Proceed, StartOneShot,
           AskOnce, SaveOnce, Fault, Raise, Started, NotStarted, CanRecord,
           Recorded, InDoubt, NotRecorded, End
  <1>2. CASE TakeLease \/ RefuseLease
    BY <1>2, NewPoll DEF TakeLease, RefuseLease, Raise, Detach, End, Busy
  <1>3. CASE ConfirmPoll
    <2>1. pc[Query] = "retryPoll" /\ active = Query /\ pending' = Nothing
      BY <1>3 DEF ConfirmPoll
    <2>2. pc[Stop] \notin Resolving \cup {"retryPoll"} /\ pc'[Stop] = pc[Stop]
      BY <1>3, <2>1 DEF ConfirmPoll, End, QueryPC, StopPC, BothPC
    <2>3. pc'[Query] \notin Resolving \cup {"retryPoll"}
      BY <1>3, <2>1 DEF ConfirmPoll, End
    <2> QED
      BY <2>1, <2>2, <2>3
  <1>4. CASE DoubtRemains
    BY <1>4 DEF DoubtRemains, Fault, Raise, CanRecord, InDoubt, NotRecorded,
           DropLease
  <1>5. CASE Restarted
    BY <1>5 DEF Restarted
  <1>6. CASE OpenRun \/ UseMonitor \/ Attach \/ Prepare
    BY <1>6, NewRun DEF OpenRun, UseMonitor, Attach, Prepare, Fault, Started,
           NotStarted
  <1>7. CASE SavePoll \/ SaveInDoubt \/ SaveFails
    BY <1>7 DEF SavePoll, SaveInDoubt, SaveFails, Fault, Raise, CanRecord,
           Recorded, InDoubt, NotRecorded, Commit, OwnsMonitor, DropLease
  <1>8. CASE Unwind \/ Unwound \/ LeaveStopped \/ Leave \/
             LeaveInDoubt \/ RecoverStop
    BY <1>8 DEF Unwind, Unwound, LeaveStopped, Leave, LeaveInDoubt,
           RecoverStop, Raise, OwnsMonitor, Detach, DropLease, End
  <1>9. CASE RequestStop
    <2>1. /\ pc'[Query] = pc[Query] /\ after'[Query] = after[Query]
          /\ lease'[Query] = lease[Query] /\ pending' = pending
      BY <1>9 DEF RequestStop, Raise, End
    <2>2. pc'[Stop] \in Resolving \cup {"retryPoll"} =>
              pending # Nothing /\ lease'[Stop] = pending
      BY <1>9 DEF RequestStop, Raise, End
    <2> QED
      BY <2>1, <2>2
  <1>10. ASSUME NEW t \in Thread,
               FinishRun(t) \/ FinishRaises(t) \/ NoteEnd(t)
        PROVE  PendingIsLeased'
    BY <1>10 DEF FinishRun, FinishRaises, NoteEnd, Fault
  <1>11. ASSUME NEW t \in Thread,
               EnterPass(t) \/ LeavePass(t) \/ Settle(t)
        PROVE  PendingIsLeased'
    BY <1>11 DEF EnterPass, LeavePass, Settle, Raise
  <1>12. ASSUME NEW t \in Thread,
               ResolvePoll(t)
        PROVE  PendingIsLeased'
    BY <1>12 DEF ResolvePoll, Fault, CanRecord, Recorded, InDoubt,
           NotRecorded, Commit
  <1>13. ASSUME NEW t \in Thread,
               GiveUp(t)
        PROVE  PendingIsLeased'
    BY <1>13 DEF GiveUp, Raise, DropLease
  <1>14. ASSUME NEW t \in Thread,
               DetachResolved(t)
        PROVE  PendingIsLeased'
    <2>1. /\ pc[t] = "resolved" /\ active = t /\ pending = lease[t]
          /\ pending' = Nothing
      BY <1>14 DEF DetachResolved
    <2>2. \A u \in Thread \ {t} : pc[u] \notin Resolving /\ pc'[u] = pc[u]
      BY <1>14, <2>1 DEF DetachResolved, End
    <2>3. pc[Query] = "retryPoll" => active = Query
      OBVIOUS
    <2>4. pc'[t] \notin Resolving \cup {"retryPoll"}
      BY <1>14, <2>1 DEF DetachResolved, End
    <2>5. \A u \in Thread : pc'[u] \notin Resolving \cup {"retryPoll"}
      BY <2>1, <2>2, <2>3, <2>4 DEF QueryPC, StopPC, BothPC
    <2> QED
      BY <2>1, <2>5
  <1>15. ASSUME NEW t \in Thread, NEW r \in Run,
               RetryEnd(t, r)
        PROVE  PendingIsLeased'
    BY <1>15 DEF RetryEnd
  <1>16. ASSUME NEW k \in {"monitor", "oneshot"}, NEW i \in Identity,
               BeginQuery(k, i)
        PROVE  PendingIsLeased'
    BY <1>16 DEF BeginQuery
  <1>17. CASE BeginStop \/ GraceExpires
    BY <1>17 DEF BeginStop, GraceExpires
  <1>18. CASE UNCHANGED vars
    BY <1>18 DEF vars
  <1> QED
    BY <1>1, <1>2, <1>3, <1>4, <1>5, <1>6, <1>7, <1>8, <1>9, <1>10,
       <1>11, <1>12, <1>13, <1>14, <1>15, <1>16, <1>17, <1>18
       DEF Next, QueryStep, StopStep, ThreadStep, WindowStep

(* The poll in doubt is the monitor's: nothing replaces the monitor,       *)
(* prepares another poll or applies this one meanwhile.                    *)
LEMMA StepPendingHeld ==
    ASSUME RuntimeInv, [Next]_vars
    PROVE  PendingHeld'
  <1> USE TwoThreads, RuntimeAssumption
          DEF RuntimeInv, TypeOK, Goto, store, engine, mon, call, ends,
                 window, TypeStore, TypeMonitor, TypeCall, TypeEnds,
                 TypeControl, StagesMatch, LeaseMatches, PendingIsLeased,
                 PendingHeld, OneShotHeld, PollIsNew, Unrecorded, Nothing,
                 Pair, Ending, Resolving, Stage, Polling, Leaving, Working
  <1>1. CASE ConfirmOneShot \/ Proceed \/ StartOneShot \/ AskOnce \/
             SaveOnce
    BY <1>1, NewPoll, NewRun DEF ConfirmOneShot, Proceed, StartOneShot,
           AskOnce, SaveOnce, Fault, Raise, Started, NotStarted, CanRecord,
           Recorded, InDoubt, NotRecorded, End
  <1>2. CASE TakeLease \/ RefuseLease \/ ConfirmPoll \/ DoubtRemains
             \/ Restarted
    BY <1>2, NewPoll DEF TakeLease, RefuseLease, ConfirmPoll, DoubtRemains,
           Restarted, Fault, Raise, CanRecord, Recorded, InDoubt, NotRecorded,
           Commit, Detach, DropLease, End, Busy
  <1>3. CASE OpenRun \/ UseMonitor \/ Attach \/ Prepare
    BY <1>3, NewRun DEF OpenRun, UseMonitor, Attach, Prepare, Fault, Started,
           NotStarted
  <1>4. CASE SavePoll \/ SaveInDoubt \/ SaveFails
    BY <1>4 DEF SavePoll, SaveInDoubt, SaveFails, Fault, Raise, CanRecord,
           Recorded, InDoubt, NotRecorded, Commit, OwnsMonitor, DropLease
  <1>5. CASE Unwind \/ Unwound \/ LeaveStopped \/ Leave \/
             LeaveInDoubt \/ RecoverStop
    BY <1>5 DEF Unwind, Unwound, LeaveStopped, Leave, LeaveInDoubt,
           RecoverStop, Raise, OwnsMonitor, Detach, DropLease, End
  <1>6. CASE RequestStop
    BY <1>6 DEF RequestStop, Raise, Detach, End
  <1>7. ASSUME NEW t \in Thread,
               FinishRun(t) \/ FinishRaises(t) \/ NoteEnd(t)
        PROVE  PendingHeld'
    BY <1>7 DEF FinishRun, FinishRaises, NoteEnd, Fault
  <1>8. ASSUME NEW t \in Thread,
               EnterPass(t) \/ LeavePass(t) \/ Settle(t)
        PROVE  PendingHeld'
    BY <1>8 DEF EnterPass, LeavePass, Settle, Raise
  <1>9. ASSUME NEW t \in Thread,
               ResolvePoll(t) \/ GiveUp(t) \/ DetachResolved(t)
        PROVE  PendingHeld'
    BY <1>9 DEF ResolvePoll, GiveUp, DetachResolved, Fault, Raise, CanRecord,
           Recorded, InDoubt, NotRecorded, Commit, OwnsMonitor, Detach,
           DropLease, End
  <1>10. ASSUME NEW t \in Thread, NEW r \in Run,
               RetryEnd(t, r)
        PROVE  PendingHeld'
    BY <1>10 DEF RetryEnd
  <1>11. ASSUME NEW k \in {"monitor", "oneshot"}, NEW i \in Identity,
               BeginQuery(k, i)
        PROVE  PendingHeld'
    BY <1>11 DEF BeginQuery
  <1>12. CASE BeginStop \/ GraceExpires
    BY <1>12 DEF BeginStop, GraceExpires
  <1>13. CASE UNCHANGED vars
    BY <1>13 DEF vars
  <1> QED
    BY <1>1, <1>2, <1>3, <1>4, <1>5, <1>6, <1>7, <1>8, <1>9, <1>10,
       <1>11, <1>12, <1>13
       DEF Next, QueryStep, StopStep, ThreadStep, WindowStep

(* A query in doubt stays held until it is confirmed, and it is not the    *)
(* monitor's poll.                                                         *)
LEMMA StepOneShotHeld ==
    ASSUME RuntimeInv, [Next]_vars
    PROVE  OneShotHeld'
  <1> USE TwoThreads, RuntimeAssumption
          DEF RuntimeInv, TypeOK, Goto, store, engine, mon, call, ends,
                 window, TypeStore, TypeMonitor, TypeCall, TypeEnds,
                 TypeControl, StagesMatch, LeaseMatches, PendingIsLeased,
                 PendingHeld, OneShotHeld, PollIsNew, Unrecorded, Nothing,
                 Pair, Ending, Resolving, Stage, Polling, Leaving, Working,
                 KeepersMatch, KeepersOwn, KeepersDiffer, Opened, Opening,
                 EngineKnowsWhatIsRecorded
  <1>1. CASE ConfirmOneShot \/ Proceed \/ StartOneShot \/ AskOnce \/
             SaveOnce
    BY <1>1, NewPoll, NewRun DEF ConfirmOneShot, Proceed, StartOneShot,
           AskOnce, SaveOnce, Fault, Raise, Started, NotStarted, CanRecord,
           Recorded, InDoubt, NotRecorded, End
  <1>2. CASE TakeLease \/ RefuseLease \/ ConfirmPoll \/ DoubtRemains
             \/ Restarted
    BY <1>2, NewPoll DEF TakeLease, RefuseLease, ConfirmPoll, DoubtRemains,
           Restarted, Fault, Raise, CanRecord, Recorded, InDoubt, NotRecorded,
           Commit, Detach, DropLease, End, Busy
  <1>3. CASE OpenRun \/ UseMonitor \/ Attach \/ Prepare
    BY <1>3, NewRun DEF OpenRun, UseMonitor, Attach, Prepare, Fault, Started,
           NotStarted
  <1>4. CASE SavePoll \/ SaveInDoubt \/ SaveFails
    BY <1>4 DEF SavePoll, SaveInDoubt, SaveFails, Fault, Raise, CanRecord,
           Recorded, InDoubt, NotRecorded, Commit, OwnsMonitor, DropLease
  <1>5. CASE Unwind \/ Unwound \/ LeaveStopped \/ Leave \/
             LeaveInDoubt \/ RecoverStop
    BY <1>5 DEF Unwind, Unwound, LeaveStopped, Leave, LeaveInDoubt,
           RecoverStop, Raise, OwnsMonitor, Detach, DropLease, End
  <1>6. CASE RequestStop
    BY <1>6 DEF RequestStop, Raise, Detach, End
  <1>7. ASSUME NEW t \in Thread,
               FinishRun(t) \/ FinishRaises(t) \/ NoteEnd(t)
        PROVE  OneShotHeld'
    BY <1>7 DEF FinishRun, FinishRaises, NoteEnd, Fault
  <1>8. ASSUME NEW t \in Thread,
               EnterPass(t) \/ LeavePass(t) \/ Settle(t)
        PROVE  OneShotHeld'
    BY <1>8 DEF EnterPass, LeavePass, Settle, Raise
  <1>9. ASSUME NEW t \in Thread,
               ResolvePoll(t) \/ GiveUp(t) \/ DetachResolved(t)
        PROVE  OneShotHeld'
    BY <1>9 DEF ResolvePoll, GiveUp, DetachResolved, Fault, Raise, CanRecord,
           Recorded, InDoubt, NotRecorded, Commit, OwnsMonitor, Detach,
           DropLease, End
  <1>10. ASSUME NEW t \in Thread, NEW r \in Run,
               RetryEnd(t, r)
        PROVE  OneShotHeld'
    BY <1>10 DEF RetryEnd
  <1>11. ASSUME NEW k \in {"monitor", "oneshot"}, NEW i \in Identity,
               BeginQuery(k, i)
        PROVE  OneShotHeld'
    BY <1>11 DEF BeginQuery
  <1>12. CASE BeginStop \/ GraceExpires
    BY <1>12 DEF BeginStop, GraceExpires
  <1>13. CASE UNCHANGED vars
    BY <1>13 DEF vars
  <1> QED
    BY <1>1, <1>2, <1>3, <1>4, <1>5, <1>6, <1>7, <1>8, <1>9, <1>10,
       <1>11, <1>12, <1>13
       DEF Next, QueryStep, StopStep, ThreadStep, WindowStep

(* A new poll, and a new run, stay new until they are recorded.            *)
LEMMA StepPollIsNew ==
    ASSUME RuntimeInv, [Next]_vars
    PROVE  PollIsNew'
  <1> USE TwoThreads, RuntimeAssumption
          DEF RuntimeInv, TypeOK, Goto, store, engine, mon, call, ends,
                 window, TypeStore, TypeMonitor, TypeCall, TypeEnds,
                 TypeControl, StagesMatch, LeaseMatches, PendingIsLeased,
                 OneShotHeld, PollIsNew, Unrecorded, Nothing, Pair, Ending,
                 Resolving, Stage, Polling, Leaving, Working
  <1>1. CASE ConfirmOneShot \/ Proceed \/ StartOneShot \/ AskOnce \/
             SaveOnce
    BY <1>1, NewPoll, NewRun DEF ConfirmOneShot, Proceed, StartOneShot,
           AskOnce, SaveOnce, Fault, Raise, Started, NotStarted, CanRecord,
           Recorded, InDoubt, NotRecorded, End
  <1>2. CASE TakeLease \/ RefuseLease
    BY <1>2, NewPoll DEF TakeLease, RefuseLease, Raise, Detach, End, Busy
  <1>3. CASE ConfirmPoll
    <2>1. /\ pc'[Query] \in {"leave", "finish", "restarted"}
          /\ pc'[Query] = "finish" => after'[Query] = "restarted"
      BY <1>3 DEF ConfirmPoll, End
    <2>2. \A p \in Poll : recorded'[p] = recorded[p] \/ p = lease[Query].poll
      BY <1>3 DEF ConfirmPoll, Recorded
    <2>3. Stage(Query)' = "restarted" =>
              /\ monitor' = None
              /\ lease'[Query].poll = FreshPoll
      BY <1>3, <2>1 DEF ConfirmPoll, Detach, End
    <2>4. /\ FreshPoll \in Poll /\ FreshPoll \notin doubt'
          /\ recorded'[FreshPoll] = None
      BY <1>3, <2>2, <2>3, NewPoll DEF ConfirmPoll, Recorded
    <2>5. \A r \in Run, p \in Poll :
              runState'[r] = "absent" => recorded'[p] # r
      BY <1>3 DEF ConfirmPoll, CanRecord, Recorded
    <2> QED
      BY <2>1, <2>3, <2>4, <2>5
  <1>4. CASE DoubtRemains \/ Restarted
    BY <1>4 DEF DoubtRemains, Restarted, Fault, Raise, CanRecord, InDoubt,
           NotRecorded, DropLease
  <1>5. CASE OpenRun \/ UseMonitor \/ Attach \/ Prepare
    BY <1>5, NewRun DEF OpenRun, UseMonitor, Attach, Prepare, Fault, Started,
           NotStarted
  <1>6. CASE SavePoll \/ SaveInDoubt \/ SaveFails
    BY <1>6 DEF SavePoll, SaveInDoubt, SaveFails, Fault, Raise, CanRecord,
           Recorded, InDoubt, NotRecorded, Commit, OwnsMonitor, DropLease
  <1>7. CASE Unwind \/ Unwound \/ LeaveStopped \/ Leave \/
             LeaveInDoubt \/ RecoverStop
    BY <1>7 DEF Unwind, Unwound, LeaveStopped, Leave, LeaveInDoubt,
           RecoverStop, Raise, OwnsMonitor, Detach, DropLease, End
  <1>8. CASE RequestStop
    BY <1>8 DEF RequestStop, Raise, Detach, End
  <1>9. ASSUME NEW t \in Thread,
               FinishRun(t) \/ FinishRaises(t) \/ NoteEnd(t)
        PROVE  PollIsNew'
    BY <1>9 DEF FinishRun, FinishRaises, NoteEnd, Fault
  <1>10. ASSUME NEW t \in Thread,
               EnterPass(t) \/ LeavePass(t) \/ Settle(t)
        PROVE  PollIsNew'
    BY <1>10 DEF EnterPass, LeavePass, Settle, Raise
  <1>11. ASSUME NEW t \in Thread,
               ResolvePoll(t) \/ GiveUp(t) \/ DetachResolved(t)
        PROVE  PollIsNew'
    BY <1>11 DEF ResolvePoll, GiveUp, DetachResolved, Fault, Raise, CanRecord,
           Recorded, InDoubt, NotRecorded, Commit, OwnsMonitor, Detach,
           DropLease, End
  <1>12. ASSUME NEW t \in Thread, NEW r \in Run,
               RetryEnd(t, r)
        PROVE  PollIsNew'
    BY <1>12 DEF RetryEnd
  <1>13. ASSUME NEW k \in {"monitor", "oneshot"}, NEW i \in Identity,
               BeginQuery(k, i)
        PROVE  PollIsNew'
    BY <1>13 DEF BeginQuery
  <1>14. CASE BeginStop \/ GraceExpires
    BY <1>14 DEF BeginStop, GraceExpires
  <1>15. CASE UNCHANGED vars
    BY <1>15 DEF vars
  <1> QED
    BY <1>1, <1>2, <1>3, <1>4, <1>5, <1>6, <1>7, <1>8, <1>9, <1>10,
       <1>11, <1>12, <1>13, <1>14, <1>15
       DEF Next, QueryStep, StopStep, ThreadStep, WindowStep

(* No doubt is forgotten, and the monitor has applied what is recorded.    *)
LEMMA StepApplied ==
    ASSUME RuntimeInv, [Next]_vars
    PROVE  /\ NothingInDoubtForgotten'
           /\ EngineKnowsWhatIsRecorded'
  <1> USE TwoThreads, RuntimeAssumption
          DEF RuntimeInv, TypeOK, Goto, store, engine, mon, call, ends,
                 window, TypeStore, TypeMonitor, TypeCall, TypeEnds,
                 TypeControl, StagesMatch, LeaseMatches, PendingIsLeased,
                 PendingHeld, OneShotHeld, PollIsNew, Unrecorded, Nothing,
                 Pair, Ending, Resolving, Stage, Polling, Leaving, Working,
                 KeepersMatch, KeepersOwn, KeepersDiffer, Opened, Opening,
                 NothingInDoubtForgotten, EngineKnowsWhatIsRecorded
  <1>1. CASE ConfirmOneShot
    BY <1>1 DEF ConfirmOneShot, Fault, Raise, CanRecord, Recorded, InDoubt,
           NotRecorded, End
  <1>2. CASE Proceed
    BY <1>2 DEF Proceed, Raise
  <1>3. CASE StartOneShot
    BY <1>3, NewPoll, NewRun DEF StartOneShot, Fault, Raise, Started,
           NotStarted
  <1>4. CASE AskOnce
    BY <1>4 DEF AskOnce, Fault, End
  <1>5. CASE SaveOnce
    BY <1>5 DEF SaveOnce, Fault, Raise, CanRecord, Recorded, InDoubt,
           NotRecorded, End
  <1>6. CASE TakeLease \/ RefuseLease
    BY <1>6, NewPoll DEF TakeLease, RefuseLease, Raise, Detach, End, Busy
  <1>7. CASE ConfirmPoll \/ DoubtRemains \/ Restarted
    BY <1>7, NewPoll DEF ConfirmPoll, DoubtRemains, Restarted, Fault, Raise,
           CanRecord, Recorded, InDoubt, NotRecorded, Commit, Detach,
           DropLease, End
  <1>8. CASE OpenRun \/ UseMonitor \/ Attach \/ Prepare
    BY <1>8, NewRun DEF OpenRun, UseMonitor, Attach, Prepare, Fault, Started,
           NotStarted
  <1>9. CASE SavePoll \/ SaveInDoubt \/ SaveFails
    BY <1>9 DEF SavePoll, SaveInDoubt, SaveFails, Fault, Raise, CanRecord,
           Recorded, InDoubt, NotRecorded, Commit, OwnsMonitor, DropLease
  <1>10. CASE Unwind \/ Unwound \/ LeaveStopped \/ Leave \/
             LeaveInDoubt \/ RecoverStop
    BY <1>10 DEF Unwind, Unwound, LeaveStopped, Leave, LeaveInDoubt,
           RecoverStop, Raise, OwnsMonitor, Detach, DropLease, End
  <1>11. CASE RequestStop
    BY <1>11 DEF RequestStop, Raise, Detach, End
  <1>12. ASSUME NEW t \in Thread,
               FinishRun(t) \/ FinishRaises(t) \/ NoteEnd(t)
        PROVE  NothingInDoubtForgotten' /\ EngineKnowsWhatIsRecorded'
    BY <1>12 DEF FinishRun, FinishRaises, NoteEnd, Fault
  <1>13. ASSUME NEW t \in Thread,
               EnterPass(t) \/ LeavePass(t) \/ Settle(t)
        PROVE  NothingInDoubtForgotten' /\ EngineKnowsWhatIsRecorded'
    BY <1>13 DEF EnterPass, LeavePass, Settle, Raise
  <1>14. ASSUME NEW t \in Thread,
               ResolvePoll(t) \/ GiveUp(t) \/ DetachResolved(t)
        PROVE  NothingInDoubtForgotten' /\ EngineKnowsWhatIsRecorded'
    BY <1>14 DEF ResolvePoll, GiveUp, DetachResolved, Fault, Raise, CanRecord,
           Recorded, InDoubt, NotRecorded, Commit, OwnsMonitor, Detach,
           DropLease, End
  <1>15. ASSUME NEW t \in Thread, NEW r \in Run,
               RetryEnd(t, r)
        PROVE  NothingInDoubtForgotten' /\ EngineKnowsWhatIsRecorded'
    BY <1>15 DEF RetryEnd
  <1>16. ASSUME NEW k \in {"monitor", "oneshot"}, NEW i \in Identity,
               BeginQuery(k, i)
        PROVE  NothingInDoubtForgotten' /\ EngineKnowsWhatIsRecorded'
    BY <1>16 DEF BeginQuery
  <1>17. CASE BeginStop \/ GraceExpires
    BY <1>17 DEF BeginStop, GraceExpires
  <1>18. CASE UNCHANGED vars
    BY <1>18 DEF vars
  <1> QED
    BY <1>1, <1>2, <1>3, <1>4, <1>5, <1>6, <1>7, <1>8, <1>9, <1>10,
       <1>11, <1>12, <1>13, <1>14, <1>15, <1>16, <1>17, <1>18
       DEF Next, QueryStep, StopStep, ThreadStep, WindowStep

-----------------------------------------------------------------------------
(* The keepers of the runs                                                 *)

(* A thread that begins to end a run takes it over from its keeper: from   *)
(* the monitor, from the query in doubt, or from execute().                *)
LEMMA HandOver ==
    ASSUME RuntimeInv, NEW t \in Thread,
           NEW r \in {monitor, pendingOne.job.run, Opened},
           NEW then \in {"restarted", "unwound", "left", "last", "one",
                         "answer", "raise"},
           pc[t] \notin Ending \cup {"first", "last"},
           t = Query \/ r = monitor,
           t = Query => r = Opened \/ Opened = None,
           End(t, r, then),
           monitor' \in {monitor, None},
           r = monitor => monitor' = None,
           pendingOne'.job.run \in {pendingOne.job.run, None},
           r = pendingOne.job.run => pendingOne'.job.run = None,
           UNCHANGED <<runState, owned, job>>
    PROVE  KeepersMatch'
  <1> USE TwoThreads, RuntimeAssumption
      DEF RuntimeInv, TypeOK, TypeControl, TypeEnds, TypeMonitor, TypeCall,
          StagesMatch, Ending, KeepersMatch
  <1>1. /\ pc' = [pc EXCEPT ![t] = IF r = None THEN then ELSE "finish"]
        /\ finishing' = [finishing EXCEPT ![t] = r]
        /\ after' = [after EXCEPT ![t] = then]
        /\ UNCHANGED <<queued, finishLock, todo>>
    BY DEF End, Goto
  <1>2. /\ pc'[t] = IF r = None THEN then ELSE "finish"
        /\ finishing[t] = None /\ finishing'[t] = r /\ after'[t] = then
        /\ \A u \in Thread \ {t} :
              /\ pc'[u] = pc[u] /\ after'[u] = after[u]
              /\ finishing'[u] = finishing[u]
    BY <1>1
  <1>3. /\ Opened' \in {Opened, None} /\ (r # None => r # Opened')
        /\ r = None \/ r \in owned
        /\ pc'[Query] \in Opening => Opened' = Opened /\ pc[Query] \in Opening
    BY <1>2 DEF Opened, Opening, KeepersOwn, KeepersDiffer
  <1>4. KeepersOwn'
    BY <1>2, <1>3 DEF KeepersOwn, TypeStore
  <1>5. KeepersDiffer'
    BY <1>1, <1>2, <1>3 DEF KeepersDiffer, KeepersOwn
  <1>6. finishLock # t
    BY DEF PassesMatch, Stage
  <1>7. PassesMatch'
    BY <1>1, <1>2, <1>3, <1>6 DEF PassesMatch, Stage, KeepersDiffer
  <1> QED
    BY <1>4, <1>5, <1>7

(* The keepers of a thread that goes on without opening or ending a run.   *)
LEMMA GoesOn ==
    ASSUME RuntimeInv, NEW t \in Thread,
           pc[t] \notin Ending \cup Opening \cup {"first", "last"},
           NEW where \in QueryPC \cup BothPC \cup StopPC,
           where \notin Ending \cup Opening,
           Goto(t, where),
           UNCHANGED <<monitor, runState, owned, job, pendingOne, queued,
                       finishLock, todo, finishing, after>>
    PROVE  KeepersMatch'
  <1> USE TwoThreads, RuntimeAssumption
      DEF RuntimeInv, TypeOK, TypeControl, TypeEnds, StagesMatch, KeepersMatch
  <1>1. /\ pc'[t] = where
        /\ \A u \in Thread \ {t} : pc'[u] = pc[u]
    BY DEF Goto
  <1>2. Opened' = Opened
    BY <1>1 DEF Opened
  <1>3. KeepersOwn' /\ KeepersDiffer'
    BY <1>1, <1>2 DEF KeepersOwn, KeepersDiffer, Ending
  <1>4. PassesMatch'
    BY <1>1 DEF PassesMatch, Stage, Ending
  <1> QED
    BY <1>3, <1>4

LEMMA AskOnceKeepers == RuntimeInv /\ AskOnce => KeepersMatch'
  <1> SUFFICES ASSUME RuntimeInv, AskOnce PROVE KeepersMatch'
    OBVIOUS
  <1>1. /\ pc[Query] = "ask1" /\ Opened = job.run /\ job.run \in Run
        /\ monitor # Opened /\ pendingOne.job.run # Opened
    BY RuntimeAssumption
       DEF AskOnce, RuntimeInv, Opened, Opening, KeepersMatch, KeepersOwn,
           KeepersDiffer
  <1>2. UNCHANGED <<runState, owned, job, monitor, pendingOne>>
    BY DEF AskOnce, mon, call
  <1>3. CASE End(Query, job.run, "raise")
    BY <1>1, <1>2, <1>3, TwoThreads, HandOver DEF Ending
  <1>4. CASE Goto(Query, "save1") /\ UNCHANGED ends
    BY <1>1, <1>2, <1>4, TwoThreads
       DEF RuntimeInv, TypeOK, TypeControl, Goto, ends, Opened, Opening,
           KeepersMatch, KeepersOwn, KeepersDiffer, PassesMatch, Stage, Ending
  <1> QED
    BY <1>3, <1>4 DEF AskOnce

LEMMA ConfirmOneShotKeepers == RuntimeInv /\ ConfirmOneShot => KeepersMatch'
  <1> SUFFICES ASSUME RuntimeInv, ConfirmOneShot PROVE KeepersMatch'
    OBVIOUS
  <1>1. pc[Query] = "one" /\ Opened = None
    BY DEF ConfirmOneShot, Opened, Opening
  <1>2. UNCHANGED <<runState, owned, job, monitor>>
    BY DEF ConfirmOneShot, mon, Recorded, InDoubt, NotRecorded
  <1>3. ASSUME NEW then \in {"answer", "one"},
               End(Query, pendingOne.job.run, then),
               pendingOne' = [job |-> Nothing, want |-> None]
        PROVE  KeepersMatch'
    <2>1. pendingOne'.job.run = None /\ monitor' = monitor
      BY <1>2, <1>3 DEF Nothing
    <2>2. pendingOne.job.run = monitor => monitor = None
      BY DEF RuntimeInv, KeepersMatch, KeepersDiffer
    <2> QED
      BY <1>1, <1>2, <1>3, <2>1, <2>2, TwoThreads, HandOver DEF Ending
  <1>4. CASE Raise(Query) /\ UNCHANGED <<pendingOne, ends>>
    BY <1>1, <1>2, <1>4, TwoThreads, GoesOn
       DEF Raise, ends, Ending, Opening, QueryPC
  <1> QED
    BY <1>3, <1>4 DEF ConfirmOneShot

LEMMA SaveOnceKeepers == RuntimeInv /\ SaveOnce => KeepersMatch'
  <1> SUFFICES ASSUME RuntimeInv, SaveOnce PROVE KeepersMatch'
    OBVIOUS
  <1>1. /\ pc[Query] = "save1" /\ Opened = job.run /\ job.run \in Run
        /\ monitor # Opened /\ pendingOne.job.run # Opened
        /\ pendingOne.job = Nothing
    BY RuntimeAssumption
       DEF SaveOnce, RuntimeInv, Opened, Opening, KeepersMatch, KeepersOwn,
           KeepersDiffer, OneShotHeld
  <1>2. UNCHANGED <<runState, owned, job, monitor>>
    BY DEF SaveOnce, mon, Recorded, InDoubt, NotRecorded
  <1>3. ASSUME NEW then \in {"answer", "raise"},
               End(Query, job.run, then), UNCHANGED pendingOne
        PROVE  KeepersMatch'
    BY <1>1, <1>2, <1>3, TwoThreads, HandOver DEF Ending
  <1>4. CASE /\ Raise(Query) /\ UNCHANGED ends
             /\ pendingOne' = [job |-> job, want |-> want]
    <2>1. Opened' = None /\ pendingOne'.job.run = job.run
      BY <1>4, TwoThreads
         DEF Raise, Goto, Opened, Opening, RuntimeInv, TypeOK, TypeControl
    <2> QED
      BY <1>1, <1>2, <1>4, <2>1, TwoThreads, RuntimeAssumption
         DEF RuntimeInv, TypeOK, TypeControl, Raise, Goto, ends, Opening,
             KeepersMatch, KeepersOwn, KeepersDiffer, PassesMatch, Stage,
             Ending, Nothing
  <1> QED
    BY <1>3, <1>4 DEF SaveOnce

LEMMA TakeLeaseKeepers == RuntimeInv /\ TakeLease => KeepersMatch'
  <1> SUFFICES ASSUME RuntimeInv, TakeLease PROVE KeepersMatch'
    OBVIOUS
  <1>1. pc[Query] = "lease" /\ Opened = None
    BY DEF TakeLease, Opened, Opening
  <1>2. UNCHANGED <<runState, owned, job, pendingOne>>
    BY DEF TakeLease, store, call
  <1>3. CASE Detach /\ End(Query, monitor, "restarted")
    BY <1>1, <1>2, <1>3, TwoThreads, HandOver DEF Ending, Detach,
       RuntimeInv, KeepersMatch, KeepersDiffer
  <1>4. ASSUME NEW where \in {"retryPoll", "open"},
               Goto(Query, where), UNCHANGED <<monitor, ends>>
        PROVE  KeepersMatch'
    BY <1>1, <1>2, <1>4, TwoThreads, GoesOn DEF ends, Ending, Opening, QueryPC
  <1> QED
    BY <1>3, <1>4 DEF TakeLease

LEMMA ConfirmPollKeepers == RuntimeInv /\ ConfirmPoll => KeepersMatch'
  <1> SUFFICES ASSUME RuntimeInv, ConfirmPoll PROVE KeepersMatch'
    OBVIOUS
  <1>1. pc[Query] = "retryPoll" /\ Opened = None
    BY DEF ConfirmPoll, Opened, Opening
  <1>2. UNCHANGED <<runState, owned, job, pendingOne>>
    BY DEF ConfirmPoll, Recorded, call
  <1>3. lease[Query].run = monitor
    BY <1>1, TwoThreads DEF RuntimeInv, PendingIsLeased, PendingHeld
  <1>4. CASE Detach /\ End(Query, lease[Query].run, "restarted")
    BY <1>1, <1>2, <1>3, <1>4, TwoThreads, HandOver DEF Ending, Detach,
       RuntimeInv, KeepersMatch, KeepersDiffer
  <1>5. CASE Goto(Query, "leave") /\ UNCHANGED <<monitor, ends>>
    BY <1>1, <1>2, <1>5, TwoThreads, GoesOn DEF ends, Ending, Opening, QueryPC
  <1> QED
    BY <1>4, <1>5 DEF ConfirmPoll

LEMMA UnwindKeepers == RuntimeInv /\ Unwind => KeepersMatch'
  <1> SUFFICES ASSUME RuntimeInv, Unwind PROVE KeepersMatch'
    OBVIOUS
  <1>1. pc[Query] = "unwind" /\ Opened = None
    BY DEF Unwind, Opened, Opening
  <1>2. UNCHANGED <<runState, owned, job, pendingOne>>
    BY DEF Unwind, store, call
  <1>3. CASE Detach /\ End(Query, monitor, "unwound")
    BY <1>1, <1>2, <1>3, TwoThreads, HandOver DEF Ending, Detach,
       RuntimeInv, KeepersMatch, KeepersDiffer
  <1>4. CASE Goto(Query, "unwound") /\ UNCHANGED <<monitor, ends>>
    BY <1>1, <1>2, <1>4, TwoThreads, GoesOn DEF ends, Ending, Opening, QueryPC
  <1> QED
    BY <1>3, <1>4 DEF Unwind

LEMMA RequestStopKeepers == RuntimeInv /\ RequestStop => KeepersMatch'
  <1> SUFFICES ASSUME RuntimeInv, RequestStop PROVE KeepersMatch'
    OBVIOUS
  <1>1. pc[Stop] = "flag"
    BY DEF RequestStop
  <1>2. UNCHANGED <<runState, owned, job, pendingOne>>
    BY DEF RequestStop, store, call
  <1>3. CASE Detach /\ End(Stop, monitor, "last")
    BY <1>1, <1>2, <1>3, TwoThreads, HandOver DEF Ending, Detach,
       RuntimeInv, KeepersMatch, KeepersDiffer
  <1>4. CASE (Goto(Stop, "last") \/ Goto(Stop, "resolve") \/ Raise(Stop))
             /\ UNCHANGED <<monitor, ends>>
    <2>1. \E where \in {"last", "resolve", "idle"} : Goto(Stop, where)
      BY <1>4 DEF Raise
    <2> QED
      BY <1>1, <1>2, <1>4, <2>1, TwoThreads, GoesOn
         DEF ends, Ending, Opening, QueryPC, BothPC
  <1> QED
    BY <1>3, <1>4 DEF RequestStop

LEMMA DetachResolvedKeepers ==
    ASSUME RuntimeInv, NEW t \in Thread, DetachResolved(t)
    PROVE  KeepersMatch'
  <1>1. /\ pc[t] = "resolved"
        /\ t = Query => Opened = None
    BY DEF DetachResolved, Opened, Opening
  <1>2. UNCHANGED <<runState, owned, job, pendingOne>>
    BY DEF DetachResolved, store, call
  <1>3. CASE Detach /\ End(t, monitor, "last")
    BY <1>1, <1>2, <1>3, TwoThreads, HandOver DEF Ending, Detach,
       RuntimeInv, KeepersMatch, KeepersDiffer
  <1>4. CASE Goto(t, "last") /\ UNCHANGED <<monitor, ends>>
    BY <1>1, <1>2, <1>4, TwoThreads, GoesOn DEF ends, Ending, Opening, BothPC
  <1> QED
    BY <1>3, <1>4 DEF DetachResolved

(* Every step leaves each open run with its keeper, and with one only.     *)
LEMMA StepKeepers ==
    ASSUME RuntimeInv, [Next]_vars
    PROVE  KeepersMatch'
  <1> USE TwoThreads, RuntimeAssumption
          DEF RuntimeInv, TypeOK, Goto, store, engine, mon, call, ends,
                 window, TypeStore, TypeMonitor, TypeCall, TypeEnds,
                 TypeControl, StagesMatch, OneShotHeld, PollIsNew, KeepersOwn,
                 KeepersDiffer, Opened, Opening, PassesMatch,
                 QueuedEndsCanSucceed, Unrecorded, Nothing, Pair, Ending,
                 Resolving, Stage
  <1>1. CASE ConfirmOneShot
    BY <1>1, ConfirmOneShotKeepers
  <1>2. CASE Proceed
    BY <1>2 DEF Proceed, Raise, KeepersMatch
  <1>3. CASE StartOneShot
    BY <1>3, NewPoll, NewRun DEF StartOneShot, Fault, Raise, Started,
           NotStarted, KeepersMatch
  <1>4. CASE AskOnce
    BY <1>4, AskOnceKeepers
  <1>5. CASE SaveOnce
    BY <1>5, SaveOnceKeepers
  <1>6. CASE TakeLease
    BY <1>6, TakeLeaseKeepers
  <1>7. CASE RefuseLease
    BY <1>7 DEF RefuseLease, Raise, Busy, KeepersMatch
  <1>8. CASE ConfirmPoll
    BY <1>8, ConfirmPollKeepers
  <1>9. CASE DoubtRemains
    BY <1>9 DEF DoubtRemains, Fault, Raise, CanRecord, InDoubt, NotRecorded,
           DropLease, KeepersMatch
  <1>10. CASE Restarted
    BY <1>10 DEF Restarted, KeepersMatch
  <1>11. CASE OpenRun \/ UseMonitor \/ Attach \/ Prepare
    BY <1>11, NewRun DEF OpenRun, UseMonitor, Attach, Prepare, Fault, Started,
           NotStarted, KeepersMatch
  <1>12. CASE SavePoll \/ SaveInDoubt \/ SaveFails
    BY <1>12 DEF SavePoll, SaveInDoubt, SaveFails, Fault, Raise, CanRecord,
           Recorded, InDoubt, NotRecorded, Commit, OwnsMonitor, DropLease,
           KeepersMatch
  <1>13. CASE Unwind
    BY <1>13, UnwindKeepers
  <1>14. CASE Unwound
    BY <1>14 DEF Unwound, DropLease, KeepersMatch
  <1>15. CASE LeaveStopped
    BY <1>15 DEF LeaveStopped, OwnsMonitor, Detach, End, KeepersMatch
  <1>16. CASE Leave \/ LeaveInDoubt \/ RecoverStop
    BY <1>16 DEF Leave, LeaveInDoubt, RecoverStop, Raise, OwnsMonitor,
           DropLease, KeepersMatch
  <1>17. CASE RequestStop
    BY <1>17, RequestStopKeepers
  <1>18. ASSUME NEW t \in Thread,
               FinishRun(t)
        PROVE  KeepersMatch'
    BY <1>18 DEF FinishRun, KeepersMatch
  <1>19. ASSUME NEW t \in Thread,
               FinishRaises(t)
        PROVE  KeepersMatch'
    BY <1>19 DEF FinishRaises, Fault, KeepersMatch
  <1>20. ASSUME NEW t \in Thread,
               NoteEnd(t)
        PROVE  KeepersMatch'
    BY <1>20 DEF NoteEnd, KeepersMatch
  <1>21. ASSUME NEW t \in Thread,
               EnterPass(t) \/ LeavePass(t) \/ Settle(t)
        PROVE  KeepersMatch'
    BY <1>21 DEF EnterPass, LeavePass, Settle, Raise, KeepersMatch
  <1>22. ASSUME NEW t \in Thread,
               ResolvePoll(t)
        PROVE  KeepersMatch'
    BY <1>22 DEF ResolvePoll, Fault, CanRecord, Recorded, InDoubt,
           NotRecorded, Commit, KeepersMatch
  <1>23. ASSUME NEW t \in Thread,
               GiveUp(t)
        PROVE  KeepersMatch'
    BY <1>23 DEF GiveUp, Raise, DropLease, KeepersMatch
  <1>24. ASSUME NEW t \in Thread,
               DetachResolved(t)
        PROVE  KeepersMatch'
    BY <1>24, DetachResolvedKeepers
  <1>25. ASSUME NEW t \in Thread, NEW r \in Run,
               RetryEnd(t, r)
        PROVE  KeepersMatch'
    BY <1>25 DEF RetryEnd, KeepersMatch
  <1>26. ASSUME NEW k \in {"monitor", "oneshot"}, NEW i \in Identity,
               BeginQuery(k, i)
        PROVE  KeepersMatch'
    BY <1>26 DEF BeginQuery, KeepersMatch
  <1>27. CASE BeginStop \/ GraceExpires
    BY <1>27 DEF BeginStop, GraceExpires, KeepersMatch
  <1>28. CASE UNCHANGED vars
    BY <1>28 DEF vars, KeepersMatch
  <1> QED
    BY <1>1, <1>2, <1>3, <1>4, <1>5, <1>6, <1>7, <1>8, <1>9, <1>10,
       <1>11, <1>12, <1>13, <1>14, <1>15, <1>16, <1>17, <1>18, <1>19,
       <1>20, <1>21, <1>22, <1>23, <1>24, <1>25, <1>26, <1>27, <1>28
       DEF Next, QueryStep, StopStep, ThreadStep, WindowStep

(* So no open run is without a keeper, and a queued end can be made.       *)
LEMMA StepKept ==
    ASSUME RuntimeInv, [Next]_vars
    PROVE  /\ EveryRunHasAKeeper'
           /\ QueuedEndsCanSucceed'
  <1> USE TwoThreads, RuntimeAssumption
          DEF RuntimeInv, TypeOK, Goto, store, engine, mon, call, ends,
                 window, TypeStore, TypeMonitor, TypeCall, TypeEnds,
                 TypeControl, StagesMatch, OneShotHeld, PollIsNew, KeepersOwn,
                 KeepersDiffer, Opened, Opening, PassesMatch,
                 QueuedEndsCanSucceed, Unrecorded, Nothing, Pair, Ending,
                 Resolving, Stage, KeepersMatch, LeaseMatches,
                 PendingIsLeased, PendingHeld, EveryRunHasAKeeper, Polling,
                 Leaving, Working
  <1>1. CASE ConfirmOneShot \/ Proceed \/ StartOneShot \/ AskOnce \/
             SaveOnce
    BY <1>1, NewPoll, NewRun DEF ConfirmOneShot, Proceed, StartOneShot,
           AskOnce, SaveOnce, Fault, Raise, Started, NotStarted, CanRecord,
           Recorded, InDoubt, NotRecorded, End
  <1>2. CASE TakeLease \/ RefuseLease
    BY <1>2, NewPoll DEF TakeLease, RefuseLease, Raise, Detach, End, Busy
  <1>3. CASE ConfirmPoll \/ DoubtRemains \/ Restarted
    BY <1>3, NewPoll DEF ConfirmPoll, DoubtRemains, Restarted, Fault, Raise,
           CanRecord, Recorded, InDoubt, NotRecorded, Commit, Detach,
           DropLease, End
  <1>4. CASE OpenRun \/ UseMonitor \/ Attach \/ Prepare
    BY <1>4, NewRun DEF OpenRun, UseMonitor, Attach, Prepare, Fault, Started,
           NotStarted
  <1>5. CASE SavePoll \/ SaveInDoubt \/ SaveFails
    BY <1>5 DEF SavePoll, SaveInDoubt, SaveFails, Fault, Raise, CanRecord,
           Recorded, InDoubt, NotRecorded, Commit, OwnsMonitor, DropLease
  <1>6. CASE Unwind \/ Unwound \/ LeaveStopped \/ Leave \/
             LeaveInDoubt \/ RecoverStop
    BY <1>6 DEF Unwind, Unwound, LeaveStopped, Leave, LeaveInDoubt,
           RecoverStop, Raise, OwnsMonitor, Detach, DropLease, End
  <1>7. CASE RequestStop
    BY <1>7 DEF RequestStop, Raise, Detach, End
  <1>8. ASSUME NEW t \in Thread,
               FinishRun(t) \/ FinishRaises(t) \/ NoteEnd(t)
        PROVE  EveryRunHasAKeeper' /\ QueuedEndsCanSucceed'
    <2>1. CASE FinishRun(t)
      BY <2>1 DEF FinishRun, Fault
    <2>2. CASE FinishRaises(t)
      BY <2>2 DEF FinishRaises, Fault
    <2>3. CASE NoteEnd(t)
      BY <2>3 DEF NoteEnd
    <2> QED BY <1>8, <2>1, <2>2, <2>3
  <1>9. ASSUME NEW t \in Thread,
               EnterPass(t) \/ LeavePass(t) \/ Settle(t)
        PROVE  EveryRunHasAKeeper' /\ QueuedEndsCanSucceed'
    BY <1>9 DEF EnterPass, LeavePass, Settle, Raise
  <1>10. ASSUME NEW t \in Thread,
               ResolvePoll(t) \/ GiveUp(t) \/ DetachResolved(t)
        PROVE  EveryRunHasAKeeper' /\ QueuedEndsCanSucceed'
    BY <1>10 DEF ResolvePoll, GiveUp, DetachResolved, Fault, Raise, CanRecord,
           Recorded, InDoubt, NotRecorded, Commit, OwnsMonitor, Detach,
           DropLease, End
  <1>11. ASSUME NEW t \in Thread, NEW r \in Run,
               RetryEnd(t, r)
        PROVE  EveryRunHasAKeeper' /\ QueuedEndsCanSucceed'
    BY <1>11 DEF RetryEnd
  <1>12. ASSUME NEW k \in {"monitor", "oneshot"}, NEW i \in Identity,
               BeginQuery(k, i)
        PROVE  EveryRunHasAKeeper' /\ QueuedEndsCanSucceed'
    BY <1>12 DEF BeginQuery
  <1>13. CASE BeginStop \/ GraceExpires
    BY <1>13 DEF BeginStop, GraceExpires
  <1>14. CASE UNCHANGED vars
    BY <1>14 DEF vars
  <1> QED
    BY <1>1, <1>2, <1>3, <1>4, <1>5, <1>6, <1>7, <1>8, <1>9, <1>10,
       <1>11, <1>12, <1>13, <1>14
       DEF Next, QueryStep, StopStep, ThreadStep, WindowStep

-----------------------------------------------------------------------------
(* Theorems                                                                *)

(* RuntimeInv holds in every state.                                        *)
THEOREM RuntimeInvariance == Spec => []RuntimeInv
  <1>1. RuntimeInv /\ [Next]_vars => RuntimeInv'
    <2> SUFFICES ASSUME RuntimeInv, [Next]_vars PROVE RuntimeInv'
      OBVIOUS
    <2>1. TypeOK'
      BY StepTypeStore, StepTypeMonitor, StepTypeCall, StepTypeEnds,
         StepTypeFlags, StepTypeControl DEF TypeOK
    <2>2. StagesMatch' /\ LeaseMatches'
      BY StepStages, StepLease
    <2>3. PendingIsLeased' /\ PendingHeld' /\ OneShotHeld' /\ PollIsNew'
      BY StepPendingIsLeased, StepPendingHeld, StepOneShotHeld, StepPollIsNew
    <2>4. NothingInDoubtForgotten' /\ EngineKnowsWhatIsRecorded'
      BY StepApplied
    <2>5. KeepersMatch' /\ EveryRunHasAKeeper' /\ QueuedEndsCanSucceed'
      BY StepKeepers, StepKept
    <2> QED
      BY <2>1, <2>2, <2>3, <2>4, <2>5 DEF RuntimeInv
  <1> QED
    BY <1>1, InitRuntime, PTL DEF Spec

(* Every variable has its type.                                            *)
THEOREM TypesHold == Spec => []TypeOK
  <1>1. RuntimeInv => TypeOK
    BY DEF RuntimeInv
  <1> QED
    BY <1>1, RuntimeInvariance, PTL

(* A poll whose record is in doubt is held to be recorded again, whatever  *)
(* stops, retries, restarts and failures come in between (runtime.py,      *)
(* _pending_monitor_persistence and _pending_one_shot_persistence).        *)
THEOREM DoubtsAreHeld == Spec => []NothingInDoubtForgotten
  <1>1. RuntimeInv => NothingInDoubtForgotten
    BY DEF RuntimeInv
  <1> QED
    BY <1>1, RuntimeInvariance, PTL

(* The poll in doubt is the attached monitor's, which has prepared no      *)
(* other (the errors of a poll that "does not match the current run" are   *)
(* never raised).                                                          *)
THEOREM DoubtIsCurrent == Spec => []PendingIsCurrent
  <1>1. RuntimeInv => PendingIsCurrent
    BY DEF RuntimeInv, PendingHeld, PendingIsLeased, PendingIsCurrent,
           Resolving
  <1> QED
    BY <1>1, RuntimeInvariance, PTL

(* Every open run has somebody who will end it (runtime.py,                *)
(* _finish_or_queue).                                                      *)
THEOREM RunsAreKept == Spec => []EveryRunHasAKeeper
  <1>1. RuntimeInv => EveryRunHasAKeeper
    BY DEF RuntimeInv
  <1> QED
    BY <1>1, RuntimeInvariance, PTL

(* The monitor's state shows just the polls that are in the database.      *)
THEOREM EngineKnows == Spec => []EngineKnowsWhatIsRecorded
  <1>1. RuntimeInv => EngineKnowsWhatIsRecorded
    BY DEF RuntimeInv
  <1> QED
    BY <1>1, RuntimeInvariance, PTL

(* No end stays in the queue of a run that is not open any more.           *)
THEOREM EndsCanSucceed == Spec => []QueuedEndsCanSucceed
  <1>1. RuntimeInv => QueuedEndsCanSucceed
    BY DEF RuntimeInv
  <1> QED
    BY <1>1, RuntimeInvariance, PTL
=============================================================================
