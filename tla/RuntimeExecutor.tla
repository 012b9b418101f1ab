-------------------------- MODULE RuntimeExecutor --------------------------
(***************************************************************************)
(* runtime.py: a query thread and a shutdown thread work on one monitor,   *)
(* its run in the store and its poll in doubt.                             *)
(*                                                                         *)
(* The query thread runs execute() - a monitoring poll or a one-shot query *)
(* - and the shutdown thread runs stop_monitor().  Their blocks under      *)
(* RuntimeExecutor._lock are atomic; a call of the store is made without   *)
(* the lock, is a step of its own and may fail.  When the threads start is *)
(* the window's and ShutdownCoordinator's business: one query at a time,   *)
(* one stop per query, no query while a stop is unsettled.                 *)
(*                                                                         *)
(* The store is what PollStore promises: record_poll_batch commits, fails  *)
(* or leaves the poll in doubt, and confirms a poll already committed.     *)
(* A monitor is never attached twice, so its run ID stands for it and "the *)
(* lease is of the current generation" is "the lease names its run".       *)
(***************************************************************************)
EXTENDS Naturals, FiniteSets

CONSTANTS
    Run,        \* run IDs start_run may return
    Poll,       \* poll IDs
    Identity,   \* configuration, request and credentials of a call
    None,       \* no run, no poll, no identity, nobody
    MaxFaults   \* bound: how many calls fail in a behaviour

Query  == "query"       \* thread aruba-session-query-<n>
Stop   == "stop"        \* thread aruba-session-shutdown
Thread == {Query, Stop}

ASSUME RuntimeAssumption ==
    /\ None \notin Run \cup Poll \cup Identity \cup Thread
    /\ MaxFaults \in Nat

VARIABLES
    \* --- SessionStore ---
    runState,         \* the run's row
    owned,            \* runs whose lease the store holds
    recorded,         \* the run each poll is committed for, or None
    doubt,            \* polls whose last record was indeterminate
    faults,           \* how many calls have failed
    \* --- MonitorEngine, one per run ---
    slot,             \* the poll it has prepared and not yet let go of
    applied,          \* polls whose result is in its committed state
    \* --- RuntimeExecutor ---
    monitor,          \* _monitor with _monitor_run_id
    identity,         \* _monitor_signature with _monitor_credentials
    active,           \* the thread whose lease is _active_monitor_poll
    lease,            \* the lease each thread has made
    pending,          \* _pending_monitor_persistence
    stopRequested,    \* _monitor_stop_requested
    pendingOne,       \* _pending_one_shot_persistence
    queued,           \* _pending_finishes
    finishLock,       \* _finish_retry_lock
    \* --- the window ---
    asked,            \* ShutdownCoordinator._requested
    restartRequired,  \* ShutdownCoordinator._restart_required
    \* --- the threads ---
    pc,               \* where each of them is
    kind, want,       \* what execute() was called for, with which identity
    job,              \* the run and poll execute() works with
    todo,             \* queued ends a thread still has to retry
    finishing,        \* the run it is ending ...
    after,            \* ... and where it goes then
    failed            \* an end it tried was not confirmed

store  == <<runState, owned, recorded, doubt, faults>>
engine == <<slot, applied>>
mon    == <<monitor, identity, active, lease, pending, stopRequested>>
call   == <<kind, want, job, pendingOne>>
ends   == <<queued, finishLock, todo, finishing, after, failed>>
window == <<asked, restartRequired>>
vars   == <<store, engine, mon, call, ends, window, pc>>

Nothing == [poll |-> None, run |-> None]
Pair    == [poll : Poll \cup {None}, run : Run \cup {None}]

QueryPC == {"idle", "first", "one", "start1", "ask1", "save1", "lease",
            "retryPoll", "restarted", "open", "attach", "prepare", "save",
            "unwind", "unwound", "leave", "left", "leaveDoubt", "recover"}
StopPC  == {"idle", "flag"}
BothPC  == {"resolve", "giveUp", "resolved", "last", "finish", "ended",
            "notEnded", "answer", "raise"}

Init ==
    /\ runState = [r \in Run |-> "absent"]
    /\ owned = {} /\ doubt = {} /\ faults = 0
    /\ recorded = [p \in Poll |-> None]
    /\ slot = [r \in Run |-> None] /\ applied = {}
    /\ monitor = None /\ identity = None /\ active = None
    /\ lease = [t \in Thread |-> Nothing]
    /\ pending = Nothing /\ stopRequested = FALSE
    /\ pendingOne = [job |-> Nothing, want |-> None]
    /\ queued = {} /\ finishLock = None
    /\ asked = FALSE /\ restartRequired = FALSE
    /\ pc = [t \in Thread |-> "idle"]
    /\ kind = "monitor" /\ want = None /\ job = Nothing
    /\ todo = [t \in Thread |-> {}]
    /\ finishing = [t \in Thread |-> None]
    /\ after = [t \in Thread |-> "idle"]
    /\ failed = [t \in Thread |-> FALSE]

-----------------------------------------------------------------------------
(* Helpers                                                                 *)

Goto(t, where) == pc' = [pc EXCEPT ![t] = where]

Fault == faults < MaxFaults /\ faults' = faults + 1

(* A stop that raises makes the window require a restart.                  *)
Raise(t) ==
    /\ Goto(t, "idle")
    /\ restartRequired' = (restartRequired \/ t = Stop)
    /\ UNCHANGED asked

(* uuid4().hex: IDs nothing has been started, tried or recorded under.  A  *)
(* query begins only while enough are left (BeginQuery), so the guards     *)
(* FreshPolls # {} and FreshRuns # {} below never hold a thread up.        *)
FreshPolls == {p \in Poll : /\ recorded[p] = None /\ p \notin doubt
                            /\ p # job.poll
                            /\ \A t \in Thread : p # lease[t].poll}
FreshRuns  == {r \in Run : runState[r] = "absent"}
FreshPoll  == CHOOSE p \in FreshPolls : TRUE
FreshRun   == CHOOSE r \in FreshRuns : TRUE

(* start_run: the run is RUNNING and owned; or it raises, and the row may  *)
(* be there all the same.                                                  *)
Started(r) ==
    /\ runState' = [runState EXCEPT ![r] = "RUNNING"]
    /\ owned' = owned \cup {r}
    /\ UNCHANGED <<recorded, doubt, faults>>

NotStarted(r) ==
    /\ Fault
    /\ runState' \in {runState, [runState EXCEPT ![r] = "RUNNING"]}
    /\ UNCHANGED <<owned, recorded, doubt>>

(* record_poll_batch(b.run, b.poll): committed or confirmed ...            *)
CanRecord(b) == b.run \in owned /\ runState[b.run] = "RUNNING"

Recorded(b) ==
    /\ CanRecord(b)
    /\ recorded' = [recorded EXCEPT ![b.poll] = b.run]
    /\ doubt' = doubt \ {b.poll}
    /\ UNCHANGED <<runState, owned, faults>>

(* ... PollPersistenceIndeterminate, applied or not ...                    *)
InDoubt(b) ==
    /\ Fault
    /\ \/ UNCHANGED recorded
       \/ /\ CanRecord(b)
          /\ recorded' = [recorded EXCEPT ![b.poll] = b.run]
    /\ doubt' = doubt \cup {b.poll}
    /\ UNCHANGED <<runState, owned>>

(* ... or any other failure, which leaves an earlier doubt as it is.       *)
NotRecorded(b) ==
    /\ Fault \/ (~ CanRecord(b) /\ UNCHANGED faults)
    /\ UNCHANGED <<runState, owned, recorded, doubt>>

(* MonitorEngine._commit_prepared                                          *)
Commit(b) ==
    /\ applied' = applied \cup {b.poll}
    /\ slot' = [slot EXCEPT ![b.run] = None]

(* _lease_owns_monitor_locked                                              *)
OwnsMonitor(t) == monitor # None /\ lease[t].run = monitor

(* _detach_monitor_locked; resetting the request to stop is its default.   *)
Detach == monitor' = None /\ identity' = None

DropLease(t) == active' = IF active = t THEN None ELSE active

(* The thread goes on to end run r, if there is one, and from there to     *)
(* "then".                                                                 *)
End(t, r, then) ==
    /\ finishing' = [finishing EXCEPT ![t] = r]
    /\ after' = [after EXCEPT ![t] = then]
    /\ failed' = [failed EXCEPT ![t] = FALSE]
    /\ Goto(t, IF r = None THEN then ELSE "finish")
    /\ UNCHANGED <<queued, finishLock, todo>>

-----------------------------------------------------------------------------
(* Plausible mistakes: each operator below is one operation further down   *)
(* with one thing wrong.  They are not part of the specification; TLC is   *)
(* run with one of them in place of the operation to see that the property *)
(* named for it in PROJECT.json then fails.                                *)

(* a stop that could not resolve the doubt leaves the way a poll does      *)
GiveUpLikeAPoll(t) ==
    /\ pc[t] = "giveUp"
    /\ DropLease(t) /\ Goto(t, "leave")
    /\ UNCHANGED <<store, engine, monitor, identity, lease, pending,
                   stopRequested, call, ends, window>>

(* a plain failure of the retry lets go of the poll in doubt               *)
DoubtRemainsUntilItFails ==
    LET b == lease[Query] IN
    /\ pc[Query] = "retryPoll"
    /\ \/ InDoubt(b) /\ Goto(Query, "leaveDoubt")
          /\ UNCHANGED <<active, pending, window>>
       \/ NotRecorded(b) /\ Raise(Query) /\ DropLease(Query)
          /\ pending' = Nothing
    /\ UNCHANGED <<engine, monitor, identity, lease, stopRequested, call,
                   ends>>

(* another identity replaces the monitor although its poll is in doubt     *)
TakeLeaseRestartsAtOnce ==
    /\ pc[Query] = "lease" /\ active = None
    /\ active' = Query
    /\ lease' = [lease EXCEPT ![Query] = [poll |-> FreshPoll, run |-> monitor]]
    /\ IF monitor # None /\ identity # want
       THEN Detach /\ End(Query, monitor, "restarted")
       ELSE /\ Goto(Query, IF pending # Nothing THEN "retryPoll" ELSE "open")
            /\ UNCHANGED <<monitor, identity, ends>>
    /\ UNCHANGED <<store, engine, call, pending, stopRequested, window>>

(* an end that raised is not queued                                        *)
NoteEndDropsFailure(t) ==
    /\ pc[t] \in {"ended", "notEnded"}
    /\ queued' = queued \ {finishing[t]}
    /\ failed' = [failed EXCEPT ![t] = @ \/ pc[t] = "notEnded"]
    /\ finishing' = [finishing EXCEPT ![t] = None]
    /\ Goto(t, after[t])
    /\ UNCHANGED <<store, engine, mon, call, finishLock, todo, after, window>>

(* the prepared poll is committed before its record is confirmed           *)
ResolvePollCommitsFirst(t) ==
    LET b == lease[t] IN
    /\ pc[t] = "resolve"
    /\ Commit(b)
    /\ \/ Recorded(b) /\ Goto(t, "resolved")
       \/ (InDoubt(b) \/ NotRecorded(b)) /\ Goto(t, "giveUp")
    /\ UNCHANGED <<mon, call, ends, window>>

(* passes over the queued ends are not serialized                          *)
EnterPassAtAnyTime(t) ==
    /\ pc[t] \in {"first", "last"} /\ finishLock # t
    /\ finishLock' = t
    /\ todo' = [todo EXCEPT ![t] = queued]
    /\ failed' = [failed EXCEPT ![t] = FALSE]
    /\ UNCHANGED <<store, engine, mon, call, queued, finishing, after, window,
                   pc>>

(* a stopped monitor's run is ended, and the monitor stays attached        *)
LeaveStoppedStaysAttached ==
    /\ pc[Query] = "leave" /\ stopRequested /\ OwnsMonitor(Query)
    /\ End(Query, monitor, "left")
    /\ UNCHANGED <<store, engine, mon, call, window>>

(* a pass that fails does not give _finish_retry_lock back                 *)
LeavePassKeepsLock(t) ==
    /\ pc[t] \in {"first", "last"} /\ finishLock = t /\ todo[t] = {}
    /\ IF failed[t] THEN Raise(t) /\ UNCHANGED finishLock
       ELSE /\ Goto(t, IF pc[t] = "first" THEN "one" ELSE "idle")
            /\ finishLock' = None /\ UNCHANGED window
    /\ UNCHANGED <<store, engine, mon, call, queued, todo, finishing, after,
                   failed>>
-----------------------------------------------------------------------------
(* The window                                                              *)

(* _start_query: nothing runs, and ShutdownCoordinator.reset().            *)
BeginQuery(k, i) ==
    /\ pc[Query] = "idle" /\ pc[Stop] = "idle" /\ ~ restartRequired
    /\ Cardinality(FreshPolls) >= 2 /\ FreshRuns # {}     \* the bound
    /\ asked' = FALSE /\ UNCHANGED restartRequired
    /\ kind' = k /\ want' = i /\ UNCHANGED <<job, pendingOne>>
    /\ Goto(Query, "first")
    /\ UNCHANGED <<store, engine, mon, ends>>

(* _cancel_active_work -> ShutdownCoordinator.request()                    *)
BeginStop ==
    /\ ~ asked /\ pc[Stop] = "idle"
    /\ asked' = TRUE /\ UNCHANGED restartRequired
    /\ Goto(Stop, "flag")
    /\ UNCHANGED <<store, engine, mon, call, ends>>

(* ShutdownCoordinator._grace_expired: the thread is left to itself.       *)
GraceExpires ==
    /\ pc[Stop] # "idle" /\ ~ restartRequired
    /\ restartRequired' = TRUE
    /\ UNCHANGED <<asked, store, engine, mon, call, ends, pc>>

-----------------------------------------------------------------------------
(* Ending a run: _finish_or_queue, and _retry_pending_finishes             *)

(* finish_run ends a run of ours ...                                       *)
FinishRun(t) ==
    LET r == finishing[t] IN
    /\ pc[t] = "finish" /\ r \in owned
    /\ runState' = [runState EXCEPT ![r] = "ended"]
    /\ owned' = owned \ {r}
    /\ Goto(t, "ended")
    /\ UNCHANGED <<recorded, doubt, faults, engine, mon, call, ends, window>>

(* ... or raises, before or after the row was updated, or because the run  *)
(* is not ours any more.                                                   *)
FinishRaises(t) ==
    LET r == finishing[t] IN
    /\ pc[t] = "finish"
    /\ \/ /\ r \in owned /\ Fault
          /\ runState' \in {runState, [runState EXCEPT ![r] = "ended"]}
       \/ r \notin owned /\ UNCHANGED <<runState, faults>>
    /\ Goto(t, "notEnded")
    /\ UNCHANGED <<owned, recorded, doubt, engine, mon, call, ends, window>>

(* The end is confirmed, or queued to be tried again.                      *)
NoteEnd(t) ==
    /\ pc[t] \in {"ended", "notEnded"}
    /\ queued' = IF pc[t] = "ended" THEN queued \ {finishing[t]}
                                    ELSE queued \cup {finishing[t]}
    /\ failed' = [failed EXCEPT ![t] = @ \/ pc[t] = "notEnded"]
    /\ finishing' = [finishing EXCEPT ![t] = None]
    /\ Goto(t, after[t])
    /\ UNCHANGED <<store, engine, mon, call, finishLock, todo, after, window>>

(* One pass over the queued ends at a time: "first" thing in execute(),    *)
(* "last" thing in a stop.                                                 *)
EnterPass(t) ==
    /\ pc[t] \in {"first", "last"} /\ finishLock = None
    /\ finishLock' = t
    /\ todo' = [todo EXCEPT ![t] = queued]
    /\ failed' = [failed EXCEPT ![t] = FALSE]
    /\ UNCHANGED <<store, engine, mon, call, queued, finishing, after, window,
                   pc>>

RetryEnd(t, r) ==
    /\ pc[t] \in {"first", "last"} /\ finishLock = t /\ r \in todo[t]
    /\ todo' = [todo EXCEPT ![t] = @ \ {r}]
    /\ finishing' = [finishing EXCEPT ![t] = r]
    /\ after' = [after EXCEPT ![t] = pc[t]]
    /\ Goto(t, "finish")
    /\ UNCHANGED <<store, engine, mon, call, queued, finishLock, failed,
                   window>>

LeavePass(t) ==
    /\ pc[t] \in {"first", "last"} /\ finishLock = t /\ todo[t] = {}
    /\ finishLock' = None
    /\ IF failed[t] THEN Raise(t)
       ELSE /\ Goto(t, IF pc[t] = "first" THEN "one" ELSE "idle")
            /\ UNCHANGED window
    /\ UNCHANGED <<store, engine, mon, call, queued, todo, finishing, after,
                   failed>>

(* What is left of a call that was to end a run: raise because of it, or   *)
(* for its own reasons, or return.                                         *)
Settle(t) ==
    /\ pc[t] \in {"answer", "raise"}
    /\ IF failed[t] \/ pc[t] = "raise" THEN Raise(t)
                                       ELSE Goto(t, "idle") /\ UNCHANGED window
    /\ UNCHANGED <<store, engine, mon, call, ends>>

-----------------------------------------------------------------------------
(* execute(): a one-shot query                                             *)

(* _retry_pending_one_shot_persistence: until the doubt is resolved,       *)
(* nothing else is started; the same query gets the old answer.            *)
ConfirmOneShot ==
    LET b == pendingOne.job IN
    /\ pc[Query] = "one" /\ b # Nothing
    /\ \/ /\ Recorded(b)
          /\ pendingOne' = [job |-> Nothing, want |-> None]
          /\ End(Query, b.run, IF kind = "oneshot" /\ want = pendingOne.want
                               THEN "answer" ELSE "one")
          /\ UNCHANGED window
       \/ /\ InDoubt(b) \/ NotRecorded(b)
          /\ Raise(Query) /\ UNCHANGED <<pendingOne, ends>>
    /\ UNCHANGED <<engine, mon, kind, want, job>>

Proceed ==
    /\ pc[Query] = "one" /\ pendingOne.job = Nothing
    /\ IF failed[Query] THEN Raise(Query)
       ELSE /\ Goto(Query, IF kind = "oneshot" THEN "start1" ELSE "lease")
            /\ UNCHANGED window
    /\ UNCHANGED <<store, engine, mon, call, ends>>

StartOneShot ==
    /\ pc[Query] = "start1" /\ FreshPolls # {} /\ FreshRuns # {}
    /\ \/ /\ Started(FreshRun)
          /\ job' = [poll |-> FreshPoll, run |-> FreshRun]
          /\ Goto(Query, "ask1") /\ UNCHANGED window
       \/ NotStarted(FreshRun) /\ Raise(Query) /\ UNCHANGED job
    /\ UNCHANGED <<engine, mon, kind, want, pendingOne, ends>>

(* query_once; a cancelled query returns too, with a diagnostic.           *)
AskOnce ==
    /\ pc[Query] = "ask1"
    /\ \/ Goto(Query, "save1") /\ UNCHANGED <<faults, ends>>
       \/ Fault /\ End(Query, job.run, "raise")
    /\ UNCHANGED <<runState, owned, recorded, doubt, engine, mon, call,
                   window>>

SaveOnce ==
    /\ pc[Query] = "save1"
    /\ \/ /\ Recorded(job) /\ End(Query, job.run, "answer")
          /\ UNCHANGED <<pendingOne, window>>
       \/ /\ InDoubt(job) /\ Raise(Query)
          /\ pendingOne' = [job |-> job, want |-> want]
          /\ UNCHANGED ends
       \/ /\ NotRecorded(job) /\ End(Query, job.run, "raise")
          /\ UNCHANGED <<pendingOne, window>>
    /\ UNCHANGED <<engine, mon, kind, want, job>>

-----------------------------------------------------------------------------
(* execute(): a monitoring poll                                            *)

(* The first block of _execute_monitor_poll under _lock.  A lease is taken *)
(* over from the poll in doubt; a monitor with another identity is         *)
(* detached, which leaves a request to stop alone.                         *)
Busy == active # None \/ (pending # Nothing /\ pending.run # monitor)

TakeLease ==
    /\ pc[Query] = "lease" /\ ~ Busy /\ FreshPolls # {}
    /\ active' = Query
    /\ lease' = [lease EXCEPT ![Query] =
          IF pending # Nothing THEN pending
                               ELSE [poll |-> FreshPoll, run |-> monitor]]
    /\ IF pending = Nothing /\ monitor # None /\ identity # want
       THEN Detach /\ End(Query, monitor, "restarted")
       ELSE /\ Goto(Query, IF pending # Nothing THEN "retryPoll" ELSE "open")
            /\ UNCHANGED <<monitor, identity, ends>>
    /\ UNCHANGED <<store, engine, call, pending, stopRequested, window>>

RefuseLease ==
    /\ pc[Query] = "lease" /\ Busy
    /\ Raise(Query)
    /\ UNCHANGED <<store, engine, mon, call, ends>>

(* The poll in doubt is recorded again.  Confirmed, it is committed and is *)
(* the result - unless another identity asks, whose monitor replaces it.   *)
ConfirmPoll ==
    LET b == lease[Query] IN
    /\ pc[Query] = "retryPoll" /\ FreshPolls # {}
    /\ Recorded(b) /\ Commit(b)
    /\ pending' = Nothing
    /\ IF identity = want \/ stopRequested
       THEN Goto(Query, "leave") /\ UNCHANGED <<monitor, identity, lease, ends>>
       ELSE /\ Detach
            /\ lease' = [lease EXCEPT ![Query] =
                            [poll |-> FreshPoll, run |-> None]]
            /\ End(Query, b.run, "restarted")
    /\ UNCHANGED <<active, stopRequested, call, window>>

(* Any other result keeps it in doubt, with the same ID, for the next try. *)
DoubtRemains ==
    LET b == lease[Query] IN
    /\ pc[Query] = "retryPoll"
    /\ \/ InDoubt(b) /\ Goto(Query, "leaveDoubt") /\ UNCHANGED <<active, window>>
       \/ NotRecorded(b) /\ Raise(Query) /\ DropLease(Query)
    /\ UNCHANGED <<engine, monitor, identity, lease, pending, stopRequested,
                   call, ends>>

Restarted ==
    /\ pc[Query] = "restarted"
    /\ Goto(Query, IF failed[Query] THEN "unwind" ELSE "open")
    /\ UNCHANGED <<store, engine, mon, call, ends, window>>

(* start_run for a new monitor, or the monitor there is.                   *)
OpenRun ==
    /\ pc[Query] = "open" /\ monitor = None /\ FreshRuns # {}
    /\ \/ /\ Started(FreshRun)
          /\ job' = [poll |-> lease[Query].poll, run |-> FreshRun]
          /\ Goto(Query, "attach")
       \/ NotStarted(FreshRun) /\ Goto(Query, "unwind") /\ UNCHANGED job
    /\ UNCHANGED <<engine, mon, kind, want, pendingOne, ends, window>>

UseMonitor ==
    /\ pc[Query] = "open" /\ monitor # None
    /\ job' = [poll |-> lease[Query].poll, run |-> monitor]
    /\ lease' = [lease EXCEPT ![Query].run = monitor]
    /\ Goto(Query, "prepare")
    /\ UNCHANGED <<store, engine, monitor, identity, active, pending,
                   stopRequested, kind, want, pendingOne, ends, window>>

Attach ==
    /\ pc[Query] = "attach"
    /\ IF active = Query
       THEN /\ monitor' = job.run /\ identity' = want
            /\ lease' = [lease EXCEPT ![Query].run = job.run]
            /\ Goto(Query, "prepare")
       ELSE Goto(Query, "unwind") /\ UNCHANGED <<monitor, identity, lease>>
    /\ UNCHANGED <<store, engine, active, pending, stopRequested, call, ends,
                   window>>

(* _prepare_for_persistence: one prepared poll at a time.                  *)
Prepare ==
    /\ pc[Query] = "prepare"
    /\ \/ /\ slot[job.run] = None
          /\ slot' = [slot EXCEPT ![job.run] = job.poll]
          /\ Goto(Query, "save") /\ UNCHANGED faults
       \/ /\ Fault \/ (slot[job.run] # None /\ UNCHANGED faults)
          /\ Goto(Query, "unwind") /\ UNCHANGED slot
    /\ UNCHANGED <<runState, owned, recorded, doubt, applied, mon, call, ends,
                   window>>

SavePoll ==
    /\ pc[Query] = "save" /\ Recorded(job) /\ Commit(job)
    /\ Goto(Query, "leave")
    /\ UNCHANGED <<mon, call, ends, window>>

SaveInDoubt ==
    /\ pc[Query] = "save" /\ InDoubt(job)
    /\ IF OwnsMonitor(Query)
       THEN /\ pending' = job /\ Goto(Query, "leaveDoubt")
            /\ UNCHANGED <<active, window>>
       ELSE Raise(Query) /\ DropLease(Query) /\ UNCHANGED pending
    /\ UNCHANGED <<engine, monitor, identity, lease, stopRequested, call,
                   ends>>

SaveFails ==
    /\ pc[Query] = "save" /\ NotRecorded(job)
    /\ slot' = [slot EXCEPT ![job.run] = None]
    /\ Goto(Query, "unwind")
    /\ UNCHANGED <<applied, mon, call, ends, window>>

(* "except Exception": the monitor is given up and its run ended.          *)
Unwind ==
    /\ pc[Query] = "unwind"
    /\ IF OwnsMonitor(Query)
       THEN /\ Detach /\ stopRequested' = FALSE
            /\ End(Query, monitor, "unwound")
       ELSE /\ stopRequested' = (stopRequested /\ monitor # None)
            /\ Goto(Query, "unwound")
            /\ UNCHANGED <<monitor, identity, ends>>
    /\ UNCHANGED <<store, engine, active, lease, pending, call, window>>

Unwound ==
    /\ pc[Query] = "unwound"
    /\ DropLease(Query)
    /\ Goto(Query, "leave")
    /\ UNCHANGED <<store, engine, monitor, identity, lease, pending,
                   stopRequested, call, ends, window>>

(* "finally": a stop that came meanwhile is carried out here.              *)
LeaveStopped ==
    /\ pc[Query] = "leave" /\ stopRequested /\ OwnsMonitor(Query)
    /\ Detach /\ stopRequested' = FALSE
    /\ End(Query, monitor, "left")
    /\ UNCHANGED <<store, engine, active, lease, pending, call, window>>

Leave ==
    /\ \/ /\ pc[Query] = "leave" /\ ~ (stopRequested /\ OwnsMonitor(Query))
          /\ stopRequested' = (stopRequested /\ monitor # None)
       \/ pc[Query] = "left" /\ UNCHANGED stopRequested
    /\ DropLease(Query)
    /\ Goto(Query, "idle")
    /\ UNCHANGED <<store, engine, monitor, identity, lease, pending, call,
                   ends, window>>

LeaveInDoubt ==
    /\ pc[Query] = "leaveDoubt"
    /\ DropLease(Query)
    /\ Goto(Query, "recover")
    /\ UNCHANGED <<store, engine, monitor, identity, lease, pending,
                   stopRequested, call, ends, window>>

(* _recover_stopped_monitor_after_indeterminate: the stop that came        *)
(* meanwhile found a lease and left the rest to us.                        *)
RecoverStop ==
    /\ pc[Query] = "recover"
    /\ IF stopRequested /\ active = None /\ pending # Nothing
                        /\ pending.run = monitor
       THEN /\ active' = Query
            /\ lease' = [lease EXCEPT ![Query] = pending]
            /\ Goto(Query, "resolve") /\ UNCHANGED window
       ELSE Raise(Query) /\ UNCHANGED <<active, lease>>
    /\ UNCHANGED <<store, engine, monitor, identity, pending, stopRequested,
                   call, ends>>

-----------------------------------------------------------------------------
(* stop_monitor()                                                          *)

(* Its block under _lock: a poll at work is cancelled and left to carry    *)
(* out the stop, a poll in doubt is resolved here, and without either the  *)
(* monitor, if any, is detached.                                           *)
RequestStop ==
    /\ pc[Stop] = "flag"
    /\ \/ /\ active # None
          /\ stopRequested' = TRUE
          /\ Goto(Stop, "last")
          /\ UNCHANGED <<monitor, identity, active, lease, ends, window>>
       \/ /\ active = None /\ pending # Nothing
          /\ stopRequested' = TRUE
          /\ IF pending.run = monitor
             THEN /\ active' = Stop
                  /\ lease' = [lease EXCEPT ![Stop] = pending]
                  /\ Goto(Stop, "resolve") /\ UNCHANGED window
             ELSE Raise(Stop) /\ UNCHANGED <<active, lease>>
          /\ UNCHANGED <<monitor, identity, ends>>
       \/ /\ active = None /\ pending = Nothing
          /\ Detach /\ stopRequested' = FALSE
          /\ End(Stop, monitor, "last")
          /\ UNCHANGED <<active, lease, window>>
    /\ UNCHANGED <<store, engine, pending, call>>

(* _resolve_pending_monitor_stop: as a retry, only a confirmed result lets *)
(* go of the poll in doubt ...                                             *)
ResolvePoll(t) ==
    LET b == lease[t] IN
    /\ pc[t] = "resolve"
    /\ \/ Recorded(b) /\ Commit(b) /\ Goto(t, "resolved")
       \/ /\ InDoubt(b) \/ NotRecorded(b)
          /\ Goto(t, "giveUp") /\ UNCHANGED engine
    /\ UNCHANGED <<mon, call, ends, window>>

GiveUp(t) ==
    /\ pc[t] = "giveUp"
    /\ DropLease(t) /\ Raise(t)
    /\ UNCHANGED <<store, engine, monitor, identity, lease, pending,
                   stopRequested, call, ends>>

(* ... and then the monitor is detached and its run ended.                 *)
DetachResolved(t) ==
    /\ pc[t] = "resolved"
    /\ pending' = IF pending = lease[t] THEN Nothing ELSE pending
    /\ IF OwnsMonitor(t)
       THEN Detach /\ stopRequested' = FALSE /\ End(t, monitor, "last")
       ELSE /\ Goto(t, "last")
            /\ UNCHANGED <<monitor, identity, stopRequested, ends>>
    /\ DropLease(t)
    /\ UNCHANGED <<store, engine, lease, call, window>>

-----------------------------------------------------------------------------
ThreadStep(t) ==
    \/ FinishRun(t) \/ FinishRaises(t) \/ NoteEnd(t)
    \/ EnterPass(t) \/ (\E r \in Run : RetryEnd(t, r)) \/ LeavePass(t)
    \/ Settle(t)
    \/ ResolvePoll(t) \/ GiveUp(t) \/ DetachResolved(t)

QueryStep ==
    \/ ThreadStep(Query)
    \/ ConfirmOneShot \/ Proceed \/ StartOneShot \/ AskOnce \/ SaveOnce
    \/ TakeLease \/ RefuseLease \/ ConfirmPoll \/ DoubtRemains \/ Restarted
    \/ OpenRun \/ UseMonitor \/ Attach \/ Prepare
    \/ SavePoll \/ SaveInDoubt \/ SaveFails
    \/ Unwind \/ Unwound \/ LeaveStopped \/ Leave \/ LeaveInDoubt
    \/ RecoverStop

StopStep == RequestStop \/ ThreadStep(Stop)

WindowStep ==
    \/ \E k \in {"monitor", "oneshot"}, i \in Identity : BeginQuery(k, i)
    \/ BeginStop \/ GraceExpires

Next == QueryStep \/ StopStep \/ WindowStep

Spec == Init /\ [][Next]_vars

(* A thread that has begun keeps running: network calls have a deadline,   *)
(* and the store's calls return (CallsReturn of PollStore).                *)
FairSpec == Spec /\ WF_vars(QueryStep) /\ WF_vars(StopStep)

-----------------------------------------------------------------------------
(* Properties                                                              *)

TypeStore ==
    /\ runState \in [Run -> {"absent", "RUNNING", "ended"}]
    /\ owned \subseteq Run /\ doubt \subseteq Poll
    /\ recorded \in [Poll -> Run \cup {None}]
    /\ faults \in 0..MaxFaults

TypeMonitor ==
    /\ slot \in [Run -> Poll \cup {None}] /\ applied \subseteq Poll
    /\ monitor \in Run \cup {None} /\ identity \in Identity \cup {None}
    /\ active \in Thread \cup {None}
    /\ lease \in [Thread -> Pair] /\ pending \in Pair

TypeCall ==
    /\ kind \in {"monitor", "oneshot"} /\ want \in Identity \cup {None}
    /\ job \in Pair
    /\ pendingOne \in [job : Pair, want : Identity \cup {None}]

TypeEnds ==
    /\ queued \subseteq Run /\ finishLock \in Thread \cup {None}
    /\ todo \in [Thread -> SUBSET Run]
    /\ finishing \in [Thread -> Run \cup {None}]

TypeControl ==
    /\ pc \in [Thread -> QueryPC \cup StopPC \cup BothPC]
    /\ pc[Query] \in QueryPC \cup BothPC /\ pc[Stop] \in StopPC \cup BothPC
    /\ after \in [Thread -> QueryPC \cup BothPC]

TypeFlags ==
    /\ stopRequested \in BOOLEAN
    /\ asked \in BOOLEAN /\ restartRequired \in BOOLEAN
    /\ failed \in [Thread -> BOOLEAN]

TypeOK == TypeStore /\ TypeMonitor /\ TypeCall /\ TypeEnds /\ TypeControl
              /\ TypeFlags

(* A poll whose fate is open is never lost sight of: whatever stop, retry, *)
(* restart or failure comes in between, it is still held to be recorded    *)
(* again under the same ID.                                                *)
NothingInDoubtForgotten == doubt \subseteq {pending.poll, pendingOne.job.poll}

(* The held poll belongs to the attached monitor, which has not been       *)
(* allowed to prepare another one: the same observations cannot come out   *)
(* under two poll IDs.  (Hence the two "does not match the current run"    *)
(* errors of runtime.py are never raised.)                                 *)
PendingIsCurrent ==
    pending # Nothing =>
        /\ pending.run = monitor
        /\ \/ slot[monitor] = pending.poll
           \/ \E t \in Thread : pc[t] = "resolved" /\ lease[t] = pending

(* A run that is RUNNING and ours has somebody who will end it: it is the  *)
(* monitor's, queued for another try, in doubt, or at work in a thread.    *)
EveryRunHasAKeeper ==
    \A r \in owned :
        \/ r \in {monitor, pendingOne.job.run} \cup queued
        \/ \E t \in Thread : r = finishing[t]
        \/ pc[Query] \in {"ask1", "save1", "attach"} /\ job.run = r

(* The monitor's state shows exactly the polls that are in the database:   *)
(* every poll it has applied is recorded for sure, and of its recorded     *)
(* polls at most the one in doubt is not applied yet.                      *)
EngineKnowsWhatIsRecorded ==
    /\ \A p \in applied : recorded[p] # None /\ p \notin doubt
    /\ \A p \in Poll : recorded[p] # None /\ recorded[p] = monitor =>
          p \in applied \/ p = pending.poll

(* A queued end can still be carried out: no two passes end the same run,  *)
(* so none is left in the queue whose lease has been given back.           *)
QueuedEndsCanSucceed ==
    \A r \in queued \ owned :
        \E t \in Thread : pc[t] = "ended" /\ finishing[t] = r

(* A request to stop does not outlive the calls it was made for, except as *)
(* the order to stop once the poll in doubt is resolved: it never stops a  *)
(* monitor that is started later.                                          *)
StopRequestConsumed ==
    (\A t \in Thread : pc[t] = "idle") /\ stopRequested => pending # Nothing

(* After a stop that was reported as a success, and when nothing runs any  *)
(* more, no run is left attached and RUNNING (a poll in doubt excepted).   *)
StoppedMeansStopped ==
    asked /\ ~ restartRequired /\ (\A t \in Thread : pc[t] = "idle") =>
        monitor = None \/ pending # Nothing

(* A stop that found a poll at work is carried out by it, unless that poll *)
(* ends in doubt.                                                          *)
StopIsCarriedOut ==
    (stopRequested /\ active # None) ~> (monitor = None \/ pending # Nothing)

(* Both calls return: neither waits for the other for ever.                *)
CallsReturn == \A t \in Thread : (pc[t] # "idle") ~> (pc[t] = "idle")
=============================================================================
