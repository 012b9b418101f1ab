------------------------------- MODULE Window -------------------------------
(***************************************************************************)
(* ui/main_window.py, ui/shutdown.py and the end of main(): the window's   *)
(* thread, the threads it starts (one query, one history reading, one      *)
(* storage task, one finalization) and the approvals they ask for.         *)
(*                                                                         *)
(* A handler of the window's thread is one step; what it calls are the     *)
(* operators on the state s below, applied in the order of the code.  The  *)
(* other threads speak to it only through signals, which Qt queues in      *)
(* inbox, and through the approval request, which a lock guards: every     *)
(* locked section is a step of its own.  A modal box runs the event loop   *)
(* inside its handler: the handler's rest is the step that answers it.     *)
(*                                                                         *)
(* A query starts only when the one before has been finished by the        *)
(* window, so a generation number says no more than task does: whether the *)
(* window still knows the running thread.  A button is enabled exactly     *)
(* when its guard holds, as _set_busy sees to.  The tables, the texts and  *)
(* the history's revision number are left out.                             *)
(***************************************************************************)
EXTENDS Naturals, Sequences, SequencesExt

CONSTANTS
    Preview,     \* deletion previews that can be made
    MaxQueries,  \* bound: queries started
    MaxJobs,     \* bound: storage tasks the user starts
    MaxReads,    \* bound: history readings
    MaxChanges   \* bound: network changes and resumes

ASSUME WindowAssumption ==
    {MaxQueries, MaxJobs, MaxReads, MaxChanges} \subseteq Nat

VARIABLES
    s,           \* what the threads of the process share
    inbox        \* signals queued for the window's thread, in order

windowVars == <<s, inbox>>

NoPreview == "no preview"

WindowInit ==
    /\ s = [monitoring |-> FALSE, timer |-> FALSE,
            \* closing: _closing_requested, _close_when_idle
            closing |-> FALSE, deferred |-> FALSE, finalized |-> "none",
            closeTimer |-> FALSE, closePosted |-> FALSE, window |-> "open",
            \* the query: known to the window, its thread, its token
            task |-> FALSE, query |-> "none", token |-> FALSE, asked |-> FALSE,
            userCancel |-> FALSE, environmentCancel |-> FALSE,
            \* the storage task and the history reading
            storage |-> "none", subject |-> NoPreview, storageThread |-> "none",
            history |-> TRUE, historyThread |-> "working",
            discards |-> <<>>, previews |-> [p \in Preview |-> "none"],
            \* ShutdownCoordinator
            requested |-> FALSE, active |-> FALSE, restart |-> FALSE,
            finalizer |-> "none",
            \* ApprovalBridge
            pending |-> FALSE, dialog |-> "none", shutting |-> FALSE,
            \* the modal box on the screen
            modal |-> "none",
            exit |-> "running",
            queries |-> 0, jobs |-> 0, reads |-> 1, changes |-> 0]
    /\ inbox = <<>>

-----------------------------------------------------------------------------
(* The window's thread: what its handlers call                             *)

Available(t) ==
    /\ ~ t.closing /\ t.storage = "none" /\ ~ t.active /\ ~ t.restart

Working(t) ==
    t.task \/ t.storage # "none" \/ t.history \/ t.active \/ t.discards # <<>>

(* ApprovalBridge.cancel_pending from the window's thread: the dialog, if  *)
(* it is there, goes at once.                                              *)
Withdrawn(t) ==
    IF t.pending
    THEN [t EXCEPT !.pending = FALSE, !.dialog = "none"]
    ELSE t

(* ShutdownCoordinator.request                                             *)
Requested(t) ==
    IF t.requested THEN t
    ELSE [t EXCEPT !.requested = TRUE, !.active = TRUE, !.finalizer = "working"]

(* _cancel_active_work                                                     *)
Cancelled(t, byUser) ==
    LET stopped == Withdrawn(
            [t EXCEPT !.monitoring = FALSE, !.timer = FALSE,
                      !.token = @ \/ t.task,
                      !.userCancel = @ \/ (byUser /\ t.task)])
    IN  IF t.task \/ t.monitoring \/ t.closing THEN Requested(stopped) ELSE stopped

StorageStarts(t, kind, p) ==
    [t EXCEPT !.storage = kind, !.subject = p, !.storageThread = "working"]

(* _drain_preview_discard_queue: _start_storage_task with                  *)
(* allow_while_closing                                                     *)
Drained(t) ==
    IF t.discards = <<>> \/ t.storage # "none" \/ t.history \/ t.task \/ t.monitoring
    THEN t
    ELSE LET p == Head(t.discards) IN
         StorageStarts([t EXCEPT !.discards = Tail(@), !.previews[p] = "discarding"],
                       "delete-discard", p)

(* _queue_preview_discard                                                  *)
Queued(t, p) == [t EXCEPT !.discards = Append(@, p), !.previews[p] = "queued"]

(* _close_if_idle                                                          *)
ClosedIfIdle(t) ==
    IF ~ t.closing THEN t
    ELSE LET u == Drained(t) IN
         IF Working(u) THEN u ELSE [u EXCEPT !.closePosted = TRUE]

(* MISTAKE: the grace period is not started                                *)
CloseEventWithoutGrace(t) ==
    IF t.deferred THEN [t EXCEPT !.window = "closed"]
    ELSE LET u == Drained([Withdrawn(Cancelled([t EXCEPT !.closing = TRUE], TRUE))
                             EXCEPT !.shutting = TRUE])
         IN  IF Working(u) THEN u ELSE [u EXCEPT !.window = "closed"]

(* closeEvent                                                              *)
CloseEvent(t) ==
    IF t.deferred THEN [t EXCEPT !.window = "closed"]
    ELSE LET u == Drained([Withdrawn(Cancelled([t EXCEPT !.closing = TRUE], TRUE))
                             EXCEPT !.shutting = TRUE])
         IN  IF Working(u) THEN [u EXCEPT !.closeTimer = TRUE]
             ELSE [u EXCEPT !.closeTimer = FALSE, !.window = "closed"]

(* MISTAKE: what was abandoned is not remembered                           *)
AbandonedSilently(t) ==
    [t EXCEPT !.monitoring = FALSE,
              !.timer = FALSE, !.token = @ \/ t.task, !.task = FALSE,
              !.storage = "none", !.history = FALSE, !.discards = <<>>,
              !.closePosted = TRUE]

(* _close_grace_expired                                                    *)
Abandoned(t) ==
    [t EXCEPT !.deferred = TRUE, !.finalized = "failed", !.monitoring = FALSE,
              !.timer = FALSE, !.token = @ \/ t.task, !.task = FALSE,
              !.storage = "none", !.history = FALSE, !.discards = <<>>,
              !.closePosted = TRUE]

-----------------------------------------------------------------------------
(* What the user does                                                      *)

\* the window takes input: no modal box, no window-modal approval dialog
Open == s.window = "open" /\ s.modal = "none" /\ s.dialog # "open"

\* the event loop runs: no handler is in the middle of _show_request
Looping == s.window = "open" /\ s.dialog # "made"

QueryStarts(t) ==
    [t EXCEPT !.requested = FALSE, !.finalized = "none", !.task = TRUE,
              !.query = "preflight", !.token = FALSE, !.asked = FALSE, !.timer = FALSE,
              !.queries = @ + 1]

StartQuery ==
    /\ Open /\ Looping /\ s.queries < MaxQueries
    /\ Available(s) /\ ~ s.task /\ ~ s.monitoring
    /\ s' = QueryStarts(s) /\ UNCHANGED inbox

StartMonitoring ==
    /\ Open /\ Looping /\ s.queries < MaxQueries
    /\ Available(s) /\ ~ s.task /\ ~ s.monitoring
    /\ s' = QueryStarts([s EXCEPT !.monitoring = TRUE]) /\ UNCHANGED inbox

(* The fields do not make a query: a warning, then _cancel_active_work.    *)
RefuseInput ==
    /\ Open /\ Looping /\ Available(s) /\ ~ s.task /\ ~ s.monitoring
    /\ s' = [s EXCEPT !.modal = "input"] /\ UNCHANGED inbox

Stop ==
    /\ Open /\ Looping /\ Available(s) /\ (s.task \/ s.monitoring)
    /\ s' = Cancelled(s, TRUE) /\ UNCHANGED inbox

UserCloses ==
    /\ Open /\ Looping /\ ~ s.closing
    /\ s' = CloseEvent(s) /\ UNCHANGED inbox

\* the buttons of the history page: nothing runs, not even a reading
Mutable == Available(s) /\ ~ s.task /\ ~ s.monitoring /\ ~ s.history

Reading(t) == [t EXCEPT !.history = TRUE, !.historyThread = "working", !.reads = @ + 1]

(* _refresh_history                                                        *)
Refresh ==
    /\ Open /\ Looping /\ s.reads < MaxReads /\ Available(s) /\ ~ s.history
    /\ s' = Reading(s) /\ UNCHANGED inbox

Export ==
    /\ Open /\ Looping /\ s.jobs < MaxJobs /\ Mutable
    /\ s' = StorageStarts([s EXCEPT !.jobs = @ + 1], "export", NoPreview)
    /\ UNCHANGED inbox

Delete ==
    /\ Open /\ Looping /\ s.jobs < MaxJobs /\ Mutable
    /\ \E p \in Preview :
        /\ s.previews[p] = "none"
        /\ s' = StorageStarts([s EXCEPT !.jobs = @ + 1], "delete-preview", p)
    /\ UNCHANGED inbox

(* The answer to _confirm_delete_preview: a deletion that cannot start is  *)
(* given back like one that was refused.                                   *)
Confirm ==
    /\ Looping /\ s.modal = "confirm"
    /\ LET t == [s EXCEPT !.modal = "none"]
           p == s.subject
       IN  \E yes \in BOOLEAN :
            s' = IF yes /\ Mutable
                 THEN StorageStarts([t EXCEPT !.previews[p] = "deleting"],
                                    "delete-commit", p)
                 ELSE Drained(Queued(t, p))
    /\ UNCHANGED inbox

(* A warning or a completion box is closed and its handler goes on.        *)
CloseBox ==
    /\ Looping
    /\ \/ s.modal = "input" /\ s' = Cancelled([s EXCEPT !.modal = "none"], FALSE)
       \/ s.modal = "query" /\ s' = [s EXCEPT !.modal = "none"]
       \/ /\ s.modal = "storage"
          /\ s' = ClosedIfIdle(Drained([s EXCEPT !.modal = "none"]))
    /\ UNCHANGED inbox

-----------------------------------------------------------------------------
(* The timers, the network, the end                                        *)

TimerFires ==
    /\ Looping /\ s.timer /\ s.queries < MaxQueries
    /\ s' = IF ~ s.task /\ Available(s) THEN QueryStarts(s) ELSE [s EXCEPT !.timer = FALSE]
    /\ UNCHANGED inbox

(* _runtime_discontinuity                                                  *)
NetworkChanges ==
    /\ Looping /\ s.changes < MaxChanges /\ s.monitoring
    /\ s' = LET t == [s EXCEPT !.changes = @ + 1] IN
            IF t.task
            THEN Withdrawn([t EXCEPT !.timer = FALSE, !.environmentCancel = TRUE,
                                     !.token = TRUE])
            ELSE [t EXCEPT !.timer = TRUE]
    /\ UNCHANGED inbox

(* ShutdownCoordinator._grace_expired, and _shutdown_settled               *)
Settled(t, succeeded) ==
    ClosedIfIdle([t EXCEPT !.active = FALSE, !.restart = @ \/ ~ succeeded,
                           !.finalized = IF t.deferred THEN @
                                         ELSE IF succeeded THEN "ok" ELSE "failed"])

FinalizationTimesOut ==
    /\ Looping /\ s.active
    /\ s' = Settled(s, FALSE) /\ UNCHANGED inbox

(* _close_grace_expired                                                    *)
CloseGraceExpires ==
    /\ Looping /\ s.closeTimer
    /\ s' = LET t == [s EXCEPT !.closeTimer = FALSE] IN
            IF Working(t) THEN Abandoned(t) ELSE ClosedIfIdle(t)
    /\ UNCHANGED inbox

(* close(), posted with a timer of no delay                                *)
PostedClose ==
    /\ Looping /\ s.closePosted
    /\ s' = CloseEvent([s EXCEPT !.closePosted = FALSE]) /\ UNCHANGED inbox

(* main(): the event loop has ended; the store is closed, which may fail,  *)
(* and the journal gets its mark.  Every other thread dies with the process *)
Exit ==
    /\ s.window = "closed" /\ s.exit = "running"
    /\ \E closed \in BOOLEAN :
        s' = [s EXCEPT !.exit = IF s.finalized = "ok" /\ ~ s.deferred /\ closed
                                THEN "clean" ELSE "recover"]
    /\ UNCHANGED inbox

-----------------------------------------------------------------------------
(* Signals the window receives                                             *)

\* _task_succeeded -> _display_outcome
Display(t, outcome) ==
    IF ~ t.task \/ t.closing \/ t.userCancel \/ t.environmentCancel THEN t
    ELSE CASE outcome = "fatal" ->
                [IF t.monitoring THEN Cancelled(t, FALSE) ELSE t EXCEPT !.modal = "query"]
           [] outcome = "host key unknown" ->
                IF t.monitoring THEN Cancelled(t, FALSE) ELSE t
           [] OTHER -> t

\* _task_failed -> _display_failure
DisplayFailure(t, code) ==
    IF ~ t.task \/ t.closing \/ t.environmentCancel THEN t
    ELSE LET u == Cancelled(t, FALSE) IN
         IF code = "cancelled" THEN u ELSE [u EXCEPT !.modal = "query"]

(* MISTAKE: only a query nobody cancelled is followed by another           *)
FinishedForGood(t) ==
    IF ~ t.task THEN t
    ELSE LET u == [Withdrawn(t) EXCEPT !.task = FALSE, !.userCancel = FALSE,
                                       !.environmentCancel = FALSE,
                                       !.timer = /\ t.monitoring /\ ~ t.closing
                                                 /\ ~ t.environmentCancel]
         IN  ClosedIfIdle(Drained(u))

\* _query_finished
Finished(t) ==
    IF ~ t.task THEN t
    ELSE LET u == [Withdrawn(t) EXCEPT !.task = FALSE, !.userCancel = FALSE,
                                       !.environmentCancel = FALSE,
                                       !.timer = t.monitoring /\ ~ t.closing]
         IN  ClosedIfIdle(Drained(u))

\* _history_task_succeeded and _history_task_failed
HistoryRead(t) ==
    IF ~ t.history THEN t ELSE ClosedIfIdle(Drained([t EXCEPT !.history = FALSE]))

Boxed(t) == IF t.closing THEN ClosedIfIdle(Drained(t)) ELSE [t EXCEPT !.modal = "storage"]

(* _storage_task_succeeded; a deletion is followed by a reading of the     *)
(* history.                                                                *)
StorageDone(t) ==
    LET u == [t EXCEPT !.storage = "none"]
        p == t.subject
    IN  CASE t.storage = "none" -> t
          [] t.storage = "delete-preview" ->
                IF t.closing THEN ClosedIfIdle(Drained(Queued(u, p)))
                ELSE [u EXCEPT !.modal = "confirm", !.previews[p] = "offered"]
          [] t.storage = "delete-commit" ->
                LET v == [u EXCEPT !.previews[p] = "settled"] IN
                ClosedIfIdle(Drained(
                    IF Available(v) /\ ~ v.history /\ v.reads < MaxReads THEN Reading(v) ELSE v))
          [] t.storage = "delete-discard" ->
                ClosedIfIdle(Drained([u EXCEPT !.previews[p] = "settled"]))
          [] t.storage = "export" -> Boxed(u)

(* _storage_task_failed; a preview that could not be given back stays      *)
(* where it is: nobody asks again.                                         *)
StorageFailed(t) ==
    LET u == [t EXCEPT !.storage = "none"]
        p == t.subject
    IN  CASE t.storage = "none" -> t
          [] t.storage = "delete-commit" -> Boxed(Queued(u, p))
          [] t.storage = "delete-discard" ->
                ClosedIfIdle(Drained([u EXCEPT !.previews[p] = "settled"]))
          [] OTHER -> Boxed(u)

(* ApprovalBridge._dismiss_request: done() runs _dialog_finished.          *)
Dismissed(t) == [t EXCEPT !.dialog = "none"]

Handled(t, signal) ==
    CASE signal[1] = "succeeded"      -> Display(t, signal[2])
      [] signal[1] = "failed"         -> DisplayFailure(t, signal[2])
      [] signal[1] = "finished"       -> Finished(t)
      [] signal[1] = "history"        -> HistoryRead(t)
      [] signal[1] = "storage done"   -> StorageDone(t)
      [] signal[1] = "storage failed" -> StorageFailed(t)
      [] signal[1] = "finalized"      -> IF t.active THEN Settled(t, signal[2]) ELSE t
      [] signal[1] = "dismiss"        -> Dismissed(t)
      \* _show_request up to the dialog it registers, when still pending
      [] signal[1] = "request"        ->
            IF t.pending THEN [t EXCEPT !.dialog = "made"] ELSE t

HandleSignal ==
    /\ Looping /\ inbox # <<>>
    /\ s' = Handled(s, Head(inbox)) /\ inbox' = Tail(inbox)

(* The rest of _show_request: open the dialog unless it is too late.       *)
ShowRequest ==
    /\ s.window = "open" /\ s.dialog = "made"
    /\ s' = [s EXCEPT !.dialog = IF s.pending THEN "open" ELSE "none"]
    /\ UNCHANGED inbox

(* _dialog_finished: the answer counts while it is awaited; which answer   *)
(* it is, the thread that asked finds out (see KnownHosts).                *)
Answer ==
    /\ Looping /\ s.dialog = "open"
    /\ s' = Withdrawn([s EXCEPT !.dialog = "none"])
    /\ UNCHANGED inbox

-----------------------------------------------------------------------------
(* The other threads                                                       *)

Emit(signal) == inbox' = Append(inbox, signal)

(* _QueryTask.run: capacity and storage health, then execute()             *)
Preflight ==
    /\ s.query = "preflight"
    /\ \/ s' = [s EXCEPT !.query = "working"] /\ UNCHANGED inbox
       \/ s' = [s EXCEPT !.query = "leaving"] /\ Emit(<<"failed", "error">>)

QueryEnds ==
    /\ s.query = "working"
    /\ \/ \E outcome \in {"shown", "fatal", "host key unknown"} :
            Emit(<<"succeeded", outcome>>)
       \/ Emit(<<"failed", "error">>)
       \/ s.token /\ Emit(<<"failed", "cancelled">>)
       \/ s.token /\ Emit(<<"succeeded", "cancelled">>)
    /\ s' = [s EXCEPT !.query = "leaving"]

QueryLeaves ==
    /\ s.query = "leaving"
    /\ s' = [s EXCEPT !.query = "none"] /\ Emit(<<"finished">>)

(* _request_answer: not cancelled, not late                                *)
Ask ==
    /\ s.query = "working" /\ ~ s.asked /\ ~ s.token
    /\ s' = [s EXCEPT !.query = "asking", !.asked = TRUE] /\ UNCHANGED inbox

\* under the lock, unless the bridge is shutting down
Admit ==
    /\ s.query = "asking"
    /\ s' = IF s.shutting THEN [s EXCEPT !.query = "working"]
            ELSE [s EXCEPT !.query = "admitted", !.pending = TRUE]
    /\ UNCHANGED inbox

\* cancelled meanwhile: taken back before anybody has seen it
Show ==
    /\ s.query = "admitted"
    /\ IF s.token
       THEN s' = [s EXCEPT !.query = "working", !.pending = FALSE] /\ UNCHANGED inbox
       ELSE s' = [s EXCEPT !.query = "waiting"] /\ Emit(<<"request">>)

\* the event is set: whoever completed the request did it
Answered ==
    /\ s.query = "waiting" /\ ~ s.pending
    /\ s' = [s EXCEPT !.query = "working"] /\ UNCHANGED inbox

(* MISTAKE: the thread that gives up leaves its dialog on the screen       *)
GiveUpSilently ==
    /\ s.query = "waiting" /\ s.pending
    /\ s' = [s EXCEPT !.query = "working", !.pending = FALSE] /\ UNCHANGED inbox

(* Cancelled, or the poll's deadline has passed, which it may at any time: *)
(* _complete_request(request, False, dismiss=True)                         *)
GiveUp ==
    /\ s.query = "waiting" /\ s.pending
    /\ s' = [s EXCEPT !.query = "dismissing", !.pending = FALSE] /\ UNCHANGED inbox

Dismiss ==
    /\ s.query = "dismissing"
    /\ s' = [s EXCEPT !.query = "working"] /\ Emit(<<"dismiss">>)

(* _StorageTask.run, of the storage task and of the history reading: what  *)
(* fails and what was cancelled come back alike.                           *)
StorageEnds ==
    /\ s.storageThread = "working"
    /\ s' = [s EXCEPT !.storageThread = "none"]
    /\ Emit(<<"storage done">>) \/ Emit(<<"storage failed">>)

HistoryEnds ==
    /\ s.historyThread = "working"
    /\ s' = [s EXCEPT !.historyThread = "none"] /\ Emit(<<"history">>)

(* ShutdownCoordinator: stop_monitor() has returned or raised.             *)
FinalizerEnds ==
    /\ s.finalizer = "working"
    /\ s' = [s EXCEPT !.finalizer = "none"]
    /\ \E ok \in BOOLEAN : Emit(<<"finalized", ok>>)

-----------------------------------------------------------------------------
User ==
    \/ StartQuery \/ StartMonitoring \/ RefuseInput \/ Stop \/ UserCloses
    \/ Refresh \/ Export \/ Delete \/ Confirm \/ CloseBox \/ Answer

EventLoop ==
    \/ TimerFires \/ FinalizationTimesOut \/ CloseGraceExpires \/ PostedClose
    \/ HandleSignal \/ ShowRequest

Threads ==
    \/ Preflight \/ QueryEnds \/ QueryLeaves
    \/ Ask \/ Admit \/ Show \/ Answered \/ GiveUp \/ Dismiss
    \/ StorageEnds \/ HistoryEnds \/ FinalizerEnds

WindowNext == s.exit = "running" /\ (User \/ EventLoop \/ NetworkChanges \/ Exit \/ Threads)

(* Qt delivers what is queued and fires its timers; no thread has to end.  *)
WindowFairness ==
    /\ WF_windowVars(HandleSignal) /\ WF_windowVars(ShowRequest)
    /\ WF_windowVars(CloseGraceExpires) /\ WF_windowVars(PostedClose)

WindowSpec == WindowInit /\ [][WindowNext]_windowVars /\ WindowFairness

-----------------------------------------------------------------------------
(* Monitoring goes on until it is stopped, whoever cancels a query of it:  *)
(* a query runs or the timer for the next one does, never both, and        *)
(* nothing polls once monitoring is off (_query_finished,                  *)
(* _runtime_discontinuity, _cancel_active_work).                           *)
PollsAreScheduled ==
    /\ s.monitoring => s.task \/ s.timer
    /\ s.timer => s.monitoring /\ ~ s.task

(* An approval dialog is on the screen only while its answer is awaited or *)
(* its dismissal is under way: no query leaves a dialog that blocks the    *)
(* window (ApprovalBridge).                                                *)
DialogsFollowRequests ==
    s.dialog = "open" =>
        \/ s.pending \/ s.query = "dismissing"
        \/ <<"dismiss">> \in ToSet(inbox)

(* The journal says that the program ended cleanly only if no thread was   *)
(* at work on the store any more and every deletion preview was carried    *)
(* out or given back (closeEvent, _close_grace_expired, main).             *)
CleanExitLeavesNothing ==
    s.exit = "clean" =>
        /\ s.query = "none" /\ s.storageThread = "none"
        /\ s.historyThread = "none" /\ s.finalizer = "none"
        /\ \A p \in Preview : s.previews[p] \in {"none", "settled"}

(* A window that is asked to close does, even if every thread it started   *)
(* hangs: the grace period is armed whenever it has to wait.               *)
ClosingEnds == s.closing ~> s.window = "closed"

=============================================================================
