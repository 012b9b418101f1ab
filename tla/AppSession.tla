----------------------------- MODULE AppSession -----------------------------
(***************************************************************************)
(* main.py, single_instance.py, ui/startup.py and observability.py: how    *)
(* processes of the program start and end one after the other, and what    *)
(* the mark of the crash journal tells of it.                              *)
(*                                                                         *)
(* A process takes the single-instance guard (a named mutex that the       *)
(* system frees when its holder dies), lets a thread open the store while  *)
(* a grace period runs, reads the mark the last session left, writes its   *)
(* own and runs the window.  At the end it writes the clean mark, if the   *)
(* window and the store ended cleanly, and gives the guard back.  What the *)
(* window does in between is the subject of Window.                        *)
(*                                                                         *)
(* The entries of the journal, its rotation, links and the identities of   *)
(* directories are left out; record() swallows whatever fails in it.       *)
(***************************************************************************)
EXTENDS Naturals, Sequences

CONSTANTS
    Process, NoProcess,
    MaxSessions,  \* bound: sessions that begin
    MaxFailures   \* bound: file operations that fail

ASSUME SessionAssumption ==
    /\ NoProcess \notin Process
    /\ {MaxSessions, MaxFailures} \subseteq Nat

VARIABLES
    guard,       \* who holds the named mutex
    doing,       \* where main() is, in each process
    loader,      \* the thread of StartupCoordinator.start
    posted,      \* the signal it has queued
    unclean,     \* previous_unclean, as read: "yes", "no" or "unreadable"
    mark,        \* the state file: "absent", "RUNNING" or "CLEAN"
    failures,    \* file operations that failed
    sessions     \* history: the sessions that wrote their mark

process == <<guard, doing, loader, posted, unclean>>
vars    == <<process, mark, failures, sessions>>

Init ==
    /\ guard = NoProcess /\ mark = "absent"
    /\ doing = [p \in Process |-> "off"]
    /\ loader = [p \in Process |-> FALSE]
    /\ posted = [p \in Process |-> "none"]
    /\ unclean = [p \in Process |-> "no"]
    /\ failures = 0 /\ sessions = <<>>

Doing(p, here) == doing[p] = here
Goes(p, there) == doing' = [doing EXCEPT ![p] = there]

Fails == failures < MaxFailures /\ failures' = failures + 1

-----------------------------------------------------------------------------
(* Start                                                                   *)

(* SingleInstanceGuard.acquire; who does not get it says so and ends.      *)
Acquire(p) ==
    /\ Doing(p, "off") /\ guard = NoProcess /\ Len(sessions) < MaxSessions
    /\ guard' = p /\ Goes(p, "starting") /\ loader' = [loader EXCEPT ![p] = TRUE]
    /\ UNCHANGED <<posted, unclean, mark, failures, sessions>>

(* _initialize_runtime has returned or raised.                             *)
LoaderEnds(p) ==
    /\ loader[p] /\ loader' = [loader EXCEPT ![p] = FALSE]
    /\ \E signal \in {"ready", "failed"} : posted' = [posted EXCEPT ![p] = signal]
    /\ UNCHANGED <<guard, doing, unclean, mark, failures, sessions>>

(* StartupCoordinator._completed                                           *)
StartupCompletes(p) ==
    /\ Doing(p, "starting") /\ posted[p] # "none"
    /\ Goes(p, IF posted[p] = "ready" THEN "ready" ELSE "refused")
    /\ UNCHANGED <<guard, loader, posted, unclean, mark, failures, sessions>>

(* _grace_expired: what the thread still does is not waited for.           *)
StartupTimesOut(p) ==
    /\ Doing(p, "starting") /\ Goes(p, "refused")
    /\ UNCHANGED <<guard, loader, posted, unclean, mark, failures, sessions>>

(* start_session: the mark of the session before, then this one's.  A mark *)
(* that cannot be read counts as none; paths that have changed, or a mark  *)
(* that cannot be written, end the start.                                  *)
ReadMark(p) ==
    /\ Doing(p, "ready")
    /\ \/ /\ unclean' = [unclean EXCEPT ![p] = IF mark = "RUNNING" THEN "yes" ELSE "no"]
          /\ Goes(p, "read") /\ UNCHANGED failures
       \/ Fails /\ Goes(p, "read") /\ unclean' = [unclean EXCEPT ![p] = "unreadable"]
       \/ Fails /\ Goes(p, "refused") /\ UNCHANGED unclean
    /\ UNCHANGED <<guard, loader, posted, mark, sessions>>

Begun(p, failed) ==
    [process |-> p, reported |-> unclean[p], clean |-> FALSE, failed |-> failed]

(* _write_state looks at the paths again once the mark is replaced: a      *)
(* write that fails may have changed it.                                   *)
WriteRunning(p) ==
    /\ Doing(p, "read")
    /\ \/ /\ mark' = "RUNNING" /\ sessions' = Append(sessions, Begun(p, FALSE))
          /\ Goes(p, "window") /\ UNCHANGED failures
       \/ /\ mark' = "RUNNING" /\ sessions' = Append(sessions, Begun(p, TRUE))
          /\ Goes(p, "refused") /\ Fails
       \/ UNCHANGED <<mark, sessions>> /\ Goes(p, "refused") /\ Fails
    /\ UNCHANGED <<guard, loader, posted, unclean>>

-----------------------------------------------------------------------------
(* End                                                                     *)

\* the session of a process that is in its window
Current(p) == CHOOSE n \in 1 .. Len(sessions) :
    /\ sessions[n].process = p
    /\ \A m \in n + 1 .. Len(sessions) : sessions[m].process # p

EndedCleanly(p, failed) ==
    sessions' = [sessions EXCEPT ![Current(p)].clean = TRUE, ![Current(p)].failed = failed]

(* MISTAKE: the guard is given back before the mark is written             *)
EndsUnguarded(p) ==
    /\ Doing(p, "window")
    /\ IF guard = p
       THEN guard' = NoProcess /\ UNCHANGED <<doing, mark, sessions>>
       ELSE mark' = "CLEAN" /\ EndedCleanly(p, FALSE) /\ Goes(p, "marked") /\ UNCHANGED guard
    /\ UNCHANGED <<loader, posted, unclean, failures>>

(* The event loop has ended; the finally of main(): mark_clean_exit when   *)
(* the window and the store ended cleanly, an entry otherwise.             *)
WindowEnds(p) ==
    /\ Doing(p, "window") /\ Goes(p, "marked")
    /\ \/ EndedCleanly(p, FALSE) /\ mark' = "CLEAN" /\ UNCHANGED failures
       \/ EndedCleanly(p, TRUE) /\ mark' \in {mark, "CLEAN"} /\ Fails
       \/ UNCHANGED <<mark, sessions, failures>>
    /\ UNCHANGED <<guard, loader, posted, unclean>>

(* SingleInstanceGuard.release                                             *)
GuardReleased(p) ==
    /\ doing[p] \in {"marked", "refused"}
    /\ guard' = IF guard = p THEN NoProcess ELSE guard
    /\ Goes(p, "leaving")
    /\ UNCHANGED <<loader, posted, unclean, mark, failures, sessions>>

(* The process ends, now or earlier; its threads end with it.              *)
Ends(p) ==
    /\ ~ Doing(p, "off") /\ Goes(p, "off")
    /\ guard' = IF guard = p THEN NoProcess ELSE guard
    /\ loader' = [loader EXCEPT ![p] = FALSE]
    /\ posted' = [posted EXCEPT ![p] = "none"]
    /\ unclean' = [unclean EXCEPT ![p] = "no"]
    /\ UNCHANGED <<mark, failures, sessions>>

Next ==
    \E p \in Process :
        \/ Acquire(p) \/ LoaderEnds(p) \/ StartupCompletes(p) \/ StartupTimesOut(p)
        \/ ReadMark(p) \/ WriteRunning(p)
        \/ WindowEnds(p) \/ GuardReleased(p) \/ Ends(p)

Spec == Init /\ [][Next]_vars

-----------------------------------------------------------------------------
(* A session is told that the one before it ended cleanly only if its      *)
(* window and its store did, and that it did not only if they did not or   *)
(* its mark could not be written, whatever crashed or failed in between:   *)
(* the mark is written and read by the holder of the guard alone           *)
(* (start_session, mark_clean_exit, main).  A start that fails although    *)
(* its mark is written counts as a session.                                *)
UncleanIsReported ==
    \A n \in 1 .. Len(sessions) :
        /\ sessions[n].reported = "no" => n = 1 \/ sessions[n - 1].clean
        /\ sessions[n].reported = "yes" =>
              n # 1 /\ (sessions[n - 1].clean => sessions[n - 1].failed)

=============================================================================
