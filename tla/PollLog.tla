------------------------------ MODULE PollLog ------------------------------
(***************************************************************************)
(* What the history store promises its callers about poll results, with    *)
(* no files, manifests, leases or crashes in it: every run is a log that   *)
(* is written only while the run is RUNNING, and a poll ID enters the log  *)
(* at most once, in one step, with all of its rows and its Raw output.     *)
(* A record is never changed or taken back.  PollStore implements this.    *)
(***************************************************************************)

CONSTANTS
    Run,        \* run IDs
    Poll,       \* poll IDs
    Payload,    \* what a poll may record, told apart by its SHA-256
    RunOf,      \* the run each poll belongs to
    NoPayload   \* "no record under this poll ID"

VARIABLES
    status,     \* status[r]: the run's row in the runs table
    log         \* log[p]: the payload a reader finds under poll ID p

vars == <<status, log>>

Ended == {"FINISHED", "INTERRUPTED"}

Init ==
    /\ status = [r \in Run |-> "absent"]
    /\ log = [p \in Poll |-> NoPayload]

StartRun(r) ==
    /\ status[r] = "absent"
    /\ status' = [status EXCEPT ![r] = "RUNNING"]
    /\ UNCHANGED log

(* One or several runs end at once: start-up interrupts every abandoned    *)
(* run in one transaction.                                                 *)
EndRuns(rs, end) ==
    /\ \A r \in rs : status[r] = "RUNNING"
    /\ status' = [r \in Run |-> IF r \in rs THEN end ELSE status[r]]
    /\ UNCHANGED log

Record(p, d) ==
    /\ status[RunOf[p]] = "RUNNING"
    /\ log[p] = NoPayload
    /\ log' = [log EXCEPT ![p] = d]
    /\ UNCHANGED status

Next ==
    \/ \E r \in Run : StartRun(r)
    \/ \E rs \in SUBSET Run, end \in Ended : EndRuns(rs, end)
    \/ \E p \in Poll, d \in Payload : Record(p, d)

Spec == Init /\ [][Next]_vars
=============================================================================
