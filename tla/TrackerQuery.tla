---------------------------- MODULE TrackerQuery ----------------------------
(***************************************************************************)
(* services/tracker.py: query_once, the collection of one result.          *)
(*                                                                         *)
(* The mobility master (MM) is asked where the client addresses are, then  *)
(* the managed devices (MDs) they map to, and those that showed a session  *)
(* last, are asked for their sessions one after the other.  When the MM    *)
(* knows none of the addresses, all MDs are scanned if the operator agrees.*)
(* Any of these may fail; what is found is kept, and "authoritative" says  *)
(* whether its absence elsewhere proves anything.                          *)
(*                                                                         *)
(* What the network answers is free: it may change between two questions.  *)
(* An observation is a flow on an MD; names, counters and flags are data.  *)
(* The order of the MDs is free too (a scan rotates them).  The devices    *)
(* are those enabled in the configuration, which is fixed, so an MD that   *)
(* showed a session is always found in it again.                           *)
(***************************************************************************)
EXTENDS Naturals, FiniteSets

CONSTANTS
    Addr,            \* the client addresses of the request, one or two
    Device,          \* the enabled managed devices
    Flow,            \* sessions, told apart by their 5-tuple
    None,            \* no location, no controller, no session
    MaxObservations, \* MAX_POLL_OBSERVATIONS
    MaxEpoch         \* bound: how often the location is invalidated

ASSUME TrackerAssumption ==
    /\ Addr # {} /\ IsFiniteSet(Device) /\ IsFiniteSet(Flow)
    /\ Device \cap {"notFound", "ambiguous", "unmapped"} = {}
    /\ None \notin Device
    /\ MaxObservations \in Nat \ {0} /\ MaxEpoch \in Nat

VARIABLES
    phase,       \* where the poll stands
    fresh,       \* refresh_locations: this query asks the MM
    at,          \* the locations it works with, or None
    scan,        \* fallback_devices
    toAsk,       \* MDs still to ask
    answered,    \* MDs whose whole answer was taken over
    seen,        \* observations: which flow on which MD
    used,        \* PollBudget.observations, shared by the queries of a poll
    auth,        \* authoritative
    transient    \* a transient failure was met and not recovered

query == <<phase, fresh, at, scan, toAsk, answered, seen, used, auth,
           transient>>

Answer   == Device \cup {"notFound", "ambiguous", "unmapped"}

\* What the MM answered for each address, and when it was asked ("born": the
\* engine's epoch; "agreed": the operator agreed to a scan).  The code keeps
\* of it the locations, None for "notFound" as for "ambiguous", and whether
\* a full scan is eligible.
Location == [answer : [Addr -> Answer], born : 0..MaxEpoch, agreed : BOOLEAN]

(* An operator whose comment begins with MISTAKE is the one after it with  *)
(* one thing wrong; see MonitorEngine.                                     *)
Eligible(l) == \A a \in Addr : l.answer[a] = "notFound"
Route(l)    == {l.answer[a] : a \in Addr} \cap Device
Says(l, x)  == \E a \in Addr : l.answer[a] = x

\* The MM, or the mapping of its answer, leaves open where an address is.
Partial(l)  == Says(l, "ambiguous") \/ Says(l, "unmapped")

Flows(obs)     == {o[1] : o \in obs}
Showing(obs, f) == {d \in Device : <<f, d>> \in obs}

QueryPhase == {"primary", "standby", "route", "approve", "ask"}

-----------------------------------------------------------------------------
(* The arguments of query_once; the caller says what happened to "used".   *)
BeginQuery(refresh, location, fallback) ==
    /\ phase' = (IF refresh THEN "primary" ELSE "route")
    /\ fresh' = refresh
    /\ at' = (IF refresh THEN None ELSE location)
    /\ scan' = fallback
    /\ toAsk' = {} /\ answered' = {} /\ seen' = {}
    /\ auth' = TRUE /\ transient' = FALSE

(* An early return without observations.                                   *)
GiveUp ==
    /\ phase' = "ask" /\ toAsk' = {} /\ auth' = FALSE

(* _resolve_locations: the MM answers for every address ...                *)
Locate(born) ==
    /\ phase \in {"primary", "standby"}
    /\ \E answer \in [Addr -> Answer] :
          at' = [answer |-> answer, born |-> born, agreed |-> FALSE]
    /\ phase' = "route"
    /\ transient' = FALSE        \* failing over to the standby recovers
    /\ UNCHANGED <<fresh, scan, toAsk, answered, seen, used, auth>>

(* ... the primary cannot be reached, so the standby is asked ...          *)
FailOver ==
    /\ phase = "primary"
    /\ phase' = "standby"
    /\ transient' \in BOOLEAN    \* FALSE: the primary is not enabled
    /\ UNCHANGED <<fresh, at, scan, toAsk, answered, seen, used, auth>>

(* ... or there is no usable answer.                                       *)
NoLocation ==
    /\ phase \in {"primary", "standby"}
    /\ GiveUp
    /\ transient' \in {transient, TRUE}
    /\ UNCHANGED <<fresh, at, scan, answered, seen, used>>

(* Which MDs are asked.  An ambiguous answer is noted where it is given,   *)
(* an unmapped one whenever the location is used.                          *)
ChooseRoute(required) ==
    /\ phase = "route"
    /\ \/ /\ ~ Eligible(at) /\ Route(at) \cup required # {}
          /\ toAsk' = Route(at) \cup required
          /\ auth' = ~ (Says(at, "unmapped") \/ (fresh /\ Says(at, "ambiguous")))
          /\ phase' = "ask"
       \/ ~ Eligible(at) /\ Route(at) \cup required = {} /\ GiveUp
       \/ /\ Eligible(at) /\ scan # {}
          /\ toAsk' = scan \cup required
          /\ phase' = "ask" /\ UNCHANGED auth
       \/ /\ Eligible(at) /\ scan = {} /\ fresh
          /\ phase' = "approve" /\ UNCHANGED <<toAsk, auth>>
       \/ Eligible(at) /\ scan = {} /\ ~ fresh /\ GiveUp
    /\ UNCHANGED <<fresh, at, scan, answered, seen, used, transient>>

(* The operator is asked whether all MDs may be scanned.                   *)
ScanApproved ==
    /\ phase = "approve"
    /\ toAsk' = Device /\ at' = [at EXCEPT !.agreed = TRUE]
    /\ phase' = "ask"
    /\ UNCHANGED <<fresh, scan, answered, seen, used, auth, transient>>

ScanRefused ==
    /\ phase = "approve"
    /\ GiveUp
    /\ transient' \in {transient, TRUE}
    /\ UNCHANGED <<fresh, at, scan, answered, seen, used>>

(* An MD answers with the flows fs, if the poll's budget has room for them.*)
DeviceAnswers(d, fs) ==
    /\ phase = "ask" /\ d \in toAsk
    /\ used + Cardinality(fs) =< MaxObservations
    /\ used' = used + Cardinality(fs)
    /\ seen' = seen \cup (fs \X {d})
    /\ answered' = answered \cup {d}
    /\ toAsk' = toAsk \ {d}
    /\ UNCHANGED <<phase, fresh, at, scan, auth, transient>>

(* MISTAKE: an MD that cannot be asked is passed over                      *)
DevicePassedOver(d) ==
    /\ phase = "ask" /\ d \in toAsk
    /\ transient' \in {transient, TRUE}
    /\ toAsk' \in {toAsk \ {d}, {}}
    /\ UNCHANGED <<phase, fresh, at, scan, answered, seen, used, auth>>

(* An MD cannot be reached, its output not be parsed, or is too long; some *)
(* of these end the query (authentication, cancellation, host key, limit). *)
DeviceFails(d) ==
    /\ phase = "ask" /\ d \in toAsk
    /\ auth' = FALSE
    /\ transient' \in {transient, TRUE}
    /\ toAsk' \in {toAsk \ {d}, {}}
    /\ UNCHANGED <<phase, fresh, at, scan, answered, seen, used>>

Collected == phase = "ask" /\ toAsk = {}

QueryStep(born, required) ==
    \/ Locate(born) \/ FailOver \/ NoLocation
    \/ ChooseRoute(required) \/ ScanApproved \/ ScanRefused
    \/ \E d \in Device : \/ \E fs \in SUBSET Flow : DeviceAnswers(d, fs)
                         \/ DeviceFails(d)

TypeQuery ==
    /\ phase \in QueryPhase \cup {"idle", "prepared"}
    /\ fresh \in BOOLEAN /\ auth \in BOOLEAN /\ transient \in BOOLEAN
    /\ at \in Location \cup {None}
    /\ scan \subseteq Device /\ toAsk \subseteq Device
    /\ answered \subseteq Device /\ seen \subseteq Flow \X Device
    /\ used \in 0..MaxObservations
=============================================================================
