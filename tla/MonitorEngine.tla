--------------------------- MODULE MonitorEngine ---------------------------
(***************************************************************************)
(* services/monitoring.py: the monitor's state across polls.               *)
(*                                                                         *)
(* A poll is prepared on a copy of the committed state - one query, and a  *)
(* second one with a fresh location when a flow would be missed for the    *)
(* second time - and then committed, or discarded when it could not be     *)
(* recorded.  Meanwhile a network change may invalidate the location.      *)
(*                                                                         *)
(* The copy of the flows is the committed one until the poll is committed: *)
(* only one poll is prepared at a time.  So what a prepared poll would     *)
(* change and report is a function of that and of what it has collected.   *)
(* Flags, counters and the representative observation are data; the number *)
(* of misses in a row that the window shows is not modelled.               *)
(***************************************************************************)
EXTENDS TrackerQuery

CONSTANTS
    CloseAfter,    \* close_after_misses
    BackoffSteps   \* length of _TRANSIENT_BACKOFF_SECONDS

ASSUME MonitorAssumption ==
    /\ CloseAfter \in Nat /\ CloseAfter >= 2
    /\ BackoffSteps \in Nat \ {0}

VARIABLES
    \* --- committed ---
    active,      \* _active: the session of each flow, or None
    location,    \* _location_snapshot
    fallback,    \* _fallback_devices
    epoch,       \* _location_epoch
    failures,    \* _consecutive_transient_failures, as far as it indexes
                 \* the backoff table
    \* --- prepared ---
    begun,       \* location_epoch
    newLocation, newFallback,
    first,       \* the first of two queries, or None
    \* --- what the controllers said, for the properties ---
    shows,       \* the flows in each controller's last committed answer
    relocated    \* flows for which the MM has answered since they were missed

committed == <<active, location, fallback, epoch, failures>>
prepared  == <<begun, newLocation, newFallback, first>>
evidence  == <<shows, relocated>>
vars      == <<query, committed, prepared, evidence>>

Session == [miss : 0..(CloseAfter - 1), on : SUBSET Device,
            owner : Device \cup {None}]
First   == [seen : SUBSET (Flow \X Device), answered : SUBSET Device]

ASSUME NoneAssumption == None \notin Location \cup Session \cup First

Init ==
    /\ phase = "idle" /\ fresh = FALSE /\ at = None
    /\ scan = {} /\ toAsk = {} /\ answered = {} /\ seen = {}
    /\ used = 0 /\ auth = FALSE /\ transient = FALSE
    /\ active = [f \in Flow |-> None]
    /\ location = None /\ fallback = {} /\ epoch = 0 /\ failures = 0
    /\ begun = 0 /\ newLocation = None /\ newFallback = {} /\ first = None
    /\ shows = {} /\ relocated = {}

-----------------------------------------------------------------------------
(* What a poll has collected.  An operator whose comment begins with       *)
(* MISTAKE is the one after it with one thing wrong, as a bug might have   *)
(* it.  It is no part of the specification; TLC is run with it in place of *)
(* the operator to see that the property named for it in PROJECT.json then *)
(* fails.                                                                  *)

Live == {f \in Flow : active[f] # None}

(* MISTAKE: only the confirmed controller of a flow is asked again         *)
RequiredOnlyOwner == {active[f].owner : f \in Live} \ {None}

(* required_controller_hosts                                               *)
Required == UNION {active[f].on : f \in Live}

(* _merge_outcomes: the second query decides about the flows it has seen,  *)
(* what else the first has seen is kept.                                   *)
Observations ==
    IF first = None THEN seen
    ELSE seen \cup {o \in first.seen : o[1] \notin Flows(seen)}
Answered ==
    IF first = None THEN answered ELSE answered \cup first.answered

Observed == Flows(Observations)

(* len(prospective_flows) > MAX_POLL_OBSERVATIONS                          *)
TooMany == Cardinality(Live \cup Observed) > MaxObservations

Authoritative == auth /\ ~ TooMany

(* MISTAKE: a flow that moved goes unnoticed while another one remains     *)
SecondMissOfAll ==
    Observed = {} /\ \E f \in Live : active[f].miss + 1 = 2

(* Some flow would be missed for the second time.                          *)
SecondMiss == \E f \in Live \ Observed : active[f].miss + 1 = 2

-----------------------------------------------------------------------------
(* _apply_observations                                                     *)

(* MISTAKE: the only controller of a partial poll counts as confirmed      *)
AloneInPartialPoll(f) == Cardinality(Showing(Observations, f)) = 1

Alone(f) == Authoritative /\ Cardinality(Showing(Observations, f)) = 1

Absent  == IF Authoritative THEN Live \ Observed ELSE {}
(* MISTAKE: one miss too many *)
ClosedLate == {f \in Absent : active[f].miss + 1 > CloseAfter}

Closed  == {f \in Absent : active[f].miss + 1 >= CloseAfter}
Dropped == IF TooMany THEN Live \ Observed ELSE {}
Changed == {f \in Live \cap Observed :
              /\ Alone(f) /\ active[f].owner # None
              /\ active[f].owner \notin Showing(Observations, f)}

Owner(f, before) ==
    IF Alone(f) THEN CHOOSE d \in Showing(Observations, f) : TRUE ELSE before

Start(f) == [miss |-> 0, on |-> Showing(Observations, f),
             owner |-> Owner(f, None)]

(* MISTAKE: a partial poll replaces the controllers of a flow              *)
RefreshForgetsSilent(f) ==
    [miss |-> 0, on |-> Showing(Observations, f),
     owner |-> Owner(f, active[f].owner)]

Refresh(f) ==
    [miss |-> 0,
     on |-> Showing(Observations, f) \cup
                (IF Authoritative THEN {} ELSE active[f].on),
     owner |-> Owner(f, active[f].owner)]

(* MISTAKE: the number of misses is not carried on                         *)
NextSessionCountsOnce(f) ==
    IF f \in Observed
    THEN IF f \in Live THEN Refresh(f) ELSE Start(f)
    ELSE IF f \in Closed \cup Dropped THEN None
    ELSE IF f \in Absent THEN [active[f] EXCEPT !.miss = 1]
    ELSE active[f]

NextSession(f) ==
    IF f \in Observed
    THEN IF f \in Live THEN Refresh(f) ELSE Start(f)
    ELSE IF f \in Closed \cup Dropped THEN None
    ELSE IF f \in Absent THEN [active[f] EXCEPT !.miss = @ + 1]
    ELSE active[f]

-----------------------------------------------------------------------------
(* _prepare_for_persistence: the location is refreshed when there is none  *)
(* or its interval is over.                                                *)
Prepare(refresh) ==
    /\ phase = "idle"
    /\ location = None => refresh
    /\ begun' = epoch
    /\ newLocation' = location /\ newFallback' = fallback /\ first' = None
    /\ BeginQuery(refresh, location, IF refresh THEN {} ELSE fallback)
    /\ used' = 0
    /\ UNCHANGED <<committed, evidence>>

Query ==
    /\ QueryStep(begun, Required)
    /\ UNCHANGED <<committed, prepared, evidence>>

(* _matched_fallback_devices                                               *)
Matched == IF Eligible(at) THEN {o[2] : o \in seen} ELSE {}

(* A query that asked the MM brings a location, also when it then failed.  *)
TakeLocation ==
    IF fresh /\ at # None
    THEN newLocation' = at /\ newFallback' = Matched
    ELSE UNCHANGED <<newLocation, newFallback>>

(* MISTAKE: the second query has a budget of its own                       *)
AskAgainAllAnew ==
    /\ Collected /\ first = None
    /\ auth /\ SecondMiss /\ ~ fresh
    /\ first' = [seen |-> seen, answered |-> answered]
    /\ BeginQuery(TRUE, None, {}) /\ used' = 0
    /\ UNCHANGED <<begun, newLocation, newFallback, committed, evidence>>

(* The second query, with the rest of the budget ...                       *)
AskAgain ==
    /\ Collected /\ first = None
    /\ auth /\ SecondMiss /\ ~ fresh
    /\ first' = [seen |-> seen, answered |-> answered]
    /\ BeginQuery(TRUE, None, {})
    /\ UNCHANGED <<used, begun, newLocation, newFallback, committed, evidence>>

(* ... or the poll is prepared.                                            *)
Calculate ==
    /\ Collected
    /\ ~ (first = None /\ auth /\ SecondMiss /\ ~ fresh)
    /\ TakeLocation
    /\ phase' = "prepared"
    /\ UNCHANGED <<fresh, at, scan, toAsk, answered, seen, used, auth,
                   transient, begun, first, committed, evidence>>

-----------------------------------------------------------------------------
Forget ==
    /\ phase' = "idle" /\ fresh' = FALSE /\ at' = None
    /\ scan' = {} /\ toAsk' = {} /\ answered' = {} /\ seen' = {}
    /\ used' = 0 /\ auth' = FALSE /\ transient' = FALSE
    /\ begun' = 0 /\ newLocation' = None /\ newFallback' = {} /\ first' = None

(* MISTAKE: a location is stored although the network has changed          *)
CurrentAnyway == TRUE

Current == begun = epoch

(* _commit_prepared                                                        *)
Commit ==
    /\ phase = "prepared"
    /\ active' = [f \in Flow |-> NextSession(f)]
    /\ IF Current THEN location' = newLocation /\ fallback' = newFallback
                  ELSE UNCHANGED <<location, fallback>>
    /\ failures' = IF ~ transient THEN 0
                   ELSE IF failures < BackoffSteps THEN failures + 1
                   ELSE failures
    /\ shows' = {o \in shows : o[2] \notin Answered /\ o[1] \notin Dropped}
                \cup Observations
    /\ relocated' = {f \in Live \ Observed :
                       /\ active'[f] # None /\ active[f].miss > 0
                       /\ f \in relocated \/ (fresh /\ at # None)}
    /\ Forget
    /\ UNCHANGED epoch

(* _discard_prepared, or an exception while it was being prepared          *)
Discard ==
    /\ phase # "idle"
    /\ Forget
    /\ UNCHANGED <<committed, evidence>>

(* invalidate_location                                                     *)
Invalidate ==
    /\ epoch < MaxEpoch                                     \* the bound
    /\ epoch' = epoch + 1
    /\ location' = None /\ fallback' = {}
    /\ UNCHANGED <<active, failures, query, prepared, evidence>>

Next ==
    \/ \E refresh \in BOOLEAN : Prepare(refresh)
    \/ Query \/ AskAgain \/ Calculate
    \/ Commit \/ Discard \/ Invalidate

Spec == Init /\ [][Next]_vars
-----------------------------------------------------------------------------
(* Properties                                                              *)

TypeOK ==
    /\ TypeQuery
    /\ active \in [Flow -> Session \cup {None}]
    /\ location \in Location \cup {None} /\ fallback \subseteq Device
    /\ epoch \in 0..MaxEpoch /\ failures \in 0..BackoffSteps
    /\ begun \in 0..MaxEpoch
    /\ newLocation \in Location \cup {None} /\ newFallback \subseteq Device
    /\ first \in First \cup {None}
    /\ shows \subseteq Flow \X Device
    /\ relocated \subseteq Flow

(* A controller that showed a flow when it was last asked is asked again   *)
(* in every poll: whatever polls failed, were partial or were discarded,   *)
(* it stays among the controllers of that flow.                            *)
EvidenceKept ==
    \A o \in shows : active[o[1]] # None /\ o[2] \in active[o[1]].on

(* "An authoritative absence": a poll that reports a flow MISSED or CLOSED *)
(* has had an answer without it from every controller that showed it last. *)
MissedOnEvidence ==
    phase = "prepared" =>
        \A f \in Absent, d \in Device : <<f, d>> \in shows => d \in Answered

(* CONTROLLER_CHANGED is reported only when the new controller is the only *)
(* one whose last answer shows the flow.                                   *)
ChangedOnEvidence ==
    phase = "prepared" =>
        \A f \in Changed : \A d \in Device :
            <<f, d>> \in shows => \/ d \in Answered
                                  \/ d \in Showing(Observations, f)

(* A flow is closed only after the MM has been asked again where its       *)
(* client is: it has answered in a poll after the first miss.              *)
ClosedOnlyAfterRelocation ==
    phase = "prepared" =>
        \A f \in Closed : f \in relocated \/ (fresh /\ at # None)

(* A poll that met a failure it could not recover, so that the window      *)
(* backs off, does not report any absence.                                 *)
BackoffReportsNoAbsence == phase = "prepared" /\ transient => Absent = {}

(* A cached location was looked up by a poll that began after the network  *)
(* last changed, and devices found by a scan are asked again only under    *)
(* the location for which the operator agreed to scan.                     *)
LocationIsCurrent ==
    /\ location # None => location.born = epoch
    /\ fallback # {} => location # None /\ location.agreed

(* "An ambiguous, malformed or unmapped location must never be upgraded to *)
(* permission to scan every MD": a controller is asked because the MM names*)
(* it, because it showed a session, or because the MM knew no address and  *)
(* the operator agreed.                                                    *)
ScansAreAgreed ==
    phase = "ask" =>
        toAsk \subseteq
            IF at # None /\ at.agreed /\ \A a \in Addr : at.answer[a] = "notFound"
            THEN Device ELSE Required \cup (IF at = None THEN {} ELSE Route(at))

(* The number of flows kept is bounded by the size of one poll.            *)
ActiveBounded == Cardinality(Live) =< MaxObservations

(* A flow that is gone is closed: when polls keep being committed and from *)
(* some point on all are authoritative and without it, it does not stay.   *)
GoneFlowsAreClosed ==
    \A f \in Flow :
        /\ []<><<Commit>>_vars
        /\ <>[][Commit => Authoritative /\ f \notin Observed]_vars
        => <>[](active[f] = None)

(* "Never advance the monitor MISS/CLOSED state from that partial routing  *)
(* result", where an address was ambiguous or unmapped.                    *)
PartialRouteReportsNoAbsence ==
    phase = "prepared" /\ at # None /\ Partial(at) => Absent = {}
-----------------------------------------------------------------------------
(* Why it works: the inductive invariant behind the safety properties      *)
(* (proved in MonitorProofs)                                               *)

(* How far a query has come, and what its authority rests on.              *)
QueryInv ==
    /\ phase \in {"primary", "standby"} => fresh /\ at = None
    /\ phase \in {"route", "approve"} => at # None /\ ~ transient
    /\ phase \in {"primary", "standby", "route", "approve", "prepared"}
          => toAsk = {}
    /\ phase \in {"primary", "standby", "route", "approve"} => seen = {}
    /\ phase = "approve" => fresh /\ Eligible(at)
    /\ phase \in {"ask", "prepared"} /\ auth =>
          ~ transient /\ at # None /\ Required \subseteq toAsk \cup answered
    /\ phase \in {"ask", "prepared"} /\ at = None => toAsk = {} /\ seen = {}

(* What a location, and the devices of a scan, were obtained under.        *)
LocationInv ==
    /\ fresh => scan = {}
    /\ scan # {} => at # None /\ at.agreed
    /\ fresh /\ at # None => at.born = begun
    /\ fresh /\ at # None /\ Eligible(at) /\ (toAsk # {} \/ seen # {})
          => at.agreed
    /\ newLocation # None => newLocation.born = begun
    /\ newFallback # {} => newLocation # None /\ newLocation.agreed

(* The second miss brings a second query, or comes with a refresh.         *)
MissInv ==
    /\ first # None => fresh
    /\ phase = "prepared" /\ auth /\ SecondMiss => fresh
    /\ \A f \in Live : active[f].miss >= 2 => f \in relocated

(* The flows a poll has shown fit into the part of the budget it has used. *)
Earlier   == IF first = None THEN {} ELSE Flows(first.seen)
BudgetInv == Cardinality(Flows(seen)) + Cardinality(Earlier) =< used

MonitorInv ==
    /\ TypeOK /\ QueryInv /\ LocationInv /\ MissInv
    /\ EvidenceKept /\ LocationIsCurrent /\ ScansAreAgreed
=============================================================================
