--------------------------- MODULE MonitorProofs ----------------------------
(***************************************************************************)
(* For any addresses, devices and flows, any limit on observations and any *)
(* number of misses and of network changes: MonitorEngine, with            *)
(* TrackerQuery, keeps the types of its variables and has its safety       *)
(* properties.                                                             *)
(*                                                                         *)
(* Typing rests on how far a query has come (QueryInv), so the types are   *)
(* first shown to survive each action and put together at the end, with    *)
(* the other parts of the inductive invariant, one lemma for each.         *)
(***************************************************************************)
EXTENDS MonitorEngine, FiniteSetTheorems, TLAPS

-----------------------------------------------------------------------------
(* Type correctness                                                        *)

(* What a query collects is a relation of flows and devices.               *)
LEMMA TypeCollected ==
    ASSUME TypeOK
    PROVE  /\ Observations \subseteq Flow \X Device
           /\ Observed \subseteq Flow
           /\ Live \subseteq Flow
           /\ \A f \in Live : active[f] \in Session
           /\ Required \subseteq Device
           /\ Matched \subseteq Device
<1>1. Observations \subseteq Flow \X Device
  <2>1. CASE first = None
    BY <2>1 DEF Observations, TypeOK, TypeQuery
  <2>2. CASE first # None
    BY <2>2 DEF Observations, TypeOK, TypeQuery, First
  <2> QED BY <2>1, <2>2
<1>2. Observed \subseteq Flow
  BY <1>1 DEF Observed, Flows
<1>3. Live \subseteq Flow /\ \A f \in Live : active[f] \in Session
  BY DEF Live, TypeOK
<1>4. Required \subseteq Device
  BY <1>3 DEF Required, Session
<1>5. Matched \subseteq Device
  BY DEF Matched, TypeOK, TypeQuery
<1> QED BY <1>1, <1>2, <1>3, <1>4, <1>5

(* A single controller, where there is one, is a device.                   *)
LEMMA AloneIsSingle ==
    ASSUME NEW f, Alone(f)
    PROVE  \E d \in Device : Showing(Observations, f) = {d}
<1> DEFINE S == Showing(Observations, f)
<1>1. IsFiniteSet(S)
  <2>1. S \subseteq Device
    BY DEF Showing
  <2> QED BY <2>1, TrackerAssumption, FS_Subset
<1>2. Cardinality(S) = 1
  BY DEF Alone
<1>3. PICK d : S = {d}
  BY <1>1, <1>2, FS_Singleton
<1> QED BY <1>3 DEF Showing

(* The confirmed controller stays a device or none.                        *)
LEMMA TypeOwner ==
    ASSUME NEW f, NEW before \in Device \cup {None}
    PROVE  Owner(f, before) \in Device \cup {None}
<1>1. CASE Alone(f)
  <2>1. PICK d \in Device : Showing(Observations, f) = {d}
    BY <1>1, AloneIsSingle
  <2>2. (CHOOSE e \in Showing(Observations, f) : TRUE) = d
    BY <2>1
  <2> QED BY <1>1, <2>2 DEF Owner
<1>2. CASE ~ Alone(f)
  BY <1>2 DEF Owner
<1> QED BY <1>1, <1>2

(* The session of a flow that a poll shows: of one that was shown before   *)
(* and of one that is new.                                                 *)
LEMMA TypeRefresh ==
    ASSUME TypeOK, NEW f \in Live
    PROVE  Refresh(f) \in Session
<1>1. active[f] \in Session
  BY TypeCollected
<1>2. Owner(f, active[f].owner) \in Device \cup {None}
  BY <1>1, TypeOwner DEF Session
<1>3. Showing(Observations, f) \cup
          (IF Authoritative THEN {} ELSE active[f].on) \subseteq Device
  BY <1>1 DEF Session, Showing
<1>4. 0 \in 0..(CloseAfter - 1)
  BY MonitorAssumption
<1> QED BY <1>2, <1>3, <1>4 DEF Refresh, Session

LEMMA TypeStart ==
    ASSUME NEW f
    PROVE  Start(f) \in Session
<1>1. Owner(f, None) \in Device \cup {None}
  BY TypeOwner
<1>2. Showing(Observations, f) \subseteq Device
  BY DEF Showing
<1>3. 0 \in 0..(CloseAfter - 1)
  BY MonitorAssumption
<1> QED BY <1>1, <1>2, <1>3 DEF Start, Session

(* A commit keeps every session typed: a session that would reach the      *)
(* number of misses for closing is closed.                                 *)
LEMMA TypeNextSession ==
    ASSUME TypeOK, NEW f \in Flow
    PROVE  NextSession(f) \in Session \cup {None}
<1>1. CASE f \in Observed
  BY <1>1, TypeRefresh, TypeStart DEF NextSession
<1>2. CASE f \notin Observed /\ f \in Closed \cup Dropped
  BY <1>2 DEF NextSession
<1>3. CASE f \notin Observed /\ f \notin Closed \cup Dropped /\ f \in Absent
  <2>1. active[f] \in Session
    BY <1>3, TypeCollected DEF Absent
  <2>2. active[f].miss + 1 < CloseAfter
    BY <1>3, <2>1, MonitorAssumption DEF Closed, Session
  <2>3. active[f].miss + 1 \in 0..(CloseAfter - 1)
    BY <2>1, <2>2, MonitorAssumption DEF Session
  <2>4. [active[f] EXCEPT !.miss = @ + 1] \in Session
    BY <2>1, <2>3 DEF Session
  <2> QED BY <1>3, <2>4 DEF NextSession
<1>4. CASE f \notin Observed /\ f \notin Closed \cup Dropped /\ f \notin Absent
  BY <1>4 DEF NextSession, TypeOK
<1> QED BY <1>1, <1>2, <1>3, <1>4

(* The state of a new engine has the declared types.                       *)
LEMMA TypeInit == Init => TypeOK
<1> SUFFICES ASSUME Init PROVE TypeOK
  OBVIOUS
<1>1. 0 \in 0..MaxObservations /\ 0 \in 0..MaxEpoch /\ 0 \in 0..BackoffSteps
  BY TrackerAssumption, MonitorAssumption
<1>2. TypeQuery
  BY <1>1 DEF Init, TypeQuery
<1>3. active \in [Flow -> Session \cup {None}]
  BY DEF Init
<1> QED BY <1>1, <1>2, <1>3 DEF Init, TypeOK

(* Each step of a query keeps the variables of the query typed; the scan   *)
(* the operator agrees to is noted in the locations there are by then.     *)
LEMMA TypeQueryStep ==
    ASSUME TypeOK, QueryInv, QueryStep(begun, Required)
    PROVE  TypeQuery'
<1> USE DEF TypeOK, TypeQuery, QueryPhase
<1>1. CASE Locate(begun)
  <2>1. PICK answer \in [Addr -> Answer] :
            at' = [answer |-> answer, born |-> begun, agreed |-> FALSE]
    BY <1>1 DEF Locate
  <2>2. at' \in Location
    BY <2>1 DEF Location
  <2> QED BY <1>1, <2>2 DEF Locate
<1>2. CASE FailOver
  BY <1>2 DEF FailOver
<1>3. CASE NoLocation
  BY <1>3 DEF NoLocation, GiveUp
<1>4. CASE ChooseRoute(Required)
  <2>1. Route(at) \subseteq Device
    BY DEF Route
  <2>2. Required \subseteq Device
    BY TypeCollected
  <2> QED BY <1>4, <2>1, <2>2 DEF ChooseRoute, GiveUp
<1>5. CASE ScanApproved
  <2>1. at' \in Location \cup {None}
    <3>1. at \in Location
      BY <1>5 DEF ScanApproved, QueryInv
    <3> QED BY <1>5, <3>1 DEF ScanApproved, Location
  <2> QED BY <1>5, <2>1 DEF ScanApproved
<1>6. CASE ScanRefused
  BY <1>6 DEF ScanRefused, GiveUp
<1>7. ASSUME NEW d \in Device, NEW fs \in SUBSET Flow, DeviceAnswers(d, fs)
      PROVE  TypeQuery'
  <2>1. Cardinality(fs) \in Nat
    BY TrackerAssumption, FS_Subset, FS_CardinalityType
  <2>2. used' \in 0..MaxObservations
    BY <1>7, <2>1, TrackerAssumption DEF DeviceAnswers
  <2>3. seen' \subseteq Flow \X Device
    BY <1>7 DEF DeviceAnswers
  <2> QED BY <1>7, <2>2, <2>3 DEF DeviceAnswers
<1>8. ASSUME NEW d \in Device, DeviceFails(d)
      PROVE  TypeQuery'
  BY <1>8 DEF DeviceFails
<1> QED BY <1>1, <1>2, <1>3, <1>4, <1>5, <1>6, <1>7, <1>8 DEF QueryStep

(* A location the code passes on to a query leaves it typed.               *)
LEMMA TypeBegin ==
    ASSUME NEW refresh \in BOOLEAN, NEW l \in Location \cup {None},
           NEW devices \in SUBSET Device,
           BeginQuery(refresh, l, devices), used' \in 0..MaxObservations
    PROVE  TypeQuery'
BY DEF BeginQuery, TypeQuery, QueryPhase

(* Every step of the engine keeps the declared types.                      *)
LEMMA TypeStep == TypeOK /\ QueryInv /\ [Next]_vars => TypeOK'
<1> SUFFICES ASSUME TypeOK, QueryInv, [Next]_vars PROVE TypeOK'
  OBVIOUS
<1>1. ASSUME NEW refresh \in BOOLEAN, Prepare(refresh) PROVE TypeOK'
  <2>1. used' \in 0..MaxObservations
    BY <1>1, TrackerAssumption DEF Prepare
  <2>2. TypeQuery'
    <3>1. (IF refresh THEN {} ELSE fallback) \in SUBSET Device
      BY DEF TypeOK
    <3>2. location \in Location \cup {None}
      BY DEF TypeOK
    <3> QED BY <1>1, <2>1, <3>1, <3>2, TypeBegin DEF Prepare
  <2> QED BY <1>1, <2>2 DEF Prepare, TypeOK, committed, evidence
<1>2. CASE Query
  BY <1>2, TypeQueryStep DEF Query, TypeOK, committed, prepared, evidence
<1>3. CASE AskAgain
  <2>1. TypeQuery'
    BY <1>3, TypeBegin DEF AskAgain, TypeOK, TypeQuery
  <2>2. first' \in First
    BY <1>3 DEF AskAgain, First, TypeOK, TypeQuery
  <2> QED BY <1>3, <2>1, <2>2 DEF AskAgain, TypeOK, committed, evidence
<1>4. CASE Calculate
  <2>1. TypeQuery'
    BY <1>4 DEF Calculate, TypeOK, TypeQuery
  <2>2. newLocation' \in Location \cup {None} /\ newFallback' \subseteq Device
    BY <1>4, TypeCollected DEF Calculate, TakeLocation, TypeOK, TypeQuery
  <2> QED BY <1>4, <2>1, <2>2 DEF Calculate, TypeOK, committed, evidence
<1>5. CASE Forget /\ (Commit \/ Discard)
  <2>1. /\ TypeQuery' /\ begun' \in 0..MaxEpoch
        /\ newLocation' \in Location \cup {None} /\ newFallback' \subseteq Device
        /\ first' \in First \cup {None}
    <3>1. 0 \in 0..MaxObservations /\ 0 \in 0..MaxEpoch
      BY TrackerAssumption
    <3>2. TypeQuery'
      BY <1>5, <3>1 DEF Forget, TypeQuery
    <3> QED BY <1>5, <3>1, <3>2 DEF Forget
  <2>2. CASE Commit
    <3>1. active' \in [Flow -> Session \cup {None}]
      BY <2>2, TypeNextSession DEF Commit
    <3>2. /\ location' \in Location \cup {None} /\ fallback' \subseteq Device
          /\ epoch' \in 0..MaxEpoch
      BY <2>2 DEF Commit, TypeOK
    <3>3. failures' \in 0..BackoffSteps
      BY <2>2, MonitorAssumption DEF Commit, TypeOK
    <3>4. shows' \subseteq Flow \X Device /\ relocated' \subseteq Flow
      BY <2>2, TypeCollected DEF Commit, TypeOK
    <3> QED BY <2>1, <3>1, <3>2, <3>3, <3>4 DEF TypeOK
  <2>3. CASE Discard
    BY <2>1, <2>3 DEF Discard, TypeOK, committed, evidence
  <2> QED BY <1>5, <2>2, <2>3
<1>6. CASE Invalidate
  BY <1>6, TrackerAssumption
     DEF Invalidate, TypeOK, TypeQuery, query, prepared, evidence
<1>7. CASE UNCHANGED vars
  BY <1>7 DEF vars, TypeOK, TypeQuery, query, committed, prepared, evidence
<1> QED BY <1>1, <1>2, <1>3, <1>4, <1>5, <1>6, <1>7 DEF Next, Commit, Discard

-----------------------------------------------------------------------------
(* A new engine satisfies the invariant.                                   *)
LEMMA InitInv == Init => MonitorInv
<1> SUFFICES ASSUME Init PROVE MonitorInv
  OBVIOUS
<1>1. TypeOK
  BY TypeInit
<1>2. QueryInv
  BY DEF Init, QueryInv
<1>3. LocationInv
  BY DEF Init, LocationInv
<1>4. MissInv
  BY DEF Init, MissInv, Live
<1>5. EvidenceKept /\ LocationIsCurrent /\ ScansAreAgreed
  BY DEF Init, EvidenceKept, LocationIsCurrent, ScansAreAgreed
<1> QED BY <1>1, <1>2, <1>3, <1>4, <1>5 DEF MonitorInv

(* Whom a poll has to ask depends on the committed flows only.             *)
LEMMA RequiredStable ==
    ASSUME UNCHANGED active
    PROVE  Required' = Required /\ Live' = Live
BY DEF Required, Live

(* The operator's agreement is noted in the locations.                     *)
LEMMA AgreementNoted ==
    ASSUME MonitorInv, ScanApproved
    PROVE  /\ at \in Location /\ at' \in Location
           /\ at' # None /\ at'.agreed
           /\ at'.born = at.born /\ at'.answer = at.answer
<1>1. at \in Location
  BY DEF ScanApproved, MonitorInv, QueryInv, TypeOK, TypeQuery
<1>2. at' = [at EXCEPT !.agreed = TRUE]
  BY DEF ScanApproved
<1>3. at' \in Location /\ at'.agreed /\ at'.born = at.born /\ at'.answer = at.answer
  BY <1>1, <1>2 DEF Location
<1> QED BY <1>1, <1>3, NoneAssumption

-----------------------------------------------------------------------------
(* How far a query has come, and what its authority rests on.              *)
LEMMA QueryInvStep == MonitorInv /\ [Next]_vars => QueryInv'
<1> SUFFICES ASSUME MonitorInv, [Next]_vars PROVE QueryInv'
  OBVIOUS
<1> USE DEF QueryInv
<1>0. QueryInv /\ Required \subseteq Device
  BY TypeCollected DEF MonitorInv
<1>1. ASSUME NEW refresh \in BOOLEAN, Prepare(refresh) PROVE QueryInv'
  BY <1>1 DEF Prepare, BeginQuery
<1>2. CASE Query
  <2>0. Required' = Required
    BY <1>2, RequiredStable DEF Query, committed
  <2>1. CASE Locate(begun)
    <3>1. PICK answer \in [Addr -> Answer] :
              at' = [answer |-> answer, born |-> begun, agreed |-> FALSE]
      BY <2>1 DEF Locate
    <3>2. at' \in Location
      BY <3>1 DEF Location, MonitorInv, TypeOK
    <3>3. at' # None
      BY <3>2, NoneAssumption
    <3> QED BY <1>0, <2>1, <3>3 DEF Locate
  <2>2. CASE FailOver
    BY <1>0, <2>2 DEF FailOver
  <2>3. CASE NoLocation
    BY <1>0, <2>3 DEF NoLocation, GiveUp
  <2>4. CASE ChooseRoute(Required)
    <3>1. at # None /\ ~ transient /\ seen = {} /\ ~ transient' /\ at' = at
          /\ seen' = seen /\ fresh' = fresh
      BY <1>0, <2>4 DEF ChooseRoute
    <3>2. CASE phase' = "approve"
      BY <2>4, <3>1, <3>2, <1>0 DEF ChooseRoute, GiveUp, Eligible
    <3>3. CASE phase' = "ask" /\ auth'
      <4>1. Required \subseteq toAsk'
        BY <2>4, <3>3 DEF ChooseRoute, GiveUp
      <4> QED BY <2>0, <3>1, <3>3, <4>1
    <3>4. CASE phase' = "ask" /\ ~ auth'
      BY <3>1, <3>4
    <3> QED BY <2>4, <3>2, <3>3, <3>4 DEF ChooseRoute, GiveUp
  <2>5. CASE ScanApproved
    <3>1. at' # None
      BY <2>5, AgreementNoted
    <3> QED BY <1>0, <2>0, <2>5, <3>1 DEF ScanApproved
  <2>6. CASE ScanRefused
    BY <1>0, <2>6 DEF ScanRefused, GiveUp
  <2>7. ASSUME NEW d \in Device, NEW fs \in SUBSET Flow, DeviceAnswers(d, fs)
        PROVE  QueryInv'
    BY <1>0, <2>0, <2>7 DEF DeviceAnswers
  <2>8. ASSUME NEW d \in Device, DeviceFails(d)
        PROVE  QueryInv'
    BY <1>0, <2>8 DEF DeviceFails
  <2> QED BY <1>2, <2>1, <2>2, <2>3, <2>4, <2>5, <2>6, <2>7, <2>8
          DEF Query, QueryStep
<1>3. CASE AskAgain
  BY <1>3 DEF AskAgain, BeginQuery
<1>4. CASE Calculate
  <2>1. Required' = Required
    BY <1>4, RequiredStable DEF Calculate, committed
  <2> QED BY <1>0, <1>4, <2>1 DEF Calculate, Collected
<1>5. CASE Commit \/ Discard
  BY <1>5 DEF Commit, Discard, Forget
<1>6. CASE Invalidate
  <2>1. Required' = Required
    BY <1>6, RequiredStable DEF Invalidate
  <2> QED BY <1>0, <1>6, <2>1 DEF Invalidate, query, Eligible
<1>7. CASE UNCHANGED vars
  <2>1. Required' = Required
    BY <1>7, RequiredStable DEF vars, committed
  <2> QED BY <1>0, <1>7, <2>1 DEF vars, query, Eligible
<1> QED BY <1>1, <1>2, <1>3, <1>4, <1>5, <1>6, <1>7 DEF Next

-----------------------------------------------------------------------------
(* What a location, and the devices of a scan, were obtained under.        *)
LEMMA LocationInvStep == MonitorInv /\ [Next]_vars => LocationInv'
<1> SUFFICES ASSUME MonitorInv, [Next]_vars PROVE LocationInv'
  OBVIOUS
<1> USE DEF LocationInv
<1>0. LocationInv /\ QueryInv /\ LocationIsCurrent
  BY DEF MonitorInv
<1>1. ASSUME NEW refresh \in BOOLEAN, Prepare(refresh) PROVE LocationInv'
  <2>1. CASE refresh
    BY <1>0, <1>1, <2>1 DEF Prepare, BeginQuery, LocationIsCurrent
  <2>2. CASE ~ refresh
    BY <1>0, <1>1, <2>2 DEF Prepare, BeginQuery, LocationIsCurrent
  <2> QED BY <2>1, <2>2
<1>2. CASE Query
  <2>0. UNCHANGED <<begun, newLocation, newFallback>>
    BY <1>2 DEF Query, prepared
  <2>1. CASE Locate(begun)
    <3>1. at'.born = begun /\ fresh /\ toAsk' = {} /\ seen' = {}
      BY <1>0, <2>1 DEF Locate, QueryInv
    <3> QED BY <1>0, <2>0, <2>1, <3>1 DEF Locate
  <2>2. CASE FailOver
    BY <1>0, <2>0, <2>2 DEF FailOver, QueryInv
  <2>3. CASE NoLocation
    BY <1>0, <2>0, <2>3 DEF NoLocation, GiveUp, QueryInv
  <2>4. CASE ChooseRoute(Required)
    <3>1. UNCHANGED <<fresh, at, scan, seen>> /\ seen = {}
      BY <1>0, <2>4 DEF ChooseRoute, QueryInv
    <3>2. Eligible(at)' <=> Eligible(at)
      BY <3>1 DEF Eligible
    <3>3. fresh /\ Eligible(at) => toAsk' = {}
      BY <1>0, <2>4 DEF ChooseRoute, GiveUp, QueryInv
    <3> QED BY <1>0, <2>0, <3>1, <3>2, <3>3
  <2>5. CASE ScanApproved
    <3>1. at # None /\ at' # None /\ at'.agreed /\ at'.born = at.born
      BY <1>0, <2>5, AgreementNoted DEF ScanApproved, QueryInv
    <3>2. UNCHANGED <<fresh, scan>>
      BY <2>5 DEF ScanApproved
    <3> QED BY <1>0, <2>0, <3>1, <3>2
  <2>6. CASE ScanRefused
    BY <1>0, <2>0, <2>6 DEF ScanRefused, GiveUp, QueryInv
  <2>7. ASSUME NEW d \in Device, NEW fs \in SUBSET Flow, DeviceAnswers(d, fs)
        PROVE  LocationInv'
    <3>1. UNCHANGED <<fresh, at, scan>> /\ toAsk # {}
      BY <2>7 DEF DeviceAnswers
    <3>2. Eligible(at)' <=> Eligible(at)
      BY <3>1 DEF Eligible
    <3> QED BY <1>0, <2>0, <3>1, <3>2
  <2>8. ASSUME NEW d \in Device, DeviceFails(d)
        PROVE  LocationInv'
    <3>1. UNCHANGED <<fresh, at, scan>> /\ toAsk # {}
      BY <2>8 DEF DeviceFails
    <3>2. Eligible(at)' <=> Eligible(at)
      BY <3>1 DEF Eligible
    <3> QED BY <1>0, <2>0, <3>1, <3>2
  <2> QED BY <1>2, <2>1, <2>2, <2>3, <2>4, <2>5, <2>6, <2>7, <2>8
          DEF Query, QueryStep
<1>3. CASE AskAgain
  BY <1>0, <1>3 DEF AskAgain, BeginQuery
<1>4. CASE Calculate
  <2>1. UNCHANGED <<fresh, at, scan, toAsk, seen, begun>>
    BY <1>4 DEF Calculate
  <2>2. Eligible(at)' <=> Eligible(at)
    BY <2>1 DEF Eligible
  <2>3. CASE fresh /\ at # None
    <3>1. newLocation' = at /\ newFallback' = Matched
      BY <1>4, <2>3 DEF Calculate, TakeLocation
    <3>2. Matched # {} => Eligible(at) /\ seen # {}
      BY DEF Matched
    <3> QED BY <1>0, <2>1, <2>2, <2>3, <3>1, <3>2
  <2>4. CASE ~ (fresh /\ at # None)
    BY <1>0, <1>4, <2>1, <2>2, <2>4 DEF Calculate, TakeLocation
  <2> QED BY <2>3, <2>4
<1>5. CASE Commit \/ Discard
  BY <1>5 DEF Commit, Discard, Forget
<1>6. CASE Invalidate
  <2>1. UNCHANGED <<fresh, at, scan, toAsk, seen, begun, newLocation, newFallback>>
    BY <1>6 DEF Invalidate, query, prepared
  <2> QED BY <1>0, <2>1 DEF Eligible
<1>7. CASE UNCHANGED vars
  <2>1. UNCHANGED <<fresh, at, scan, toAsk, seen, begun, newLocation, newFallback>>
    BY <1>7 DEF vars, query, prepared
  <2> QED BY <1>0, <2>1 DEF Eligible
<1> QED BY <1>1, <1>2, <1>3, <1>4, <1>5, <1>6, <1>7 DEF Next

(* What is cached is current: a poll brings its location to the state only *)
(* when the network has not changed since it began.                        *)
LEMMA LocationIsCurrentStep == MonitorInv /\ [Next]_vars => LocationIsCurrent'
<1> SUFFICES ASSUME MonitorInv, [Next]_vars PROVE LocationIsCurrent'
  OBVIOUS
<1> USE DEF LocationIsCurrent
<1>0. LocationInv /\ LocationIsCurrent
  BY DEF MonitorInv
<1>1. CASE UNCHANGED committed
  BY <1>0, <1>1 DEF committed
<1>2. CASE Commit
  <2>1. CASE Current
    BY <1>0, <1>2, <2>1 DEF Commit, Current, LocationInv
  <2>2. CASE ~ Current
    BY <1>0, <1>2, <2>2 DEF Commit
  <2> QED BY <2>1, <2>2
<1>3. CASE Invalidate
  BY <1>3 DEF Invalidate
<1> QED BY <1>1, <1>2, <1>3
        DEF Next, Prepare, Query, AskAgain, Calculate, Discard, vars

(* Whom a query asks.                                                      *)
LEMMA ScansAreAgreedStep == MonitorInv /\ [Next]_vars => ScansAreAgreed'
<1> SUFFICES ASSUME MonitorInv, [Next]_vars, phase' = "ask"
             PROVE  ScansAreAgreed'
  BY DEF ScansAreAgreed
<1> USE DEF ScansAreAgreed
<1>0. /\ ScansAreAgreed /\ LocationInv /\ QueryInv
      /\ Required \subseteq Device /\ scan \subseteq Device
      /\ toAsk \subseteq Device
  BY TypeCollected DEF MonitorInv, TypeOK, TypeQuery
<1>1. CASE Query
  <2>0. Required' = Required
    BY <1>1, RequiredStable DEF Query, committed
  <2>1. CASE NoLocation \/ ScanRefused
    BY <2>1 DEF NoLocation, ScanRefused, GiveUp
  <2>2. CASE ChooseRoute(Required)
    <3>1. at' = at /\ at # None
      BY <1>0, <2>2 DEF ChooseRoute, QueryInv
    <3>2. Route(at)' = Route(at)
      BY <3>1 DEF Route
    <3>3. CASE toAsk' = {}
      BY <3>3
    <3>4. CASE toAsk' = Route(at) \cup Required
      <4>1. Route(at) \subseteq Device
        BY DEF Route
      <4> QED BY <1>0, <2>0, <3>1, <3>2, <3>4, <4>1
    <3>5. CASE Eligible(at) /\ scan # {} /\ toAsk' = scan \cup Required
      BY <1>0, <3>1, <3>5 DEF LocationInv, Eligible
    <3> QED BY <1>0, <2>2, <3>3, <3>4, <3>5 DEF ChooseRoute, GiveUp
  <2>3. CASE ScanApproved
    BY <1>0, <2>3, AgreementNoted DEF ScanApproved, QueryInv, Eligible
  <2>4. ASSUME NEW d \in Device,
               DeviceFails(d) \/ \E fs \in SUBSET Flow : DeviceAnswers(d, fs)
        PROVE  ScansAreAgreed'
    <3>1. at' = at /\ phase = "ask" /\ toAsk' \subseteq toAsk
      BY <2>4 DEF DeviceFails, DeviceAnswers
    <3>2. Route(at)' = Route(at)
      BY <3>1 DEF Route
    <3> QED BY <1>0, <2>0, <3>1, <3>2
  <2>5. ~ Locate(begun) /\ ~ FailOver
    BY DEF Locate, FailOver
  <2> QED BY <1>1, <2>1, <2>2, <2>3, <2>4, <2>5 DEF Query, QueryStep
<1>2. CASE Invalidate \/ UNCHANGED vars
  <2>1. UNCHANGED <<phase, at, toAsk>> /\ UNCHANGED active
    BY <1>2 DEF Invalidate, vars, query, committed
  <2>2. Required' = Required /\ Route(at)' = Route(at)
    BY <2>1, RequiredStable DEF Route
  <2> QED BY <1>0, <2>1, <2>2
<1>3. ~ \E refresh \in BOOLEAN : Prepare(refresh)
  BY DEF Prepare, BeginQuery
<1>4. ~ AskAgain /\ ~ Calculate /\ ~ Commit /\ ~ Discard
  BY DEF AskAgain, BeginQuery, Calculate, Commit, Discard, Forget
<1> QED BY <1>1, <1>2, <1>3, <1>4 DEF Next

-----------------------------------------------------------------------------
(* What an authoritative poll has asked.                                   *)
LEMMA AuthorityRests ==
    ASSUME MonitorInv, phase = "prepared", Authoritative
    PROVE  /\ auth /\ ~ transient /\ at # None
           /\ Required \subseteq Answered
<1>1. auth
  BY DEF Authoritative
<1>2. ~ transient /\ at # None /\ Required \subseteq answered
  BY <1>1 DEF MonitorInv, QueryInv
<1>3. answered \subseteq Answered
  BY DEF Answered
<1> QED BY <1>1, <1>2, <1>3

(* Who showed a flow last is asked.                                        *)
LEMMA ShownIsRequired ==
    ASSUME MonitorInv, NEW f, NEW d, <<f, d>> \in shows
    PROVE  f \in Live /\ d \in active[f].on /\ d \in Required
<1>1. f \in Flow
  BY DEF MonitorInv, TypeOK
<1>2. active[f] # None /\ d \in active[f].on
  BY DEF MonitorInv, EvidenceKept
<1> QED BY <1>1, <1>2 DEF Live, Required

(* The second miss brings a second query, or comes with a refresh; a third *)
(* one presupposes it.                                                     *)
LEMMA MissInvStep == MonitorInv /\ [Next]_vars => MissInv'
<1> SUFFICES ASSUME MonitorInv, [Next]_vars PROVE MissInv'
  OBVIOUS
<1> USE DEF MissInv
<1>0. MissInv /\ TypeOK /\ QueryInv
  BY DEF MonitorInv
<1>1. ASSUME NEW refresh \in BOOLEAN, Prepare(refresh) PROVE MissInv'
  <2>1. UNCHANGED <<active, relocated>> /\ first' = None /\ phase' # "prepared"
    BY <1>1 DEF Prepare, BeginQuery, committed, evidence
  <2> QED BY <1>0, <2>1, RequiredStable
<1>2. CASE Query
  <2>1. UNCHANGED <<active, relocated, first>>
    BY <1>2 DEF Query, committed, evidence, prepared
  <2>2. fresh' = fresh /\ phase' # "prepared"
    BY <1>2 DEF Query, QueryStep, Locate, FailOver, NoLocation, ChooseRoute,
                ScanApproved, ScanRefused, DeviceAnswers, DeviceFails, GiveUp
  <2> QED BY <1>0, <2>1, <2>2, RequiredStable
<1>3. CASE AskAgain
  <2>1. UNCHANGED <<active, relocated>> /\ fresh' /\ phase' # "prepared"
    BY <1>3 DEF AskAgain, BeginQuery, committed, evidence
  <2> QED BY <1>0, <2>1, RequiredStable
<1>4. CASE Calculate
  <2>1. UNCHANGED <<active, relocated, first, fresh, seen, auth>>
    BY <1>4 DEF Calculate, committed, evidence
  <2>2. SecondMiss' <=> SecondMiss
    BY <2>1, RequiredStable DEF SecondMiss, Observed, Observations
  <2>3. auth /\ SecondMiss => fresh
    BY <1>0, <1>4 DEF Calculate
  <2> QED BY <1>0, <2>1, <2>2, <2>3, RequiredStable
<1>5. CASE Commit
  <2>1. first' = None /\ phase' # "prepared"
    BY <1>5 DEF Commit, Forget
  <2>2. ASSUME NEW f \in Live', active'[f].miss >= 2
        PROVE  f \in relocated'
    <3>1. f \in Flow /\ active'[f] = NextSession(f) /\ active'[f] # None
      BY <1>5, <2>2 DEF Commit, Live
    <3>2. f \notin Observed
      BY <2>2, <3>1 DEF NextSession, Refresh, Start
    <3>3. f \in Live
      BY <3>1, <3>2 DEF NextSession, Live, Absent, Closed, Dropped
    <3>4. active[f] \in Session
      BY <1>0, <3>3, TypeCollected
    <3>5. CASE f \in Absent
      <4>1. Authoritative
        BY <3>5 DEF Absent
      <4>2. auth /\ at # None
        BY <1>5, <4>1, AuthorityRests DEF Commit
      <4>3. active'[f] = [active[f] EXCEPT !.miss = @ + 1]
        BY <3>1, <3>2, <3>5 DEF NextSession
      <4>4. active'[f].miss = active[f].miss + 1 /\ active[f].miss \in Nat
        BY <3>4, <4>3 DEF Session
      <4>5. active[f].miss > 0
        BY <2>2, <4>4
      <4>6. CASE active[f].miss >= 2
        BY <1>0, <1>5, <3>1, <3>2, <3>3, <4>5, <4>6 DEF Commit
      <4>7. CASE active[f].miss = 1
        <5>1. SecondMiss
          BY <3>2, <3>3, <4>7 DEF SecondMiss
        <5>2. fresh
          BY <1>0, <1>5, <4>2, <5>1 DEF Commit
        <5> QED BY <1>5, <3>1, <3>2, <3>3, <4>2, <4>5, <5>2 DEF Commit
      <4> QED BY <4>4, <4>5, <4>6, <4>7
    <3>6. CASE f \notin Absent
      <4>1. active'[f] = active[f]
        BY <3>1, <3>2, <3>6 DEF NextSession
      <4>2. active[f].miss >= 2 /\ active[f].miss > 0
        BY <2>2, <3>4, <4>1 DEF Session
      <4>3. f \in relocated
        BY <1>0, <3>3, <4>2
      <4> QED BY <1>5, <3>1, <3>2, <3>3, <4>2, <4>3 DEF Commit
    <3> QED BY <3>5, <3>6
  <2> QED BY <2>1, <2>2
<1>6. CASE Discard
  <2>1. UNCHANGED <<active, relocated>> /\ first' = None /\ phase' # "prepared"
    BY <1>6 DEF Discard, Forget, committed, evidence
  <2> QED BY <1>0, <2>1, RequiredStable
<1>7. CASE Invalidate \/ UNCHANGED vars
  <2>1. UNCHANGED <<active, relocated, first, fresh, seen, auth, phase>>
    BY <1>7 DEF Invalidate, vars, query, committed, prepared, evidence
  <2>2. SecondMiss' <=> SecondMiss
    BY <2>1, RequiredStable DEF SecondMiss, Observed, Observations
  <2> QED BY <1>0, <2>1, <2>2, RequiredStable
<1> QED BY <1>1, <1>2, <1>3, <1>4, <1>5, <1>6, <1>7 DEF Next

(* A commit keeps the evidence: who did not answer is not forgotten.       *)
LEMMA EvidenceKeptStep == MonitorInv /\ [Next]_vars => EvidenceKept'
<1> SUFFICES ASSUME MonitorInv, [Next]_vars PROVE EvidenceKept'
  OBVIOUS
<1> USE DEF EvidenceKept
<1>0. EvidenceKept /\ TypeOK
  BY DEF MonitorInv
<1>1. CASE UNCHANGED <<active, shows>>
  BY <1>0, <1>1
<1>2. CASE Commit
  <2> SUFFICES ASSUME NEW o \in shows'
               PROVE  active'[o[1]] # None /\ o[2] \in active'[o[1]].on
    OBVIOUS
  <2> DEFINE f == o[1]
             d == o[2]
  <2>1. \/ o \in Observations
        \/ o \in shows /\ d \notin Answered /\ f \notin Dropped
    BY <1>2 DEF Commit
  <2>2. o \in Flow \X Device
    BY <1>0, <2>1, TypeCollected DEF TypeOK
  <2>3. f \in Flow /\ d \in Device /\ o = <<f, d>>
    BY <2>2
  <2>4. active'[f] = NextSession(f) /\ active'[f] \in Session \cup {None}
    BY <1>0, <1>2, <2>3, TypeNextSession DEF Commit
  <2>5. CASE o \in Observations
    <3>1. f \in Observed /\ d \in Showing(Observations, f)
      BY <2>3, <2>5 DEF Observed, Flows, Showing
    <3>2. active'[f] = (IF f \in Live THEN Refresh(f) ELSE Start(f))
      BY <2>4, <3>1 DEF NextSession
    <3>3. d \in active'[f].on
      BY <3>1, <3>2 DEF Refresh, Start
    <3>4. active'[f] # None
      <4>1. active[f] \in Session \cup {None}
        BY <1>0, <2>3 DEF TypeOK
      <4>2. Refresh(f) \in Session \/ f \notin Live
        BY <1>0, <2>3, TypeRefresh
      <4>3. Start(f) \in Session
        BY <2>3, TypeStart
      <4> QED BY <3>2, <4>2, <4>3, NoneAssumption
    <3> QED BY <3>3, <3>4
  <2>6. CASE o \in shows /\ d \notin Answered /\ f \notin Dropped
    <3>1. f \in Live /\ d \in active[f].on /\ d \in Required
      BY <2>3, <2>6, ShownIsRequired
    <3>2. ~ Authoritative
      BY <1>2, <2>6, <3>1, AuthorityRests DEF Commit
    <3>3. active[f] \in Session
      BY <1>0, <3>1, TypeCollected
    <3>4. CASE f \in Observed
      <4>1. active'[f] = Refresh(f)
        BY <2>4, <3>1, <3>4 DEF NextSession
      <4>2. d \in Refresh(f).on
        BY <3>1, <3>2 DEF Refresh
      <4>3. Refresh(f) \in Session
        BY <1>0, <2>3, <3>1, TypeRefresh
      <4> QED BY <4>1, <4>2, <4>3, NoneAssumption
    <3>5. CASE f \notin Observed
      <4>1. active'[f] = active[f]
        BY <2>4, <2>6, <3>2, <3>5 DEF NextSession, Absent, Closed
      <4> QED BY <3>1, <3>3, <4>1, NoneAssumption
    <3> QED BY <3>4, <3>5
  <2> QED BY <2>1, <2>5, <2>6
<1> QED BY <1>1, <1>2 DEF Next, Prepare, Query, AskAgain, Calculate, Discard,
        Invalidate, vars, committed, evidence

-----------------------------------------------------------------------------
LEMMA MonitorInvStep == MonitorInv /\ [Next]_vars => MonitorInv'
<1> SUFFICES ASSUME MonitorInv, [Next]_vars PROVE MonitorInv'
  OBVIOUS
<1>1. TypeOK'
  BY TypeStep DEF MonitorInv
<1>2. QueryInv' /\ LocationInv' /\ MissInv'
  BY QueryInvStep, LocationInvStep, MissInvStep
<1>3. EvidenceKept' /\ LocationIsCurrent' /\ ScansAreAgreed'
  BY EvidenceKeptStep, LocationIsCurrentStep, ScansAreAgreedStep
<1> QED BY <1>1, <1>2, <1>3 DEF MonitorInv

(* MonitorInv always holds of the monitor.                                 *)
THEOREM MonitorInvariant == Spec => []MonitorInv
<1>1. Init => MonitorInv
  BY InitInv
<1>2. MonitorInv /\ [Next]_vars => MonitorInv'
  BY MonitorInvStep
<1> QED BY <1>1, <1>2, PTL DEF Spec

-----------------------------------------------------------------------------
(* What follows from it                                                    *)

(* The variables of the monitor and of its queries keep their types.       *)
THEOREM MonitorTyping == Spec => []TypeOK
<1>1. MonitorInv => TypeOK
  BY DEF MonitorInv
<1> QED BY <1>1, MonitorInvariant, PTL

(* A controller that showed a flow when it last answered stays among the   *)
(* controllers that are asked for that flow.                               *)
THEOREM EvidenceIsKept == Spec => []EvidenceKept
<1>1. MonitorInv => EvidenceKept
  BY DEF MonitorInv
<1> QED BY <1>1, MonitorInvariant, PTL

(* A cached location was looked up after the last network change, and the  *)
(* devices of a scan are kept only with the location it was agreed for.    *)
THEOREM LocationStaysCurrent == Spec => []LocationIsCurrent
<1>1. MonitorInv => LocationIsCurrent
  BY DEF MonitorInv
<1> QED BY <1>1, MonitorInvariant, PTL

(* A controller is asked because the MM names it, because it showed a      *)
(* session, or in a scan the operator agreed to.                           *)
THEOREM ScansStayAgreed == Spec => []ScansAreAgreed
<1>1. MonitorInv => ScansAreAgreed
  BY DEF MonitorInv
<1> QED BY <1>1, MonitorInvariant, PTL

(* A flow is reported MISSED or CLOSED only after an answer without it from*)
(* every controller that showed it last.                                   *)
THEOREM MissedRestsOnEvidence == Spec => []MissedOnEvidence
<1>1. MonitorInv => MissedOnEvidence
  <2> SUFFICES ASSUME MonitorInv, phase = "prepared",
                      NEW f \in Absent, NEW d \in Device, <<f, d>> \in shows
               PROVE  d \in Answered
    BY DEF MissedOnEvidence
  <2>1. Authoritative
    BY DEF Absent
  <2>2. d \in Required
    BY ShownIsRequired
  <2> QED BY <2>1, <2>2, AuthorityRests
<1> QED BY <1>1, MonitorInvariant, PTL

(* A change of controller is reported only when no other controller's last *)
(* answer shows the flow.                                                  *)
THEOREM ChangedRestsOnEvidence == Spec => []ChangedOnEvidence
<1>1. MonitorInv => ChangedOnEvidence
  <2> SUFFICES ASSUME MonitorInv, phase = "prepared",
                      NEW f \in Changed, NEW d \in Device, <<f, d>> \in shows
               PROVE  d \in Answered
    BY DEF ChangedOnEvidence
  <2>1. Authoritative
    BY DEF Changed, Alone
  <2>2. d \in Required
    BY ShownIsRequired
  <2> QED BY <2>1, <2>2, AuthorityRests
<1> QED BY <1>1, MonitorInvariant, PTL

(* Between the first miss of a flow and its closing, the MM has answered   *)
(* where its client is: the second miss asks it again.                     *)
THEOREM ClosedAfterRelocation == Spec => []ClosedOnlyAfterRelocation
<1>1. MonitorInv => ClosedOnlyAfterRelocation
  <2> SUFFICES ASSUME MonitorInv, phase = "prepared", NEW f \in Closed
               PROVE  f \in relocated \/ (fresh /\ at # None)
    BY DEF ClosedOnlyAfterRelocation
  <2>0. MissInv /\ TypeOK
    BY DEF MonitorInv
  <2>1. Authoritative /\ f \in Live /\ f \notin Observed
    BY DEF Closed, Absent
  <2>2. active[f].miss \in Nat /\ active[f].miss + 1 >= CloseAfter
    BY <2>0, <2>1, TypeCollected, MonitorAssumption DEF Closed, Session
  <2>3. CASE active[f].miss >= 2
    BY <2>0, <2>1, <2>3 DEF MissInv
  <2>4. CASE active[f].miss = 1
    <3>1. SecondMiss
      BY <2>1, <2>4 DEF SecondMiss
    <3>2. auth /\ at # None
      BY <2>1, AuthorityRests
    <3> QED BY <2>0, <3>1, <3>2 DEF MissInv
  <2> QED BY <2>2, <2>3, <2>4, MonitorAssumption
<1> QED BY <1>1, MonitorInvariant, PTL

(* A poll that makes the window back off reports no absence.               *)
THEOREM BackoffIsQuiet == Spec => []BackoffReportsNoAbsence
<1>1. MonitorInv => BackoffReportsNoAbsence
  <2> SUFFICES ASSUME MonitorInv, phase = "prepared", transient
               PROVE  Absent = {}
    BY DEF BackoffReportsNoAbsence
  <2> QED BY AuthorityRests DEF Absent
<1> QED BY <1>1, MonitorInvariant, PTL

-----------------------------------------------------------------------------
(* How many flows are kept                                                 *)

(* Sets of flows are finite, and their sizes add up.                       *)
LEMMA FlowSets ==
    ASSUME NEW A \in SUBSET Flow, NEW B \in SUBSET Flow
    PROVE  /\ Cardinality(A) \in Nat /\ Cardinality(B) \in Nat
           /\ Cardinality(A \cup B) \in Nat
           /\ Cardinality(A \cup B) =< Cardinality(A) + Cardinality(B)
           /\ A \subseteq B => Cardinality(A) =< Cardinality(B)
<1>1. IsFiniteSet(A) /\ IsFiniteSet(B) /\ IsFiniteSet(A \cap B)
      /\ IsFiniteSet(A \cup B)
  BY TrackerAssumption, FS_Subset
<1>2. /\ Cardinality(A) \in Nat /\ Cardinality(B) \in Nat
      /\ Cardinality(A \cap B) \in Nat /\ Cardinality(A \cup B) \in Nat
  BY <1>1, FS_CardinalityType
<1>3. Cardinality(A \cup B) =
          Cardinality(A) + Cardinality(B) - Cardinality(A \cap B)
  BY <1>1, FS_Union
<1>4. A \subseteq B => Cardinality(A) =< Cardinality(B)
  BY <1>1, FS_Subset
<1> QED BY <1>2, <1>3, <1>4

LEMMA BudgetStep == TypeOK /\ BudgetInv /\ [Next]_vars => BudgetInv'
<1> SUFFICES ASSUME TypeOK, BudgetInv, [Next]_vars PROVE BudgetInv'
  OBVIOUS
<1>0. /\ Flows(seen) \subseteq Flow /\ Earlier \subseteq Flow /\ used \in Nat
      /\ Flows({}) = {} /\ Cardinality({}) = 0
  <2>1. Flows(seen) \subseteq Flow
    BY DEF Flows, TypeOK, TypeQuery
  <2>2. Earlier \subseteq Flow
    BY DEF Earlier, Flows, TypeOK, First
  <2>3. used \in Nat
    BY TrackerAssumption DEF TypeOK, TypeQuery
  <2> QED BY <2>1, <2>2, <2>3, FS_EmptySet DEF Flows
<1>1. CASE UNCHANGED <<seen, first, used>>
  BY <1>1 DEF BudgetInv, Earlier
<1>2. CASE seen' = {} /\ first' = None /\ used' = 0
  BY <1>0, <1>2 DEF BudgetInv, Earlier
<1>3. ASSUME NEW d \in Device, NEW fs \in SUBSET Flow, DeviceAnswers(d, fs),
             first' = first
      PROVE  BudgetInv'
  <2>1. Flows(seen') \subseteq Flows(seen) \cup fs
    BY <1>3 DEF DeviceAnswers, Flows
  <2>2. Cardinality(Flows(seen')) =< Cardinality(Flows(seen)) + Cardinality(fs)
        /\ Cardinality(Flows(seen')) \in Nat
    <3>1. Flows(seen') \in SUBSET Flow /\ Flows(seen) \cup fs \in SUBSET Flow
      BY <1>0, <2>1
    <3>2. Cardinality(Flows(seen')) =< Cardinality(Flows(seen) \cup fs)
          /\ Cardinality(Flows(seen')) \in Nat
      BY <2>1, <3>1, FlowSets
    <3>3. Cardinality(Flows(seen) \cup fs) =< Cardinality(Flows(seen)) + Cardinality(fs)
          /\ Cardinality(Flows(seen) \cup fs) \in Nat
          /\ Cardinality(Flows(seen)) \in Nat /\ Cardinality(fs) \in Nat
      BY <1>0, FlowSets
    <3> QED BY <3>2, <3>3
  <2>3. used' = used + Cardinality(fs) /\ Earlier' = Earlier
    BY <1>3 DEF DeviceAnswers, Earlier
  <2>4. Cardinality(fs) \in Nat /\ Cardinality(Earlier) \in Nat
        /\ Cardinality(Flows(seen)) \in Nat
    BY <1>0, FlowSets
  <2> QED BY <1>0, <2>2, <2>3, <2>4 DEF BudgetInv
<1>4. CASE AskAgain
  <2>1. first = None /\ seen' = {} /\ used' = used
        /\ first' = [seen |-> seen, answered |-> answered]
    BY <1>4 DEF AskAgain, BeginQuery
  <2>2. first' \in First
    BY <2>1 DEF First, TypeOK, TypeQuery
  <2>3. Earlier' = Flows(seen) /\ Earlier = {}
    BY <2>1, <2>2, NoneAssumption DEF Earlier
  <2>4. Cardinality(Flows(seen)) \in Nat
    BY <1>0, FlowSets
  <2>5. Cardinality(Flows(seen)) =< used
    BY <1>0, <2>3, <2>4 DEF BudgetInv
  <2>6. Cardinality(Flows(seen')) = 0
    BY <1>0, <2>1
  <2> QED BY <2>1, <2>3, <2>4, <2>5, <2>6 DEF BudgetInv
<1>5. CASE Query
  <2>1. first' = first
    BY <1>5 DEF Query, prepared
  <2>2. \/ UNCHANGED <<seen, used>>
        \/ \E d \in Device, fs \in SUBSET Flow : DeviceAnswers(d, fs)
    BY <1>5 DEF Query, QueryStep, Locate, FailOver, NoLocation, ChooseRoute,
                ScanApproved, ScanRefused, DeviceFails
  <2> QED BY <1>1, <1>3, <2>1, <2>2
<1> QED BY <1>1, <1>2, <1>4, <1>5
        DEF Next, Prepare, BeginQuery, Calculate, Commit, Discard, Forget,
            Invalidate, vars, query, prepared

(* A commit keeps the flows it has shown, and the others only if that many *)
(* are allowed.                                                            *)
LEMMA BoundedStep ==
    TypeOK /\ BudgetInv /\ ActiveBounded /\ [Next]_vars => ActiveBounded'
<1> SUFFICES ASSUME TypeOK, BudgetInv, ActiveBounded, [Next]_vars
             PROVE  ActiveBounded'
  OBVIOUS
<1>1. CASE UNCHANGED active
  BY <1>1, RequiredStable DEF ActiveBounded
<1>2. CASE Commit
  <2>1. Live \subseteq Flow /\ Observed \subseteq Flow /\ Live' \subseteq Flow
    BY TypeCollected DEF Live
  <2>2. Live' \subseteq Live \cup Observed
    BY <1>2 DEF Commit, Live, NextSession, Closed, Absent
  <2>3. CASE TooMany
    <3>1. Live' \subseteq Observed
      BY <1>2, <2>2, <2>3 DEF Commit, Live, NextSession, Dropped
    <3>2. /\ Flows(seen) \subseteq Flow /\ Earlier \subseteq Flow
          /\ Observed \subseteq Flows(seen) \cup Earlier
      <4>1. Flows(seen) \subseteq Flow
        BY DEF Flows, TypeOK, TypeQuery
      <4>2. Earlier \subseteq Flow
        BY DEF Earlier, Flows, TypeOK, First
      <4>3. Observed \subseteq Flows(seen) \cup Earlier
        BY DEF Observed, Observations, Earlier, Flows
      <4> QED BY <4>1, <4>2, <4>3
    <3>3. Cardinality(Live') =< Cardinality(Flows(seen) \cup Earlier)
          /\ Cardinality(Live') \in Nat
      <4>1. Live' \in SUBSET Flow /\ Flows(seen) \cup Earlier \in SUBSET Flow
            /\ Live' \subseteq Flows(seen) \cup Earlier
        BY <2>1, <3>1, <3>2
      <4> QED BY <4>1, FlowSets
    <3>4. Cardinality(Flows(seen) \cup Earlier) =<
              Cardinality(Flows(seen)) + Cardinality(Earlier)
          /\ Cardinality(Flows(seen) \cup Earlier) \in Nat
          /\ Cardinality(Flows(seen)) \in Nat /\ Cardinality(Earlier) \in Nat
      BY <3>2, FlowSets
    <3>5. used \in Nat /\ used =< MaxObservations /\ MaxObservations \in Nat
      BY TrackerAssumption DEF TypeOK, TypeQuery
    <3> QED BY <3>3, <3>4, <3>5 DEF BudgetInv, ActiveBounded
  <2>4. CASE ~ TooMany
    <3>1. Cardinality(Live') =< Cardinality(Live \cup Observed)
          /\ Cardinality(Live') \in Nat /\ Cardinality(Live \cup Observed) \in Nat
      <4>1. Live' \in SUBSET Flow /\ Live \cup Observed \in SUBSET Flow
        BY <2>1
      <4> QED BY <2>2, <4>1, FlowSets
    <3> QED BY <2>4, <3>1, TrackerAssumption DEF TooMany, ActiveBounded
  <2> QED BY <2>3, <2>4
<1> QED BY <1>1, <1>2
        DEF Next, Prepare, Query, AskAgain, Calculate, Discard, Invalidate,
            vars, committed

(* The flows kept never outnumber the observations of one poll.            *)
THEOREM ActiveStaysBounded == Spec => []ActiveBounded
<1>1. Init => BudgetInv /\ ActiveBounded
  BY FS_EmptySet, TrackerAssumption
     DEF Init, BudgetInv, Earlier, Flows, ActiveBounded, Live
<1>2. /\ MonitorInv /\ BudgetInv /\ ActiveBounded /\ [Next]_vars
      => BudgetInv' /\ ActiveBounded'
  BY BudgetStep, BoundedStep DEF MonitorInv
<1> QED BY <1>1, <1>2, MonitorInvariant, PTL DEF Spec
=============================================================================
