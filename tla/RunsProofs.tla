---------------------------- MODULE RunsProofs ----------------------------
(***************************************************************************)
(* What lasts from one run to the next, for any number of processes,       *)
(* sessions, crashes, failures, flows, controllers, queries and outcomes:  *)
(* what a session is told of the one before it (AppSession), and what the  *)
(* table of results shows (ResultTable); and for any number of releases,   *)
(* commits, builds, runs of the workflow and faults: a public release is   *)
(* what its marker says, the tag only moves forward, and no run stops      *)
(* without a reason (ContinuousRelease).                                   *)
(*                                                                         *)
(* SessionInv: whoever reads or writes the mark holds the guard            *)
(* (OneAtWork), the mark tells of the last session that wrote it           *)
(* (MarkTells), what the holder has read of it is still so                 *)
(* (ReadIsCurrent), and the session of a process in its window is the last *)
(* one (WindowIsLast).                                                     *)
(*                                                                         *)
(* TableInv: the counters a poll is given, or will be given, are those of  *)
(* rows that are shown, of the same run (Shown).                           *)
(*                                                                         *)
(* ReleaseInv says what GitHub may keep between two runs (Listed,          *)
(* PublicShape, Behind), what the run at hand knows of it (Early, Alone,   *)
(* Knows, KnowsTag, TagIsBehind), what an answered change has brought      *)
(* about (Achieved), and that each action is nearer to "done" than the one *)
(* before (Chosen, Forward).                                               *)
(***************************************************************************)
EXTENDS AppSession, ResultTable, ContinuousRelease, SequenceTheorems, FunctionTheorems,
        FiniteSetTheorems, TLAPS

-----------------------------------------------------------------------------
(* Sessions                                                                *)

Phases == {"off", "starting", "ready", "read", "window", "marked", "refused",
           "leaving"}
Answers == {"yes", "no", "unreadable"}
Session == [process : Process, reported : Answers, clean : BOOLEAN, failed : BOOLEAN]

(* The types of what the mark depends on.                                  *)
SessionTypes ==
    /\ guard \in Process \cup {NoProcess}
    /\ doing \in [Process -> Phases]
    /\ unclean \in [Process -> Answers]
    /\ mark \in {"absent", "RUNNING", "CLEAN"}
    /\ sessions \in Seq(Session)

OneAtWork ==
    \A p \in Process : doing[p] \notin {"off", "leaving"} => guard = p

Told(m) == IF m = "RUNNING" THEN "yes" ELSE "no"

(* What a mark tells, and when that is true of a session.                  *)
TrueOf(told, s) ==
    /\ told = "no" => s.clean
    /\ told = "yes" => (s.clean => s.failed)

MarkTells ==
    IF sessions = <<>> THEN mark = "absent"
    ELSE TrueOf(Told(mark), sessions[Len(sessions)])

ReadIsCurrent ==
    \A p \in Process : doing[p] = "read" => unclean[p] \in {"unreadable", Told(mark)}

WindowIsLast ==
    \A p \in Process : doing[p] = "window" =>
        sessions # <<>> /\ sessions[Len(sessions)].process = p

SessionInv ==
    /\ SessionTypes /\ OneAtWork /\ MarkTells /\ ReadIsCurrent /\ WindowIsLast
    /\ UncleanIsReported

-----------------------------------------------------------------------------
(* Steps                                                                   *)

(* The session of a process in its window is the last one that began.      *)
LEMMA CurrentIsLast ==
    ASSUME SessionTypes, NEW p \in Process, sessions # <<>>,
           sessions[Len(sessions)].process = p
    PROVE  Current(p) = Len(sessions)
  <1> DEFINE n == Len(sessions)
             Is(k) == /\ sessions[k].process = p
                      /\ \A m \in k + 1 .. n : sessions[m].process # p
  <1>1. n \in Nat /\ n >= 1
    BY DEF SessionTypes
  <1>2. n \in 1 .. n /\ Is(n)
    BY <1>1
  <1>3. \A k \in 1 .. n : Is(k) => k = n
    BY <1>1
  <1>4. Current(p) = CHOOSE k \in 1 .. n : Is(k)
    BY DEF Current
  <1> HIDE DEF n, Is
  <1> QED BY <1>2, <1>3, <1>4 DEF n

(* Steps of the other parts of the program leave the mark alone, and take  *)
(* no process to where it would read or write it.                          *)
LEMMA Aside ==
    ASSUME SessionInv, UNCHANGED <<guard, doing, unclean, mark, sessions>>
    PROVE  SessionInv'
  BY DEF SessionInv, SessionTypes, OneAtWork, MarkTells, ReadIsCurrent,
         WindowIsLast, UncleanIsReported

(* A process moves on, without touching the mark.                          *)
LEMMA MovesOn ==
    ASSUME SessionInv, NEW p \in Process, NEW there \in Phases \ {"read", "window"},
           Goes(p, there), UNCHANGED <<mark, sessions>>,
           doing[p] \notin {"off", "leaving"} \/ there \in {"off", "leaving"}
               \/ (guard = NoProcess /\ guard' = p),
           unclean' \in [Process -> Answers],
           \A q \in Process \ {p} : unclean'[q] = unclean[q],
           \/ guard' = guard
           \/ guard = NoProcess /\ guard' = p
           \/ guard = p /\ guard' = NoProcess /\ there \in {"off", "leaving"}
    PROVE  SessionInv'
  <1> USE DEF SessionInv, Goes
  <1>1. SessionTypes'
    BY DEF SessionTypes
  <1>2. \A q \in Process : doing'[q] = IF q = p THEN there ELSE doing[q]
    BY DEF SessionTypes
  <1>3. OneAtWork'
    BY <1>2, SessionAssumption DEF OneAtWork, SessionAssumption
  <1>4. ReadIsCurrent'
    BY <1>2 DEF ReadIsCurrent
  <1>5. WindowIsLast'
    BY <1>2 DEF WindowIsLast
  <1>6. MarkTells' /\ UncleanIsReported'
    BY DEF MarkTells, UncleanIsReported
  <1> QED BY <1>1, <1>3, <1>4, <1>5, <1>6

(* The mark is read: it tells of the last session.                         *)
LEMMA MarkIsRead ==
    ASSUME SessionInv, NEW p \in Process, ReadMark(p)
    PROVE  SessionInv'
  <1> USE DEF SessionInv
  <1>1. doing[p] = "ready" /\ UNCHANGED <<guard, mark, sessions>>
    BY DEF ReadMark, Doing
  <1>2. CASE Goes(p, "refused") /\ UNCHANGED unclean
    BY <1>1, <1>2, MovesOn DEF Phases, SessionTypes
  <1>3. ASSUME NEW u \in {"unreadable", Told(mark)},
               unclean' = [unclean EXCEPT ![p] = u], Goes(p, "read")
        PROVE  SessionInv'
    <2>1. /\ \A q \in Process : doing'[q] = IF q = p THEN "read" ELSE doing[q]
          /\ \A q \in Process \ {p} : unclean'[q] = unclean[q]
          /\ unclean'[p] \in {"unreadable", Told(mark)}
          /\ unclean' \in [Process -> Answers]
      BY <1>1, <1>3 DEF SessionTypes, Told, Answers, Goes
    <2>2. SessionTypes'
      BY <1>1, <1>3, <2>1 DEF SessionTypes, Phases, Goes
    <2>3. OneAtWork'
      BY <1>1, <2>1 DEF OneAtWork
    <2>4. ReadIsCurrent'
      BY <1>1, <2>1 DEF ReadIsCurrent, Told
    <2>5. WindowIsLast'
      BY <1>1, <2>1 DEF WindowIsLast
    <2>6. MarkTells' /\ UncleanIsReported'
      BY <1>1 DEF MarkTells, Told, UncleanIsReported
    <2> QED BY <2>2, <2>3, <2>4, <2>5, <2>6
  <1> QED BY <1>2, <1>3 DEF ReadMark, Told

(* A session writes its mark, whether its window opens or its start fails: *)
(* it is told what its process has read.                                   *)
LEMMA SessionBegins ==
    ASSUME SessionInv, NEW p \in Process, WriteRunning(p)
    PROVE  SessionInv'
  <1> USE DEF SessionInv
  <1>1. doing[p] = "read" /\ UNCHANGED <<guard, unclean>>
    BY DEF WriteRunning, Doing
  <1>2. CASE Goes(p, "refused") /\ UNCHANGED <<mark, sessions>>
    BY <1>1, <1>2, MovesOn DEF Phases, SessionTypes
  <1>3. ASSUME NEW there \in {"window", "refused"}, NEW failed \in BOOLEAN,
               mark' = "RUNNING", sessions' = Append(sessions, Begun(p, failed)),
               Goes(p, there)
        PROVE  SessionInv'
    <2> DEFINE new == Begun(p, failed)
    <2>1. /\ \A q \in Process : doing'[q] = IF q = p THEN there ELSE doing[q]
          /\ doing' \in [Process -> Phases]
      BY <1>3 DEF Goes, SessionTypes, Phases
    <2>2. new \in Session /\ sessions \in Seq(Session)
      BY DEF SessionTypes, Session, Begun
    <2>3. new.process = p /\ new.reported = unclean[p] /\ new.clean = FALSE
      BY DEF Begun
    <2> HIDE DEF new
    <2>4. sessions' = Append(sessions, new)
      BY <1>3 DEF new
    <2>5. /\ sessions' \in Seq(Session) /\ Len(sessions') = Len(sessions) + 1
          /\ Len(sessions) \in Nat
          /\ sessions'[Len(sessions')] = new
          /\ \A n \in 1 .. Len(sessions) : sessions'[n] = sessions[n]
      BY <2>2, <2>4
    <2>6. sessions' # <<>>
      BY <2>5
    <2>7. SessionTypes'
      BY <1>1, <1>3, <2>1, <2>5 DEF SessionTypes
    <2>8. OneAtWork'
      BY <1>1, <2>1 DEF OneAtWork
    <2>9. \A q \in Process : doing'[q] \in {"read", "window"} => q = p
      BY <1>1, <2>1 DEF OneAtWork
    <2>10. ReadIsCurrent'
      BY <2>1, <2>9 DEF ReadIsCurrent
    <2>11. WindowIsLast'
      BY <2>3, <2>5, <2>6, <2>9 DEF WindowIsLast
    <2>12. MarkTells'
      BY <1>3, <2>3, <2>5, <2>6 DEF MarkTells, Told, TrueOf
    <2>13. /\ unclean[p] = "yes" => sessions # <<>>
           /\ sessions # <<>> => TrueOf(unclean[p], sessions[Len(sessions)])
      BY <1>1 DEF ReadIsCurrent, MarkTells, Told, TrueOf
    <2>14. UncleanIsReported'
      <3> SUFFICES ASSUME NEW n \in 1 .. Len(sessions')
                   PROVE  /\ sessions'[n].reported = "no" => n = 1 \/ sessions'[n - 1].clean
                          /\ sessions'[n].reported = "yes" =>
                                n # 1 /\ (sessions'[n - 1].clean => sessions'[n - 1].failed)
        BY DEF UncleanIsReported
      <3>1. CASE n \in 1 .. Len(sessions)
        <4>1. sessions'[n] = sessions[n]
              /\ (n # 1 => sessions'[n - 1] = sessions[n - 1])
          BY <2>5, <3>1
        <4>2. /\ sessions[n].reported = "no" => n = 1 \/ sessions[n - 1].clean
              /\ sessions[n].reported = "yes" =>
                    n # 1 /\ (sessions[n - 1].clean => sessions[n - 1].failed)
          BY <3>1 DEF UncleanIsReported
        <4> QED BY <4>1, <4>2
      <3>2. CASE n = Len(sessions')
        <4>1. sessions'[n].reported = unclean[p]
          BY <2>3, <2>5, <3>2
        <4>2. CASE sessions = <<>>
          <5>1. n = 1
            BY <2>5, <3>2, <4>2
          <5> QED BY <2>13, <4>1, <4>2, <5>1
        <4>3. CASE sessions # <<>>
          <5>1. Len(sessions) >= 1
            BY <2>2, <4>3
          <5>2. n # 1 /\ n - 1 = Len(sessions) /\ sessions'[n - 1] = sessions[n - 1]
            BY <2>5, <3>2, <5>1
          <5> QED BY <2>13, <4>1, <4>3, <5>2 DEF TrueOf
        <4> QED BY <4>2, <4>3
      <3> QED BY <2>5, <3>1, <3>2
    <2> QED BY <2>7, <2>8, <2>10, <2>11, <2>12, <2>14
  <1> QED BY <1>2, <1>3 DEF WriteRunning

(* A session ends; its mark is written, or that fails, or is not tried.    *)
LEMMA SessionEnds ==
    ASSUME SessionInv, NEW p \in Process, WindowEnds(p)
    PROVE  SessionInv'
  <1> USE DEF SessionInv
  <1>1. doing[p] = "window" /\ UNCHANGED <<guard, unclean>> /\ Goes(p, "marked")
    BY DEF WindowEnds, Doing
  <1>2. CASE UNCHANGED <<mark, sessions>>
    BY <1>1, <1>2, MovesOn DEF Phases, SessionTypes
  <1>3. ASSUME NEW failed \in BOOLEAN, EndedCleanly(p, failed),
               mark' = "CLEAN" \/ (failed /\ mark' = mark)
        PROVE  SessionInv'
    <2> DEFINE n == Len(sessions)
               ended == [sessions[n] EXCEPT !.clean = TRUE, !.failed = failed]
    <2>1. /\ sessions \in Seq(Session) /\ n \in Nat /\ n >= 1
          /\ Current(p) = n
      <3>1. sessions # <<>> /\ sessions[n].process = p /\ SessionTypes
        BY <1>1 DEF WindowIsLast
      <3> QED BY <3>1, CurrentIsLast DEF SessionTypes
    <2>2. sessions' = [sessions EXCEPT ![n] = ended]
      BY <1>3, <2>1 DEF EndedCleanly
    <2>3. sessions[n] \in Session
      BY <2>1
    <2>4. /\ ended \in Session /\ ended.clean = TRUE /\ ended.failed = failed
          /\ ended.reported = sessions[n].reported
      BY <1>3, <2>3 DEF Session
    <2> HIDE DEF ended
    <2>5. /\ sessions' \in Seq(Session) /\ Len(sessions') = n
          /\ sessions'[n] = ended
          /\ \A m \in 1 .. n : m # n => sessions'[m] = sessions[m]
      BY <2>1, <2>2, <2>4, ExceptSeq
    <2>6. sessions' # <<>>
      BY <2>1, <2>5
    <2>7. \A q \in Process : /\ doing'[q] = IF q = p THEN "marked" ELSE doing[q]
                             /\ doing'[q] \notin {"read", "window"}
      BY <1>1 DEF Goes, SessionTypes, OneAtWork
    <2> HIDE DEF n
    <2>8. SessionTypes'
      BY <1>1, <1>3, <2>5 DEF SessionTypes, Goes, Phases
    <2>9. OneAtWork'
      BY <1>1, <2>7 DEF OneAtWork
    <2>10. ReadIsCurrent' /\ WindowIsLast'
      BY <2>7 DEF ReadIsCurrent, WindowIsLast
    <2>11. TrueOf(Told(mark'), ended)
      BY <1>3, <2>4 DEF Told, TrueOf
    <2>12. MarkTells'
      BY <2>5, <2>6, <2>11 DEF MarkTells, Told, TrueOf
    <2>13. UncleanIsReported'
      <3> SUFFICES ASSUME NEW m \in 1 .. n
                   PROVE  /\ sessions'[m].reported = "no" => m = 1 \/ sessions'[m - 1].clean
                          /\ sessions'[m].reported = "yes" =>
                                m # 1 /\ (sessions'[m - 1].clean => sessions'[m - 1].failed)
        BY <2>5 DEF UncleanIsReported
      <3>1. /\ sessions[m].reported = "no" => m = 1 \/ sessions[m - 1].clean
            /\ sessions[m].reported = "yes" =>
                  m # 1 /\ (sessions[m - 1].clean => sessions[m - 1].failed)
        BY DEF UncleanIsReported, n
      <3>2. sessions'[m].reported = sessions[m].reported
        BY <2>4, <2>5
      <3>3. m # 1 => m - 1 \in 1 .. n /\ m - 1 # n
        BY <2>1
      <3>4. m # 1 => sessions'[m - 1] = sessions[m - 1]
        BY <2>5, <3>3
      <3> QED BY <3>1, <3>2, <3>4
    <2> QED BY <2>8, <2>9, <2>10, <2>12, <2>13
  <1> QED BY <1>2, <1>3 DEF WindowEnds

-----------------------------------------------------------------------------
(* The theorems                                                            *)

(* Whatever crashes or fails, the mark is of the session before, and only  *)
(* the holder of the guard reads or writes it.                             *)
THEOREM SessionInvariance == Spec => []SessionInv
  <1>1. Init => SessionInv
    <2>1. <<>> \in Seq(Session) /\ Len(<<>>) = 0
      OBVIOUS
    <2> QED BY <2>1, SessionAssumption
            DEF Init, SessionInv, SessionTypes, OneAtWork, MarkTells,
                ReadIsCurrent, WindowIsLast, UncleanIsReported, Phases,
                Answers, SessionAssumption
  <1>2. SessionInv /\ [Next]_vars => SessionInv'
    <2> SUFFICES ASSUME SessionInv, [Next]_vars
                 PROVE  SessionInv'
      OBVIOUS
    <2>1. CASE UNCHANGED vars
      BY <2>1, Aside DEF vars, process
    <2>2. ASSUME NEW p \in Process,
                 LoaderEnds(p)
          PROVE  SessionInv'
      BY <2>2, Aside DEF LoaderEnds
    <2>3. ASSUME NEW p \in Process,
                 \/ Acquire(p) \/ StartupCompletes(p) \/ StartupTimesOut(p)
                 \/ GuardReleased(p) \/ Ends(p)
          PROVE  SessionInv'
      <3>1. unclean \in [Process -> Answers] /\ UNCHANGED <<mark, sessions>>
        BY <2>3 DEF SessionInv, SessionTypes, Acquire, StartupCompletes,
                    StartupTimesOut, GuardReleased, Ends
      <3>2. CASE Acquire(p)
        BY <3>1, <3>2, MovesOn DEF Acquire, Phases
      <3>3. CASE StartupCompletes(p)
        BY <3>1, <3>3, MovesOn DEF StartupCompletes, Doing, Phases
      <3>4. CASE StartupTimesOut(p)
        BY <3>1, <3>4, MovesOn DEF StartupTimesOut, Doing, Phases
      <3>5. CASE GuardReleased(p)
        BY <3>1, <3>5, MovesOn DEF GuardReleased, Phases
      <3>6. CASE Ends(p)
        <4>1. /\ unclean' \in [Process -> Answers]
              /\ \A q \in Process \ {p} : unclean'[q] = unclean[q]
          BY <3>1, <3>6 DEF Ends, Answers
        <4> QED BY <3>1, <3>6, <4>1, MovesOn DEF Ends, Phases
      <3> QED BY <2>3, <3>2, <3>3, <3>4, <3>5, <3>6
    <2>4. ASSUME NEW p \in Process, ReadMark(p)
          PROVE  SessionInv'
      BY <2>4, MarkIsRead
    <2>5. ASSUME NEW p \in Process, WriteRunning(p)
          PROVE  SessionInv'
      BY <2>5, SessionBegins
    <2>6. ASSUME NEW p \in Process, WindowEnds(p)
          PROVE  SessionInv'
      BY <2>6, SessionEnds
    <2> QED BY <2>1, <2>2, <2>3, <2>4, <2>5, <2>6 DEF Next
  <1> QED BY <1>1, <1>2, PTL DEF Spec

(* A session is told that the one before it ended cleanly only if it did,  *)
(* and that it did not only if it did not or its mark could not be written *)
(* (start_session, mark_clean_exit, main).                                 *)
THEOREM UncleanStaysReported == Spec => []UncleanIsReported
  <1>1. SessionInv => UncleanIsReported
    BY DEF SessionInv
  <1> QED BY <1>1, SessionInvariance, PTL

-----------------------------------------------------------------------------
(* Sequences and ordered sets                                              *)

(* Induction over the naturals, for a set instead of a predicate: a least  *)
(* number outside the set would be the successor of one inside.            *)
LEMMA SetInduction ==
    ASSUME NEW T, 0 \in T, \A n \in Nat : n \in T => n + 1 \in T
    PROVE  Nat \subseteq T
  <1> SUFFICES ASSUME NEW m \in Nat, m \notin T PROVE FALSE
    OBVIOUS
  <1> DEFINE Out == {1..i : i \in (0..m) \ T}
  <1>1. IsFiniteSet(1..m)
    BY FS_Interval
  <1>2. IsWellFoundedOn(StrictSubsetOrdering(1..m), SUBSET (1..m))
    BY <1>1, FS_StrictSubsetOrderingWellFounded, FS_FiniteSubsetsOfFinite, Zenon
  <1>3. Out \subseteq SUBSET (1..m) /\ Out # {}
    <2>1. m \in (0..m) \ T
      OBVIOUS
    <2>2. \A i \in 0..m : 1..i \subseteq 1..m
      OBVIOUS
    <2> QED BY <2>1, <2>2
  <1>4. PICK X \in Out : \A Y \in Out : <<Y, X>> \notin StrictSubsetOrdering(1..m)
    BY <1>2, <1>3, WFMin
  <1>5. PICK n \in (0..m) \ T : X = 1..n
    BY <1>4
  <1>6. n # 0 /\ n - 1 \in 0..m /\ n - 1 \notin T
    BY <1>5
  <1>7. 1..(n-1) \in Out
    BY <1>6
  <1>8. 1..(n-1) \subseteq 1..n /\ 1..(n-1) # 1..n /\ 1..(n-1) \subseteq 1..m /\ 1..n \subseteq 1..m
    BY <1>5, <1>6
  <1> QED BY <1>4, <1>5, <1>7, <1>8 DEF StrictSubsetOrdering

(* The sequences joined so far, as FlattenSeq joins them.                  *)
Flattens(f, q, n) ==
    f = [i \in 1..n |-> IF i = 1 THEN q[i] ELSE f[i-1] \o q[i]]

(* The function by which FlattenSeq is defined exists.                     *)
LEMMA Flattening ==
    ASSUME NEW S, NEW q \in Seq(Seq(S))
    PROVE  \A n \in 0..Len(q) : \E f : /\ Flattens(f, q, n)
                                       /\ \A i \in 1..n : f[i] \in Seq(S)
  <1> DEFINE Good(n) == n <= Len(q) =>
                \E f : Flattens(f, q, n) /\ \A i \in 1..n : f[i] \in Seq(S)
             T == {n \in Nat : Good(n)}
  <1>1. 0 \in T
    <2>1. Flattens([i \in 1..0 |-> 0], q, 0)
      BY DEF Flattens
    <2> QED BY <2>1
  <1>2. ASSUME NEW n \in Nat, n \in T
        PROVE  n + 1 \in T
    <2> SUFFICES ASSUME n + 1 <= Len(q) PROVE Good(n + 1)
      OBVIOUS
    <2>1. PICK f : Flattens(f, q, n) /\ \A i \in 1..n : f[i] \in Seq(S)
      BY <1>2
    <2> DEFINE last == IF n = 0 THEN q[1] ELSE f[n] \o q[n + 1]
               g == [i \in 1..(n + 1) |-> IF i = n + 1 THEN last ELSE f[i]]
    <2>2. q[n + 1] \in Seq(S)
      OBVIOUS
    <2>3. last \in Seq(S)
      BY <2>1, <2>2
    <2> HIDE DEF last
    <2>4. \A i \in 1..(n+1) : g[i] \in Seq(S)
      BY <2>1, <2>3
    <2>a. \A i \in 1..n : g[i] = f[i]
      OBVIOUS
    <2>b. g[n + 1] = last
      OBVIOUS
    <2>c. \A i \in 1..n : f[i] = IF i = 1 THEN q[i] ELSE f[i-1] \o q[i]
      <3> SUFFICES ASSUME NEW i \in 1..n
                   PROVE  f[i] = IF i = 1 THEN q[i] ELSE f[i-1] \o q[i]
        OBVIOUS
      <3>1. f = [k \in 1..n |-> IF k = 1 THEN q[k] ELSE f[k-1] \o q[k]]
        BY <2>1 DEF Flattens
      <3> QED BY <3>1, Zenon
    <2>d. g = [i \in 1..(n + 1) |-> g[i]]
      OBVIOUS
    <2> HIDE DEF g
    <2>5. ASSUME NEW i \in 1..(n + 1)
          PROVE  g[i] = IF i = 1 THEN q[i] ELSE g[i-1] \o q[i]
      <3>1. CASE i = n + 1
        <4>1. CASE n = 0
          BY <3>1, <4>1, <2>b DEF last
        <4>2. CASE n # 0
          <5>1. i # 1 /\ i - 1 = n /\ n \in 1..n
            BY <3>1, <4>2
          <5> QED BY <3>1, <4>2, <5>1, <2>a, <2>b DEF last
        <4> QED BY <4>1, <4>2
      <3>2. CASE i # n + 1
        <4>1. i \in 1..n
          BY <3>2
        <4>2. CASE i = 1
          BY <4>1, <4>2, <2>a, <2>c
        <4>3. CASE i # 1
          <5>1. i - 1 \in 1..n
            BY <4>1, <4>3
          <5> QED BY <4>1, <4>3, <5>1, <2>a, <2>c
        <4> QED BY <4>2, <4>3
      <3> QED BY <3>1, <3>2
    <2>6. Flattens(g, q, n + 1)
      <3>1. [i \in 1..(n + 1) |-> g[i]] =
              [i \in 1..(n + 1) |-> IF i = 1 THEN q[i] ELSE g[i-1] \o q[i]]
        BY <2>5, Zenon
      <3> QED BY <2>d, <3>1, Zenon DEF Flattens
    <2> QED BY <2>4, <2>6
  <1> HIDE DEF T
  <1>3. Nat \subseteq T
    BY <1>1, <1>2, SetInduction
  <1> QED BY <1>3 DEF T

(* Of sequences, end to end, the elements are those of the sequences.      *)
LEMMA FlattenType ==
    ASSUME NEW S, NEW q \in Seq(Seq(S))
    PROVE  FlattenSeq(q) \in Seq(S)
  <1>1. CASE Len(q) = 0
    <2>1. q = <<>>
      BY <1>1
    <2> QED BY <1>1, <2>1 DEF FlattenSeq
  <1>2. CASE Len(q) # 0
    <2> DEFINE f == CHOOSE f : Flattens(f, q, Len(q))
    <2>0. Len(q) \in 0..Len(q) /\ Len(q) \in 1..Len(q)
      BY <1>2
    <2>1. \E g : Flattens(g, q, Len(q))
      BY Flattening, <2>0
    <2>2. Flattens(f, q, Len(q))
      BY <2>1, Zenon
    <2>3. FlattenSeq(q) = f[Len(q)]
      BY <1>2, Zenon DEF FlattenSeq, Flattens
    <2> HIDE DEF f
    <2>4. \A i \in 1..Len(q) : f[i] = IF i = 1 THEN q[i] ELSE f[i-1] \o q[i]
      <3> SUFFICES ASSUME NEW i \in 1..Len(q)
                   PROVE  f[i] = IF i = 1 THEN q[i] ELSE f[i-1] \o q[i]
        OBVIOUS
      <3>1. f = [k \in 1..Len(q) |-> IF k = 1 THEN q[k] ELSE f[k-1] \o q[k]]
        BY <2>2 DEF Flattens
      <3> QED BY <3>1, Zenon
    <2> DEFINE T == {n \in Nat : n \in 1..Len(q) => f[n] \in Seq(S)}
    <2>5. 0 \in T
      OBVIOUS
    <2>6. ASSUME NEW n \in Nat, n \in T
          PROVE  n + 1 \in T
      <3> SUFFICES ASSUME n + 1 \in 1..Len(q) PROVE f[n + 1] \in Seq(S)
        OBVIOUS
      <3>1. q[n + 1] \in Seq(S)
        OBVIOUS
      <3>2. CASE n = 0
        BY <2>4, <3>1, <3>2
      <3>3. CASE n # 0
        <4>1. f[n] \in Seq(S)
          BY <2>6, <3>3
        <4>2. n + 1 # 1 /\ (n + 1) - 1 = n
          BY <3>3
        <4>3. f[n + 1] = f[n] \o q[n + 1]
          BY <2>4, <4>2
        <4> QED BY <3>1, <4>1, <4>3
      <3> QED BY <3>2, <3>3
    <2> HIDE DEF T
    <2>7. Nat \subseteq T
      BY <2>5, <2>6, SetInduction
    <2> QED BY <2>0, <2>3, <2>7 DEF T
  <1> QED BY <1>1, <1>2

(* A finite set of numbers in its order.                                   *)
LEMMA OrderedType ==
    ASSUME NEW S \in SUBSET Nat, IsFiniteSet(S)
    PROVE  /\ Cardinality(S) \in Nat
           /\ Ordered(S) \in [1..Cardinality(S) -> S]
  <1> DEFINE below(x) == {y \in S : y <= x}
             n == Cardinality(S)
             r == [x \in S |-> Cardinality(below(x))]
  <1>1. n \in Nat
    BY FS_CardinalityType
  <1>2. ASSUME NEW x \in S
        PROVE  /\ IsFiniteSet(below(x)) /\ r[x] \in 1..n
               /\ r[x] = Cardinality(below(x))
    <2>1. IsFiniteSet(below(x)) /\ Cardinality(below(x)) <= n
      BY FS_Subset, Zenon
    <2>2. Cardinality(below(x)) \in Nat
      BY <2>1, FS_CardinalityType
    <2>3. x \in below(x)
      OBVIOUS
    <2>4. Cardinality(below(x)) # 0
      BY <2>1, <2>3, FS_EmptySet
    <2> QED BY <2>1, <2>2, <2>4, <1>1
  <1>3. ASSUME NEW x \in S, NEW y \in S, x < y
        PROVE  r[x] < r[y]
    <2>0. x \in Nat /\ y \in Nat /\ S \subseteq Nat
      OBVIOUS
    <2>1. below(x) \subseteq below(y)
      <3> SUFFICES ASSUME NEW z \in S, z <= x PROVE z <= y
        OBVIOUS
      <3>1. z \in Nat
        BY <2>0
      <3> QED BY <1>3, <2>0, <3>1
    <2>a. y \in below(y) /\ y \notin below(x)
      BY <1>3, <2>0
    <2>2. Cardinality(below(x)) <= Cardinality(below(y))
          /\ (Cardinality(below(x)) = Cardinality(below(y)) => below(x) = below(y))
      BY <2>1, <1>2, FS_Subset, Zenon
    <2>3. r[x] # r[y] /\ r[x] <= r[y]
      BY <1>2, <2>a, <2>2
    <2> QED BY <1>2, <1>1, <2>3
  <1> HIDE DEF r, below
  <1>4. r \in Injection(S, 1..n)
    <2>1. r \in [S -> 1..n]
      BY <1>2 DEF r
    <2>2. \A x, y \in S : x < y \/ x = y \/ y < x
      OBVIOUS
    <2>3. \A x, y \in S : r[x] = r[y] => x = y
      BY <1>1, <1>2, <1>3, <2>2
    <2> QED BY <2>1, <2>3, Fun_IsInj
  <1>5. IsFiniteSet(1..n) /\ Cardinality(1..n) = n
    BY <1>1, FS_Interval
  <1>6. \A i \in 1..n : \E x \in S : r[x] = i
    <2>1. r \in Surjection(S, 1..n)
      BY <1>4, <1>5, FS_Injection, Zenon
    <2> QED BY <2>1, Fun_SurjectionProperties, Zenon
  <1> DEFINE q == [i \in 1..n |-> CHOOSE x \in S : r[x] = i]
  <1>7. \A i \in 1..n : q[i] \in S /\ r[q[i]] = i
    BY <1>6
  <1>8. q \in [1..n -> S]
    BY <1>7
  <1> HIDE DEF q
  <1>9. \A i, j \in DOMAIN q : i < j => q[i] < q[j]
    <2> SUFFICES ASSUME NEW i \in 1..n, NEW j \in 1..n, i < j
                 PROVE  q[i] < q[j]
      BY <1>8
    <2>1. q[i] \in S /\ q[j] \in S /\ r[q[i]] = i /\ r[q[j]] = j
      BY <1>7
    <2>0. i \in Nat /\ j \in Nat /\ q[i] \in Nat /\ q[j] \in Nat
      <3>1. \A k \in 1..n : k \in Nat
        BY <1>1
      <3>2. \A x \in S : x \in Nat
        OBVIOUS
      <3> QED BY <2>1, <3>1, <3>2, Zenon
    <2> HIDE DEF n
    <2>2. ASSUME q[j] < q[i] PROVE FALSE
      <3>1. r[q[j]] < r[q[i]]
        BY <1>3, <2>1, <2>2
      <3> QED BY <2>0, <2>1, <3>1
    <2>3. q[i] # q[j]
      BY <2>0, <2>1
    <2> QED BY <2>0, <2>2, <2>3
  <1> QED BY <1>1, <1>8, <1>9, Zenon DEF Ordered

-----------------------------------------------------------------------------
(* Rows                                                                    *)

Row == [flow : Nat, at : Nat, count : Nat, growth : Nat]

(* Rows whose growth is that since these counters.                         *)
RowsFor(before) ==
    {row \in Row : row.growth # NoGrowth =>
        /\ <<row.flow, row.at>> \in DOMAIN before
        /\ before[<<row.flow, row.at>>] + row.growth = row.count}

Counts(before) == \A key \in DOMAIN before : before[key] \in Nat

(* The growth of a count is that since the one before, if it is shown.     *)
LEMMA GrowthOK ==
    ASSUME NEW before, Counts(before), NEW flow \in Nat, NEW at \in Nat,
           NEW count \in Nat
    PROVE  [flow |-> flow, at |-> at, count |-> count,
            growth |-> Growth(before, <<flow, at>>, count)] \in RowsFor(before)
  <1> DEFINE key == <<flow, at>>
             growth == Growth(before, key, count)
             row == [flow |-> flow, at |-> at, count |-> count, growth |-> growth]
  <1>1. NoGrowth \in Nat
    BY ResultTableAssumption DEF NoGrowth
  <1>2. growth \in Nat /\ (growth # NoGrowth =>
            key \in DOMAIN before /\ before[key] + growth = count)
    <2>1. CASE key \notin DOMAIN before
      BY <1>1, <2>1 DEF Growth
    <2>2. CASE key \in DOMAIN before
      <3>1. before[key] \in Nat
        BY <2>2 DEF Counts
      <3>2. growth = IF count < before[key] THEN NoGrowth ELSE count - before[key]
        BY <2>2 DEF Growth
      <3> HIDE DEF key, growth
      <3> QED BY <1>1, <2>2, <3>1, <3>2
    <2> QED BY <2>1, <2>2
  <1> HIDE DEF growth
  <1>3. row \in Row /\ row.flow = flow /\ row.at = at /\ row.count = count
        /\ row.growth = growth
    BY <1>2 DEF Row
  <1>4. row \in RowsFor(before)
    <2> HIDE DEF row
    <2> QED BY <1>2, <1>3 DEF RowsFor
  <1> QED BY <1>4 DEF growth

(* A row that was kept shows no growth.                                    *)
LEMMA KeptRowOK ==
    ASSUME NEW before, NEW monitored, NEW o \in Outcomes(monitored),
           NEW f \in Flows, o[f].kept # <<>>
    PROVE  KeptRow(o, f) \in RowsFor(before)
  <1>1. o[f] \in Reports(f, monitored)
    BY DEF Outcomes
  <1>2. o[f].kept \in Asked[f] \X (1..MaxCount)
    BY <1>1 DEF Reports
  <1>3. o[f].kept[1] \in Nat /\ o[f].kept[2] \in Nat
    BY <1>2, ResultTableAssumption
  <1>4. f \in Nat /\ NoGrowth \in Nat
    BY ResultTableAssumption DEF NoGrowth
  <1>5. KeptRow(o, f) \in Row
    BY <1>3, <1>4 DEF KeptRow, Row
  <1> QED BY <1>5 DEF KeptRow, RowsFor

(* The rows of a flow that was observed.                                   *)
LEMMA ObservedRowsOK ==
    ASSUME NEW before, Counts(before), NEW monitored,
           NEW o \in Outcomes(monitored), NEW f \in Flows
    PROVE  ObservedRows(o, before, f) \in Seq(RowsFor(before))
  <1> DEFINE seen == Observed(o, f)
             n == Cardinality(seen)
  <1>1. o[f] \in Reports(f, monitored)
    BY DEF Outcomes
  <1>2. \A c \in Asked[f] : o[f].observed[c] \in Nat
    <2>0. MaxCount \in Nat /\ [c \in Asked[f] |-> 0] \in [Asked[f] -> 0..MaxCount]
      BY ResultTableAssumption
    <2>1. o[f].observed \in [Asked[f] -> 0..MaxCount]
      <3>1. CASE o[f] \in [observed : [Asked[f] -> 0..MaxCount], kept : {<<>>},
                           closed : {FALSE}]
        BY <3>1
      <3>2. CASE o[f] \in [observed : {[c \in Asked[f] |-> 0]},
                           kept : Asked[f] \X (1..MaxCount), closed : BOOLEAN]
        BY <2>0, <3>2, Zenon
      <3> QED BY <1>1, <3>1, <3>2, Zenon DEF Reports
    <2> QED BY <2>1, ResultTableAssumption
  <1>3. Asked[f] \in SUBSET Nat /\ IsFiniteSet(Asked[f]) /\ f \in Nat
    BY ResultTableAssumption
  <1>4. seen \subseteq Asked[f]
    BY DEF Observed
  <1>5. seen \in SUBSET Nat /\ IsFiniteSet(seen)
    BY <1>3, <1>4, FS_Subset
  <1>6. n \in Nat /\ Ordered(seen) \in [1..n -> seen]
    BY <1>5, OrderedType
  <1> DEFINE row(i) == [flow |-> f, at |-> Ordered(seen)[i],
                        count |-> o[f].observed[Ordered(seen)[i]],
                        growth |-> Growth(before, <<f, Ordered(seen)[i]>>,
                                          o[f].observed[Ordered(seen)[i]])]
  <1>7. ObservedRows(o, before, f) = [i \in 1..n |-> row(i)]
    BY Zenon DEF ObservedRows
  <1> HIDE DEF seen, n
  <1>8. ASSUME NEW i \in 1..n PROVE row(i) \in RowsFor(before)
    <2>1. Ordered(seen)[i] \in seen
      BY <1>6
    <2>2. /\ Ordered(seen)[i] \in Nat
          /\ o[f].observed[Ordered(seen)[i]] \in Nat
      BY <2>1, <1>2, <1>3, <1>4
    <2> QED BY <1>3, <2>2, GrowthOK
  <1> HIDE DEF row
  <1>9. [i \in 1..n |-> row(i)] \in [1..n -> RowsFor(before)]
    BY <1>8
  <1> QED BY <1>6, <1>7, <1>9, SeqDef

(* The rows of active flows, in the order of the flows.                    *)
LEMMA ActiveRowsOK ==
    ASSUME NEW before, Counts(before), NEW monitored,
           NEW o \in Outcomes(monitored)
    PROVE  ActiveRows(o, before) \in Seq(RowsFor(before))
  <1> DEFINE n == Cardinality(Flows)
             of(i) == IF Ordered(Flows)[i] \in Unobserved(o)
                      THEN <<KeptRow(o, Ordered(Flows)[i])>>
                      ELSE ObservedRows(o, before, Ordered(Flows)[i])
             parts == [i \in 1..n |-> of(i)]
  <1>1. n \in Nat /\ Ordered(Flows) \in [1..n -> Flows]
    BY OrderedType, ResultTableAssumption
  <1>2. ActiveRows(o, before) = FlattenSeq(parts)
    BY Zenon DEF ActiveRows
  <1> HIDE DEF n
  <1>3. ASSUME NEW i \in 1..n PROVE of(i) \in Seq(RowsFor(before))
    <2>1. Ordered(Flows)[i] \in Flows
      BY <1>1
    <2>2. CASE Ordered(Flows)[i] \in Unobserved(o)
      <3>1. o[Ordered(Flows)[i]].kept # <<>>
        BY <2>2 DEF Unobserved
      <3>2. KeptRow(o, Ordered(Flows)[i]) \in RowsFor(before)
        BY <2>1, <3>1, KeptRowOK
      <3> QED BY <2>2, <3>2
    <2>3. CASE Ordered(Flows)[i] \notin Unobserved(o)
      BY <2>1, <2>3, ObservedRowsOK
    <2> QED BY <2>2, <2>3
  <1> HIDE DEF of
  <1>4. parts \in [1..n -> Seq(RowsFor(before))]
    BY <1>3
  <1>5. parts \in Seq(Seq(RowsFor(before)))
    BY <1>1, <1>4, SeqDef
  <1> HIDE DEF parts
  <1> QED BY <1>2, <1>5, FlattenType

(* The rows of flows that were found closed.                               *)
LEMMA ClosedRowsOK ==
    ASSUME NEW before, NEW monitored, NEW o \in Outcomes(monitored)
    PROVE  ClosedRows(o) \in Seq(RowsFor(before))
  <1> DEFINE n == Cardinality(Closed(o))
             row(i) == KeptRow(o, Ordered(Closed(o))[i])
  <1>1. Closed(o) \subseteq Flows
    BY DEF Closed
  <1>2. Closed(o) \in SUBSET Nat /\ IsFiniteSet(Closed(o))
    BY <1>1, ResultTableAssumption, FS_Subset
  <1>3. n \in Nat /\ Ordered(Closed(o)) \in [1..n -> Closed(o)]
    BY <1>2, OrderedType
  <1>4. ClosedRows(o) = [i \in 1..n |-> row(i)]
    BY Zenon DEF ClosedRows
  <1> HIDE DEF n
  <1>5. ASSUME NEW i \in 1..n PROVE row(i) \in RowsFor(before)
    <2> DEFINE f == Ordered(Closed(o))[i]
    <2>1. f \in Closed(o)
      BY <1>3
    <2> HIDE DEF f
    <2>2. f \in Flows /\ o[f].closed
      BY <2>1 DEF Closed
    <2>3. o[f].kept # <<>>
      <3>1. o[f] \in Reports(f, monitored)
        BY <2>2 DEF Outcomes
      <3>2. o[f].kept \in Asked[f] \X (1..MaxCount)
        <4>1. o[f] \notin [observed : [Asked[f] -> 0..MaxCount], kept : {<<>>},
                           closed : {FALSE}]
          BY <2>2
        <4>2. o[f] \in [observed : {[c \in Asked[f] |-> 0]},
                        kept : Asked[f] \X (1..MaxCount), closed : BOOLEAN]
          BY <3>1, <4>1, Zenon DEF Reports
        <4> QED BY <4>2
      <3>3. PICK at \in Asked[f], k \in 1..MaxCount : o[f].kept = <<at, k>>
        BY <3>2
      <3>4. <<at, k>> # <<>>
        OBVIOUS
      <3> QED BY <3>3, <3>4, Zenon
    <2>4. KeptRow(o, f) \in RowsFor(before)
      BY <2>2, <2>3, KeptRowOK
    <2> QED BY <2>4 DEF f
  <1> HIDE DEF row
  <1>6. [i \in 1..n |-> row(i)] \in [1..n -> RowsFor(before)]
    BY <1>5
  <1> QED BY <1>3, <1>4, <1>6, SeqDef

(* What is prepared: rows that grow since these counters, and the counters *)
(* of rows that are shown.                                                 *)
LEMMA PreparedOK ==
    ASSUME NEW before, Counts(before), NEW monitored,
           NEW o \in Outcomes(monitored)
    PROVE  /\ Prepared(o, before).rows \in Seq(RowsFor(before))
           /\ Counts(Prepared(o, before).counters)
           /\ \A key \in DOMAIN Prepared(o, before).counters :
                 \E j \in DOMAIN Prepared(o, before).rows :
                    LET row == Prepared(o, before).rows[j]
                    IN  /\ row.flow = key[1] /\ row.at = key[2]
                        /\ row.count = Prepared(o, before).counters[key]
  <1> DEFINE active == ActiveRows(o, before)
             all == IF active = <<>> THEN <<>> ELSE active \o ClosedRows(o)
             keys == {<<active[i].flow, active[i].at>> : i \in DOMAIN active}
             row(key) == CHOOSE i \in DOMAIN active :
                            <<active[i].flow, active[i].at>> = key
             count == [key \in keys |-> active[row(key)].count]
  <1>1. active \in Seq(RowsFor(before)) /\ ClosedRows(o) \in Seq(RowsFor(before))
    BY ActiveRowsOK, ClosedRowsOK
  <1>2. Prepared(o, before) = [rows |-> all, counters |-> count]
    BY Zenon DEF Prepared
  <1> HIDE DEF active
  <1>3. all \in Seq(RowsFor(before))
    BY <1>1
  <1>4. \A i \in DOMAIN active : i \in DOMAIN all /\ all[i] = active[i]
    BY <1>1
  <1>5. ASSUME NEW key \in keys
        PROVE  /\ row(key) \in DOMAIN active
               /\ active[row(key)].flow = key[1] /\ active[row(key)].at = key[2]
    <2>1. \E i \in DOMAIN active : <<active[i].flow, active[i].at>> = key
      OBVIOUS
    <2>2. /\ row(key) \in DOMAIN active
          /\ <<active[row(key)].flow, active[row(key)].at>> = key
      BY <2>1, Zenon
    <2> HIDE DEF row
    <2> QED BY <2>2
  <1>6. DOMAIN count = keys /\ \A key \in keys : count[key] = active[row(key)].count
    OBVIOUS
  <1> HIDE DEF all, keys, row, count
  <1>7. \A key \in keys : active[row(key)].count \in Nat
    <2>1. \A i \in DOMAIN active : active[i] \in RowsFor(before)
      BY <1>1
    <2> QED BY <1>5, <2>1 DEF RowsFor, Row
  <1>8. Counts(count)
    BY <1>6, <1>7 DEF Counts
  <1>9. \A key \in DOMAIN count : \E j \in DOMAIN all :
            all[j].flow = key[1] /\ all[j].at = key[2] /\ all[j].count = count[key]
    BY <1>4, <1>5, <1>6
  <1>10. Prepared(o, before).rows = all /\ Prepared(o, before).counters = count
    BY <1>2
  <1> QED BY <1>3, <1>8, <1>9, <1>10

(* A chunk and what is left after it are the rows there were.              *)
LEMMA Chunks ==
    ASSUME NEW S, NEW q \in Seq(S), NEW n \in Nat
    PROVE  /\ Upto(q, n) \in Seq(S) /\ After(q, n) \in Seq(S)
           /\ Upto(q, n) \o After(q, n) = q
           /\ Len(Upto(q, n)) = IF n < Len(q) THEN n ELSE Len(q)
           /\ \A i \in 1..Len(Upto(q, n)) : i \in 1..Len(q) /\ Upto(q, n)[i] = q[i]
           /\ After(q, n) = <<>> => Upto(q, n) = q
  <1> DEFINE m == IF n < Len(q) THEN n ELSE Len(q)
  <1>1. Len(q) \in Nat /\ m \in Nat /\ m <= Len(q)
    OBVIOUS
  <1>2. /\ Upto(q, n) \in Seq(S) /\ Len(Upto(q, n)) = m
        /\ \A i \in 1..m : Upto(q, n)[i] = q[i]
    BY <1>1 DEF Upto
  <1>3. /\ After(q, n) \in Seq(S)
        /\ Len(After(q, n)) = IF n + 1 <= Len(q) THEN Len(q) - n ELSE 0
        /\ \A i \in 1..Len(After(q, n)) : After(q, n)[i] = q[n + i]
    BY <1>1 DEF After
  <1>4. Upto(q, n) \o After(q, n) = q
    <2> DEFINE u == Upto(q, n)
               a == After(q, n)
    <2>1. u \in Seq(S) /\ a \in Seq(S) /\ u \o a \in Seq(S)
      BY <1>2, <1>3
    <2> HIDE DEF u, a
    <2>2. Len(u \o a) = Len(q)
      BY <1>1, <1>2, <1>3, <2>1 DEF u, a
    <2>3. ASSUME NEW i \in 1..Len(q) PROVE (u \o a)[i] = q[i]
      <3>1. CASE i \in 1..m
        <4>1. u[i] = q[i] /\ Len(u) = m
          BY <1>2, <3>1 DEF u
        <4> QED BY <2>1, <3>1, <4>1
      <3>2. CASE i \notin 1..m
        <4>1. i > m /\ i - m \in 1..Len(a) /\ Len(u) = m /\ m = n
          BY <1>1, <1>2, <1>3, <3>2 DEF u, a
        <4>2. a[i - m] = q[n + (i - m)]
          BY <1>3, <4>1 DEF a
        <4>3. (u \o a)[i] = a[i - m]
          BY <2>1, <4>1, <1>1
        <4>4. n + (i - m) = i
          BY <1>1, <4>1
        <4> HIDE DEF m
        <4>5. q[n + (i - m)] = q[i]
          BY <4>4
        <4> QED BY <4>2, <4>3, <4>5
      <3> QED BY <3>1, <3>2
    <2> DEFINE v == u \o a
    <2> HIDE DEF v
    <2>4. v = q
      <3>1. v \in Seq(S) /\ Len(v) = Len(q) /\ \A i \in 1..Len(v) : v[i] = q[i]
        BY <2>1, <2>2, <2>3 DEF v
      <3> QED BY <3>1, SeqEqual
    <2> QED BY <2>4 DEF u, a, v
  <1>5. After(q, n) = <<>> => Upto(q, n) = q
    BY <1>2, <1>4
  <1> QED BY <1>1, <1>2, <1>3, <1>4, <1>5

-----------------------------------------------------------------------------
(* The invariant                                                           *)

TableTypes ==
    /\ rows \in Seq(Row) /\ table \in Seq(Row) /\ pending \in Seq(Row)
    /\ total \in Nat /\ generation \in Nat

(* Counters that a poll may be given are those of rows that are shown, in  *)
(* this run.                                                               *)
Shown(before) ==
    /\ Counts(before)
    /\ before # <<>> => rowsRun = queryRun
    /\ total > Len(rows) \/ \A key \in DOMAIN before :
           \E j \in DOMAIN rows :
               /\ rows[j].flow = key[1] /\ rows[j].at = key[2]
               /\ rows[j].count = before[key]

TableInv ==
    /\ TableTypes /\ TableIsOneOutcome
    /\ Shown(counters) /\ Shown(query.counters)

(* The empty table.                                                        *)
LEMMA TableStarts == ResultInit => TableInv
  <1> SUFFICES ASSUME ResultInit PROVE TableInv
    OBVIOUS
  <1>1. TableTypes
    BY DEF ResultInit, TableTypes
  <1>2. Filtered(<<>>, NoFilter) = {}
    BY DEF Filtered
  <1>3. TableIsOneOutcome
    BY <1>2 DEF ResultInit, TableIsOneOutcome
  <1>4. counters = <<>> /\ query.counters = <<>> /\ DOMAIN <<>> = {}
    BY DEF ResultInit, NoQuery
  <1> QED BY <1>1, <1>3, <1>4 DEF TableInv, Shown, Counts

(* A filter applied to a table, to itself or with rows added to it.        *)
LEMMA FiltersApply ==
    ASSUME TableTypes, TableIsOneOutcome, NEW f, filter' = f, table' \in Seq(Row),
           \A i \in DOMAIN table : i \in DOMAIN table' /\ table'[i] = table[i],
           table' \o pending' = rows', ApplyFilters(table', f)
    PROVE  TableIsOneOutcome'
  <1>1. hidden' = Filtered(table', filter')
    BY DEF ApplyFilters
  <1>2. raw' = NoRow \/ (current' \in DOMAIN table' \ hidden' /\ raw' = table'[current'])
    <2>1. CASE current \in hidden'
      BY <2>1 DEF ApplyFilters
    <2>2. CASE current \notin hidden'
      <3>1. current' = current /\ raw' = raw
        BY <2>2 DEF ApplyFilters
      <3> QED BY <2>2, <3>1 DEF TableIsOneOutcome
    <2> QED BY <2>1, <2>2
  <1>3. caption' = [visible |-> Len(table') - Cardinality(hidden'),
                    loaded |-> Len(table')]
    BY DEF ApplyFilters
  <1> QED BY <1>1, <1>2, <1>3 DEF TableIsOneOutcome

(* What no query changes stays.                                            *)
LEMMA SameTable ==
    ASSUME TableInv, UNCHANGED tableVars
    PROVE  /\ TableTypes' /\ table' \in Seq(Row) /\ table' \o pending' = rows'
           /\ \A i \in DOMAIN table : i \in DOMAIN table' /\ table'[i] = table[i]
  <1>1. TableTypes' /\ table' = table /\ pending' = pending /\ rows' = rows
        /\ total' = total /\ rowsRun' = rowsRun
    BY DEF TableInv, TableTypes, tableVars
  <1> QED BY <1>1 DEF TableInv, TableTypes, TableIsOneOutcome, Shown, Counts

(* One more chunk.                                                         *)
LEMMA TickKeeps == ASSUME TableInv, RenderTick PROVE TableInv'
  <1>1. /\ query' = query /\ counters' = counters /\ rows' = rows
        /\ total' = total /\ filter' = filter /\ generation' = generation
        /\ queryRun' = queryRun /\ rowsRun' = rowsRun
    BY DEF RenderTick
  <1>2. /\ Upto(pending, ChunkRows) \in Seq(Row) /\ pending' \in Seq(Row)
        /\ Upto(pending, ChunkRows) \o pending' = pending
        /\ table' = table \o Upto(pending, ChunkRows)
    <2>1. pending \in Seq(Row) /\ ChunkRows \in Nat
      BY ResultTableAssumption DEF TableInv, TableTypes
    <2>2. /\ pending' = After(pending, ChunkRows)
          /\ table' = table \o Upto(pending, ChunkRows)
      BY DEF RenderTick, Render
    <2> QED BY <2>1, <2>2, Chunks
  <1>3. table \in Seq(Row) /\ table' \in Seq(Row)
    BY <1>2 DEF TableInv, TableTypes
  <1>4. \A i \in DOMAIN table : i \in DOMAIN table' /\ table'[i] = table[i]
    BY <1>2, <1>3
  <1>5. table' \o pending' = rows'
    <2>1. table' \o pending' = table \o (Upto(pending, ChunkRows) \o pending')
      <3>1. (table \o Upto(pending, ChunkRows)) \o pending'
                = table \o (Upto(pending, ChunkRows) \o pending')
        <4>1. \A a, b, c \in Seq(Row) : (a \o b) \o c = a \o (b \o c)
          BY ConcatAssociative
        <4>2. /\ table \in Seq(Row) /\ pending' \in Seq(Row)
              /\ Upto(pending, ChunkRows) \in Seq(Row)
          BY <1>2, <1>3, Zenon
        <4> QED BY <4>1, <4>2, Zenon
      <3> QED BY <1>2, <3>1, Zenon
    <2>2. table \o pending = rows
      BY DEF TableInv, TableIsOneOutcome
    <2> QED BY <1>1, <1>2, <2>1, <2>2, Zenon
  <1>6. TableTypes'
    BY <1>1, <1>2, <1>3 DEF TableInv, TableTypes
  <1>7. TableIsOneOutcome'
    <2>1. CASE pending' = <<>>
      <3>1. ApplyFilters(table', filter)
        BY <2>1 DEF RenderTick, Render
      <3> QED BY <1>1, <1>3, <1>4, <1>5, <3>1, FiltersApply DEF TableInv
    <2>2. CASE pending' # <<>>
      <3>1. hidden' = Filtered(table', filter) /\ current' = current /\ raw' = raw
        BY <2>2 DEF RenderTick, Render
      <3>2. raw = NoRow \/ (current \in DOMAIN table \ Filtered(table, filter)
                            /\ raw = table[current])
        BY DEF TableInv, TableIsOneOutcome
      <3>3. \A i \in DOMAIN table \ Filtered(table, filter) :
                i \in DOMAIN table' \ Filtered(table', filter)
        BY <1>4 DEF Filtered
      <3>4. raw' = NoRow \/ (current' \in DOMAIN table' \ hidden'
                             /\ raw' = table'[current'])
        BY <1>4, <3>1, <3>2, <3>3
      <3> QED BY <1>1, <1>5, <2>2, <3>1, <3>4 DEF TableIsOneOutcome
    <2> QED BY <2>1, <2>2
  <1>8. Shown(counters)' /\ Shown(query.counters)'
    BY <1>1 DEF TableInv, Shown, Counts
  <1> QED BY <1>6, <1>7, <1>8 DEF TableInv

(* An outcome takes the place of what was shown, and its counters are those *)
(* of its rows.                                                            *)
LEMMA OutcomeShows ==
    ASSUME TableInv, NEW monitored, NEW o \in Outcomes(monitored), NEW goesOn,
           ShowOutcome(Prepared(o, query.counters), goesOn),
           filter' = filter, queryRun' = queryRun, query' = NoQuery
    PROVE  TableInv'
  <1> DEFINE p == Prepared(o, query.counters)
             shown == Upto(p.rows, VisibleRows)
  <1>1. /\ p.rows \in Seq(RowsFor(query.counters)) /\ Counts(p.counters)
        /\ \A key \in DOMAIN p.counters : \E j \in DOMAIN p.rows :
              /\ p.rows[j].flow = key[1] /\ p.rows[j].at = key[2]
              /\ p.rows[j].count = p.counters[key]
    BY PreparedOK DEF TableInv, Shown
  <1>2. p.rows \in Seq(Row)
    <2>1. RowsFor(query.counters) \subseteq Row
      BY DEF RowsFor
    <2> QED BY <1>1, <2>1, SeqMonotonic, Zenon
  <1>3. /\ rows' = shown /\ total' = Len(p.rows)
        /\ table' = Upto(shown, ChunkRows) /\ pending' = After(shown, ChunkRows)
        /\ hidden' = Filtered(table', filter)
        /\ caption' = IF filter = NoFilter
                      THEN [visible |-> Len(shown), loaded |-> Len(table')]
                      ELSE [visible |-> Len(table') - Cardinality(hidden'),
                            loaded |-> Len(table')]
        /\ raw' = NoRow /\ counters' = (IF goesOn THEN p.counters ELSE <<>>)
        /\ generation' = generation + 1 /\ rowsRun' = queryRun
    BY DEF ShowOutcome
  <1> HIDE DEF p
  <1>4. /\ VisibleRows \in Nat /\ ChunkRows \in Nat
        /\ NoFilter = <<>> /\ generation \in Nat
    BY ResultTableAssumption DEF NoFilter, TableInv, TableTypes
  <1>5. /\ shown \in Seq(Row)
        /\ Len(shown) = IF VisibleRows < Len(p.rows) THEN VisibleRows ELSE Len(p.rows)
        /\ \A i \in 1..Len(shown) : shown[i] = p.rows[i]
    BY <1>2, <1>4, Chunks
  <1> HIDE DEF shown
  <1>6. /\ table' \in Seq(Row) /\ pending' \in Seq(Row) /\ table' \o pending' = shown
        /\ pending' = <<>> => table' = shown
    BY <1>3, <1>4, <1>5, Chunks
  <1>7. TableTypes'
    BY <1>2, <1>3, <1>4, <1>5, <1>6 DEF TableTypes
  <1>8. TableIsOneOutcome'
    <2>1. ASSUME pending' = <<>>
          PROVE  caption' = [visible |-> Len(table') - Cardinality(hidden'),
                             loaded |-> Len(table')]
      <3>1. CASE filter = NoFilter
        <4>1. hidden' = {}
          BY <1>3, <3>1 DEF Filtered, Passes
        <4>2. Cardinality(hidden') = 0
          BY <4>1, FS_EmptySet, Zenon
        <4>3. Len(table') = Len(shown) /\ Len(table') \in Nat
          BY <1>6, <2>1
        <4>4. Len(table') - Cardinality(hidden') = Len(shown)
          BY <4>2, <4>3
        <4> QED BY <1>3, <3>1, <4>4, Zenon
      <3>2. CASE filter # NoFilter
        BY <1>3, <3>2, Zenon
      <3> QED BY <3>1, <3>2
    <2> QED BY <1>3, <1>6, <2>1, Zenon DEF TableIsOneOutcome
  <1>9. Shown(counters)'
    <2>1. CASE goesOn
      <3>1. total' > Len(rows') \/ \A key \in DOMAIN p.counters :
                \E j \in DOMAIN rows' :
                    /\ rows'[j].flow = key[1] /\ rows'[j].at = key[2]
                    /\ rows'[j].count = p.counters[key]
        <4>1. CASE VisibleRows < Len(p.rows)
          BY <1>2, <1>3, <1>4, <1>5, <4>1
        <4>2. CASE ~ (VisibleRows < Len(p.rows))
          <5>1. DOMAIN shown = DOMAIN p.rows
            BY <1>2, <1>5, <4>2
          <5>2. DOMAIN shown = 1..Len(shown)
            BY <1>5
          <5>3. ASSUME NEW key \in DOMAIN p.counters
                PROVE  \E j \in DOMAIN rows' :
                          /\ rows'[j].flow = key[1] /\ rows'[j].at = key[2]
                          /\ rows'[j].count = p.counters[key]
            <6>1. PICK j \in DOMAIN p.rows :
                      /\ p.rows[j].flow = key[1] /\ p.rows[j].at = key[2]
                      /\ p.rows[j].count = p.counters[key]
              BY <1>1
            <6>2. j \in DOMAIN rows' /\ rows'[j] = p.rows[j]
              BY <1>3, <1>5, <5>1, <5>2, Zenon
            <6> QED BY <6>1, <6>2
          <5> QED BY <5>3
        <4> QED BY <4>1, <4>2
      <3>2. counters' = p.counters
        BY <1>3, <2>1
      <3> QED BY <1>1, <1>3, <3>1, <3>2, Zenon DEF Shown, Counts
    <2>2. CASE ~ goesOn
      <3>1. counters' = <<>> /\ DOMAIN <<>> = {}
        BY <1>3, <2>2
      <3> QED BY <3>1, Zenon DEF Shown, Counts
    <2> QED BY <2>1, <2>2
  <1>10. Shown(query.counters)'
    <2>1. query'.counters = <<>> /\ DOMAIN <<>> = {}
      BY DEF NoQuery
    <2> QED BY <2>1, Zenon DEF Shown, Counts
  <1> QED BY <1>7, <1>8, <1>9, <1>10 DEF TableInv

(* What StartQueryRun, StopMonitoring, polls and the user do to the table  *)
(* at the most is to filter it anew.                                       *)
LEMMA OthersKeep ==
    ASSUME TableInv, UNCHANGED tableVars,
           \/ UNCHANGED <<hidden, filter, current, raw, caption>>
           \/ \E f : filter' = f /\ ApplyFilters(table, f)
           \/ /\ UNCHANGED <<hidden, filter, caption>>
              /\ \E i \in DOMAIN table \ hidden : current' = i /\ raw' = table[i],
           \/ counters' = <<>> \/ (queryRun' = queryRun /\ counters' = counters),
           \/ query'.counters = <<>>
           \/ /\ queryRun' = queryRun
              /\ query'.counters \in {query.counters, counters}
    PROVE  TableInv'
  <1>1. /\ TableTypes' /\ table' \in Seq(Row) /\ table' \o pending' = rows'
        /\ \A i \in DOMAIN table : i \in DOMAIN table' /\ table'[i] = table[i]
    BY SameTable
  <1>2. /\ table' = table /\ pending' = pending /\ generation' = generation
        /\ rows' = rows /\ total' = total /\ rowsRun' = rowsRun
    BY DEF tableVars
  <1>3. TableIsOneOutcome'
    <2>1. CASE UNCHANGED <<hidden, filter, current, raw, caption>>
      BY <1>1, <1>2, <2>1 DEF TableInv, TableIsOneOutcome
    <2>2. CASE \E f : filter' = f /\ ApplyFilters(table, f)
      BY <1>1, <1>2, <2>2, FiltersApply DEF TableInv
    <2>3. CASE /\ UNCHANGED <<hidden, filter, caption>>
               /\ \E i \in DOMAIN table \ hidden : current' = i /\ raw' = table[i]
      BY <1>1, <1>2, <2>3 DEF TableInv, TableIsOneOutcome
    <2> QED BY <2>1, <2>2, <2>3
  <1>4. DOMAIN <<>> = {}
    OBVIOUS
  <1>6. Shown(counters)'
    <2>1. CASE counters' = <<>>
      BY <2>1, <1>4, Zenon DEF Shown, Counts
    <2>2. CASE queryRun' = queryRun /\ counters' = counters
      BY <2>2, <1>2, Zenon DEF TableInv, Shown, Counts
    <2> QED BY <2>1, <2>2
  <1>7. Shown(query.counters)'
    <2>1. CASE query'.counters = <<>>
      BY <2>1, <1>4, Zenon DEF Shown, Counts
    <2>2. CASE queryRun' = queryRun /\ query'.counters \in {query.counters, counters}
      <3>1. CASE query'.counters = query.counters
        BY <2>2, <3>1, <1>2, Zenon DEF TableInv, Shown, Counts
      <3>2. CASE query'.counters = counters
        BY <2>2, <3>2, <1>2, Zenon DEF TableInv, Shown, Counts
      <3> QED BY <2>2, <3>1, <3>2
    <2> QED BY <2>1, <2>2
  <1> QED BY <1>1, <1>3, <1>6, <1>7 DEF TableInv

(* Every step of ResultTable keeps TableInv.                               *)
LEMMA TableSteps == TableInv /\ [ResultNext]_resultVars => TableInv'
  <1> SUFFICES ASSUME TableInv, [ResultNext]_resultVars PROVE TableInv'
    OBVIOUS
  <1>0. NoQuery.counters = <<>>
    BY DEF NoQuery
  <1>1. CASE RenderTick
    BY <1>1, TickKeeps
  <1>2. CASE Succeed
    <2>1. CASE query.state = "working"
      <3>1. PICK o \in Outcomes(query.monitored), fatal \in BOOLEAN :
                /\ monitoring' = (monitoring /\ ~fatal)
                /\ ShowOutcome(Prepared(o, query.counters), monitoring')
        BY <1>2, <2>1 DEF Succeed
      <3> QED BY <1>2, <3>1, OutcomeShows DEF Succeed
    <2>2. CASE query.state # "working"
      BY <1>0, <1>2, <2>2, OthersKeep DEF Succeed
    <2> QED BY <2>1, <2>2
  <1>3. CASE Fail
    BY <1>0, <1>3, OthersKeep DEF Fail
  <1>4. CASE StartPoll
    BY <1>4, OthersKeep DEF StartPoll
  <1>5. CASE StopMonitoring
    BY <1>5, OthersKeep DEF StopMonitoring
  <1>6. CASE NetworkChanged
    BY <1>6, OthersKeep DEF NetworkChanged
  <1>7. ASSUME NEW monitored \in BOOLEAN, StartQueryRun(monitored)
        PROVE  TableInv'
    BY <1>7, OthersKeep DEF StartQueryRun
  <1>8. CASE Select
    BY <1>8, OthersKeep DEF Select, userUnchanged
  <1>9. CASE OpenFilterDialog
    BY <1>9, OthersKeep DEF OpenFilterDialog, userUnchanged
  <1>10. CASE ChooseFilter
    BY <1>10, OthersKeep DEF ChooseFilter, userUnchanged
  <1>11. CASE ClearFilters
    BY <1>11, OthersKeep DEF ClearFilters, userUnchanged
  <1>12. CASE UNCHANGED resultVars
    BY <1>12, OthersKeep DEF resultVars, tableVars
  <1> QED BY <1>1, <1>2, <1>3, <1>4, <1>5, <1>6, <1>7, <1>8, <1>9, <1>10, <1>11,
             <1>12 DEF ResultNext

(* In every state the counters of the next poll are those of rows shown.   *)
THEOREM TableInvariance == ResultSpec => []TableInv
  BY TableStarts, TableSteps, PTL DEF ResultSpec

(* Whatever ticks, outcomes and choices of a filter come in which order:   *)
(* the table and the rows still to come are one outcome, hidden rows are   *)
(* those that do not pass the filter, and the Raw line is that of a        *)
(* visible row (_display_outcome, _render_next_result_chunk,               *)
(* _apply_result_filters).                                                 *)
THEOREM TableStaysOneOutcome == ResultSpec => []TableIsOneOutcome
  <1>1. TableInv => TableIsOneOutcome
    BY DEF TableInv
  <1> QED BY <1>1, TableInvariance, PTL

(* The growth beside a count is that since the row shown before, in the    *)
(* same run (_prepare_display_outcome, _counter_delta).                    *)
THEOREM GrowthIsShown == ResultSpec => GrowthIsSinceShown
  <1> DEFINE Since ==
        generation' # generation =>
          \A i \in DOMAIN rows' :
              rows'[i].growth # NoGrowth =>
                  /\ rows'[i].growth >= 0
                  /\ rowsRun' = rowsRun
                  /\ \/ total > Len(rows)
                     \/ \E j \in DOMAIN rows :
                            /\ rows[j].flow = rows'[i].flow
                            /\ rows[j].at = rows'[i].at
                            /\ rows[j].count + rows'[i].growth = rows'[i].count
  <1>1. TableInv /\ [ResultNext]_resultVars => [Since]_resultVars
    <2> SUFFICES ASSUME TableInv, ResultNext, generation' # generation,
                        NEW i \in DOMAIN rows', rows'[i].growth # NoGrowth
                 PROVE  /\ rows'[i].growth >= 0
                        /\ rowsRun' = rowsRun
                        /\ \/ total > Len(rows)
                           \/ \E j \in DOMAIN rows :
                                /\ rows[j].flow = rows'[i].flow
                                /\ rows[j].at = rows'[i].at
                                /\ rows[j].count + rows'[i].growth = rows'[i].count
      OBVIOUS
    <2>1. Succeed /\ query.state = "working"
      <3>1. CASE Succeed
        BY <3>1 DEF Succeed, tableVars
      <3>2. CASE RenderTick
        BY <3>2 DEF RenderTick
      <3> QED BY <3>1, <3>2 DEF ResultNext, Fail, StartPoll, StopMonitoring,
              NetworkChanged, StartQueryRun, Select, OpenFilterDialog,
              ChooseFilter, ClearFilters, tableVars
    <2>2. PICK o \in Outcomes(query.monitored), fatal \in BOOLEAN :
              ShowOutcome(Prepared(o, query.counters), monitoring')
      BY <2>1 DEF Succeed
    <2> DEFINE p == Prepared(o, query.counters)
               b == query.counters
    <2>3. p.rows \in Seq(RowsFor(b))
      BY PreparedOK DEF TableInv, Shown
    <2>4. rows' = Upto(p.rows, VisibleRows) /\ rowsRun' = queryRun
      BY <2>2 DEF ShowOutcome
    <2> HIDE DEF p
    <2>5. rows'[i] \in RowsFor(b)
      <3>1. rows' \in Seq(RowsFor(b))
        BY <2>3, <2>4, Chunks, ResultTableAssumption
      <3> QED BY <3>1
    <2>6. /\ rows'[i] \in Row
          /\ <<rows'[i].flow, rows'[i].at>> \in DOMAIN b
          /\ b[<<rows'[i].flow, rows'[i].at>>] + rows'[i].growth = rows'[i].count
      BY <2>5 DEF RowsFor
    <2>7. b # <<>>
      <3>1. DOMAIN <<>> = {}
        OBVIOUS
      <3> QED BY <2>6, <3>1, Zenon
    <2>8. /\ rowsRun = queryRun
          /\ total > Len(rows) \/ \A key \in DOMAIN b :
                 \E j \in DOMAIN rows :
                     /\ rows[j].flow = key[1] /\ rows[j].at = key[2]
                     /\ rows[j].count = b[key]
      BY <2>7 DEF TableInv, Shown
    <2>9. rows'[i].growth >= 0
      BY <2>6 DEF Row
    <2>10. CASE total > Len(rows)
      BY <2>4, <2>8, <2>9, <2>10
    <2>11. CASE \A key \in DOMAIN b :
                 \E j \in DOMAIN rows :
                     /\ rows[j].flow = key[1] /\ rows[j].at = key[2]
                     /\ rows[j].count = b[key]
      <3> DEFINE k == <<rows'[i].flow, rows'[i].at>>
      <3>1. k \in DOMAIN b /\ k[1] = rows'[i].flow /\ k[2] = rows'[i].at
            /\ b[k] + rows'[i].growth = rows'[i].count
        BY <2>6
      <3> HIDE DEF k, b
      <3>2. PICK j \in DOMAIN rows :
                     /\ rows[j].flow = k[1] /\ rows[j].at = k[2]
                     /\ rows[j].count = b[k]
        BY <2>11, <3>1
      <3> QED BY <2>4, <2>8, <2>9, <3>1, <3>2
    <2> QED BY <2>8, <2>10, <2>11
  <1>2. GrowthIsSinceShown <=> [][Since]_resultVars
    BY DEF GrowthIsSinceShown
  <1> HIDE DEF Since
  <1> QED BY <1>1, <1>2, TableInvariance, PTL DEF ResultSpec

-----------------------------------------------------------------------------
(* Releases                                                                *)

(* The stages of a run, and the form of its variables.                     *)
EarlyStages == {"read_tag", "assert_start", "discover", "clean"}
WorkStages == {"decide", "assert_main", "call", "reread"}
PCs == {"idle", "catch"} \cup EarlyStages \cup WorkStages

Actions ==
    {"create_draft", "validate_legacy", "hide_and_mark_staging",
     "mark_staging", "replace_assets", "verify_draft_download",
     "mark_assets_verified", "align_tag", "mark_ready", "publish",
     "verify_public"}

Run == [d : Desired, id : Ids \cup {None}, seen : Release \cup {None},
        seenTag : 0..MaxCommit \cup {None}, legacy : BOOLEAN,
        authenticated : BOOLEAN, public : BOOLEAN, began : BOOLEAN,
        action : Actions \cup {"none"}, actions : Nat]

RunTypes == run \in Run /\ pc \in PCs

(* The tag names a commit main has reached.                                *)
Behind == tag # None => tag <= main
(* A run publishes a commit main has reached.                              *)
RunIsOfMain == pc # "idle" => run.d.commit <= main

(* What GitHub keeps is one release, or two drafts left from earlier, one  *)
(* of them without a whole asset.                                          *)
Spare(i) ==
    /\ releases[i].draft /\ ~releases[i].published
    /\ releases[i].marker # None

Listed ==
    \/ Existing = {}
    \/ \E i \in Ids : Existing = {i}
    \/ \E i, j \in Ids : /\ Existing = {i, j} /\ i # j
                         /\ Spare(i) /\ Spare(j)
                         /\ \A a \in releases[i].assets : a.starter

(* What is public is what a run has published, or the release of an        *)
(* earlier version of the workflow.                                        *)
Published(r) ==
    /\ r.marker.stage = "ready"
    /\ r.assets = {ZipOf(r.marker.desired)}
    /\ tag = r.marker.desired.commit
    /\ r.target = r.marker.desired.commit

Legacy(r) == r.assets \in {{ZipOf(OldBuild)}, LegacyTrio(OldBuild)}

PublicShape ==
    \A i \in Existing :
        ~releases[i].draft => IF releases[i].marker = None
                              THEN Legacy(releases[i])
                              ELSE Published(releases[i])

(* What the run knows of GitHub's release and tag.                         *)
Early ==
    pc \in EarlyStages =>
        /\ run.seen = None /\ ~run.began /\ run.actions = 0
        /\ pc # "read_tag" => run.seenTag = tag
        /\ pc = "clean" => run.id \in Existing

Alone ==
    pc \in WorkStages \cup {"catch"} =>
        IF run.seen = None
        THEN pc \in WorkStages => Existing = {} /\ pc # "reread"
        ELSE Existing = {run.id}

Knows ==
    pc \in WorkStages /\ run.seen # None =>
        IF pc = "call" /\ run.action = "replace_assets"
        THEN /\ releases[run.id].draft
             /\ releases[run.id].target = run.seen.target
             /\ releases[run.id].marker = run.seen.marker
        ELSE run.seen = releases[run.id]

KnowsTag == pc \in {"decide", "assert_main", "call"} => run.seenTag = tag

Chosen ==
    pc \in {"assert_main", "call"} =>
        /\ run.action \in Actions
        /\ run.action = NextAction(run.seen, run.seenTag)

(* main was asked before the tag is moved.                                 *)
TagIsBehind ==
    pc = "call" /\ run.action = "align_tag" /\ tag # None => tag <= run.d.commit

(* What a change has brought about, once GitHub has answered.              *)
Says(stage) ==
    /\ run.seen.draft /\ run.seen.target = run.d.commit
    /\ run.seen.marker = [stage |-> stage, desired |-> run.d]

Achieved ==
    pc = "reread" =>
        \/ /\ run.action \in {"create_draft", "hide_and_mark_staging",
                              "mark_staging"}
           /\ Says("staging")
        \/ /\ run.action = "replace_assets"
           /\ Says("staging") /\ Exact(run.seen, run.d)
        \/ /\ run.action = "mark_assets_verified"
           /\ Says("assets_verified") /\ Exact(run.seen, run.d)
        \/ /\ run.action = "align_tag"
           /\ Says("assets_verified") \/ Says("ready")
           /\ Exact(run.seen, run.d) /\ tag = run.d.commit
        \/ /\ run.action = "mark_ready"
           /\ Says("ready") /\ Exact(run.seen, run.d) /\ tag = run.d.commit
        \/ /\ run.action = "publish"
           /\ run.seen # None
           /\ ~run.seen.draft /\ run.seen.target = run.d.commit
           /\ run.seen.marker = [stage |-> "ready", desired |-> run.d]
           /\ Exact(run.seen, run.d) /\ tag = run.d.commit

(* How many actions may still follow.                                      *)
Rank == [a \in Actions \cup {"done"} |->
    CASE a = "validate_legacy" -> 9
      [] a \in {"hide_and_mark_staging", "mark_staging", "create_draft"} -> 8
      [] a = "replace_assets" -> 7
      [] a = "verify_draft_download" -> 6
      [] a = "mark_assets_verified" -> 5
      [] a = "align_tag" -> 4
      [] a = "mark_ready" -> 3
      [] a = "publish" -> 2
      [] a = "verify_public" -> 1
      [] a = "done" -> 0]

Forward ==
    /\ pc = "decide" =>
          /\ NextAction(run.seen, run.seenTag) \in Actions \cup {"done"}
          /\ run.actions + Rank[NextAction(run.seen, run.seenTag)] <= 9
    /\ pc \in {"assert_main", "call", "reread"} =>
          /\ run.action \in Actions
          /\ run.actions + Rank[run.action] <= 10

ReleaseInv ==
    /\ ReleaseTypeOK /\ RunTypes /\ Behind /\ RunIsOfMain /\ Listed
    /\ PublicShape /\ Early /\ Alone /\ Knows /\ KnowsTag /\ Chosen
    /\ TagIsBehind /\ Achieved /\ Forward

-----------------------------------------------------------------------------

(* "Nothing" is no release, no marker and no commit.                       *)
LEMMA NothingIsNoRecord ==
    /\ None \notin Release /\ None \notin Marker
    /\ 0 \in 0..MaxCommit /\ None # 0 /\ OldBuild \in Desired
  BY ReleaseAssumption, NothingAssumption, BuildAssumption
  DEF ReleaseAssumption, NothingAssumption, BuildAssumption, OldBuild, NoBuild,
      Desired

(* A release keeps its form when fields of it are replaced.                *)
LEMMA ReleaseFields ==
    ASSUME NEW r \in Release
    PROVE  /\ r.draft \in BOOLEAN /\ r.published \in BOOLEAN
           /\ r.target \in 0..MaxCommit /\ r.marker \in Marker \cup {None}
           /\ r.assets \subseteq Asset
  BY DEF Release

(* The assets of a release are replaced ...                                *)
LEMMA AssetsReplaced ==
    ASSUME NEW r \in Release, NEW A \in SUBSET Asset
    PROVE  LET new == [r EXCEPT !.assets = A]
           IN  /\ new \in Release /\ new # None
               /\ new.assets = A /\ new.draft = r.draft
               /\ new.published = r.published /\ new.target = r.target
               /\ new.marker = r.marker
  BY NothingIsNoRecord DEF Release

(* ... or its metadata, as by Set-ReleaseMetadata.                         *)
WithMetadata(r, d, stage, draft) ==
    [r EXCEPT !.target = d.commit, !.draft = draft,
              !.published = @ \/ ~draft,
              !.marker = [stage |-> stage, desired |-> d]]

(* What a PATCH of the metadata leaves of a release.                       *)
LEMMA MetadataReplaced ==
    ASSUME NEW r \in Release, NEW d \in Desired, NEW draft \in BOOLEAN,
           NEW stage \in Stages, NEW new, new = WithMetadata(r, d, stage, draft)
    PROVE  /\ new \in Release /\ new # None
           /\ new.assets = r.assets /\ new.draft = draft
           /\ new.target = d.commit
           /\ new.marker = [stage |-> stage, desired |-> d]
           /\ new.marker # None
  <1> DEFINE m == [stage |-> stage, desired |-> d]
  <1>1. m \in Marker /\ m # None
    BY NothingIsNoRecord DEF Marker
  <1>2. d.commit \in 0..MaxCommit
    BY DEF Desired
  <1> DEFINE p == r.published \/ ~draft
  <1>p. p \in BOOLEAN
    OBVIOUS
  <1>3. new = [r EXCEPT !.target = d.commit, !.draft = draft,
                 !.published = p, !.marker = m]
    BY DEF WithMetadata
  <1> HIDE DEF m, p
  <1>4. new \in Release
    BY <1>1, <1>2, <1>p, <1>3 DEF Release
  <1>5. new.assets = r.assets /\ new.draft = draft
    BY <1>3 DEF Release
  <1>6. new.target = d.commit /\ new.marker = m
    BY <1>3 DEF Release
  <1>7. new # None
    BY <1>4, NothingIsNoRecord
  <1> QED BY <1>1, <1>4, <1>5, <1>6, <1>7 DEF m

(* The assets of a build, finished ones and unfinished ones.               *)
LEMMA AssetsTyped ==
    ASSUME NEW d \in Desired
    PROVE  /\ ZipOf(d) \in Asset /\ Starter(d) \in Asset
           /\ ZipOf(d).starter = FALSE /\ Starter(d).starter = TRUE
           /\ LegacyTrio(d) \subseteq Asset
           /\ \A a \in LegacyTrio(d) : a.starter = FALSE /\ a.of = d
  <1>1. ASSUME NEW k \in {"zip", "sidecar", "sbom"}
        PROVE  /\ Part(k, d) \in Asset /\ Part(k, d).starter = FALSE
               /\ Part(k, d).of = d
    BY DEF Asset, Part
  <1>2. Starter(d) \in Asset /\ Starter(d).starter = TRUE
    BY DEF Asset, Part, ZipOf, Starter
  <1>3. /\ LegacyTrio(d) \subseteq Asset
        /\ \A a \in LegacyTrio(d) : a.starter = FALSE /\ a.of = d
    BY <1>1 DEF LegacyTrio
  <1> QED BY <1>1, <1>2, <1>3 DEF ZipOf

(* What a public release may consist of, counted.                          *)
LEMMA Counted ==
    ASSUME NEW d \in Desired
    PROVE  /\ Cardinality({ZipOf(d)}) = 1 /\ Cardinality(LegacyTrio(d)) = 3
           /\ Classified({ZipOf(d)}) /\ Classified(LegacyTrio(d))
           /\ Cardinality({a.of : a \in LegacyTrio(d)}) = 1
  <1> DEFINE Z == Part("zip", d)
             S == Part("sidecar", d)
             B == Part("sbom", d)
  <1>1. LegacyTrio(d) = {Z, S, B}
    BY DEF LegacyTrio
  <1>2. /\ Z.kind = "zip" /\ S.kind = "sidecar" /\ B.kind = "sbom"
        /\ Z.of = d /\ S.of = d /\ B.of = d
    BY DEF Part
  <1> HIDE DEF Z, S, B
  <1>3. Cardinality({ZipOf(d)}) = 1
    BY FS_Singleton
  <1>4. Cardinality({Z, S, B}) = 3
    <2>1. IsFiniteSet({Z}) /\ Cardinality({Z}) = 1
      BY FS_Singleton
    <2>2. S \notin {Z} /\ B \notin {Z} \cup {S}
      BY <1>2
    <2>3. /\ IsFiniteSet({Z} \cup {S})
          /\ Cardinality({Z} \cup {S}) = Cardinality({Z}) + 1
      BY <2>1, <2>2, FS_AddElement
    <2>5. Cardinality(({Z} \cup {S}) \cup {B}) = Cardinality({Z} \cup {S}) + 1
      BY <2>2, <2>3, FS_AddElement
    <2>4. {Z, S, B} = ({Z} \cup {S}) \cup {B}
      OBVIOUS
    <2> QED BY <2>1, <2>3, <2>4, <2>5
  <1>5. {a.kind : a \in {Z, S, B}} = {"zip", "sidecar", "sbom"}
    BY <1>2
  <1>6. {a.of : a \in {Z, S, B}} = {d}
    BY <1>2
  <1>7. \A a \in {ZipOf(d)} : a.kind = "zip"
    BY DEF ZipOf, Part
  <1>8. Cardinality({d}) = 1
    BY FS_Singleton
  <1>9. Classified({ZipOf(d)})
    BY <1>3, <1>7 DEF Classified
  <1>10. Classified({Z, S, B})
    BY <1>4, <1>5 DEF Classified
  <1> QED BY <1>1, <1>3, <1>4, <1>6, <1>8, <1>9, <1>10

-----------------------------------------------------------------------------
(* The next action                                                         *)

Finishing == {"verify_draft_download", "mark_assets_verified", "align_tag",
              "mark_ready", "publish"}

(* What is known of the release and the tag by the action chosen for them. *)
LEMMA ActionMeans ==
    ASSUME NEW r \in Release \cup {None}, NEW t, NEW a, a = NextAction(r, t)
    PROVE  /\ a \in Actions \cup {"done", "refused"}
           /\ a = "create_draft" <=> r = None
           /\ a \in Finishing \cup {"mark_staging", "replace_assets"} =>
                 r \in Release /\ r.draft
           /\ a \in {"validate_legacy", "hide_and_mark_staging",
                     "verify_public", "done", "refused"} =>
                 r \in Release /\ ~r.draft
           /\ a \in Finishing =>
                 /\ r.target = run.d.commit /\ r.marker # None
                 /\ r.marker.desired = run.d /\ Exact(r, run.d)
           /\ a = "replace_assets" =>
                 /\ r.target = run.d.commit /\ r.marker # None
                 /\ r.marker.desired = run.d /\ r.marker.stage = "staging"
           /\ a \in {"mark_ready", "publish"} => t = run.d.commit
           /\ a = "align_tag" =>
                 t # run.d.commit /\ r.marker.stage # "staging"
           /\ a = "validate_legacy" => Cardinality(r.assets) = 3
           /\ a \in {"verify_public", "done"} =>
                 /\ r.marker # None /\ r.marker.desired = run.d
                 /\ Exact(r, run.d) /\ t = run.d.commit
                 /\ r.marker.stage = "ready" /\ (a = "done" <=> run.public)
           /\ a \in {"verify_draft_download", "mark_assets_verified"} =>
                 r.marker.stage = "staging"
           /\ a = "refused" => \/ ~Classified(r.assets)
                               \/ HasStage(r, "ready") /\ ~ReadyIsTrue(r, t)
  BY NothingIsNoRecord
  DEF NextAction, DraftAction, PublishedAction, HasStage, Actions, Finishing

-----------------------------------------------------------------------------
(* What a step does to the run, and to the releases                        *)

(* The run's variables that a call of the API leaves alone.                *)
Kept ==
    /\ run'.d = run.d /\ run'.seenTag = run.seenTag
    /\ run'.legacy = run.legacy /\ run'.authenticated = run.authenticated
    /\ run'.public = run.public /\ run'.action = run.action
    /\ run'.actions = run.actions

(* A change is answered, and the run goes on with what it says; or the run *)
(* ends.                                                                   *)
LEMMA AnsweredMeans ==
    ASSUME RunTypes, NEW new \in Release, NEW began \in BOOLEAN,
           Answered(began, new)
    PROVE  /\ RunTypes' /\ Kept /\ run'.id = run.id
           /\ \/ pc' = "reread" /\ run'.seen = new /\ UNCHANGED verdict
              \/ /\ pc' \in {"catch", "idle"} /\ run'.seen = run.seen
                 /\ verdict' = "faulty"
  <1>1. CASE /\ run' = [run EXCEPT !.seen = new, !.began = @ \/ began]
             /\ pc' = "reread" /\ UNCHANGED verdict
    BY <1>1 DEF RunTypes, Run, Kept, PCs, WorkStages
  <1>2. CASE /\ run' = [run EXCEPT !.began = @ \/ began]
             /\ verdict' = "faulty"
             /\ pc' = IF run.began \/ began THEN "catch" ELSE "idle"
    BY <1>2 DEF RunTypes, Run, Kept, PCs
  <1> QED BY <1>1, <1>2 DEF Answered

(* One release that is there is changed: the others stay as they are.      *)
LEMMA OneChanged ==
    ASSUME ReleaseTypeOK, NEW i \in Existing, NEW new \in Release,
           releases' = [releases EXCEPT ![i] = new]
    PROVE  /\ releases' \in [Ids -> Release \cup {None}]
           /\ Existing' = Existing /\ i \in Ids
           /\ releases'[i] = new
           /\ \A j \in Ids \ {i} : releases'[j] = releases[j]
  BY NothingIsNoRecord DEF ReleaseTypeOK, Existing

(* A release that is kept is there.                                        *)
LEMMA KeepersExist == Keepers \subseteq Existing
  BY DEF Keepers

(* The release is there while a run works on it, and the run's copy of it  *)
(* is true.                                                                *)
LEMMA AtCall ==
    ASSUME ReleaseTypeOK, RunTypes, Alone, Knows, Chosen, pc = "call"
    PROVE  /\ run.action = "create_draft" <=> run.seen = None
           /\ run.seen = None => Existing = {}
           /\ run.seen # None =>
                 /\ run.seen \in Release
                 /\ Existing = {run.id} /\ run.id \in Existing /\ run.id \in Ids
                 /\ releases[run.id] \in Release
                 /\ run.action # "replace_assets" =>
                       run.seen = releases[run.id]
           /\ run.action = "replace_assets" => releases[run.id].draft
  <1>1. /\ run.seen \in Release \cup {None}
        /\ run.action = NextAction(run.seen, run.seenTag)
    BY DEF RunTypes, Run, Chosen
  <1>2. run.action = "create_draft" <=> run.seen = None
    BY <1>1, ActionMeans
  <1>3. /\ run.seen = None => Existing = {}
        /\ run.seen # None => Existing = {run.id}
    BY DEF Alone, WorkStages
  <1>4. Existing = {run.id} =>
           run.id \in Existing /\ run.id \in Ids /\ releases[run.id] \in Release
    BY DEF Existing, ReleaseTypeOK
  <1>5. run.seen # None /\ run.action # "replace_assets" =>
           run.seen = releases[run.id]
    BY DEF Knows, WorkStages
  <1>6. run.action = "replace_assets" => releases[run.id].draft
    BY <1>2 DEF Knows, WorkStages
  <1> QED BY <1>1, <1>2, <1>3, <1>4, <1>5, <1>6

(* Set-ReleaseMetadata: the answer is the release.                         *)
LEMMA MetadataSet ==
    ASSUME ReleaseTypeOK, RunTypes, Alone, Knows, Chosen, pc = "call",
           run.action \notin {"create_draft", "replace_assets"},
           NEW stage \in Stages, NEW draft \in BOOLEAN, NEW began \in BOOLEAN,
           SetMetadata(stage, draft, began)
    PROVE  /\ releases' \in [Ids -> Release \cup {None}]
           /\ Existing' = Existing /\ Existing = {run.id}
           /\ LET new == releases'[run.id]
              IN  /\ new \in Release /\ new # None
                  /\ new.assets = run.seen.assets /\ new.draft = draft
                  /\ new.target = run.d.commit
                  /\ new.marker = [stage |-> stage, desired |-> run.d]
                  /\ new.marker # None
                  /\ \/ pc' = "reread" /\ run'.seen = new /\ UNCHANGED verdict
                     \/ /\ pc' \in {"catch", "idle"} /\ run'.seen = run.seen
                        /\ verdict' = "faulty"
           /\ RunTypes' /\ Kept /\ run'.id = run.id /\ UNCHANGED <<main, tag>>
  <1> DEFINE new == [releases[run.id] EXCEPT
                       !.target = run.d.commit, !.draft = draft,
                       !.published = @ \/ ~draft,
                       !.marker = [stage |-> stage, desired |-> run.d]]
  <1>1. /\ run.id \in Existing /\ releases[run.id] \in Release
        /\ run.seen = releases[run.id] /\ Existing = {run.id}
    BY AtCall
  <1>2. run.d \in Desired
    BY DEF RunTypes, Run
  <1>3. /\ releases' = [releases EXCEPT ![run.id] = new]
        /\ Answered(began, new) /\ UNCHANGED <<main, tag>>
    BY DEF SetMetadata
  <1>a. new = WithMetadata(releases[run.id], run.d, stage, draft)
    BY DEF WithMetadata
  <1> HIDE DEF new
  <1>4. /\ new \in Release /\ new # None
        /\ new.assets = releases[run.id].assets /\ new.draft = draft
        /\ new.target = run.d.commit
        /\ new.marker = [stage |-> stage, desired |-> run.d]
        /\ new.marker # None
    BY <1>1, <1>2, <1>a, MetadataReplaced
  <1>5. /\ releases' \in [Ids -> Release \cup {None}]
        /\ Existing' = Existing /\ releases'[run.id] = new
    BY <1>1, <1>3, <1>4, OneChanged
  <1>6. /\ RunTypes' /\ Kept /\ run'.id = run.id
        /\ \/ pc' = "reread" /\ run'.seen = new /\ UNCHANGED verdict
           \/ /\ pc' \in {"catch", "idle"} /\ run'.seen = run.seen
              /\ verdict' = "faulty"
    BY <1>3, <1>4, AnsweredMeans
  <1> QED BY <1>1, <1>3, <1>4, <1>5, <1>6

(* Replacing the assets: the release is a draft, before and after.         *)
LEMMA AssetsSet ==
    ASSUME ReleaseTypeOK, RunTypes, Alone, Knows, Chosen, pc = "call",
           run.action = "replace_assets", NEW A \in SUBSET Asset,
           releases' = [releases EXCEPT ![run.id].assets = A]
    PROVE  /\ releases' \in [Ids -> Release \cup {None}]
           /\ Existing' = Existing /\ Existing = {run.id}
           /\ LET new == releases'[run.id]
              IN  /\ new \in Release /\ new # None /\ new.draft
                  /\ new.assets = A
                  /\ new.marker = releases[run.id].marker
                  /\ new.target = releases[run.id].target
  <1> DEFINE new == [releases[run.id] EXCEPT !.assets = A]
  <1>1. /\ run.id \in Existing /\ releases[run.id] \in Release
        /\ releases[run.id].draft /\ Existing = {run.id}
    BY AtCall
  <1>2. /\ new \in Release /\ new # None
        /\ new.assets = A /\ new.draft = releases[run.id].draft
        /\ new.target = releases[run.id].target
        /\ new.marker = releases[run.id].marker
    BY <1>1, AssetsReplaced
  <1>3. releases' = [releases EXCEPT ![run.id] = new]
    BY <1>1 DEF ReleaseTypeOK
  <1> HIDE DEF new
  <1>4. /\ releases' \in [Ids -> Release \cup {None}]
        /\ Existing' = Existing /\ releases'[run.id] = new
    BY <1>1, <1>2, <1>3, OneChanged
  <1> QED BY <1>1, <1>2, <1>4

Draft(d) ==
    [draft |-> TRUE, published |-> FALSE, target |-> d.commit, assets |-> {},
     marker |-> [stage |-> "staging", desired |-> d]]

(* A new draft is a release.                                               *)
LEMMA DraftTyped ==
    ASSUME NEW d \in Desired
    PROVE  /\ Draft(d) \in Release /\ Draft(d) # None
           /\ Draft(d).draft = TRUE /\ Draft(d).target = d.commit
           /\ Draft(d).published = FALSE /\ Draft(d).marker # None
           /\ Draft(d).assets = {}
           /\ Draft(d).marker = [stage |-> "staging", desired |-> d]
  <1> DEFINE m == [stage |-> "staging", desired |-> d]
  <1>1. m \in Marker /\ d.commit \in 0..MaxCommit
    BY DEF Marker, Stages, Desired
  <1> HIDE DEF m
  <1>2. [draft |-> TRUE, published |-> FALSE, target |-> d.commit,
         assets |-> {}, marker |-> m] \in Release
    BY <1>1 DEF Release
  <1>3. Draft(d) \in Release
    BY <1>2 DEF Draft, m
  <1> QED BY <1>1, <1>3, NothingIsNoRecord DEF Draft, m

(* The first release is created, whether or not the run hears of it.       *)
CreatesDraft(i) ==
    /\ pc = "call" /\ run.action = "create_draft" /\ run.seen = None
    /\ Existing = {} /\ Existing' = {i} /\ releases'[i] = Draft(run.d)
    /\ releases' \in [Ids -> Release \cup {None}]
    /\ UNCHANGED <<main, tag>>
    /\ RunTypes' /\ Kept
    /\ \/ /\ pc' = "reread" /\ run'.id = i /\ run'.seen = Draft(run.d)
          /\ UNCHANGED verdict
       \/ pc' = "catch" /\ run'.seen = None /\ verdict' = "faulty"

(* The first draft is the only release there is.                           *)
LEMMA CreateDraftMeans ==
    ASSUME ReleaseTypeOK, RunTypes, Alone, Knows, Chosen, CreateDraft
    PROVE  \E i \in Ids : CreatesDraft(i)
  <1>1. /\ pc = "call" /\ run.action = "create_draft"
        /\ UNCHANGED <<main, tag>>
    BY DEF CreateDraft
  <1>2. Existing = {} /\ run.seen = None
    BY <1>1, AtCall
  <1>3. PICK i \in Ids :
           /\ releases' = [releases EXCEPT ![i] = Draft(run.d)]
           /\ \/ /\ run' = [run EXCEPT !.id = i, !.seen = Draft(run.d),
                              !.began = TRUE]
                 /\ pc' = "reread" /\ UNCHANGED verdict
              \/ /\ run' = [run EXCEPT !.began = TRUE]
                 /\ pc' = "catch" /\ verdict' = "faulty"
    BY DEF CreateDraft, Draft
  <1>4. run.d \in Desired
    BY DEF RunTypes, Run
  <1>5. Draft(run.d) \in Release /\ Draft(run.d) # None
    BY <1>4, DraftTyped
  <1>6. /\ Existing' = {i} /\ releases'[i] = Draft(run.d)
        /\ releases' \in [Ids -> Release \cup {None}]
    BY <1>2, <1>3, <1>5 DEF Existing, ReleaseTypeOK
  <1>7. CASE /\ run' = [run EXCEPT !.id = i, !.seen = Draft(run.d),
                          !.began = TRUE]
             /\ pc' = "reread"
    <2>1. RunTypes' /\ Kept /\ run'.id = i /\ run'.seen = Draft(run.d)
      BY <1>5, <1>7 DEF RunTypes, Run, Kept, PCs, WorkStages
    <2> QED BY <1>1, <1>2, <1>3, <1>6, <1>7, <2>1 DEF CreatesDraft
  <1>8. CASE run' = [run EXCEPT !.began = TRUE] /\ pc' = "catch"
    <2>1. RunTypes' /\ Kept /\ run'.seen = None
      BY <1>2, <1>8 DEF RunTypes, Run, Kept, PCs
    <2> QED BY <1>1, <1>2, <1>3, <1>6, <1>8, <2>1 DEF CreatesDraft
  <1> QED BY <1>3, <1>7, <1>8

(* The ZIP is the draft's only asset.                                      *)
LEMMA UploadZipMeans ==
    ASSUME ReleaseTypeOK, RunTypes, Alone, Knows, Chosen, UploadZip
    PROVE  \E new \in Release :
              /\ releases' = [releases EXCEPT ![run.id] = new]
              /\ Answered(TRUE, new)
              /\ new.assets = {ZipOf(run.d)} /\ new.draft
              /\ new.published = releases[run.id].published
              /\ new.marker = releases[run.id].marker
              /\ new.target = releases[run.id].target
  <1> DEFINE new == [releases[run.id] EXCEPT !.assets = {ZipOf(run.d)}]
  <1>1. /\ pc = "call" /\ run.action = "replace_assets"
        /\ releases' = [releases EXCEPT ![run.id] = new] /\ Answered(TRUE, new)
    BY DEF UploadZip
  <1>2. releases[run.id] \in Release /\ releases[run.id].draft
    BY <1>1, AtCall
  <1>3. {ZipOf(run.d)} \in SUBSET Asset
    <2>1. run.d \in Desired
      BY DEF RunTypes, Run
    <2> QED BY <2>1, AssetsTyped
  <1>4. /\ new \in Release /\ new.assets = {ZipOf(run.d)}
        /\ new.draft = releases[run.id].draft
        /\ new.published = releases[run.id].published
        /\ new.target = releases[run.id].target
        /\ new.marker = releases[run.id].marker
    BY <1>2, <1>3, AssetsReplaced
  <1> HIDE DEF new
  <1> QED BY <1>1, <1>2, <1>4

(* The calls of Set-ReleaseMetadata.                                       *)
Metadata(stage, draft) ==
    /\ pc = "call" /\ run.action \notin {"create_draft", "replace_assets"}
    /\ \E began \in BOOLEAN : SetMetadata(stage, draft, began)

(* Four actions are such calls; mark_ready never fails its own check.      *)
LEMMA MetadataCalls ==
    ASSUME ReleaseTypeOK, RunTypes, Alone, Knows, Chosen
    PROVE  /\ MarkStaging => Metadata("staging", TRUE)
                    /\ run.action \in {"hide_and_mark_staging", "mark_staging"}
           /\ MarkAssetsVerified => Metadata("assets_verified", TRUE)
                    /\ run.action = "mark_assets_verified"
           /\ MarkReady => Metadata("ready", TRUE) /\ run.action = "mark_ready"
           /\ Publish => Metadata("ready", FALSE) /\ run.action = "publish"
  <1>1. ASSUME pc = "call", run.action = "mark_ready"
        PROVE  ContractHolds(run.seen, TRUE)
    <2>1. run.seen \in Release \cup {None} /\ Chosen /\ run.action \in Finishing
      BY <1>1 DEF RunTypes, Run, Finishing
    <2>2. /\ run.seen \in Release /\ run.seen.draft
          /\ run.seen.target = run.d.commit /\ run.seen.marker # None
          /\ run.seen.marker.desired = run.d /\ Exact(run.seen, run.d)
      BY <2>1, <1>1, ActionMeans DEF Chosen
    <2>3. run.seen.draft = TRUE
      BY <2>2 DEF Release
    <2> QED BY <2>2, <2>3 DEF ContractHolds
  <1>2. MarkReady => SetMetadata("ready", TRUE, FALSE)
                     /\ pc = "call" /\ run.action = "mark_ready"
    BY <1>1 DEF MarkReady
  <1> QED BY <1>2 DEF MarkStaging, MarkAssetsVerified, Publish, Metadata

(* A run keeps its form, and goes through its stages.                      *)
LEMMA RunTyped ==
    ASSUME ReleaseTypeOK, RunTypes, Alone, Knows, Chosen,
           [ReleaseNext]_releaseVars
    PROVE  RunTypes'
  <1> USE DEF RunTypes
  <1>1. CASE MarkStaging \/ MarkAssetsVerified \/ Publish \/ MarkReady
    <2>1. PICK stage \in Stages, draft \in BOOLEAN : Metadata(stage, draft)
      BY <1>1, MetadataCalls DEF Stages
    <2> QED BY <2>1, MetadataSet DEF Metadata
  <1>2. CASE ReadTag
    BY <1>2
       DEF ReadTag, ReleaseTypeOK, Run, PCs, EarlyStages
  <1>3. CASE Reread
    <2> DEFINE known == run.authenticated /\ run.action \notin
                   {"hide_and_mark_staging", "mark_staging", "replace_assets"}
    <2>1. known \in BOOLEAN
      BY DEF Run
    <2> HIDE DEF known
    <2>2. CASE run' = [run EXCEPT !.seenTag = tag, !.authenticated = known]
      BY <1>3, <2>1, <2>2 DEF Reread, Throw, ReleaseTypeOK, Run, PCs, WorkStages
    <2>3. CASE UNCHANGED run
      BY <1>3, <2>3 DEF Reread, Throw, PCs, WorkStages
    <2> QED BY <1>3, <2>2, <2>3 DEF Reread, known
  <1>4. CASE Push \/ AssertAtStart \/ AssertMain
    BY <1>4
       DEF Push, AssertAtStart, Throw, AssertMain, PCs, EarlyStages,
           WorkStages
  <1>5. CASE ValidateLegacy \/ VerifyDraftDownload
    <2>1. pc' \in {"decide", "catch", "idle"}
      BY <1>5 DEF ValidateLegacy, VerifyDraftDownload, Throw
    <2>2. \/ run' = [run EXCEPT !.legacy = TRUE]
          \/ run' = [run EXCEPT !.authenticated = TRUE]
          \/ UNCHANGED run
      BY <1>5 DEF ValidateLegacy, VerifyDraftDownload
    <2> QED BY <2>1, <2>2 DEF Run, PCs, WorkStages
  <1>6. CASE CleanStarter \/ CleanDuplicate \/ Hide \/ CallFails \/ Killed \/
           DeleteAsset \/ UploadIsCutOff
    BY <1>6
       DEF CleanStarter, CleanDuplicate, Hide, CallFails, Throw, Killed,
           DeleteAsset, UploadIsCutOff, Run, PCs
  <1>7. CASE Discover
    <2>1. \A i \in Keepers : i \in Ids
      BY KeepersExist DEF Existing
    <2> QED BY <1>7, <2>1
            DEF Discover, Throw, Run, PCs, EarlyStages, WorkStages
  <1>8. CASE Discovered \/ VerifyPublic
    <2>1. run'.seen \in Release \cup {None} => RunTypes'
      BY <1>8 DEF Discovered, VerifyPublic, Throw, Run, PCs, WorkStages
    <2>2. /\ Existing = {run.id} => releases[run.id] \in Release
          /\ pc = "call" /\ run.action = "verify_public" =>
                releases[run.id] \in Release
      <3>1. Existing = {run.id} => releases[run.id] \in Release
        BY DEF ReleaseTypeOK, Existing
      <3> QED BY <3>1, AtCall
    <2>3. run'.seen \in Release \cup {None}
      BY <1>8, <2>2 DEF Discovered, VerifyPublic, Throw, Run
    <2> QED BY <2>1, <2>3
  <1>9. CASE Decide
    <2> DEFINE action == NextAction(run.seen, run.seenTag)
    <2>1. action \in Actions \cup {"done", "refused"}
      BY ActionMeans DEF Run
    <2> HIDE DEF action
    <2>2. run.actions + 1 \in Nat
      BY DEF Run
    <2>3. CASE UNCHANGED run
      BY <1>9, <2>3 DEF Decide, Throw, PCs, WorkStages
    <2>4. CASE /\ run' = [run EXCEPT !.action = action, !.actions = @ + 1]
               /\ action \notin {"done", "refused"}
               /\ pc' \in {"assert_main", "call"}
      BY <2>1, <2>2, <2>4 DEF Run, PCs, WorkStages
    <2> QED BY <1>9, <2>3, <2>4 DEF Decide, action
  <1>10. CASE StartRun
    <2>1. PICK c \in 1..main, b \in Builds :
             run' = [NoRun EXCEPT !.d = [commit |-> c, build |-> b]]
      BY <1>10 DEF StartRun
    <2>2. [commit |-> c, build |-> b] \in Desired
      BY ReleaseAssumption DEF ReleaseAssumption, ReleaseTypeOK, Desired
    <2>3. NoRun.d \in Desired
      BY NothingIsNoRecord DEF NoRun, OldBuild
    <2>4. run' \in Run
      BY <2>1, <2>2, <2>3 DEF NoRun, Run
    <2> QED BY <1>10, <2>4 DEF StartRun, PCs, EarlyStages
  <1>11. CASE CreateDraft
    <2>1. PICK i \in Ids : CreatesDraft(i)
      BY <1>11, CreateDraftMeans
    <2> QED BY <2>1 DEF CreatesDraft
  <1>12. CASE UploadZip
    <2>1. PICK new \in Release : Answered(TRUE, new)
      BY <1>12, UploadZipMeans
    <2> QED BY <2>1, AnsweredMeans
  <1>13. CASE AlignTag
    <2>1. run.seen \in Release
      BY <1>13, AtCall DEF AlignTag
    <2> QED BY <1>13, <2>1, AnsweredMeans DEF AlignTag
  <1>14. CASE UNCHANGED releaseVars
    BY <1>14
       DEF releaseVars
  <1> QED BY <1>1, <1>2, <1>3, <1>4, <1>5, <1>6, <1>7, <1>8, <1>9, <1>10,
             <1>11, <1>12, <1>13, <1>14
         DEF ReleaseNext, RunSteps

(* Uploads that were cut off are removed, releases that are not wanted.    *)
LEMMA CleanStarterMeans ==
    ASSUME ReleaseTypeOK, CleanStarter
    PROVE  \E i \in Existing : \E a \in releases[i].assets :
              /\ a.starter /\ Existing' = Existing
              /\ releases' \in [Ids -> Release \cup {None}]
              /\ \A j \in Ids \ {i} : releases'[j] = releases[j]
              /\ LET old == releases[i]
                     new == releases'[i]
                 IN  /\ old \in Release /\ new.assets = old.assets \ {a}
                     /\ new.draft = old.draft /\ new.published = old.published
                     /\ new.target = old.target /\ new.marker = old.marker
  <1>0. PICK i \in Existing : \E a \in releases[i].assets :
           /\ a.starter
           /\ releases' = [releases EXCEPT ![i].assets = @ \ {a}]
    BY DEF CleanStarter
  <1>1. PICK a \in releases[i].assets :
           /\ a.starter
           /\ releases' = [releases EXCEPT ![i].assets = @ \ {a}]
    BY <1>0
  <1> DEFINE A == releases[i].assets \ {a}
             new == [releases[i] EXCEPT !.assets = A]
  <1>2. releases[i] \in Release /\ i \in Ids
    BY DEF ReleaseTypeOK, Existing
  <1>3. A \in SUBSET Asset
    BY <1>2, ReleaseFields
  <1>4. releases' = [releases EXCEPT ![i] = new]
    BY <1>1, <1>2 DEF ReleaseTypeOK
  <1> HIDE DEF A
  <1>5. /\ new \in Release /\ new.assets = A
        /\ new.draft = releases[i].draft
        /\ new.published = releases[i].published
        /\ new.target = releases[i].target
        /\ new.marker = releases[i].marker
    BY <1>2, <1>3, AssetsReplaced
  <1> HIDE DEF new
  <1>6. /\ releases' \in [Ids -> Release \cup {None}]
        /\ Existing' = Existing /\ releases'[i] = new
        /\ \A j \in Ids \ {i} : releases'[j] = releases[j]
    BY <1>4, <1>5, OneChanged
  <1>7. A = releases[i].assets \ {a}
    BY DEF A
  <1> QED BY <1>1, <1>2, <1>5, <1>6, <1>7

(* A superfluous draft is deleted, and the chosen release stays.           *)
LEMMA CleanDuplicateMeans ==
    ASSUME ReleaseTypeOK, CleanDuplicate
    PROVE  \E i \in Existing \ {run.id} :
              /\ releases' \in [Ids -> Release \cup {None}]
              /\ Existing' = Existing \ {i}
              /\ \A j \in Ids \ {i} : releases'[j] = releases[j]
  BY DEF CleanDuplicate, ReleaseTypeOK, Existing

(* The release is hidden, or the call fails.                               *)
LEMMA HideMeans ==
    ASSUME ReleaseTypeOK, Alone, Hide
    PROVE  /\ releases' \in [Ids -> Release \cup {None}]
           /\ \/ UNCHANGED releases
              \/ /\ Existing' = Existing /\ Existing = {run.id}
                 /\ releases'[run.id].draft
  <1>1. CASE UNCHANGED releases
    BY <1>1 DEF ReleaseTypeOK
  <1>2. CASE run.seen # None
             /\ releases' = [releases EXCEPT ![run.id].draft = TRUE]
    <2> DEFINE new == [releases[run.id] EXCEPT !.draft = TRUE]
    <2>1. Existing = {run.id}
      BY <1>2 DEF Alone, Hide
    <2>2. run.id \in Existing /\ releases[run.id] \in Release
      BY <2>1 DEF Existing, ReleaseTypeOK
    <2>3. releases' = [releases EXCEPT ![run.id] = new]
      BY <1>2, <2>2 DEF ReleaseTypeOK
    <2>4. new \in Release /\ new.draft
      BY <2>2 DEF Release
    <2> HIDE DEF new
    <2>5. /\ releases' \in [Ids -> Release \cup {None}]
          /\ Existing' = Existing /\ releases'[run.id] = new
      BY <2>2, <2>3, <2>4, OneChanged
    <2> QED BY <2>1, <2>4, <2>5
  <1> QED BY <1>1, <1>2 DEF Hide

(* What GitHub keeps has its form.                                         *)
LEMMA ReleasesTyped ==
    ASSUME ReleaseTypeOK, RunTypes, Alone, Knows, Chosen,
           [ReleaseNext]_releaseVars
    PROVE  ReleaseTypeOK'
  <1>1. CASE MarkStaging \/ MarkAssetsVerified \/ Publish \/ MarkReady
    <2>1. PICK stage \in Stages, draft \in BOOLEAN : Metadata(stage, draft)
      BY <1>1, MetadataCalls DEF Stages
    <2>2. /\ releases' \in [Ids -> Release \cup {None}]
          /\ UNCHANGED <<main, tag>> /\ verdict' \in {verdict, "faulty"}
      BY <2>1, MetadataSet DEF Metadata
    <2> QED BY <2>2 DEF ReleaseTypeOK
  <1>2. CASE Push
    BY <1>2, ReleaseAssumption
       DEF ReleaseAssumption, Push, ReleaseTypeOK
  <1>3. CASE StartRun \/ ReadTag \/ AssertAtStart \/ Discover \/ Discovered \/
           Decide \/ AssertMain \/ ValidateLegacy \/ VerifyDraftDownload \/
           VerifyPublic \/ Reread \/ CallFails \/ Killed
    BY <1>3
       DEF StartRun, ReadTag, AssertAtStart, Throw, Discover, Discovered,
           Decide, AssertMain, ValidateLegacy, VerifyDraftDownload,
           VerifyPublic, Reread, CallFails, Killed, ReleaseTypeOK
  <1>4. CASE CleanStarter
    <2>1. releases' \in [Ids -> Release \cup {None}]
      BY <1>4, CleanStarterMeans
    <2> QED BY <1>4, <2>1 DEF CleanStarter, ReleaseTypeOK
  <1>5. CASE CleanDuplicate
    <2>1. releases' \in [Ids -> Release \cup {None}]
      BY <1>5, CleanDuplicateMeans
    <2> QED BY <1>5, <2>1 DEF CleanDuplicate, ReleaseTypeOK
  <1>6. CASE CreateDraft
    <2>1. PICK i \in Ids : CreatesDraft(i)
      BY <1>6, CreateDraftMeans
    <2> QED BY <2>1 DEF CreatesDraft, ReleaseTypeOK
  <1>7. CASE DeleteAsset
    <2>1. /\ pc = "call" /\ run.action = "replace_assets"
          /\ UNCHANGED <<main, tag, verdict>>
      BY <1>7 DEF DeleteAsset
    <2>2. PICK a \in releases[run.id].assets :
             releases' = [releases EXCEPT ![run.id].assets = @ \ {a}]
      BY <1>7 DEF DeleteAsset
    <2>3. releases[run.id].assets \ {a} \in SUBSET Asset
      BY <2>1, AtCall, ReleaseFields
    <2>4. releases' \in [Ids -> Release \cup {None}]
      BY <2>1, <2>2, <2>3, AssetsSet
    <2> QED BY <2>1, <2>4 DEF ReleaseTypeOK
  <1>8. CASE UploadZip
    <2>1. /\ pc = "call" /\ run.action = "replace_assets"
          /\ UNCHANGED <<main, tag>>
      BY <1>8 DEF UploadZip
    <2>2. PICK new \in Release : releases' = [releases EXCEPT ![run.id] = new]
                                 /\ Answered(TRUE, new)
      BY <1>8, UploadZipMeans
    <2>3. releases' \in [Ids -> Release \cup {None}]
      BY <2>1, <2>2, AtCall, OneChanged
    <2>4. verdict' \in {verdict, "faulty"}
      BY <2>2, AnsweredMeans
    <2> QED BY <2>1, <2>3, <2>4 DEF ReleaseTypeOK
  <1>9. CASE UploadIsCutOff
    <2>1. /\ pc = "call" /\ run.action = "replace_assets"
          /\ UNCHANGED <<main, tag>> /\ verdict' = "faulty"
          /\ releases' = [releases EXCEPT ![run.id].assets = {Starter(run.d)}]
      BY <1>9 DEF UploadIsCutOff
    <2>2. run.d \in Desired
      BY DEF RunTypes, Run
    <2>3. {Starter(run.d)} \in SUBSET Asset
      BY <2>2, AssetsTyped
    <2>4. releases' \in [Ids -> Release \cup {None}]
      BY <2>1, <2>3, AssetsSet
    <2> QED BY <2>1, <2>4 DEF ReleaseTypeOK
  <1>10. CASE AlignTag
    <2>1. run.seen \in Release /\ run.d.commit \in 0..MaxCommit
      BY <1>10, AtCall DEF AlignTag, RunTypes, Run, Desired
    <2>2. verdict' \in {verdict, "faulty"}
      BY <1>10, <2>1, AnsweredMeans DEF AlignTag
    <2> QED BY <1>10, <2>1, <2>2 DEF AlignTag, ReleaseTypeOK
  <1>11. CASE Hide
    <2>1. releases' \in [Ids -> Release \cup {None}]
      BY <1>11, HideMeans
    <2> QED BY <1>11, <2>1 DEF Hide, ReleaseTypeOK
  <1>12. CASE UNCHANGED releaseVars
    BY <1>12
       DEF releaseVars, ReleaseTypeOK
  <1> QED BY <1>1, <1>2, <1>3, <1>4, <1>5, <1>6, <1>7, <1>8, <1>9, <1>10,
             <1>11, <1>12
         DEF ReleaseNext, RunSteps

(* Whatever changes assets or metadata changes the one release there is.   *)
LEMMA OneRelease ==
    ASSUME ReleaseTypeOK, RunTypes, Alone, Knows, Chosen,
           \/ MarkStaging \/ MarkAssetsVerified \/ MarkReady \/ Publish
           \/ DeleteAsset \/ UploadZip \/ UploadIsCutOff \/ AlignTag
    PROVE  Existing' = {run.id} /\ run.id \in Ids /\ Existing = {run.id}
  <1>1. CASE MarkStaging \/ MarkAssetsVerified \/ MarkReady \/ Publish
    <2>1. PICK stage \in Stages, draft \in BOOLEAN : Metadata(stage, draft)
      BY <1>1, MetadataCalls DEF Stages
    <2> QED BY <2>1, MetadataSet DEF Metadata, Existing
  <1>2. CASE DeleteAsset \/ UploadZip \/ UploadIsCutOff
    <2>1. pc = "call" /\ run.action = "replace_assets"
      BY <1>2 DEF DeleteAsset, UploadZip, UploadIsCutOff
    <2>2. /\ run.id \in Ids /\ Existing = {run.id}
          /\ releases[run.id] \in Release
      BY <2>1, AtCall
    <2>3. \E A \in SUBSET Asset :
             releases' = [releases EXCEPT ![run.id].assets = A]
      <3>1. run.d \in Desired
        BY DEF RunTypes, Run
      <3>2. {ZipOf(run.d)} \in SUBSET Asset /\ {Starter(run.d)} \in SUBSET Asset
        BY <3>1, AssetsTyped
      <3>3. \A a : releases[run.id].assets \ {a} \in SUBSET Asset
        BY <2>2, ReleaseFields
      <3>4. CASE DeleteAsset
        BY <3>3, <3>4 DEF DeleteAsset
      <3>5. CASE UploadZip
        <4>1. releases' = [releases EXCEPT
                 ![run.id] = [releases[run.id] EXCEPT !.assets = {ZipOf(run.d)}]]
          BY <3>5 DEF UploadZip
        <4> QED BY <2>2, <3>2, <4>1 DEF ReleaseTypeOK
      <3>6. CASE UploadIsCutOff
        BY <3>2, <3>6 DEF UploadIsCutOff
      <3> QED BY <1>2, <3>4, <3>5, <3>6
    <2> QED BY <2>1, <2>2, <2>3, AssetsSet
  <1>3. CASE AlignTag
    <2>1. Existing = {run.id} /\ run.id \in Ids
      BY <1>3, AtCall DEF AlignTag
    <2> QED BY <1>3, <2>1 DEF AlignTag, Existing
  <1> QED BY <1>1, <1>2, <1>3

(* The tag, and the commit of the run, are behind main.                    *)
LEMMA MainLeads ==
    ASSUME ReleaseTypeOK, RunTypes, Alone, Knows, Chosen, Behind, RunIsOfMain,
           [ReleaseNext]_releaseVars
    PROVE  Behind' /\ RunIsOfMain'
  <1> USE DEF Behind, RunIsOfMain
  <1>1. CASE MarkStaging \/ MarkAssetsVerified \/ Publish \/ MarkReady
    <2>1. PICK stage \in Stages, draft \in BOOLEAN : Metadata(stage, draft)
      BY <1>1, MetadataCalls DEF Stages
    <2>2. UNCHANGED <<main, tag>> /\ run'.d = run.d /\ pc # "idle"
      BY <2>1, MetadataSet DEF Metadata, Kept
    <2> QED BY <2>2
  <1>2. CASE Push
    BY <1>2
       DEF Push, ReleaseTypeOK, RunTypes, Run, Desired
  <1>3. CASE StartRun
    <2>1. PICK c \in 1..main, b \in Builds :
             run' = [NoRun EXCEPT !.d = [commit |-> c, build |-> b]]
      BY <1>3 DEF StartRun
    <2>2. run'.d.commit <= main
      BY <2>1 DEF NoRun, ReleaseTypeOK
    <2> QED BY <1>3, <2>2 DEF StartRun
  <1>4. CASE CreateDraft
    <2>1. PICK i \in Ids : CreatesDraft(i)
      BY <1>4, CreateDraftMeans
    <2> QED BY <2>1 DEF CreatesDraft, Kept
  <1>5. CASE UploadZip
    <2>1. PICK new \in Release : Answered(TRUE, new)
      BY <1>5, UploadZipMeans
    <2> QED BY <1>5, <2>1, AnsweredMeans DEF UploadZip, Kept
  <1>6. CASE AlignTag
    <2>1. run.seen \in Release
      BY <1>6, AtCall DEF AlignTag
    <2> QED BY <1>6, <2>1, AnsweredMeans DEF AlignTag, Kept
  <1>7. CASE ReadTag
    BY <1>7
       DEF ReadTag, RunTypes, Run
  <1>8. CASE Discover
    BY <1>8
       DEF Discover, Throw, RunTypes, Run
  <1>9. CASE Discovered
    BY <1>9
       DEF Discovered, RunTypes, Run
  <1>10. CASE Decide
    BY <1>10
       DEF Decide, Throw, RunTypes, Run
  <1>11. CASE ValidateLegacy
    BY <1>11
       DEF ValidateLegacy, Throw, RunTypes, Run
  <1>12. CASE VerifyDraftDownload
    BY <1>12
       DEF VerifyDraftDownload, Throw, RunTypes, Run
  <1>13. CASE VerifyPublic
    BY <1>13
       DEF VerifyPublic, Throw, RunTypes, Run
  <1>14. CASE Reread
    BY <1>14
       DEF Reread, Throw, RunTypes, Run
  <1>15. CASE DeleteAsset
    BY <1>15
       DEF DeleteAsset, RunTypes, Run
  <1>16. CASE UploadIsCutOff
    BY <1>16
       DEF UploadIsCutOff, RunTypes, Run
  <1>17. CASE AssertAtStart
    BY <1>17
       DEF AssertAtStart, Throw
  <1>18. CASE CleanStarter
    BY <1>18
       DEF CleanStarter
  <1>19. CASE CleanDuplicate
    BY <1>19
       DEF CleanDuplicate
  <1>20. CASE AssertMain
    BY <1>20
       DEF AssertMain, Throw
  <1>21. CASE Hide
    BY <1>21
       DEF Hide
  <1>22. CASE CallFails
    BY <1>22
       DEF CallFails, Throw
  <1>23. CASE Killed
    BY <1>23
       DEF Killed
  <1>24. CASE UNCHANGED releaseVars
    BY <1>24
       DEF releaseVars
  <1> QED BY <1>1, <1>2, <1>3, <1>4, <1>5, <1>6, <1>7, <1>8, <1>9, <1>10,
             <1>11, <1>12, <1>13, <1>14, <1>15, <1>16, <1>17, <1>18, <1>19,
             <1>20, <1>21, <1>22, <1>23, <1>24
         DEF ReleaseNext, RunSteps

(* What GitHub lists stays what a run can choose from.                     *)
LEMMA ListStays ==
    ASSUME ReleaseTypeOK, RunTypes, Alone, Knows, Chosen, Listed,
           [ReleaseNext]_releaseVars
    PROVE  Listed'
  <1>1. CASE MarkStaging \/ MarkAssetsVerified \/ MarkReady \/ Publish \/
           DeleteAsset \/ UploadZip \/ UploadIsCutOff \/ AlignTag
    BY <1>1, OneRelease DEF Listed
  <1>2. CASE Push \/ StartRun \/ ReadTag \/ AssertAtStart \/ Discover \/
           Discovered \/ Decide \/ AssertMain \/ ValidateLegacy \/
           VerifyDraftDownload \/ VerifyPublic \/ Reread \/ CallFails \/
           Killed \/ UNCHANGED releaseVars
    <2>1. UNCHANGED releases
      BY <1>2 DEF Push, StartRun, ReadTag, AssertAtStart, Discover, Discovered,
                  Decide, AssertMain, ValidateLegacy, VerifyDraftDownload,
                  VerifyPublic, Reread, CallFails, Killed, releaseVars
    <2> QED BY <2>1 DEF Listed, Existing, Spare
  <1>3. CASE CreateDraft
    <2>1. PICK i \in Ids : CreatesDraft(i)
      BY <1>3, CreateDraftMeans
    <2> QED BY <2>1 DEF CreatesDraft, Listed
  <1>4. CASE CleanStarter
    <2>1. PICK k \in Existing : \E a \in releases[k].assets :
             /\ a.starter /\ Existing' = Existing
             /\ \A j \in Ids \ {k} : releases'[j] = releases[j]
             /\ LET old == releases[k]
                    new == releases'[k]
                IN  /\ new.assets = old.assets \ {a}
                    /\ new.draft = old.draft /\ new.published = old.published
                    /\ new.marker = old.marker
      BY <1>4, CleanStarterMeans
    <2>2. CASE Existing = {} \/ \E i \in Ids : Existing = {i}
      BY <2>1, <2>2 DEF Listed
    <2>3. ASSUME NEW i \in Ids, NEW j \in Ids, Existing = {i, j}, i # j,
                 Spare(i), Spare(j), \A a \in releases[i].assets : a.starter
          PROVE  Listed'
      <3>1. Spare(i)' /\ Spare(j)'
        BY <2>1, <2>3 DEF Spare
      <3>2. \A a \in releases'[i].assets : a.starter
        BY <2>1, <2>3
      <3>3. Existing' = {i, j}
        BY <2>1, <2>3
      <3> QED BY <2>3, <3>1, <3>2, <3>3 DEF Listed
    <2> QED BY <2>2, <2>3 DEF Listed
  <1>5. CASE CleanDuplicate
    <2>1. PICK k \in Existing : Existing' = Existing \ {k}
      BY <1>5, CleanDuplicateMeans
    <2>2. CASE Existing = {} \/ \E i \in Ids : Existing = {i}
      BY <2>1, <2>2 DEF Listed
    <2>3. ASSUME NEW i \in Ids, NEW j \in Ids, Existing = {i, j}, i # j
          PROVE  Listed'
      <3>1. Existing' = {i} \/ Existing' = {j}
        BY <2>1, <2>3
      <3> QED BY <3>1 DEF Listed
    <2> QED BY <2>2, <2>3 DEF Listed
  <1>6. CASE Hide
    <2>1. CASE UNCHANGED releases
      BY <2>1 DEF Listed, Existing, Spare
    <2>2. CASE Existing' = Existing /\ Existing = {run.id}
      BY <2>2 DEF Listed, Existing
    <2> QED BY <1>6, <2>1, <2>2, HideMeans
  <1> QED BY <1>1, <1>2, <1>3, <1>4, <1>5, <1>6
         DEF ReleaseNext, RunSteps

(* A public release has no unfinished uploads; whichever it is, a run      *)
(* understands it.                                                         *)
LEMMA PublicUnderstood ==
    ASSUME PublicShape, ReleaseTypeOK, NEW i \in Existing, ~releases[i].draft
    PROVE  LET r == releases[i]
           IN  /\ Classified(r.assets)
               /\ ~ (HasStage(r, "ready") /\ ~ReadyIsTrue(r, tag))
               /\ \A a \in r.assets : ~a.starter
               /\ Cardinality(r.assets) = 3 =>
                     Cardinality({a.of : a \in r.assets}) = 1
  <1> DEFINE r == releases[i]
  <1>1. r \in Release /\ (IF r.marker = None THEN Legacy(r) ELSE Published(r))
    BY DEF PublicShape, Existing, ReleaseTypeOK
  <1> HIDE DEF r
  <1>2. CASE r.marker = None
    <2>1. r.assets = {ZipOf(OldBuild)} \/ r.assets = LegacyTrio(OldBuild)
      BY <1>1, <1>2 DEF Legacy
    <2>2. Classified(r.assets)
      BY <2>1, Counted, NothingIsNoRecord
    <2>3. \A a \in r.assets : ~a.starter
      <3>1. OldBuild \in Desired
        BY NothingIsNoRecord
      <3>2. /\ ~ZipOf(OldBuild).starter
            /\ \A a \in LegacyTrio(OldBuild) : ~a.starter
        BY <3>1, AssetsTyped
      <3> QED BY <2>1, <3>2
    <2>4. Cardinality(r.assets) = 3 => Cardinality({a.of : a \in r.assets}) = 1
      <3>1. OldBuild \in Desired
        BY NothingIsNoRecord
      <3>2. CASE r.assets = {ZipOf(OldBuild)}
        <4>1. Cardinality(r.assets) = 1
          BY <3>1, <3>2, Counted
        <4> QED BY <4>1
      <3>3. CASE r.assets = LegacyTrio(OldBuild)
        BY <3>1, <3>3, Counted
      <3> QED BY <2>1, <3>2, <3>3
    <2> QED BY <1>2, <2>2, <2>3, <2>4 DEF HasStage, r
  <1>3. CASE r.marker # None
    <2>1. /\ r.assets = {ZipOf(r.marker.desired)}
          /\ tag = r.marker.desired.commit /\ r.target = r.marker.desired.commit
      BY <1>1, <1>3 DEF Published
    <2>2. r.marker.desired \in Desired
      BY <1>1, <1>3 DEF Release, Marker
    <2>3. Classified(r.assets) /\ Cardinality(r.assets) = 1
      BY <2>1, <2>2, Counted
    <2>4. \A a \in r.assets : ~a.starter
      BY <2>1, <2>2, AssetsTyped
    <2>5. ReadyIsTrue(r, tag)
      BY <2>1 DEF ReadyIsTrue
    <2> QED BY <2>3, <2>4, <2>5 DEF r
  <1> QED BY <1>2, <1>3

(* What is public stays as it was published.                               *)
LEMMA PublicStays ==
    ASSUME ReleaseTypeOK, RunTypes, Alone, Knows, Chosen, KnowsTag,
           PublicShape, [ReleaseNext]_releaseVars
    PROVE  PublicShape'
  <1>1. CASE Push \/ StartRun \/ ReadTag \/ AssertAtStart \/ Discover \/
           Discovered \/ Decide \/ AssertMain \/ ValidateLegacy \/
           VerifyDraftDownload \/ VerifyPublic \/ Reread \/ CallFails \/
           Killed \/ UNCHANGED releaseVars
    <2>1. UNCHANGED <<releases, tag>>
      BY <1>1 DEF Push, StartRun, ReadTag, AssertAtStart, Discover, Discovered,
                  Decide, AssertMain, ValidateLegacy, VerifyDraftDownload,
                  VerifyPublic, Reread, CallFails, Killed, releaseVars
    <2> QED BY <2>1 DEF PublicShape, Existing, Legacy, Published
  <1>2. CASE MarkStaging \/ MarkAssetsVerified \/ MarkReady
    <2>1. PICK stage \in Stages : Metadata(stage, TRUE)
      BY <1>2, MetadataCalls DEF Stages
    <2>2. Existing' = {run.id} /\ releases'[run.id].draft = TRUE
      BY <2>1, MetadataSet, <1>2, OneRelease DEF Metadata
    <2> QED BY <2>2 DEF PublicShape
  <1>3. CASE Publish
    <2>1. Metadata("ready", FALSE) /\ run.action = "publish"
      BY <1>3, MetadataCalls
    <2> DEFINE new == releases'[run.id]
    <2>2. /\ Existing' = {run.id} /\ new.assets = run.seen.assets
          /\ new.target = run.d.commit /\ new.marker # None
          /\ new.marker = [stage |-> "ready", desired |-> run.d]
          /\ UNCHANGED tag
      BY <2>1, MetadataSet, <1>3, OneRelease DEF Metadata, Stages
    <2>3. run.seen \in Release \cup {None} /\ pc = "call"
      BY <2>1 DEF RunTypes, Run, Metadata
    <2>4. Exact(run.seen, run.d) /\ run.seenTag = run.d.commit
      BY <2>1, <2>3, ActionMeans DEF Chosen, Finishing
    <2>5. tag = run.d.commit
      BY <2>3, <2>4 DEF KnowsTag
    <2> HIDE DEF new
    <2>6. new.marker.stage = "ready" /\ new.marker.desired = run.d
      BY <2>2
    <2>7. /\ new.assets = {ZipOf(new.marker.desired)}
          /\ tag' = new.marker.desired.commit
          /\ new.target = new.marker.desired.commit
      BY <2>2, <2>4, <2>5, <2>6 DEF Exact
    <2> QED BY <2>2, <2>6, <2>7 DEF PublicShape, Published, new
  <1>4. CASE AlignTag
    <2>1. /\ pc = "call" /\ run.action = "align_tag" /\ UNCHANGED releases
          /\ Existing' = {run.id} /\ run.seen = releases[run.id]
          /\ run.seen \in Release
      BY <1>4, OneRelease, AtCall DEF AlignTag
    <2>2. run.seen.draft
      BY <2>1, ActionMeans DEF Chosen, Finishing
    <2> QED BY <2>1, <2>2 DEF PublicShape
  <1>5. CASE DeleteAsset \/ UploadIsCutOff
    <2>1. /\ pc = "call" /\ run.action = "replace_assets"
          /\ Existing' = {run.id} /\ releases[run.id].draft
          /\ releases[run.id] \in Release /\ run.id \in Ids
      BY <1>5, OneRelease, AtCall DEF DeleteAsset, UploadIsCutOff
    <2>2. \E A : releases' = [releases EXCEPT ![run.id].assets = A]
      BY <1>5 DEF DeleteAsset, UploadIsCutOff
    <2>3. releases'[run.id].draft
      BY <2>1, <2>2 DEF ReleaseTypeOK, Release
    <2> QED BY <2>1, <2>3 DEF PublicShape
  <1>6. CASE UploadZip
    <2>1. run.id \in Ids /\ Existing' = {run.id}
      BY <1>6, OneRelease
    <2>2. PICK new \in Release :
             releases' = [releases EXCEPT ![run.id] = new] /\ new.draft
      BY <1>6, UploadZipMeans
    <2>3. releases'[run.id].draft
      BY <2>1, <2>2 DEF ReleaseTypeOK
    <2> QED BY <2>1, <2>3 DEF PublicShape
  <1>7. CASE CreateDraft
    <2>1. PICK i \in Ids : CreatesDraft(i)
      BY <1>7, CreateDraftMeans
    <2>2. releases'[i].draft
      BY <2>1, DraftTyped DEF CreatesDraft, RunTypes, Run
    <2> QED BY <2>1, <2>2 DEF PublicShape, CreatesDraft
  <1>8. CASE CleanStarter
    <2>1. PICK k \in Existing : \E a \in releases[k].assets :
             /\ a.starter /\ Existing' = Existing
             /\ \A j \in Ids \ {k} : releases'[j] = releases[j]
             /\ LET old == releases[k]
                    new == releases'[k]
                IN  /\ new.assets = old.assets \ {a}
                    /\ new.draft = old.draft
      BY <1>8, CleanStarterMeans
    <2>2. releases[k].draft
      BY <2>1, PublicUnderstood
    <2>3. \A j \in Existing' : j = k \/ releases'[j] = releases[j]
      BY <2>1 DEF Existing
    <2>4. releases'[k].draft /\ Existing' = Existing /\ UNCHANGED tag
      BY <1>8, <2>1, <2>2 DEF CleanStarter
    <2> QED BY <2>3, <2>4 DEF PublicShape, Legacy, Published
  <1>9. CASE CleanDuplicate
    <2>1. PICK k \in Existing : /\ Existing' = Existing \ {k}
                                /\ \A j \in Ids \ {k} : releases'[j] = releases[j]
      BY <1>9, CleanDuplicateMeans
    <2>2. \A j \in Existing' : j \in Existing /\ releases'[j] = releases[j]
      BY <2>1 DEF Existing
    <2>3. UNCHANGED tag
      BY <1>9 DEF CleanDuplicate
    <2> QED BY <2>2, <2>3 DEF PublicShape, Legacy, Published
  <1>10. CASE Hide
    <2>1. UNCHANGED tag
      BY <1>10 DEF Hide
    <2>2. CASE UNCHANGED releases
      BY <2>1, <2>2 DEF PublicShape, Existing, Legacy, Published
    <2>3. CASE /\ Existing' = Existing /\ Existing = {run.id}
               /\ releases'[run.id].draft
      <3>1. \A i \in Existing' : releases'[i].draft
        BY <2>3
      <3> QED BY <3>1 DEF PublicShape
    <2> QED BY <1>10, <2>2, <2>3, HideMeans
  <1> QED BY <1>1, <1>2, <1>3, <1>4, <1>5, <1>6, <1>7, <1>8, <1>9, <1>10
         DEF ReleaseNext, RunSteps

(* The run's copy of the release and of the tag stays true.                *)
LEMMA CopyStays ==
    ASSUME ReleaseTypeOK, RunTypes, Alone, Knows, Chosen, Early, KnowsTag,
           [ReleaseNext]_releaseVars
    PROVE  Early' /\ Alone' /\ Knows' /\ KnowsTag'
  <1> USE DEF Early, Alone, Knows, KnowsTag, EarlyStages, WorkStages
  <1>1. CASE Push \/ Killed \/ Hide \/ UNCHANGED releaseVars
    BY <1>1
       DEF Push, Killed, Hide, releaseVars, Existing
  <1>2. CASE StartRun
    <2>1. /\ run'.seen = None /\ ~run'.began /\ run'.actions = 0
          /\ pc' = "read_tag"
      BY <1>2 DEF StartRun, NoRun
    <2> QED BY <2>1
  <1>3. CASE ReadTag \/ AssertAtStart
    BY <1>3
       DEF ReadTag, AssertAtStart, Throw, RunTypes, Run, Existing
  <1>4. CASE Discover
    <2>1. CASE Existing = {}
      BY <1>4, <2>1 DEF Discover, Existing
    <2>2. ASSUME NEW i \in Keepers, run' = [run EXCEPT !.id = i], pc' = "clean"
          PROVE  Early' /\ Alone' /\ Knows' /\ KnowsTag'
      <3>1. i \in Existing /\ UNCHANGED <<releases, tag>> /\ pc = "discover"
        BY <1>4, KeepersExist DEF Discover
      <3>2. i \in Existing' /\ run'.id = i
        BY <2>2, <3>1 DEF Existing, RunTypes, Run
      <3> QED BY <2>2, <3>1, <3>2 DEF RunTypes, Run
    <2>3. CASE UNCHANGED run /\ pc' = "idle"
      BY <2>3
    <2> QED BY <1>4, <2>1, <2>2, <2>3 DEF Discover, Throw
  <1>5. CASE CleanStarter
    <2>1. Existing' = Existing /\ UNCHANGED <<run, pc, tag>> /\ pc = "clean"
      BY <1>5, CleanStarterMeans DEF CleanStarter
    <2> QED BY <2>1
  <1>6. CASE CleanDuplicate
    <2>1. \E i \in Existing \ {run.id} : Existing' = Existing \ {i}
      BY <1>6, CleanDuplicateMeans
    <2>2. UNCHANGED <<run, pc, tag>> /\ pc = "clean"
      BY <1>6 DEF CleanDuplicate
    <2> QED BY <2>1, <2>2
  <1>7. CASE Discovered
    <2>1. /\ pc = "clean" /\ pc' = "decide" /\ Existing = {run.id}
          /\ run' = [run EXCEPT !.seen = releases[run.id]]
          /\ UNCHANGED <<releases, tag>>
      BY <1>7 DEF Discovered
    <2>2. Existing' = {run.id} /\ releases[run.id] # None
      BY <2>1 DEF Existing
    <2>3. run'.seen = releases[run.id] /\ run'.id = run.id
          /\ run'.seenTag = run.seenTag
      BY <2>1 DEF RunTypes, Run
    <2> QED BY <2>1, <2>2, <2>3
  <1>8. CASE Decide
    <2> DEFINE action == NextAction(run.seen, run.seenTag)
    <2>1. /\ pc = "decide" /\ UNCHANGED <<releases, tag>>
          /\ \/ pc' \in {"catch", "idle"} /\ UNCHANGED run
             \/ /\ run' = [run EXCEPT !.action = action, !.actions = @ + 1]
                /\ pc' \in {"assert_main", "call"}
      BY <1>8 DEF Decide, Throw
    <2>2. action = "replace_assets" => run.seen.draft /\ run.seen # None
      BY ActionMeans, NothingIsNoRecord DEF RunTypes, Run
    <2> HIDE DEF action
    <2>3. UNCHANGED Existing
      BY <2>1 DEF Existing
    <2>4. CASE pc' \in {"catch", "idle"} /\ UNCHANGED run
      BY <2>1, <2>3, <2>4
    <2>5. CASE /\ run' = [run EXCEPT !.action = action, !.actions = @ + 1]
               /\ pc' \in {"assert_main", "call"}
      <3>1. /\ run'.action = action /\ run'.seen = run.seen /\ run'.id = run.id
            /\ run'.seenTag = run.seenTag
        BY <2>5 DEF RunTypes, Run
      <3> QED BY <2>1, <2>2, <2>3, <2>5, <3>1
    <2> QED BY <2>1, <2>4, <2>5
  <1>9. CASE AssertMain
    <2>1. /\ pc = "assert_main" /\ pc' \in {"catch", "idle", "call"}
          /\ UNCHANGED <<run, releases, tag>>
      BY <1>9 DEF AssertMain, Throw
    <2>2. run.action = "replace_assets" => run.seen.draft
      BY <2>1, ActionMeans DEF Chosen, RunTypes, Run
    <2> QED BY <2>1, <2>2 DEF Existing
  <1>10. CASE ValidateLegacy \/ VerifyDraftDownload
    <2>1. /\ pc = "call" /\ pc' \in {"catch", "idle", "decide"}
          /\ UNCHANGED <<releases, tag>> /\ run.action # "replace_assets"
          /\ \/ run' = [run EXCEPT !.legacy = TRUE]
             \/ run' = [run EXCEPT !.authenticated = TRUE]
             \/ UNCHANGED run
      BY <1>10 DEF ValidateLegacy, VerifyDraftDownload, Throw
    <2>2. /\ run'.seen = run.seen /\ run'.id = run.id
          /\ run'.seenTag = run.seenTag
      BY <2>1 DEF RunTypes, Run
    <2> QED BY <2>1, <2>2 DEF Existing
  <1>11. CASE VerifyPublic
    <2>1. /\ pc = "call" /\ pc' \in {"catch", "idle", "decide"}
          /\ UNCHANGED <<releases, tag>> /\ run.action = "verify_public"
          /\ \/ run' = [run EXCEPT !.public = TRUE, !.seen = releases[run.id]]
             \/ UNCHANGED run
      BY <1>11 DEF VerifyPublic, Throw
    <2>2. run.seen = releases[run.id] /\ run.seen # None
      BY <2>1, AtCall
    <2>3. /\ run'.seen = run.seen /\ run'.id = run.id
          /\ run'.seenTag = run.seenTag
      BY <2>1, <2>2 DEF RunTypes, Run
    <2> QED BY <2>1, <2>2, <2>3 DEF Existing
  <1>12. CASE Reread
    <2>1. /\ pc = "reread" /\ UNCHANGED <<releases, tag>>
          /\ \/ UNCHANGED run /\ pc' \in {"catch", "idle"}
             \/ \E b : run' = [run EXCEPT !.seenTag = tag, !.authenticated = b]
                       /\ pc' = "decide"
      BY <1>12 DEF Reread, Throw
    <2>2. /\ run'.seen = run.seen /\ run'.id = run.id
          /\ pc' = "decide" => run'.seenTag = tag
      BY <2>1 DEF RunTypes, Run
    <2>3. /\ pc = "reread" /\ pc' \in {"decide", "catch", "idle"}
          /\ UNCHANGED <<releases, tag, Existing>>
      BY <2>1 DEF Existing
    <2> QED BY <2>2, <2>3
  <1>13. CASE CallFails
    <2>1. /\ pc' \in {"catch", "idle"} /\ UNCHANGED <<run, releases, tag>>
          /\ pc' = "catch" => run.began
          /\ pc \in EarlyStages \cup WorkStages
      BY <1>13 DEF CallFails, Throw, RunTypes, PCs
    <2> QED BY <2>1 DEF Existing
  <1>14. CASE DeleteAsset
    <2>1. /\ pc = "call" /\ run.action = "replace_assets" /\ UNCHANGED <<pc, tag>>
          /\ run' = [run EXCEPT !.began = TRUE]
          /\ Existing' = {run.id} /\ Existing = {run.id}
      BY <1>14, OneRelease DEF DeleteAsset
    <2>2. /\ run'.seen = run.seen /\ run'.id = run.id
          /\ run'.action = run.action /\ run'.seenTag = run.seenTag
      BY <2>1 DEF RunTypes, Run
    <2>3. /\ releases'[run.id].draft
          /\ releases'[run.id].target = releases[run.id].target
          /\ releases'[run.id].marker = releases[run.id].marker
      <3>1. releases[run.id] \in Release
        BY <2>1, AtCall
      <3>2. \A a : releases[run.id].assets \ {a} \in SUBSET Asset
        BY <3>1, ReleaseFields
      <3> QED BY <1>14, <2>1, <3>2, AssetsSet DEF DeleteAsset
    <2>4. run.seen # None
      BY <2>1, AtCall
    <2> QED BY <2>1, <2>2, <2>3, <2>4
  <1>15. CASE UploadZip
    <2>1. /\ pc = "call" /\ run.action = "replace_assets" /\ UNCHANGED tag
          /\ Existing' = {run.id} /\ Existing = {run.id} /\ run.id \in Ids
      BY <1>15, OneRelease DEF UploadZip
    <2>2. PICK new \in Release : releases' = [releases EXCEPT ![run.id] = new]
                                 /\ Answered(TRUE, new)
      BY <1>15, UploadZipMeans
    <2>3. /\ run'.id = run.id
          /\ \/ pc' = "reread" /\ run'.seen = new
             \/ pc' \in {"catch", "idle"} /\ run'.seen = run.seen
      BY <2>2, AnsweredMeans
    <2>4. releases'[run.id] = new /\ new # None /\ run.seen # None
      BY <2>1, <2>2, NothingIsNoRecord, AtCall DEF ReleaseTypeOK
    <2> QED BY <2>1, <2>3, <2>4
  <1>16. CASE UploadIsCutOff
    <2>1. /\ pc' = "catch" /\ run' = [run EXCEPT !.began = TRUE]
          /\ Existing' = {run.id}
      BY <1>16, OneRelease DEF UploadIsCutOff
    <2>2. run'.id = run.id
      BY <2>1 DEF RunTypes, Run
    <2> QED BY <2>1, <2>2
  <1>17. CASE AlignTag
    <2>1. /\ pc = "call" /\ run.action = "align_tag" /\ UNCHANGED releases
          /\ Existing' = {run.id} /\ run.seen = releases[run.id]
          /\ run.seen \in Release /\ Answered(TRUE, run.seen)
      BY <1>17, OneRelease, AtCall DEF AlignTag
    <2>2. /\ run'.id = run.id /\ run'.seen = run.seen
          /\ pc' \in {"reread", "catch", "idle"}
      BY <2>1, AnsweredMeans
    <2> QED BY <2>1, <2>2, NothingIsNoRecord
  <1>18. CASE MarkStaging \/ MarkAssetsVerified \/ Publish \/ MarkReady
    <2>1. PICK stage \in Stages, draft \in BOOLEAN : Metadata(stage, draft)
      BY <1>18, MetadataCalls DEF Stages
    <2>2. /\ Existing' = {run.id} /\ run'.id = run.id /\ releases'[run.id] # None
          /\ \/ pc' = "reread" /\ run'.seen = releases'[run.id]
             \/ pc' \in {"catch", "idle"} /\ run'.seen = run.seen
      BY <2>1, MetadataSet DEF Metadata
    <2> QED BY <2>2
  <1>19. CASE CreateDraft
    <2>1. PICK i \in Ids : CreatesDraft(i)
      BY <1>19, CreateDraftMeans
    <2>2. Draft(run.d) # None
      BY DraftTyped DEF RunTypes, Run
    <2> QED BY <2>1, <2>2 DEF CreatesDraft
  <1> QED BY <1>1, <1>2, <1>3, <1>4, <1>5, <1>6, <1>7, <1>8, <1>9, <1>10,
             <1>11, <1>12, <1>13, <1>14, <1>15, <1>16, <1>17, <1>18, <1>19
         DEF ReleaseNext, RunSteps

-----------------------------------------------------------------------------
(* The actions bring the release forward                                   *)

(* The ranks, one by one.                                                  *)
LEMMA RankValues ==
    /\ Rank["validate_legacy"] = 9 /\ Rank["hide_and_mark_staging"] = 8
    /\ Rank["mark_staging"] = 8 /\ Rank["create_draft"] = 8
    /\ Rank["replace_assets"] = 7 /\ Rank["verify_draft_download"] = 6
    /\ Rank["mark_assets_verified"] = 5 /\ Rank["align_tag"] = 4
    /\ Rank["mark_ready"] = 3 /\ Rank["publish"] = 2
    /\ Rank["verify_public"] = 1 /\ Rank["done"] = 0
  BY DEF Rank, Actions

(* The choice depends on these variables of the run only.                  *)
LEMMA SameChoice ==
    ASSUME run'.seen = run.seen, run'.seenTag = run.seenTag, run'.d = run.d,
           run'.legacy = run.legacy, run'.authenticated = run.authenticated,
           run'.public = run.public
    PROVE  NextAction(run.seen, run.seenTag)' = NextAction(run.seen, run.seenTag)
  BY DEF NextAction, DraftAction, PublishedAction, HasStage, Exact, ReadyIsTrue

(* What is chosen in the next state, where a draft has been marked for the *)
(* run ...                                                                 *)
LEMMA NextOfDraft ==
    ASSUME RunTypes', run'.seen \in Release, run'.seen.draft,
           run'.seen.target = run'.d.commit, NEW stage \in Stages,
           run'.seen.marker = [stage |-> stage, desired |-> run'.d],
           NEW a, a = NextAction(run.seen, run.seenTag)'
    PROVE  /\ stage = "staging" => IF run'.seen.assets # {ZipOf(run'.d)}
                                   THEN a = "replace_assets"
                                   ELSE IF run'.authenticated
                                        THEN a = "mark_assets_verified"
                                        ELSE a = "verify_draft_download"
           /\ stage # "staging" /\ run'.seen.assets = {ZipOf(run'.d)} =>
                 IF run'.seenTag # run'.d.commit THEN a = "align_tag"
                 ELSE IF stage = "assets_verified" THEN a = "mark_ready"
                      ELSE a = "publish"
  <1>1. run'.seen # None
    BY NothingIsNoRecord
  <1>2. [stage |-> stage, desired |-> run'.d] \in Marker
    BY DEF RunTypes, Run, Marker
  <1>3. /\ run'.seen.marker # None /\ run'.seen.marker.stage = stage
        /\ run'.seen.marker.desired = run'.d
    BY <1>2, NothingIsNoRecord
  <1> QED BY <1>1, <1>3 DEF NextAction, DraftAction, Exact, Stages

(* ... and where the release was published.                                *)
LEMMA NextOfPublished ==
    ASSUME RunTypes', run'.seen \in Release, ~run'.seen.draft,
           run'.seen.target = run'.d.commit,
           run'.seen.marker = [stage |-> "ready", desired |-> run'.d],
           run'.seen.assets = {ZipOf(run'.d)}, run'.seenTag = run'.d.commit
    PROVE  NextAction(run.seen, run.seenTag)' =
              IF run'.public THEN "done" ELSE "verify_public"
  <1>1. run'.seen # None /\ run'.d \in Desired
    BY NothingIsNoRecord DEF RunTypes, Run
  <1>2. [stage |-> "ready", desired |-> run'.d] \in Marker
    BY <1>1 DEF Marker, Stages
  <1>3. /\ run'.seen.marker # None /\ run'.seen.marker.stage = "ready"
        /\ run'.seen.marker.desired = run'.d
    BY <1>2, NothingIsNoRecord
  <1>4. Classified(run'.seen.assets) /\ ZipOf(run'.d) \in run'.seen.assets
    BY <1>1, Counted
  <1> QED BY <1>1, <1>3, <1>4
          DEF NextAction, PublishedAction, Exact, HasStage, ReadyIsTrue

(* A release that nobody has prepared for the run is never refused.        *)
LEMMA NextOfAny ==
    ASSUME RunTypes', NEW a, a = NextAction(run.seen, run.seenTag)',
           run'.seen # None /\ ~run'.seen.draft =>
               /\ Classified(run'.seen.assets)
               /\ ~ (/\ run'.seen.marker # None
                     /\ run'.seen.marker.stage = "ready"
                     /\ ~ /\ ZipOf(run'.seen.marker.desired) \in run'.seen.assets
                          /\ run'.seenTag = run'.seen.marker.desired.commit
                          /\ run'.seen.target = run'.seen.marker.desired.commit)
    PROVE  /\ a \in Actions \cup {"done"} /\ Rank[a] \in 0..9
           /\ run'.legacy => a # "validate_legacy"
  <1>1. /\ a \in Actions \cup {"done"} /\ a # "refused"
        /\ run'.legacy => a # "validate_legacy"
    BY DEF NextAction, DraftAction, PublishedAction, HasStage, ReadyIsTrue,
           Actions
  <1> QED BY <1>1, RankValues DEF Actions

(* validate_legacy, and only it, may be followed by nine others.           *)
LEMMA RankBound == \A a \in Actions \cup {"done"} :
    Rank[a] \in 0..9 /\ (Rank[a] = 9 <=> a = "validate_legacy")
  BY RankValues DEF Actions

(* What was chosen is what the state of the release calls for.             *)
LEMMA ChoiceStays ==
    ASSUME ReleaseTypeOK, RunTypes, Alone, Knows, Chosen, KnowsTag, Behind,
           TagIsBehind, [ReleaseNext]_releaseVars
    PROVE  Chosen' /\ TagIsBehind'
  <1> USE DEF Chosen, TagIsBehind
  <1>1. CASE StartRun \/ ReadTag \/ AssertAtStart \/ Discover \/ CleanStarter
           \/ CleanDuplicate \/ Discovered \/ Reread \/ Killed \/ Hide \/
           CallFails \/ UploadIsCutOff \/ ValidateLegacy \/
           VerifyDraftDownload \/ VerifyPublic
    <2>1. pc' \notin {"assert_main", "call", "reread"}
      BY <1>1 DEF StartRun, ReadTag, AssertAtStart, Discover, CleanStarter,
                  CleanDuplicate, Discovered, Reread, Killed, Hide, CallFails,
                  UploadIsCutOff, ValidateLegacy, VerifyDraftDownload,
                  VerifyPublic, Throw
    <2> QED BY <2>1
  <1>2. CASE MarkStaging \/ MarkAssetsVerified \/ Publish \/ MarkReady \/
           CreateDraft \/ UploadZip \/ AlignTag
    <2>1. pc' \in {"reread", "catch", "idle"}
      BY <1>2 DEF MarkStaging, MarkAssetsVerified, MarkReady, Publish,
                  CreateDraft, UploadZip, AlignTag, SetMetadata, Answered, Throw
    <2> QED BY <2>1
  <1>3. CASE Push \/ UNCHANGED releaseVars
    <2>1. UNCHANGED <<run, pc, tag>>
      BY <1>3 DEF Push, releaseVars
    <2> QED BY <2>1, SameChoice
  <1>4. CASE DeleteAsset
    <2>1. /\ run' = [run EXCEPT !.began = TRUE] /\ UNCHANGED <<pc, tag>>
          /\ pc = "call"
      BY <1>4 DEF DeleteAsset
    <2>2. /\ run'.seen = run.seen /\ run'.seenTag = run.seenTag
          /\ run'.d = run.d /\ run'.legacy = run.legacy
          /\ run'.authenticated = run.authenticated
          /\ run'.public = run.public /\ run'.action = run.action
      BY <2>1 DEF RunTypes, Run
    <2>3. NextAction(run.seen, run.seenTag)' = NextAction(run.seen, run.seenTag)
      BY <2>2, SameChoice
    <2> QED BY <2>1, <2>2, <2>3
  <1>5. CASE Decide
    <2> DEFINE action == NextAction(run.seen, run.seenTag)
    <2>1. action \in Actions \cup {"done", "refused"}
      BY ActionMeans DEF RunTypes, Run
    <2>2. CASE pc' \notin {"assert_main", "call"}
      BY <2>2
    <2>3. CASE /\ run' = [run EXCEPT !.action = action, !.actions = @ + 1]
               /\ action \notin {"done", "refused"}
               /\ pc' = IF action \in AsksForMain THEN "assert_main" ELSE "call"
      <3> HIDE DEF action
      <3>1. /\ run'.seen = run.seen /\ run'.seenTag = run.seenTag
            /\ run'.d = run.d /\ run'.legacy = run.legacy
            /\ run'.authenticated = run.authenticated
            /\ run'.public = run.public /\ run'.action = action
        BY <2>3 DEF RunTypes, Run
      <3>2. NextAction(run.seen, run.seenTag)' = action
        BY <3>1, SameChoice DEF action
      <3> QED BY <2>1, <2>3, <3>1, <3>2 DEF AsksForMain
    <2> QED BY <1>5, <2>2, <2>3 DEF Decide, Throw
  <1>6. CASE AssertMain
    <2>1. UNCHANGED <<run, tag>> /\ pc = "assert_main"
          /\ (pc' = "call" => main = run.d.commit)
          /\ pc' \in {"call", "catch", "idle"}
      BY <1>6 DEF AssertMain, Throw, MainStillExpected
    <2>2. NextAction(run.seen, run.seenTag)' = NextAction(run.seen, run.seenTag)
      BY <2>1, SameChoice
    <2> QED BY <2>1, <2>2 DEF Behind
  <1> QED BY <1>1, <1>2, <1>3, <1>4, <1>5, <1>6
         DEF ReleaseNext, RunSteps

(* A change that is answered has brought about what it was for.            *)
LEMMA AchievedStays ==
    ASSUME ReleaseTypeOK, RunTypes, Alone, Knows, Chosen, KnowsTag, Achieved,
           [ReleaseNext]_releaseVars
    PROVE  Achieved'
  <1> USE DEF Achieved
  <1>1. CASE StartRun \/ ReadTag \/ AssertAtStart \/ Discover \/ CleanStarter
           \/ CleanDuplicate \/ Discovered \/ Reread \/ Killed \/ Hide \/
           CallFails \/ UploadIsCutOff \/ ValidateLegacy \/
           VerifyDraftDownload \/ VerifyPublic \/ Decide \/ AssertMain \/
           DeleteAsset
    <2>1. pc' # "reread"
      BY <1>1 DEF StartRun, ReadTag, AssertAtStart, Discover, CleanStarter,
                  CleanDuplicate, Discovered, Reread, Killed, Hide, CallFails,
                  UploadIsCutOff, ValidateLegacy, VerifyDraftDownload,
                  VerifyPublic, Throw, Decide, AssertMain, DeleteAsset
    <2> QED BY <2>1
  <1>2. CASE Push \/ UNCHANGED releaseVars
    <2>1. UNCHANGED <<run, pc, tag>>
      BY <1>2 DEF Push, releaseVars
    <2> QED BY <2>1 DEF Says, Exact
  <1>3. CASE CreateDraft
    <2>1. PICK i \in Ids : CreatesDraft(i)
      BY <1>3, CreateDraftMeans
    <2>2. run.d \in Desired
      BY DEF RunTypes, Run
    <2> QED BY <2>1, <2>2, DraftTyped DEF CreatesDraft, Kept, Says
  <1>4. CASE UploadZip
    <2>1. PICK new \in Release :
             /\ Answered(TRUE, new) /\ new.assets = {ZipOf(run.d)} /\ new.draft
             /\ new.marker = releases[run.id].marker
             /\ new.target = releases[run.id].target
      BY <1>4, UploadZipMeans
    <2>2. pc = "call" /\ run.action = "replace_assets"
      BY <1>4 DEF UploadZip
    <2>3. /\ run.seen \in Release /\ run.seen.target = run.d.commit
          /\ run.seen.marker # None
          /\ run.seen.marker.desired = run.d /\ run.seen.marker.stage = "staging"
      BY <2>2, ActionMeans DEF Chosen, RunTypes, Run
    <2>4. run.seen.marker = [stage |-> "staging", desired |-> run.d]
      BY <2>3 DEF Release, Marker
    <2>5. new.marker = run.seen.marker /\ new.target = run.seen.target
      BY <2>1, <2>2, <2>3, NothingIsNoRecord DEF Knows, WorkStages
    <2>6. /\ Kept
          /\ \/ pc' = "reread" /\ run'.seen = new
             \/ pc' \in {"catch", "idle"}
      BY <2>1, AnsweredMeans
    <2> QED BY <2>1, <2>2, <2>3, <2>4, <2>5, <2>6 DEF Kept, Says, Exact
  <1>5. CASE AlignTag
    <2>1. pc = "call" /\ run.action = "align_tag" /\ tag' = run.d.commit
      BY <1>5 DEF AlignTag
    <2>2. /\ run.seen \in Release /\ run.seen.draft
          /\ run.seen.target = run.d.commit
          /\ run.seen.marker # None /\ run.seen.marker.desired = run.d
          /\ run.seen.marker.stage # "staging" /\ Exact(run.seen, run.d)
      BY <2>1, ActionMeans DEF Chosen, Finishing, RunTypes, Run
    <2>3. \/ run.seen.marker = [stage |-> "assets_verified", desired |-> run.d]
          \/ run.seen.marker = [stage |-> "ready", desired |-> run.d]
      BY <2>2 DEF Release, Marker, Stages
    <2>4. /\ Kept
          /\ \/ pc' = "reread" /\ run'.seen = run.seen
             \/ pc' \in {"catch", "idle"}
      BY <1>5, <2>2, AnsweredMeans DEF AlignTag
    <2> QED BY <2>1, <2>2, <2>3, <2>4 DEF Kept, Says, Exact
  <1>6. CASE MarkStaging
    <2>1. /\ Metadata("staging", TRUE)
          /\ run.action \in {"hide_and_mark_staging", "mark_staging"}
      BY <1>6, MetadataCalls
    <2> QED BY <2>1, MetadataSet DEF Metadata, Kept, Says, Stages
  <1>7. CASE MarkAssetsVerified
    <2>1. /\ Metadata("assets_verified", TRUE)
          /\ run.action = "mark_assets_verified" /\ pc = "call"
      BY <1>7, MetadataCalls DEF Metadata
    <2>2. Exact(run.seen, run.d)
      BY <2>1, ActionMeans DEF Chosen, Finishing, RunTypes, Run
    <2> QED BY <2>1, <2>2, MetadataSet DEF Metadata, Kept, Says, Stages, Exact
  <1>8. CASE MarkReady
    <2>1. /\ Metadata("ready", TRUE)
          /\ run.action = "mark_ready" /\ pc = "call"
      BY <1>8, MetadataCalls DEF Metadata
    <2>2. Exact(run.seen, run.d) /\ run.seenTag = run.d.commit
      BY <2>1, ActionMeans DEF Chosen, Finishing, RunTypes, Run
    <2>3. tag = run.d.commit
      BY <2>1, <2>2 DEF KnowsTag
    <2> QED BY <2>1, <2>2, <2>3, MetadataSet
            DEF Metadata, Kept, Says, Stages, Exact
  <1>9. CASE Publish
    <2>1. /\ Metadata("ready", FALSE)
          /\ run.action = "publish" /\ pc = "call"
      BY <1>9, MetadataCalls DEF Metadata
    <2>2. Exact(run.seen, run.d) /\ run.seenTag = run.d.commit
      BY <2>1, ActionMeans DEF Chosen, Finishing, RunTypes, Run
    <2>3. tag = run.d.commit
      BY <2>1, <2>2 DEF KnowsTag
    <2> QED BY <2>1, <2>2, <2>3, MetadataSet
            DEF Metadata, Kept, Stages, Exact
  <1> QED BY <1>1, <1>2, <1>3, <1>4, <1>5, <1>6, <1>7, <1>8, <1>9
         DEF ReleaseNext, RunSteps

(* What an answered change leads to: an action of lower rank.              *)
LEMMA AchievedLeads ==
    ASSUME RunTypes, RunTypes', Alone, Achieved, pc = "reread",
           NEW a, a = NextAction(run.seen, run.seenTag)',
           run'.seen = run.seen, run'.d = run.d, run'.seenTag = tag,
           run'.authenticated = (run.authenticated /\ run.action \notin
               {"hide_and_mark_staging", "mark_staging", "replace_assets"})
    PROVE  a \in Actions \cup {"done"} /\ Rank[a] < Rank[run.action]
  <1> DEFINE whole == run.seen.assets = {ZipOf(run.d)}
  <1>1. run.seen \in Release
    BY DEF RunTypes, Run, Alone, WorkStages
  <1>2. ASSUME NEW stage \in Stages, Says(stage)
        PROVE  /\ stage = "staging" => IF ~whole THEN a = "replace_assets"
                                       ELSE IF run'.authenticated
                                            THEN a = "mark_assets_verified"
                                            ELSE a = "verify_draft_download"
               /\ stage # "staging" /\ whole =>
                     IF tag # run.d.commit THEN a = "align_tag"
                     ELSE IF stage = "assets_verified" THEN a = "mark_ready"
                          ELSE a = "publish"
    BY <1>1, <1>2, NextOfDraft DEF Says
  <1>3. CASE /\ Says("staging")
             /\ run.action \in {"create_draft", "hide_and_mark_staging",
                                "mark_staging"}
    <2>1. a \in {"replace_assets", "mark_assets_verified",
                 "verify_draft_download"}
      BY <1>2, <1>3 DEF Stages
    <2> QED BY <1>3, <2>1, RankValues DEF Actions
  <1>4. CASE run.action = "replace_assets" /\ Says("staging") /\ whole
    <2>1. a = "verify_draft_download"
      BY <1>2, <1>4 DEF Stages
    <2> QED BY <1>4, <2>1, RankValues DEF Actions
  <1>5. CASE /\ run.action = "mark_assets_verified"
             /\ Says("assets_verified") /\ whole
    <2>1. a \in {"align_tag", "mark_ready"}
      BY <1>2, <1>5 DEF Stages
    <2> QED BY <1>5, <2>1, RankValues DEF Actions
  <1>6. CASE /\ run.action = "align_tag" /\ whole /\ tag = run.d.commit
             /\ Says("assets_verified") \/ Says("ready")
    <2>1. a \in {"mark_ready", "publish"}
      BY <1>2, <1>6 DEF Stages
    <2> QED BY <1>6, <2>1, RankValues DEF Actions
  <1>7. CASE /\ run.action = "mark_ready" /\ whole /\ tag = run.d.commit
             /\ Says("ready")
    <2>1. a = "publish"
      BY <1>2, <1>7 DEF Stages
    <2> QED BY <1>7, <2>1, RankValues DEF Actions
  <1>8. CASE /\ run.action = "publish" /\ whole /\ tag = run.d.commit
             /\ ~run.seen.draft /\ run.seen.target = run.d.commit
             /\ run.seen.marker = [stage |-> "ready", desired |-> run.d]
    <2>1. a \in {"done", "verify_public"}
      BY <1>1, <1>8, NextOfPublished
    <2> QED BY <1>8, <2>1, RankValues DEF Actions
  <1> QED BY <1>3, <1>4, <1>5, <1>6, <1>7, <1>8 DEF Achieved, Exact

(* A release nobody has prepared for the run, as it was read.              *)
LEMMA ReadLeads ==
    ASSUME ReleaseTypeOK, PublicShape, RunTypes', Existing = {run.id},
           run'.seen = releases[run.id], run'.seenTag = tag,
           NEW a, a = NextAction(run.seen, run.seenTag)'
    PROVE  /\ a \in Actions \cup {"done"} /\ Rank[a] \in 0..9
           /\ run'.legacy => a # "validate_legacy"
  <1>1. run.id \in Existing
    OBVIOUS
  <1>2. CASE releases[run.id].draft
    BY <1>2, NextOfAny
  <1>3. CASE ~releases[run.id].draft
    <2>1. /\ Classified(releases[run.id].assets)
          /\ ~ (HasStage(releases[run.id], "ready")
                /\ ~ReadyIsTrue(releases[run.id], tag))
      BY <1>1, <1>3, PublicUnderstood
    <2> QED BY <2>1, NextOfAny DEF HasStage, ReadyIsTrue
  <1> QED BY <1>2, <1>3

(* With each action fewer are left.                                        *)
LEMMA ForwardStays ==
    ASSUME ReleaseTypeOK, RunTypes, Alone, Knows, Chosen, Early, KnowsTag,
           Achieved, PublicShape, Forward, RunTypes',
           [ReleaseNext]_releaseVars
    PROVE  Forward'
  <1> USE DEF Forward, WorkStages
  <1>1. CASE StartRun \/ ReadTag \/ AssertAtStart \/ CleanStarter \/
           CleanDuplicate \/ Killed \/ Hide \/ CallFails \/ UploadIsCutOff
    <2>1. pc' \notin WorkStages
      BY <1>1 DEF StartRun, ReadTag, AssertAtStart, CleanStarter,
                  CleanDuplicate, Killed, Hide, CallFails, UploadIsCutOff, Throw
    <2> QED BY <2>1
  <1>2. CASE Push \/ UNCHANGED releaseVars
    <2>1. UNCHANGED <<run, pc>>
      BY <1>2 DEF Push, releaseVars
    <2> QED BY <2>1, SameChoice
  <1>3. CASE Discover
    <2>1. CASE pc' # "decide"
      <3>1. pc' \in {"clean", "catch", "idle"}
        BY <1>3, <2>1 DEF Discover, Throw
      <3> QED BY <3>1
    <2>2. CASE pc' = "decide"
      <3>1. UNCHANGED run /\ run.seen = None /\ run.actions = 0
        BY <1>3, <2>2 DEF Discover, Throw, Early, EarlyStages
      <3>2. NextAction(run.seen, run.seenTag)' = "create_draft"
        BY <3>1 DEF NextAction
      <3> QED BY <2>2, <3>1, <3>2, RankValues DEF Actions
    <2> QED BY <2>1, <2>2
  <1>4. CASE Discovered
    <2> DEFINE a == NextAction(run.seen, run.seenTag)'
    <2>1. /\ pc = "clean" /\ pc' = "decide" /\ Existing = {run.id}
          /\ run' = [run EXCEPT !.seen = releases[run.id]]
          /\ run.actions = 0 /\ run.seenTag = tag
      BY <1>4 DEF Discovered, Early, EarlyStages
    <2>2. /\ run'.seen = releases[run.id] /\ run'.seenTag = tag
          /\ run'.actions = 0
      BY <2>1 DEF RunTypes, Run
    <2>3. a \in Actions \cup {"done"} /\ Rank[a] \in 0..9
      BY <2>1, <2>2, ReadLeads
    <2> QED BY <2>1, <2>2, <2>3
  <1>5. CASE Decide
    <2> DEFINE action == NextAction(run.seen, run.seenTag)
    <2>1. /\ action \in Actions \cup {"done"}
          /\ run.actions + Rank[action] <= 9 /\ Rank[action] \in 0..9
      BY <1>5, RankBound DEF Decide
    <2>2. \/ pc' \in {"catch", "idle"}
          \/ /\ run' = [run EXCEPT !.action = action, !.actions = @ + 1]
             /\ pc' \in {"assert_main", "call"} /\ action # "done"
      BY <1>5 DEF Decide, Throw
    <2> HIDE DEF action
    <2>3. CASE /\ run' = [run EXCEPT !.action = action, !.actions = @ + 1]
               /\ pc' \in {"assert_main", "call"} /\ action # "done"
      <3>1. /\ run'.action = action /\ run'.actions = run.actions + 1
            /\ run.actions \in Nat
        BY <2>3 DEF RunTypes, Run
      <3> QED BY <2>1, <2>3, <3>1
    <2> QED BY <2>2, <2>3
  <1>6. CASE AssertMain
    <2>1. /\ pc = "assert_main" /\ pc' \in {"call", "catch", "idle"}
          /\ UNCHANGED run
      BY <1>6 DEF AssertMain, Throw
    <2> QED BY <2>1
  <1>7. CASE MarkStaging \/ MarkAssetsVerified \/ Publish \/ MarkReady \/
           CreateDraft \/ UploadZip \/ AlignTag \/ DeleteAsset
    <2>1. pc = "call" /\ pc' \in {"call", "reread", "catch", "idle"}
      BY <1>7 DEF MarkStaging, MarkAssetsVerified, MarkReady, Publish,
                  CreateDraft, UploadZip, AlignTag, SetMetadata, Answered, Throw,
                  DeleteAsset
    <2>2. run'.action = run.action /\ run'.actions = run.actions
      <3>1. CASE MarkStaging \/ MarkAssetsVerified \/ MarkReady \/ Publish
        <4>1. PICK stage \in Stages, draft \in BOOLEAN : Metadata(stage, draft)
          BY <3>1, MetadataCalls DEF Stages
        <4> QED BY <4>1, MetadataSet DEF Metadata, Kept
      <3>2. CASE CreateDraft
        BY <3>2, CreateDraftMeans DEF CreatesDraft, Kept
      <3>3. CASE UploadZip
        BY <3>3, UploadZipMeans, AnsweredMeans DEF Kept
      <3>4. CASE AlignTag
        <4>1. run.seen \in Release
          BY <3>4, AtCall DEF AlignTag
        <4> QED BY <3>4, <4>1, AnsweredMeans DEF AlignTag, Kept
      <3>5. CASE DeleteAsset
        BY <3>5 DEF DeleteAsset, RunTypes, Run
      <3> QED BY <1>7, <3>1, <3>2, <3>3, <3>4, <3>5
    <2> QED BY <2>1, <2>2
  <1>8. CASE ValidateLegacy
    <2> DEFINE a == NextAction(run.seen, run.seenTag)'
    <2>1. /\ pc = "call" /\ run.action = "validate_legacy"
          /\ \/ pc' \in {"catch", "idle"}
             \/ run' = [run EXCEPT !.legacy = TRUE] /\ pc' = "decide"
          /\ run.seen = releases[run.id] /\ Existing = {run.id}
      BY <1>8, AtCall DEF ValidateLegacy, Throw
    <2>2. CASE run' = [run EXCEPT !.legacy = TRUE] /\ pc' = "decide"
      <3>1. /\ run'.seen = releases[run.id] /\ run'.seenTag = tag
            /\ run'.actions = run.actions /\ run'.legacy /\ run.actions \in Nat
        BY <2>1, <2>2 DEF RunTypes, Run, KnowsTag
      <3>2. /\ a \in Actions \cup {"done"} /\ a # "validate_legacy"
            /\ Rank[a] \in 0..9
        BY <2>1, <3>1, ReadLeads
      <3>3. run.actions <= 1
        BY <2>1, <3>1, RankValues
      <3>4. Rank[a] # 9
        BY <3>2, RankBound
      <3> QED BY <2>2, <3>1, <3>2, <3>3, <3>4
    <2> QED BY <2>1, <2>2
  <1>9. CASE VerifyDraftDownload
    <2> DEFINE a == NextAction(run.seen, run.seenTag)'
    <2>1. /\ pc = "call" /\ run.action = "verify_draft_download"
          /\ \/ pc' \in {"catch", "idle"}
             \/ run' = [run EXCEPT !.authenticated = TRUE] /\ pc' = "decide"
      BY <1>9 DEF VerifyDraftDownload, Throw
    <2>2. CASE run' = [run EXCEPT !.authenticated = TRUE] /\ pc' = "decide"
      <3>1. /\ run'.seen = run.seen /\ run'.d = run.d /\ run'.authenticated
            /\ run'.actions = run.actions /\ run.actions \in Nat
        BY <2>2 DEF RunTypes, Run
      <3>2. /\ run.seen \in Release /\ run.seen.draft
            /\ run.seen.target = run.d.commit /\ run.seen.marker # None
            /\ run.seen.marker.desired = run.d
            /\ run.seen.marker.stage = "staging" /\ Exact(run.seen, run.d)
        BY <2>1, ActionMeans DEF Chosen, Finishing, RunTypes, Run
      <3>3. run.seen.marker = [stage |-> "staging", desired |-> run.d]
        BY <3>2 DEF Release, Marker
      <3>4. a = "mark_assets_verified"
        BY <3>1, <3>2, <3>3, NextOfDraft DEF Stages, Exact
      <3>5. run.actions <= 4
        BY <2>1, <3>1, RankValues
      <3> QED BY <2>2, <3>1, <3>4, <3>5, RankValues DEF Actions
    <2> QED BY <2>1, <2>2
  <1>10. CASE VerifyPublic
    <2> DEFINE a == NextAction(run.seen, run.seenTag)'
    <2>1. /\ pc = "call" /\ run.action = "verify_public"
          /\ \/ pc' \in {"catch", "idle"}
             \/ /\ run' = [run EXCEPT !.public = TRUE, !.seen = releases[run.id]]
                /\ pc' = "decide" /\ ContractHolds(releases[run.id], FALSE)
          /\ run.seen = releases[run.id]
      BY <1>10, AtCall DEF VerifyPublic, Throw
    <2>2. CASE /\ run' = [run EXCEPT !.public = TRUE, !.seen = releases[run.id]]
               /\ pc' = "decide" /\ ContractHolds(releases[run.id], FALSE)
      <3>1. /\ run'.seen = run.seen /\ run'.d = run.d /\ run'.public
            /\ run'.actions = run.actions /\ run.actions \in Nat
            /\ run'.seenTag = run.seenTag
        BY <2>1, <2>2 DEF RunTypes, Run
      <3>2. /\ run.seen \in Release /\ ~run.seen.draft
            /\ run.seen.marker # None /\ run.seen.marker.desired = run.d
            /\ run.seen.marker.stage = "ready" /\ Exact(run.seen, run.d)
            /\ run.seenTag = run.d.commit
        BY <2>1, ActionMeans DEF Chosen, RunTypes, Run
      <3>3. run.seen.marker = [stage |-> "ready", desired |-> run.d]
        BY <3>2 DEF Release, Marker
      <3>4. run.seen.target = run.d.commit
        BY <2>1, <2>2 DEF ContractHolds
      <3>5. a = "done"
        BY <3>1, <3>2, <3>3, <3>4, NextOfPublished DEF Exact
      <3>6. run.actions <= 9
        BY <2>1, <3>1, RankValues
      <3> QED BY <2>2, <3>1, <3>5, <3>6, RankValues
    <2> QED BY <2>1, <2>2
  <1>11. CASE Reread
    <2> DEFINE a == NextAction(run.seen, run.seenTag)'
               known == run.authenticated /\ run.action \notin
                   {"hide_and_mark_staging", "mark_staging", "replace_assets"}
    <2>1. \/ pc' \in {"catch", "idle"}
          \/ /\ run' = [run EXCEPT !.seenTag = tag, !.authenticated = known]
             /\ pc' = "decide"
      BY <1>11 DEF Reread, Throw
    <2>2. CASE /\ run' = [run EXCEPT !.seenTag = tag, !.authenticated = known]
               /\ pc' = "decide"
      <3>1. /\ run'.seen = run.seen /\ run'.d = run.d /\ run'.seenTag = tag
            /\ run'.authenticated = known
            /\ run'.actions = run.actions /\ run.actions \in Nat
        <4> HIDE DEF known
        <4> QED BY <2>2 DEF RunTypes, Run
      <3>2. pc = "reread"
        BY <1>11 DEF Reread
      <3>3. a \in Actions \cup {"done"} /\ Rank[a] < Rank[run.action]
        BY <3>1, <3>2, AchievedLeads
      <3>4. Rank[a] \in 0..9 /\ Rank[run.action] \in 0..9
        BY <3>2, <3>3, RankBound
      <3>5. run.actions + Rank[run.action] <= 10
        BY <3>2
      <3> HIDE DEF a
      <3>6. run.actions + Rank[a] <= 9
        BY <3>1, <3>3, <3>4, <3>5
      <3> QED BY <2>2, <3>1, <3>3, <3>6 DEF a
    <2> QED BY <2>1, <2>2
  <1> QED BY <1>1, <1>2, <1>3, <1>4, <1>5, <1>6, <1>7, <1>8, <1>9, <1>10,
             <1>11
         DEF ReleaseNext, RunSteps

-----------------------------------------------------------------------------
(* A run without a fault ends well                                         *)

(* One of the releases that are there can be chosen.                       *)
LEMMA OneIsChosen ==
    ASSUME ReleaseTypeOK, Listed, PublicShape, Existing # {}
    PROVE  Selectable
  <1>1. Ids \subseteq Nat
    BY ReleaseAssumption DEF ReleaseAssumption
  <1>2. StartersAreDisposable
    <2> SUFFICES ASSUME NEW i \in Existing, ~releases[i].draft
                 PROVE  \A a \in releases[i].assets : ~a.starter
      BY DEF StartersAreDisposable
    <2> QED BY PublicUnderstood
  <1>3. CASE \E i \in Ids : Existing = {i}
    <2>1. PICK i \in Ids : Existing = {i}
      BY <1>3
    <2>2. i <= i
      BY <1>1
    <2>3. Keepers = {i}
      BY <2>1, <2>2 DEF Keepers
    <2>4. Cardinality(Keepers) = 1
      BY <2>3, FS_Singleton
    <2> QED BY <1>2, <2>1, <2>3, <2>4 DEF Selectable
  <1>4. CASE \E i, j \in Ids : /\ Existing = {i, j} /\ i # j
                               /\ Spare(i) /\ Spare(j)
                               /\ \A a \in releases[i].assets : a.starter
    <2>1. PICK i, j \in Ids : /\ Existing = {i, j} /\ i # j
                              /\ Spare(i) /\ Spare(j)
                              /\ \A a \in releases[i].assets : a.starter
      BY <1>4
    <2> DEFINE whole == \E a \in releases[j].assets : ~a.starter
    <2>2. /\ {k \in Existing : ~releases[k].draft} = {}
          /\ {k \in Existing : releases[k].published} = {}
      BY <2>1 DEF Spare
    <2>3. {k \in Existing : \E a \in releases[k].assets : ~a.starter}
             = IF whole THEN {j} ELSE {}
      BY <2>1
    <2>4. \/ {k \in Existing : \A l \in Existing : k <= l} = {i}
          \/ {k \in Existing : \A l \in Existing : k <= l} = {j}
      <3>1. i \in Nat /\ j \in Nat
        BY <1>1
      <3>2. CASE i < j
        BY <2>1, <3>1, <3>2
      <3>3. CASE j < i
        BY <2>1, <3>1, <3>3
      <3> QED BY <2>1, <3>1, <3>2, <3>3
    <2>5. Keepers = {j} \/ (Keepers = {i} /\ ~whole)
      <3> HIDE DEF whole
      <3>1. CASE whole
        <4>1. {k \in Existing : \E a \in releases[k].assets : ~a.starter} = {j}
          BY <2>3, <3>1
        <4> QED BY <2>2, <4>1 DEF Keepers
      <3>2. CASE ~whole
        <4>1. {k \in Existing : \E a \in releases[k].assets : ~a.starter} = {}
          BY <2>3, <3>2
        <4> QED BY <2>2, <2>4, <3>2, <4>1 DEF Keepers
      <3> QED BY <3>1, <3>2
    <2>6. Cardinality(Keepers) = 1
      BY <2>5, FS_Singleton
    <2>7. Disposable(i) /\ (~whole => Disposable(j))
      BY <2>1 DEF Disposable, Spare
    <2>8. \A k \in Existing \ Keepers : Disposable(k)
      <3> HIDE DEF whole
      <3> QED BY <2>1, <2>5, <2>7
    <2> QED BY <1>2, <2>6, <2>8 DEF Selectable
  <1> QED BY <1>3, <1>4 DEF Listed

(* What the public finds is what the run has chosen to verify.             *)
LEMMA PublicIsThere ==
    ASSUME ReleaseTypeOK, RunTypes, Alone, Knows, Chosen, KnowsTag,
           PublicShape, pc = "call", run.action = "verify_public"
    PROVE  /\ tag = run.d.commit
           /\ {i \in Existing : ~releases[i].draft} = {run.id}
           /\ ContractHolds(releases[run.id], FALSE)
  <1>1. /\ run.seen \in Release \cup {None} /\ run.seenTag = tag
        /\ run.action = NextAction(run.seen, run.seenTag)
    BY DEF RunTypes, Run, KnowsTag, Chosen
  <1>2. /\ run.seen \in Release /\ ~run.seen.draft /\ tag = run.d.commit
        /\ run.seen.marker # None /\ run.seen.marker.desired = run.d
        /\ Exact(run.seen, run.d)
    BY <1>1, ActionMeans
  <1>3. Existing = {run.id} /\ run.seen = releases[run.id]
    BY <1>2, NothingIsNoRecord, AtCall
  <1>4. run.seen.target = run.d.commit
    BY <1>2, <1>3 DEF PublicShape, Published
  <1>5. run.seen.draft = FALSE
    BY <1>2 DEF Release
  <1>6. ContractHolds(releases[run.id], FALSE)
    BY <1>2, <1>3, <1>4, <1>5 DEF ContractHolds
  <1>7. {i \in Existing : ~releases[i].draft} = {run.id}
    BY <1>2, <1>3
  <1> QED BY <1>2, <1>6, <1>7

(* A draft that is about to be downloaded, or published, is the run's.     *)
LEMMA DraftIsTheRuns ==
    ASSUME RunTypes, Chosen, pc \in {"assert_main", "call"},
           run.action \in {"verify_draft_download", "publish"}
    PROVE  /\ ContractHolds(run.seen, TRUE) /\ ZipOf(run.d) \in run.seen.assets
           /\ run.seen # None
           /\ run.action = "publish" => run.seenTag = run.d.commit
  <1>1. /\ run.seen \in Release \cup {None} /\ run.action \in Finishing
        /\ run.action = NextAction(run.seen, run.seenTag)
    BY DEF RunTypes, Run, Finishing, Chosen
  <1>2. /\ run.seen \in Release /\ run.seen.draft
        /\ run.seen.target = run.d.commit /\ run.seen.marker # None
        /\ run.seen.marker.desired = run.d /\ Exact(run.seen, run.d)
        /\ run.action = "publish" => run.seenTag = run.d.commit
    BY <1>1, ActionMeans
  <1>3. run.seen.draft = TRUE
    BY <1>2 DEF Release
  <1> QED BY <1>2, <1>3, NothingIsNoRecord DEF ContractHolds, Exact

(* No step ends a run without a reason.                                    *)
LEMMA NeverStuck ==
    ASSUME 10 <= MaxActions, CleanRunsConverge,
           ReleaseTypeOK, RunTypes, Listed, PublicShape, Alone, Knows, KnowsTag,
           Chosen, Achieved, Forward, [ReleaseNext]_releaseVars
    PROVE  CleanRunsConverge'
  <1> USE DEF CleanRunsConverge
  <1>1. CASE Push \/ StartRun \/ ReadTag \/ AssertAtStart \/ CleanStarter \/
           CleanDuplicate \/ Discovered \/ DeleteAsset \/ UploadIsCutOff \/
           CallFails \/ Killed \/ Hide \/ UNCHANGED releaseVars
    BY <1>1 DEF Push, StartRun, ReadTag, AssertAtStart, CleanStarter,
                CleanDuplicate, Discovered, DeleteAsset, UploadIsCutOff,
                CallFails, Killed, Hide, releaseVars, Throw
  <1>2. CASE MarkStaging \/ MarkAssetsVerified \/ MarkReady \/ Publish
    <2>1. PICK stage \in Stages, draft \in BOOLEAN, began \in BOOLEAN :
             SetMetadata(stage, draft, began)
      BY <1>2, MetadataCalls DEF Metadata, Stages
    <2> QED BY <2>1 DEF SetMetadata, Answered
  <1>3. CASE CreateDraft \/ UploadZip \/ AlignTag
    BY <1>3 DEF CreateDraft, UploadZip, AlignTag, Answered
  <1>4. CASE Discover
    BY <1>4, OneIsChosen DEF Discover, Throw
  <1>5. CASE Decide
    <2> DEFINE action == NextAction(run.seen, run.seenTag)
    <2>1. /\ action \in Actions \cup {"done"}
          /\ run.actions + Rank[action] <= 9 /\ Rank[action] \in 0..9
      BY <1>5, RankBound DEF Decide, Forward
    <2>2. MaxActions \in Nat /\ run.actions \in Nat
      BY ReleaseAssumption DEF ReleaseAssumption, RunTypes, Run
    <2> HIDE DEF action
    <2>3. run.actions # MaxActions /\ action # "refused"
      BY <2>1, <2>2 DEF Actions
    <2> QED BY <1>5, <2>3 DEF Decide, action
  <1>6. CASE AssertMain
    <2>1. run.action = "publish" =>
             ContractHolds(run.seen, TRUE) /\ tag = run.d.commit
      BY <1>6, DraftIsTheRuns DEF AssertMain, KnowsTag
    <2> QED BY <1>6, <2>1 DEF AssertMain, Throw
  <1>7. CASE ValidateLegacy
    <2>1. pc = "call" /\ run.action = "validate_legacy"
      BY <1>7 DEF ValidateLegacy
    <2>2. /\ run.seen \in Release /\ ~run.seen.draft
          /\ Cardinality(run.seen.assets) = 3
      BY <2>1, ActionMeans DEF Chosen, RunTypes, Run
    <2>3. Existing = {run.id} /\ run.seen = releases[run.id]
      BY <2>1, <2>2, NothingIsNoRecord, AtCall
    <2>4. Cardinality({a.of : a \in run.seen.assets}) = 1
      BY <2>2, <2>3, PublicUnderstood
    <2> QED BY <1>7, <2>4 DEF ValidateLegacy
  <1>8. CASE VerifyDraftDownload
    <2>1. pc = "call" /\ run.action = "verify_draft_download"
      BY <1>8 DEF VerifyDraftDownload
    <2>2. /\ ContractHolds(run.seen, TRUE) /\ ZipOf(run.d) \in run.seen.assets
          /\ run.seen # None
      BY <2>1, DraftIsTheRuns
    <2>3. run.seen = releases[run.id]
      BY <2>1, <2>2, AtCall
    <2> QED BY <1>8, <2>2, <2>3 DEF VerifyDraftDownload
  <1>9. CASE VerifyPublic
    BY <1>9, PublicIsThere DEF VerifyPublic
  <1>10. CASE Reread
    <2>1. run.action \in {"align_tag", "publish"} => tag = run.d.commit
      BY <1>10 DEF Reread, Achieved
    <2> QED BY <1>10, <2>1 DEF Reread
  <1> QED BY <1>1, <1>2, <1>3, <1>4, <1>5, <1>6, <1>7, <1>8, <1>9, <1>10
         DEF ReleaseNext, RunSteps

(* The tag is moved to a commit that is ahead of it.                       *)
LEMMA TagAhead ==
    ASSUME ReleaseTypeOK, RunTypes, Alone, Knows, KnowsTag, Chosen, TagIsBehind,
           [ReleaseNext]_releaseVars
    PROVE  tag' # tag => tag = None \/ tag' > tag
  <1>1. CASE AlignTag
    <2>1. pc = "call" /\ run.action = "align_tag" /\ tag' = run.d.commit
      BY <1>1 DEF AlignTag
    <2>2. tag # None => tag \in Int /\ tag <= run.d.commit
      BY <2>1 DEF TagIsBehind, ReleaseTypeOK
    <2>3. run.d.commit \in Int
      BY DEF RunTypes, Run, Desired
    <2> QED BY <2>1, <2>2, <2>3
  <1>2. CASE MarkStaging \/ MarkAssetsVerified \/ MarkReady \/ Publish
    <2>1. PICK stage \in Stages, draft \in BOOLEAN, began \in BOOLEAN :
             SetMetadata(stage, draft, began)
      BY <1>2, MetadataCalls DEF Metadata, Stages
    <2> QED BY <2>1 DEF SetMetadata
  <1>3. CASE ~AlignTag
    BY <1>2, <1>3
       DEF ReleaseNext, RunSteps, Push, StartRun, ReadTag, AssertAtStart,
           Discover, CleanStarter, CleanDuplicate, Discovered, Decide,
           AssertMain, CreateDraft, ValidateLegacy, DeleteAsset, UploadZip,
           UploadIsCutOff, VerifyDraftDownload, VerifyPublic, Reread,
           CallFails, Killed, Hide, releaseVars
  <1> QED BY <1>1, <1>3

-----------------------------------------------------------------------------
(* The theorems                                                            *)

(* Before the first run ...                                                *)
LEMMA NoRunTyped ==
    /\ NoRun \in Run /\ NoRun.d.commit = 0
  <1>1. OldBuild \in Desired
    BY NothingIsNoRecord
  <1> QED BY <1>1 DEF NoRun, Run, OldBuild

(* ... and the releases it may find.                                       *)
LEMMA OldTyped ==
    /\ \A A \in SUBSET Asset :
          /\ OldPublic(A) \in Release /\ OldPublic(A).assets = A
          /\ OldPublic(A).marker = None /\ ~OldPublic(A).draft
          /\ OldDraft(A) \in Release /\ OldDraft(A).assets = A
          /\ OldDraft(A).marker # None /\ OldDraft(A).draft
          /\ ~OldDraft(A).published
    /\ {} \in SUBSET Asset /\ {ZipOf(OldBuild)} \in SUBSET Asset
    /\ {Starter(OldBuild)} \in SUBSET Asset /\ LegacyTrio(OldBuild) \in SUBSET Asset
  <1>1. OldBuild \in Desired
    BY NothingIsNoRecord
  <1> DEFINE m == [stage |-> "staging", desired |-> OldBuild]
  <1>2. m \in Marker /\ m # None
    BY <1>1, NothingIsNoRecord DEF Marker, Stages
  <1> HIDE DEF m
  <1>3. ASSUME NEW A \in SUBSET Asset
        PROVE  /\ OldPublic(A) \in Release /\ OldPublic(A).assets = A
               /\ OldPublic(A).marker = None /\ ~OldPublic(A).draft
    BY NothingIsNoRecord DEF OldPublic, Release
  <1>4. ASSUME NEW A \in SUBSET Asset
        PROVE  /\ OldDraft(A) \in Release /\ OldDraft(A).assets = A
               /\ OldDraft(A).marker # None /\ OldDraft(A).draft
               /\ ~OldDraft(A).published
    <2>1. OldDraft(A) = [draft |-> TRUE, published |-> FALSE, target |-> 0,
                         assets |-> A, marker |-> m]
      BY DEF OldDraft, m
    <2> QED BY <1>2, <2>1, NothingIsNoRecord DEF Release
  <1>5. /\ ZipOf(OldBuild) \in Asset /\ Starter(OldBuild) \in Asset
        /\ LegacyTrio(OldBuild) \subseteq Asset
    BY <1>1, AssetsTyped
  <1> QED BY <1>3, <1>4, <1>5

(* The workflow starts from nothing, from an old release or from drafts.   *)
LEMMA FirstState == ReleaseInit => ReleaseInv
  <1> SUFFICES ASSUME ReleaseInit
               PROVE  ReleaseInv
    OBVIOUS
  <1>1. /\ run = NoRun /\ pc = "idle" /\ verdict = "none" /\ main = 1
        /\ runs = 0 /\ faults = 0
    BY DEF ReleaseInit
  <1>2. /\ RunTypes /\ RunIsOfMain /\ Early /\ Alone /\ Knows /\ KnowsTag
        /\ Chosen /\ TagIsBehind /\ Achieved /\ Forward
    BY <1>1, NoRunTyped
       DEF RunTypes, RunIsOfMain, Early, Alone, Knows, KnowsTag, Chosen,
           TagIsBehind, Achieved, Forward, PCs, EarlyStages, WorkStages
  <1>3. MaxCommit \in Nat /\ main \in 1..MaxCommit
    BY <1>1, ReleaseAssumption DEF ReleaseAssumption
  <1>4. tag \in 0..MaxCommit \cup {None} /\ Behind
    BY <1>1, <1>3 DEF ReleaseInit, Behind
  <1>5. /\ releases \in [Ids -> Release \cup {None}]
        /\ Listed /\ PublicShape
    <2>1. CASE releases = [i \in Ids |-> None]
      BY <2>1 DEF Listed, PublicShape, Existing
    <2>2. CASE \E i \in Ids, A \in {{ZipOf(OldBuild)}, LegacyTrio(OldBuild)} :
                  releases = [[j \in Ids |-> None] EXCEPT ![i] = OldPublic(A)]
      <3>1. PICK i \in Ids, A \in {{ZipOf(OldBuild)}, LegacyTrio(OldBuild)} :
               releases = [[j \in Ids |-> None] EXCEPT ![i] = OldPublic(A)]
        BY <2>2
      <3>2. /\ OldPublic(A) \in Release /\ OldPublic(A).assets = A
            /\ OldPublic(A).marker = None
        BY OldTyped
      <3>3. releases \in [Ids -> Release \cup {None}] /\ releases[i] = OldPublic(A)
        BY <3>1, <3>2
      <3>4. Existing = {i}
        BY <3>1, <3>2, NothingIsNoRecord DEF Existing
      <3>5. PublicShape
        BY <3>2, <3>3, <3>4 DEF PublicShape, Legacy
      <3> QED BY <3>3, <3>4, <3>5 DEF Listed
    <2>3. CASE \E i, j \in Ids :
                  \E A \in {{}, {Starter(OldBuild)}, {ZipOf(OldBuild)}} :
                     /\ i # j
                     /\ releases = [[k \in Ids |-> None] EXCEPT
                                       ![i] = OldDraft({}), ![j] = OldDraft(A)]
      <3>1. PICK i, j \in Ids :
               \E A \in {{}, {Starter(OldBuild)}, {ZipOf(OldBuild)}} :
                  /\ i # j
                  /\ releases = [[k \in Ids |-> None] EXCEPT
                                    ![i] = OldDraft({}), ![j] = OldDraft(A)]
        BY <2>3
      <3>2. PICK A \in {{}, {Starter(OldBuild)}, {ZipOf(OldBuild)}} :
               /\ i # j
               /\ releases = [[k \in Ids |-> None] EXCEPT
                                 ![i] = OldDraft({}), ![j] = OldDraft(A)]
        BY <3>1
      <3>3. /\ OldDraft({}) \in Release /\ OldDraft({}).assets = {}
            /\ OldDraft({}).marker # None /\ OldDraft({}).draft
            /\ ~OldDraft({}).published
        BY OldTyped
      <3>4. /\ OldDraft(A) \in Release /\ OldDraft(A).marker # None
            /\ OldDraft(A).draft /\ ~OldDraft(A).published
        BY OldTyped
      <3>5. /\ releases \in [Ids -> Release \cup {None}]
            /\ releases[i] = OldDraft({}) /\ releases[j] = OldDraft(A)
            /\ \A k \in Ids \ {i, j} : releases[k] = None
        BY <3>2, <3>3, <3>4
      <3>6. Existing = {i, j}
        BY <3>3, <3>4, <3>5, NothingIsNoRecord DEF Existing
      <3>7. Spare(i) /\ Spare(j) /\ \A a \in releases[i].assets : a.starter
        BY <3>3, <3>4, <3>5 DEF Spare
      <3>8. PublicShape
        BY <3>3, <3>4, <3>5, <3>6 DEF PublicShape
      <3> QED BY <3>2, <3>5, <3>6, <3>7, <3>8 DEF Listed
    <2> QED BY <2>1, <2>2, <2>3 DEF ReleaseInit
  <1>6. ReleaseTypeOK
    BY <1>1, <1>3, <1>4, <1>5 DEF ReleaseTypeOK
  <1> QED BY <1>2, <1>4, <1>5, <1>6 DEF ReleaseInv

(* The inductive invariant is one.                                         *)
LEMMA ReleaseStep ==
    ASSUME ReleaseInv, [ReleaseNext]_releaseVars
    PROVE  ReleaseInv'
  <1>1. /\ ReleaseTypeOK /\ RunTypes /\ Behind /\ RunIsOfMain /\ Listed
        /\ PublicShape /\ Early /\ Alone /\ Knows /\ KnowsTag /\ Chosen
        /\ TagIsBehind /\ Achieved /\ Forward
    BY DEF ReleaseInv
  <1>2. RunTypes'
    BY <1>1, RunTyped
  <1>3. ReleaseTypeOK'
    BY <1>1, ReleasesTyped
  <1>4. Behind' /\ RunIsOfMain'
    BY <1>1, MainLeads
  <1>5. Listed'
    BY <1>1, ListStays
  <1>6. PublicShape'
    BY <1>1, PublicStays
  <1>7. Early' /\ Alone' /\ Knows' /\ KnowsTag'
    BY <1>1, CopyStays
  <1>8. Chosen' /\ TagIsBehind'
    BY <1>1, ChoiceStays
  <1>9. Achieved'
    BY <1>1, AchievedStays
  <1>10. Forward'
    BY <1>1, <1>2, ForwardStays
  <1> QED BY <1>2, <1>3, <1>4, <1>5, <1>6, <1>7, <1>8, <1>9, <1>10
         DEF ReleaseInv

(* What a run knows of GitHub is true, whatever was interrupted before it. *)
THEOREM ReleaseInvariance == ReleaseSpec => []ReleaseInv
  <1>1. ReleaseInit => ReleaseInv
    BY FirstState
  <1>2. ReleaseInv /\ [ReleaseNext]_releaseVars => ReleaseInv'
    BY ReleaseStep
  <1> QED BY <1>1, <1>2, PTL DEF ReleaseSpec

(* The variables have their types.                                         *)
THEOREM ReleaseTyping == ReleaseSpec => []ReleaseTypeOK
  <1>1. ReleaseInv => ReleaseTypeOK
    BY DEF ReleaseInv
  <1> QED BY <1>1, ReleaseInvariance, PTL

(* A public release with a marker is what its marker says, under the tag   *)
(* of its commit, after any number of failed, unanswered or killed runs:   *)
(* publish_continuous.ps1:496-539.                                         *)
THEOREM PublicStaysWhole == ReleaseSpec => []PublicIsWhole
  <1>1. ReleaseInv => PublicIsWhole
    BY DEF ReleaseInv, PublicShape, Published, PublicIsWhole, Existing
  <1> QED BY <1>1, ReleaseInvariance, PTL

(* No run stops with an error that neither a fault nor a newer main        *)
(* explains, where ten turns of the loop are allowed                       *)
(* (publish_continuous.ps1:376 allows 40): whatever an earlier run has     *)
(* left, each action brings the release closer to "done".                  *)
THEOREM CleanRunsFinish ==
    ASSUME 10 <= MaxActions
    PROVE  ReleaseSpec => []CleanRunsConverge
  <1>1. ReleaseInit => CleanRunsConverge
    BY DEF ReleaseInit, CleanRunsConverge
  <1>2. ReleaseInv /\ CleanRunsConverge /\ [ReleaseNext]_releaseVars
           => CleanRunsConverge'
    <2> SUFFICES ASSUME ReleaseInv, CleanRunsConverge,
                        [ReleaseNext]_releaseVars
                 PROVE  CleanRunsConverge'
      OBVIOUS
    <2>1. /\ ReleaseTypeOK /\ RunTypes /\ Listed /\ PublicShape /\ Alone
          /\ Knows /\ KnowsTag /\ Chosen /\ Achieved /\ Forward
      BY DEF ReleaseInv
    <2> QED BY <2>1, NeverStuck
  <1> QED BY <1>1, <1>2, ReleaseInvariance, PTL DEF ReleaseSpec

(* The tag names a newer commit whenever it is moved: a run asks for main  *)
(* before it moves the tag (publish_continuous.ps1:211-223), and the tag   *)
(* is behind main.                                                         *)
THEOREM TagNeverBack == ReleaseSpec => TagMovesForward
  <1>1. ReleaseInv /\ [ReleaseNext]_releaseVars
           => [tag' # tag => tag = None \/ tag' > tag]_tag
    <2> SUFFICES ASSUME ReleaseInv, [ReleaseNext]_releaseVars
                 PROVE  tag' # tag => tag = None \/ tag' > tag
      OBVIOUS
    <2>1. /\ ReleaseTypeOK /\ RunTypes /\ Alone /\ Knows /\ KnowsTag
          /\ Chosen /\ TagIsBehind
      BY DEF ReleaseInv
    <2> QED BY <2>1, TagAhead
  <1> QED BY <1>1, ReleaseInvariance, PTL DEF ReleaseSpec, TagMovesForward

=============================================================================
