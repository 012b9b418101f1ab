-------------------------- MODULE MonitorPoolProofs --------------------------
(***************************************************************************)
(* For every number of devices, connections, polls and interruptions: the  *)
(* safety properties of MonitorPool.                                       *)
(*                                                                         *)
(* A thread that takes a connection out of its entry takes on the duty to  *)
(* shut it in the same step.  So Owned names the owner of each connection  *)
(* that is not shut, and no step leaves one without an owner.  Being in    *)
(* the lease's hands is no ownership: what the lease has in use is still   *)
(* in the pool, or somebody else has taken it out.                         *)
(***************************************************************************)
EXTENDS MonitorPool, TLAPS

(* What the polling thread has in its hands, by where it is.               *)
HandMatches ==
    /\ at = "idle" <=> lease.entry = 0
    /\ at # "idle" => asked \in Target
    /\ fresh # 0 <=> at \in {"check", "enable", "publish", "hold"}
    /\ at \in {"idle", "enter", "check", "open", "enable", "publish", "hold"}
          => lease.conn = 0
    /\ at \in {"arm", "send", "read", "failed"} => lease.conn # 0
    /\ at \in {"send", "read"} => registered

InPool(c) == \E t \in Target : entries[t] # 0 /\ managed[entries[t]] = c
InEmptied(c) == \E e \in emptying : managed[e] = c
InHand(c) ==
    \/ c = fresh /\ at \in {"enable", "publish"}
    \/ c = lease.conn /\ lease.pending /\ at \in {"exit", "left"}
InAbort(c) == \E a \in aborting : a.conn = c /\ a.step = "shut"

Owned(c) == InPool(c) \/ InEmptied(c) \/ c \in doomed \/ InHand(c) \/ InAbort(c)

EveryOneOwned == \A c \in Conn : Held(c) => Owned(c)

(* What is managed or in use was opened.                                   *)
InUseExists ==
    /\ \A e \in Entry : managed[e] # 0 => conn[managed[e]] # "none"
    /\ fresh # 0 => conn[fresh] # "none"
    /\ lease.conn # 0 => conn[lease.conn] # "none"

(* A connection is in one entry at most, and what a lease uses in none but *)
(* the lease's.                                                            *)
OneHome ==
    /\ \A e, f \in Entry : managed[e] # 0 /\ managed[e] = managed[f] => e = f
    /\ \A e \in Entry : managed[e] = fresh /\ fresh # 0 =>
          e = lease.entry /\ at \in {"check", "hold"}
    /\ \A e \in Entry : managed[e] = lease.conn /\ lease.conn # 0 =>
          e = lease.entry

(* Who is about to shut the connection that a cancelled poll reads from.   *)
Waker ==
    \/ /\ managed[lease.entry] = lease.conn
       /\ \E a \in aborting : /\ a.poll = poll /\ a.conn = lease.conn
                              /\ a.entry = lease.entry /\ a.step = "take"
    \/ InAbort(lease.conn)
    \/ lease.conn \in doomed

CancelledRead ==
    cancelled /\ at = "read" /\ conn[lease.conn] = "open" /\ ~ lease.retried

Woken == CancelledRead => Waker

(* What was distrusted before the poll is told by its token.               *)
Trusting ==
    /\ \A c \in stale : conn[c] # "none"
    /\ at # "idle" => \A c \in stale : Held(c) => token[c] # trusted[asked]
    /\ at \in {"enable", "publish", "hold"} => fresh \notin stale
    /\ at \in {"arm", "send", "read"} => lease.conn \notin stale

PoolInv ==
    /\ TypeOK /\ HandMatches /\ EveryOneOwned /\ InUseExists
    /\ OneHome /\ Woken /\ Trusting

-----------------------------------------------------------------------------

(* What the bounds are for: the numbers that name nothing, the counters.   *)
LEMMA Zero ==
    /\ 0 \in 0..Conns /\ 0 \in 0..Entries /\ 0 \in 0..MaxPolls
    /\ 0 \in 0..MaxTrust + 1 /\ 0 \in 0..MaxEmptied
    /\ 0 \notin Conn /\ 0 \notin Entry
    /\ Conn \subseteq 0..Conns /\ Entry \subseteq 0..Entries
    /\ \A n \in 0..MaxPolls : n < MaxPolls => n + 1 \in 0..MaxPolls
    /\ \A n \in 0..MaxEmptied : n < MaxEmptied => n + 1 \in 0..MaxEmptied
    /\ \A n \in 0..MaxTrust : n < MaxTrust => n + 1 \in 0..MaxTrust
  BY PoolAssumption DEF PoolAssumption, Conn, Entry

LEMMA NotZero ==
    /\ \A n \in 0..Conns : n # 0 => n \in Conn
    /\ \A n \in 0..Entries : n # 0 => n \in Entry
  BY PoolAssumption DEF PoolAssumption, Conn, Entry

LEMMA NoLeaseTyped == NoLease \in Lease
  BY Zero DEF NoLease, Lease

LEMMA NoLeaseIsEmpty == NoLease.conn = 0 /\ NoLease.entry = 0
  BY DEF NoLease

(* entry.take(expected) empties one entry at most.                         *)
LEMMA TakenEmpties ==
    ASSUME TypePool, NEW e \in Entry, NEW x, Taken(e, x)
    PROVE  \A f \in Entry : managed'[f] = IF f = e /\ managed[e] = x THEN 0
                                          ELSE managed[f]
  BY DEF TypePool, Taken

(* What becomes of a poll whose lease cannot be had, by _open's callers:   *)
(* it ends, or, where a dead connection was to be replaced, its command    *)
(* fails.                                                                  *)
LEMMA OpenFailsTypes ==
    ASSUME TypePool, TypeHand, NEW left, OpenFails(left)
    PROVE  /\ entries' \in [Target -> 0..Entries] /\ busy' \subseteq Entry
           /\ TypeHand'
  <1>0. /\ 0 \in 0..Conns /\ 0 \in 0..Entries
        /\ "exit" \in Where /\ "idle" \in Where
    BY Zero DEF Where
  <1>1. CASE lease.retried
    BY <1>0, <1>1 DEF OpenFails, TypePool, TypeHand
  <1>2. CASE ~ lease.retried
    <2>1. entries' \in [Target -> 0..Entries] /\ busy' \subseteq Entry
      BY <1>0, <1>2 DEF OpenFails, TypePool
    <2>2. TypeHand'
      BY <1>0, <1>2, NoLeaseTyped DEF OpenFails, TypeHand, Leaves
    <2> QED BY <2>1, <2>2
  <1> QED BY <1>1, <1>2

LEMMA OpenFailsHand ==
    ASSUME TypeHand, HandMatches, NEW left, OpenFails(left)
    PROVE  \/ /\ lease.retried /\ at' = "exit" /\ fresh' = 0
              /\ UNCHANGED <<entries, lease>>
           \/ ~ lease.retried /\ at' = "idle" /\ fresh' = 0 /\ lease' = NoLease
  BY Zero DEF TypeHand, HandMatches, OpenFails, Leaves

(* A lease is one of an entry until the poll is over.                      *)
LEMMA LeaseHasEntry ==
    ASSUME TypeHand, HandMatches, at # "idle"
    PROVE  lease.entry \in Entry
  BY NotZero DEF TypeHand, HandMatches, Lease

(* ... and an entry leaves the pool only if it is empty.                   *)
LEMMA OpenFailsKeeps ==
    ASSUME TypePool, NEW left, OpenFails(left)
    PROVE  \A t \in Target : \/ entries'[t] = entries[t]
                             \/ entries[t] = lease.entry /\ left[lease.entry] = 0
  BY DEF TypePool, OpenFails


(* Emptying one entry robs nobody else of what it owns.                    *)
LEMMA TakenKeepsOthers ==
    ASSUME TypePool, NEW e \in Entry, NEW x, Taken(e, x), UNCHANGED emptying,
           \A t \in Target : \/ entries'[t] = entries[t]
                             \/ entries[t] = e /\ managed'[e] = 0,
           emptying \subseteq Entry,
           NEW c \in Conn, ~ (managed[e] = x /\ c = x)
    PROVE  (InPool(c) => InPool(c)') /\ (InEmptied(c) => InEmptied(c)')
  <1>1. \A f \in Entry : managed[f] = c => managed'[f] = c
    BY TakenEmpties
  <1>2. ASSUME InPool(c) PROVE InPool(c)'
    <2>1. PICK t \in Target : entries[t] # 0 /\ managed[entries[t]] = c
      BY <1>2 DEF InPool
    <2>2. entries[t] \in Entry
      BY <2>1, NotZero DEF TypePool
    <2>3. managed'[entries[t]] = c /\ c # 0
      BY <1>1, <2>1, <2>2, Zero
    <2>4. entries'[t] = entries[t]
      BY <2>3
    <2> QED BY <2>1, <2>3, <2>4 DEF InPool
  <1>3. ASSUME InEmptied(c) PROVE InEmptied(c)'
    BY <1>1, <1>3 DEF InEmptied
  <1> QED BY <1>2, <1>3

(* Every step keeps the types.                                             *)
LEMMA WorldTyped ==
    ASSUME TypeWorld, TypeConns, TypeHand, [Next]_vars
    PROVE  TypeWorld'
  <1> USE DEF TypeWorld, TypeConns, TypeHand, Conn
  <1>1. CASE Enter
    BY <1>1 DEF Enter, Interrupted, world, conns, mine, other, halt, flags
  <1>2. CASE EnterInterrupted
    BY <1>2 DEF EnterInterrupted, Interrupted, Leaves, pool, conns, flags,
           other
  <1>3. CASE Reuse \/ Enabled \/ Send \/ SendInterrupted \/ ReadFails \/
           Finish
    BY <1>3 DEF Reuse, Interrupted, Alive, world, pool, conns, mine, other,
           halt, flags, Enabled, Send, SendInterrupted, Raises, ReadFails,
           Finish
  <1>4. CASE Replace
    BY <1>4 DEF Replace, Interrupted, Shut, Taken, world, mine, other, halt,
           flags
  <1>5. CASE CheckFails
    BY <1>5 DEF CheckFails, Shut, Taken, OpenFails, flags, other, halt, Leaves
  <1>6. CASE Opened
    BY <1>6 DEF Opened, Interrupted, world, pool, mine, other, halt, flags
  <1>7. CASE NotOpened \/ NotEnabled \/ NotPublished \/ NotArmed
    BY <1>7 DEF NotOpened, OpenFails, conns, flags, other, halt, Leaves,
           NotEnabled, Shut, NotPublished, NotArmed
  <1>8. CASE Publish
    BY <1>8 DEF Publish, world, conns, mine, other, halt, flags
  <1>9. CASE Hold
    BY <1>9 DEF Hold, world, pool, conns, mine, other, halt, flags
  <1>10. CASE Arm
    BY <1>10 DEF Arm, world, pool, halt, other
  <1>11. CASE Read
    BY <1>11 DEF Read, Raises, world, pool, conns, mine, other, halt, flags
  <1>12. CASE Retry
    BY <1>12 DEF Retry, CanRetry, Interrupted, Taken, Shut, world, mine,
           other, halt, flags
  <1>13. CASE GiveUp
    BY <1>13 DEF GiveUp, Raises, Taken, Takes, CanRetry, Interrupted, world,
           conns, mine, other, halt, flags
  <1>14. CASE Exit
    BY <1>14 DEF Exit, Taken, Takes, Disarm, world, halt, other
  <1>15. CASE Left
    BY <1>15 DEF Left, Shut, Leaves, pool, other
  <1>16. CASE Cancel \/ Expire \/ GuardFires
    BY <1>16 DEF Cancel, Abort, AbortFresh, world, pool, conns, flags, hand,
           Expire, other, GuardFires, halt
  <1>17. CASE Empty
    BY <1>17 DEF Empty, world, conns, mine, hand, halt, flags
  <1>18. ASSUME NEW t \in Target, PollBegins(t)
        PROVE  TypeWorld'
    BY <1>18 DEF PollBegins, conns, halt, flags, other
  <1>19. ASSUME NEW t \in Target, TrustChanges(t)
        PROVE  TypeWorld'
    <2>1. PICK n \in 0..MaxTrust + 1 : trusted' = [trusted EXCEPT ![t] = n]
      BY <1>19 DEF TrustChanges
    <2>2. changes' \in 0..MaxTrust /\ stale' = {}
      BY <1>19, Zero DEF TrustChanges
    <2> QED BY <2>1, <2>2
  <1>20. ASSUME NEW a \in aborting, AbortTakes(a)
        PROVE  TypeWorld'
    BY <1>20 DEF AbortTakes, Taken, Takes, world, conns, mine, hand, halt,
           flags
  <1>21. ASSUME NEW a \in aborting, AbortShuts(a)
        PROVE  TypeWorld'
    BY <1>21 DEF AbortShuts, Shut, world, pool, mine, halt, flags
  <1>22. ASSUME NEW d \in Conn, WatchdogFires(d) \/ PeerDies(d)
        PROVE  TypeWorld'
    BY <1>22 DEF WatchdogFires, Shut, world, pool, mine, hand, other, halt,
           flags, PeerDies
  <1>23. ASSUME NEW d \in Conn, EmptyShuts(d)
        PROVE  TypeWorld'
    BY <1>23 DEF EmptyShuts, Shut, world, pool, mine, hand, halt, flags
  <1>24. ASSUME NEW e \in Entry, EmptyTakes(e)
        PROVE  TypeWorld'
    BY <1>24 DEF EmptyTakes, world, conns, mine, hand, halt, flags
  <1>25. CASE UNCHANGED vars
    BY <1>25 DEF vars, conns, flags, halt, hand, mine, other, pool, world
  <1> QED BY <1>1, <1>2, <1>3, <1>4, <1>5, <1>6, <1>7, <1>8, <1>9, <1>10,
             <1>11, <1>12, <1>13, <1>14, <1>15, <1>16, <1>17, <1>18, <1>19,
             <1>20, <1>21, <1>22, <1>23, <1>24, <1>25 DEF Next

LEMMA PoolTyped ==
    ASSUME TypePool, TypeHand, HandMatches, [Next]_vars
    PROVE  TypePool'
  <1> USE Zero DEF TypePool, TypeHand, Lease, HandMatches, Conn, Entry,
          Lowest, NoLease
  <1>1. CASE Enter
    BY <1>1, NotZero DEF Enter, Interrupted, world, conns, mine, other, halt,
           flags
  <1>2. CASE EnterInterrupted
    BY <1>2 DEF EnterInterrupted, Interrupted, Leaves, pool, conns, flags,
           other
  <1>3. CASE Reuse \/ Enabled \/ Send \/ SendInterrupted \/ ReadFails \/
           Finish
    BY <1>3 DEF Reuse, Interrupted, Alive, world, pool, conns, mine, other,
           halt, flags, Enabled, Send, SendInterrupted, Raises, ReadFails,
           Finish
  <1>4. CASE Replace
    BY <1>4 DEF Replace, Interrupted, Shut, Taken, world, mine, other, halt,
           flags
  <1>5. CASE CheckFails
    BY <1>5, OpenFailsTypes DEF CheckFails, Shut, Taken, flags, other, halt,
           Leaves
  <1>6. CASE Opened
    BY <1>6 DEF Opened, Interrupted, world, pool, mine, other, halt, flags
  <1>7. CASE NotOpened \/ NotEnabled \/ NotPublished \/ NotArmed
    BY <1>7, OpenFailsTypes DEF NotOpened, conns, flags, other, halt, Leaves,
           NotEnabled, Shut, NotPublished, NotArmed
  <1>8. CASE Publish
    BY <1>8 DEF Publish, world, conns, mine, other, halt, flags
  <1>9. CASE Hold
    BY <1>9 DEF Hold, world, pool, conns, mine, other, halt, flags
  <1>10. CASE Arm
    BY <1>10 DEF Arm, world, pool, halt, other
  <1>11. CASE Read
    BY <1>11 DEF Read, Raises, world, pool, conns, mine, other, halt, flags
  <1>12. CASE Retry
    BY <1>12 DEF Retry, CanRetry, Interrupted, Taken, Shut, world, mine,
           other, halt, flags
  <1>13. CASE GiveUp
    BY <1>13 DEF GiveUp, Raises, Taken, Takes, CanRetry, Interrupted, world,
           conns, mine, other, halt, flags
  <1>14. CASE Exit
    <2>1. managed' \in [Entry -> 0..Conns]
      BY <1>14 DEF Exit, Taken
    <2> QED BY <1>14, <2>1 DEF Exit
  <1>15. CASE Left
    BY <1>15 DEF Left, Shut, Leaves, pool, other
  <1>16. CASE Cancel \/ Expire \/ GuardFires
    BY <1>16 DEF Cancel, Abort, AbortFresh, world, pool, conns, flags, hand,
           Expire, other, GuardFires, halt
  <1>17. CASE Empty
    BY <1>17 DEF Empty, world, conns, mine, hand, halt, flags
  <1>18. ASSUME NEW t \in Target, PollBegins(t)
        PROVE  TypePool'
    BY <1>18 DEF PollBegins, conns, halt, flags, other
  <1>19. ASSUME NEW t \in Target, TrustChanges(t)
        PROVE  TypePool'
    BY <1>19 DEF TrustChanges, pool, conns, mine, hand, other, halt, flags
  <1>20. ASSUME NEW a \in aborting, AbortTakes(a)
        PROVE  TypePool'
    BY <1>20 DEF AbortTakes, Taken, Takes, world, conns, mine, hand, halt,
           flags
  <1>21. ASSUME NEW a \in aborting, AbortShuts(a)
        PROVE  TypePool'
    BY <1>21 DEF AbortShuts, Shut, world, pool, mine, halt, flags
  <1>22. ASSUME NEW d \in Conn, WatchdogFires(d) \/ PeerDies(d)
        PROVE  TypePool'
    BY <1>22 DEF WatchdogFires, Shut, world, pool, mine, hand, other, halt,
           flags, PeerDies
  <1>23. ASSUME NEW d \in Conn, EmptyShuts(d)
        PROVE  TypePool'
    BY <1>23 DEF EmptyShuts, Shut, world, pool, mine, hand, halt, flags
  <1>24. ASSUME NEW e \in Entry, EmptyTakes(e)
        PROVE  TypePool'
    BY <1>24 DEF EmptyTakes, world, conns, mine, hand, halt, flags
  <1>25. CASE UNCHANGED vars
    BY <1>25 DEF vars, conns, flags, halt, hand, mine, other, pool, world
  <1> QED BY <1>1, <1>2, <1>3, <1>4, <1>5, <1>6, <1>7, <1>8, <1>9, <1>10,
             <1>11, <1>12, <1>13, <1>14, <1>15, <1>16, <1>17, <1>18, <1>19,
             <1>20, <1>21, <1>22, <1>23, <1>24, <1>25 DEF Next

LEMMA ConnsTyped ==
    ASSUME TypeConns, TypeHand, TypePoll, TypeWorld, HandMatches, [Next]_vars
    PROVE  TypeConns'
  <1> USE Zero DEF TypeConns, TypeHand, TypePoll, TypeWorld, HandMatches,
          Lowest, Conn
  <1>1. CASE Enter
    BY <1>1 DEF Enter, Interrupted, world, conns, mine, other, halt, flags
  <1>2. CASE EnterInterrupted
    BY <1>2 DEF EnterInterrupted, Interrupted, Leaves, pool, conns, flags,
           other
  <1>3. CASE Reuse \/ Enabled \/ Send \/ SendInterrupted \/ ReadFails \/
           Finish
    BY <1>3 DEF Reuse, Interrupted, Alive, world, pool, conns, mine, other,
           halt, flags, Enabled, Send, SendInterrupted, Raises, ReadFails,
           Finish
  <1>4. CASE Replace
    BY <1>4 DEF Replace, Interrupted, Shut, Taken, world, mine, other, halt,
           flags
  <1>5. CASE CheckFails
    BY <1>5 DEF CheckFails, Shut, Taken, OpenFails, flags, other, halt, Leaves
  <1>6. CASE Opened
    BY <1>6 DEF Opened, Interrupted, world, pool, mine, other, halt, flags
  <1>7. CASE NotOpened \/ NotEnabled \/ NotPublished \/ NotArmed
    BY <1>7 DEF NotOpened, OpenFails, conns, flags, other, halt, Leaves,
           NotEnabled, Shut, NotPublished, NotArmed
  <1>8. CASE Publish
    BY <1>8 DEF Publish, world, conns, mine, other, halt, flags
  <1>9. CASE Hold
    BY <1>9 DEF Hold, world, pool, conns, mine, other, halt, flags
  <1>10. CASE Arm
    BY <1>10 DEF Arm, world, pool, halt, other
  <1>11. CASE Read
    BY <1>11 DEF Read, Raises, world, pool, conns, mine, other, halt, flags
  <1>12. CASE Retry
    BY <1>12 DEF Retry, CanRetry, Interrupted, Taken, Shut, world, mine,
           other, halt, flags
  <1>13. CASE GiveUp
    BY <1>13 DEF GiveUp, Raises, Taken, Takes, CanRetry, Interrupted, world,
           conns, mine, other, halt, flags
  <1>14. CASE Exit
    BY <1>14 DEF Exit, Taken, Takes, Disarm, world, halt, other
  <1>15. CASE Left
    BY <1>15 DEF Left, Shut, Leaves, pool, other
  <1>16. CASE Cancel \/ Expire \/ GuardFires
    BY <1>16 DEF Cancel, Abort, AbortFresh, world, pool, conns, flags, hand,
           Expire, other, GuardFires, halt
  <1>17. CASE Empty
    BY <1>17 DEF Empty, world, conns, mine, hand, halt, flags
  <1>18. ASSUME NEW t \in Target, PollBegins(t)
        PROVE  TypeConns'
    BY <1>18 DEF PollBegins, conns, halt, flags, other
  <1>19. ASSUME NEW t \in Target, TrustChanges(t)
        PROVE  TypeConns'
    BY <1>19 DEF TrustChanges, pool, conns, mine, hand, other, halt, flags
  <1>20. ASSUME NEW a \in aborting, AbortTakes(a)
        PROVE  TypeConns'
    BY <1>20 DEF AbortTakes, Taken, Takes, world, conns, mine, hand, halt,
           flags
  <1>21. ASSUME NEW a \in aborting, AbortShuts(a)
        PROVE  TypeConns'
    BY <1>21 DEF AbortShuts, Shut, world, pool, mine, halt, flags
  <1>22. ASSUME NEW d \in Conn, WatchdogFires(d)
        PROVE  TypeConns'
    BY <1>22 DEF WatchdogFires, Shut, world, pool, mine, hand, other, halt,
           flags
  <1>23. ASSUME NEW d \in Conn, PeerDies(d)
        PROVE  TypeConns'
    BY <1>23 DEF PeerDies, world, pool, mine, hand, other, halt, flags
  <1>24. ASSUME NEW d \in Conn, EmptyShuts(d)
        PROVE  TypeConns'
    BY <1>24 DEF EmptyShuts, Shut, world, pool, mine, hand, halt, flags
  <1>25. ASSUME NEW e \in Entry, EmptyTakes(e)
        PROVE  TypeConns'
    BY <1>25 DEF EmptyTakes, world, conns, mine, hand, halt, flags
  <1>26. CASE UNCHANGED vars
    BY <1>26 DEF vars, conns, flags, halt, hand, mine, other, pool, world
  <1> QED BY <1>1, <1>2, <1>3, <1>4, <1>5, <1>6, <1>7, <1>8, <1>9, <1>10,
             <1>11, <1>12, <1>13, <1>14, <1>15, <1>16, <1>17, <1>18, <1>19,
             <1>20, <1>21, <1>22, <1>23, <1>24, <1>25, <1>26 DEF Next

LEMMA PollTyped ==
    ASSUME TypePoll, [Next]_vars
    PROVE  TypePoll'
  <1> USE Zero DEF TypePoll, vars
  <1>1. CASE Enter
    BY <1>1 DEF Enter, Interrupted, world, conns, mine, other, halt, flags
  <1>2. CASE EnterInterrupted
    BY <1>2 DEF EnterInterrupted, Interrupted, Leaves, pool, conns, flags,
           other
  <1>3. CASE Reuse \/ Enabled \/ Send \/ SendInterrupted \/ ReadFails \/
           Finish
    BY <1>3 DEF Reuse, Interrupted, Alive, world, pool, conns, mine, other,
           halt, flags, Enabled, Send, SendInterrupted, Raises, ReadFails,
           Finish
  <1>4. CASE Replace
    BY <1>4 DEF Replace, Interrupted, Shut, Taken, world, mine, other, halt,
           flags
  <1>5. CASE CheckFails
    BY <1>5 DEF CheckFails, Shut, Taken, OpenFails, flags, other, halt, Leaves
  <1>6. CASE Opened
    BY <1>6 DEF Opened, Interrupted, world, pool, mine, other, halt, flags
  <1>7. CASE NotOpened \/ NotEnabled \/ NotPublished \/ NotArmed
    BY <1>7 DEF NotOpened, OpenFails, conns, flags, other, halt, Leaves,
           NotEnabled, Shut, NotPublished, NotArmed
  <1>8. CASE Publish
    BY <1>8 DEF Publish, world, conns, mine, other, halt, flags
  <1>9. CASE Hold
    BY <1>9 DEF Hold, world, pool, conns, mine, other, halt, flags
  <1>10. CASE Arm
    BY <1>10 DEF Arm, world, pool, halt, other
  <1>11. CASE Read
    BY <1>11 DEF Read, Raises, world, pool, conns, mine, other, halt, flags
  <1>12. CASE Retry
    BY <1>12 DEF Retry, CanRetry, Interrupted, Taken, Shut, world, mine,
           other, halt, flags
  <1>13. CASE GiveUp
    BY <1>13 DEF GiveUp, Raises, Taken, Takes, CanRetry, Interrupted, world,
           conns, mine, other, halt, flags
  <1>14. CASE Exit
    BY <1>14 DEF Exit, Taken, Takes, Disarm, world, halt, other
  <1>15. CASE Left
    BY <1>15 DEF Left, Shut, Leaves, pool, other
  <1>16. CASE Cancel \/ Expire \/ GuardFires
    BY <1>16 DEF Cancel, Abort, AbortFresh, world, pool, conns, flags, hand,
           Expire, other, GuardFires, halt
  <1>17. CASE Empty
    BY <1>17 DEF Empty, world, conns, mine, hand, halt, flags
  <1>18. ASSUME NEW t \in Target, PollBegins(t)
        PROVE  TypePoll'
    BY <1>18 DEF PollBegins, conns, halt, flags, other
  <1>19. ASSUME NEW t \in Target, TrustChanges(t)
        PROVE  TypePoll'
    BY <1>19 DEF TrustChanges, pool, conns, mine, hand, other, halt, flags
  <1>20. ASSUME NEW a \in aborting, AbortTakes(a)
        PROVE  TypePoll'
    BY <1>20 DEF AbortTakes, Taken, Takes, world, conns, mine, hand, halt,
           flags
  <1>21. ASSUME NEW a \in aborting, AbortShuts(a)
        PROVE  TypePoll'
    BY <1>21 DEF AbortShuts, Shut, world, pool, mine, halt, flags
  <1>22. ASSUME NEW d \in Conn, WatchdogFires(d) \/ PeerDies(d)
        PROVE  TypePoll'
    BY <1>22 DEF WatchdogFires, Shut, world, pool, mine, hand, other, halt,
           flags, PeerDies
  <1>23. ASSUME NEW d \in Conn, EmptyShuts(d)
        PROVE  TypePoll'
    BY <1>23 DEF EmptyShuts, Shut, world, pool, mine, hand, halt, flags
  <1>24. ASSUME NEW e \in Entry, EmptyTakes(e)
        PROVE  TypePoll'
    BY <1>24 DEF EmptyTakes, world, conns, mine, hand, halt, flags
  <1>25. CASE UNCHANGED vars
    BY <1>25 DEF vars, conns, flags, halt, hand, mine, other, pool, world
  <1> QED BY <1>1, <1>2, <1>3, <1>4, <1>5, <1>6, <1>7, <1>8, <1>9, <1>10,
             <1>11, <1>12, <1>13, <1>14, <1>15, <1>16, <1>17, <1>18, <1>19,
             <1>20, <1>21, <1>22, <1>23, <1>24, <1>25 DEF Next

LEMMA HandTyped ==
    ASSUME TypeHand, TypePool, HandMatches, [Next]_vars
    PROVE  TypeHand'
  <1> USE Zero DEF TypeHand, TypePool, HandMatches, Lease, Where, NoLease,
          Conn, Lowest, Entry
  <1>1. CASE Enter
    BY <1>1 DEF Enter, Interrupted, world, conns, mine, other, halt, flags
  <1>2. CASE EnterInterrupted
    BY <1>2 DEF EnterInterrupted, Interrupted, Leaves, pool, conns, flags,
           other
  <1>3. CASE Reuse \/ Enabled \/ Send \/ SendInterrupted \/ ReadFails \/
           Finish
    BY <1>3 DEF Reuse, Interrupted, Alive, world, pool, conns, mine, other,
           halt, flags, Enabled, Send, SendInterrupted, Raises, ReadFails,
           Finish
  <1>4. CASE Replace
    BY <1>4 DEF Replace, Interrupted, Shut, Taken, world, mine, other, halt,
           flags
  <1>5. CASE CheckFails
    BY <1>5, OpenFailsTypes DEF CheckFails, Shut, Taken, flags, other, halt,
           Leaves
  <1>6. CASE Opened
    BY <1>6 DEF Opened, Interrupted, world, pool, mine, other, halt, flags
  <1>7. CASE NotOpened \/ NotEnabled \/ NotPublished \/ NotArmed
    BY <1>7, OpenFailsTypes DEF NotOpened, conns, flags, other, halt, Leaves,
           NotEnabled, Shut, NotPublished, NotArmed
  <1>8. CASE Publish
    BY <1>8 DEF Publish, world, conns, mine, other, halt, flags
  <1>9. CASE Hold
    BY <1>9 DEF Hold, world, pool, conns, mine, other, halt, flags
  <1>10. CASE Arm
    BY <1>10 DEF Arm, world, pool, halt, other
  <1>11. CASE Read
    BY <1>11 DEF Read, Raises, world, pool, conns, mine, other, halt, flags
  <1>12. CASE Retry
    BY <1>12 DEF Retry, CanRetry, Interrupted, Taken, Shut, world, mine,
           other, halt, flags
  <1>13. CASE GiveUp
    BY <1>13 DEF GiveUp, Raises, Taken, Takes, CanRetry, Interrupted, world,
           conns, mine, other, halt, flags
  <1>14. CASE Exit
    BY <1>14 DEF Exit, Taken, Takes, Disarm, world, halt, other
  <1>15. CASE Left
    BY <1>15 DEF Left, Shut, Leaves, pool, other
  <1>16. CASE Cancel \/ Expire \/ GuardFires
    BY <1>16 DEF Cancel, Abort, AbortFresh, world, pool, conns, flags, hand,
           Expire, other, GuardFires, halt
  <1>17. CASE Empty
    BY <1>17 DEF Empty, world, conns, mine, hand, halt, flags
  <1>18. ASSUME NEW t \in Target, PollBegins(t)
        PROVE  TypeHand'
    BY <1>18 DEF PollBegins, conns, halt, flags, other
  <1>19. ASSUME NEW t \in Target, TrustChanges(t)
        PROVE  TypeHand'
    BY <1>19 DEF TrustChanges, pool, conns, mine, hand, other, halt, flags
  <1>20. ASSUME NEW a \in aborting, AbortTakes(a)
        PROVE  TypeHand'
    BY <1>20 DEF AbortTakes, Taken, Takes, world, conns, mine, hand, halt,
           flags
  <1>21. ASSUME NEW a \in aborting, AbortShuts(a)
        PROVE  TypeHand'
    BY <1>21 DEF AbortShuts, Shut, world, pool, mine, halt, flags
  <1>22. ASSUME NEW d \in Conn, WatchdogFires(d) \/ PeerDies(d)
        PROVE  TypeHand'
    BY <1>22 DEF WatchdogFires, Shut, world, pool, mine, hand, other, halt,
           flags, PeerDies
  <1>23. ASSUME NEW d \in Conn, EmptyShuts(d)
        PROVE  TypeHand'
    BY <1>23 DEF EmptyShuts, Shut, world, pool, mine, hand, halt, flags
  <1>24. ASSUME NEW e \in Entry, EmptyTakes(e)
        PROVE  TypeHand'
    BY <1>24 DEF EmptyTakes, world, conns, mine, hand, halt, flags
  <1>25. CASE UNCHANGED vars
    BY <1>25 DEF vars, conns, flags, halt, hand, mine, other, pool, world
  <1> QED BY <1>1, <1>2, <1>3, <1>4, <1>5, <1>6, <1>7, <1>8, <1>9, <1>10,
             <1>11, <1>12, <1>13, <1>14, <1>15, <1>16, <1>17, <1>18, <1>19,
             <1>20, <1>21, <1>22, <1>23, <1>24, <1>25 DEF Next

LEMMA OtherTyped ==
    ASSUME TypeOther, TypeHand, TypePool, TypePoll, [Next]_vars
    PROVE  TypeOther'
  <1> USE Zero DEF TypeOther, TypeHand, TypePool, TypePoll, AbortCall, Lease,
          Conn, Entry
  <1>1. CASE Enter
    BY <1>1 DEF Enter, Interrupted, world, conns, mine, other, halt, flags
  <1>2. CASE EnterInterrupted
    BY <1>2 DEF EnterInterrupted, Interrupted, Leaves, pool, conns, flags,
           other
  <1>3. CASE Reuse \/ Enabled \/ Send \/ SendInterrupted \/ ReadFails \/
           Finish
    BY <1>3 DEF Reuse, Interrupted, Alive, world, pool, conns, mine, other,
           halt, flags, Enabled, Send, SendInterrupted, Raises, ReadFails,
           Finish
  <1>4. CASE Replace
    BY <1>4 DEF Replace, Interrupted, Shut, Taken, world, mine, other, halt,
           flags
  <1>5. CASE CheckFails
    BY <1>5 DEF CheckFails, Shut, Taken, OpenFails, flags, other, halt, Leaves
  <1>6. CASE Opened
    BY <1>6 DEF Opened, Interrupted, world, pool, mine, other, halt, flags
  <1>7. CASE NotOpened \/ NotEnabled \/ NotPublished \/ NotArmed
    BY <1>7 DEF NotOpened, OpenFails, conns, flags, other, halt, Leaves,
           NotEnabled, Shut, NotPublished, NotArmed
  <1>8. CASE Publish
    BY <1>8 DEF Publish, world, conns, mine, other, halt, flags
  <1>9. CASE Hold
    BY <1>9 DEF Hold, world, pool, conns, mine, other, halt, flags
  <1>10. CASE Arm
    BY <1>10 DEF Arm, world, pool, halt, other
  <1>11. CASE Read
    BY <1>11 DEF Read, Raises, world, pool, conns, mine, other, halt, flags
  <1>12. CASE Retry
    BY <1>12 DEF Retry, CanRetry, Interrupted, Taken, Shut, world, mine,
           other, halt, flags
  <1>13. CASE GiveUp
    BY <1>13 DEF GiveUp, Raises, Taken, Takes, CanRetry, Interrupted, world,
           conns, mine, other, halt, flags
  <1>14. CASE Exit
    BY <1>14 DEF Exit, Taken, Takes, Disarm, world, halt, other
  <1>15. CASE Left
    BY <1>15 DEF Left, Shut, Leaves, pool, other
  <1>16. CASE Cancel
    BY <1>16 DEF Cancel, Abort, AbortFresh, world, pool, conns, flags, hand
  <1>17. CASE Expire
    BY <1>17 DEF Expire, world, pool, conns, flags, hand, other
  <1>18. CASE GuardFires
    BY <1>18 DEF GuardFires, Abort, world, pool, conns, halt, hand
  <1>19. CASE Empty
    <2>1. {entries[t] : t \in Target} \ {0} \subseteq Entry
      BY NotZero
    <2>2. emptying' \subseteq Entry
      BY <1>19, <2>1 DEF Empty
    <2>3. emptied' \in 0..MaxEmptied
      BY <1>19 DEF Empty
    <2> QED BY <1>19, <2>2, <2>3 DEF Empty
  <1>20. ASSUME NEW t \in Target, PollBegins(t)
        PROVE  TypeOther'
    BY <1>20 DEF PollBegins, conns, halt, flags, other
  <1>21. ASSUME NEW t \in Target, TrustChanges(t)
        PROVE  TypeOther'
    BY <1>21 DEF TrustChanges, pool, conns, mine, hand, other, halt, flags
  <1>22. ASSUME NEW a \in aborting, AbortTakes(a)
        PROVE  TypeOther'
    BY <1>22 DEF AbortTakes, Taken, Takes, world, conns, mine, hand, halt,
           flags
  <1>23. ASSUME NEW a \in aborting, AbortShuts(a)
        PROVE  TypeOther'
    BY <1>23 DEF AbortShuts, Shut, world, pool, mine, halt, flags
  <1>24. ASSUME NEW d \in Conn, WatchdogFires(d) \/ PeerDies(d)
        PROVE  TypeOther'
    BY <1>24 DEF WatchdogFires, Shut, world, pool, mine, hand, other, halt,
           flags, PeerDies
  <1>25. ASSUME NEW d \in Conn, EmptyShuts(d)
        PROVE  TypeOther'
    BY <1>25 DEF EmptyShuts, Shut, world, pool, mine, hand, halt, flags
  <1>26. ASSUME NEW e \in Entry, EmptyTakes(e)
        PROVE  TypeOther'
    BY <1>26, NotZero DEF EmptyTakes, world, conns, mine, hand, halt, flags
  <1>27. CASE UNCHANGED vars
    BY <1>27 DEF vars, conns, flags, halt, hand, mine, other, pool, world
  <1> QED BY <1>1, <1>2, <1>3, <1>4, <1>5, <1>6, <1>7, <1>8, <1>9, <1>10,
             <1>11, <1>12, <1>13, <1>14, <1>15, <1>16, <1>17, <1>18, <1>19,
             <1>20, <1>21, <1>22, <1>23, <1>24, <1>25, <1>26, <1>27 DEF Next

(* What a step leaves in the hands of the polling thread.                  *)
LEMMA HandStays ==
    ASSUME TypeHand, TypePool, HandMatches, [Next]_vars
    PROVE  HandMatches'
  <1> USE Zero DEF TypeHand, TypePool, HandMatches, Lease, Where, NoLease,
          Conn, Lowest, Entry
  <1>1. CASE Enter
    BY <1>1 DEF Enter, Interrupted, world, conns, mine, other, halt, flags
  <1>2. CASE EnterInterrupted
    BY <1>2 DEF EnterInterrupted, Interrupted, Leaves, pool, conns, flags,
           other
  <1>3. CASE Reuse \/ Enabled \/ Send \/ SendInterrupted \/ ReadFails \/
           Finish
    BY <1>3 DEF Reuse, Interrupted, Alive, world, pool, conns, mine, other,
           halt, flags, Enabled, Send, SendInterrupted, Raises, ReadFails,
           Finish
  <1>4. CASE Replace
    BY <1>4 DEF Replace, Interrupted, Shut, Taken, world, mine, other, halt,
           flags
  <1>5. CASE CheckFails
    BY <1>5 DEF CheckFails, Shut, Taken, OpenFails, flags, other, halt, Leaves
  <1>6. CASE Opened
    BY <1>6 DEF Opened, Interrupted, world, pool, mine, other, halt, flags
  <1>7. CASE NotOpened \/ NotEnabled \/ NotPublished \/ NotArmed
    BY <1>7 DEF NotOpened, OpenFails, conns, flags, other, halt, Leaves,
           NotEnabled, Shut, NotPublished, NotArmed
  <1>8. CASE Publish
    BY <1>8 DEF Publish, world, conns, mine, other, halt, flags
  <1>9. CASE Hold
    BY <1>9 DEF Hold, world, pool, conns, mine, other, halt, flags
  <1>10. CASE Arm
    BY <1>10 DEF Arm, world, pool, halt, other
  <1>11. CASE Read
    BY <1>11 DEF Read, Raises, world, pool, conns, mine, other, halt, flags
  <1>12. CASE Retry
    BY <1>12 DEF Retry, CanRetry, Interrupted, Taken, Shut, world, mine,
           other, halt, flags
  <1>13. CASE GiveUp
    BY <1>13 DEF GiveUp, Raises, Taken, Takes, CanRetry, Interrupted, world,
           conns, mine, other, halt, flags
  <1>14. CASE Exit
    BY <1>14 DEF Exit, Taken, Takes, Disarm, world, halt, other
  <1>15. CASE Left
    BY <1>15 DEF Left, Shut, Leaves, pool, other
  <1>16. CASE Cancel \/ Expire \/ GuardFires
    BY <1>16 DEF Cancel, Abort, AbortFresh, world, pool, conns, flags, hand,
           Expire, other, GuardFires, halt
  <1>17. CASE Empty
    BY <1>17 DEF Empty, world, conns, mine, hand, halt, flags
  <1>18. ASSUME NEW t \in Target, PollBegins(t)
        PROVE  HandMatches'
    BY <1>18 DEF PollBegins, conns, halt, flags, other
  <1>19. ASSUME NEW t \in Target, TrustChanges(t)
        PROVE  HandMatches'
    BY <1>19 DEF TrustChanges, pool, conns, mine, hand, other, halt, flags
  <1>20. ASSUME NEW a \in aborting, AbortTakes(a)
        PROVE  HandMatches'
    BY <1>20 DEF AbortTakes, Taken, Takes, world, conns, mine, hand, halt,
           flags
  <1>21. ASSUME NEW a \in aborting, AbortShuts(a)
        PROVE  HandMatches'
    BY <1>21 DEF AbortShuts, Shut, world, pool, mine, halt, flags
  <1>22. ASSUME NEW d \in Conn, WatchdogFires(d) \/ PeerDies(d)
        PROVE  HandMatches'
    BY <1>22 DEF WatchdogFires, Shut, world, pool, mine, hand, other, halt,
           flags, PeerDies
  <1>23. ASSUME NEW d \in Conn, EmptyShuts(d)
        PROVE  HandMatches'
    BY <1>23 DEF EmptyShuts, Shut, world, pool, mine, hand, halt, flags
  <1>24. ASSUME NEW e \in Entry, EmptyTakes(e)
        PROVE  HandMatches'
    BY <1>24 DEF EmptyTakes, world, conns, mine, hand, halt, flags
  <1>25. CASE UNCHANGED vars
    BY <1>25 DEF vars, conns, flags, halt, hand, mine, other, pool, world
  <1> QED BY <1>1, <1>2, <1>3, <1>4, <1>5, <1>6, <1>7, <1>8, <1>9, <1>10,
             <1>11, <1>12, <1>13, <1>14, <1>15, <1>16, <1>17, <1>18, <1>19,
             <1>20, <1>21, <1>22, <1>23, <1>24, <1>25 DEF Next

(* No step leaves a connection without an owner: it is shut, or whoever    *)
(* takes it becomes its owner.                                             *)
LEMMA OwnersStay ==
    ASSUME TypePool, TypeConns, TypeHand, TypeOther, HandMatches,
           EveryOneOwned, NEW c \in Conn, Held(c)', [Next]_vars
    PROVE  Owned(c)'
  <1> USE Zero DEF TypePool, TypeConns, TypeHand, TypeOther, HandMatches,
          EveryOneOwned, Owned, InPool, InEmptied, InHand, InAbort, Held
  <1>1. CASE Enter
    BY <1>1 DEF Enter, Interrupted, world, conns, mine, other, halt, flags
  <1>2. CASE EnterInterrupted
    BY <1>2 DEF EnterInterrupted, Interrupted, Leaves, pool, conns, flags,
           other
  <1>3. CASE Reuse \/ Enabled \/ Send \/ SendInterrupted \/ ReadFails \/
           Finish
    BY <1>3 DEF Reuse, Interrupted, Alive, world, pool, conns, mine, other,
           halt, flags, Enabled, Send, SendInterrupted, Raises, ReadFails,
           Finish
  <1>4. CASE Replace
    <2>1. /\ Taken(lease.entry, fresh) /\ UNCHANGED <<entries, emptying>>
          /\ lease.entry \in Entry /\ Shut({fresh} \cap {managed[lease.entry]})
          /\ UNCHANGED <<lease, doomed, aborting>> /\ at = "check"
      BY <1>4, LeaseHasEntry DEF Replace, other
    <2>2. Held(c) /\ ~ (managed[lease.entry] = fresh /\ c = fresh)
      BY <2>1 DEF Shut
    <2>3. Owned(c) /\ ~ InHand(c)
      BY <2>1, <2>2
    <2>4. (InPool(c) => InPool(c)') /\ (InEmptied(c) => InEmptied(c)')
      <3> HIDE DEF InPool, InEmptied
      <3> QED BY <2>1, <2>2, TakenKeepsOthers
    <2> QED BY <2>1, <2>3, <2>4
  <1>5. CASE CheckFails
    <2>1. /\ Taken(lease.entry, fresh) /\ UNCHANGED <<emptying, doomed, aborting>>
          /\ lease.entry \in Entry /\ Shut({fresh} \cap {managed[lease.entry]})
          /\ at = "check"
          /\ \A t \in Target : \/ entries'[t] = entries[t]
                               \/ entries[t] = lease.entry
                                  /\ managed'[lease.entry] = 0
      BY <1>5, LeaseHasEntry, OpenFailsKeeps DEF CheckFails, other
    <2>2. Held(c) /\ ~ (managed[lease.entry] = fresh /\ c = fresh)
      BY <2>1 DEF Shut
    <2>3. Owned(c) /\ ~ InHand(c)
      BY <2>1, <2>2
    <2>4. (InPool(c) => InPool(c)') /\ (InEmptied(c) => InEmptied(c)')
      <3>1. TypePool /\ emptying \subseteq Entry
        OBVIOUS
      <3> HIDE DEF InPool, InEmptied, TypePool, TypeOther, TypeConns, TypeHand,
                   HandMatches, Owned, InHand, Held
      <3> QED BY <2>1, <2>2, <3>1, TakenKeepsOthers
    <2> QED BY <2>1, <2>3, <2>4
  <1>6. CASE Opened
    BY <1>6 DEF Opened, Interrupted, world, pool, mine, other, halt, flags
  <1>7. CASE NotOpened \/ NotEnabled \/ NotPublished \/ NotArmed
    BY <1>7 DEF NotOpened, OpenFails, conns, flags, other, halt, Leaves,
           NotEnabled, Shut, NotPublished, NotArmed
  <1>8. CASE Publish
    <2>1. /\ managed[lease.entry] = 0 /\ entries[asked] = lease.entry
          /\ managed' = [managed EXCEPT ![lease.entry] = fresh]
          /\ asked \in Target /\ lease.entry \in Entry /\ lease.entry # 0
          /\ UNCHANGED <<conn, entries, emptying, doomed, aborting, lease>>
          /\ at = "publish" /\ at' = "hold"
      BY <1>8, NotZero DEF Publish, conns, other
    <2>2. \A e \in Entry : e # lease.entry => managed'[e] = managed[e]
      BY <2>1
    <2>3. CASE c = fresh
      BY <2>1, <2>3
    <2>4. CASE InPool(c)
      BY <2>1, <2>2, <2>4, NotZero
    <2>5. CASE InEmptied(c)
      BY <2>1, <2>2, <2>5
    <2> QED BY <2>1, <2>3, <2>4, <2>5
  <1>9. CASE Hold
    BY <1>9 DEF Hold, world, pool, conns, mine, other, halt, flags
  <1>10. CASE Arm
    BY <1>10 DEF Arm, world, pool, halt, other
  <1>11. CASE Read
    BY <1>11 DEF Read, Raises, world, pool, conns, mine, other, halt, flags
  <1>12. CASE Retry
    BY <1>12 DEF Retry, CanRetry, Interrupted, Taken, Shut, world, mine,
           other, halt, flags
  <1>13. CASE GiveUp
    <2>1. CASE UNCHANGED <<managed, lease>>
      BY <1>13, <2>1 DEF GiveUp, Raises, world, conns, mine, other, halt, flags
    <2>2. CASE Taken(lease.entry, lease.conn)
               /\ lease' = [lease EXCEPT !.pending =
                              @ \/ Takes(lease.entry, lease.conn)]
      <3>1. /\ lease.entry \in Entry /\ UNCHANGED <<conn, entries>>
            /\ UNCHANGED <<emptying, doomed, aborting>>
            /\ at = "failed" /\ at' = "exit"
        BY <1>13, LeaseHasEntry DEF GiveUp, Raises, conns, other
      <3>2. /\ lease'.conn = lease.conn
            /\ managed[lease.entry] = lease.conn => lease'.pending
        BY <2>2 DEF Takes, Lease
      <3>3. CASE managed[lease.entry] = lease.conn /\ c = lease.conn
        BY <3>1, <3>2, <3>3
      <3>4. CASE ~ (managed[lease.entry] = lease.conn /\ c = lease.conn)
        <4>1. (InPool(c) => InPool(c)') /\ (InEmptied(c) => InEmptied(c)')
          <5> HIDE DEF InPool, InEmptied
          <5> QED BY <2>2, <3>1, <3>4, TakenKeepsOthers
        <4> QED BY <3>1, <4>1
      <3> QED BY <3>3, <3>4
    <2> QED BY <1>13, <2>1, <2>2 DEF GiveUp
  <1>14. CASE Exit
    <2>1. /\ lease.entry \in Entry /\ UNCHANGED <<conn, entries>>
          /\ UNCHANGED <<emptying, doomed, aborting>>
          /\ at = "exit" /\ at' = "left" /\ fresh = 0
      BY <1>14, LeaseHasEntry DEF Exit, other
    <2>2. CASE ~ failing
      BY <1>14, <2>1, <2>2 DEF Exit
    <2>3. CASE failing
      <3>0. /\ Taken(lease.entry, lease.conn)
            /\ lease' = [lease EXCEPT !.pending = @ \/ (lease.conn # 0
                                        /\ Takes(lease.entry, lease.conn))]
        BY <1>14, <2>3 DEF Exit
      <3>1. /\ lease'.conn = lease.conn
            /\ lease.pending => lease'.pending
            /\ lease.conn # 0 /\ managed[lease.entry] = lease.conn
                  => lease'.pending
        BY <3>0 DEF Takes, Lease
      <3>2. CASE managed[lease.entry] = lease.conn /\ c = lease.conn
        BY <2>1, <3>1, <3>2, Zero
      <3>3. CASE ~ (managed[lease.entry] = lease.conn /\ c = lease.conn)
        <4>1. (InPool(c) => InPool(c)') /\ (InEmptied(c) => InEmptied(c)')
          <5> HIDE DEF InPool, InEmptied
          <5> QED BY <2>1, <3>0, <3>3, TakenKeepsOthers
        <4> QED BY <2>1, <3>1, <4>1
      <3> QED BY <3>2, <3>3
    <2> QED BY <2>2, <2>3
  <1>15. CASE Left
    BY <1>15 DEF Left, Shut, Leaves, pool, other
  <1>16. CASE Cancel \/ Expire \/ GuardFires
    BY <1>16 DEF Cancel, Abort, AbortFresh, world, pool, conns, flags, hand,
           Expire, other, GuardFires, halt
  <1>17. CASE Empty
    BY <1>17 DEF Empty, world, conns, mine, hand, halt, flags
  <1>18. ASSUME NEW t \in Target, PollBegins(t)
        PROVE  Owned(c)'
    BY <1>18 DEF PollBegins, conns, halt, flags, other
  <1>19. ASSUME NEW t \in Target, TrustChanges(t)
        PROVE  Owned(c)'
    BY <1>19 DEF TrustChanges, pool, conns, mine, hand, other, halt, flags
  <1>20. ASSUME NEW a \in aborting, AbortTakes(a)
        PROVE  Owned(c)'
    <2>1. /\ Taken(a.entry, a.conn) /\ UNCHANGED <<conn, entries, emptying>>
          /\ UNCHANGED <<doomed, at, fresh, lease>>
          /\ \A b \in aborting : b # a => b \in aborting'
          /\ a.step = "take"
      BY <1>20 DEF AbortTakes, conns, hand
    <2>2. CASE Takes(a.entry, a.conn) /\ c = a.conn
      <3> DEFINE b == [a EXCEPT !.step = "shut"]
      <3>1. b \in aborting'
        BY <1>20, <2>2 DEF AbortTakes
      <3>2. b.conn = c /\ b.step = "shut"
        BY <2>2 DEF AbortCall
      <3> QED BY <3>1, <3>2
    <2>3. CASE ~ (Takes(a.entry, a.conn) /\ c = a.conn)
      <3>1. (InPool(c) => InPool(c)') /\ (InEmptied(c) => InEmptied(c)')
        <4>1. CASE a.entry \in Entry
          <5>1. /\ ~ (managed[a.entry] = a.conn /\ c = a.conn)
                /\ \A t \in Target : \/ entries'[t] = entries[t]
                                     \/ /\ entries[t] = a.entry
                                        /\ managed'[a.entry] = 0
                /\ emptying \subseteq Entry /\ UNCHANGED emptying
            BY <2>1, <2>3 DEF Takes
          <5>2. TypePool /\ Taken(a.entry, a.conn)
            BY <2>1
          <5> HIDE DEF InPool, InEmptied, TypePool, TypeOther, TypeConns, TypeHand,
                       HandMatches, Owned, InHand, InAbort, Held, EveryOneOwned
          <5> QED BY <5>1, <5>2, <4>1, TakenKeepsOthers
        <4>2. CASE a.entry \notin Entry
          <5>1. UNCHANGED managed
            BY <2>1, <4>2 DEF Taken
          <5> QED BY <2>1, <5>1
        <4> QED BY <4>1, <4>2
      <3> QED BY <2>1, <3>1
    <2> QED BY <2>2, <2>3
  <1>21. ASSUME NEW a \in aborting, AbortShuts(a)
        PROVE  Owned(c)'
    <2>1. /\ UNCHANGED <<entries, managed, emptying, doomed, at, fresh>>
          /\ \A b \in aborting : b # a => b \in aborting'
          /\ conn'[a.conn] = "shut" \/ a.conn \notin Conn
          /\ Held(c) /\ lease'.conn = lease.conn
          /\ lease.pending => lease'.pending
      BY <1>21 DEF AbortShuts, Shut, pool, Lease
    <2> QED BY <2>1
  <1>22. ASSUME NEW d \in Conn, WatchdogFires(d) \/ PeerDies(d)
        PROVE  Owned(c)'
    BY <1>22 DEF WatchdogFires, Shut, world, pool, mine, hand, other, halt,
           flags, PeerDies
  <1>23. ASSUME NEW d \in Conn, EmptyShuts(d)
        PROVE  Owned(c)'
    BY <1>23 DEF EmptyShuts, Shut, world, pool, mine, hand, halt, flags
  <1>24. ASSUME NEW e \in Entry, EmptyTakes(e)
        PROVE  Owned(c)'
    BY <1>24 DEF EmptyTakes, world, conns, mine, hand, halt, flags
  <1>25. CASE UNCHANGED vars
    BY <1>25 DEF vars, conns, flags, halt, hand, mine, other, pool, world
  <1> QED BY <1>1, <1>2, <1>3, <1>4, <1>5, <1>6, <1>7, <1>8, <1>9, <1>10,
             <1>11, <1>12, <1>13, <1>14, <1>15, <1>16, <1>17, <1>18, <1>19,
             <1>20, <1>21, <1>22, <1>23, <1>24, <1>25 DEF Next

(* A name stands for one connection for good.                              *)
LEMMA OpenedStays ==
    ASSUME TypeConns, [Next]_vars
    PROVE  \A c \in Conn : conn[c] # "none" => conn'[c] # "none"
  <1> USE DEF TypeConns
  <1>1. CASE Enter
    BY <1>1 DEF Enter, Interrupted, world, conns, mine, other, halt, flags
  <1>2. CASE EnterInterrupted
    BY <1>2 DEF EnterInterrupted, Interrupted, Leaves, pool, conns, flags,
           other
  <1>3. CASE Reuse \/ Enabled \/ Send \/ SendInterrupted \/ ReadFails \/
           Finish
    BY <1>3 DEF Reuse, Interrupted, Alive, world, pool, conns, mine, other,
           halt, flags, Enabled, Send, SendInterrupted, Raises, ReadFails,
           Finish
  <1>4. CASE Replace
    BY <1>4 DEF Replace, Interrupted, Shut, Taken, world, mine, other, halt,
           flags
  <1>5. CASE CheckFails
    BY <1>5 DEF CheckFails, Shut, Taken, OpenFails, flags, other, halt, Leaves
  <1>6. CASE Opened
    BY <1>6 DEF Opened, Interrupted, world, pool, mine, other, halt, flags
  <1>7. CASE NotOpened \/ NotEnabled \/ NotPublished \/ NotArmed
    BY <1>7 DEF NotOpened, OpenFails, conns, flags, other, halt, Leaves,
           NotEnabled, Shut, NotPublished, NotArmed
  <1>8. CASE Publish
    BY <1>8 DEF Publish, world, conns, mine, other, halt, flags
  <1>9. CASE Hold
    BY <1>9 DEF Hold, world, pool, conns, mine, other, halt, flags
  <1>10. CASE Arm
    BY <1>10 DEF Arm, world, pool, halt, other
  <1>11. CASE Read
    BY <1>11 DEF Read, Raises, world, pool, conns, mine, other, halt, flags
  <1>12. CASE Retry
    BY <1>12 DEF Retry, CanRetry, Interrupted, Taken, Shut, world, mine,
           other, halt, flags
  <1>13. CASE GiveUp
    BY <1>13 DEF GiveUp, Raises, Taken, Takes, CanRetry, Interrupted, world,
           conns, mine, other, halt, flags
  <1>14. CASE Exit
    BY <1>14 DEF Exit, Taken, Takes, Disarm, world, halt, other
  <1>15. CASE Left
    BY <1>15 DEF Left, Shut, Leaves, pool, other
  <1>16. CASE Cancel \/ Expire \/ GuardFires
    BY <1>16 DEF Cancel, Abort, AbortFresh, world, pool, conns, flags, hand,
           Expire, other, GuardFires, halt
  <1>17. CASE Empty
    BY <1>17 DEF Empty, world, conns, mine, hand, halt, flags
  <1>18. ASSUME NEW t \in Target, PollBegins(t)
        PROVE  \A c \in Conn : conn[c] # "none" => conn'[c] # "none"
    BY <1>18 DEF PollBegins, conns, halt, flags, other
  <1>19. ASSUME NEW t \in Target, TrustChanges(t)
        PROVE  \A c \in Conn : conn[c] # "none" => conn'[c] # "none"
    BY <1>19 DEF TrustChanges, pool, conns, mine, hand, other, halt, flags
  <1>20. ASSUME NEW a \in aborting, AbortTakes(a)
        PROVE  \A c \in Conn : conn[c] # "none" => conn'[c] # "none"
    BY <1>20 DEF AbortTakes, Taken, Takes, world, conns, mine, hand, halt,
           flags
  <1>21. ASSUME NEW a \in aborting, AbortShuts(a)
        PROVE  \A c \in Conn : conn[c] # "none" => conn'[c] # "none"
    BY <1>21 DEF AbortShuts, Shut, world, pool, mine, halt, flags
  <1>22. ASSUME NEW d \in Conn, WatchdogFires(d) \/ PeerDies(d)
        PROVE  \A c \in Conn : conn[c] # "none" => conn'[c] # "none"
    BY <1>22 DEF WatchdogFires, Shut, world, pool, mine, hand, other, halt,
           flags, PeerDies
  <1>23. ASSUME NEW d \in Conn, EmptyShuts(d)
        PROVE  \A c \in Conn : conn[c] # "none" => conn'[c] # "none"
    BY <1>23 DEF EmptyShuts, Shut, world, pool, mine, hand, halt, flags
  <1>24. ASSUME NEW e \in Entry, EmptyTakes(e)
        PROVE  \A c \in Conn : conn[c] # "none" => conn'[c] # "none"
    BY <1>24 DEF EmptyTakes, world, conns, mine, hand, halt, flags
  <1>25. CASE UNCHANGED vars
    BY <1>25 DEF vars, conns, flags, halt, hand, mine, other, pool, world
  <1> QED BY <1>1, <1>2, <1>3, <1>4, <1>5, <1>6, <1>7, <1>8, <1>9, <1>10,
             <1>11, <1>12, <1>13, <1>14, <1>15, <1>16, <1>17, <1>18, <1>19,
             <1>20, <1>21, <1>22, <1>23, <1>24, <1>25 DEF Next

LEMMA InUseStays ==
    ASSUME TypePool, TypeConns, TypeHand, HandMatches, InUseExists, \A c \in
           Conn : conn[c] # "none" => conn'[c] # "none", [Next]_vars
    PROVE  InUseExists'
  <1> USE Zero, NotZero DEF TypePool, TypeConns, TypeHand, HandMatches,
          InUseExists, Lowest, NoLease, Lease
  <1>1. CASE Enter
    BY <1>1 DEF Enter, Interrupted, world, conns, mine, other, halt, flags
  <1>2. CASE EnterInterrupted
    BY <1>2 DEF EnterInterrupted, Interrupted, Leaves, pool, conns, flags,
           other
  <1>3. CASE Reuse \/ Enabled \/ Send \/ SendInterrupted \/ ReadFails \/
           Finish
    BY <1>3 DEF Reuse, Interrupted, Alive, world, pool, conns, mine, other,
           halt, flags, Enabled, Send, SendInterrupted, Raises, ReadFails,
           Finish
  <1>4. CASE Replace
    BY <1>4 DEF Replace, Interrupted, Shut, Taken, world, mine, other, halt,
           flags
  <1>5. CASE CheckFails
    BY <1>5 DEF CheckFails, Shut, Taken, OpenFails, flags, other, halt, Leaves
  <1>6. CASE Opened
    BY <1>6 DEF Opened, Interrupted, world, pool, mine, other, halt, flags
  <1>7. CASE NotOpened \/ NotEnabled \/ NotPublished \/ NotArmed
    BY <1>7 DEF NotOpened, OpenFails, conns, flags, other, halt, Leaves,
           NotEnabled, Shut, NotPublished, NotArmed
  <1>8. CASE Publish
    BY <1>8 DEF Publish, world, conns, mine, other, halt, flags
  <1>9. CASE Hold
    BY <1>9 DEF Hold, world, pool, conns, mine, other, halt, flags
  <1>10. CASE Arm
    BY <1>10 DEF Arm, world, pool, halt, other
  <1>11. CASE Read
    BY <1>11 DEF Read, Raises, world, pool, conns, mine, other, halt, flags
  <1>12. CASE Retry
    BY <1>12 DEF Retry, CanRetry, Interrupted, Taken, Shut, world, mine,
           other, halt, flags
  <1>13. CASE GiveUp
    BY <1>13 DEF GiveUp, Raises, Taken, Takes, CanRetry, Interrupted, world,
           conns, mine, other, halt, flags
  <1>14. CASE Exit
    BY <1>14 DEF Exit, Taken, Takes, Disarm, world, halt, other
  <1>15. CASE Left
    BY <1>15 DEF Left, Shut, Leaves, pool, other
  <1>16. CASE Cancel \/ Expire \/ GuardFires
    BY <1>16 DEF Cancel, Abort, AbortFresh, world, pool, conns, flags, hand,
           Expire, other, GuardFires, halt
  <1>17. CASE Empty
    BY <1>17 DEF Empty, world, conns, mine, hand, halt, flags
  <1>18. ASSUME NEW t \in Target, PollBegins(t)
        PROVE  InUseExists'
    BY <1>18 DEF PollBegins, conns, halt, flags, other
  <1>19. ASSUME NEW t \in Target, TrustChanges(t)
        PROVE  InUseExists'
    BY <1>19 DEF TrustChanges, pool, conns, mine, hand, other, halt, flags
  <1>20. ASSUME NEW a \in aborting, AbortTakes(a)
        PROVE  InUseExists'
    BY <1>20 DEF AbortTakes, Taken, Takes, world, conns, mine, hand, halt,
           flags
  <1>21. ASSUME NEW a \in aborting, AbortShuts(a)
        PROVE  InUseExists'
    BY <1>21 DEF AbortShuts, Shut, world, pool, mine, halt, flags
  <1>22. ASSUME NEW d \in Conn, WatchdogFires(d) \/ PeerDies(d)
        PROVE  InUseExists'
    BY <1>22 DEF WatchdogFires, Shut, world, pool, mine, hand, other, halt,
           flags, PeerDies
  <1>23. ASSUME NEW d \in Conn, EmptyShuts(d)
        PROVE  InUseExists'
    BY <1>23 DEF EmptyShuts, Shut, world, pool, mine, hand, halt, flags
  <1>24. ASSUME NEW e \in Entry, EmptyTakes(e)
        PROVE  InUseExists'
    BY <1>24 DEF EmptyTakes, world, conns, mine, hand, halt, flags
  <1>25. CASE UNCHANGED vars
    BY <1>25 DEF vars, conns, flags, halt, hand, mine, other, pool, world
  <1> QED BY <1>1, <1>2, <1>3, <1>4, <1>5, <1>6, <1>7, <1>8, <1>9, <1>10,
             <1>11, <1>12, <1>13, <1>14, <1>15, <1>16, <1>17, <1>18, <1>19,
             <1>20, <1>21, <1>22, <1>23, <1>24, <1>25 DEF Next

(* A connection goes into an entry once, by Publish.                       *)
LEMMA HomesStay ==
    ASSUME TypePool, TypeHand, HandMatches, InUseExists, OneHome, [Next]_vars
    PROVE  OneHome'
  <1> USE Zero, NotZero DEF TypePool, TypeHand, HandMatches, OneHome, Lease
  <1>1. CASE Enter
    BY <1>1 DEF Enter, Interrupted, world, conns, mine, other, halt, flags
  <1>2. CASE EnterInterrupted
    BY <1>2, NoLeaseIsEmpty DEF EnterInterrupted, Interrupted, Leaves, pool,
           conns, flags, other
  <1>3. CASE Reuse \/ Enabled \/ Send \/ SendInterrupted \/ ReadFails \/
           Finish
    BY <1>3 DEF Reuse, Interrupted, Alive, world, pool, conns, mine, other,
           halt, flags, Enabled, Send, SendInterrupted, Raises, ReadFails,
           Finish
  <1>4. CASE Replace
    BY <1>4 DEF Replace, Interrupted, Shut, Taken, world, mine, other, halt,
           flags
  <1>5. CASE CheckFails
    BY <1>5, OpenFailsHand, NoLeaseIsEmpty, TakenEmpties DEF CheckFails, Shut,
           flags, other, halt, Leaves
  <1>6. CASE Opened
    <2>1. /\ fresh' # 0 => conn[fresh'] = "none"
          /\ lease.conn = 0 /\ UNCHANGED <<managed, lease>>
      BY <1>6 DEF Opened, pool, Lowest
    <2>2. \A e \in Entry : managed[e] # 0 => managed[e] # fresh'
      BY <2>1 DEF InUseExists
    <2> QED BY <1>6, <2>1, <2>2
  <1>7. CASE NotOpened \/ NotEnabled \/ NotPublished \/ NotArmed
    BY <1>7, OpenFailsHand, NoLeaseIsEmpty DEF NotOpened, conns, flags, other,
           halt, Leaves, NotEnabled, Shut, NotPublished, NotArmed
  <1>8. CASE Publish
    BY <1>8 DEF Publish, world, conns, mine, other, halt, flags
  <1>9. CASE Hold
    BY <1>9 DEF Hold, world, pool, conns, mine, other, halt, flags
  <1>10. CASE Arm
    BY <1>10 DEF Arm, world, pool, halt, other
  <1>11. CASE Read
    BY <1>11 DEF Read, Raises, world, pool, conns, mine, other, halt, flags
  <1>12. CASE Retry
    BY <1>12 DEF Retry, CanRetry, Interrupted, Taken, Shut, world, mine,
           other, halt, flags
  <1>13. CASE GiveUp
    BY <1>13, TakenEmpties DEF GiveUp, Raises, Takes, CanRetry, Interrupted,
           world, conns, mine, other, halt, flags
  <1>14. CASE Exit
    BY <1>14, TakenEmpties DEF Exit, Takes, Disarm, world, halt, other
  <1>15. CASE Left
    BY <1>15, NoLeaseIsEmpty DEF Left, Shut, Leaves, pool, other
  <1>16. CASE Cancel \/ Expire \/ GuardFires
    BY <1>16 DEF Cancel, Abort, AbortFresh, world, pool, conns, flags, hand,
           Expire, other, GuardFires, halt
  <1>17. CASE Empty
    BY <1>17 DEF Empty, world, conns, mine, hand, halt, flags
  <1>18. ASSUME NEW t \in Target, PollBegins(t)
        PROVE  OneHome'
    <2>1. lease'.conn = 0 /\ fresh' = 0
      BY <1>18 DEF PollBegins, NoLease
    <2> QED BY <1>18, <2>1 DEF PollBegins
  <1>19. ASSUME NEW t \in Target, TrustChanges(t)
        PROVE  OneHome'
    BY <1>19 DEF TrustChanges, pool, conns, mine, hand, other, halt, flags
  <1>20. ASSUME NEW a \in aborting, AbortTakes(a)
        PROVE  OneHome'
    BY <1>20 DEF AbortTakes, Taken, Takes, world, conns, mine, hand, halt,
           flags
  <1>21. ASSUME NEW a \in aborting, AbortShuts(a)
        PROVE  OneHome'
    BY <1>21 DEF AbortShuts, Shut, world, pool, mine, halt, flags
  <1>22. ASSUME NEW d \in Conn, WatchdogFires(d) \/ PeerDies(d)
        PROVE  OneHome'
    BY <1>22 DEF WatchdogFires, Shut, world, pool, mine, hand, other, halt,
           flags, PeerDies
  <1>23. ASSUME NEW d \in Conn, EmptyShuts(d)
        PROVE  OneHome'
    BY <1>23 DEF EmptyShuts, Shut, world, pool, mine, hand, halt, flags
  <1>24. ASSUME NEW e \in Entry, EmptyTakes(e)
        PROVE  OneHome'
    BY <1>24 DEF EmptyTakes, world, conns, mine, hand, halt, flags
  <1>25. CASE UNCHANGED vars
    BY <1>25 DEF vars, conns, flags, halt, hand, mine, other, pool, world
  <1> QED BY <1>1, <1>2, <1>3, <1>4, <1>5, <1>6, <1>7, <1>8, <1>9, <1>10,
             <1>11, <1>12, <1>13, <1>14, <1>15, <1>16, <1>17, <1>18, <1>19,
             <1>20, <1>21, <1>22, <1>23, <1>24, <1>25 DEF Next

(* A cancellation is carried on from callback to callback.                 *)
LEMMA WakersStay ==
    ASSUME PoolInv, CancelledRead', [Next]_vars
    PROVE  Waker'
  <1> USE Zero DEF PoolInv, TypeOK, TypePool, TypeConns, TypePoll, TypeHand,
          TypeOther, HandMatches, Woken, Waker, CancelledRead, InAbort
  <1>1. CASE Enter
    BY <1>1 DEF Enter, Interrupted, world, conns, mine, other, halt, flags
  <1>2. CASE EnterInterrupted
    BY <1>2 DEF EnterInterrupted, Interrupted, Leaves, pool, conns, flags,
           other
  <1>3. CASE Reuse \/ Enabled \/ Send \/ SendInterrupted \/ ReadFails \/
           Finish
    BY <1>3 DEF Reuse, Interrupted, Alive, world, pool, conns, mine, other,
           halt, flags, Enabled, Send, SendInterrupted, Raises, ReadFails,
           Finish
  <1>4. CASE Replace
    BY <1>4 DEF Replace, Interrupted, Shut, Taken, world, mine, other, halt,
           flags
  <1>5. CASE CheckFails
    BY <1>5 DEF CheckFails, Shut, Taken, OpenFails, flags, other, halt, Leaves
  <1>6. CASE Opened
    BY <1>6 DEF Opened, Interrupted, world, pool, mine, other, halt, flags
  <1>7. CASE NotOpened \/ NotEnabled \/ NotPublished \/ NotArmed
    BY <1>7 DEF NotOpened, OpenFails, conns, flags, other, halt, Leaves,
           NotEnabled, Shut, NotPublished, NotArmed
  <1>8. CASE Publish
    BY <1>8 DEF Publish, world, conns, mine, other, halt, flags
  <1>9. CASE Hold
    BY <1>9 DEF Hold, world, pool, conns, mine, other, halt, flags
  <1>10. CASE Arm
    BY <1>10 DEF Arm, world, pool, halt, other
  <1>11. CASE Read
    BY <1>11 DEF Read, Raises, world, pool, conns, mine, other, halt, flags
  <1>12. CASE Retry
    BY <1>12 DEF Retry, CanRetry, Interrupted, Taken, Shut, world, mine,
           other, halt, flags
  <1>13. CASE GiveUp
    BY <1>13 DEF GiveUp, Raises, Taken, Takes, CanRetry, Interrupted, world,
           conns, mine, other, halt, flags
  <1>14. CASE Exit
    BY <1>14 DEF Exit, Taken, Takes, Disarm, world, halt, other
  <1>15. CASE Left
    BY <1>15 DEF Left, Shut, Leaves, pool, other
  <1>16. CASE Cancel
    <2>1. /\ at = "read" /\ registered /\ lease.conn # 0
          /\ aborting' = aborting \cup Abort \cup AbortFresh
          /\ UNCHANGED <<managed, lease, conn, doomed, emptying, fresh, poll>>
          /\ lease.conn \in Conn /\ lease.entry \in Entry
      BY <1>16, NotZero, LeaseHasEntry DEF Cancel, hand, conns, pool, Lease
    <2>2. CASE managed[lease.entry] = lease.conn
      <3> DEFINE a == [poll |-> poll, entry |-> lease.entry,
                       conn |-> lease.conn, step |-> "take"]
      <3>1. a \in aborting'
        BY <2>1 DEF Abort
      <3>2. a.poll = poll /\ a.conn = lease.conn /\ a.entry = lease.entry
            /\ a.step = "take"
        OBVIOUS
      <3> HIDE DEF a
      <3> QED BY <2>1, <2>2, <3>1, <3>2
    <2>3. CASE managed[lease.entry] # lease.conn
      <3>1. Owned(lease.conn)
        BY <2>1 DEF EveryOneOwned, Held
      <3>2. ~ InPool(lease.conn)
        BY <2>1, <2>3, NotZero DEF OneHome, InPool
      <3>3. ~ InEmptied(lease.conn)
        BY <2>1, <2>3 DEF OneHome, InEmptied
      <3>4. ~ InHand(lease.conn)
        BY <2>1 DEF InHand
      <3> QED BY <2>1, <3>1, <3>2, <3>3, <3>4 DEF Owned
    <2> QED BY <2>2, <2>3
  <1>17. CASE Expire
    BY <1>17 DEF Expire, world, pool, conns, flags, hand, other
  <1>18. CASE GuardFires
    BY <1>18 DEF GuardFires, Abort, world, pool, conns, halt, hand
  <1>19. CASE Empty
    BY <1>19 DEF Empty, world, conns, mine, hand, halt, flags
  <1>20. ASSUME NEW t \in Target, PollBegins(t)
        PROVE  Waker'
    BY <1>20 DEF PollBegins, conns, halt, flags, other
  <1>21. ASSUME NEW t \in Target, TrustChanges(t)
        PROVE  Waker'
    BY <1>21 DEF TrustChanges, pool, conns, mine, hand, other, halt, flags
  <1>22. ASSUME NEW a \in aborting, AbortTakes(a)
        PROVE  Waker'
    <2>1. /\ UNCHANGED <<conn, poll, at, cancelled, doomed, lease>>
          /\ \A b \in aborting : b # a => b \in aborting'
          /\ a.step = "take" /\ Taken(a.entry, a.conn)
      BY <1>22 DEF AbortTakes, mine, halt, hand, conns
    <2>2. lease.entry \in Entry
      BY <2>1, LeaseHasEntry
    <2>3. CASE Takes(a.entry, a.conn) /\ a.conn = lease.conn
      <3> DEFINE b == [a EXCEPT !.step = "shut"]
      <3>1. b \in aborting'
        BY <1>22, <2>3 DEF AbortTakes
      <3>2. b.conn = lease.conn /\ b.step = "shut"
        BY <2>3 DEF AbortCall
      <3> QED BY <2>1, <3>1, <3>2
    <2>4. CASE ~ (Takes(a.entry, a.conn) /\ a.conn = lease.conn)
      <3>1. managed[lease.entry] = lease.conn =>
               /\ managed'[lease.entry] = lease.conn
               /\ ~ (a.conn = lease.conn /\ a.entry = lease.entry)
        BY <2>1, <2>2, <2>4 DEF Taken, Takes
      <3> QED BY <2>1, <3>1
    <2> QED BY <2>3, <2>4
  <1>23. ASSUME NEW a \in aborting, AbortShuts(a)
        PROVE  Waker'
    <2>1. /\ UNCHANGED <<managed, poll, at, cancelled, doomed>>
          /\ \A b \in aborting : b # a => b \in aborting'
          /\ \A c \in Conn : conn'[c] = IF c = a.conn THEN "shut" ELSE conn[c]
          /\ a.step = "shut"
      BY <1>23 DEF AbortShuts, Shut, pool, mine, halt
    <2>2. lease'.conn = lease.conn /\ lease'.entry = lease.entry
          /\ lease'.retried = lease.retried
      BY <1>23 DEF AbortShuts, Lease
    <2>3. lease.conn \in Conn /\ lease.conn # a.conn
      BY <2>1, <2>2, NotZero DEF Lease
    <2> QED BY <2>1, <2>2, <2>3
  <1>24. ASSUME NEW d \in Conn, WatchdogFires(d)
        PROVE  Waker'
    <2>1. /\ UNCHANGED <<managed, lease, poll, at, cancelled>>
          /\ UNCHANGED <<doomed, aborting>>
          /\ conn'[d] = "shut" /\ \A c \in Conn \ {d} : conn'[c] = conn[c]
      BY <1>24 DEF WatchdogFires, Shut, pool, mine, halt, hand, other
    <2>2. lease.conn \in Conn /\ lease.conn # d
      BY <2>1, NotZero DEF Lease
    <2> QED BY <2>1, <2>2
  <1>25. ASSUME NEW d \in Conn, PeerDies(d)
        PROVE  Waker'
    <2>1. /\ UNCHANGED <<managed, lease, poll, at, cancelled>>
          /\ UNCHANGED <<doomed, aborting>>
          /\ conn'[d] = "dead" /\ \A c \in Conn \ {d} : conn'[c] = conn[c]
      BY <1>25 DEF PeerDies, pool, mine, halt, hand, other
    <2>2. lease.conn \in Conn /\ lease.conn # d
      BY <2>1, NotZero DEF Lease
    <2> QED BY <2>1, <2>2
  <1>26. ASSUME NEW d \in Conn, EmptyShuts(d)
        PROVE  Waker'
    <2>1. /\ UNCHANGED <<managed, lease, poll, at, cancelled>>
          /\ d \in doomed /\ doomed' = doomed \ {d} /\ UNCHANGED aborting
          /\ conn'[d] = "shut" /\ \A c \in Conn \ {d} : conn'[c] = conn[c]
      BY <1>26 DEF EmptyShuts, Shut, pool, mine, halt, hand, other
    <2>2. lease.conn \in Conn /\ lease.conn # d
      BY <2>1, NotZero DEF Lease
    <2> QED BY <2>1, <2>2
  <1>27. ASSUME NEW e \in Entry, EmptyTakes(e)
        PROVE  Waker'
    BY <1>27 DEF EmptyTakes, world, conns, mine, hand, halt, flags
  <1>28. CASE UNCHANGED vars
    BY <1>28 DEF vars, conns, flags, halt, hand, mine, other, pool, world
  <1> QED BY <1>1, <1>2, <1>3, <1>4, <1>5, <1>6, <1>7, <1>8, <1>9, <1>10,
             <1>11, <1>12, <1>13, <1>14, <1>15, <1>16, <1>17, <1>18, <1>19,
             <1>20, <1>21, <1>22, <1>23, <1>24, <1>25, <1>26, <1>27, <1>28 DEF Next

(* known_hosts is asked again before a kept connection is used.            *)
LEMMA TrustStays ==
    ASSUME TypeWorld, TypeConns, TypeHand, HandMatches, OneHome, Trusting,
           [Next]_vars
    PROVE  Trusting'
  <1> USE Zero DEF TypeWorld, TypeConns, TypeHand, HandMatches, OneHome,
          Trusting, Held
  <1>1. CASE Enter
    BY <1>1 DEF Enter, Interrupted, world, conns, mine, other, halt, flags
  <1>2. CASE EnterInterrupted
    BY <1>2 DEF EnterInterrupted, Interrupted, Leaves, pool, conns, flags,
           other
  <1>3. CASE Reuse \/ Enabled \/ Send \/ SendInterrupted \/ ReadFails \/
           Finish
    BY <1>3 DEF Reuse, Interrupted, Alive, world, pool, conns, mine, other,
           halt, flags, Enabled, Send, SendInterrupted, Raises, ReadFails,
           Finish
  <1>4. CASE Replace
    BY <1>4 DEF Replace, Interrupted, Shut, Taken, world, mine, other, halt,
           flags
  <1>5. CASE CheckFails
    BY <1>5 DEF CheckFails, Shut, Taken, OpenFails, flags, other, halt, Leaves
  <1>6. CASE Opened
    <2>1. /\ at = "open" /\ fresh' \in Conn /\ conn[fresh'] = "none"
          /\ UNCHANGED <<trusted, stale, asked>> /\ at' = "enable"
          /\ \A c \in Conn \ {fresh'} : UNCHANGED <<conn[c], token[c]>>
      BY <1>6 DEF Opened, Lowest, world, mine
    <2>2. fresh' \notin stale
      BY <2>1
    <2> QED BY <1>6, <2>1, <2>2 DEF Opened
  <1>7. CASE NotOpened \/ NotEnabled \/ NotPublished \/ NotArmed
    BY <1>7 DEF NotOpened, OpenFails, conns, flags, other, halt, Leaves,
           NotEnabled, Shut, NotPublished, NotArmed
  <1>8. CASE Publish
    BY <1>8 DEF Publish, world, conns, mine, other, halt, flags
  <1>9. CASE Hold
    BY <1>9 DEF Hold, world, pool, conns, mine, other, halt, flags
  <1>10. CASE Arm
    BY <1>10 DEF Arm, world, pool, halt, other
  <1>11. CASE Read
    <2>1. /\ lease'.conn = lease.conn /\ UNCHANGED <<stale, trusted, asked>>
          /\ UNCHANGED <<conn, token, fresh>> /\ at = "read"
          /\ at' \in {"send", "exit"}
      BY <1>11 DEF Read, Raises, world, mine, conns, Lease
    <2> QED BY <2>1
  <1>12. CASE Retry
    BY <1>12 DEF Retry, CanRetry, Interrupted, Taken, Shut, world, mine,
           other, halt, flags
  <1>13. CASE GiveUp
    BY <1>13 DEF GiveUp, Raises, Taken, Takes, CanRetry, Interrupted, world,
           conns, mine, other, halt, flags
  <1>14. CASE Exit
    BY <1>14 DEF Exit, Taken, Takes, Disarm, world, halt, other
  <1>15. CASE Left
    BY <1>15 DEF Left, Shut, Leaves, pool, other
  <1>16. CASE Cancel \/ Expire \/ GuardFires
    BY <1>16 DEF Cancel, Abort, AbortFresh, world, pool, conns, flags, hand,
           Expire, other, GuardFires, halt
  <1>17. CASE Empty
    BY <1>17 DEF Empty, world, conns, mine, hand, halt, flags
  <1>18. ASSUME NEW t \in Target, PollBegins(t)
        PROVE  Trusting'
    BY <1>18 DEF PollBegins, conns, halt, flags, other
  <1>19. ASSUME NEW t \in Target, TrustChanges(t)
        PROVE  Trusting'
    BY <1>19 DEF TrustChanges, pool, conns, mine, hand, other, halt, flags
  <1>20. ASSUME NEW a \in aborting, AbortTakes(a)
        PROVE  Trusting'
    BY <1>20 DEF AbortTakes, Taken, Takes, world, conns, mine, hand, halt,
           flags
  <1>21. ASSUME NEW a \in aborting, AbortShuts(a)
        PROVE  Trusting'
    BY <1>21 DEF AbortShuts, Shut, world, pool, mine, halt, flags
  <1>22. ASSUME NEW d \in Conn, WatchdogFires(d)
        PROVE  Trusting'
    BY <1>22 DEF WatchdogFires, Shut, world, pool, mine, hand, other, halt,
           flags
  <1>23. ASSUME NEW d \in Conn, PeerDies(d)
        PROVE  Trusting'
    BY <1>23 DEF PeerDies, world, pool, mine, hand, other, halt, flags
  <1>24. ASSUME NEW d \in Conn, EmptyShuts(d)
        PROVE  Trusting'
    BY <1>24 DEF EmptyShuts, Shut, world, pool, mine, hand, halt, flags
  <1>25. ASSUME NEW e \in Entry, EmptyTakes(e)
        PROVE  Trusting'
    BY <1>25 DEF EmptyTakes, world, conns, mine, hand, halt, flags
  <1>26. CASE UNCHANGED vars
    BY <1>26 DEF vars, conns, flags, halt, hand, mine, other, pool, world
  <1> QED BY <1>1, <1>2, <1>3, <1>4, <1>5, <1>6, <1>7, <1>8, <1>9, <1>10,
             <1>11, <1>12, <1>13, <1>14, <1>15, <1>16, <1>17, <1>18, <1>19,
             <1>20, <1>21, <1>22, <1>23, <1>24, <1>25, <1>26 DEF Next

-----------------------------------------------------------------------------
(* Together                                                                *)

LEMMA PoolInit == Init => PoolInv
  <1> SUFFICES ASSUME Init PROVE PoolInv
    OBVIOUS
  <1>0. {0, 1} \subseteq 0..MaxTrust + 1
    BY PoolAssumption DEF PoolAssumption
  <1> USE DEF Init
  <1>1. TypeWorld /\ TypePool
    <2>1. trusted \in [Target -> 0..MaxTrust + 1]
      BY <1>0
    <2>2. changes \in 0..MaxTrust
      BY PoolAssumption DEF PoolAssumption
    <2>3. TypePool
      BY Zero DEF TypePool
    <2> QED BY <2>1, <2>2, <2>3 DEF TypeWorld
  <1>2. TypeConns /\ TypePoll /\ TypeOther
    BY Zero DEF TypeConns, TypePoll, TypeOther
  <1>3. TypeHand
    BY Zero, NoLeaseTyped DEF TypeHand, Where
  <1>4. HandMatches /\ Woken /\ Trusting
    BY NoLeaseIsEmpty DEF HandMatches, Woken, CancelledRead, Trusting
  <1>5. EveryOneOwned /\ InUseExists /\ OneHome
    BY NoLeaseIsEmpty DEF EveryOneOwned, Held, InUseExists, OneHome
  <1> QED BY <1>1, <1>2, <1>3, <1>4, <1>5 DEF PoolInv, TypeOK

LEMMA PoolStep == PoolInv /\ [Next]_vars => PoolInv'
  <1> SUFFICES ASSUME PoolInv, [Next]_vars PROVE PoolInv'
    OBVIOUS
  <1>0. /\ TypeWorld /\ TypePool /\ TypeConns /\ TypePoll /\ TypeHand
        /\ TypeOther /\ HandMatches /\ EveryOneOwned /\ InUseExists
        /\ OneHome /\ Woken /\ Trusting
    BY DEF PoolInv, TypeOK
  <1>1. TypeWorld' /\ TypePool' /\ TypeConns' /\ TypePoll'
    BY <1>0, WorldTyped, PoolTyped, ConnsTyped, PollTyped
  <1>2. TypeHand' /\ TypeOther' /\ HandMatches'
    BY <1>0, HandTyped, OtherTyped, HandStays
  <1>3. EveryOneOwned'
    BY <1>0, OwnersStay DEF EveryOneOwned
  <1>4. InUseExists'
    BY <1>0, OpenedStays, InUseStays
  <1>5. OneHome' /\ Trusting'
    BY <1>0, HomesStay, TrustStays
  <1>6. Woken'
    BY WakersStay DEF Woken
  <1> QED BY <1>1, <1>2, <1>3, <1>4, <1>5, <1>6 DEF PoolInv, TypeOK

(* Everything above holds of every state the pool and its threads reach.   *)
THEOREM PoolInvariance == Spec => []PoolInv
  BY PoolInit, PoolStep, PTL DEF Spec

(* The variables keep their types; no object is used that does not exist.  *)
THEOREM PoolTyping == Spec => []TypeOK
  <1>1. PoolInv => TypeOK
    BY DEF PoolInv
  <1> QED BY <1>1, PoolInvariance, PTL

(* No connection is lost: whichever thread takes it out of the pool has    *)
(* from then on the duty to shut it or to put it back, and nobody who has  *)
(* it can be robbed of it without the robber having that duty.             *)
THEOREM NoneIsLost == Spec => []NoConnectionLost
  <1>1. PoolInv => NoConnectionLost
    BY DEF PoolInv, EveryOneOwned, Owned, InPool, InEmptied, InHand, InAbort,
           NoConnectionLost
  <1> QED BY <1>1, PoolInvariance, PTL

(* A poll is not held up by a live connection after it was cancelled: the  *)
(* abort() called for it takes the connection, or whoever took it before   *)
(* is going to shut it.                                                    *)
THEOREM CancellingWakes == Spec => []CancelWakes
  <1>1. PoolInv => CancelWakes
    BY DEF PoolInv, Woken, CancelledRead, Waker, InAbort, CancelWakes
  <1> QED BY <1>1, PoolInvariance, PTL

(* A connection whose host was distrusted before the poll carries none of  *)
(* its commands.                                                           *)
THEOREM RevokedStayUnused == Spec => []RevokedNotReused
  <1>1. PoolInv => RevokedNotReused
    BY DEF PoolInv, Trusting, RevokedNotReused
  <1> QED BY <1>1, PoolInvariance, PTL

=============================================================================
