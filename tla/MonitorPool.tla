---------------------------- MODULE MonitorPool ----------------------------
(***************************************************************************)
(* collectors/ssh.py: the SSH connections that monitoring keeps from poll  *)
(* to poll (MonitoringSSHConnectionFactory), leased to one collect() at a  *)
(* time (_MonitoringConnectionLease).                                      *)
(*                                                                         *)
(* Five kinds of threads meet here.  The polling thread opens, uses and    *)
(* returns connections; whoever cancels the poll, and a watchdog for its   *)
(* deadline, run the lease's abort(); every connection has a watchdog of   *)
(* its own; and invalidate() or close() empty the pool from outside.  Each *)
(* block under a lock is one step, and so is each call between two blocks  *)
(* that another thread can see.  A thread that reads from a device may be  *)
(* held up until somebody shuts the connection: nothing else is assumed to *)
(* end a read.                                                             *)
(*                                                                         *)
(* How a connection comes about is KnownHosts' business; here connect() is *)
(* one step that takes any time.  What known_hosts says of a host is told  *)
(* apart by a number, 0 for "nothing"; it changes when it likes.  New      *)
(* objects take the least name that is free.                               *)
(***************************************************************************)
EXTENDS Naturals, FiniteSets

CONSTANTS
    Target,          \* host and port of a device
    None,            \* no endpoint
    MaxConnections,  \* max_connections
    Entries,         \* bound: _MonitorPoolEntry objects at a time
    Conns,           \* bound: connections
    MaxPolls,        \* bound: calls of collect()
    MaxEmptied,      \* bound: calls of invalidate() and close()
    MaxTrust         \* bound: how often a host's trust is replaced

ASSUME PoolAssumption ==
    /\ MaxConnections \in Nat \ {0} /\ None \notin Target
    /\ Entries \in Nat /\ Conns \in Nat
    /\ MaxPolls \in Nat /\ MaxEmptied \in Nat /\ MaxTrust \in Nat

Entry == 1..Entries     \* 0 is no entry
Conn  == 1..Conns       \* 0 is no connection

VARIABLES
    \* --- known_hosts ---
    trusted,     \* what it says of a host: the reuse token
    changes,     \* how often that was changed
    stale,       \* history: connections distrusted since before the poll
    \* --- the pool ---
    entries,     \* _entries: the entry of each endpoint
    managed,     \* the connection an entry manages
    busy,        \* entries whose operation_lock is held
    closed,      \* _closed
    \* --- connections ---
    conn,        \* none yet, open, dead (the peer is gone) or shut by us
    token,       \* reuse_token: what it was authenticated with
    watch,       \* the poll a connection's own watchdog watches, or 0
    \* --- the polling thread and its lease ---
    at,          \* where it is
    poll,        \* how many polls have begun
    asked,      \* whom this one asks
    cancelled,   \* its CancellationToken is set
    expired,     \* its PollDeadline has passed
    lease,       \* the _MonitoringConnectionLease
    fresh,       \* a connection in its hands that the lease has not got yet
    failing,     \* an exception is on its way out
    guard,       \* the _MonitorLeaseDeadlineGuard is watching
    registered,  \* abort() is among the token's callbacks
    \* --- other threads ---
    aborting,    \* calls of abort() at work: whose, on what, next step
    emptying,    \* entries taken out of the pool and not yet emptied
    doomed,      \* connections taken out of them and not yet shut
    emptied      \* how often the pool was emptied

world == <<trusted, changes, stale>>
pool  == <<entries, managed, busy, closed>>
conns == <<conn, token, watch>>
halt  == <<cancelled, expired>>
flags == <<guard, registered>>
mine  == <<poll, asked, halt, flags>>
hand  == <<at, lease, fresh, failing>>
other == <<aborting, emptying, doomed, emptied>>
vars  == <<world, pool, conns, mine, hand, other>>

\* the entry, the connection (_managed), and the flags of the same names;
\* "sent": a command was answered, the next is not the first
NoLease == [entry |-> 0, conn |-> 0, reused |-> FALSE, retried |-> FALSE,
            pending |-> FALSE, sent |-> FALSE]

Init ==
    /\ trusted \in [Target -> {0, 1}] /\ changes = 0 /\ stale = {}
    /\ entries = [t \in Target |-> 0] /\ managed = [e \in Entry |-> 0]
    /\ busy = {} /\ closed = FALSE
    /\ conn = [c \in Conn |-> "none"] /\ token = [c \in Conn |-> 0]
    /\ watch = [c \in Conn |-> 0]
    /\ at = "idle" /\ poll = 0 /\ asked = None
    /\ cancelled = FALSE /\ expired = FALSE
    /\ lease = NoLease /\ fresh = 0 /\ failing = FALSE
    /\ guard = FALSE /\ registered = FALSE
    /\ aborting = {} /\ emptying = {} /\ doomed = {} /\ emptied = 0

-----------------------------------------------------------------------------
(* Helpers                                                                 *)

Interrupted == cancelled \/ expired
Held(c)     == conn[c] \in {"open", "dead"}
Lowest(S)    == {n \in S : \A m \in S : n =< m}

\* managed.is_alive(): a dead peer may not have been noticed yet.
Alive(c) == conn[c] \in {"open", "dead"}
Gone(c)  == conn[c] \in {"shut", "dead"}

(* An operator whose comment begins with MISTAKE is the one after it with  *)
(* one thing wrong.                                                        *)
(* MISTAKE: the channel is closed, the socket that is read from is not     *)
ShutChannel(cs) ==
    /\ conn' = [c \in Conn |-> IF c \in cs THEN "dead" ELSE conn[c]]
    /\ watch' = [c \in Conn |-> IF c \in cs THEN 0 ELSE watch[c]]
    /\ token' = [c \in Conn |-> IF c \in cs THEN 0 ELSE token[c]]

\* abort() or close(): the watchdog of a connection that is shut is idle.
Shut(cs) ==
    /\ conn' = [c \in Conn |-> IF c \in cs THEN "shut" ELSE conn[c]]
    /\ watch' = [c \in Conn |-> IF c \in cs THEN 0 ELSE watch[c]]
    /\ token' = [c \in Conn |-> IF c \in cs THEN 0 ELSE token[c]]

\* managed.disarm(), if there is a connection
Disarm(c) == watch' = [d \in Conn |-> IF d = c THEN 0 ELSE watch[d]]

\* entry.take(expected): whoever finds the connection there has it.
Takes(e, c) == managed[e] = c
Taken(e, c) == managed' = [managed EXCEPT ![e] = IF @ = c THEN 0 ELSE @]

\* What belongs to the poll is gone.
Leaves ==
    /\ at' = "idle" /\ lease' = NoLease /\ fresh' = 0 /\ failing' = FALSE
    /\ cancelled' = FALSE /\ expired' = FALSE /\ stale' = {}

(* __enter__ fails: the entry is removed if it is empty, the lock released;*)
(* or a retry fails, which is a command that fails.                        *)
OpenFails(left) ==
    IF lease.retried
    THEN /\ at' = "exit" /\ failing' = TRUE /\ fresh' = 0
         /\ UNCHANGED <<entries, busy, lease, halt, stale>>
    ELSE /\ entries' = [t \in Target |->
                          IF entries[t] = lease.entry /\ left[lease.entry] = 0
                          THEN 0 ELSE entries[t]]
         /\ busy' = busy \ {lease.entry}
         /\ Leaves

-----------------------------------------------------------------------------
(* A poll comes for a lease                                                *)

(* collect() with a token and a deadline of its own, and the pool's        *)
(* connect(), which refuses when the pool is closed or full.               *)
PollBegins(t) ==
    /\ at = "idle" /\ poll < MaxPolls /\ ~ closed
    /\ \/ /\ entries[t] # 0 /\ UNCHANGED entries
          /\ lease' = [NoLease EXCEPT !.entry = entries[t]]
       \/ /\ entries[t] = 0
          /\ Cardinality({u \in Target : entries[u] # 0}) < MaxConnections
          /\ \E e \in Lowest({e \in Entry \ (emptying \cup {a.entry : a \in aborting}) :
                               managed[e] = 0 /\ \A u \in Target : entries[u] # e}) :
                /\ entries' = [entries EXCEPT ![t] = e]
                /\ lease' = [NoLease EXCEPT !.entry = e]
    /\ poll' = poll + 1 /\ asked' = t /\ at' = "enter"
    /\ stale' = {c \in Conn : Held(c) /\ token[c] # trusted[t]}
    /\ UNCHANGED <<trusted, changes, managed, busy, closed, conns, fresh,
                   failing, halt, flags, other>>

(* __enter__: the operation lock, then the entry's connection if it has    *)
(* one, or a new one.                                                      *)
Enter ==
    /\ at = "enter" /\ ~ Interrupted /\ lease.entry \notin busy
    /\ busy' = busy \cup {lease.entry}
    /\ fresh' = managed[lease.entry]
    /\ at' = IF fresh' = 0 THEN "open" ELSE "check"
    /\ UNCHANGED <<world, entries, managed, closed, conns, mine, lease, failing,
                   other>>

EnterInterrupted ==
    /\ at = "enter" /\ Interrupted /\ Leaves
    /\ UNCHANGED <<trusted, changes, pool, conns, poll, asked, flags, other>>

(* MISTAKE: a live connection is used whatever known_hosts says by now     *)
ReuseAlive ==
    /\ at = "check" /\ ~ Interrupted /\ Alive(fresh)
    /\ lease' = [lease EXCEPT !.reused = TRUE] /\ at' = "hold"
    /\ UNCHANGED <<world, pool, conns, mine, fresh, failing, other>>

(* The kept connection is used again if it lives and known_hosts still     *)
(* says what it was authenticated with ...                                 *)
Reuse ==
    /\ at = "check" /\ ~ Interrupted
    /\ Alive(fresh) /\ token[fresh] = trusted[asked]
    /\ lease' = [lease EXCEPT !.reused = TRUE] /\ at' = "hold"
    /\ UNCHANGED <<world, pool, conns, mine, fresh, failing, other>>

(* ... else it is closed for a new one ...                                 *)
Replace ==
    /\ at = "check" /\ ~ Interrupted
    /\ Gone(fresh) \/ token[fresh] # trusted[asked]
    /\ Shut({fresh} \cap {managed[lease.entry]})
    /\ Taken(lease.entry, fresh)
    /\ fresh' = 0 /\ at' = "open"
    /\ UNCHANGED <<world, entries, busy, closed, mine, lease, failing, other>>

(* ... and closed too if known_hosts cannot be read, or the poll is        *)
(* interrupted.                                                            *)
CheckFails ==
    /\ at = "check"
    /\ Shut({fresh} \cap {managed[lease.entry]})
    /\ Taken(lease.entry, fresh)
    /\ OpenFails(managed')
    /\ UNCHANGED <<trusted, changes, closed, poll, asked, flags, other>>

-----------------------------------------------------------------------------
(* A connection is opened and published                                    *)

(* The factory's connect() hands over a connection that watches the        *)
(* deadline itself; the enable command may have to run first.              *)
Opened ==
    /\ at = "open" /\ ~ Interrupted /\ trusted[asked] # 0
    /\ fresh' \in Lowest({c \in Conn : conn[c] = "none"})
    /\ conn' = [conn EXCEPT ![fresh'] = "open"]
    /\ token' = [token EXCEPT ![fresh'] = trusted[asked]]
    /\ watch' = [watch EXCEPT ![fresh'] = poll]
    /\ at' = "enable"
    /\ UNCHANGED <<world, pool, mine, lease, failing, other>>

NotOpened ==
    /\ at = "open" /\ OpenFails(managed)
    /\ UNCHANGED <<trusted, changes, managed, closed, conns, poll, asked, flags, other>>

Enabled ==
    /\ at = "enable" /\ ~ Interrupted /\ at' = "publish"
    /\ UNCHANGED <<world, pool, conns, mine, lease, fresh, failing, other>>

NotEnabled ==
    /\ at = "enable"
    /\ Shut({fresh}) /\ OpenFails(managed)
    /\ UNCHANGED <<trusted, changes, managed, closed, poll, asked, flags, other>>

(* MISTAKE: the entry is not looked up again                               *)
PublishInOldEntry ==
    /\ at = "publish" /\ managed[lease.entry] = 0
    /\ managed' = [managed EXCEPT ![lease.entry] = fresh]
    /\ at' = "hold"
    /\ UNCHANGED <<world, entries, busy, closed, conns, mine, lease, fresh,
                   failing, other>>

(* _open: under the pool's lock the new connection is put into its entry,  *)
(* unless the pool was closed or emptied while it was being opened.        *)
Publish ==
    /\ at = "publish"
    /\ ~ closed /\ entries[asked] = lease.entry /\ managed[lease.entry] = 0
    /\ managed' = [managed EXCEPT ![lease.entry] = fresh]
    /\ at' = "hold"
    /\ UNCHANGED <<world, entries, busy, closed, conns, mine, lease, fresh,
                   failing, other>>

NotPublished ==
    /\ at = "publish"
    /\ closed \/ entries[asked] # lease.entry \/ managed[lease.entry] # 0
    /\ Shut({fresh}) /\ OpenFails(managed)
    /\ UNCHANGED <<trusted, changes, managed, closed, poll, asked, flags, other>>

(* self._managed = managed: from here on abort() finds it.                 *)
Hold ==
    /\ at = "hold"
    /\ lease' = [lease EXCEPT !.conn = fresh] /\ fresh' = 0
    /\ at' = "arm"
    /\ UNCHANGED <<world, pool, conns, mine, failing, other>>

(* managed.arm(), the lease's guard, and the token's callback; a retry has *)
(* the last two already and goes on with its command at once ...           *)
Arm ==
    /\ at = "arm" /\ ~ expired /\ conn[lease.conn] # "shut"
    /\ watch' = [watch EXCEPT ![lease.conn] = poll]
    /\ guard' = (~ lease.retried \/ guard)
    /\ registered' = TRUE
    /\ at' = IF lease.retried THEN "read" ELSE "send"
    /\ UNCHANGED <<world, pool, conn, token, poll, asked, halt, lease, fresh,
                   failing, other>>

(* ... which fails when the deadline is over or the connection was shut.   *)
NotArmed ==
    /\ at = "arm" /\ (expired \/ conn[lease.conn] = "shut")
    /\ OpenFails(managed)
    /\ UNCHANGED <<trusted, changes, managed, closed, conns, poll, asked, flags, other>>

-----------------------------------------------------------------------------
(* Commands                                                                *)

Raises == at' = "exit" /\ failing' = TRUE

Send ==
    /\ at = "send" /\ ~ Interrupted
    /\ at' = "read"
    /\ UNCHANGED <<world, pool, conns, mine, lease, fresh, failing, other>>

SendInterrupted ==
    /\ at = "send" /\ Interrupted /\ Raises
    /\ UNCHANGED <<world, pool, conns, mine, lease, fresh, other>>

(* An answer comes; its output may be refused (a limit, a command that is  *)
(* not permitted).                                                         *)
Read ==
    /\ at = "read" /\ conn[lease.conn] = "open"
    /\ \/ /\ lease' = [lease EXCEPT !.sent = TRUE]
          /\ at' = "send" /\ UNCHANGED failing
       \/ Raises /\ UNCHANGED lease
    /\ UNCHANGED <<world, pool, conns, mine, fresh, other>>

ReadFails ==
    /\ at = "read" /\ at' = "failed"
    /\ UNCHANGED <<world, pool, conns, mine, lease, fresh, failing, other>>

CanRetry == lease.reused /\ ~ lease.retried /\ ~ lease.sent

(* _send: a kept connection that has died is replaced once, if nothing but *)
(* "no paging" was sent over it.                                           *)
Retry ==
    /\ at = "failed" /\ CanRetry /\ ~ Interrupted /\ Gone(lease.conn)
    /\ Taken(lease.entry, lease.conn)
    /\ Shut({lease.conn})
    /\ lease' = [lease EXCEPT !.retried = TRUE, !.conn = 0]
    /\ at' = "open"
    /\ UNCHANGED <<world, entries, busy, closed, mine, fresh, failing, other>>

(* ... any other error takes the connection out of the pool, except that   *)
(* an interruption of what might be retried leaves this to __exit__.       *)
GiveUp ==
    /\ at = "failed" /\ Raises
    /\ \/ /\ Taken(lease.entry, lease.conn)
          /\ lease' = [lease EXCEPT !.pending = @ \/ Takes(lease.entry, lease.conn)]
       \/ CanRetry /\ Interrupted /\ UNCHANGED <<managed, lease>>
    /\ UNCHANGED <<world, entries, busy, closed, conns, mine, fresh, other>>

-----------------------------------------------------------------------------
(* The lease ends                                                          *)

Finish ==
    /\ at = "send" /\ lease.sent /\ ~ Interrupted
    /\ at' = "exit"
    /\ UNCHANGED <<world, pool, conns, mine, lease, fresh, failing, other>>

(* __exit__ up to the release of the operation lock: the guard is told to  *)
(* stop and waited for, but not forever; the connection goes out of the    *)
(* pool after an error and loses its watchdog after a success.             *)
Exit ==
    /\ at = "exit" /\ guard' = FALSE
    /\ IF failing
       THEN /\ Taken(lease.entry, lease.conn)
            /\ lease' = [lease EXCEPT !.pending = @ \/ (lease.conn # 0
                                        /\ Takes(lease.entry, lease.conn))]
            /\ UNCHANGED watch
       ELSE Disarm(lease.conn) /\ UNCHANGED <<managed, lease>>
    /\ busy' = busy \ {lease.entry} /\ at' = "left"
    /\ UNCHANGED <<world, entries, closed, conn, token, poll, asked, halt,
                   registered, fresh, failing, other>>

(* ... and the rest, after which abort() is no callback any more.          *)
Left ==
    /\ at = "left"
    /\ Shut(IF lease.pending THEN {lease.conn} ELSE {})
    /\ registered' = FALSE /\ Leaves
    /\ UNCHANGED <<trusted, changes, pool, poll, asked, guard, other>>

-----------------------------------------------------------------------------
(* Other threads                                                           *)

\* the lease's abort() reads self._managed
Abort ==
    IF lease.conn = 0 THEN {}
    ELSE {[poll |-> poll, entry |-> lease.entry, conn |-> lease.conn,
           step |-> "take"]}

\* the abort() of a connection that is being enabled
AbortFresh ==
    {[poll |-> poll, entry |-> 0, conn |-> c, step |-> "shut"] :
       c \in IF at = "enable" THEN {fresh} ELSE {}}

(* MISTAKE: a callback is dropped by the one registered after it           *)
CancelWithoutCallback ==
    /\ at # "idle" /\ ~ cancelled /\ cancelled' = TRUE
    /\ UNCHANGED <<world, pool, conns, expired, poll, asked, flags, hand, other>>

(* CancellationToken.cancel: the flag, and the callbacks registered by     *)
(* then: the lease's abort() while commands run, the connection's own      *)
(* while it is being enabled.  What is registered later sees the flag.     *)
Cancel ==
    /\ at # "idle" /\ ~ cancelled /\ cancelled' = TRUE
    /\ aborting' = aborting \cup (IF registered THEN Abort ELSE {})
                            \cup AbortFresh
    /\ UNCHANGED <<world, pool, conns, expired, poll, asked, flags, hand,
                   emptying, doomed, emptied>>

Expire ==
    /\ at # "idle" /\ ~ expired /\ expired' = TRUE
    /\ UNCHANGED <<world, pool, conns, cancelled, poll, asked, flags, hand,
                   other>>

(* The lease's watchdog sees the deadline pass.                            *)
GuardFires ==
    /\ guard /\ expired
    /\ guard' = FALSE
    /\ aborting' = aborting \cup Abort
    /\ UNCHANGED <<world, pool, conns, poll, asked, halt, registered, hand,
                   emptying, doomed, emptied>>

(* abort() takes the connection out of its entry, if it is still there ... *)
AbortTakes(a) ==
    /\ a.step = "take"
    /\ Taken(a.entry, a.conn)
    /\ aborting' = (aborting \ {a}) \cup
         (IF Takes(a.entry, a.conn) THEN {[a EXCEPT !.step = "shut"]} ELSE {})
    /\ UNCHANGED <<world, entries, busy, closed, conns, mine, hand, emptying,
                   doomed, emptied>>

(* ... leaves its closing to the lease, and shuts its socket.              *)
AbortShuts(a) ==
    /\ a.step = "shut"
    /\ Shut({a.conn})
    /\ aborting' = aborting \ {a}
    /\ lease' = [lease EXCEPT !.pending = @ \/ (a.poll = poll /\ a.conn = lease.conn)]
    /\ UNCHANGED <<world, pool, mine, at, fresh, failing, emptying, doomed,
                   emptied>>

(* A connection's own watchdog (_NetmikoConnectionManager._watch_deadline).*)
WatchdogFires(c) ==
    /\ watch[c] # 0 /\ (watch[c] < poll \/ expired \/ at = "idle")
    /\ Shut({c})
    /\ UNCHANGED <<world, pool, mine, hand, other>>

PeerDies(c) ==
    /\ conn[c] = "open" /\ conn' = [conn EXCEPT ![c] = "dead"]
    /\ UNCHANGED <<world, pool, token, watch, mine, hand, other>>

(* invalidate(), and close(): the entries leave the pool under its lock,   *)
(* and lose their connections, which are shut afterwards, without it.      *)
Empty ==
    /\ emptied < MaxEmptied /\ emptied' = emptied + 1
    /\ ~ closed /\ closed' \in BOOLEAN
    /\ emptying' = emptying \cup ({entries[t] : t \in Target} \ {0})
    /\ entries' = [t \in Target |-> 0]
    /\ UNCHANGED <<world, managed, busy, conns, mine, hand, aborting, doomed>>

EmptyTakes(e) ==
    /\ e \in emptying /\ emptying' = emptying \ {e}
    /\ doomed' = doomed \cup ({managed[e]} \ {0})
    /\ managed' = [managed EXCEPT ![e] = 0]
    /\ UNCHANGED <<world, entries, busy, closed, conns, mine, hand, aborting,
                   emptied>>

EmptyShuts(c) ==
    /\ c \in doomed /\ doomed' = doomed \ {c}
    /\ Shut({c})
    /\ UNCHANGED <<world, pool, mine, hand, aborting, emptying, emptied>>

(* known_hosts changes: a key is approved, or the operator removes one.    *)
(* What was distrusted may now be trusted again.                           *)
TrustChanges(t) ==
    /\ changes < MaxTrust /\ changes' = changes + 1
    /\ \E n \in 0..MaxTrust + 1 : n # trusted[t]
                                  /\ trusted' = [trusted EXCEPT ![t] = n]
    /\ stale' = {}
    /\ UNCHANGED <<pool, conns, mine, hand, other>>

Next ==
    \/ \E t \in Target : PollBegins(t) \/ TrustChanges(t)
    \/ Enter \/ EnterInterrupted \/ Reuse \/ Replace \/ CheckFails
    \/ Opened \/ NotOpened \/ Enabled \/ NotEnabled
    \/ Publish \/ NotPublished \/ Hold \/ Arm \/ NotArmed
    \/ Send \/ SendInterrupted \/ Read \/ ReadFails \/ Retry \/ GiveUp
    \/ Finish \/ Exit \/ Left
    \/ Cancel \/ Expire \/ GuardFires \/ Empty
    \/ \E a \in aborting : AbortTakes(a) \/ AbortShuts(a)
    \/ \E c \in Conn : WatchdogFires(c) \/ PeerDies(c) \/ EmptyShuts(c)
    \/ \E e \in Entry : EmptyTakes(e)

(* What a thread does of its own accord it does in the end, and time       *)
(* passes.  A device need never answer: a read fails for sure only when    *)
(* its connection has been shut, and connect() ends at the deadline        *)
(* (its sockets have a guard, KnownHosts' waits are bounded).              *)
OwnStep ==
    \/ Enter \/ EnterInterrupted \/ Reuse \/ Replace \/ CheckFails
    \/ Interrupted /\ NotOpened
    \/ fresh # 0 /\ conn[fresh] = "shut" /\ NotEnabled
    \/ Publish \/ NotPublished \/ Hold \/ Arm \/ NotArmed
    \/ Send \/ SendInterrupted
    \/ lease.conn # 0 /\ conn[lease.conn] = "shut" /\ ReadFails
    \/ Retry \/ GiveUp \/ Finish \/ Exit \/ Left

Background ==
    \/ Expire \/ GuardFires
    \/ \E a \in aborting : AbortTakes(a) \/ AbortShuts(a)
    \/ \E c \in Conn : WatchdogFires(c)

Fairness == WF_vars(OwnStep) /\ WF_vars(Background)

Spec == Init /\ [][Next]_vars /\ Fairness

-----------------------------------------------------------------------------
(* Properties                                                              *)

Where == {"idle", "enter", "check", "open", "enable", "publish", "hold",
          "arm", "send", "read", "failed", "exit", "left"}

TypeWorld ==
    /\ trusted \in [Target -> 0..MaxTrust + 1] /\ changes \in 0..MaxTrust
    /\ stale \subseteq Conn

TypePool ==
    /\ entries \in [Target -> 0..Entries] /\ managed \in [Entry -> 0..Conns]
    /\ busy \subseteq Entry /\ closed \in BOOLEAN

TypeConns ==
    /\ conn \in [Conn -> {"none", "open", "dead", "shut"}]
    /\ token \in [Conn -> 0..MaxTrust + 1] /\ watch \in [Conn -> 0..MaxPolls]

TypePoll ==
    /\ poll \in 0..MaxPolls /\ asked \in Target \cup {None}
    /\ cancelled \in BOOLEAN /\ expired \in BOOLEAN
    /\ guard \in BOOLEAN /\ registered \in BOOLEAN

Lease == [entry : 0..Entries, conn : 0..Conns, reused : BOOLEAN,
          retried : BOOLEAN, pending : BOOLEAN, sent : BOOLEAN]

TypeHand ==
    /\ at \in Where /\ lease \in Lease
    /\ fresh \in 0..Conns /\ failing \in BOOLEAN

AbortCall == [poll : 0..MaxPolls, entry : 0..Entries, conn : 0..Conns,
              step : {"take", "shut"}]

TypeOther ==
    /\ aborting \subseteq AbortCall
    /\ emptying \subseteq Entry /\ doomed \subseteq Conn
    /\ emptied \in 0..MaxEmptied

TypeOK ==
    TypeWorld /\ TypePool /\ TypeConns /\ TypePoll /\ TypeHand /\ TypeOther

(* A connection that is not shut is never lost: it is in the pool, where   *)
(* the next poll, invalidate() or close() finds it, or some thread has it  *)
(* in its hands and is going to publish or shut it - whenever the pool is  *)
(* emptied or closed while a connection is opened, replaced, aborted or    *)
(* returned (ssh.py:1562, :1755).                                          *)
NoConnectionLost ==
    \A c \in Conn : Held(c) =>
        \/ \E t \in Target : entries[t] # 0 /\ managed[entries[t]] = c
        \/ \E e \in emptying : managed[e] = c
        \/ c \in {fresh, lease.conn} \cup doomed
        \/ \E a \in aborting : a.conn = c /\ a.step = "shut"

(* A connection whose host was removed from known_hosts, or given other    *)
(* keys, before a poll began carries no command of that poll, unless the   *)
(* trust came back meanwhile (ssh.py:1672-1691).                           *)
RevokedNotReused == at = "read" => lease.conn \notin stale

(* A cancelled poll does not go on reading from a live connection: whoever *)
(* cancelled is about to shut it (ssh.py:110-117).  Not so for a           *)
(* connection that has just replaced a dead one: abort() may have come     *)
(* before it was in its place (ssh.py:1755).                               *)
CancelWakes ==
    cancelled /\ at = "read" /\ conn[lease.conn] = "open" /\ ~ lease.retried =>
        \/ lease.conn \in doomed
        \/ \E a \in aborting : a.poll = poll \/ a.conn = lease.conn

(* Every poll comes to an end, although no device need ever answer.        *)
PollsEnd == at # "idle" ~> at = "idle"
=============================================================================
