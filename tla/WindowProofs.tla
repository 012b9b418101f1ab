---------------------------- MODULE WindowProofs ----------------------------
(***************************************************************************)
(* For every number of queries, storage tasks, readings, changes of the    *)
(* network and previews: the safety properties of Window.                  *)
(*                                                                         *)
(* WindowInv says where each task of the window is: a task that the window *)
(* still waits for has a thread, or one signal in the queue, never both;   *)
(* finished is the last signal of a query; a storage task, and a question  *)
(* about one, has the window to itself; a preview is where its state says; *)
(* a closing window has shut the approvals and asks nothing more.  The     *)
(* handlers compose operators on the window, so each of these has a lemma  *)
(* of its own: from a window and a queue that are Fine it makes a window   *)
(* that is Fine, in front of the same queue or of its tail.  Only the      *)
(* handlers that give a preview back pass through a window that is Loose.  *)
(***************************************************************************)
EXTENDS Window, SequenceTheorems, TLAPS

-----------------------------------------------------------------------------
(* The inductive invariant                                                 *)

StorageTasks == {"export", "delete-preview", "delete-commit", "delete-discard"}
Quiet == {"preflight", "working", "asking", "admitted"}
QueryState == Quiet \cup {"none", "waiting", "dismissing", "leaving"}
PreviewState ==
    {"none", "offered", "deleting", "queued", "discarding", "settled"}

Fields ==
    {"monitoring", "timer", "closing", "deferred", "finalized", "closeTimer",
     "closePosted", "window", "task", "query", "token", "asked", "userCancel",
     "environmentCancel", "storage", "subject", "storageThread", "history",
     "historyThread", "discards", "previews", "requested", "active",
     "restart", "finalizer", "pending", "dialog", "shutting", "modal", "exit",
     "queries", "jobs", "reads", "changes"}

State(t) ==
    /\ DOMAIN t = Fields
    /\ t.monitoring \in BOOLEAN
    /\ t.timer \in BOOLEAN
    /\ t.closing \in BOOLEAN
    /\ t.deferred \in BOOLEAN
    /\ t.closeTimer \in BOOLEAN
    /\ t.closePosted \in BOOLEAN
    /\ t.task \in BOOLEAN
    /\ t.token \in BOOLEAN
    /\ t.asked \in BOOLEAN
    /\ t.userCancel \in BOOLEAN
    /\ t.environmentCancel \in BOOLEAN
    /\ t.history \in BOOLEAN
    /\ t.requested \in BOOLEAN
    /\ t.active \in BOOLEAN
    /\ t.restart \in BOOLEAN
    /\ t.pending \in BOOLEAN
    /\ t.shutting \in BOOLEAN
    /\ t.finalized \in {"none", "ok", "failed"}
    /\ t.window \in {"open", "closed"}
    /\ t.query \in QueryState
    /\ t.storage \in StorageTasks \cup {"none"}
    /\ t.subject \in Preview \cup {NoPreview}
    /\ t.storageThread \in {"none", "working"}
    /\ t.historyThread \in {"none", "working"}
    /\ t.finalizer \in {"none", "working"}
    /\ t.discards \in Seq(Preview)
    /\ t.previews \in [Preview -> PreviewState]
    /\ t.dialog \in {"none", "made", "open"}
    /\ t.modal \in {"none", "input", "query", "storage", "confirm"}
    /\ t.exit \in {"running", "clean", "recover"}
    /\ t.queries \in Nat
    /\ t.jobs \in Nat
    /\ t.reads \in Nat
    /\ t.changes \in Nat

Signal ==
    {<<"finished">>, <<"history">>, <<"storage done">>, <<"storage failed">>,
     <<"dismiss">>, <<"request">>}
    \cup ({"succeeded", "failed"} \X {"shown", "fatal", "host key unknown",
                                      "error", "cancelled"})
    \cup ({"finalized"} \X BOOLEAN)

(* Nothing but the named fields changes.                                   *)
Only(t, u, changed) == \A f \in Fields : f \in changed \/ u[f] = t[f]

(* What is queued for the window's thread                                  *)
Stored == {"storage done", "storage failed"}
Spoken == {"request", "dismiss", "finished"}

Absent(q, kinds) == \A i \in DOMAIN q : q[i][1] \notin kinds
Single(q, kinds) ==
    \A i, j \in DOMAIN q : q[i][1] \in kinds /\ q[j][1] \in kinds => i = j
FinishedLast(q) ==
    \E k \in DOMAIN q :
        /\ q[k][1] = "finished"
        /\ \A i \in DOMAIN q : q[i][1] \in Spoken => i < k \/ i = k
        /\ \A i \in DOMAIN q : q[i][1] = "finished" => i = k

(* Monitoring goes on as long as nothing else keeps the window from it.    *)
Scheduled(t) ==
    /\ t.monitoring => t.task \/ t.timer
    /\ t.timer => t.monitoring /\ ~ t.task
    /\ t.monitoring => Available(t)

(* A closing window asks nothing any more, and is closed when it is idle.  *)
Ending(t) ==
    /\ t.closing => t.shutting /\ ~ t.pending /\ t.modal = "none"
    /\ t.deferred \/ t.closePosted \/ t.closeTimer \/ t.window = "closed"
           => t.closing
    /\ t.window = "closed" => t.deferred \/ ~ Working(t)
    /\ t.deferred => /\ ~ t.task /\ ~ t.monitoring /\ ~ t.history
                     /\ t.storage = "none" /\ t.discards = <<>>
    /\ t.exit = "clean" =>
           t.window = "closed" /\ ~ t.deferred /\ t.finalized = "ok"

(* One finalization a time; its result is awaited, or it has been given up *)
(* for good.                                                               *)
Finalizing(t, q) ==
    /\ ~ t.requested => ~ t.active /\ ~ t.restart
    /\ ~ t.active /\ ~ t.restart =>
           t.finalizer = "none" /\ Absent(q, {"finalized"})
    /\ t.finalizer = "working" => Absent(q, {"finalized"})
    /\ Single(q, {"finalized"})
    /\ t.restart => ~ t.active /\ t.finalized # "ok"
    /\ t.deferred => t.finalized # "ok"

(* One query at a time; what it says last is that it is finished.          *)
Querying(t, q) ==
    ~ t.deferred =>
        /\ ~ t.task => /\ t.query = "none" /\ Absent(q, Spoken)
                       /\ t.dialog = "none" /\ ~ t.pending
        /\ t.task /\ t.query # "none" => Absent(q, {"finished"})
        /\ t.task /\ t.query = "none" => FinishedLast(q)

(* One request a query; before it, nothing is on the screen.               *)
Asking(t, q) ==
    /\ t.query \in {"asking", "admitted", "waiting", "dismissing"} => t.asked
    /\ t.query \in Quiet /\ (t.query = "working" => ~ t.asked) =>
           t.dialog = "none" /\ Absent(q, {"request"})
    /\ t.dialog = "open" =>
           t.pending \/ t.query = "dismissing" \/ ~ Absent(q, {"dismiss"})

(* One storage task and one reading of the history at a time.              *)
Storing(t, q) ==
    /\ ~ t.deferred /\ t.storage = "none" =>
           t.storageThread = "none" /\ Absent(q, Stored)
    /\ t.storageThread = "working" => Absent(q, Stored)
    /\ Single(q, Stored)
    /\ ~ t.deferred /\ ~ t.history =>
           t.historyThread = "none" /\ Absent(q, {"history"})
    /\ t.historyThread = "working" => Absent(q, {"history"})
    /\ Single(q, {"history"})

(* A storage task has the window to itself, and so has a question about it.*)
Exclusive(t) ==
    /\ t.storage # "none" \/ t.modal \in {"confirm", "storage"} =>
           ~ t.task /\ ~ t.monitoring /\ ~ t.history
    /\ t.modal # "none" => t.storage = "none"
    /\ t.discards # <<>> => t.modal = "storage" /\ Len(t.discards) = 1

(* A preview is where its state says, until it is settled.                 *)
Previewed(t) ==
    /\ t.storage \in StorageTasks \ {"export"} \/ t.modal = "confirm" =>
           t.subject \in Preview
    /\ ~ t.deferred =>
       \A p \in Preview :
        /\ t.previews[p] = "offered" => t.modal = "confirm" /\ t.subject = p
        /\ t.previews[p] = "queued" => t.discards = <<p>>
        /\ t.previews[p] = "deleting" =>
               t.storage = "delete-commit" /\ t.subject = p
        /\ t.previews[p] = "discarding" =>
               t.storage = "delete-discard" /\ t.subject = p

Sound(t, q) ==
    /\ Scheduled(t) /\ Ending(t) /\ Finalizing(t, q) /\ Querying(t, q)
    /\ Asking(t, q) /\ Storing(t, q) /\ Exclusive(t) /\ Previewed(t)

Fine(t, q) == State(t) /\ q \in Seq(Signal) /\ Sound(t, q)

WindowInv == Fine(s, inbox)

(* A preview is to be given back, and nothing keeps the window from it:    *)
(* what is true in a handler that calls _drain_preview_discard_queue.      *)
Loose(t, q) ==
    /\ State(t) /\ q \in Seq(Signal)
    /\ Scheduled(t) /\ Ending(t) /\ Finalizing(t, q) /\ Querying(t, q)
    /\ Asking(t, q) /\ Storing(t, q) /\ Previewed(t)
    /\ t.storage = "none" /\ ~ t.task /\ ~ t.monitoring /\ ~ t.history
    /\ ~ t.deferred /\ t.modal = "none" /\ Len(t.discards) = 1

-----------------------------------------------------------------------------
(* The queue of the window's thread                                        *)

(* A signal of this kind is queued behind the others.                      *)
Joined(q, r, kind) ==
    \E x \in Signal : x[1] = kind /\ r = Append(q, x)

(* What a queue knows of its signals once one more is appended.            *)
LEMMA Appended ==
    ASSUME NEW q \in Seq(Signal), NEW r, NEW kind, Joined(q, r, kind)
    PROVE  /\ r \in Seq(Signal)
           /\ \A K : /\ kind \in K => ~ Absent(r, K)
                     /\ ~ Absent(q, K) => ~ Absent(r, K)
                     /\ kind \notin K /\ Absent(q, K) => Absent(r, K)
           /\ \A K : /\ Absent(q, K) => Single(r, K)
                     /\ kind \notin K /\ Single(q, K) => Single(r, K)
           /\ kind \notin Spoken /\ FinishedLast(q) => FinishedLast(r)
           /\ kind = "finished" /\ Absent(q, {"finished"}) => FinishedLast(r)
  <1>0. PICK x \in Signal : x[1] = kind /\ r = Append(q, x)
    BY DEF Joined
  <1>1. /\ r \in Seq(Signal) /\ Len(r) = Len(q) + 1 /\ Len(q) \in Nat
        /\ DOMAIN r = 1..Len(r) /\ DOMAIN q = 1..Len(q)
        /\ \A i \in 1..Len(q) : r[i] = q[i]
        /\ r[Len(q) + 1] = x
    BY <1>0
  <1>2. ASSUME NEW K
        PROVE  /\ kind \in K => ~ Absent(r, K)
               /\ ~ Absent(q, K) => ~ Absent(r, K)
               /\ kind \notin K /\ Absent(q, K) => Absent(r, K)
    <2>1. DOMAIN r = DOMAIN q \cup {Len(q) + 1}
      BY <1>1
    <2> QED BY <1>0, <1>1, <2>1 DEF Absent
  <1>3. ASSUME NEW K, Absent(q, K)
        PROVE  Single(r, K)
    BY <1>0, <1>1, <1>3 DEF Absent, Single
  <1>4. ASSUME NEW K, kind \notin K, Single(q, K)
        PROVE  Single(r, K)
    BY <1>0, <1>1, <1>4 DEF Single
  <1>5. ASSUME kind \notin Spoken, FinishedLast(q)
        PROVE  FinishedLast(r)
    <2>1. PICK k \in DOMAIN q :
             /\ q[k][1] = "finished"
             /\ \A i \in DOMAIN q : q[i][1] \in Spoken => i < k \/ i = k
             /\ \A i \in DOMAIN q : q[i][1] = "finished" => i = k
      BY <1>5 DEF FinishedLast
    <2>2. k \in DOMAIN r /\ r[k][1] = "finished"
      BY <1>1, <2>1
    <2>3. \A i \in DOMAIN r : r[i][1] \in Spoken => i \in DOMAIN q
      BY <1>0, <1>1, <1>5
    <2> QED BY <1>0, <1>1, <2>1, <2>2, <2>3 DEF FinishedLast, Spoken
  <1>6. ASSUME kind = "finished", Absent(q, {"finished"})
        PROVE  FinishedLast(r)
    BY <1>0, <1>1, <1>6 DEF FinishedLast, Absent
  <1> QED BY <1>0, <1>1, <1>2, <1>3, <1>4, <1>5, <1>6

(* ... and once the first has been delivered.                              *)
LEMMA Delivered ==
    ASSUME NEW q \in Seq(Signal), q # <<>>
    PROVE  /\ Head(q) \in Signal /\ Tail(q) \in Seq(Signal)
           /\ \A K : /\ Absent(q, K) => Absent(Tail(q), K)
                     /\ Head(q)[1] \in K => ~ Absent(q, K)
                     /\ Head(q)[1] \notin K /\ Absent(Tail(q), K) =>
                            Absent(q, K)
           /\ \A K : /\ Single(q, K) => Single(Tail(q), K)
                     /\ Head(q)[1] \in K /\ Single(q, K) =>
                            Absent(Tail(q), K)
           /\ Head(q)[1] # "finished" /\ FinishedLast(q) =>
                  FinishedLast(Tail(q))
           /\ Head(q)[1] = "finished" /\ FinishedLast(q) =>
                  Absent(Tail(q), Spoken) /\ Absent(q, {"dismiss"})
  <1> DEFINE r == Tail(q)
  <1>1. /\ r \in Seq(Signal) /\ Len(q) \in Nat \ {0} /\ Len(r) = Len(q) - 1
        /\ DOMAIN r = 1..Len(r) /\ DOMAIN q = 1..Len(q)
        /\ \A i \in DOMAIN r : r[i] = q[i + 1] /\ i + 1 \in DOMAIN q
        /\ \A i \in DOMAIN q : i = 1 \/ (i - 1 \in DOMAIN r /\ q[i] = r[i - 1])
        /\ Head(q) = q[1] /\ 1 \in DOMAIN q
    OBVIOUS
  <1> HIDE DEF r
  <1>2. ASSUME NEW K
        PROVE  /\ Absent(q, K) => Absent(r, K)
               /\ Head(q)[1] \in K => ~ Absent(q, K)
               /\ Head(q)[1] \notin K /\ Absent(r, K) => Absent(q, K)
    <2>1. Absent(q, K) => Absent(r, K)
      BY <1>1 DEF Absent
    <2>2. Head(q)[1] \in K => ~ Absent(q, K)
      BY <1>1 DEF Absent
    <2>3. Head(q)[1] \notin K /\ Absent(r, K) => Absent(q, K)
      BY <1>1 DEF Absent
    <2> QED BY <2>1, <2>2, <2>3
  <1>3. ASSUME NEW K, Single(q, K)
        PROVE  Single(r, K) /\ (Head(q)[1] \in K => Absent(r, K))
    <2>1. \A i, j \in DOMAIN r : i + 1 = j + 1 => i = j
      BY <1>1
    <2>2. Single(r, K)
      BY <1>1, <1>3, <2>1 DEF Single
    <2>3. \A i \in DOMAIN r : i + 1 # 1
      BY <1>1
    <2>4. Head(q)[1] \in K => Absent(r, K)
      BY <1>1, <1>3, <2>3 DEF Single, Absent
    <2> QED BY <2>2, <2>4
  <1>4. ASSUME FinishedLast(q)
        PROVE  /\ Head(q)[1] # "finished" => FinishedLast(r)
               /\ Head(q)[1] = "finished" =>
                      Absent(r, Spoken) /\ Absent(q, {"dismiss"})
    <2>1. PICK k \in DOMAIN q :
             /\ q[k][1] = "finished"
             /\ \A i \in DOMAIN q : q[i][1] \in Spoken => i < k \/ i = k
             /\ \A i \in DOMAIN q : q[i][1] = "finished" => i = k
      BY <1>4 DEF FinishedLast
    <2>2. ASSUME Head(q)[1] # "finished"
          PROVE  FinishedLast(r)
      <3>1. k # 1 /\ k - 1 \in DOMAIN r /\ r[k - 1][1] = "finished"
        BY <1>1, <2>1, <2>2
      <3>2. \A i \in DOMAIN r : r[i][1] \in Spoken => i < k - 1 \/ i = k - 1
        BY <1>1, <2>1
      <3>3. \A i \in DOMAIN r : r[i][1] = "finished" => i = k - 1
        BY <1>1, <2>1
      <3> QED BY <3>1, <3>2, <3>3 DEF FinishedLast
    <2>3. ASSUME Head(q)[1] = "finished"
          PROVE  Absent(r, Spoken) /\ Absent(q, {"dismiss"})
      <3>1. k = 1
        BY <1>1, <2>1, <2>3
      <3>2. \A i \in DOMAIN q : q[i][1] \in Spoken => i = 1
        BY <1>1, <2>1, <3>1
      <3>3. Absent(r, Spoken)
        BY <1>1, <3>2 DEF Absent
      <3>4. Absent(q, {"dismiss"})
        BY <1>1, <2>3, <3>2 DEF Absent, Spoken
      <3> QED BY <3>3, <3>4
    <2> QED BY <2>2, <2>3
  <1> QED BY <1>1, <1>2, <1>3, <1>4 DEF r

(* Signals of these kinds are as many as before.                           *)
Same(q, r, kinds) ==
    /\ Absent(r, kinds) <=> Absent(q, kinds)
    /\ Single(q, kinds) => Single(r, kinds)

Unspoken(q, r) ==
    /\ Same(q, r, {"request"}) /\ Same(q, r, {"dismiss"})
    /\ Same(q, r, {"finished"}) /\ Same(q, r, Spoken)
    /\ FinishedLast(q) => FinishedLast(r)

(* What one more signal means for what the invariant says of the queue.    *)
Heard(q, r, kind) ==
    /\ r \in Seq(Signal)
    /\ kind # "finalized" => Same(q, r, {"finalized"})
    /\ kind = "finalized" =>
           /\ ~ Absent(r, {"finalized"})
           /\ Absent(q, {"finalized"}) => Single(r, {"finalized"})
    /\ kind # "history" => Same(q, r, {"history"})
    /\ kind = "history" =>
           /\ ~ Absent(r, {"history"})
           /\ Absent(q, {"history"}) => Single(r, {"history"})
    /\ kind \notin {"storage done", "storage failed"} => Same(q, r, Stored)
    /\ kind \in {"storage done", "storage failed"} =>
           /\ ~ Absent(r, Stored)
           /\ Absent(q, Stored) => Single(r, Stored)
    /\ kind \notin {"request", "dismiss", "finished"} => Unspoken(q, r)
    /\ kind # "request" => Same(q, r, {"request"})
    /\ kind # "dismiss" => Same(q, r, {"dismiss"})
    /\ kind # "finished" => Same(q, r, {"finished"})
    /\ kind = "dismiss" => ~ Absent(r, {"dismiss"})
    /\ kind = "finished" /\ Absent(q, {"finished"}) => FinishedLast(r)

LEMMA Sending ==
    ASSUME NEW q \in Seq(Signal), NEW r, NEW kind, Joined(q, r, kind)
    PROVE  Heard(q, r, kind)
  <1>1. \A K : kind \notin K => Same(q, r, K)
    BY Appended DEF Same
  <1>2. \A K : kind \in K => /\ ~ Absent(r, K)
                             /\ Absent(q, K) => Single(r, K)
    BY Appended
  <1>3. kind \notin Stored <=> kind \notin {"storage done", "storage failed"}
    BY DEF Stored
  <1>4. kind \notin Spoken <=> kind \notin {"request", "dismiss", "finished"}
    BY DEF Spoken
  <1>5. kind \notin Spoken => Unspoken(q, r)
    <2> SUFFICES ASSUME kind \notin Spoken PROVE Unspoken(q, r)
      OBVIOUS
    <2>1. /\ kind \notin {"request"} /\ kind \notin {"dismiss"}
          /\ kind \notin {"finished"}
      BY <1>4
    <2>2. FinishedLast(q) => FinishedLast(r)
      BY Appended
    <2> QED BY <1>1, <2>1, <2>2 DEF Unspoken
  <1>6. /\ r \in Seq(Signal)
        /\ kind = "finished" /\ Absent(q, {"finished"}) => FinishedLast(r)
    BY Appended
  <1> QED BY <1>1, <1>2, <1>3, <1>4, <1>5, <1>6 DEF Heard

(* What the delivery of the first signal means.                            *)
Passed(q, r, kind) ==
    /\ kind # "finalized" => Same(q, r, {"finalized"})
    /\ kind = "finalized" =>
           /\ ~ Absent(q, {"finalized"})
           /\ Single(q, {"finalized"}) => Absent(r, {"finalized"})
    /\ kind # "history" => Same(q, r, {"history"})
    /\ kind = "history" =>
           /\ ~ Absent(q, {"history"})
           /\ Single(q, {"history"}) => Absent(r, {"history"})
    /\ kind \notin {"storage done", "storage failed"} => Same(q, r, Stored)
    /\ kind \in {"storage done", "storage failed"} =>
           /\ ~ Absent(q, Stored)
           /\ Single(q, Stored) => Absent(r, Stored)
    /\ kind \notin {"request", "dismiss", "finished"} => Unspoken(q, r)
    /\ kind # "request" => Same(q, r, {"request"})
    /\ kind # "dismiss" => Same(q, r, {"dismiss"})
    /\ kind # "finished" => Same(q, r, {"finished"})
    /\ kind \in {"request", "dismiss", "finished"} => ~ Absent(q, Spoken)
    /\ kind = "request" => ~ Absent(q, {"request"})
    /\ kind = "finished" => ~ Absent(q, {"finished"})
    /\ kind # "finished" /\ FinishedLast(q) => FinishedLast(r)
    /\ kind = "finished" /\ FinishedLast(q) =>
           /\ Absent(r, Spoken) /\ Absent(r, {"request"})
           /\ Absent(q, {"dismiss"})
    /\ Absent(q, {"request"}) => Absent(r, {"request"})

LEMMA Delivery ==
    ASSUME NEW q \in Seq(Signal), q # <<>>
    PROVE  /\ Head(q) \in Signal /\ Tail(q) \in Seq(Signal)
           /\ Passed(q, Tail(q), Head(q)[1])
  <1> DEFINE r == Tail(q)
             kind == Head(q)[1]
  <1>0. /\ Head(q) \in Signal /\ r \in Seq(Signal)
        /\ \A K : /\ Absent(q, K) => Absent(r, K)
                  /\ kind \in K => ~ Absent(q, K)
                  /\ kind \notin K /\ Absent(r, K) => Absent(q, K)
        /\ \A K : /\ Single(q, K) => Single(r, K)
                  /\ kind \in K /\ Single(q, K) => Absent(r, K)
        /\ kind # "finished" /\ FinishedLast(q) => FinishedLast(r)
        /\ kind = "finished" /\ FinishedLast(q) =>
               Absent(r, Spoken) /\ Absent(q, {"dismiss"})
    BY Delivered
  <1> HIDE DEF r, kind
  <1>1. \A K : kind \notin K => Same(q, r, K)
    BY <1>0 DEF Same
  <1>2. \A K : kind \in K => /\ ~ Absent(q, K)
                             /\ Single(q, K) => Absent(r, K)
    BY <1>0
  <1>3. kind \notin Stored <=> kind \notin {"storage done", "storage failed"}
    BY DEF Stored
  <1>4. kind \notin Spoken <=> kind \notin {"request", "dismiss", "finished"}
    BY DEF Spoken
  <1>5. kind \notin Spoken => Unspoken(q, r)
    <2> SUFFICES ASSUME kind \notin Spoken PROVE Unspoken(q, r)
      OBVIOUS
    <2>1. /\ kind \notin {"request"} /\ kind \notin {"dismiss"}
          /\ kind \notin {"finished"}
      BY <1>4
    <2>2. FinishedLast(q) => FinishedLast(r)
      BY <1>0, <2>1
    <2> QED BY <1>1, <2>1, <2>2 DEF Unspoken
  <1>6. Absent(r, Spoken) => Absent(r, {"request"})
    BY DEF Absent, Spoken
  <1>7. /\ Absent(q, {"request"}) => Absent(r, {"request"})
        /\ kind # "finished" /\ FinishedLast(q) => FinishedLast(r)
        /\ kind = "finished" /\ FinishedLast(q) =>
               Absent(r, Spoken) /\ Absent(q, {"dismiss"})
    BY <1>0
  <1>8. Passed(q, r, kind)
    BY <1>1, <1>2, <1>3, <1>4, <1>5, <1>6, <1>7 DEF Passed
  <1> QED BY <1>0, <1>8 DEF r, kind

(* Of fewer kinds, there are fewer signals.                                *)
LEMMA Fewer ==
    ASSUME NEW q
    PROVE  /\ Absent(q, Spoken) => /\ Absent(q, {"request"})
                                   /\ Absent(q, {"dismiss"})
                                   /\ Absent(q, {"finished"})
           /\ FinishedLast(q) => ~ Absent(q, {"finished"})
           /\ \A K : Absent(q, K) => Single(q, K)
  BY DEF Absent, Spoken, FinishedLast, Single

(* The fields of the previews and of those who hold them.                  *)
LEMMA PreviewsStay ==
    ASSUME NEW t, NEW u, Previewed(t),
           /\ u.storage = t.storage /\ u.modal = t.modal
           /\ u.subject = t.subject /\ u.deferred = t.deferred
           /\ u.previews = t.previews /\ u.discards = t.discards
    PROVE  Previewed(u)
  BY DEF Previewed

-----------------------------------------------------------------------------
(* What the operations of the window preserve                               *)

(* What cancel_pending changes.                                             *)
LEMMA WithdrawnEffect ==
    ASSUME NEW t, State(t),
           NEW u, u = Withdrawn(t)
    PROVE  /\ State(u)
           /\ Only(t, u, {"pending", "dialog"})
           /\ u.pending = FALSE
           /\ u.dialog = IF t.pending THEN "none" ELSE t.dialog
  <1>1. CASE t.pending
    <2>1. u = [t EXCEPT !.pending = FALSE, !.dialog = "none"]
      BY <1>1 DEF Withdrawn
    <2>2. State(u)
      BY <2>1 DEF State, Fields
    <2> QED BY <1>1, <2>1, <2>2 DEF State, Fields, Only
  <1>2. CASE ~ t.pending
    BY <1>2 DEF Withdrawn, State, Fields, Only
  <1> QED BY <1>1, <1>2

(* What _cancel_active_work changes.                                        *)
LEMMA CancelledEffect ==
    ASSUME NEW t, State(t),
           NEW byUser \in BOOLEAN,
           NEW u, u = Cancelled(t, byUser)
    PROVE  /\ State(u)
           /\ Only(t, u, {"monitoring", "timer", "token", "userCancel",
                           "pending", "dialog", "requested", "active",
                           "finalizer"})
           /\ u.monitoring = FALSE
           /\ u.timer = FALSE
           /\ u.token = (t.token \/ t.task)
           /\ u.userCancel = (t.userCancel \/ (byUser /\ t.task))
           /\ u.pending = FALSE
           /\ u.dialog = IF t.pending THEN "none" ELSE t.dialog
           /\ u.requested = (t.requested \/ t.task \/ t.monitoring \/
                         t.closing)
           /\ u.active = (t.active \/ (~ t.requested /\ (t.task \/
                         t.monitoring \/ t.closing)))
           /\ u.finalizer = IF ~ t.requested /\ (t.task \/ t.monitoring \/
                         t.closing) THEN "working" ELSE t.finalizer
  <1> DEFINE v == [t EXCEPT !.monitoring = FALSE, !.timer = FALSE,
                            !.token = @ \/ t.task,
                            !.userCancel = @ \/ (byUser /\ t.task)]
             w == Withdrawn(v)
  <1>1. /\ State(v)
        /\ Only(t, v, {"monitoring", "timer", "token", "userCancel"})
        /\ v.monitoring = FALSE /\ v.timer = FALSE
        /\ v.token = (t.token \/ t.task)
        /\ v.userCancel = (t.userCancel \/ (byUser /\ t.task))
    <2>1. /\ DOMAIN v = Fields
          /\ Only(t, v, {"monitoring", "timer", "token", "userCancel"})
          /\ v.monitoring = FALSE /\ v.timer = FALSE
          /\ v.token = (t.token \/ t.task)
          /\ v.userCancel = (t.userCancel \/ (byUser /\ t.task))
      BY DEF State, Fields, Only
    <2> HIDE DEF v
    <2>2. /\ DOMAIN v = Fields
          /\ Only(t, v, {"monitoring", "timer", "token", "userCancel"})
          /\ v.monitoring \in BOOLEAN /\ v.timer \in BOOLEAN
          /\ v.token \in BOOLEAN /\ v.userCancel \in BOOLEAN
      BY <2>1
    <2>3. State(v)
      BY <2>2 DEF State, Fields, Only
    <2> QED BY <2>1, <2>3
  <1>2. u = IF t.task \/ t.monitoring \/ t.closing THEN Requested(w) ELSE w
    BY DEF Cancelled
  <1> HIDE DEF v
  <1>3. /\ State(w) /\ Only(v, w, {"pending", "dialog"})
        /\ w.pending = FALSE
        /\ w.dialog = IF v.pending THEN "none" ELSE v.dialog
    BY <1>1, WithdrawnEffect
  <1> HIDE DEF w
  <1>4. /\ w.requested = t.requested /\ w.active = t.active
        /\ w.finalizer = t.finalizer
    BY <1>1, <1>3 DEF Only, Fields
  <1>5. CASE (t.task \/ t.monitoring \/ t.closing) /\ ~ t.requested
    <2>1. u = [w EXCEPT !.requested = TRUE, !.active = TRUE,
                        !.finalizer = "working"]
      BY <1>2, <1>4, <1>5 DEF Requested
    <2>2. State(u)
      BY <1>3, <2>1 DEF State, Fields
    <2>3. /\ Only(w, u, {"requested", "active", "finalizer"})
          /\ u.requested = TRUE /\ u.active = TRUE /\ u.finalizer = "working"
      BY <1>3, <2>1 DEF State, Fields, Only
    <2>4. Only(t, u, {"monitoring", "timer", "token", "userCancel", "pending",
                      "dialog", "requested", "active", "finalizer"})
      BY <1>1, <1>3, <2>3 DEF Only
    <2>5. /\ u.monitoring = FALSE /\ u.timer = FALSE /\ u.pending = FALSE
          /\ u.token = (t.token \/ t.task)
          /\ u.userCancel = (t.userCancel \/ (byUser /\ t.task))
          /\ u.dialog = IF t.pending THEN "none" ELSE t.dialog
      BY <1>1, <1>3, <2>3 DEF Only, Fields
    <2> QED BY <1>5, <2>2, <2>3, <2>4, <2>5
  <1>6. CASE ~ ((t.task \/ t.monitoring \/ t.closing) /\ ~ t.requested)
    <2>1. u = w
      BY <1>2, <1>4, <1>6 DEF Requested
    <2>2. Only(t, u, {"monitoring", "timer", "token", "userCancel", "pending",
                      "dialog", "requested", "active", "finalizer"})
      BY <1>1, <1>3, <1>4, <2>1 DEF Only
    <2>3. /\ u.monitoring = FALSE /\ u.timer = FALSE /\ u.pending = FALSE
          /\ u.token = (t.token \/ t.task)
          /\ u.userCancel = (t.userCancel \/ (byUser /\ t.task))
          /\ u.dialog = IF t.pending THEN "none" ELSE t.dialog
      BY <1>1, <1>3, <1>4, <2>1 DEF Only, Fields
    <2>4. t.requested \in BOOLEAN /\ t.active \in BOOLEAN
      BY DEF State
    <2> QED BY <1>3, <1>4, <1>6, <2>1, <2>2, <2>3, <2>4
  <1> QED BY <1>5, <1>6

(* cancel_pending takes the question and its dialog away.                   *)
LEMMA WithdrawnFine ==
    ASSUME NEW t, NEW q, Fine(t, q)
    PROVE  Fine(Withdrawn(t), q)
  <1>0. SUFFICES ASSUME NEW u, u = Withdrawn(t)
        PROVE  Fine(u, q)
    OBVIOUS
  <1>1. State(t) /\ q \in Seq(Signal) /\ Sound(t, q)
    BY DEF Fine
  <1>2. State(u)
    BY <1>0, <1>1, WithdrawnEffect
  <1>3. Only(t, u, {"pending", "dialog"})
    BY <1>0, <1>1, WithdrawnEffect
  <1>4. /\ u.pending = FALSE
        /\ u.dialog = IF t.pending THEN "none" ELSE t.dialog
    BY <1>0, <1>1, WithdrawnEffect
  <1>5. Scheduled(u) /\ Finalizing(u, q) /\ Storing(u, q) /\ Exclusive(u) /\
        Previewed(u)
    BY <1>1, <1>3
       DEF Sound, Only, Fields, Scheduled, Available, Finalizing, Storing,
           Exclusive, StorageTasks, Previewed
  <1>6. Ending(u)
    BY <1>1, <1>2, <1>3, <1>4
       DEF Sound, Only, Fields, Ending, Working
  <1>7. Querying(u, q)
    BY <1>1, <1>2, <1>3, <1>4, Fewer
       DEF Sound, Only, Fields, Querying
  <1>8. Asking(u, q)
    BY <1>1, <1>2, <1>3, <1>4, Fewer
       DEF Sound, Only, Fields, Asking, Quiet
  <1> QED BY <1>1, <1>2, <1>5, <1>6, <1>7, <1>8 DEF Fine, Sound

(* _cancel_active_work stops monitoring and asks for the finalization of    *)
(* the runs.                                                                *)
LEMMA CancelledFine ==
    ASSUME NEW t, NEW q, Fine(t, q),
           t.window = "open",
           NEW byUser \in BOOLEAN
    PROVE  Fine(Cancelled(t, byUser), q)
  <1>0. SUFFICES ASSUME NEW u, u = Cancelled(t, byUser)
        PROVE  Fine(u, q)
    OBVIOUS
  <1>1. State(t) /\ q \in Seq(Signal) /\ Sound(t, q)
    BY DEF Fine
  <1>2. State(u)
    BY <1>0, <1>1, CancelledEffect
  <1>3. Only(t, u, {"monitoring", "timer", "token", "userCancel", "pending",
                 "dialog", "requested", "active", "finalizer"})
    BY <1>0, <1>1, CancelledEffect
  <1>4. /\ u.monitoring = FALSE /\ u.timer = FALSE
        /\ u.token = (t.token \/ t.task)
        /\ u.userCancel = (t.userCancel \/ (byUser /\ t.task))
        /\ u.pending = FALSE
        /\ u.dialog = IF t.pending THEN "none" ELSE t.dialog
        /\ u.requested = (t.requested \/ t.task \/ t.monitoring \/ t.closing)
        /\ u.active = (t.active \/ (~ t.requested /\ (t.task \/ t.monitoring
                    \/ t.closing)))
        /\ u.finalizer = IF ~ t.requested /\ (t.task \/ t.monitoring \/
                    t.closing) THEN "working" ELSE t.finalizer
    BY ZenonT(30), <1>0, <1>1, CancelledEffect
  <1>5. Storing(u, q) /\ Previewed(u)
    BY <1>1, <1>3
       DEF Sound, Only, Fields, Storing, Previewed, StorageTasks
  <1>6. Scheduled(u)
    BY <1>1, <1>2, <1>3, <1>4
       DEF Sound, Only, Fields, Scheduled, Available
  <1>7. Ending(u)
    BY <1>1, <1>2, <1>3, <1>4
       DEF Sound, Only, Fields, Ending, Working
  <1>8. Finalizing(u, q)
    <2>1. CASE /\ u.requested = t.requested /\ u.active = t.active
               /\ u.finalizer = t.finalizer
      BY <1>1, <1>3, <1>4, <2>1 DEF Sound, Only, Fields, Finalizing
    <2>2. CASE /\ t.requested = FALSE /\ u.requested = TRUE
               /\ u.active = TRUE /\ u.finalizer = "working"
      BY <1>1, <1>3, <1>4, <2>2 DEF Sound, Only, Fields, Finalizing
    <2> QED BY <1>1, <1>4, <2>1, <2>2 DEF State
  <1>9. Querying(u, q)
    BY <1>1, <1>2, <1>3, <1>4, Fewer
       DEF Sound, Only, Fields, Querying
  <1>10. Asking(u, q)
    BY <1>1, <1>2, <1>3, <1>4, Fewer
       DEF Sound, Only, Fields, Asking, Quiet
  <1>11. Exclusive(u)
    BY <1>1, <1>2, <1>3, <1>4
       DEF Sound, Only, Fields, Exclusive, StorageTasks
  <1> QED BY <1>1, <1>2, <1>5, <1>6, <1>7, <1>8, <1>9, <1>10, <1>11
          DEF Fine, Sound

(* An idle closing window posts itself another close (_close_if_idle).      *)
LEMMA ClosePosted ==
    ASSUME NEW t, NEW q, Fine(t, q),
           t.closing
    PROVE  Fine([t EXCEPT !.closePosted = TRUE], q)
  <1>0. SUFFICES ASSUME NEW u, u = [t EXCEPT !.closePosted = TRUE]
        PROVE  Fine(u, q)
    OBVIOUS
  <1>1. State(t) /\ q \in Seq(Signal) /\ Sound(t, q)
    BY DEF Fine
  <1>2. /\ DOMAIN u = Fields
        /\ Only(t, u, {"closePosted"})
    BY <1>0, <1>1 DEF State, Fields, Only
  <1>3. u.closePosted = TRUE
    BY <1>0, <1>1 DEF State, Fields
  <1>4. State(u)
    BY ZenonT(30), <1>1, <1>2, <1>3
       DEF State, Only, Fields, QueryState, Quiet, StorageTasks, PreviewState
  <1>5. Scheduled(u) /\ Finalizing(u, q) /\ Querying(u, q) /\ Asking(u, q) /\
        Storing(u, q) /\ Exclusive(u) /\ Previewed(u)
    BY <1>1, <1>2
       DEF Sound, Only, Fields, Scheduled, Available, Finalizing, Querying,
           Asking, Quiet, Storing, Exclusive, StorageTasks, Previewed
  <1>6. Ending(u)
    BY <1>1, <1>2, <1>3, <1>4
       DEF Sound, Only, Fields, Ending, Working
  <1> QED BY <1>1, <1>4, <1>5, <1>6 DEF Fine, Sound

(* _close_if_idle, whether the window is idle or not.                       *)
LEMMA ClosedIfIdleFine ==
    ASSUME NEW t, NEW q, Fine(t, q)
    PROVE  Fine(ClosedIfIdle(t), q)
  <1>1. CASE ~ t.closing
    BY <1>1 DEF ClosedIfIdle
  <1>2. CASE t.closing
    <2>1. t.discards = <<>>
      BY <1>2 DEF Fine, Sound, Ending, Exclusive
    <2>2. Drained(t) = t
      BY <2>1 DEF Drained
    <2>3. Fine([t EXCEPT !.closePosted = TRUE], q)
      BY <1>2, ClosePosted
    <2> QED BY <1>2, <2>2, <2>3 DEF ClosedIfIdle
  <1> QED BY <1>1, <1>2

(* closeEvent accepts the close of a window that has given up waiting.      *)
LEMMA LastClose ==
    ASSUME NEW t, NEW q, Fine(t, q),
           t.deferred
    PROVE  Fine([t EXCEPT !.window = "closed"], q)
  <1>0. SUFFICES ASSUME NEW u, u = [t EXCEPT !.window = "closed"]
        PROVE  Fine(u, q)
    OBVIOUS
  <1>1. State(t) /\ q \in Seq(Signal) /\ Sound(t, q)
    BY DEF Fine
  <1>2. /\ DOMAIN u = Fields
        /\ Only(t, u, {"window"})
    BY <1>0, <1>1 DEF State, Fields, Only
  <1>3. u.window = "closed"
    BY <1>0, <1>1 DEF State, Fields
  <1>4. State(u)
    BY ZenonT(30), <1>1, <1>2, <1>3
       DEF State, Only, Fields, QueryState, Quiet, StorageTasks, PreviewState
  <1>5. Scheduled(u) /\ Finalizing(u, q) /\ Querying(u, q) /\ Asking(u, q) /\
        Storing(u, q) /\ Exclusive(u) /\ Previewed(u)
    BY <1>1, <1>2
       DEF Sound, Only, Fields, Scheduled, Available, Finalizing, Querying,
           Asking, Quiet, Storing, Exclusive, StorageTasks, Previewed
  <1>6. Ending(u)
    BY <1>1, <1>2, <1>3, <1>4
       DEF Sound, Only, Fields, Ending, Working
  <1> QED BY <1>1, <1>4, <1>5, <1>6 DEF Fine, Sound

(* closeEvent refuses and starts the grace timer.                           *)
LEMMA CloseWaits ==
    ASSUME NEW t, NEW q, Fine(t, q),
           t.closing
    PROVE  Fine([t EXCEPT !.closeTimer = TRUE], q)
  <1>0. SUFFICES ASSUME NEW u, u = [t EXCEPT !.closeTimer = TRUE]
        PROVE  Fine(u, q)
    OBVIOUS
  <1>1. State(t) /\ q \in Seq(Signal) /\ Sound(t, q)
    BY DEF Fine
  <1>2. /\ DOMAIN u = Fields
        /\ Only(t, u, {"closeTimer"})
    BY <1>0, <1>1 DEF State, Fields, Only
  <1>3. u.closeTimer = TRUE
    BY <1>0, <1>1 DEF State, Fields
  <1>4. State(u)
    BY ZenonT(30), <1>1, <1>2, <1>3
       DEF State, Only, Fields, QueryState, Quiet, StorageTasks, PreviewState
  <1>5. Scheduled(u) /\ Finalizing(u, q) /\ Querying(u, q) /\ Asking(u, q) /\
        Storing(u, q) /\ Exclusive(u) /\ Previewed(u)
    BY <1>1, <1>2
       DEF Sound, Only, Fields, Scheduled, Available, Finalizing, Querying,
           Asking, Quiet, Storing, Exclusive, StorageTasks, Previewed
  <1>6. Ending(u)
    BY <1>1, <1>2, <1>3, <1>4
       DEF Sound, Only, Fields, Ending, Working
  <1> QED BY <1>1, <1>4, <1>5, <1>6 DEF Fine, Sound

(* closeEvent accepts the close of an idle window.                          *)
LEMMA CloseNow ==
    ASSUME NEW t, NEW q, Fine(t, q),
           t.closing,
           ~ Working(t)
    PROVE  Fine([t EXCEPT !.closeTimer = FALSE, !.window = "closed"], q)
  <1>0. SUFFICES ASSUME NEW u,
                        u = [t EXCEPT !.closeTimer = FALSE,
                                      !.window = "closed"]
                 PROVE  Fine(u, q)
    OBVIOUS
  <1>1. State(t) /\ q \in Seq(Signal) /\ Sound(t, q)
    BY DEF Fine
  <1>2. /\ DOMAIN u = Fields
        /\ Only(t, u, {"closeTimer", "window"})
    BY <1>0, <1>1 DEF State, Fields, Only
  <1>3. /\ u.closeTimer = FALSE /\ u.window = "closed"
    BY <1>0, <1>1 DEF State, Fields
  <1>4. State(u)
    BY ZenonT(30), <1>1, <1>2, <1>3
       DEF State, Only, Fields, QueryState, Quiet, StorageTasks, PreviewState
  <1>5. Scheduled(u) /\ Finalizing(u, q) /\ Querying(u, q) /\ Asking(u, q) /\
        Storing(u, q) /\ Exclusive(u) /\ Previewed(u)
    BY <1>1, <1>2
       DEF Sound, Only, Fields, Scheduled, Available, Finalizing, Querying,
           Asking, Quiet, Storing, Exclusive, StorageTasks, Previewed
  <1>6. Ending(u)
    BY <1>1, <1>2, <1>3, <1>4
       DEF Sound, Only, Fields, Ending, Working
  <1> QED BY <1>1, <1>4, <1>5, <1>6 DEF Fine, Sound

(* The grace timer has fired.                                               *)
LEMMA CloseTimerOff ==
    ASSUME NEW t, NEW q, Fine(t, q)
    PROVE  Fine([t EXCEPT !.closeTimer = FALSE], q)
  <1>0. SUFFICES ASSUME NEW u, u = [t EXCEPT !.closeTimer = FALSE]
        PROVE  Fine(u, q)
    OBVIOUS
  <1>1. State(t) /\ q \in Seq(Signal) /\ Sound(t, q)
    BY DEF Fine
  <1>2. /\ DOMAIN u = Fields
        /\ Only(t, u, {"closeTimer"})
    BY <1>0, <1>1 DEF State, Fields, Only
  <1>3. u.closeTimer = FALSE
    BY <1>0, <1>1 DEF State, Fields
  <1>4. State(u)
    BY ZenonT(30), <1>1, <1>2, <1>3
       DEF State, Only, Fields, QueryState, Quiet, StorageTasks, PreviewState
  <1>5. Scheduled(u) /\ Finalizing(u, q) /\ Querying(u, q) /\ Asking(u, q) /\
        Storing(u, q) /\ Exclusive(u) /\ Previewed(u)
    BY <1>1, <1>2
       DEF Sound, Only, Fields, Scheduled, Available, Finalizing, Querying,
           Asking, Quiet, Storing, Exclusive, StorageTasks, Previewed
  <1>6. Ending(u)
    BY <1>1, <1>2, <1>3, <1>4
       DEF Sound, Only, Fields, Ending, Working
  <1> QED BY <1>1, <1>4, <1>5, <1>6 DEF Fine, Sound

(* The posted close is being delivered.                                     *)
LEMMA ClosePostedOff ==
    ASSUME NEW t, NEW q, Fine(t, q)
    PROVE  Fine([t EXCEPT !.closePosted = FALSE], q)
  <1>0. SUFFICES ASSUME NEW u, u = [t EXCEPT !.closePosted = FALSE]
        PROVE  Fine(u, q)
    OBVIOUS
  <1>1. State(t) /\ q \in Seq(Signal) /\ Sound(t, q)
    BY DEF Fine
  <1>2. /\ DOMAIN u = Fields
        /\ Only(t, u, {"closePosted"})
    BY <1>0, <1>1 DEF State, Fields, Only
  <1>3. u.closePosted = FALSE
    BY <1>0, <1>1 DEF State, Fields
  <1>4. State(u)
    BY ZenonT(30), <1>1, <1>2, <1>3
       DEF State, Only, Fields, QueryState, Quiet, StorageTasks, PreviewState
  <1>5. Scheduled(u) /\ Finalizing(u, q) /\ Querying(u, q) /\ Asking(u, q) /\
        Storing(u, q) /\ Exclusive(u) /\ Previewed(u)
    BY <1>1, <1>2
       DEF Sound, Only, Fields, Scheduled, Available, Finalizing, Querying,
           Asking, Quiet, Storing, Exclusive, StorageTasks, Previewed
  <1>6. Ending(u)
    BY <1>1, <1>2, <1>3, <1>4
       DEF Sound, Only, Fields, Ending, Working
  <1> QED BY <1>1, <1>4, <1>5, <1>6 DEF Fine, Sound

(* _force_close_after_grace_period gives every task up.                     *)
LEMMA AbandonedFine ==
    ASSUME NEW t, NEW q, Fine(t, q),
           t.closing,
           t.window = "open"
    PROVE  Fine(Abandoned(t), q)
  <1>0. SUFFICES ASSUME NEW u, u = Abandoned(t)
        PROVE  Fine(u, q)
    OBVIOUS
  <1>1. State(t) /\ q \in Seq(Signal) /\ Sound(t, q)
    BY DEF Fine
  <1>2. /\ DOMAIN u = Fields
        /\ Only(t, u, {"deferred", "finalized", "monitoring", "timer", "token",
                 "task", "storage", "history", "discards", "closePosted"})
    BY <1>0, <1>1 DEF State, Fields, Only, Abandoned
  <1>3. /\ u.deferred = TRUE /\ u.finalized = "failed"
        /\ u.monitoring = FALSE /\ u.timer = FALSE
        /\ u.token = (t.token \/ t.task) /\ u.task = FALSE
        /\ u.storage = "none" /\ u.history = FALSE /\ u.discards = <<>>
        /\ u.closePosted = TRUE
    BY <1>0, <1>1 DEF State, Fields, Abandoned
  <1>4. State(u)
    <2>1. /\ u.deferred \in BOOLEAN
          /\ u.finalized \in {"none", "ok", "failed"}
          /\ u.monitoring \in BOOLEAN
          /\ u.timer \in BOOLEAN
          /\ u.task \in BOOLEAN
          /\ u.storage \in StorageTasks \cup {"none"}
          /\ u.history \in BOOLEAN
          /\ u.closePosted \in BOOLEAN
      BY <1>1, <1>3 DEF State, QueryState, Quiet, StorageTasks
    <2>2. u.token \in BOOLEAN
      BY <1>1, <1>3
    <2>3. u.discards \in Seq(Preview)
      BY <1>1, <1>3
    <2> QED BY ZenonT(30), <1>1, <1>2, <2>1, <2>2, <2>3 DEF State, Only, Fields
  <1>5. Asking(u, q)
    BY <1>1, <1>2
       DEF Sound, Only, Fields, Asking, Quiet
  <1>6. Scheduled(u)
    BY <1>1, <1>2, <1>3, <1>4
       DEF Sound, Only, Fields, Scheduled, Available
  <1>7. Ending(u)
    BY <1>1, <1>2, <1>3, <1>4
       DEF Sound, Only, Fields, Ending, Working
  <1>8. Finalizing(u, q)
    BY <1>1, <1>2, <1>3, <1>4
       DEF Sound, Only, Fields, Finalizing
  <1>9. Querying(u, q)
    BY <1>1, <1>2, <1>3, <1>4, Fewer
       DEF Sound, Only, Fields, Querying
  <1>10. Storing(u, q)
    BY <1>1, <1>2, <1>3, <1>4
       DEF Sound, Only, Fields, Storing
  <1>11. Exclusive(u)
    BY <1>1, <1>2, <1>3, <1>4
       DEF Sound, Only, Fields, Exclusive, StorageTasks
  <1>12. Previewed(u)
    BY <1>1, <1>2, <1>3, <1>4
       DEF Sound, Only, Fields, Previewed, StorageTasks
  <1> QED BY <1>1, <1>4, <1>5, <1>6, <1>7, <1>8, <1>9, <1>10, <1>11, <1>12
          DEF Fine, Sound

(* The finalization takes too long (_finalization_timed_out).               *)
LEMMA GivenUp ==
    ASSUME NEW t, NEW q, Fine(t, q),
           t.active,
           t.window = "open"
    PROVE  Fine([t EXCEPT !.active = FALSE, !.restart = TRUE,
                   !.finalized = IF t.deferred THEN @ ELSE "failed"], q)
  <1>0. SUFFICES ASSUME NEW u,
                        u = [t EXCEPT !.active = FALSE, !.restart = TRUE,
                                   !.finalized = IF t.deferred THEN @
                                                 ELSE "failed"]
                 PROVE  Fine(u, q)
    OBVIOUS
  <1>1. State(t) /\ q \in Seq(Signal) /\ Sound(t, q)
    BY DEF Fine
  <1>2. /\ DOMAIN u = Fields
        /\ Only(t, u, {"active", "restart", "finalized"})
    BY <1>0, <1>1 DEF State, Fields, Only
  <1>3. /\ u.active = FALSE /\ u.restart = TRUE
        /\ u.finalized = IF t.deferred THEN t.finalized ELSE "failed"
    BY <1>0, <1>1 DEF State, Fields
  <1>4. State(u)
    BY ZenonT(30), <1>1, <1>2, <1>3
       DEF State, Only, Fields, QueryState, Quiet, StorageTasks, PreviewState
  <1>5. Querying(u, q) /\ Asking(u, q) /\ Storing(u, q) /\ Exclusive(u) /\
        Previewed(u)
    BY <1>1, <1>2
       DEF Sound, Only, Fields, Querying, Asking, Quiet, Storing, Exclusive,
           StorageTasks, Previewed
  <1>6. Scheduled(u)
    BY <1>1, <1>2, <1>3, <1>4
       DEF Sound, Only, Fields, Scheduled, Available
  <1>7. Ending(u)
    BY <1>1, <1>2, <1>3, <1>4
       DEF Sound, Only, Fields, Ending, Working
  <1>8. Finalizing(u, q)
    BY <1>1, <1>2, <1>3, <1>4
       DEF Sound, Only, Fields, Finalizing
  <1> QED BY <1>1, <1>4, <1>5, <1>6, <1>7, <1>8 DEF Fine, Sound

(* The finalization ended well, in time or after it had been given up.      *)
LEMMA Finalized ==
    ASSUME NEW t, NEW q, Fine(t, q),
           t.active,
           t.window = "open",
           q # <<>>, Head(q)[1] = "finalized"
    PROVE  Fine([t EXCEPT !.active = FALSE, !.restart = @ \/ ~ TRUE,
                   !.finalized = IF t.deferred THEN @ ELSE "ok"], Tail(q))
  <1>0. SUFFICES ASSUME NEW u,
                        u = [t EXCEPT !.active = FALSE, !.restart = @ \/ ~ TRUE,
                                 !.finalized = IF t.deferred THEN @ ELSE "ok"]
                 PROVE  Fine(u, Tail(q))
    OBVIOUS
  <1>1. State(t) /\ q \in Seq(Signal) /\ Sound(t, q)
    BY DEF Fine
  <1>2. /\ DOMAIN u = Fields
        /\ Only(t, u, {"active", "restart", "finalized"})
    BY <1>0, <1>1 DEF State, Fields, Only
  <1>3. /\ u.active = FALSE /\ u.restart = t.restart
        /\ u.finalized = IF t.deferred THEN t.finalized ELSE "ok"
    BY <1>0, <1>1 DEF State, Fields
  <1>4. State(u)
    BY ZenonT(30), <1>1, <1>2, <1>3
       DEF State, Only, Fields, QueryState, Quiet, StorageTasks, PreviewState
  <1>5. Tail(q) \in Seq(Signal) /\ Passed(q, Tail(q), Head(q)[1])
    BY <1>1, Delivery
  <1>6. Exclusive(u)
    BY <1>1, <1>2, <1>3, <1>4
       DEF Sound, Only, Fields, Exclusive, StorageTasks
  <1>7. Scheduled(u)
    BY <1>1, <1>2, <1>3, <1>4
       DEF Sound, Only, Fields, Scheduled, Available
  <1>8. Ending(u)
    BY <1>1, <1>2, <1>3, <1>4
       DEF Sound, Only, Fields, Ending, Working
  <1>9. Finalizing(u, Tail(q))
    <2>1. t.finalizer = "none" /\ Absent(Tail(q), {"finalized"})
      BY <1>1, <1>5 DEF Sound, Finalizing, Passed, State
    <2>2. Single(Tail(q), {"finalized"})
      BY <2>1, Fewer
    <2>3. /\ u.finalizer = t.finalizer /\ u.deferred = t.deferred
          /\ u.requested = t.requested
      BY <1>2 DEF Only, Fields
    <2>4. t.restart = FALSE
      BY <1>1 DEF Sound, Finalizing, State
    <2>5. u.restart = FALSE \/ u.finalized # "ok"
      <3>1. t.deferred => t.finalized # "ok"
        BY <1>1 DEF Sound, Finalizing
      <3>2. CASE t.deferred
        BY <1>3, <3>1, <3>2
      <3>3. CASE ~ t.deferred
        BY <1>2, <1>3, <2>4, <3>3 DEF Only, Fields
      <3> QED BY <3>2, <3>3
    <2> QED BY <1>1, <1>3, <2>1, <2>2, <2>3, <2>5 DEF Sound, Finalizing
  <1>10. Querying(u, Tail(q))
    BY <1>1, <1>2, <1>3, <1>4, <1>5, Fewer
       DEF Sound, Only, Fields, Passed, Same, Unspoken, Querying
  <1>11. Asking(u, Tail(q))
    BY <1>1, <1>2, <1>3, <1>4, <1>5, Fewer
       DEF Sound, Only, Fields, Passed, Same, Unspoken, Asking, Quiet
  <1>12. Storing(u, Tail(q))
    BY <1>1, <1>2, <1>3, <1>4, <1>5
       DEF Sound, Only, Fields, Passed, Same, Storing
  <1>13. Previewed(u)
    <2>1. /\ u.storage = t.storage /\ u.modal = t.modal
          /\ u.subject = t.subject /\ u.deferred = t.deferred
          /\ u.previews = t.previews /\ u.discards = t.discards
      BY <1>2 DEF Only, Fields
    <2>2. Previewed(t)
      BY <1>1 DEF Sound
    <2> QED BY <2>1, <2>2, PreviewsStay, Zenon
  <1> QED BY <1>1, <1>4, <1>5, <1>6, <1>7, <1>8, <1>9, <1>10, <1>11, <1>12,
             <1>13 DEF Fine, Sound

(* The finalization failed.                                                 *)
LEMMA FinalizedBadly ==
    ASSUME NEW t, NEW q, Fine(t, q),
           t.active,
           t.window = "open",
           q # <<>>, Head(q)[1] = "finalized"
    PROVE  Fine([t EXCEPT !.active = FALSE, !.restart = TRUE,
                   !.finalized = IF t.deferred THEN @ ELSE "failed"], Tail(q))
  <1>0. SUFFICES ASSUME NEW u,
                        u = [t EXCEPT !.active = FALSE, !.restart = TRUE,
                                   !.finalized = IF t.deferred THEN @
                                                 ELSE "failed"]
                 PROVE  Fine(u, Tail(q))
    OBVIOUS
  <1>1. State(t) /\ q \in Seq(Signal) /\ Sound(t, q)
    BY DEF Fine
  <1>2. /\ DOMAIN u = Fields
        /\ Only(t, u, {"active", "restart", "finalized"})
    BY <1>0, <1>1 DEF State, Fields, Only
  <1>3. /\ u.active = FALSE /\ u.restart = TRUE
        /\ u.finalized = IF t.deferred THEN t.finalized ELSE "failed"
    BY <1>0, <1>1 DEF State, Fields
  <1>4. State(u)
    BY ZenonT(30), <1>1, <1>2, <1>3
       DEF State, Only, Fields, QueryState, Quiet, StorageTasks, PreviewState
  <1>5. Tail(q) \in Seq(Signal) /\ Passed(q, Tail(q), Head(q)[1])
    BY <1>1, Delivery
  <1>6. Exclusive(u)
    BY <1>1, <1>2, <1>3, <1>4
       DEF Sound, Only, Fields, Exclusive, StorageTasks
  <1>7. Scheduled(u)
    BY <1>1, <1>2, <1>3, <1>4
       DEF Sound, Only, Fields, Scheduled, Available
  <1>8. Ending(u)
    BY <1>1, <1>2, <1>3, <1>4
       DEF Sound, Only, Fields, Ending, Working
  <1>9. Finalizing(u, Tail(q))
    <2>1. t.finalizer = "none" /\ Absent(Tail(q), {"finalized"})
      BY <1>1, <1>5 DEF Sound, Finalizing, Passed, State
    <2>2. Single(Tail(q), {"finalized"})
      BY <2>1, Fewer
    <2>3. /\ u.finalizer = t.finalizer /\ u.deferred = t.deferred
          /\ u.requested = t.requested
      BY <1>2 DEF Only, Fields
    <2>4. t.restart = FALSE
      BY <1>1 DEF Sound, Finalizing, State
    <2>5. u.restart = FALSE \/ u.finalized # "ok"
      <3>1. t.deferred => t.finalized # "ok"
        BY <1>1 DEF Sound, Finalizing
      <3>2. CASE t.deferred
        BY <1>3, <3>1, <3>2
      <3>3. CASE ~ t.deferred
        BY <1>2, <1>3, <2>4, <3>3 DEF Only, Fields
      <3> QED BY <3>2, <3>3
    <2> QED BY <1>1, <1>3, <2>1, <2>2, <2>3, <2>5 DEF Sound, Finalizing
  <1>10. Querying(u, Tail(q))
    BY <1>1, <1>2, <1>3, <1>4, <1>5, Fewer
       DEF Sound, Only, Fields, Passed, Same, Unspoken, Querying
  <1>11. Asking(u, Tail(q))
    BY <1>1, <1>2, <1>3, <1>4, <1>5, Fewer
       DEF Sound, Only, Fields, Passed, Same, Unspoken, Asking, Quiet
  <1>12. Storing(u, Tail(q))
    BY <1>1, <1>2, <1>3, <1>4, <1>5
       DEF Sound, Only, Fields, Passed, Same, Storing
  <1>13. Previewed(u)
    <2>1. /\ u.storage = t.storage /\ u.modal = t.modal
          /\ u.subject = t.subject /\ u.deferred = t.deferred
          /\ u.previews = t.previews /\ u.discards = t.discards
      BY <1>2 DEF Only, Fields
    <2>2. Previewed(t)
      BY <1>1 DEF Sound
    <2> QED BY <2>1, <2>2, PreviewsStay, Zenon
  <1> QED BY <1>1, <1>4, <1>5, <1>6, <1>7, <1>8, <1>9, <1>10, <1>11, <1>12,
             <1>13 DEF Fine, Sound

(* _start_query of an idle window.                                          *)
LEMMA QueryStartsFine ==
    ASSUME NEW t, NEW q, Fine(t, q),
           t.window = "open",
           Available(t),
           ~ t.task,
           t.modal \notin {"confirm", "storage"}
    PROVE  Fine(QueryStarts(t), q)
  <1>0. SUFFICES ASSUME NEW u, u = QueryStarts(t)
        PROVE  Fine(u, q)
    OBVIOUS
  <1>1. State(t) /\ q \in Seq(Signal) /\ Sound(t, q)
    BY DEF Fine
  <1>2. /\ DOMAIN u = Fields
        /\ Only(t, u, {"requested", "finalized", "task", "query", "token",
                 "asked", "timer", "queries"})
    BY <1>0, <1>1 DEF State, Fields, Only, QueryStarts
  <1>3. /\ u.requested = FALSE /\ u.finalized = "none" /\ u.task = TRUE
        /\ u.query = "preflight" /\ u.token = FALSE /\ u.asked = FALSE
        /\ u.timer = FALSE /\ u.queries = t.queries + 1
    BY <1>0, <1>1 DEF State, Fields, QueryStarts
  <1>4. State(u)
    <2>1. /\ u.requested \in BOOLEAN
          /\ u.finalized \in {"none", "ok", "failed"}
          /\ u.task \in BOOLEAN
          /\ u.query \in QueryState
          /\ u.token \in BOOLEAN
          /\ u.asked \in BOOLEAN
          /\ u.timer \in BOOLEAN
      BY <1>1, <1>3 DEF State, QueryState, Quiet
    <2>2. u.queries \in Nat
      BY <1>1, <1>3 DEF State, QueryState, Quiet
    <2> QED BY <1>1, <1>2, <2>1, <2>2 DEF State, Only, Fields
  <1>5. Storing(u, q) /\ Previewed(u)
    BY <1>1, <1>2
       DEF Sound, Only, Fields, Storing, Previewed, StorageTasks
  <1>6. Scheduled(u)
    BY <1>1, <1>2, <1>3, <1>4
       DEF Sound, Only, Fields, Scheduled, Available
  <1>7. Ending(u)
    BY <1>1, <1>2, <1>3, <1>4
       DEF Sound, Only, Fields, Ending, Working, Available
  <1>8. Finalizing(u, q)
    BY <1>1, <1>2, <1>3, <1>4
       DEF Sound, Only, Fields, Finalizing, Available
  <1>9. Querying(u, q)
    BY <1>1, <1>2, <1>3, <1>4, Fewer
       DEF Sound, Only, Fields, Querying, Asking, Quiet, Ending, Working,
           Available
  <1>10. Asking(u, q)
    BY <1>1, <1>2, <1>3, <1>4, Fewer
       DEF Sound, Only, Fields, Asking, Quiet, Querying, Ending, Working,
           Available
  <1>11. Exclusive(u)
    BY <1>1, <1>2, <1>3, <1>4
       DEF Sound, Only, Fields, Exclusive, StorageTasks, Scheduled, Available
  <1> QED BY <1>1, <1>4, <1>5, <1>6, <1>7, <1>8, <1>9, <1>10, <1>11
          DEF Fine, Sound

(* _refresh_history starts a reader.                                        *)
LEMMA ReadingFine ==
    ASSUME NEW t, NEW q, Fine(t, q),
           t.window = "open",
           Available(t),
           ~ t.history,
           t.modal \notin {"confirm", "storage"}
    PROVE  Fine(Reading(t), q)
  <1>0. SUFFICES ASSUME NEW u, u = Reading(t)
        PROVE  Fine(u, q)
    OBVIOUS
  <1>1. State(t) /\ q \in Seq(Signal) /\ Sound(t, q)
    BY DEF Fine
  <1>2. /\ DOMAIN u = Fields
        /\ Only(t, u, {"history", "historyThread", "reads"})
    BY <1>0, <1>1 DEF State, Fields, Only, Reading
  <1>3. /\ u.history = TRUE /\ u.historyThread = "working"
        /\ u.reads = t.reads + 1
    BY <1>0, <1>1 DEF State, Fields, Reading
  <1>4. State(u)
    <2>1. /\ u.history \in BOOLEAN
          /\ u.historyThread \in {"none", "working"}
      BY <1>1, <1>3 DEF State, QueryState, Quiet
    <2>2. u.reads \in Nat
      BY <1>1, <1>3 DEF State, QueryState, Quiet
    <2> QED BY <1>1, <1>2, <2>1, <2>2 DEF State, Only, Fields
  <1>5. Scheduled(u) /\ Finalizing(u, q) /\ Querying(u, q) /\ Asking(u, q) /\
        Previewed(u)
    BY <1>1, <1>2
       DEF Sound, Only, Fields, Scheduled, Available, Finalizing, Querying,
           Asking, Quiet, Previewed, StorageTasks
  <1>6. Ending(u)
    BY <1>1, <1>2, <1>3, <1>4
       DEF Sound, Only, Fields, Ending, Working, Available
  <1>7. Storing(u, q)
    BY <1>1, <1>2, <1>3, <1>4
       DEF Sound, Only, Fields, Storing, Ending, Working, Available
  <1>8. Exclusive(u)
    BY <1>1, <1>2, <1>3, <1>4
       DEF Sound, Only, Fields, Exclusive, StorageTasks, Available
  <1> QED BY <1>1, <1>4, <1>5, <1>6, <1>7, <1>8 DEF Fine, Sound

(* toggle_monitoring switches monitoring on and starts the first query.     *)
LEMMA MonitoringStarts ==
    ASSUME NEW t, NEW q, Fine(t, q),
           t.window = "open",
           Available(t),
           ~ t.task,
           t.modal \notin {"confirm", "storage"}
    PROVE  Fine(QueryStarts([t EXCEPT !.monitoring = TRUE]), q)
  <1>0. SUFFICES ASSUME NEW u,
                        u = QueryStarts([t EXCEPT !.monitoring = TRUE])
                 PROVE  Fine(u, q)
    OBVIOUS
  <1>1. State(t) /\ q \in Seq(Signal) /\ Sound(t, q)
    BY DEF Fine
  <1>2. /\ DOMAIN u = Fields
        /\ Only(t, u, {"monitoring", "requested", "finalized", "task", "query",
                 "token", "asked", "timer", "queries"})
    BY <1>0, <1>1 DEF State, Fields, Only, QueryStarts
  <1>3. /\ u.monitoring = TRUE /\ u.requested = FALSE /\ u.finalized = "none"
        /\ u.task = TRUE /\ u.query = "preflight" /\ u.token = FALSE
        /\ u.asked = FALSE /\ u.timer = FALSE /\ u.queries = t.queries + 1
    BY <1>0, <1>1 DEF State, Fields, QueryStarts
  <1>4. State(u)
    <2>1. /\ u.monitoring \in BOOLEAN
          /\ u.requested \in BOOLEAN
          /\ u.finalized \in {"none", "ok", "failed"}
          /\ u.task \in BOOLEAN
          /\ u.query \in QueryState
          /\ u.token \in BOOLEAN
          /\ u.asked \in BOOLEAN
          /\ u.timer \in BOOLEAN
      BY <1>1, <1>3 DEF State, QueryState, Quiet
    <2>2. u.queries \in Nat
      BY <1>1, <1>3 DEF State, QueryState, Quiet
    <2> QED BY <1>1, <1>2, <2>1, <2>2 DEF State, Only, Fields
  <1>5. Storing(u, q) /\ Previewed(u)
    BY <1>1, <1>2
       DEF Sound, Only, Fields, Storing, Previewed, StorageTasks
  <1>6. Scheduled(u)
    BY <1>1, <1>2, <1>3, <1>4
       DEF Sound, Only, Fields, Scheduled, Available
  <1>7. Ending(u)
    BY <1>1, <1>2, <1>3, <1>4
       DEF Sound, Only, Fields, Ending, Working, Available
  <1>8. Finalizing(u, q)
    BY <1>1, <1>2, <1>3, <1>4
       DEF Sound, Only, Fields, Finalizing, Available
  <1>9. Querying(u, q)
    BY <1>1, <1>2, <1>3, <1>4, Fewer
       DEF Sound, Only, Fields, Querying, Asking, Quiet, Ending, Working,
           Available
  <1>10. Asking(u, q)
    BY <1>1, <1>2, <1>3, <1>4, Fewer
       DEF Sound, Only, Fields, Asking, Quiet, Querying, Ending, Working,
           Available
  <1>11. Exclusive(u)
    BY <1>1, <1>2, <1>3, <1>4
       DEF Sound, Only, Fields, Exclusive, StorageTasks, Scheduled, Available
  <1> QED BY <1>1, <1>4, <1>5, <1>6, <1>7, <1>8, <1>9, <1>10, <1>11
          DEF Fine, Sound

(* _show_input_error opens a box over a window with no box and no storage   *)
(* task.                                                                    *)
LEMMA InputShown ==
    ASSUME NEW t, NEW q, Fine(t, q),
           t.storage = "none",
           ~ t.closing,
           t.modal = "none"
    PROVE  Fine([t EXCEPT !.modal = "input"], q)
  <1>0. SUFFICES ASSUME NEW u, u = [t EXCEPT !.modal = "input"]
        PROVE  Fine(u, q)
    OBVIOUS
  <1>1. State(t) /\ q \in Seq(Signal) /\ Sound(t, q)
    BY DEF Fine
  <1>2. /\ DOMAIN u = Fields
        /\ Only(t, u, {"modal"})
    BY <1>0, <1>1 DEF State, Fields, Only
  <1>3. u.modal = "input"
    BY <1>0, <1>1 DEF State, Fields
  <1>4. State(u)
    BY <1>1, <1>2, <1>3
       DEF State, Only, Fields, QueryState, Quiet, StorageTasks, PreviewState
  <1>5. Scheduled(u) /\ Finalizing(u, q) /\ Querying(u, q) /\ Asking(u, q) /\
        Storing(u, q)
    BY <1>1, <1>2
       DEF Sound, Only, Fields, Scheduled, Available, Finalizing, Querying,
           Asking, Quiet, Storing
  <1>6. Ending(u)
    BY <1>1, <1>2, <1>3, <1>4
       DEF Sound, Only, Fields, Ending, Working
  <1>7. Exclusive(u)
    BY <1>1, <1>2, <1>3, <1>4
       DEF Sound, Only, Fields, Exclusive, StorageTasks
  <1>8. Previewed(u)
    BY <1>1, <1>2, <1>3, <1>4
       DEF Sound, Only, Fields, Previewed, StorageTasks
  <1> QED BY <1>1, <1>4, <1>5, <1>6, <1>7, <1>8 DEF Fine, Sound

(* What a queue of one preview holds.                                       *)
LEMMA OneWaits ==
    ASSUME NEW d \in Seq(Preview), Len(d) = 1
    PROVE  Head(d) \in Preview /\ d # <<>> /\ Tail(d) = <<>>
  <1>1. d # <<>>
    <2>1. SUFFICES ASSUME d = <<>> PROVE FALSE
      OBVIOUS
    <2>2. Len(<<>>) = 0
      BY EmptySeq
    <2> QED BY <2>1, <2>2
  <1>2. Head(d) \in Preview /\ Tail(d) \in Seq(Preview) /\ Len(Tail(d)) = 0
    BY <1>1
  <1>3. \A e \in Seq(Preview) : Len(e) = 0 => e = <<>>
    BY EmptySeq
  <1> QED BY <1>1, <1>2, <1>3

(* _drain_preview_discard_queue gives the queued preview back.              *)
LEMMA DrainedFine ==
    ASSUME NEW t, NEW q, Loose(t, q)
    PROVE  Fine(Drained(t), q)
  <1>0. SUFFICES ASSUME NEW u, u = Drained(t)
        PROVE  Fine(u, q)
    OBVIOUS
  <1>1. /\ State(t) /\ q \in Seq(Signal)
        /\ Scheduled(t) /\ Ending(t) /\ Finalizing(t, q) /\ Querying(t, q)
        /\ Asking(t, q) /\ Storing(t, q) /\ Previewed(t)
        /\ t.storage = "none" /\ ~ t.task /\ ~ t.monitoring /\ ~ t.history
        /\ ~ t.deferred /\ t.modal = "none" /\ Len(t.discards) = 1
    BY DEF Loose
  <1>2. /\ Head(t.discards) \in Preview /\ t.discards # <<>>
        /\ Tail(t.discards) = <<>>
    <2>1. t.discards \in Seq(Preview)
      BY <1>1 DEF State
    <2>2. Len(t.discards) = 1
      BY <1>1
    <2> QED BY <2>1, <2>2, OneWaits
  <1> DEFINE p == Head(t.discards)
             v == [t EXCEPT !.discards = Tail(@), !.previews[p] = "discarding"]
  <1>3. u = StorageStarts(v, "delete-discard", p)
    BY <1>0, <1>1, <1>2 DEF Drained
  <1>4. /\ DOMAIN v = Fields /\ Only(t, v, {"discards", "previews"})
        /\ v.discards = <<>>
        /\ v.previews = [t.previews EXCEPT ![p] = "discarding"]
    BY <1>1, <1>2 DEF State, Fields, Only
  <1> HIDE DEF v, p
  <1>5. /\ DOMAIN u = Fields
        /\ Only(v, u, {"storage", "subject", "storageThread"})
        /\ u.storage = "delete-discard" /\ u.subject = p
        /\ u.storageThread = "working"
    BY <1>3, <1>4 DEF Fields, Only, StorageStarts
  <1>6. /\ Only(t, u, {"storage", "subject", "storageThread", "discards",
                      "previews"})
        /\ u.storage = "delete-discard" /\ u.subject = p
        /\ u.storageThread = "working" /\ u.discards = <<>>
        /\ u.previews = [t.previews EXCEPT ![p] = "discarding"]
    BY <1>4, <1>5 DEF Only, Fields
  <1>7. State(u)
    <2>1. u.discards \in Seq(Preview)
      BY <1>6
    <2>2. /\ u.subject \in Preview \cup {NoPreview}
          /\ u.previews \in [Preview -> PreviewState]
      BY <1>1, <1>2, <1>6 DEF State, PreviewState, p
    <2>3. /\ u.storage \in StorageTasks \cup {"none"}
          /\ u.storageThread \in {"none", "working"}
      BY <1>6 DEF StorageTasks
    <2> QED BY <1>1, <1>5, <1>6, <2>1, <2>2, <2>3 DEF State, Only, Fields
  <1>8. Finalizing(u, q) /\ Querying(u, q) /\ Asking(u, q)
    BY <1>1, <1>6
       DEF Sound, Only, Fields, Finalizing, Querying, Asking, Quiet
  <1>9. Scheduled(u)
    BY <1>1, <1>2, <1>6, <1>7
       DEF Sound, Only, Fields, Scheduled, Available
  <1>10. Ending(u)
    BY <1>1, <1>2, <1>6, <1>7
       DEF Sound, Only, Fields, Ending, Working
  <1>11. Storing(u, q)
    BY <1>1, <1>2, <1>6, <1>7
       DEF Sound, Only, Fields, Storing
  <1>12. Exclusive(u)
    BY <1>1, <1>2, <1>6, <1>7
       DEF Sound, Only, Fields, Exclusive, StorageTasks
  <1>13. Previewed(u)
    <2>1. u.subject \in Preview /\ u.deferred = t.deferred
      BY <1>2, <1>6 DEF Only, Fields, p
    <2>2. ASSUME NEW x \in Preview
          PROVE  /\ u.previews[x] \notin {"offered", "queued", "deleting"}
                 /\ u.previews[x] = "discarding" => u.subject = x
      <3>1. CASE x = p
        BY <1>1, <1>6, <3>1 DEF State
      <3>2. CASE x # p
        <4>1. u.previews[x] = t.previews[x]
          BY <1>1, <1>6, <3>2 DEF State
        <4>2. t.discards # <<x>>
          BY <3>2 DEF p
        <4> QED BY <1>1, <4>1, <4>2 DEF Previewed
      <3> QED BY <3>1, <3>2
    <2> QED BY <1>1, <1>6, <2>1, <2>2 DEF Previewed, StorageTasks
  <1> QED BY <1>1, <1>7, <1>8, <1>9, <1>10, <1>11, <1>12, <1>13 DEF Fine, Sound

(* The queue of one preview.                                                *)
LEMMA OneQueued ==
    ASSUME NEW p \in Preview
    PROVE  /\ Append(<<>>, p) = <<p>> /\ <<p>> \in Seq(Preview)
           /\ Len(<<p>>) = 1
  OBVIOUS

(* The answer to the deletion question is no: the preview is to be given    *)
(* back.                                                                    *)
LEMMA GivenBack ==
    ASSUME NEW t, NEW q, Fine(t, q),
           t.modal = "confirm"
    PROVE  Loose(Queued([t EXCEPT !.modal = "none"], t.subject), q)
  <1>0. SUFFICES ASSUME NEW u,
                        u = Queued([t EXCEPT !.modal = "none"], t.subject)
                 PROVE  Loose(u, q)
    OBVIOUS
  <1>1. State(t) /\ q \in Seq(Signal) /\ Sound(t, q)
    BY DEF Fine
  <1>2. /\ t.subject \in Preview /\ t.discards = <<>> /\ ~ t.deferred
        /\ t.previews \in [Preview -> PreviewState]
        /\ ~ t.task /\ ~ t.monitoring /\ ~ t.history
        /\ t.modal = "confirm" /\ t.storage = "none"
    BY <1>1 DEF Sound, Previewed, Exclusive, Ending, State, StorageTasks
  <1> DEFINE p == t.subject
             v == [t EXCEPT !.modal = "none"]
  <1>3. /\ DOMAIN v = Fields /\ Only(t, v, {"modal"}) /\ v.modal = "none"
    BY <1>1 DEF State, Fields, Only
  <1>4. u = Queued(v, p)
    BY <1>0
  <1> HIDE DEF v
  <1>5. /\ DOMAIN u = Fields /\ Only(v, u, {"discards", "previews"})
        /\ u.discards = Append(v.discards, p)
        /\ u.previews = [v.previews EXCEPT ![p] = "queued"]
    BY <1>3, <1>4 DEF Fields, Only, Queued
  <1> HIDE DEF p
  <1>6. /\ Only(t, u, {"modal", "discards", "previews"})
        /\ u.modal = "none" /\ u.discards = <<p>>
        /\ u.previews = [t.previews EXCEPT ![p] = "queued"]
    <2>1. v.discards = <<>> /\ v.previews = t.previews
      BY <1>2, <1>3 DEF Only, Fields
    <2>2. u.discards = <<p>>
      BY <1>2, <1>5, <2>1, OneQueued DEF p
    <2>3. u.previews = [t.previews EXCEPT ![p] = "queued"]
      BY <1>5, <2>1
    <2>4. Only(t, u, {"modal", "discards", "previews"})
      BY <1>3, <1>5 DEF Only
    <2>5. u.modal = "none"
      BY <1>3, <1>5 DEF Only, Fields
    <2> QED BY <1>5, <2>2, <2>3, <2>4, <2>5
  <1>7. State(u)
    <2>1. u.discards \in Seq(Preview)
      BY <1>2, <1>6, OneQueued DEF p
    <2>2. u.previews \in [Preview -> PreviewState]
      BY <1>2, <1>6 DEF PreviewState, p
    <2>3. u.modal \in {"none", "input", "query", "storage", "confirm"}
      BY <1>1, <1>2, <1>6 DEF State, Only, Fields
    <2>4. u.storage \in StorageTasks \cup {"none"}
      BY <1>1, <1>2, <1>6 DEF State, Only, Fields
    <2> QED BY <1>1, <1>5, <1>6, <2>1, <2>2, <2>3, <2>4 DEF State, Only, Fields
  <1>8. Scheduled(u) /\ Finalizing(u, q) /\ Querying(u, q) /\ Asking(u, q) /\
        Storing(u, q)
    BY <1>1, <1>6
       DEF Sound, Only, Fields, Scheduled, Available, Finalizing, Querying,
           Asking, Quiet, Storing
  <1>9. Ending(u)
    BY <1>1, <1>2, <1>6, <1>7
       DEF Sound, Only, Fields, Ending, Working
  <1>10. Previewed(u)
    <2>1. /\ u.subject = p /\ p \in Preview /\ u.discards = <<p>>
          /\ u.storage = "none" /\ u.modal # "confirm"
      BY <1>2, <1>6 DEF Only, Fields, p
    <2>2. ASSUME NEW x \in Preview
          PROVE  /\ u.previews[x] \notin {"offered", "deleting", "discarding"}
                 /\ u.previews[x] = "queued" => x = p
      <3>1. CASE x = p
        BY <1>2, <1>6, <3>1
      <3>2. CASE x # p
        <4>1. u.previews[x] = t.previews[x]
          BY <1>2, <1>6, <3>2
        <4>2. Previewed(t) /\ x # t.subject
          BY <1>1, <3>2 DEF Sound, p
        <4>3. /\ t.previews[x] = "offered" =>
                     t.modal = "confirm" /\ t.subject = x
              /\ t.previews[x] = "queued" => t.discards = <<x>>
              /\ t.previews[x] = "deleting" => t.subject = x
              /\ t.previews[x] = "discarding" => t.subject = x
          BY <1>2, <4>2 DEF Previewed
        <4>4. <<x>> # <<>>
          OBVIOUS
        <4> QED BY <1>2, <4>1, <4>2, <4>3, <4>4
      <3> QED BY <3>1, <3>2
    <2> QED BY <2>1, <2>2 DEF Previewed, StorageTasks
  <1>L. /\ u.storage = "none" /\ ~ u.task /\ ~ u.monitoring /\ ~ u.history
        /\ ~ u.deferred /\ u.modal = "none" /\ Len(u.discards) = 1
    <2>1. Len(<<p>>) = 1
      BY <1>2, OneQueued DEF p
    <2> QED BY <1>2, <1>6, <2>1 DEF Only, Fields
  <1> QED BY <1>1, <1>7, <1>8, <1>9, <1>10, <1>L DEF Loose

(* A deletion failed in a window that shows no box: the preview is to be    *)
(* given back.                                                              *)
LEMMA PreviewReturned ==
    ASSUME NEW t, NEW q, Fine(t, q),
           t.storage \in {"delete-preview", "delete-commit"},
           q # <<>>, Head(q)[1] \in {"storage done", "storage failed"}
    PROVE  Loose(Queued([t EXCEPT !.storage = "none"], t.subject), Tail(q))
  <1>0. SUFFICES ASSUME NEW u,
                        u = Queued([t EXCEPT !.storage = "none"], t.subject)
                 PROVE  Loose(u, Tail(q))
    OBVIOUS
  <1>1. State(t) /\ q \in Seq(Signal) /\ Sound(t, q)
    BY DEF Fine
  <1>2. /\ t.subject \in Preview /\ t.discards = <<>> /\ ~ t.deferred
        /\ t.previews \in [Preview -> PreviewState]
        /\ ~ t.task /\ ~ t.monitoring /\ ~ t.history
        /\ t.modal = "none"
    BY <1>1 DEF Sound, Previewed, Exclusive, Ending, State, StorageTasks
  <1> DEFINE p == t.subject
             v == [t EXCEPT !.storage = "none"]
  <1>3. /\ DOMAIN v = Fields /\ Only(t, v, {"storage"}) /\ v.storage = "none"
    BY <1>1 DEF State, Fields, Only
  <1>4. u = Queued(v, p)
    BY <1>0
  <1> HIDE DEF v
  <1>5. /\ DOMAIN u = Fields /\ Only(v, u, {"discards", "previews"})
        /\ u.discards = Append(v.discards, p)
        /\ u.previews = [v.previews EXCEPT ![p] = "queued"]
    BY <1>3, <1>4 DEF Fields, Only, Queued
  <1> HIDE DEF p
  <1>6. /\ Only(t, u, {"storage", "discards", "previews"})
        /\ u.storage = "none" /\ u.discards = <<p>>
        /\ u.previews = [t.previews EXCEPT ![p] = "queued"]
    <2>1. v.discards = <<>> /\ v.previews = t.previews
      BY <1>2, <1>3 DEF Only, Fields
    <2>2. u.discards = <<p>>
      BY <1>2, <1>5, <2>1, OneQueued DEF p
    <2>3. u.previews = [t.previews EXCEPT ![p] = "queued"]
      BY <1>5, <2>1
    <2>4. Only(t, u, {"storage", "discards", "previews"})
      BY <1>3, <1>5 DEF Only
    <2>5. u.storage = "none"
      BY <1>3, <1>5 DEF Only, Fields
    <2> QED BY <1>5, <2>2, <2>3, <2>4, <2>5
  <1>7. State(u)
    <2>1. u.discards \in Seq(Preview)
      BY <1>2, <1>6, OneQueued DEF p
    <2>2. u.previews \in [Preview -> PreviewState]
      BY <1>2, <1>6 DEF PreviewState, p
    <2>3. u.modal \in {"none", "input", "query", "storage", "confirm"}
      BY <1>1, <1>2, <1>6 DEF State, Only, Fields
    <2>4. u.storage \in StorageTasks \cup {"none"}
      BY <1>1, <1>2, <1>6 DEF State, Only, Fields
    <2> QED BY ZenonT(30), <1>1, <1>5, <1>6, <2>1, <2>2, <2>3, <2>4
            DEF State, Only, Fields
  <1>8. Tail(q) \in Seq(Signal) /\ Passed(q, Tail(q), Head(q)[1])
    BY <1>1, Delivery
  <1>9. Scheduled(u)
    BY <1>1, <1>2, <1>6, <1>7
       DEF Sound, Only, Fields, Scheduled, Available
  <1>10. Ending(u)
    BY <1>1, <1>2, <1>6, <1>7
       DEF Sound, Only, Fields, Ending, Working
  <1>11. Finalizing(u, Tail(q))
    BY <1>1, <1>2, <1>6, <1>7, <1>8
       DEF Sound, Only, Fields, Passed, Same, Finalizing
  <1>12. Querying(u, Tail(q))
    BY <1>1, <1>2, <1>6, <1>7, <1>8, Fewer
       DEF Sound, Only, Fields, Passed, Same, Unspoken, Querying
  <1>13. Asking(u, Tail(q))
    BY <1>1, <1>2, <1>6, <1>7, <1>8, Fewer
       DEF Sound, Only, Fields, Passed, Same, Unspoken, Asking, Quiet
  <1>14. Storing(u, Tail(q))
    <2>1. /\ Absent(Tail(q), Stored) /\ t.storageThread = "none"
          /\ Same(q, Tail(q), {"history"})
      BY <1>1, <1>8 DEF Sound, Storing, Passed, State
    <2>2. Single(Tail(q), Stored)
      BY <2>1, Fewer
    <2>3. /\ u.storageThread = t.storageThread /\ u.history = t.history
          /\ u.historyThread = t.historyThread /\ u.deferred = t.deferred
      BY <1>6 DEF Only, Fields
    <2> QED BY <1>1, <2>1, <2>2, <2>3 DEF Sound, Storing, Same
  <1>15. Previewed(u)
    <2>1. /\ u.subject = p /\ p \in Preview /\ u.discards = <<p>>
          /\ u.storage = "none" /\ u.modal # "confirm"
      BY <1>2, <1>6 DEF Only, Fields, p
    <2>2. ASSUME NEW x \in Preview
          PROVE  /\ u.previews[x] \notin {"offered", "deleting", "discarding"}
                 /\ u.previews[x] = "queued" => x = p
      <3>1. CASE x = p
        BY <1>2, <1>6, <3>1
      <3>2. CASE x # p
        <4>1. u.previews[x] = t.previews[x]
          BY <1>2, <1>6, <3>2
        <4>2. Previewed(t) /\ x # t.subject
          BY <1>1, <3>2 DEF Sound, p
        <4>3. /\ t.previews[x] = "offered" =>
                     t.modal = "confirm" /\ t.subject = x
              /\ t.previews[x] = "queued" => t.discards = <<x>>
              /\ t.previews[x] = "deleting" => t.subject = x
              /\ t.previews[x] = "discarding" => t.subject = x
          BY <1>2, <4>2 DEF Previewed
        <4>4. <<x>> # <<>>
          OBVIOUS
        <4> QED BY <1>2, <4>1, <4>2, <4>3, <4>4
      <3> QED BY <3>1, <3>2
    <2> QED BY <2>1, <2>2 DEF Previewed, StorageTasks
  <1>L. /\ u.storage = "none" /\ ~ u.task /\ ~ u.monitoring /\ ~ u.history
        /\ ~ u.deferred /\ u.modal = "none" /\ Len(u.discards) = 1
    <2>1. Len(<<p>>) = 1
      BY <1>2, OneQueued DEF p
    <2> QED BY <1>2, <1>6, <2>1 DEF Only, Fields
  <1> QED BY <1>1, <1>7, <1>8, <1>9, <1>10, <1>11, <1>12, <1>13, <1>14, <1>15,
             <1>L DEF Loose

(* A deletion failed: the preview waits while the box about it is open.     *)
LEMMA DeletionFails ==
    ASSUME NEW t, NEW q, Fine(t, q),
           t.storage \in {"delete-preview", "delete-commit"},
           ~ t.closing,
           q # <<>>, Head(q)[1] \in {"storage done", "storage failed"}
    PROVE  Fine([Queued([t EXCEPT !.storage = "none"], t.subject)
                     EXCEPT !.modal = "storage"], Tail(q))
  <1>0. SUFFICES ASSUME NEW u,
                        u = [Queued([t EXCEPT !.storage = "none"], t.subject)
                                 EXCEPT !.modal = "storage"]
                 PROVE  Fine(u, Tail(q))
    OBVIOUS
  <1>1. State(t) /\ q \in Seq(Signal) /\ Sound(t, q)
    BY DEF Fine
  <1>2. /\ t.subject \in Preview /\ t.discards = <<>> /\ ~ t.deferred
        /\ t.previews \in [Preview -> PreviewState]
        /\ ~ t.task /\ ~ t.monitoring /\ ~ t.history
        /\ t.modal = "none"
    BY <1>1 DEF Sound, Previewed, Exclusive, Ending, State, StorageTasks
  <1> DEFINE p == t.subject
             v == [t EXCEPT !.storage = "none"]
  <1>3. /\ DOMAIN v = Fields /\ Only(t, v, {"storage"}) /\ v.storage = "none"
    BY <1>1 DEF State, Fields, Only
  <1>4. u = [Queued(v, p) EXCEPT !.modal = "storage"]
    BY <1>0
  <1> HIDE DEF v
  <1>5. /\ DOMAIN u = Fields
        /\ Only(v, u, {"discards", "previews", "modal"})
        /\ u.discards = Append(v.discards, p) /\ u.modal = "storage"
        /\ u.previews = [v.previews EXCEPT ![p] = "queued"]
    BY <1>3, <1>4 DEF Fields, Only, Queued
  <1> HIDE DEF p
  <1>6. /\ Only(t, u, {"storage", "discards", "previews",
                      "modal"})
        /\ u.storage = "none" /\ u.discards = <<p>> /\ u.modal = "storage"
        /\ u.previews = [t.previews EXCEPT ![p] = "queued"]
    <2>1. v.discards = <<>> /\ v.previews = t.previews
      BY <1>2, <1>3 DEF Only, Fields
    <2>2. u.discards = <<p>>
      BY <1>2, <1>5, <2>1, OneQueued DEF p
    <2>3. u.previews = [t.previews EXCEPT ![p] = "queued"]
      BY <1>5, <2>1
    <2>4. Only(t, u, {"storage", "discards", "previews",
                      "modal"})
      BY <1>3, <1>5 DEF Only
    <2>5. u.storage = "none"
      BY <1>3, <1>5 DEF Only, Fields
    <2> QED BY <1>5, <2>2, <2>3, <2>4, <2>5
  <1>7. State(u)
    <2>1. u.discards \in Seq(Preview)
      BY <1>2, <1>6, OneQueued DEF p
    <2>2. u.previews \in [Preview -> PreviewState]
      BY <1>2, <1>6 DEF PreviewState, p
    <2>3. u.modal \in {"none", "input", "query", "storage", "confirm"}
      BY <1>1, <1>2, <1>6 DEF State, Only, Fields
    <2>4. u.storage \in StorageTasks \cup {"none"}
      BY <1>1, <1>2, <1>6 DEF State, Only, Fields
    <2> QED BY ZenonT(30), <1>1, <1>5, <1>6, <2>1, <2>2, <2>3, <2>4
            DEF State, Only, Fields
  <1>8. Tail(q) \in Seq(Signal) /\ Passed(q, Tail(q), Head(q)[1])
    BY <1>1, Delivery
  <1>9. Scheduled(u)
    BY <1>1, <1>2, <1>6, <1>7
       DEF Sound, Only, Fields, Scheduled, Available
  <1>10. Ending(u)
    BY <1>1, <1>2, <1>6, <1>7
       DEF Sound, Only, Fields, Ending, Working
  <1>11. Finalizing(u, Tail(q))
    BY <1>1, <1>2, <1>6, <1>7, <1>8
       DEF Sound, Only, Fields, Passed, Same, Finalizing
  <1>12. Querying(u, Tail(q))
    BY <1>1, <1>2, <1>6, <1>7, <1>8, Fewer
       DEF Sound, Only, Fields, Passed, Same, Unspoken, Querying
  <1>13. Asking(u, Tail(q))
    BY <1>1, <1>2, <1>6, <1>7, <1>8, Fewer
       DEF Sound, Only, Fields, Passed, Same, Unspoken, Asking, Quiet
  <1>14. Storing(u, Tail(q))
    <2>1. /\ Absent(Tail(q), Stored) /\ t.storageThread = "none"
          /\ Same(q, Tail(q), {"history"})
      BY <1>1, <1>8 DEF Sound, Storing, Passed, State
    <2>2. Single(Tail(q), Stored)
      BY <2>1, Fewer
    <2>3. /\ u.storageThread = t.storageThread /\ u.history = t.history
          /\ u.historyThread = t.historyThread /\ u.deferred = t.deferred
      BY <1>6 DEF Only, Fields
    <2> QED BY <1>1, <2>1, <2>2, <2>3 DEF Sound, Storing, Same
  <1>15. Exclusive(u)
    BY <1>1, <1>2, <1>6, <1>7
       DEF Sound, Only, Fields, Exclusive, StorageTasks
  <1>16. Previewed(u)
    <2>1. /\ u.subject = p /\ p \in Preview /\ u.discards = <<p>>
          /\ u.storage = "none" /\ u.modal # "confirm"
      BY <1>2, <1>6 DEF Only, Fields, p
    <2>2. ASSUME NEW x \in Preview
          PROVE  /\ u.previews[x] \notin {"offered", "deleting", "discarding"}
                 /\ u.previews[x] = "queued" => x = p
      <3>1. CASE x = p
        BY <1>2, <1>6, <3>1
      <3>2. CASE x # p
        <4>1. u.previews[x] = t.previews[x]
          BY <1>2, <1>6, <3>2
        <4>2. Previewed(t) /\ x # t.subject
          BY <1>1, <3>2 DEF Sound, p
        <4>3. /\ t.previews[x] = "offered" =>
                     t.modal = "confirm" /\ t.subject = x
              /\ t.previews[x] = "queued" => t.discards = <<x>>
              /\ t.previews[x] = "deleting" => t.subject = x
              /\ t.previews[x] = "discarding" => t.subject = x
          BY <1>2, <4>2 DEF Previewed
        <4>4. <<x>> # <<>>
          OBVIOUS
        <4> QED BY <1>2, <4>1, <4>2, <4>3, <4>4
      <3> QED BY <3>1, <3>2
    <2> QED BY <2>1, <2>2 DEF Previewed, StorageTasks
  <1> QED BY <1>1, <1>7, <1>8, <1>9, <1>10, <1>11, <1>12, <1>13, <1>14, <1>15,
             <1>16 DEF Fine, Sound

(* The box about a failed deletion is closed.                               *)
LEMMA BoxClosed ==
    ASSUME NEW t, NEW q, Fine(t, q),
           t.modal = "storage",
           t.discards # <<>>
    PROVE  Loose([t EXCEPT !.modal = "none"], q)
  <1>0. SUFFICES ASSUME NEW u, u = [t EXCEPT !.modal = "none"]
        PROVE  Loose(u, q)
    OBVIOUS
  <1>1. State(t) /\ q \in Seq(Signal) /\ Sound(t, q)
    BY DEF Fine
  <1>2. /\ DOMAIN u = Fields
        /\ Only(t, u, {"modal"})
    BY <1>0, <1>1 DEF State, Fields, Only
  <1>3. u.modal = "none"
    BY <1>0, <1>1 DEF State, Fields
  <1>4. State(u)
    BY <1>1, <1>2, <1>3
       DEF State, Only, Fields, QueryState, Quiet, StorageTasks, PreviewState
  <1>5. Scheduled(u) /\ Finalizing(u, q) /\ Querying(u, q) /\ Asking(u, q) /\
        Storing(u, q)
    BY <1>1, <1>2
       DEF Sound, Only, Fields, Scheduled, Available, Finalizing, Querying,
           Asking, Quiet, Storing
  <1>6. Ending(u)
    BY <1>1, <1>2, <1>3, <1>4
       DEF Sound, Only, Fields, Ending, Working
  <1>7. Previewed(u)
    BY <1>1, <1>2, <1>3, <1>4
       DEF Sound, Only, Fields, Previewed, StorageTasks
  <1>L. /\ u.storage = "none" /\ ~ u.task /\ ~ u.monitoring /\ ~ u.history
        /\ ~ u.deferred /\ u.modal = "none" /\ Len(u.discards) = 1
    BY <1>1, <1>2, <1>3 DEF Sound, Exclusive, Ending, Only, Fields, State
  <1> QED BY <1>1, <1>4, <1>5, <1>6, <1>7, <1>L DEF Loose

(* Another box is closed.                                                   *)
LEMMA BoxClosedFine ==
    ASSUME NEW t, NEW q, Fine(t, q),
           \/ t.modal \in {"input", "query"}
           \/ t.modal = "storage" /\ t.discards = <<>>
    PROVE  Fine([t EXCEPT !.modal = "none"], q)
  <1>0. SUFFICES ASSUME NEW u, u = [t EXCEPT !.modal = "none"]
        PROVE  Fine(u, q)
    OBVIOUS
  <1>1. State(t) /\ q \in Seq(Signal) /\ Sound(t, q)
    BY DEF Fine
  <1>2. /\ DOMAIN u = Fields
        /\ Only(t, u, {"modal"})
    BY <1>0, <1>1 DEF State, Fields, Only
  <1>3. u.modal = "none"
    BY <1>0, <1>1 DEF State, Fields
  <1>4. State(u)
    BY <1>1, <1>2, <1>3
       DEF State, Only, Fields, QueryState, Quiet, StorageTasks, PreviewState
  <1>5. Scheduled(u) /\ Finalizing(u, q) /\ Querying(u, q) /\ Asking(u, q) /\
        Storing(u, q)
    BY <1>1, <1>2
       DEF Sound, Only, Fields, Scheduled, Available, Finalizing, Querying,
           Asking, Quiet, Storing
  <1>6. Ending(u)
    BY <1>1, <1>2, <1>3, <1>4
       DEF Sound, Only, Fields, Ending, Working
  <1>7. Exclusive(u)
    BY <1>1, <1>2, <1>3, <1>4
       DEF Sound, Only, Fields, Exclusive, StorageTasks
  <1>8. Previewed(u)
    BY <1>1, <1>2, <1>3, <1>4
       DEF Sound, Only, Fields, Previewed, StorageTasks
  <1> QED BY <1>1, <1>4, <1>5, <1>6, <1>7, <1>8 DEF Fine, Sound

(* An export, or a preview that is not offered, leaves no storage task      *)
(* behind.                                                                  *)
LEMMA StorageLeaves ==
    ASSUME NEW t, NEW q, Fine(t, q),
           t.storage \in {"export", "delete-preview"},
           q # <<>>, Head(q)[1] \in {"storage done", "storage failed"}
    PROVE  Fine([t EXCEPT !.storage = "none"], Tail(q))
  <1>0. SUFFICES ASSUME NEW u, u = [t EXCEPT !.storage = "none"]
        PROVE  Fine(u, Tail(q))
    OBVIOUS
  <1>1. State(t) /\ q \in Seq(Signal) /\ Sound(t, q)
    BY DEF Fine
  <1>2. /\ DOMAIN u = Fields
        /\ Only(t, u, {"storage"})
    BY <1>0, <1>1 DEF State, Fields, Only
  <1>3. u.storage = "none"
    BY <1>0, <1>1 DEF State, Fields
  <1>4. State(u)
    BY ZenonT(30), <1>1, <1>2, <1>3
       DEF State, Only, Fields, QueryState, Quiet, StorageTasks, PreviewState
  <1>5. Tail(q) \in Seq(Signal) /\ Passed(q, Tail(q), Head(q)[1])
    BY <1>1, Delivery
  <1>6. Scheduled(u)
    BY <1>1, <1>2, <1>3, <1>4
       DEF Sound, Only, Fields, Scheduled, Available
  <1>7. Ending(u)
    BY <1>1, <1>2, <1>3, <1>4
       DEF Sound, Only, Fields, Ending, Working
  <1>8. Finalizing(u, Tail(q))
    BY <1>1, <1>2, <1>3, <1>4, <1>5
       DEF Sound, Only, Fields, Passed, Same, Finalizing
  <1>9. Querying(u, Tail(q))
    BY <1>1, <1>2, <1>3, <1>4, <1>5, Fewer
       DEF Sound, Only, Fields, Passed, Same, Unspoken, Querying
  <1>10. Asking(u, Tail(q))
    BY <1>1, <1>2, <1>3, <1>4, <1>5, Fewer
       DEF Sound, Only, Fields, Passed, Same, Unspoken, Asking, Quiet
  <1>11. Storing(u, Tail(q))
    <2>1. /\ Absent(Tail(q), Stored) /\ t.storageThread = "none"
          /\ Same(q, Tail(q), {"history"})
      BY <1>1, <1>5 DEF Sound, Storing, Passed, State
    <2>2. Single(Tail(q), Stored)
      BY <2>1, Fewer
    <2>3. /\ u.storageThread = t.storageThread /\ u.history = t.history
          /\ u.historyThread = t.historyThread /\ u.deferred = t.deferred
      BY <1>2 DEF Only, Fields
    <2> QED BY <1>1, <2>1, <2>2, <2>3 DEF Sound, Storing, Same
  <1>12. Exclusive(u)
    BY <1>1, <1>2, <1>3, <1>4
       DEF Sound, Only, Fields, Exclusive, StorageTasks
  <1>13. Previewed(u)
    <2>1. /\ t.modal = "none" /\ u.modal = "none" /\ u.discards = t.discards
          /\ u.previews = t.previews /\ u.deferred = t.deferred
          /\ Previewed(t)
      BY <1>1, <1>2 DEF Sound, Exclusive, Only, Fields
    <2> QED BY <1>3, <2>1 DEF Previewed, StorageTasks
  <1> QED BY <1>1, <1>4, <1>5, <1>6, <1>7, <1>8, <1>9, <1>10, <1>11, <1>12,
             <1>13 DEF Fine, Sound

(* A box about a storage task that is over.                                 *)
LEMMA BoxShown ==
    ASSUME NEW t, NEW q, Fine(t, q),
           t.storage = "none",
           ~ t.closing,
           t.modal = "none",
           ~ t.task,
           ~ t.monitoring,
           ~ t.history
    PROVE  Fine([t EXCEPT !.modal = "storage"], q)
  <1>0. SUFFICES ASSUME NEW u, u = [t EXCEPT !.modal = "storage"]
        PROVE  Fine(u, q)
    OBVIOUS
  <1>1. State(t) /\ q \in Seq(Signal) /\ Sound(t, q)
    BY DEF Fine
  <1>2. /\ DOMAIN u = Fields
        /\ Only(t, u, {"modal"})
    BY <1>0, <1>1 DEF State, Fields, Only
  <1>3. u.modal = "storage"
    BY <1>0, <1>1 DEF State, Fields
  <1>4. State(u)
    BY <1>1, <1>2, <1>3
       DEF State, Only, Fields, QueryState, Quiet, StorageTasks, PreviewState
  <1>5. Scheduled(u) /\ Finalizing(u, q) /\ Querying(u, q) /\ Asking(u, q) /\
        Storing(u, q)
    BY <1>1, <1>2
       DEF Sound, Only, Fields, Scheduled, Available, Finalizing, Querying,
           Asking, Quiet, Storing
  <1>6. Ending(u)
    BY <1>1, <1>2, <1>3, <1>4
       DEF Sound, Only, Fields, Ending, Working
  <1>7. Exclusive(u)
    BY <1>1, <1>2, <1>3, <1>4
       DEF Sound, Only, Fields, Exclusive, StorageTasks
  <1>8. Previewed(u)
    BY <1>1, <1>2, <1>3, <1>4
       DEF Sound, Only, Fields, Previewed, StorageTasks
  <1> QED BY <1>1, <1>4, <1>5, <1>6, <1>7, <1>8 DEF Fine, Sound

(* A preview is there: the deletion question is put                         *)
(* (_delete_preview_ready).                                                 *)
LEMMA PreviewOffered ==
    ASSUME NEW t, NEW q, Fine(t, q),
           t.storage = "delete-preview",
           ~ t.closing,
           q # <<>>, Head(q)[1] \in {"storage done", "storage failed"}
    PROVE  Fine([[t EXCEPT !.storage = "none"] EXCEPT
                   !.modal = "confirm", !.previews[t.subject] = "offered"],
                Tail(q))
  <1>0. SUFFICES ASSUME NEW u,
                        u = [[t EXCEPT !.storage = "none"] EXCEPT
                                 !.modal = "confirm",
                                 !.previews[t.subject] = "offered"]
                 PROVE  Fine(u, Tail(q))
    OBVIOUS
  <1>1. State(t) /\ q \in Seq(Signal) /\ Sound(t, q)
    BY DEF Fine
  <1>2. /\ DOMAIN u = Fields
        /\ Only(t, u, {"storage", "modal", "previews"})
    BY <1>0, <1>1 DEF State, Fields, Only
  <1>3. /\ u.storage = "none" /\ u.modal = "confirm"
        /\ u.previews = [t.previews EXCEPT ![t.subject] = "offered"]
    BY <1>0, <1>1 DEF State, Fields
  <1>4. State(u)
    <2>1. /\ u.storage \in StorageTasks \cup {"none"}
          /\ u.modal \in {"none", "input", "query", "storage", "confirm"}
      BY <1>1, <1>3 DEF State, QueryState, Quiet, StorageTasks
    <2>2. u.previews \in [Preview -> PreviewState]
      BY ZenonT(30), <1>1, <1>3 DEF State, PreviewState
    <2> QED BY ZenonT(30), <1>1, <1>2, <2>1, <2>2 DEF State, Only, Fields
  <1>5. Tail(q) \in Seq(Signal) /\ Passed(q, Tail(q), Head(q)[1])
    BY <1>1, Delivery
  <1>6. Scheduled(u)
    BY <1>1, <1>2, <1>3, <1>4
       DEF Sound, Only, Fields, Scheduled, Available
  <1>7. Ending(u)
    BY <1>1, <1>2, <1>3, <1>4
       DEF Sound, Only, Fields, Ending, Working
  <1>8. Finalizing(u, Tail(q))
    BY <1>1, <1>2, <1>3, <1>4, <1>5
       DEF Sound, Only, Fields, Passed, Same, Finalizing
  <1>9. Querying(u, Tail(q))
    BY <1>1, <1>2, <1>3, <1>4, <1>5, Fewer
       DEF Sound, Only, Fields, Passed, Same, Unspoken, Querying
  <1>10. Asking(u, Tail(q))
    BY <1>1, <1>2, <1>3, <1>4, <1>5, Fewer
       DEF Sound, Only, Fields, Passed, Same, Unspoken, Asking, Quiet
  <1>11. Storing(u, Tail(q))
    <2>1. /\ Absent(Tail(q), Stored) /\ t.storageThread = "none"
          /\ Same(q, Tail(q), {"history"})
      BY <1>1, <1>5 DEF Sound, Storing, Passed, State
    <2>2. Single(Tail(q), Stored)
      BY <2>1, Fewer
    <2>3. /\ u.storageThread = t.storageThread /\ u.history = t.history
          /\ u.historyThread = t.historyThread /\ u.deferred = t.deferred
      BY <1>2 DEF Only, Fields
    <2> QED BY <1>1, <2>1, <2>2, <2>3 DEF Sound, Storing, Same
  <1>12. Exclusive(u)
    BY <1>1, <1>2, <1>3, <1>4
       DEF Sound, Only, Fields, Exclusive, StorageTasks
  <1>13. Previewed(u)
    <2>1. /\ t.subject \in Preview /\ u.subject = t.subject
          /\ t.modal = "none" /\ t.deferred = FALSE /\ u.deferred = FALSE
          /\ t.discards = <<>> /\ Previewed(t)
          /\ t.previews \in [Preview -> PreviewState]
      BY ZenonT(30), <1>1, <1>2
      DEF Sound, Previewed, Exclusive, Ending, StorageTasks,
                        State, Only, Fields
    <2>2. ASSUME NEW x \in Preview, x # t.subject
          PROVE  u.previews[x] \in {"none", "settled"}
      <3>1. u.previews[x] = t.previews[x] /\ t.previews[x] \in PreviewState
        BY <1>3, <2>1, <2>2
      <3>2. /\ t.previews[x] = "offered" => t.subject = x
            /\ t.previews[x] = "queued" => t.discards = <<x>>
            /\ t.previews[x] = "deleting" => t.subject = x
            /\ t.previews[x] = "discarding" => t.subject = x
        BY <2>1, <2>2 DEF Previewed
      <3>3. <<x>> # <<>>
        OBVIOUS
      <3> QED BY <2>1, <2>2, <3>1, <3>2, <3>3 DEF PreviewState
    <2>3. u.previews[t.subject] = "offered"
      BY <1>3, <2>1
    <2>4. ASSUME NEW x \in Preview, u.previews[x] \notin {"none", "settled"}
          PROVE  x = u.subject /\ u.previews[x] = "offered"
      BY <2>1, <2>2, <2>3, <2>4
    <2> QED BY <1>3, <2>1, <2>4 DEF Previewed, StorageTasks
  <1> QED BY <1>1, <1>4, <1>5, <1>6, <1>7, <1>8, <1>9, <1>10, <1>11, <1>12,
             <1>13 DEF Fine, Sound

(* A deletion committed, or a preview given back, is settled.               *)
LEMMA Settling ==
    ASSUME NEW t, NEW q, Fine(t, q),
           t.storage \in {"delete-commit", "delete-discard"},
           q # <<>>, Head(q)[1] \in {"storage done", "storage failed"}
    PROVE  Fine([[t EXCEPT !.storage = "none"] EXCEPT
                   !.previews[t.subject] = "settled"], Tail(q))
  <1>0. SUFFICES ASSUME NEW u,
                        u = [[t EXCEPT !.storage = "none"] EXCEPT
                                 !.previews[t.subject] = "settled"]
                 PROVE  Fine(u, Tail(q))
    OBVIOUS
  <1>1. State(t) /\ q \in Seq(Signal) /\ Sound(t, q)
    BY DEF Fine
  <1>2. /\ DOMAIN u = Fields
        /\ Only(t, u, {"storage", "previews"})
    BY <1>0, <1>1 DEF State, Fields, Only
  <1>3. /\ u.storage = "none"
        /\ u.previews = [t.previews EXCEPT ![t.subject] = "settled"]
    BY <1>0, <1>1 DEF State, Fields
  <1>4. State(u)
    <2>1. u.storage \in StorageTasks \cup {"none"}
      BY <1>1, <1>3 DEF State, QueryState, Quiet, StorageTasks
    <2>2. u.previews \in [Preview -> PreviewState]
      BY <1>1, <1>3 DEF State, PreviewState
    <2> QED BY ZenonT(30), <1>1, <1>2, <2>1, <2>2 DEF State, Only, Fields
  <1>5. Tail(q) \in Seq(Signal) /\ Passed(q, Tail(q), Head(q)[1])
    BY <1>1, Delivery
  <1>6. Scheduled(u)
    BY <1>1, <1>2, <1>3, <1>4
       DEF Sound, Only, Fields, Scheduled, Available
  <1>7. Ending(u)
    BY <1>1, <1>2, <1>3, <1>4
       DEF Sound, Only, Fields, Ending, Working
  <1>8. Finalizing(u, Tail(q))
    BY <1>1, <1>2, <1>3, <1>4, <1>5
       DEF Sound, Only, Fields, Passed, Same, Finalizing
  <1>9. Querying(u, Tail(q))
    BY <1>1, <1>2, <1>3, <1>4, <1>5, Fewer
       DEF Sound, Only, Fields, Passed, Same, Unspoken, Querying
  <1>10. Asking(u, Tail(q))
    BY <1>1, <1>2, <1>3, <1>4, <1>5, Fewer
       DEF Sound, Only, Fields, Passed, Same, Unspoken, Asking, Quiet
  <1>11. Storing(u, Tail(q))
    <2>1. /\ Absent(Tail(q), Stored) /\ t.storageThread = "none"
          /\ Same(q, Tail(q), {"history"})
      BY <1>1, <1>5 DEF Sound, Storing, Passed, State
    <2>2. Single(Tail(q), Stored)
      BY <2>1, Fewer
    <2>3. /\ u.storageThread = t.storageThread /\ u.history = t.history
          /\ u.historyThread = t.historyThread /\ u.deferred = t.deferred
      BY <1>2 DEF Only, Fields
    <2> QED BY <1>1, <2>1, <2>2, <2>3 DEF Sound, Storing, Same
  <1>12. Exclusive(u)
    BY <1>1, <1>2, <1>3, <1>4
       DEF Sound, Only, Fields, Exclusive, StorageTasks
  <1>13. Previewed(u)
    <2>1. /\ t.subject \in Preview /\ u.subject = t.subject
          /\ t.modal = "none" /\ t.deferred = FALSE /\ u.deferred = FALSE
          /\ t.discards = <<>> /\ Previewed(t)
          /\ t.previews \in [Preview -> PreviewState]
      BY <1>1, <1>2 DEF Sound, Previewed, Exclusive, Ending, StorageTasks,
                        State, Only, Fields
    <2>2. ASSUME NEW x \in Preview, x # t.subject
          PROVE  u.previews[x] \in {"none", "settled"}
      <3>1. u.previews[x] = t.previews[x] /\ t.previews[x] \in PreviewState
        BY <1>3, <2>1, <2>2
      <3>2. /\ t.previews[x] = "offered" => t.subject = x
            /\ t.previews[x] = "queued" => t.discards = <<x>>
            /\ t.previews[x] = "deleting" => t.subject = x
            /\ t.previews[x] = "discarding" => t.subject = x
        BY <2>1, <2>2 DEF Previewed
      <3>3. <<x>> # <<>>
        OBVIOUS
      <3> QED BY <2>1, <2>2, <3>1, <3>2, <3>3 DEF PreviewState
    <2>3. u.previews[t.subject] = "settled"
      BY <1>3, <2>1
    <2>4. ASSUME NEW x \in Preview
          PROVE  u.previews[x] \in {"none", "settled"}
      BY <2>1, <2>2, <2>3
    <2>5. u.modal = "none" /\ u.storage = "none"
      BY <1>2, <1>3, <2>1 DEF Only, Fields
    <2> QED BY <2>4, <2>5 DEF Previewed, StorageTasks
  <1> QED BY <1>1, <1>4, <1>5, <1>6, <1>7, <1>8, <1>9, <1>10, <1>11, <1>12,
             <1>13 DEF Fine, Sound

(* The reader of the history has delivered.                                 *)
LEMMA HistoryLeaves ==
    ASSUME NEW t, NEW q, Fine(t, q),
           t.history,
           q # <<>>, Head(q)[1] = "history"
    PROVE  Fine([t EXCEPT !.history = FALSE], Tail(q))
  <1>0. SUFFICES ASSUME NEW u, u = [t EXCEPT !.history = FALSE]
        PROVE  Fine(u, Tail(q))
    OBVIOUS
  <1>1. State(t) /\ q \in Seq(Signal) /\ Sound(t, q)
    BY DEF Fine
  <1>2. /\ DOMAIN u = Fields
        /\ Only(t, u, {"history"})
    BY <1>0, <1>1 DEF State, Fields, Only
  <1>3. u.history = FALSE
    BY <1>0, <1>1 DEF State, Fields
  <1>4. State(u)
    BY ZenonT(30), <1>1, <1>2, <1>3
       DEF State, Only, Fields, QueryState, Quiet, StorageTasks, PreviewState
  <1>5. Tail(q) \in Seq(Signal) /\ Passed(q, Tail(q), Head(q)[1])
    BY <1>1, Delivery
  <1>6. Scheduled(u)
    BY <1>1, <1>2, <1>3, <1>4
       DEF Sound, Only, Fields, Scheduled, Available
  <1>7. Ending(u)
    BY <1>1, <1>2, <1>3, <1>4
       DEF Sound, Only, Fields, Ending, Working
  <1>8. Finalizing(u, Tail(q))
    BY <1>1, <1>2, <1>3, <1>4, <1>5
       DEF Sound, Only, Fields, Passed, Same, Finalizing
  <1>9. Querying(u, Tail(q))
    BY <1>1, <1>2, <1>3, <1>4, <1>5, Fewer
       DEF Sound, Only, Fields, Passed, Same, Unspoken, Querying
  <1>10. Asking(u, Tail(q))
    BY <1>1, <1>2, <1>3, <1>4, <1>5, Fewer
       DEF Sound, Only, Fields, Passed, Same, Unspoken, Asking, Quiet
  <1>11. Storing(u, Tail(q))
    <2>1. /\ Absent(Tail(q), {"history"}) /\ t.historyThread = "none"
          /\ Same(q, Tail(q), Stored)
      BY <1>1, <1>5 DEF Sound, Storing, Passed, State
    <2>2. Single(Tail(q), {"history"})
      BY <2>1, Fewer
    <2>3. /\ u.storageThread = t.storageThread /\ u.storage = t.storage
          /\ u.historyThread = t.historyThread /\ u.deferred = t.deferred
      BY <1>2 DEF Only, Fields
    <2> QED BY <1>1, <2>1, <2>2, <2>3 DEF Sound, Storing, Same
  <1>12. Exclusive(u)
    BY <1>1, <1>2, <1>3, <1>4
       DEF Sound, Only, Fields, Exclusive, StorageTasks
  <1>13. Previewed(u)
    <2>1. /\ u.storage = t.storage /\ u.modal = t.modal
          /\ u.subject = t.subject /\ u.deferred = t.deferred
          /\ u.previews = t.previews /\ u.discards = t.discards
      BY <1>2 DEF Only, Fields
    <2>2. Previewed(t)
      BY <1>1 DEF Sound
    <2> QED BY <2>1, <2>2, PreviewsStay, Zenon
  <1> QED BY <1>1, <1>4, <1>5, <1>6, <1>7, <1>8, <1>9, <1>10, <1>11, <1>12,
             <1>13 DEF Fine, Sound

(* A box about the outcome of the query.                                    *)
LEMMA QueryShown ==
    ASSUME NEW t, NEW q, Fine(t, q),
           t.task,
           ~ t.closing
    PROVE  Fine([t EXCEPT !.modal = "query"], q)
  <1>0. SUFFICES ASSUME NEW u, u = [t EXCEPT !.modal = "query"]
        PROVE  Fine(u, q)
    OBVIOUS
  <1>1. State(t) /\ q \in Seq(Signal) /\ Sound(t, q)
    BY DEF Fine
  <1>2. /\ DOMAIN u = Fields
        /\ Only(t, u, {"modal"})
    BY <1>0, <1>1 DEF State, Fields, Only
  <1>3. u.modal = "query"
    BY <1>0, <1>1 DEF State, Fields
  <1>4. State(u)
    BY ZenonT(30), <1>1, <1>2, <1>3
       DEF State, Only, Fields, QueryState, Quiet, StorageTasks, PreviewState
  <1>5. Scheduled(u) /\ Finalizing(u, q) /\ Querying(u, q) /\ Asking(u, q) /\
        Storing(u, q)
    BY <1>1, <1>2
       DEF Sound, Only, Fields, Scheduled, Available, Finalizing, Querying,
           Asking, Quiet, Storing
  <1>6. Ending(u)
    BY <1>1, <1>2, <1>3, <1>4
       DEF Sound, Only, Fields, Ending, Working, Exclusive, StorageTasks
  <1>7. Exclusive(u)
    BY <1>1, <1>2, <1>3, <1>4
       DEF Sound, Only, Fields, Exclusive, StorageTasks
  <1>8. Previewed(u)
    BY <1>1, <1>2, <1>3, <1>4
       DEF Sound, Only, Fields, Previewed, StorageTasks, Exclusive
  <1> QED BY <1>1, <1>4, <1>5, <1>6, <1>7, <1>8 DEF Fine, Sound

(* The dialog is told that its question is over.                            *)
LEMMA DismissedFine ==
    ASSUME NEW t, NEW q, Fine(t, q),
           q # <<>>, Head(q)[1] = "dismiss"
    PROVE  Fine(Dismissed(t), Tail(q))
  <1>0. SUFFICES ASSUME NEW u, u = Dismissed(t)
        PROVE  Fine(u, Tail(q))
    OBVIOUS
  <1>1. State(t) /\ q \in Seq(Signal) /\ Sound(t, q)
    BY DEF Fine
  <1>2. /\ DOMAIN u = Fields
        /\ Only(t, u, {"dialog"})
    BY <1>0, <1>1 DEF State, Fields, Only, Dismissed
  <1>3. u.dialog = "none"
    BY <1>0, <1>1 DEF State, Fields, Dismissed
  <1>4. State(u)
    BY <1>1, <1>2, <1>3
       DEF State, Only, Fields, QueryState, Quiet, StorageTasks, PreviewState
  <1>5. Tail(q) \in Seq(Signal) /\ Passed(q, Tail(q), Head(q)[1])
    BY <1>1, Delivery
  <1>6. Scheduled(u) /\ Ending(u) /\ Exclusive(u) /\ Previewed(u)
    BY <1>1, <1>2
       DEF Sound, Only, Fields, Scheduled, Available, Ending, Working,
           Exclusive, StorageTasks, Previewed
  <1>7. Finalizing(u, Tail(q)) /\ Storing(u, Tail(q))
    BY ZenonT(30), <1>1, <1>2, <1>5
       DEF Sound, Only, Fields, Passed, Same, Finalizing, Storing
  <1>8. Querying(u, Tail(q))
    BY <1>1, <1>2, <1>3, <1>4, <1>5, Fewer
       DEF Sound, Only, Fields, Passed, Same, Unspoken, Querying
  <1>9. Asking(u, Tail(q))
    BY <1>1, <1>2, <1>3, <1>4, <1>5, Fewer
       DEF Sound, Only, Fields, Passed, Same, Unspoken, Asking, Quiet
  <1> QED BY <1>1, <1>4, <1>5, <1>6, <1>7, <1>8, <1>9 DEF Fine, Sound

(* The dialog of a pending request is made.                                 *)
LEMMA RequestMade ==
    ASSUME NEW t, NEW q, Fine(t, q),
           t.pending,
           q # <<>>, Head(q)[1] = "request"
    PROVE  Fine([t EXCEPT !.dialog = "made"], Tail(q))
  <1>0. SUFFICES ASSUME NEW u, u = [t EXCEPT !.dialog = "made"]
        PROVE  Fine(u, Tail(q))
    OBVIOUS
  <1>1. State(t) /\ q \in Seq(Signal) /\ Sound(t, q)
    BY DEF Fine
  <1>2. /\ DOMAIN u = Fields
        /\ Only(t, u, {"dialog"})
    BY <1>0, <1>1 DEF State, Fields, Only
  <1>3. u.dialog = "made"
    BY <1>0, <1>1 DEF State, Fields
  <1>4. State(u)
    BY ZenonT(30), <1>1, <1>2, <1>3
       DEF State, Only, Fields, QueryState, Quiet, StorageTasks, PreviewState
  <1>5. Tail(q) \in Seq(Signal) /\ Passed(q, Tail(q), Head(q)[1])
    BY <1>1, Delivery
  <1>6. Scheduled(u) /\ Ending(u) /\ Exclusive(u) /\ Previewed(u)
    BY <1>1, <1>2
       DEF Sound, Only, Fields, Scheduled, Available, Ending, Working,
           Exclusive, StorageTasks, Previewed
  <1>7. Finalizing(u, Tail(q)) /\ Storing(u, Tail(q))
    BY ZenonT(30), <1>1, <1>2, <1>5
       DEF Sound, Only, Fields, Passed, Same, Finalizing, Storing
  <1>8. Querying(u, Tail(q))
    BY <1>1, <1>2, <1>3, <1>4, <1>5, Fewer
       DEF Sound, Only, Fields, Passed, Same, Unspoken, Querying
  <1>9. Asking(u, Tail(q))
    BY <1>1, <1>2, <1>3, <1>4, <1>5, Fewer
       DEF Sound, Only, Fields, Passed, Same, Unspoken, Asking, Quiet
  <1> QED BY <1>1, <1>4, <1>5, <1>6, <1>7, <1>8, <1>9 DEF Fine, Sound

(* The dialog of a request that is over is taken away.                      *)
LEMMA DialogAway ==
    ASSUME NEW t, NEW q, Fine(t, q)
    PROVE  Fine([t EXCEPT !.dialog = "none"], q)
  <1>0. SUFFICES ASSUME NEW u, u = [t EXCEPT !.dialog = "none"]
        PROVE  Fine(u, q)
    OBVIOUS
  <1>1. State(t) /\ q \in Seq(Signal) /\ Sound(t, q)
    BY DEF Fine
  <1>2. /\ DOMAIN u = Fields
        /\ Only(t, u, {"dialog"})
    BY <1>0, <1>1 DEF State, Fields, Only
  <1>3. u.dialog = "none"
    BY <1>0, <1>1 DEF State, Fields
  <1>4. State(u)
    BY <1>1, <1>2, <1>3
       DEF State, Only, Fields, QueryState, Quiet, StorageTasks, PreviewState
  <1>5. Scheduled(u) /\ Ending(u) /\ Finalizing(u, q) /\ Storing(u, q) /\
        Exclusive(u) /\ Previewed(u)
    BY <1>1, <1>2
       DEF Sound, Only, Fields, Scheduled, Available, Ending, Working,
           Finalizing, Storing, Exclusive, StorageTasks, Previewed
  <1>6. Querying(u, q)
    BY <1>1, <1>2, <1>3, <1>4, Fewer
       DEF Sound, Only, Fields, Querying
  <1>7. Asking(u, q)
    BY <1>1, <1>2, <1>3, <1>4, Fewer
       DEF Sound, Only, Fields, Asking, Quiet
  <1> QED BY <1>1, <1>4, <1>5, <1>6, <1>7 DEF Fine, Sound

(* The network has changed under a query: its token is set                  *)
(* (_cancel_for_environment_change).                                        *)
LEMMA NetworkStops ==
    ASSUME NEW t, NEW q, Fine(t, q),
           t.task
    PROVE  Fine([[t EXCEPT !.changes = @ + 1] EXCEPT !.timer = FALSE,
                   !.environmentCancel = TRUE, !.token = TRUE], q)
  <1>0. SUFFICES ASSUME NEW u,
                        u = [[t EXCEPT !.changes = @ + 1] EXCEPT
                                 !.timer = FALSE, !.environmentCancel = TRUE,
                                 !.token = TRUE]
                 PROVE  Fine(u, q)
    OBVIOUS
  <1>1. State(t) /\ q \in Seq(Signal) /\ Sound(t, q)
    BY DEF Fine
  <1>2. /\ DOMAIN u = Fields
        /\ Only(t, u, {"changes", "timer", "environmentCancel", "token"})
    BY <1>0, <1>1 DEF State, Fields, Only
  <1>3. /\ u.changes = t.changes + 1 /\ u.timer = FALSE
        /\ u.environmentCancel = TRUE /\ u.token = TRUE
    BY <1>0, <1>1 DEF State, Fields
  <1>4. State(u)
    <2>1. /\ u.timer \in BOOLEAN
          /\ u.environmentCancel \in BOOLEAN
          /\ u.token \in BOOLEAN
      BY <1>1, <1>3 DEF State, QueryState, Quiet
    <2>2. u.changes \in Nat
      BY <1>1, <1>3 DEF State, QueryState, Quiet
    <2> QED BY ZenonT(30), <1>1, <1>2, <2>1, <2>2 DEF State, Only, Fields
  <1>5. Ending(u) /\ Finalizing(u, q) /\ Querying(u, q) /\ Asking(u, q) /\
        Storing(u, q) /\ Exclusive(u) /\ Previewed(u)
    BY <1>1, <1>2
       DEF Sound, Only, Fields, Ending, Working, Finalizing, Querying, Asking,
           Quiet, Storing, Exclusive, StorageTasks, Previewed
  <1>6. Scheduled(u)
    BY <1>1, <1>2, <1>3, <1>4
       DEF Sound, Only, Fields, Scheduled, Available
  <1> QED BY <1>1, <1>4, <1>5, <1>6 DEF Fine, Sound

(* The network has changed between two polls: the next one is scheduled.    *)
LEMMA NetworkResumes ==
    ASSUME NEW t, NEW q, Fine(t, q),
           t.monitoring,
           ~ t.task
    PROVE  Fine([[t EXCEPT !.changes = @ + 1] EXCEPT !.timer = TRUE], q)
  <1>0. SUFFICES ASSUME NEW u,
                        u = [[t EXCEPT !.changes = @ + 1] EXCEPT
                                 !.timer = TRUE]
                 PROVE  Fine(u, q)
    OBVIOUS
  <1>1. State(t) /\ q \in Seq(Signal) /\ Sound(t, q)
    BY DEF Fine
  <1>2. /\ DOMAIN u = Fields
        /\ Only(t, u, {"changes", "timer"})
    BY <1>0, <1>1 DEF State, Fields, Only
  <1>3. /\ u.changes = t.changes + 1 /\ u.timer = TRUE
    BY <1>0, <1>1 DEF State, Fields
  <1>4. State(u)
    <2>1. u.timer \in BOOLEAN
      BY <1>1, <1>3
    <2>2. u.changes \in Nat
      BY <1>1, <1>3 DEF State, QueryState, Quiet
    <2> QED BY ZenonT(30), <1>1, <1>2, <2>1, <2>2 DEF State, Only, Fields
  <1>5. Ending(u) /\ Finalizing(u, q) /\ Querying(u, q) /\ Asking(u, q) /\
        Storing(u, q) /\ Exclusive(u) /\ Previewed(u)
    BY <1>1, <1>2
       DEF Sound, Only, Fields, Ending, Working, Finalizing, Querying, Asking,
           Quiet, Storing, Exclusive, StorageTasks, Previewed
  <1>6. Scheduled(u)
    BY <1>1, <1>2, <1>3, <1>4
       DEF Sound, Only, Fields, Scheduled, Available
  <1> QED BY <1>1, <1>4, <1>5, <1>6 DEF Fine, Sound

(* The query is over: the window is free, and a monitored one schedules the *)
(* next poll.                                                               *)
LEMMA FinishedLeaves ==
    ASSUME NEW t, NEW q, Fine(t, q),
           t.task,
           t.dialog # "made",
           q # <<>>, Head(q)[1] = "finished"
    PROVE  Fine([Withdrawn(t) EXCEPT
                   !.task = FALSE, !.userCancel = FALSE,
                   !.environmentCancel = FALSE,
                   !.timer = t.monitoring /\ ~ t.closing], Tail(q))
  <1>0. SUFFICES ASSUME NEW u, u = [Withdrawn(t) EXCEPT
                   !.task = FALSE, !.userCancel = FALSE,
                   !.environmentCancel = FALSE,
                   !.timer = t.monitoring /\ ~ t.closing]
        PROVE  Fine(u, Tail(q))
    OBVIOUS
  <1>1. State(t) /\ q \in Seq(Signal) /\ Sound(t, q)
    BY DEF Fine
  <1> DEFINE v == Withdrawn(t)
  <1>6. /\ State(v) /\ Only(t, v, {"pending", "dialog"}) /\ v.pending = FALSE
        /\ v.dialog = IF t.pending THEN "none" ELSE t.dialog
    BY <1>1, WithdrawnEffect
  <1>7. u = [v EXCEPT !.task = FALSE, !.userCancel = FALSE,
                      !.environmentCancel = FALSE,
                      !.timer = t.monitoring /\ ~ t.closing]
    BY <1>0
  <1> HIDE DEF v
  <1>8. /\ DOMAIN u = Fields
        /\ Only(v, u, {"task", "userCancel", "environmentCancel", "timer"})
        /\ u.task = FALSE /\ u.userCancel = FALSE
        /\ u.environmentCancel = FALSE
        /\ u.timer = (t.monitoring /\ ~ t.closing)
    BY <1>6, <1>7 DEF State, Fields, Only
  <1>2. State(u)
    <2>1. u.timer \in BOOLEAN
      BY <1>8
    <2>2. /\ u.task \in BOOLEAN /\ u.userCancel \in BOOLEAN
          /\ u.environmentCancel \in BOOLEAN
      BY <1>8
    <2>3. /\ DOMAIN u = Fields
          /\ Only(v, u, {"task", "userCancel", "environmentCancel", "timer"})
      BY <1>8
    <2> QED BY <1>6, <2>1, <2>2, <2>3 DEF State, Only, Fields
  <1>3. Only(t, u, {"pending", "dialog", "task", "userCancel",
                    "environmentCancel", "timer"})
    BY <1>6, <1>8 DEF Only
  <1>4. /\ u.pending = FALSE
        /\ u.dialog = IF t.pending THEN "none" ELSE t.dialog
        /\ u.task = FALSE /\ u.timer = (t.monitoring /\ ~ t.closing)
    BY <1>6, <1>8 DEF Only, Fields
  <1>9. Tail(q) \in Seq(Signal) /\ Passed(q, Tail(q), Head(q)[1])
    BY <1>1, Delivery
  <1>10. Previewed(u)
    BY <1>1, <1>3
       DEF Sound, Only, Fields, Previewed, StorageTasks
  <1>11. Finalizing(u, Tail(q)) /\ Storing(u, Tail(q))
    BY <1>1, <1>3, <1>9
       DEF Sound, Only, Fields, Passed, Same, Finalizing, Storing
  <1>12. Scheduled(u)
    BY <1>1, <1>2, <1>3, <1>4
       DEF Sound, Only, Fields, Scheduled, Available
  <1>13. Ending(u)
    BY <1>1, <1>2, <1>3, <1>4
       DEF Sound, Only, Fields, Ending, Working
  <1>14. Querying(u, Tail(q))
    <2>1. t.query = "none" /\ FinishedLast(q) /\ ~ Absent(q, {"finished"})
      BY <1>1, <1>9, Fewer DEF Sound, Querying, Passed, Ending
    <2>2. Absent(Tail(q), Spoken) /\ Absent(q, {"dismiss"})
      BY <1>9, <2>1 DEF Passed
    <2>3. u.query = "none" /\ u.pending = FALSE /\ u.task = FALSE
      BY <1>3, <1>4, <2>1 DEF Only, Fields
    <2>4. u.dialog = "none"
      <3>1. CASE t.pending
        BY <1>4, <3>1
      <3>2. CASE ~ t.pending
        BY <1>1, <1>4, <2>1, <2>2, <3>2 DEF Sound, Asking, State
      <3> QED BY <3>1, <3>2
    <2> QED BY <2>2, <2>3, <2>4 DEF Querying
  <1>15. Asking(u, Tail(q))
    <2>1. t.query = "none" /\ FinishedLast(q) /\ ~ Absent(q, {"finished"})
      BY <1>1, <1>9, Fewer DEF Sound, Querying, Passed, Ending
    <2>2. Absent(Tail(q), Spoken) /\ Absent(q, {"dismiss"})
      BY <1>9, <2>1 DEF Passed
    <2>3. u.query = "none" /\ u.pending = FALSE /\ u.task = FALSE
      BY <1>3, <1>4, <2>1 DEF Only, Fields
    <2>4. u.dialog = "none"
      <3>1. CASE t.pending
        BY <1>4, <3>1
      <3>2. CASE ~ t.pending
        BY <1>1, <1>4, <2>1, <2>2, <3>2 DEF Sound, Asking, State
      <3> QED BY <3>1, <3>2
    <2> QED BY <2>2, <2>3, <2>4, Fewer DEF Asking, Quiet
  <1>16. Exclusive(u)
    BY <1>1, <1>2, <1>3, <1>4
       DEF Sound, Only, Fields, Exclusive, StorageTasks
  <1> QED BY <1>1, <1>2, <1>9, <1>10, <1>11, <1>12, <1>13, <1>14, <1>15, <1>16
          DEF Fine, Sound

(* A signal nobody waits for any more is delivered to no effect.            *)
LEMMA Deaf ==
    ASSUME NEW t, NEW q, Fine(t, q), q # <<>>,
           Head(q)[1] = "finished" => ~ t.task,
           Head(q)[1] = "history" => ~ t.history,
           Head(q)[1] \in {"storage done", "storage failed"} =>
               t.storage = "none",
           Head(q)[1] = "finalized" => ~ t.active, Head(q)[1] # "dismiss"
    PROVE  Fine(t, Tail(q))
  <1>1. State(t) /\ q \in Seq(Signal) /\ Sound(t, q)
    BY DEF Fine
  <1>2. Tail(q) \in Seq(Signal) /\ Passed(q, Tail(q), Head(q)[1])
    BY <1>1, Delivery
  <1>3. \A K \in {{"finalized"}, {"history"}, Stored} :
          Absent(q, K) => Absent(Tail(q), K)
    BY <1>1, Delivered
  <1>4. \A K \in {{"finalized"}, {"history"}, Stored} :
          Single(q, K) => Single(Tail(q), K)
    BY <1>1, Delivered
  <1>5. Finalizing(t, Tail(q))
    BY <1>1, <1>3, <1>4 DEF Sound, Finalizing
  <1>6. Storing(t, Tail(q))
    BY <1>1, <1>3, <1>4 DEF Sound, Storing
  <1>7. Querying(t, Tail(q))
    BY <1>1, <1>2, Fewer DEF Sound, Querying, Passed, Same, Unspoken
  <1>8. Asking(t, Tail(q))
    BY <1>1, <1>2, Fewer DEF Sound, Asking, Passed, Same
  <1> QED BY <1>1, <1>2, <1>5, <1>6, <1>7, <1>8 DEF Fine, Sound

(* _start_storage_task of an export or of a preview.                        *)
LEMMA StorageStartsFine ==
    ASSUME NEW t, NEW q, Fine(t, q),
           NEW kind, NEW p,
           \/ kind = "export" /\ p = NoPreview
           \/ kind = "delete-preview" /\ p \in Preview,
           t.window = "open",
           t.modal = "none",
           Available(t),
           ~ t.task /\ ~ t.monitoring /\ ~ t.history
    PROVE  Fine(StorageStarts([t EXCEPT !.jobs = @ + 1], kind, p), q)
  <1>0. SUFFICES ASSUME NEW u,
                        u = StorageStarts([t EXCEPT !.jobs = @ + 1], kind, p)
                 PROVE  Fine(u, q)
    OBVIOUS
  <1>1. State(t) /\ q \in Seq(Signal) /\ Sound(t, q)
    BY DEF Fine
  <1>2. /\ DOMAIN u = Fields
        /\ Only(t, u, {"jobs", "storage", "subject", "storageThread"})
    BY <1>0, <1>1 DEF State, Fields, Only, StorageStarts
  <1>3. /\ u.jobs = t.jobs + 1 /\ u.storage = kind /\ u.subject = p
        /\ u.storageThread = "working"
    BY <1>0, <1>1 DEF State, Fields, StorageStarts
  <1>4. State(u)
    BY <1>1, <1>2, <1>3
       DEF State, Only, Fields, QueryState, Quiet, StorageTasks, PreviewState
  <1>5. Finalizing(u, q) /\ Querying(u, q) /\ Asking(u, q)
    BY <1>1, <1>2
       DEF Sound, Only, Fields, Finalizing, Querying, Asking, Quiet
  <1>6. Scheduled(u)
    BY <1>1, <1>2, <1>3, <1>4
       DEF Sound, Only, Fields, Scheduled, Available
  <1>7. Ending(u)
    BY <1>1, <1>2, <1>3, <1>4
       DEF Sound, Only, Fields, Ending, Working, Available
  <1>8. Storing(u, q)
    BY <1>1, <1>2, <1>3, <1>4
       DEF Sound, Only, Fields, Storing, Ending, Working, Available
  <1>9. Exclusive(u)
    BY <1>1, <1>2, <1>3, <1>4
       DEF Sound, Only, Fields, Exclusive, StorageTasks
  <1>10. Previewed(u)
    <2>1. /\ u.previews = t.previews /\ u.discards = t.discards
          /\ u.modal = "none" /\ u.deferred = t.deferred
          /\ t.storage = "none" /\ Previewed(t)
      BY <1>1, <1>2 DEF Sound, Available, Only, Fields
    <2>2. u.storage # "delete-commit" /\ u.storage # "delete-discard"
      BY <1>3
    <2>3. u.storage \in StorageTasks \ {"export"} => u.subject \in Preview
      BY <1>3
    <2>4. ASSUME ~ u.deferred, NEW x \in Preview
          PROVE  /\ u.previews[x] \notin {"offered", "deleting", "discarding"}
                 /\ u.previews[x] = "queued" => u.discards = <<x>>
      BY <2>1, <2>4 DEF Previewed
    <2> QED BY <2>1, <2>2, <2>3, <2>4 DEF Previewed
  <1> QED BY <1>1, <1>4, <1>5, <1>6, <1>7, <1>8, <1>9, <1>10 DEF Fine, Sound

(* The answer to the deletion question is yes: the commit starts.           *)
LEMMA DeletionStarts ==
    ASSUME NEW t, NEW q, Fine(t, q),
           t.window = "open",
           t.modal = "confirm",
           Available(t)
    PROVE  Fine(StorageStarts([[t EXCEPT !.modal = "none"] EXCEPT
                               !.previews[t.subject] = "deleting"],
                "delete-commit", t.subject), q)
  <1>0. SUFFICES ASSUME NEW u,
                        u = StorageStarts([[t EXCEPT !.modal = "none"] EXCEPT
                                 !.previews[t.subject] = "deleting"],
                                 "delete-commit", t.subject)
                 PROVE  Fine(u, q)
    OBVIOUS
  <1>1. State(t) /\ q \in Seq(Signal) /\ Sound(t, q)
    BY DEF Fine
  <1>2. /\ DOMAIN u = Fields
        /\ Only(t, u, {"modal", "previews", "storage", "subject",
                 "storageThread"})
    BY <1>0, <1>1 DEF State, Fields, Only, StorageStarts
  <1>3. /\ u.modal = "none"
        /\ u.previews = [t.previews EXCEPT ![t.subject] = "deleting"]
        /\ u.storage = "delete-commit" /\ u.subject = t.subject
        /\ u.storageThread = "working"
    BY <1>0, <1>1 DEF State, Fields, StorageStarts
  <1>4. State(u)
    <2>1. /\ u.modal \in {"none", "input", "query", "storage", "confirm"}
          /\ u.storage \in StorageTasks \cup {"none"}
          /\ u.storageThread \in {"none", "working"}
      BY <1>1, <1>3 DEF State, QueryState, Quiet, StorageTasks
    <2>2. u.previews \in [Preview -> PreviewState]
      BY <1>1, <1>3 DEF State, PreviewState
    <2>3. u.subject \in Preview \cup {NoPreview}
      BY <1>1, <1>3 DEF State, QueryState, Quiet
    <2> QED BY <1>1, <1>2, <2>1, <2>2, <2>3 DEF State, Only, Fields
  <1>5. Finalizing(u, q) /\ Querying(u, q) /\ Asking(u, q)
    BY <1>1, <1>2
       DEF Sound, Only, Fields, Finalizing, Querying, Asking, Quiet
  <1>6. Scheduled(u)
    BY <1>1, <1>2, <1>3, <1>4
       DEF Sound, Only, Fields, Scheduled, Available, Exclusive, StorageTasks
  <1>7. Ending(u)
    BY <1>1, <1>2, <1>3, <1>4
       DEF Sound, Only, Fields, Ending, Working, Available
  <1>8. Storing(u, q)
    BY <1>1, <1>2, <1>3, <1>4
       DEF Sound, Only, Fields, Storing, Ending, Working, Available
  <1>9. Exclusive(u)
    BY <1>1, <1>2, <1>3, <1>4
       DEF Sound, Only, Fields, Exclusive, StorageTasks
  <1>10. Previewed(u)
    <2>1. /\ t.subject \in Preview /\ u.discards = <<>> /\ t.discards = <<>>
          /\ t.storage = "none" /\ ~ t.deferred /\ Previewed(t)
          /\ t.previews \in [Preview -> PreviewState]
      BY <1>1, <1>2 DEF Sound, Ending, Exclusive, Previewed, Available, State,
                        Only, Fields
    <2>2. ASSUME NEW x \in Preview, x # t.subject
          PROVE  u.previews[x] \in {"none", "settled"}
      <3>1. u.previews[x] = t.previews[x] /\ t.previews[x] \in PreviewState
        BY <1>3, <2>1, <2>2
      <3>2. /\ t.previews[x] = "offered" => t.subject = x
            /\ t.previews[x] = "queued" => t.discards = <<x>>
            /\ t.previews[x] = "deleting" => t.storage = "delete-commit"
            /\ t.previews[x] = "discarding" => t.storage = "delete-discard"
        BY <2>1, <2>2 DEF Previewed
      <3>3. <<x>> # <<>>
        OBVIOUS
      <3> QED BY <2>1, <2>2, <3>1, <3>2, <3>3 DEF PreviewState
    <2>3. u.previews[t.subject] = "deleting"
      BY <1>3, <2>1
    <2>4. ASSUME NEW x \in Preview, u.previews[x] \notin {"none", "settled"}
          PROVE  x = u.subject /\ u.previews[x] = "deleting"
      BY <1>3, <2>1, <2>2, <2>3, <2>4
    <2> QED BY <1>3, <2>1, <2>4 DEF Previewed, StorageTasks
  <1> QED BY <1>1, <1>4, <1>5, <1>6, <1>7, <1>8, <1>9, <1>10 DEF Fine, Sound

(* The first close shuts the window (closeEvent, shutdown of the approvals  *)
(* included).                                                               *)
LEMMA ClosingFine ==
    ASSUME NEW t, NEW q, Fine(t, q),
           t.window = "open",
           t.modal = "none",
           ~ t.deferred
    PROVE  Fine([Withdrawn(Cancelled([t EXCEPT !.closing = TRUE], TRUE))
                   EXCEPT !.shutting = TRUE], q)
  <1>0. SUFFICES ASSUME NEW u,
                        u = [Withdrawn(Cancelled([t EXCEPT !.closing = TRUE],
                                                 TRUE))
                                 EXCEPT !.shutting = TRUE]
                 PROVE  Fine(u, q)
    OBVIOUS
  <1>1. State(t) /\ q \in Seq(Signal) /\ Sound(t, q)
    BY DEF Fine
  <1> DEFINE x == [t EXCEPT !.closing = TRUE]
             v == Cancelled(x, TRUE)
  <1>6. State(x) /\ Only(t, x, {"closing"}) /\ x.closing = TRUE
    <2>1. State(x)
      BY <1>1 DEF State, Fields
    <2> QED BY <1>1, <2>1 DEF State, Fields, Only
  <1> HIDE DEF x
  <1>7. /\ State(v)
        /\ Only(x, v, {"monitoring", "timer", "token", "userCancel", "pending",
                       "dialog", "requested", "active", "finalizer"})
        /\ v.monitoring = FALSE /\ v.timer = FALSE /\ v.pending = FALSE
        /\ v.dialog = IF x.pending THEN "none" ELSE x.dialog
        /\ v.requested = (x.requested \/ x.task \/ x.monitoring \/ x.closing)
        /\ v.active = (x.active \/ (~ x.requested /\
                                   (x.task \/ x.monitoring \/ x.closing)))
        /\ v.finalizer = IF ~ x.requested /\
                                (x.task \/ x.monitoring \/ x.closing)
                         THEN "working" ELSE x.finalizer
    BY ZenonT(30), <1>6, CancelledEffect
  <1> HIDE DEF v
  <1>8. u = [v EXCEPT !.shutting = TRUE]
    BY <1>0, <1>7 DEF Withdrawn, v, x
  <1>9. /\ State(u) /\ Only(v, u, {"shutting"}) /\ u.shutting = TRUE
    <2>1. State(v)
      BY <1>7
    <2>2. State(u)
      BY <1>8, <2>1 DEF State, Fields
    <2> QED BY <1>8, <2>1, <2>2 DEF State, Fields, Only
  <1>2. State(u)
    BY <1>9
  <1>3. Only(t, u, {"closing", "monitoring", "timer", "token", "userCancel",
                    "pending", "dialog", "requested", "active", "finalizer",
                    "shutting"})
    BY <1>6, <1>7, <1>9 DEF Only
  <1>4. /\ u.closing = TRUE /\ u.shutting = TRUE
        /\ u.monitoring = FALSE /\ u.timer = FALSE /\ u.pending = FALSE
        /\ u.dialog = IF t.pending THEN "none" ELSE t.dialog
        /\ u.requested = TRUE /\ u.active = (t.active \/ ~ t.requested)
        /\ u.finalizer = IF t.requested THEN t.finalizer ELSE "working"
    <2>1. /\ v.closing = TRUE /\ x.pending = t.pending /\ x.dialog = t.dialog
          /\ x.requested = t.requested /\ x.active = t.active
          /\ x.finalizer = t.finalizer
      BY <1>6, <1>7 DEF Only, Fields
    <2>2. /\ v.requested = TRUE /\ v.active = (t.active \/ ~ t.requested)
          /\ v.finalizer = IF t.requested THEN t.finalizer ELSE "working"
      BY <1>6, <1>7, <2>1
    <2>3. v.dialog = IF t.pending THEN "none" ELSE t.dialog
      BY <1>7, <2>1
    <2>4. /\ u.closing = v.closing /\ u.monitoring = v.monitoring
          /\ u.timer = v.timer /\ u.pending = v.pending
          /\ u.dialog = v.dialog /\ u.requested = v.requested
          /\ u.active = v.active /\ u.finalizer = v.finalizer
      BY <1>9 DEF Only, Fields
    <2> QED BY <1>7, <1>9, <2>1, <2>2, <2>3, <2>4
  <1>10. Storing(u, q) /\ Previewed(u)
    BY <1>1, <1>3
       DEF Sound, Only, Fields, Storing, Previewed, StorageTasks
  <1>11. Scheduled(u)
    BY <1>1, <1>2, <1>3, <1>4
       DEF Sound, Only, Fields, Scheduled, Available
  <1>12. Ending(u)
    BY <1>1, <1>2, <1>3, <1>4
       DEF Sound, Only, Fields, Ending, Working
  <1>13. Finalizing(u, q)
    <2>1. /\ u.restart = t.restart /\ u.finalized = t.finalized
          /\ u.deferred = t.deferred
      BY <1>3 DEF Only, Fields
    <2>2. CASE t.requested
      BY <1>1, <1>4, <2>1, <2>2 DEF Sound, Finalizing
    <2>3. CASE ~ t.requested
      <3>1. /\ u.active = TRUE /\ u.finalizer = "working" /\ u.requested = TRUE
        BY <1>4, <2>3
      <3>2. /\ t.restart = FALSE /\ Absent(q, {"finalized"})
            /\ Single(q, {"finalized"})
        BY <1>1, <2>3 DEF Sound, Finalizing, State
      <3> QED BY <1>1, <2>1, <3>1, <3>2 DEF Sound, Finalizing
    <2> QED BY <2>2, <2>3
  <1>14. Querying(u, q)
    <2>1. /\ u.task = t.task /\ u.query = t.query /\ u.deferred = t.deferred
      BY <1>3 DEF Only, Fields
    <2>2. t.dialog = "none" => u.dialog = "none"
      BY <1>4
    <2> QED BY <1>1, <1>4, <2>1, <2>2 DEF Sound, Querying
  <1>15. Asking(u, q)
    <2>1. u.query = t.query /\ u.asked = t.asked
      BY <1>3 DEF Only, Fields
    <2>2. /\ t.dialog = "none" => u.dialog = "none"
          /\ u.dialog = "open" => t.dialog = "open" /\ t.pending = FALSE
      <3>1. t.pending \in BOOLEAN
        BY <1>1 DEF State
      <3> QED BY <1>4, <3>1
    <2> QED BY <1>1, <1>4, <2>1, <2>2 DEF Sound, Asking
  <1>16. Exclusive(u)
    BY <1>1, <1>2, <1>3, <1>4
       DEF Sound, Only, Fields, Exclusive, StorageTasks
  <1> QED BY <1>1, <1>2, <1>10, <1>11, <1>12, <1>13, <1>14, <1>15, <1>16
          DEF Fine, Sound

(* closeEvent, of every kind.                                               *)
LEMMA CloseEventFine ==
    ASSUME NEW t, NEW q, Fine(t, q), t.window = "open", t.modal = "none"
    PROVE  Fine(CloseEvent(t), q)
  <1>1. CASE t.deferred
    <2>1. CloseEvent(t) = [t EXCEPT !.window = "closed"]
      BY <1>1 DEF CloseEvent
    <2> QED BY <1>1, <2>1, LastClose
  <1>2. CASE ~ t.deferred
    <2> DEFINE v == [Withdrawn(Cancelled([t EXCEPT !.closing = TRUE], TRUE))
                        EXCEPT !.shutting = TRUE]
    <2>1. Fine(v, q)
      BY <1>2, ClosingFine
    <2>2. v.closing
      <3> DEFINE x == [t EXCEPT !.closing = TRUE]
                 w == Cancelled(x, TRUE)
      <3>1. State(x) /\ x.closing = TRUE
        <4>1. State(t)
          BY DEF Fine
        <4>2. State(x)
          BY <4>1 DEF State, Fields
        <4> QED BY <4>1, <4>2 DEF State, Fields
      <3> HIDE DEF x
      <3>2. /\ State(w) /\ w.pending = FALSE
            /\ Only(x, w, {"monitoring", "timer", "token", "userCancel",
                           "pending", "dialog", "requested", "active",
                           "finalizer"})
        BY <3>1, CancelledEffect
      <3> HIDE DEF w
      <3>3. w.closing
        BY <3>1, <3>2 DEF Only, Fields
      <3>4. Withdrawn(w) = w
        BY <3>2 DEF Withdrawn
      <3>5. v = [w EXCEPT !.shutting = TRUE]
        BY <3>4 DEF w, x
      <3> HIDE DEF v
      <3> QED BY <3>2, <3>3, <3>5 DEF State, Fields
    <2> HIDE DEF v
    <2>3. v.discards = <<>>
      BY <2>1, <2>2 DEF Fine, Sound, Ending, Exclusive
    <2>4. Drained(v) = v
      BY <2>3 DEF Drained
    <2>5. CloseEvent(t) = IF Working(v) THEN [v EXCEPT !.closeTimer = TRUE]
                          ELSE [v EXCEPT !.closeTimer = FALSE,
                                         !.window = "closed"]
      BY <1>2, <2>4 DEF CloseEvent, v
    <2>6. Fine([v EXCEPT !.closeTimer = TRUE], q)
      BY <2>1, <2>2, CloseWaits
    <2>7. ~ Working(v) =>
              Fine([v EXCEPT !.closeTimer = FALSE, !.window = "closed"], q)
      BY <2>1, <2>2, CloseNow
    <2> QED BY <2>5, <2>6, <2>7
  <1> QED BY <1>1, <1>2

-----------------------------------------------------------------------------
(* The steps of the user and of the timers                                  *)

(* The deletion question is answered.                                       *)
LEMMA ConfirmStep == WindowInv /\ Confirm => WindowInv'
  <1> SUFFICES ASSUME WindowInv, Confirm PROVE WindowInv'
    OBVIOUS
  <1>1. /\ Fine(s, inbox) /\ inbox' = inbox
        /\ s.window = "open" /\ s.modal = "confirm"
    BY DEF WindowInv, Confirm, Looping
  <1>2. CASE s' = Drained(Queued([s EXCEPT !.modal = "none"], s.subject))
    <2>1. Loose(Queued([s EXCEPT !.modal = "none"], s.subject), inbox)
      BY <1>1, GivenBack
    <2> QED BY <1>1, <1>2, <2>1, DrainedFine DEF WindowInv
  <1>3. CASE /\ Available(s)
             /\ s' = StorageStarts([[s EXCEPT !.modal = "none"] EXCEPT
                                       !.previews[s.subject] = "deleting"],
                                   "delete-commit", s.subject)
    BY <1>1, <1>3, DeletionStarts DEF WindowInv
  <1> QED BY <1>2, <1>3 DEF Confirm, Mutable

(* A modal box is closed.                                                   *)
LEMMA CloseBoxStep == WindowInv /\ CloseBox => WindowInv'
  <1> SUFFICES ASSUME WindowInv, CloseBox PROVE WindowInv'
    OBVIOUS
  <1> DEFINE t == [s EXCEPT !.modal = "none"]
  <1>1. /\ Fine(s, inbox) /\ inbox' = inbox
        /\ s.window = "open" /\ s.dialog # "made"
    BY DEF WindowInv, CloseBox, Looping
  <1>2. t.window = "open" /\ t.modal = "none" /\ t.discards = s.discards
    BY <1>1 DEF Fine, State, Fields
  <1>3. CASE s.modal = "input" /\ s' = Cancelled(t, FALSE)
    <2>1. Fine(t, inbox)
      BY <1>1, <1>3, BoxClosedFine
    <2> QED BY <1>1, <1>2, <1>3, <2>1, CancelledFine DEF WindowInv
  <1>4. CASE s.modal = "query" /\ s' = t
    BY <1>1, <1>4, BoxClosedFine DEF WindowInv
  <1>5. CASE s.modal = "storage" /\ s' = ClosedIfIdle(Drained(t))
    <2>1. Fine(Drained(t), inbox)
      <3>1. CASE s.discards = <<>>
        <4>1. Drained(t) = t
          BY <1>2, <3>1 DEF Drained
        <4> QED BY <1>1, <1>5, <3>1, <4>1, BoxClosedFine
      <3>2. CASE s.discards # <<>>
        <4>1. Loose(t, inbox)
          BY <1>1, <1>5, <3>2, BoxClosed
        <4> QED BY <4>1, DrainedFine
      <3> QED BY <3>1, <3>2
    <2> QED BY <1>1, <1>5, <2>1, ClosedIfIdleFine DEF WindowInv
  <1> QED BY <1>3, <1>4, <1>5 DEF CloseBox

(* What the user does.                                                      *)
LEMMA UserStep == WindowInv /\ User => WindowInv'
  <1> SUFFICES ASSUME WindowInv, User PROVE WindowInv'
    OBVIOUS
  <1>1. Fine(s, inbox)
    BY DEF WindowInv
  <1>2. CASE StartQuery
    BY <1>1, <1>2, QueryStartsFine DEF StartQuery, Open, WindowInv
  <1>3. CASE StartMonitoring
    BY <1>1, <1>3, MonitoringStarts DEF StartMonitoring, Open, WindowInv
  <1>4. CASE RefuseInput
    BY <1>1, <1>4, InputShown DEF RefuseInput, Open, Available, WindowInv
  <1>5. CASE Stop
    BY <1>1, <1>5, CancelledFine DEF Stop, Open, WindowInv
  <1>6. CASE UserCloses
    BY <1>1, <1>6, CloseEventFine DEF UserCloses, Open, WindowInv
  <1>7. CASE Refresh
    BY <1>1, <1>7, ReadingFine DEF Refresh, Open, WindowInv
  <1>8. CASE Export
    BY <1>1, <1>8, StorageStartsFine DEF Export, Open, Mutable, WindowInv
  <1>9. CASE Delete
    <2>1. PICK p \in Preview :
             s' = StorageStarts([s EXCEPT !.jobs = @ + 1], "delete-preview", p)
      BY <1>9 DEF Delete
    <2> QED BY <1>1, <1>9, <2>1, StorageStartsFine
            DEF Delete, Open, Mutable, WindowInv
  <1>10. CASE Answer
    <2>1. Fine([s EXCEPT !.dialog = "none"], inbox)
      BY <1>1, DialogAway
    <2> QED BY <1>10, <2>1, WithdrawnFine DEF Answer, WindowInv
  <1> QED BY <1>2, <1>3, <1>4, <1>5, <1>6, <1>7, <1>8, <1>9, <1>10,
             ConfirmStep, CloseBoxStep DEF User

(* _finalization_finished without success, the timeout included.            *)
LEMMA SettledBadly ==
    ASSUME NEW t, NEW q, Fine(t, q), t.active, t.window = "open"
    PROVE  Fine(Settled(t, FALSE), q)
  <1> DEFINE v == [t EXCEPT !.active = FALSE, !.restart = TRUE,
                            !.finalized = IF t.deferred THEN @ ELSE "failed"]
  <1>1. Fine(v, q)
    BY GivenUp
  <1>2. Settled(t, FALSE) = ClosedIfIdle(v)
    BY DEF Settled
  <1> QED BY <1>1, <1>2, ClosedIfIdleFine

(* _finalization_finished as the result is delivered.                       *)
LEMMA SettledInTime ==
    ASSUME NEW t, NEW q, Fine(t, q), t.active, t.window = "open",
           q # <<>>, Head(q)[1] = "finalized", NEW ok \in BOOLEAN
    PROVE  Fine(Settled(t, ok), Tail(q))
  <1> DEFINE v == [t EXCEPT !.active = FALSE, !.restart = TRUE,
                            !.finalized = IF t.deferred THEN @ ELSE "failed"]
             w == [t EXCEPT !.active = FALSE, !.restart = @ \/ ~ TRUE,
                            !.finalized = IF t.deferred THEN @ ELSE "ok"]
  <1>1. CASE ok = FALSE
    <2>1. Settled(t, ok) = ClosedIfIdle(v)
      BY <1>1 DEF Settled
    <2> QED BY <2>1, FinalizedBadly, ClosedIfIdleFine
  <1>2. CASE ok = TRUE
    <2>1. Settled(t, ok) = ClosedIfIdle(w)
      BY <1>2 DEF Settled
    <2> QED BY <2>1, Finalized, ClosedIfIdleFine
  <1> QED BY <1>1, <1>2

(* The timers of the window, the posted close and the changes of the        *)
(* network.                                                                 *)
LEMMA TimersStep ==
    ASSUME WindowInv,
           \/ TimerFires \/ NetworkChanges \/ FinalizationTimesOut
           \/ CloseGraceExpires \/ PostedClose
    PROVE  WindowInv'
  <1>1. Fine(s, inbox) /\ s.window = "open" /\ inbox' = inbox
    BY DEF WindowInv, TimerFires, NetworkChanges, FinalizationTimesOut,
           CloseGraceExpires, PostedClose, Looping
  <1>2. CASE TimerFires
    <2>1. s.timer
      BY <1>2 DEF TimerFires
    <2>2. s.monitoring /\ Available(s) /\ ~ s.task
      BY <1>1, <2>1 DEF Fine, Sound, Scheduled
    <2>3. s.modal \notin {"confirm", "storage"}
      BY <1>1, <2>2 DEF Fine, Sound, Exclusive
    <2>4. s' = QueryStarts(s)
      BY <1>2, <2>2 DEF TimerFires
    <2> QED BY <1>1, <2>2, <2>3, <2>4, QueryStartsFine DEF WindowInv
  <1>3. CASE NetworkChanges
    <2> DEFINE t == [s EXCEPT !.changes = @ + 1]
               v == [t EXCEPT !.timer = FALSE, !.environmentCancel = TRUE,
                              !.token = TRUE]
    <2>1. t.task = s.task
      BY <1>1 DEF Fine, State, Fields
    <2>2. CASE s.task
      <3>1. Fine(v, inbox)
        BY <1>1, <2>2, NetworkStops
      <3>2. s' = Withdrawn(v)
        BY <1>3, <2>1, <2>2 DEF NetworkChanges
      <3> QED BY <1>1, <3>1, <3>2, WithdrawnFine DEF WindowInv
    <2>3. CASE ~ s.task
      <3>1. s' = [t EXCEPT !.timer = TRUE] /\ s.monitoring
        BY <1>3, <2>1, <2>3 DEF NetworkChanges
      <3> QED BY <1>1, <2>3, <3>1, NetworkResumes DEF WindowInv
    <2> QED BY <2>2, <2>3
  <1>4. CASE FinalizationTimesOut
    <2>1. s.active /\ s' = Settled(s, FALSE)
      BY <1>4 DEF FinalizationTimesOut
    <2> QED BY <1>1, <2>1, SettledBadly DEF WindowInv
  <1>5. CASE CloseGraceExpires
    <2> DEFINE t == [s EXCEPT !.closeTimer = FALSE]
    <2>1. Fine(t, inbox)
      BY <1>1, CloseTimerOff
    <2>2. s.closeTimer /\ s.closing
      BY <1>1, <1>5 DEF CloseGraceExpires, Fine, Sound, Ending
    <2>3. t.closing /\ t.window = "open"
      BY <1>1, <2>2 DEF Fine, State, Fields
    <2>4. CASE s' = Abandoned(t)
      BY <1>1, <2>1, <2>3, <2>4, AbandonedFine DEF WindowInv
    <2>5. CASE s' = ClosedIfIdle(t)
      BY <1>1, <2>1, <2>5, ClosedIfIdleFine DEF WindowInv
    <2> QED BY <1>5, <2>4, <2>5 DEF CloseGraceExpires
  <1>6. CASE PostedClose
    <2> DEFINE t == [s EXCEPT !.closePosted = FALSE]
    <2>1. Fine(t, inbox)
      BY <1>1, ClosePostedOff
    <2>2. s.closePosted /\ s.closing /\ s.modal = "none"
      BY <1>1, <1>6 DEF PostedClose, Fine, Sound, Ending
    <2>3. t.modal = "none" /\ t.window = "open"
      BY <1>1, <2>2 DEF Fine, State, Fields
    <2>4. s' = CloseEvent(t)
      BY <1>6 DEF PostedClose
    <2> QED BY <1>1, <2>1, <2>3, <2>4, CloseEventFine DEF WindowInv
  <1> QED BY <1>2, <1>3, <1>4, <1>5, <1>6

-----------------------------------------------------------------------------
(* What the handlers of the signals preserve                                *)

(* _cancel_active_work leaves the query and the closing to others.          *)
LEMMA CancelledKeeps ==
    ASSUME NEW t, NEW q, Fine(t, q), NEW byUser \in BOOLEAN
    PROVE  /\ Cancelled(t, byUser).task = t.task
           /\ Cancelled(t, byUser).closing = t.closing
  <1> DEFINE u == Cancelled(t, byUser)
  <1>1. Only(t, u, {"monitoring", "timer", "token", "userCancel", "pending",
                    "dialog", "requested", "active", "finalizer"})
    BY CancelledEffect DEF Fine
  <1> HIDE DEF u
  <1>2. u.task = t.task /\ u.closing = t.closing
    BY <1>1 DEF Only, Fields
  <1> QED BY <1>2 DEF u

(* A result is displayed (_task_succeeded).                                 *)
LEMMA DisplayFine ==
    ASSUME NEW t, NEW q, Fine(t, q), t.window = "open", NEW outcome
    PROVE  Fine(Display(t, outcome), q)
  <1> DEFINE u == IF t.monitoring THEN Cancelled(t, FALSE) ELSE t
  <1>1. Fine(u, q) /\ u.task = t.task /\ u.closing = t.closing
    BY CancelledFine, CancelledKeeps
  <1>2. CASE ~ t.task \/ t.closing \/ t.userCancel \/ t.environmentCancel
    BY <1>2 DEF Display
  <1>3. CASE ~ (~ t.task \/ t.closing \/ t.userCancel \/ t.environmentCancel)
    <2>1. Fine([u EXCEPT !.modal = "query"], q)
      BY <1>1, <1>3, QueryShown
    <2>2. CASE outcome = "fatal"
      <3>1. Display(t, outcome) = [u EXCEPT !.modal = "query"]
        BY <1>3, <2>2 DEF Display
      <3> QED BY <2>1, <3>1
    <2>3. CASE outcome = "host key unknown"
      <3>1. Display(t, outcome) = u
        BY <1>3, <2>3 DEF Display
      <3> QED BY <1>1, <3>1
    <2>4. CASE outcome # "fatal" /\ outcome # "host key unknown"
      <3>1. Display(t, outcome) = t
        BY <1>3, <2>4 DEF Display
      <3> QED BY <3>1
    <2> QED BY <2>2, <2>3, <2>4
  <1> QED BY <1>2, <1>3

(* A failure is displayed (_task_failed).                                   *)
LEMMA DisplayFailureFine ==
    ASSUME NEW t, NEW q, Fine(t, q), t.window = "open", NEW code
    PROVE  Fine(DisplayFailure(t, code), q)
  <1> DEFINE u == Cancelled(t, FALSE)
  <1>1. Fine(u, q) /\ u.task = t.task /\ u.closing = t.closing
    BY CancelledFine, CancelledKeeps
  <1> HIDE DEF u
  <1>2. ~ (~ t.task \/ t.closing \/ t.environmentCancel) =>
            Fine([u EXCEPT !.modal = "query"], q)
    BY <1>1, QueryShown
  <1> QED BY <1>1, <1>2 DEF DisplayFailure, u

(* _query_finished.                                                         *)
LEMMA FinishedFine ==
    ASSUME NEW t, NEW q, Fine(t, q), q # <<>>, Head(q)[1] = "finished",
           t.dialog # "made"
    PROVE  Fine(Finished(t), Tail(q))
  <1>1. CASE ~ t.task
    <2>1. Fine(t, Tail(q))
      BY <1>1, Deaf
    <2> QED BY <1>1, <2>1 DEF Finished
  <1>2. CASE t.task
    <2> DEFINE v == Withdrawn(t)
               u == [v EXCEPT !.task = FALSE, !.userCancel = FALSE,
                              !.environmentCancel = FALSE,
                              !.timer = t.monitoring /\ ~ t.closing]
    <2>1. Fine(u, Tail(q))
      BY <1>2, FinishedLeaves
    <2>2. State(v) /\ v.discards = t.discards
      <3>1. State(v) /\ Only(t, v, {"pending", "dialog"})
        BY WithdrawnEffect DEF Fine
      <3> HIDE DEF v
      <3> QED BY <3>1 DEF Only, Fields
    <2>3. t.discards = <<>>
      BY <1>2 DEF Fine, Sound, Exclusive
    <2>4. Finished(t) = ClosedIfIdle(Drained(u))
      BY <1>2 DEF Finished
    <2> HIDE DEF v
    <2>5. u.discards = <<>>
      BY <2>2, <2>3 DEF State, Fields
    <2>6. Drained(u) = u
      BY <2>5 DEF Drained
    <2> HIDE DEF u
    <2> QED BY <2>1, <2>4, <2>6, ClosedIfIdleFine
  <1> QED BY <1>1, <1>2

(* _history_refresh_finished.                                               *)
LEMMA HistoryReadFine ==
    ASSUME NEW t, NEW q, Fine(t, q), q # <<>>, Head(q)[1] = "history"
    PROVE  Fine(HistoryRead(t), Tail(q))
  <1>1. CASE ~ t.history
    <2>1. Fine(t, Tail(q))
      BY <1>1, Deaf
    <2> QED BY <1>1, <2>1 DEF HistoryRead
  <1>2. CASE t.history
    <2> DEFINE u == [t EXCEPT !.history = FALSE]
    <2>1. Fine(u, Tail(q))
      BY <1>2, HistoryLeaves
    <2>2. u.discards = <<>>
      BY <1>2 DEF Fine, Sound, Exclusive, State, Fields
    <2>3. Drained(u) = u
      BY <2>2 DEF Drained
    <2> QED BY <1>2, <2>1, <2>3, ClosedIfIdleFine DEF HistoryRead
  <1> QED BY <1>1, <1>2

(* A storage task has the window to itself.                                 *)
LEMMA StorageAlone ==
    ASSUME NEW t, NEW q, Fine(t, q), t.storage # "none"
    PROVE  /\ t.discards = <<>> /\ t.modal = "none" /\ ~ t.task
           /\ ~ t.monitoring /\ ~ t.history
  BY DEF Fine, Sound, Exclusive

(* The box of a storage task that is over, unless the window is closing.    *)
LEMMA BoxedFine ==
    ASSUME NEW t, NEW q, Fine(t, q), t.storage = "none", t.modal = "none",
           t.discards = <<>>, ~ t.task, ~ t.monitoring, ~ t.history
    PROVE  Fine(Boxed(t), q)
  <1>1. CASE t.closing
    <2>1. Drained(t) = t
      BY DEF Drained
    <2> QED BY <1>1, <2>1, ClosedIfIdleFine DEF Boxed
  <1>2. CASE ~ t.closing
    BY <1>2, BoxShown DEF Boxed
  <1> QED BY <1>1, <1>2

(* After a preview is settled there is none to give back.                   *)
LEMMA SettlingGoesOn ==
    ASSUME NEW t, NEW q, Fine(t, q),
           q # <<>>, Head(q)[1] \in {"storage done", "storage failed"},
           t.storage \in {"delete-commit", "delete-discard"},
           NEW u, u = [[t EXCEPT !.storage = "none"] EXCEPT
                          !.previews[t.subject] = "settled"]
    PROVE  /\ Fine(u, Tail(q)) /\ u.discards = <<>> /\ u.modal = "none"
           /\ u.window = t.window /\ Drained(u) = u
           /\ Fine(ClosedIfIdle(Drained(u)), Tail(q))
  <1>1. Fine(u, Tail(q))
    BY Settling
  <1>2. u.discards = <<>> /\ u.modal = "none" /\ u.window = t.window
    BY StorageAlone DEF Fine, State, Fields
  <1>3. Drained(u) = u
    BY <1>2 DEF Drained
  <1> QED BY <1>1, <1>2, <1>3, ClosedIfIdleFine

(* After an export or a preview that came to nothing.                       *)
LEMMA LeavingGoesOn ==
    ASSUME NEW t, NEW q, Fine(t, q),
           q # <<>>, Head(q)[1] \in {"storage done", "storage failed"},
           t.storage \in {"export", "delete-preview"}
    PROVE  Fine(Boxed([t EXCEPT !.storage = "none"]), Tail(q))
  <1> DEFINE u == [t EXCEPT !.storage = "none"]
  <1>1. Fine(u, Tail(q))
    BY StorageLeaves
  <1>2. /\ u.discards = <<>> /\ u.modal = "none" /\ ~ u.task
        /\ ~ u.monitoring /\ ~ u.history /\ u.storage = "none"
    BY StorageAlone DEF Fine, State, Fields
  <1> HIDE DEF u
  <1>3. Fine(Boxed(u), Tail(q))
    BY <1>1, <1>2, BoxedFine
  <1> QED BY <1>3 DEF u

(* _storage_task_succeeded, of every task.                                  *)
LEMMA StorageDoneFine ==
    ASSUME NEW t, NEW q, Fine(t, q), t.window = "open",
           q # <<>>, Head(q)[1] = "storage done"
    PROVE  Fine(StorageDone(t), Tail(q))
  <1> DEFINE u == [t EXCEPT !.storage = "none"]
             p == t.subject
  <1>0. t.storage \in StorageTasks \cup {"none"}
    BY DEF Fine, State
  <1>1. CASE t.storage = "none"
    <2>1. Fine(t, Tail(q))
      BY <1>1, Deaf
    <2>2. StorageDone(t) = t
      BY <1>1 DEF StorageDone
    <2> QED BY <2>1, <2>2
  <1>2. CASE t.storage = "delete-preview" /\ t.closing
    <2>1. Fine(Drained(Queued(u, p)), Tail(q))
      BY <1>2, PreviewReturned, DrainedFine
    <2>2. StorageDone(t) = ClosedIfIdle(Drained(Queued(u, p)))
      BY <1>2 DEF StorageDone
    <2> QED BY <2>1, <2>2, ClosedIfIdleFine
  <1>3. CASE t.storage = "delete-preview" /\ ~ t.closing
    <2>1. StorageDone(t) =
              [u EXCEPT !.modal = "confirm", !.previews[p] = "offered"]
      BY <1>3 DEF StorageDone
    <2>2. Fine([u EXCEPT !.modal = "confirm", !.previews[p] = "offered"],
               Tail(q))
      BY <1>3, PreviewOffered
    <2> QED BY <2>1, <2>2
  <1>4. CASE t.storage = "delete-commit"
    <2> DEFINE v == [u EXCEPT !.previews[p] = "settled"]
    <2>1. StorageDone(t) = ClosedIfIdle(Drained(
              IF Available(v) /\ ~ v.history /\ v.reads < MaxReads
              THEN Reading(v) ELSE v))
      BY <1>4 DEF StorageDone
    <2> HIDE DEF u, p
    <2>2. /\ Fine(v, Tail(q)) /\ v.discards = <<>> /\ v.modal = "none"
          /\ v.window = "open" /\ Fine(ClosedIfIdle(Drained(v)), Tail(q))
      BY ZenonT(30), <1>4, SettlingGoesOn DEF u, p
    <2> HIDE DEF v
    <2>3. CASE Available(v) /\ ~ v.history
      <3>1. Fine(Reading(v), Tail(q))
        BY <2>2, <2>3, ReadingFine
      <3>2. Reading(v).discards = <<>>
        BY <2>2 DEF Reading, Fine, State, Fields
      <3>3. Drained(Reading(v)) = Reading(v)
        BY <3>2 DEF Drained
      <3>4. Fine(ClosedIfIdle(Drained(Reading(v))), Tail(q))
        BY <3>1, <3>3, ClosedIfIdleFine
      <3> QED BY <2>1, <2>2, <3>4
    <2>4. CASE ~ (Available(v) /\ ~ v.history)
      BY <2>1, <2>2, <2>4
    <2> QED BY <2>3, <2>4
  <1>5. CASE t.storage = "delete-discard"
    <2>1. StorageDone(t) =
              ClosedIfIdle(Drained([u EXCEPT !.previews[p] = "settled"]))
      BY <1>5 DEF StorageDone
    <2> QED BY <1>5, <2>1, SettlingGoesOn
  <1>6. CASE t.storage = "export"
    <2>1. StorageDone(t) = Boxed(u)
      BY <1>6 DEF StorageDone
    <2> QED BY <1>6, <2>1, LeavingGoesOn
  <1> QED BY <1>0, <1>1, <1>2, <1>3, <1>4, <1>5, <1>6 DEF StorageTasks

(* _storage_task_failed, of every task.                                     *)
LEMMA StorageFailedFine ==
    ASSUME NEW t, NEW q, Fine(t, q), t.window = "open",
           q # <<>>, Head(q)[1] = "storage failed"
    PROVE  Fine(StorageFailed(t), Tail(q))
  <1> DEFINE u == [t EXCEPT !.storage = "none"]
             p == t.subject
  <1>0. t.storage \in StorageTasks \cup {"none"}
    BY DEF Fine, State
  <1>1. CASE t.storage = "none"
    <2>1. Fine(t, Tail(q))
      BY <1>1, Deaf
    <2>2. StorageFailed(t) = t
      BY <1>1 DEF StorageFailed
    <2> QED BY <2>1, <2>2
  <1>2. CASE t.storage = "delete-commit"
    <2> DEFINE v == Queued(u, p)
    <2>1. StorageFailed(t) = Boxed(v)
      BY <1>2 DEF StorageFailed
    <2>2. v.closing = t.closing
      BY DEF Queued, Fine, State, Fields
    <2>3. Loose(v, Tail(q))
      BY <1>2, PreviewReturned
    <2>4. ~ t.closing => Fine([v EXCEPT !.modal = "storage"], Tail(q))
      BY <1>2, DeletionFails
    <2> HIDE DEF v
    <2>5. Fine(ClosedIfIdle(Drained(v)), Tail(q))
      BY <2>3, DrainedFine, ClosedIfIdleFine
    <2> QED BY <2>1, <2>2, <2>4, <2>5 DEF Boxed
  <1>3. CASE t.storage = "delete-discard"
    <2>1. StorageFailed(t) =
              ClosedIfIdle(Drained([u EXCEPT !.previews[p] = "settled"]))
      BY <1>3 DEF StorageFailed
    <2> QED BY <1>3, <2>1, SettlingGoesOn
  <1>4. CASE t.storage \in {"export", "delete-preview"}
    <2>1. StorageFailed(t) = Boxed(u)
      BY <1>4 DEF StorageFailed
    <2> QED BY <1>4, <2>1, LeavingGoesOn
  <1> QED BY <1>0, <1>1, <1>2, <1>3, <1>4 DEF StorageTasks

(* Signals by kind.                                                         *)
LEMMA SignalKinds ==
    ASSUME NEW x \in Signal
    PROVE  /\ x[1] \in {"finished", "history", "storage done",
                       "storage failed", "dismiss", "request", "succeeded",
                       "failed", "finalized"}
           /\ x[1] = "finalized" => x[2] \in BOOLEAN
           /\ x[1] = "dismiss" => x = <<"dismiss">>
  <1>1. CASE x \in {<<"finished">>, <<"history">>, <<"storage done">>,
                   <<"storage failed">>, <<"dismiss">>, <<"request">>}
    <2>1. /\ <<"finished">>[1] = "finished" /\ <<"history">>[1] = "history"
          /\ <<"storage done">>[1] = "storage done"
          /\ <<"storage failed">>[1] = "storage failed"
          /\ <<"dismiss">>[1] = "dismiss" /\ <<"request">>[1] = "request"
      OBVIOUS
    <2> QED BY <1>1, <2>1, Zenon
  <1>2. CASE x \in {"succeeded", "failed"} \X
                   {"shown", "fatal", "host key unknown", "error", "cancelled"}
    BY <1>2
  <1>3. CASE x \in {"finalized"} \X BOOLEAN
    BY <1>3
  <1> QED BY <1>1, <1>2, <1>3 DEF Signal

(* The first signal is delivered to its handler.                            *)
LEMMA HandleSignalStep == WindowInv /\ HandleSignal => WindowInv'
  <1> SUFFICES ASSUME WindowInv, HandleSignal PROVE WindowInv'
    OBVIOUS
  <1> DEFINE x == Head(inbox)
  <1>1. /\ Fine(s, inbox) /\ s.window = "open" /\ s.dialog # "made"
        /\ inbox # <<>> /\ s' = Handled(s, x) /\ inbox' = Tail(inbox)
    BY DEF WindowInv, HandleSignal, Looping
  <1>2. x \in Signal
    BY <1>1, Delivery DEF Fine
  <1>3. SUFFICES Fine(Handled(s, x), Tail(inbox))
    BY <1>1 DEF WindowInv
  <1> HIDE DEF x
  <1>4. /\ x[1] \in {"finished", "history", "storage done", "storage failed",
                     "dismiss", "request", "succeeded", "failed", "finalized"}
        /\ x[1] = "finalized" => x[2] \in BOOLEAN
    BY <1>2, SignalKinds
  <1>5. CASE x[1] \in {"succeeded", "failed"}
    <2>1. Fine(s, Tail(inbox))
      BY <1>1, <1>5, Deaf DEF x
    <2>2. x[1] = "succeeded" => Handled(s, x) = Display(s, x[2])
      BY DEF Handled
    <2>3. x[1] = "failed" => Handled(s, x) = DisplayFailure(s, x[2])
      BY DEF Handled
    <2> QED BY <1>1, <1>5, <2>1, <2>2, <2>3, DisplayFine, DisplayFailureFine
  <1>6. CASE x[1] = "finished"
    <2>1. Handled(s, x) = Finished(s)
      BY <1>6 DEF Handled
    <2> QED BY <1>1, <1>6, <2>1, FinishedFine DEF x
  <1>7. CASE x[1] = "history"
    <2>1. Handled(s, x) = HistoryRead(s)
      BY <1>7 DEF Handled
    <2> QED BY <1>1, <1>7, <2>1, HistoryReadFine DEF x
  <1>8. CASE x[1] = "storage done"
    <2>1. Handled(s, x) = StorageDone(s)
      BY <1>8 DEF Handled
    <2> QED BY <1>1, <1>8, <2>1, StorageDoneFine DEF x
  <1>9. CASE x[1] = "storage failed"
    <2>1. Handled(s, x) = StorageFailed(s)
      BY <1>9 DEF Handled
    <2> QED BY <1>1, <1>9, <2>1, StorageFailedFine DEF x
  <1>10. CASE x[1] = "finalized"
    <2>1. Handled(s, x) = IF s.active THEN Settled(s, x[2]) ELSE s
      BY <1>10 DEF Handled
    <2>2. ~ s.active => Fine(s, Tail(inbox))
      BY <1>1, <1>10, Deaf DEF x
    <2>3. s.active => Fine(Settled(s, x[2]), Tail(inbox))
      BY <1>1, <1>4, <1>10, SettledInTime DEF x
    <2> QED BY <2>1, <2>2, <2>3
  <1>11. CASE x[1] = "dismiss"
    <2>1. Handled(s, x) = Dismissed(s)
      BY <1>11 DEF Handled
    <2> QED BY <1>1, <1>11, <2>1, DismissedFine DEF x
  <1>12. CASE x[1] = "request"
    <2>1. Handled(s, x) =
              IF s.pending THEN [s EXCEPT !.dialog = "made"] ELSE s
      BY <1>12 DEF Handled
    <2>2. Fine(s, Tail(inbox))
      BY <1>1, <1>12, Deaf DEF x
    <2>3. s.pending => Fine([s EXCEPT !.dialog = "made"], Tail(inbox))
      BY <1>1, <1>12, RequestMade DEF x
    <2> QED BY <2>1, <2>2, <2>3
  <1> QED BY <1>4, <1>5, <1>6, <1>7, <1>8, <1>9, <1>10, <1>11, <1>12

-----------------------------------------------------------------------------
(* The steps of the threads                                                 *)

(* The query thread meets an unknown host key and asks.                     *)
LEMMA AskStep == WindowInv /\ Ask => WindowInv'
  <1> SUFFICES ASSUME WindowInv, Ask PROVE WindowInv'
    OBVIOUS
  <1>1. State(s) /\ inbox \in Seq(Signal) /\ Sound(s, inbox)
    BY DEF WindowInv, Fine
  <1>2. s.query = "working" /\ ~ s.asked
    BY DEF Ask
  <1>3. /\ s' = [s EXCEPT !.query = "asking", !.asked = TRUE]
        /\ UNCHANGED inbox
    BY <1>2 DEF Ask
  <1> QED
    <2>1. State(s')
      BY <1>1, <1>2, <1>3
         DEF State, Fields, StorageTasks, Quiet, QueryState, PreviewState
    <2>2. /\ Only(s, s', {"query", "asked"})
         /\ s'.query = "asking" /\ s'.asked = TRUE
      BY <1>1, <1>2, <1>3 DEF State, Fields, Only
    <2>3. Scheduled(s') /\ Ending(s') /\ Finalizing(s', inbox') /\ Storing(s',
          inbox') /\ Exclusive(s')
      BY <1>1, <1>2, <1>3, <2>1, <2>2
         DEF Sound, Only, Fields, Scheduled, Available, Ending, Working,
             Finalizing, Storing, Exclusive, StorageTasks
    <2>4. Querying(s', inbox')
      BY <1>1, <1>2, <1>3, <2>1, <2>2, Fewer
         DEF Sound, Only, Fields, Querying
    <2>5. Asking(s', inbox')
      BY <1>1, <1>2, <1>3, <2>1, <2>2, Fewer
         DEF Sound, Only, Fields, Asking, Quiet
    <2>6. Previewed(s')
      <3>1. /\ s'.storage = s.storage /\ s'.modal = s.modal
            /\ s'.subject = s.subject /\ s'.deferred = s.deferred
            /\ s'.previews = s.previews /\ s'.discards = s.discards
        BY <1>3 DEF Only, Fields
      <3>2. Previewed(s)
        BY <1>1, <1>2 DEF Sound
      <3> QED BY <3>1, <3>2, PreviewsStay, Zenon
    <2> QED BY <1>1, <1>2, <1>3, <2>1, <2>3, <2>4, <2>5, <2>6
            DEF WindowInv, Fine, Sound

(* The approvals admit a request, unless they are shutting.                 *)
LEMMA AdmitStep == WindowInv /\ Admit => WindowInv'
  <1> SUFFICES ASSUME WindowInv, Admit PROVE WindowInv'
    OBVIOUS
  <1>1. State(s) /\ inbox \in Seq(Signal) /\ Sound(s, inbox)
    BY DEF WindowInv, Fine
  <1>2. s.query = "asking"
    BY DEF Admit
  <1>3. \/ /\ s.shutting
           /\ s' = [s EXCEPT !.query = "working"]
           /\ UNCHANGED inbox
        \/ /\ ~ s.shutting
           /\ s' = [s EXCEPT !.query = "admitted", !.pending = TRUE]
           /\ UNCHANGED inbox
    BY <1>2 DEF Admit
  <1>4. CASE /\ s.shutting
                 /\ s' = [s EXCEPT !.query = "working"]
                 /\ UNCHANGED inbox
    <2>1. State(s')
      BY ZenonT(30), <1>1, <1>2, <1>4
         DEF State, Fields, StorageTasks, Quiet, QueryState, PreviewState
    <2>2. /\ Only(s, s', {"query"})
         /\ s'.query = "working"
      BY <1>1, <1>2, <1>4 DEF State, Fields, Only
    <2>3. Scheduled(s') /\ Ending(s') /\ Finalizing(s', inbox') /\ Storing(s',
          inbox') /\ Exclusive(s')
      BY <1>1, <1>2, <1>4, <2>1, <2>2
         DEF Sound, Only, Fields, Scheduled, Available, Ending, Working,
             Finalizing, Storing, Exclusive, StorageTasks
    <2>4. Querying(s', inbox')
      BY <1>1, <1>2, <1>4, <2>1, <2>2, Fewer
         DEF Sound, Only, Fields, Querying
    <2>5. Asking(s', inbox')
      BY <1>1, <1>2, <1>4, <2>1, <2>2, Fewer
         DEF Sound, Only, Fields, Asking, Quiet
    <2>6. Previewed(s')
      <3>1. /\ s'.storage = s.storage /\ s'.modal = s.modal
            /\ s'.subject = s.subject /\ s'.deferred = s.deferred
            /\ s'.previews = s.previews /\ s'.discards = s.discards
        BY <1>1, <1>2, <1>4, <2>1, <2>2 DEF Only, Fields
      <3>2. Previewed(s)
        BY <1>1, <1>2 DEF Sound
      <3> QED BY <3>1, <3>2, PreviewsStay, Zenon
    <2> QED BY <1>1, <1>2, <1>4, <2>1, <2>3, <2>4, <2>5, <2>6
            DEF WindowInv, Fine, Sound
  <1>5. CASE /\ ~ s.shutting
                 /\ s' = [s EXCEPT !.query = "admitted", !.pending = TRUE]
                 /\ UNCHANGED inbox
    <2>1. State(s')
      BY <1>1, <1>2, <1>5
         DEF State, Fields, StorageTasks, Quiet, QueryState, PreviewState
    <2>2. /\ Only(s, s', {"query", "pending"})
         /\ s'.query = "admitted" /\ s'.pending = TRUE
      BY <1>1, <1>2, <1>5 DEF State, Fields, Only
    <2>3. Scheduled(s') /\ Finalizing(s', inbox') /\ Storing(s', inbox') /\
          Exclusive(s')
      BY <1>1, <1>2, <1>5, <2>1, <2>2
         DEF Sound, Only, Fields, Scheduled, Available, Finalizing, Storing,
             Exclusive, StorageTasks
    <2>4. Ending(s')
      BY <1>1, <1>2, <1>5, <2>1, <2>2
         DEF Sound, Only, Fields, Ending, Working
    <2>5. Querying(s', inbox')
      BY <1>1, <1>2, <1>5, <2>1, <2>2, Fewer
         DEF Sound, Only, Fields, Querying
    <2>6. Asking(s', inbox')
      BY <1>1, <1>2, <1>5, <2>1, <2>2, Fewer
         DEF Sound, Only, Fields, Asking, Quiet
    <2>7. Previewed(s')
      <3>1. /\ s'.storage = s.storage /\ s'.modal = s.modal
            /\ s'.subject = s.subject /\ s'.deferred = s.deferred
            /\ s'.previews = s.previews /\ s'.discards = s.discards
        BY <1>1, <1>2, <1>5, <2>1, <2>2 DEF Only, Fields
      <3>2. Previewed(s)
        BY <1>1, <1>2 DEF Sound
      <3> QED BY <3>1, <3>2, PreviewsStay, Zenon
    <2> QED BY <1>1, <1>2, <1>5, <2>1, <2>3, <2>4, <2>5, <2>6, <2>7
            DEF WindowInv, Fine, Sound
  <1> QED BY <1>3, <1>4, <1>5

(* The admitted request is put to the window, unless it is withdrawn at     *)
(* once.                                                                    *)
LEMMA ShowStep == WindowInv /\ Show => WindowInv'
  <1> SUFFICES ASSUME WindowInv, Show PROVE WindowInv'
    OBVIOUS
  <1>1. State(s) /\ inbox \in Seq(Signal) /\ Sound(s, inbox)
    BY DEF WindowInv, Fine
  <1>2. s.query = "admitted"
    BY DEF Show
  <1>3. \/ /\ s' = [s EXCEPT !.query = "working", !.pending = FALSE]
           /\ UNCHANGED inbox
        \/ /\ s' = [s EXCEPT !.query = "waiting"]
           /\ Joined(inbox, inbox', "request")
    BY <1>2 DEF Show, Emit, Joined, Signal
  <1>4. CASE /\ s' = [s EXCEPT !.query = "working", !.pending = FALSE]
                 /\ UNCHANGED inbox
    <2>1. State(s')
      BY <1>1, <1>2, <1>4
         DEF State, Fields, StorageTasks, Quiet, QueryState, PreviewState
    <2>2. /\ Only(s, s', {"query", "pending"})
         /\ s'.query = "working" /\ s'.pending = FALSE
      BY <1>1, <1>2, <1>4 DEF State, Fields, Only
    <2>3. Scheduled(s') /\ Finalizing(s', inbox') /\ Storing(s', inbox') /\
          Exclusive(s')
      BY <1>1, <1>2, <1>4, <2>1, <2>2
         DEF Sound, Only, Fields, Scheduled, Available, Finalizing, Storing,
             Exclusive, StorageTasks
    <2>4. Ending(s')
      BY <1>1, <1>2, <1>4, <2>1, <2>2
         DEF Sound, Only, Fields, Ending, Working
    <2>5. Querying(s', inbox')
      BY <1>1, <1>2, <1>4, <2>1, <2>2, Fewer
         DEF Sound, Only, Fields, Querying
    <2>6. Asking(s', inbox')
      BY <1>1, <1>2, <1>4, <2>1, <2>2, Fewer
         DEF Sound, Only, Fields, Asking, Quiet
    <2>7. Previewed(s')
      <3>1. /\ s'.storage = s.storage /\ s'.modal = s.modal
            /\ s'.subject = s.subject /\ s'.deferred = s.deferred
            /\ s'.previews = s.previews /\ s'.discards = s.discards
        BY <1>1, <1>2, <1>4, <2>1, <2>2 DEF Only, Fields
      <3>2. Previewed(s)
        BY <1>1, <1>2 DEF Sound
      <3> QED BY <3>1, <3>2, PreviewsStay, Zenon
    <2> QED BY <1>1, <1>2, <1>4, <2>1, <2>3, <2>4, <2>5, <2>6, <2>7
            DEF WindowInv, Fine, Sound
  <1>5. CASE /\ s' = [s EXCEPT !.query = "waiting"]
                 /\ Joined(inbox, inbox', "request")
    <2>1. State(s')
      BY <1>1, <1>2, <1>5
         DEF State, Fields, StorageTasks, Quiet, QueryState, PreviewState
    <2>2. /\ Only(s, s', {"query"})
         /\ s'.query = "waiting"
      BY <1>1, <1>2, <1>5 DEF State, Fields, Only
    <2>3. Heard(inbox, inbox', "request")
      BY <1>1, <1>2, <1>5, Sending
    <2>4. Scheduled(s') /\ Ending(s') /\ Exclusive(s')
      BY <1>1, <1>2, <1>5, <2>1, <2>2
         DEF Sound, Only, Fields, Scheduled, Available, Ending, Working,
             Exclusive, StorageTasks
    <2>5. Finalizing(s', inbox')
      BY <1>1, <1>2, <1>5, <2>1, <2>2, <2>3
         DEF Sound, Only, Fields, Heard, Same, Finalizing
    <2>6. Querying(s', inbox')
      BY <1>1, <1>2, <1>5, <2>1, <2>2, <2>3, Fewer
         DEF Sound, Only, Fields, Heard, Same, Unspoken, Querying
    <2>7. Asking(s', inbox')
      BY <1>1, <1>2, <1>5, <2>1, <2>2, <2>3, Fewer
         DEF Sound, Only, Fields, Heard, Same, Unspoken, Asking, Quiet
    <2>8. Storing(s', inbox')
      BY <1>1, <1>2, <1>5, <2>1, <2>2, <2>3
         DEF Sound, Only, Fields, Heard, Same, Storing
    <2>9. Previewed(s')
      <3>1. /\ s'.storage = s.storage /\ s'.modal = s.modal
            /\ s'.subject = s.subject /\ s'.deferred = s.deferred
            /\ s'.previews = s.previews /\ s'.discards = s.discards
        BY <1>1, <1>2, <1>5, <2>1, <2>2 DEF Only, Fields
      <3>2. Previewed(s)
        BY <1>1, <1>2 DEF Sound
      <3> QED BY <3>1, <3>2, PreviewsStay, Zenon
    <2> QED BY <1>1, <1>2, <1>5, <2>1, <2>3, <2>4, <2>5, <2>6, <2>7, <2>8,
               <2>9 DEF WindowInv, Fine, Sound, Heard
  <1> QED BY <1>3, <1>4, <1>5

(* The query thread takes the answer.                                       *)
LEMMA AnsweredStep == WindowInv /\ Answered => WindowInv'
  <1> SUFFICES ASSUME WindowInv, Answered PROVE WindowInv'
    OBVIOUS
  <1>1. State(s) /\ inbox \in Seq(Signal) /\ Sound(s, inbox)
    BY DEF WindowInv, Fine
  <1>2. s.query = "waiting" /\ ~ s.pending
    BY DEF Answered
  <1>3. /\ s' = [s EXCEPT !.query = "working"]
        /\ UNCHANGED inbox
    BY <1>2 DEF Answered
  <1> QED
    <2>1. State(s')
      BY <1>1, <1>2, <1>3
         DEF State, Fields, StorageTasks, Quiet, QueryState, PreviewState
    <2>2. /\ Only(s, s', {"query"})
         /\ s'.query = "working"
      BY <1>1, <1>2, <1>3 DEF State, Fields, Only
    <2>3. Scheduled(s') /\ Ending(s') /\ Finalizing(s', inbox') /\ Storing(s',
          inbox') /\ Exclusive(s')
      BY <1>1, <1>2, <1>3, <2>1, <2>2
         DEF Sound, Only, Fields, Scheduled, Available, Ending, Working,
             Finalizing, Storing, Exclusive, StorageTasks
    <2>4. Querying(s', inbox')
      BY <1>1, <1>2, <1>3, <2>1, <2>2, Fewer
         DEF Sound, Only, Fields, Querying
    <2>5. Asking(s', inbox')
      BY <1>1, <1>2, <1>3, <2>1, <2>2, Fewer
         DEF Sound, Only, Fields, Asking, Quiet
    <2>6. Previewed(s')
      <3>1. /\ s'.storage = s.storage /\ s'.modal = s.modal
            /\ s'.subject = s.subject /\ s'.deferred = s.deferred
            /\ s'.previews = s.previews /\ s'.discards = s.discards
        BY <1>3 DEF Only, Fields
      <3>2. Previewed(s)
        BY <1>1, <1>2 DEF Sound
      <3> QED BY <3>1, <3>2, PreviewsStay, Zenon
    <2> QED BY <1>1, <1>2, <1>3, <2>1, <2>3, <2>4, <2>5, <2>6
            DEF WindowInv, Fine, Sound

(* The request times out, or the query is cancelled.                        *)
LEMMA GiveUpStep == WindowInv /\ GiveUp => WindowInv'
  <1> SUFFICES ASSUME WindowInv, GiveUp PROVE WindowInv'
    OBVIOUS
  <1>1. State(s) /\ inbox \in Seq(Signal) /\ Sound(s, inbox)
    BY DEF WindowInv, Fine
  <1>2. s.query = "waiting" /\ s.pending
    BY DEF GiveUp
  <1>3. /\ s' = [s EXCEPT !.query = "dismissing", !.pending = FALSE]
        /\ UNCHANGED inbox
    BY <1>2 DEF GiveUp
  <1> QED
    <2>1. State(s')
      BY <1>1, <1>2, <1>3
         DEF State, Fields, StorageTasks, Quiet, QueryState, PreviewState
    <2>2. /\ Only(s, s', {"query", "pending"})
         /\ s'.query = "dismissing" /\ s'.pending = FALSE
      BY <1>1, <1>2, <1>3 DEF State, Fields, Only
    <2>3. Scheduled(s') /\ Finalizing(s', inbox') /\ Storing(s', inbox') /\
          Exclusive(s')
      BY <1>1, <1>2, <1>3, <2>1, <2>2
         DEF Sound, Only, Fields, Scheduled, Available, Finalizing, Storing,
             Exclusive, StorageTasks
    <2>4. Ending(s')
      BY <1>1, <1>2, <1>3, <2>1, <2>2
         DEF Sound, Only, Fields, Ending, Working
    <2>5. Querying(s', inbox')
      BY <1>1, <1>2, <1>3, <2>1, <2>2, Fewer
         DEF Sound, Only, Fields, Querying
    <2>6. Asking(s', inbox')
      BY <1>1, <1>2, <1>3, <2>1, <2>2, Fewer
         DEF Sound, Only, Fields, Asking, Quiet
    <2>7. Previewed(s')
      <3>1. /\ s'.storage = s.storage /\ s'.modal = s.modal
            /\ s'.subject = s.subject /\ s'.deferred = s.deferred
            /\ s'.previews = s.previews /\ s'.discards = s.discards
        BY <1>3 DEF Only, Fields
      <3>2. Previewed(s)
        BY <1>1, <1>2 DEF Sound
      <3> QED BY <3>1, <3>2, PreviewsStay, Zenon
    <2> QED BY <1>1, <1>2, <1>3, <2>1, <2>3, <2>4, <2>5, <2>6, <2>7
            DEF WindowInv, Fine, Sound

(* The thread that gave up tells the dialog.                                *)
LEMMA DismissStep == WindowInv /\ Dismiss => WindowInv'
  <1> SUFFICES ASSUME WindowInv, Dismiss PROVE WindowInv'
    OBVIOUS
  <1>1. State(s) /\ inbox \in Seq(Signal) /\ Sound(s, inbox)
    BY DEF WindowInv, Fine
  <1>2. s.query = "dismissing"
    BY DEF Dismiss
  <1>3. /\ s' = [s EXCEPT !.query = "working"]
        /\ Joined(inbox, inbox', "dismiss")
    BY <1>2 DEF Dismiss, Emit, Joined, Signal
  <1> QED
    <2>1. State(s')
      BY <1>1, <1>2, <1>3
         DEF State, Fields, StorageTasks, Quiet, QueryState, PreviewState
    <2>2. /\ Only(s, s', {"query"})
         /\ s'.query = "working"
      BY <1>1, <1>2, <1>3 DEF State, Fields, Only
    <2>3. Heard(inbox, inbox', "dismiss")
      BY <1>1, <1>2, <1>3, Sending
    <2>4. Scheduled(s') /\ Ending(s') /\ Finalizing(s', inbox') /\ Storing(s',
          inbox') /\ Exclusive(s') /\ Previewed(s')
      BY <1>1, <1>2, <2>2, <2>3
         DEF Sound, Only, Fields, Heard, Same, Scheduled, Available, Ending,
             Working, Finalizing, Storing, Exclusive, StorageTasks, Previewed
    <2>5. Querying(s', inbox')
      BY <1>1, <1>2, <1>3, <2>1, <2>2, <2>3, Fewer
         DEF Sound, Only, Fields, Heard, Same, Unspoken, Querying
    <2>6. Asking(s', inbox')
      BY <1>1, <1>2, <1>3, <2>1, <2>2, <2>3, Fewer
         DEF Sound, Only, Fields, Heard, Same, Unspoken, Asking, Quiet
    <2> QED BY <1>1, <1>2, <1>3, <2>1, <2>3, <2>4, <2>5, <2>6
            DEF WindowInv, Fine, Sound, Heard

(* The checks before the query.                                             *)
LEMMA PreflightStep == WindowInv /\ Preflight => WindowInv'
  <1> SUFFICES ASSUME WindowInv, Preflight PROVE WindowInv'
    OBVIOUS
  <1>1. State(s) /\ inbox \in Seq(Signal) /\ Sound(s, inbox)
    BY DEF WindowInv, Fine
  <1>2. s.query = "preflight"
    BY DEF Preflight
  <1>3. \/ /\ s' = [s EXCEPT !.query = "working"]
           /\ UNCHANGED inbox
        \/ /\ s' = [s EXCEPT !.query = "leaving"]
           /\ Joined(inbox, inbox', "failed")
    BY <1>2 DEF Preflight, Emit, Joined, Signal
  <1>4. CASE /\ s' = [s EXCEPT !.query = "working"]
                 /\ UNCHANGED inbox
    <2>1. State(s')
      BY <1>1, <1>2, <1>4
         DEF State, Fields, StorageTasks, Quiet, QueryState, PreviewState
    <2>2. /\ Only(s, s', {"query"})
         /\ s'.query = "working"
      BY <1>1, <1>2, <1>4 DEF State, Fields, Only
    <2>3. Scheduled(s') /\ Ending(s') /\ Finalizing(s', inbox') /\ Storing(s',
          inbox') /\ Exclusive(s')
      BY <1>1, <1>2, <1>4, <2>1, <2>2
         DEF Sound, Only, Fields, Scheduled, Available, Ending, Working,
             Finalizing, Storing, Exclusive, StorageTasks
    <2>4. Querying(s', inbox')
      BY <1>1, <1>2, <1>4, <2>1, <2>2, Fewer
         DEF Sound, Only, Fields, Querying
    <2>5. Asking(s', inbox')
      BY <1>1, <1>2, <1>4, <2>1, <2>2, Fewer
         DEF Sound, Only, Fields, Asking, Quiet
    <2>6. Previewed(s')
      <3>1. /\ s'.storage = s.storage /\ s'.modal = s.modal
            /\ s'.subject = s.subject /\ s'.deferred = s.deferred
            /\ s'.previews = s.previews /\ s'.discards = s.discards
        BY <1>1, <1>2, <1>4, <2>1, <2>2 DEF Only, Fields
      <3>2. Previewed(s)
        BY <1>1, <1>2 DEF Sound
      <3> QED BY <3>1, <3>2, PreviewsStay, Zenon
    <2> QED BY <1>1, <1>2, <1>4, <2>1, <2>3, <2>4, <2>5, <2>6
            DEF WindowInv, Fine, Sound
  <1>5. CASE /\ s' = [s EXCEPT !.query = "leaving"]
                 /\ Joined(inbox, inbox', "failed")
    <2>1. State(s')
      BY <1>1, <1>2, <1>5
         DEF State, Fields, StorageTasks, Quiet, QueryState, PreviewState
    <2>2. /\ Only(s, s', {"query"})
         /\ s'.query = "leaving"
      BY <1>1, <1>2, <1>5 DEF State, Fields, Only
    <2>3. Heard(inbox, inbox', "failed")
      BY <1>1, <1>2, <1>5, Sending
    <2>4. Scheduled(s') /\ Ending(s') /\ Exclusive(s')
      BY <1>1, <1>2, <1>5, <2>1, <2>2
         DEF Sound, Only, Fields, Scheduled, Available, Ending, Working,
             Exclusive, StorageTasks
    <2>5. Finalizing(s', inbox')
      BY <1>1, <1>2, <1>5, <2>1, <2>2, <2>3
         DEF Sound, Only, Fields, Heard, Same, Finalizing
    <2>6. Querying(s', inbox')
      BY <1>1, <1>2, <1>5, <2>1, <2>2, <2>3, Fewer
         DEF Sound, Only, Fields, Heard, Same, Unspoken, Querying
    <2>7. Asking(s', inbox')
      BY <1>1, <1>2, <1>5, <2>1, <2>2, <2>3, Fewer
         DEF Sound, Only, Fields, Heard, Same, Unspoken, Asking, Quiet
    <2>8. Storing(s', inbox')
      BY <1>1, <1>2, <1>5, <2>1, <2>2, <2>3
         DEF Sound, Only, Fields, Heard, Same, Storing
    <2>9. Previewed(s')
      <3>1. /\ s'.storage = s.storage /\ s'.modal = s.modal
            /\ s'.subject = s.subject /\ s'.deferred = s.deferred
            /\ s'.previews = s.previews /\ s'.discards = s.discards
        BY <1>1, <1>2, <1>5, <2>1, <2>2 DEF Only, Fields
      <3>2. Previewed(s)
        BY <1>1, <1>2 DEF Sound
      <3> QED BY <3>1, <3>2, PreviewsStay, Zenon
    <2> QED BY <1>1, <1>2, <1>5, <2>1, <2>3, <2>4, <2>5, <2>6, <2>7, <2>8,
               <2>9 DEF WindowInv, Fine, Sound, Heard
  <1> QED BY <1>3, <1>4, <1>5

(* The query has a result or has failed.                                    *)
LEMMA QueryEndsStep == WindowInv /\ QueryEnds => WindowInv'
  <1> SUFFICES ASSUME WindowInv, QueryEnds PROVE WindowInv'
    OBVIOUS
  <1>1. State(s) /\ inbox \in Seq(Signal) /\ Sound(s, inbox)
    BY DEF WindowInv, Fine
  <1>2. s.query = "working"
    BY DEF QueryEnds
  <1>3. \/ /\ s' = [s EXCEPT !.query = "leaving"]
           /\ Joined(inbox, inbox', "succeeded")
        \/ /\ s' = [s EXCEPT !.query = "leaving"]
           /\ Joined(inbox, inbox', "failed")
    BY <1>2 DEF QueryEnds, Emit, Joined, Signal
  <1>4. CASE /\ s' = [s EXCEPT !.query = "leaving"]
                 /\ Joined(inbox, inbox', "succeeded")
    <2>1. State(s')
      BY <1>1, <1>2, <1>4
         DEF State, Fields, StorageTasks, Quiet, QueryState, PreviewState
    <2>2. /\ Only(s, s', {"query"})
         /\ s'.query = "leaving"
      BY <1>1, <1>2, <1>4 DEF State, Fields, Only
    <2>3. Heard(inbox, inbox', "succeeded")
      BY <1>1, <1>2, <1>4, Sending
    <2>4. Scheduled(s') /\ Ending(s') /\ Finalizing(s', inbox') /\ Storing(s',
          inbox') /\ Exclusive(s') /\ Previewed(s')
      BY <1>1, <1>2, <2>2, <2>3
         DEF Sound, Only, Fields, Heard, Same, Scheduled, Available, Ending,
             Working, Finalizing, Storing, Exclusive, StorageTasks, Previewed
    <2>5. Querying(s', inbox')
      BY <1>1, <1>2, <1>4, <2>1, <2>2, <2>3, Fewer
         DEF Sound, Only, Fields, Heard, Same, Unspoken, Querying
    <2>6. Asking(s', inbox')
      BY <1>1, <1>2, <1>4, <2>1, <2>2, <2>3, Fewer
         DEF Sound, Only, Fields, Heard, Same, Unspoken, Asking, Quiet
    <2> QED BY <1>1, <1>2, <1>4, <2>1, <2>3, <2>4, <2>5, <2>6
            DEF WindowInv, Fine, Sound, Heard
  <1>5. CASE /\ s' = [s EXCEPT !.query = "leaving"]
                 /\ Joined(inbox, inbox', "failed")
    <2>1. State(s')
      BY <1>1, <1>2, <1>5
         DEF State, Fields, StorageTasks, Quiet, QueryState, PreviewState
    <2>2. /\ Only(s, s', {"query"})
         /\ s'.query = "leaving"
      BY <1>1, <1>2, <1>5 DEF State, Fields, Only
    <2>3. Heard(inbox, inbox', "failed")
      BY <1>1, <1>2, <1>5, Sending
    <2>4. Scheduled(s') /\ Ending(s') /\ Finalizing(s', inbox') /\ Storing(s',
          inbox') /\ Exclusive(s') /\ Previewed(s')
      BY <1>1, <1>2, <2>2, <2>3
         DEF Sound, Only, Fields, Heard, Same, Scheduled, Available, Ending,
             Working, Finalizing, Storing, Exclusive, StorageTasks, Previewed
    <2>5. Querying(s', inbox')
      BY <1>1, <1>2, <1>5, <2>1, <2>2, <2>3, Fewer
         DEF Sound, Only, Fields, Heard, Same, Unspoken, Querying
    <2>6. Asking(s', inbox')
      BY <1>1, <1>2, <1>5, <2>1, <2>2, <2>3, Fewer
         DEF Sound, Only, Fields, Heard, Same, Unspoken, Asking, Quiet
    <2> QED BY <1>1, <1>2, <1>5, <2>1, <2>3, <2>4, <2>5, <2>6
            DEF WindowInv, Fine, Sound, Heard
  <1> QED BY <1>3, <1>4, <1>5

(* The query thread ends; finished is its last signal.                      *)
LEMMA QueryLeavesStep == WindowInv /\ QueryLeaves => WindowInv'
  <1> SUFFICES ASSUME WindowInv, QueryLeaves PROVE WindowInv'
    OBVIOUS
  <1>1. State(s) /\ inbox \in Seq(Signal) /\ Sound(s, inbox)
    BY DEF WindowInv, Fine
  <1>2. s.query = "leaving"
    BY DEF QueryLeaves
  <1>3. /\ s' = [s EXCEPT !.query = "none"]
        /\ Joined(inbox, inbox', "finished")
    BY <1>2 DEF QueryLeaves, Emit, Joined, Signal
  <1> QED
    <2>1. State(s')
      BY <1>1, <1>2, <1>3
         DEF State, Fields, StorageTasks, Quiet, QueryState, PreviewState
    <2>2. /\ Only(s, s', {"query"})
         /\ s'.query = "none"
      BY <1>1, <1>2, <1>3 DEF State, Fields, Only
    <2>3. Heard(inbox, inbox', "finished")
      BY <1>1, <1>2, <1>3, Sending
    <2>4. Scheduled(s') /\ Ending(s') /\ Finalizing(s', inbox') /\ Storing(s',
          inbox') /\ Exclusive(s') /\ Previewed(s')
      BY <1>1, <1>2, <2>2, <2>3
         DEF Sound, Only, Fields, Heard, Same, Scheduled, Available, Ending,
             Working, Finalizing, Storing, Exclusive, StorageTasks, Previewed
    <2>5. Querying(s', inbox')
      BY <1>1, <1>2, <1>3, <2>1, <2>2, <2>3, Fewer
         DEF Sound, Only, Fields, Heard, Same, Unspoken, Querying
    <2>6. Asking(s', inbox')
      BY <1>1, <1>2, <1>3, <2>1, <2>2, <2>3, Fewer
         DEF Sound, Only, Fields, Heard, Same, Unspoken, Asking, Quiet
    <2> QED BY <1>1, <1>2, <1>3, <2>1, <2>3, <2>4, <2>5, <2>6
            DEF WindowInv, Fine, Sound, Heard

(* The thread of a storage task ends.                                       *)
LEMMA StorageEndsStep == WindowInv /\ StorageEnds => WindowInv'
  <1> SUFFICES ASSUME WindowInv, StorageEnds PROVE WindowInv'
    OBVIOUS
  <1>1. State(s) /\ inbox \in Seq(Signal) /\ Sound(s, inbox)
    BY DEF WindowInv, Fine
  <1>2. s.storageThread = "working"
    BY DEF StorageEnds
  <1>3. \/ /\ s' = [s EXCEPT !.storageThread = "none"]
           /\ Joined(inbox, inbox', "storage done")
        \/ /\ s' = [s EXCEPT !.storageThread = "none"]
           /\ Joined(inbox, inbox', "storage failed")
    BY <1>2 DEF StorageEnds, Emit, Joined, Signal
  <1>4. CASE /\ s' = [s EXCEPT !.storageThread = "none"]
                 /\ Joined(inbox, inbox', "storage done")
    <2>1. State(s')
      BY ZenonT(30), <1>1, <1>2, <1>4
         DEF State, Fields, StorageTasks, Quiet, QueryState, PreviewState
    <2>2. /\ Only(s, s', {"storageThread"})
         /\ s'.storageThread = "none"
      BY <1>1, <1>2, <1>4 DEF State, Fields, Only
    <2>3. Heard(inbox, inbox', "storage done")
      BY <1>1, <1>2, <1>4, Sending
    <2>4. Scheduled(s') /\ Ending(s') /\ Finalizing(s', inbox') /\
          Querying(s', inbox') /\ Asking(s', inbox') /\ Exclusive(s') /\
          Previewed(s')
      BY <1>1, <1>2, <2>2, <2>3
         DEF Sound, Only, Fields, Heard, Same, Unspoken, Scheduled, Available,
             Ending, Working, Finalizing, Querying, Asking, Quiet, Exclusive,
             StorageTasks, Previewed
    <2>5. Storing(s', inbox')
      BY <1>1, <1>2, <1>4, <2>1, <2>2, <2>3
         DEF Sound, Only, Fields, Heard, Same, Storing
    <2> QED BY <1>1, <1>2, <1>4, <2>1, <2>3, <2>4, <2>5
            DEF WindowInv, Fine, Sound, Heard
  <1>5. CASE /\ s' = [s EXCEPT !.storageThread = "none"]
                 /\ Joined(inbox, inbox', "storage failed")
    <2>1. State(s')
      BY ZenonT(30), <1>1, <1>2, <1>5
         DEF State, Fields, StorageTasks, Quiet, QueryState, PreviewState
    <2>2. /\ Only(s, s', {"storageThread"})
         /\ s'.storageThread = "none"
      BY <1>1, <1>2, <1>5 DEF State, Fields, Only
    <2>3. Heard(inbox, inbox', "storage failed")
      BY <1>1, <1>2, <1>5, Sending
    <2>4. Scheduled(s') /\ Ending(s') /\ Finalizing(s', inbox') /\
          Querying(s', inbox') /\ Asking(s', inbox') /\ Exclusive(s') /\
          Previewed(s')
      BY <1>1, <1>2, <2>2, <2>3
         DEF Sound, Only, Fields, Heard, Same, Unspoken, Scheduled, Available,
             Ending, Working, Finalizing, Querying, Asking, Quiet, Exclusive,
             StorageTasks, Previewed
    <2>5. Storing(s', inbox')
      BY <1>1, <1>2, <1>5, <2>1, <2>2, <2>3
         DEF Sound, Only, Fields, Heard, Same, Storing
    <2> QED BY <1>1, <1>2, <1>5, <2>1, <2>3, <2>4, <2>5
            DEF WindowInv, Fine, Sound, Heard
  <1> QED BY <1>3, <1>4, <1>5

(* The reader of the history ends.                                          *)
LEMMA HistoryEndsStep == WindowInv /\ HistoryEnds => WindowInv'
  <1> SUFFICES ASSUME WindowInv, HistoryEnds PROVE WindowInv'
    OBVIOUS
  <1>1. State(s) /\ inbox \in Seq(Signal) /\ Sound(s, inbox)
    BY DEF WindowInv, Fine
  <1>2. s.historyThread = "working"
    BY DEF HistoryEnds
  <1>3. /\ s' = [s EXCEPT !.historyThread = "none"]
        /\ Joined(inbox, inbox', "history")
    BY <1>2 DEF HistoryEnds, Emit, Joined, Signal
  <1> QED
    <2>1. State(s')
      BY <1>1, <1>2, <1>3
         DEF State, Fields, StorageTasks, Quiet, QueryState, PreviewState
    <2>2. /\ Only(s, s', {"historyThread"})
         /\ s'.historyThread = "none"
      BY <1>1, <1>2, <1>3 DEF State, Fields, Only
    <2>3. Heard(inbox, inbox', "history")
      BY <1>1, <1>2, <1>3, Sending
    <2>4. Scheduled(s') /\ Ending(s') /\ Finalizing(s', inbox') /\
          Querying(s', inbox') /\ Asking(s', inbox') /\ Exclusive(s') /\
          Previewed(s')
      BY <1>1, <1>2, <2>2, <2>3
         DEF Sound, Only, Fields, Heard, Same, Unspoken, Scheduled, Available,
             Ending, Working, Finalizing, Querying, Asking, Quiet, Exclusive,
             StorageTasks, Previewed
    <2>5. Storing(s', inbox')
      BY <1>1, <1>2, <1>3, <2>1, <2>2, <2>3
         DEF Sound, Only, Fields, Heard, Same, Storing
    <2> QED BY <1>1, <1>2, <1>3, <2>1, <2>3, <2>4, <2>5
            DEF WindowInv, Fine, Sound, Heard

(* The finalization ends.                                                   *)
LEMMA FinalizerEndsStep == WindowInv /\ FinalizerEnds => WindowInv'
  <1> SUFFICES ASSUME WindowInv, FinalizerEnds PROVE WindowInv'
    OBVIOUS
  <1>1. State(s) /\ inbox \in Seq(Signal) /\ Sound(s, inbox)
    BY DEF WindowInv, Fine
  <1>2. s.finalizer = "working"
    BY DEF FinalizerEnds
  <1>3. /\ s' = [s EXCEPT !.finalizer = "none"]
        /\ Joined(inbox, inbox', "finalized")
    BY <1>2 DEF FinalizerEnds, Emit, Joined, Signal
  <1> QED
    <2>1. State(s')
      BY <1>1, <1>2, <1>3
         DEF State, Fields, StorageTasks, Quiet, QueryState, PreviewState
    <2>2. /\ Only(s, s', {"finalizer"})
         /\ s'.finalizer = "none"
      BY <1>1, <1>2, <1>3 DEF State, Fields, Only
    <2>3. Heard(inbox, inbox', "finalized")
      BY <1>1, <1>2, <1>3, Sending
    <2>4. Scheduled(s') /\ Ending(s') /\ Querying(s', inbox') /\ Asking(s',
          inbox') /\ Storing(s', inbox') /\ Exclusive(s') /\ Previewed(s')
      BY <1>1, <1>2, <2>2, <2>3
         DEF Sound, Only, Fields, Heard, Same, Unspoken, Scheduled, Available,
             Ending, Working, Querying, Asking, Quiet, Storing, Exclusive,
             StorageTasks, Previewed
    <2>5. Finalizing(s', inbox')
      BY <1>1, <1>2, <1>3, <2>1, <2>2, <2>3
         DEF Sound, Only, Fields, Heard, Same, Finalizing
    <2> QED BY <1>1, <1>2, <1>3, <2>1, <2>3, <2>4, <2>5
            DEF WindowInv, Fine, Sound, Heard

(* The dialog that was made is opened, if the request still stands.         *)
LEMMA ShowRequestStep == WindowInv /\ ShowRequest => WindowInv'
  <1> SUFFICES ASSUME WindowInv, ShowRequest PROVE WindowInv'
    OBVIOUS
  <1>1. State(s) /\ inbox \in Seq(Signal) /\ Sound(s, inbox)
    BY DEF WindowInv, Fine
  <1>2. s.window = "open" /\ s.dialog = "made"
    BY DEF ShowRequest
  <1>3. /\ s' = [s EXCEPT !.dialog = IF s.pending THEN "open" ELSE "none"]
        /\ UNCHANGED inbox
    BY <1>2 DEF ShowRequest
  <1> QED
    <2>1. State(s')
      BY <1>1, <1>2, <1>3
         DEF State, Fields, StorageTasks, Quiet, QueryState, PreviewState
    <2>2. /\ Only(s, s', {"dialog"})
         /\ s'.dialog = IF s.pending THEN "open" ELSE "none"
      BY <1>1, <1>2, <1>3 DEF State, Fields, Only
    <2>3. Scheduled(s') /\ Ending(s') /\ Finalizing(s', inbox') /\ Storing(s',
          inbox') /\ Exclusive(s')
      BY <1>1, <1>2, <1>3, <2>1, <2>2
         DEF Sound, Only, Fields, Scheduled, Available, Ending, Working,
             Finalizing, Storing, Exclusive, StorageTasks
    <2>4. Querying(s', inbox')
      BY <1>1, <1>2, <1>3, <2>1, <2>2, Fewer
         DEF Sound, Only, Fields, Querying
    <2>5. Asking(s', inbox')
      BY <1>1, <1>2, <1>3, <2>1, <2>2, Fewer
         DEF Sound, Only, Fields, Asking, Quiet
    <2>6. Previewed(s')
      <3>1. /\ s'.storage = s.storage /\ s'.modal = s.modal
            /\ s'.subject = s.subject /\ s'.deferred = s.deferred
            /\ s'.previews = s.previews /\ s'.discards = s.discards
        BY <1>3 DEF Only, Fields
      <3>2. Previewed(s)
        BY <1>1, <1>2 DEF Sound
      <3> QED BY <3>1, <3>2, PreviewsStay, Zenon
    <2> QED BY <1>1, <1>2, <1>3, <2>1, <2>3, <2>4, <2>5, <2>6
            DEF WindowInv, Fine, Sound

(* The process leaves.                                                      *)
LEMMA ExitStep == WindowInv /\ Exit => WindowInv'
  <1> SUFFICES ASSUME WindowInv, Exit PROVE WindowInv'
    OBVIOUS
  <1>1. State(s) /\ inbox \in Seq(Signal) /\ Sound(s, inbox)
    BY DEF WindowInv, Fine
  <1>2. s.window = "closed"
    BY DEF Exit
  <1>3. \/ /\ s.finalized = "ok" /\ ~ s.deferred
           /\ s' = [s EXCEPT !.exit = "clean"]
           /\ UNCHANGED inbox
        \/ /\ s' = [s EXCEPT !.exit = "recover"]
           /\ UNCHANGED inbox
    BY <1>2 DEF Exit
  <1>4. CASE /\ s.finalized = "ok" /\ ~ s.deferred
                 /\ s' = [s EXCEPT !.exit = "clean"]
                 /\ UNCHANGED inbox
    <2>1. State(s')
      BY <1>1, <1>2, <1>4
         DEF State, Fields, StorageTasks, Quiet, QueryState, PreviewState
    <2>2. /\ Only(s, s', {"exit"})
         /\ s'.exit = "clean"
      BY <1>1, <1>2, <1>4 DEF State, Fields, Only
    <2>3. Scheduled(s') /\ Finalizing(s', inbox') /\ Querying(s', inbox') /\
          Asking(s', inbox') /\ Storing(s', inbox') /\ Exclusive(s')
      BY <1>1, <1>2, <1>4, <2>1, <2>2, Fewer
         DEF Sound, Only, Fields, Scheduled, Available, Finalizing, Querying,
             Asking, Quiet, Storing, Exclusive, StorageTasks
    <2>4. Ending(s')
      BY <1>1, <1>2, <1>4, <2>1, <2>2
         DEF Sound, Only, Fields, Ending, Working
    <2>5. Previewed(s')
      <3>1. /\ s'.storage = s.storage /\ s'.modal = s.modal
            /\ s'.subject = s.subject /\ s'.deferred = s.deferred
            /\ s'.previews = s.previews /\ s'.discards = s.discards
        BY <1>1, <1>2, <1>4, <2>1, <2>2 DEF Only, Fields
      <3>2. Previewed(s)
        BY <1>1, <1>2 DEF Sound
      <3> QED BY <3>1, <3>2, PreviewsStay, Zenon
    <2> QED BY <1>1, <1>2, <1>4, <2>1, <2>3, <2>4, <2>5
            DEF WindowInv, Fine, Sound
  <1>5. CASE /\ s' = [s EXCEPT !.exit = "recover"]
                 /\ UNCHANGED inbox
    <2>1. State(s')
      BY <1>1, <1>2, <1>5
         DEF State, Fields, StorageTasks, Quiet, QueryState, PreviewState
    <2>2. /\ Only(s, s', {"exit"})
         /\ s'.exit = "recover"
      BY <1>1, <1>2, <1>5 DEF State, Fields, Only
    <2>3. Scheduled(s') /\ Finalizing(s', inbox') /\ Querying(s', inbox') /\
          Asking(s', inbox') /\ Storing(s', inbox') /\ Exclusive(s')
      BY <1>1, <1>2, <1>5, <2>1, <2>2, Fewer
         DEF Sound, Only, Fields, Scheduled, Available, Finalizing, Querying,
             Asking, Quiet, Storing, Exclusive, StorageTasks
    <2>4. Ending(s')
      BY <1>1, <1>2, <1>5, <2>1, <2>2
         DEF Sound, Only, Fields, Ending, Working
    <2>5. Previewed(s')
      <3>1. /\ s'.storage = s.storage /\ s'.modal = s.modal
            /\ s'.subject = s.subject /\ s'.deferred = s.deferred
            /\ s'.previews = s.previews /\ s'.discards = s.discards
        BY <1>1, <1>2, <1>5, <2>1, <2>2 DEF Only, Fields
      <3>2. Previewed(s)
        BY <1>1, <1>2 DEF Sound
      <3> QED BY <3>1, <3>2, PreviewsStay, Zenon
    <2> QED BY <1>1, <1>2, <1>5, <2>1, <2>3, <2>4, <2>5
            DEF WindowInv, Fine, Sound
  <1> QED BY <1>3, <1>4, <1>5

-----------------------------------------------------------------------------
(* The theorems                                                             *)

(* The window as it is made.                                                *)
LEMMA WindowStarts == WindowInit => WindowInv
  <1> SUFFICES ASSUME WindowInit PROVE WindowInv
    OBVIOUS
  <1>1. inbox = <<>> /\ inbox \in Seq(Signal)
    BY EmptySeq DEF WindowInit
  <1>2. \A K : Absent(inbox, K) /\ Single(inbox, K)
    BY <1>1 DEF Absent, Single
  <1>3. State(s)
    <2>1. /\ s.discards \in Seq(Preview)
          /\ s.previews \in [Preview -> PreviewState]
      BY EmptySeq DEF WindowInit, PreviewState
    <2>2. DOMAIN s = Fields
      BY DEF WindowInit, Fields
    <2> QED BY <2>1, <2>2 DEF WindowInit, State, QueryState, Quiet
  <1>4. /\ Scheduled(s) /\ Ending(s) /\ Exclusive(s)
    BY DEF WindowInit, Scheduled, Ending, Exclusive, Available, Working
  <1>5. Previewed(s)
    <2>1. /\ s.storage = "none" /\ s.modal = "none"
          /\ \A p \in Preview : s.previews[p] = "none"
      BY DEF WindowInit
    <2> QED BY <2>1 DEF Previewed, StorageTasks
  <1>6. Finalizing(s, inbox) /\ Querying(s, inbox)
    BY <1>2 DEF WindowInit, Finalizing, Querying
  <1>7. Asking(s, inbox) /\ Storing(s, inbox)
    BY <1>2 DEF WindowInit, Asking, Storing
  <1> QED BY <1>1, <1>3, <1>4, <1>5, <1>6, <1>7 DEF WindowInv, Fine, Sound

(* Every step of a thread.                                                  *)
LEMMA ThreadsStep == WindowInv /\ Threads => WindowInv'
  BY PreflightStep, QueryEndsStep, QueryLeavesStep, AskStep, AdmitStep,
     ShowStep, AnsweredStep, GiveUpStep, DismissStep, StorageEndsStep,
     HistoryEndsStep, FinalizerEndsStep DEF Threads

(* Every step there is.                                                     *)
LEMMA WindowSteps == WindowInv /\ [WindowNext]_windowVars => WindowInv'
  <1>1. ASSUME WindowInv, UNCHANGED windowVars
        PROVE  WindowInv'
    BY <1>1 DEF WindowInv, windowVars
  <1>2. ASSUME WindowInv, WindowNext
        PROVE  WindowInv'
    <2>1. User \/ EventLoop \/ NetworkChanges \/ Exit \/ Threads
      BY <1>2 DEF WindowNext
    <2>2. EventLoop => WindowInv'
      BY <1>2, TimersStep, HandleSignalStep, ShowRequestStep DEF EventLoop
    <2>3. NetworkChanges => WindowInv'
      BY <1>2, TimersStep
    <2> QED BY <1>2, <2>1, <2>2, <2>3, UserStep, ExitStep, ThreadsStep
  <1> QED BY <1>1, <1>2

(* Every reachable window is as WindowInv says: each task of it has at most *)
(* one thread or one queued signal, a storage task has it to itself, and a  *)
(* closing window asks nothing more.                                        *)
THEOREM WindowInvariance == WindowSpec => []WindowInv
  <1>1. WindowInit => WindowInv
    BY WindowStarts
  <1>2. WindowInv /\ [WindowNext]_windowVars => WindowInv'
    BY WindowSteps
  <1> QED BY <1>1, <1>2, PTL DEF WindowSpec

(* A monitored window always has a query or a timer for the next one        *)
(* (toggle_monitoring, _query_finished, _cancel_for_environment_change).    *)
THEOREM PollsStayScheduled == WindowSpec => []PollsAreScheduled
  <1>1. WindowInv => PollsAreScheduled
    BY DEF WindowInv, Fine, Sound, Scheduled, PollsAreScheduled
  <1> QED BY <1>1, WindowInvariance, PTL

(* A dialog on the screen has a request behind it, or its dismissal is on   *)
(* the way (ApprovalBridge.decide, _dismiss).                               *)
THEOREM DialogsAreWanted == WindowSpec => []DialogsFollowRequests
  <1>1. ASSUME WindowInv
        PROVE  DialogsFollowRequests
    <2>1. SUFFICES ASSUME s.dialog = "open", ~ s.pending,
                          s.query # "dismissing"
                   PROVE  <<"dismiss">> \in ToSet(inbox)
      BY DEF DialogsFollowRequests
    <2>2. ~ Absent(inbox, {"dismiss"})
      BY <1>1, <2>1 DEF WindowInv, Fine, Sound, Asking
    <2>3. PICK i \in DOMAIN inbox : inbox[i][1] = "dismiss"
      BY <2>2 DEF Absent
    <2>4. inbox[i] \in Signal
      BY <1>1, <2>3, ElementOfSeq DEF WindowInv, Fine
    <2>5. inbox[i] = <<"dismiss">>
      BY <2>3, <2>4, SignalKinds
    <2> QED BY <2>3, <2>5 DEF ToSet
  <1> QED BY <1>1, WindowInvariance, PTL

(* A process that reports a clean exit leaves no thread and no preview      *)
(* behind (closeEvent, main).                                               *)
THEOREM CleanExitsLeaveNothing == WindowSpec => []CleanExitLeavesNothing
  <1>1. ASSUME WindowInv
        PROVE  CleanExitLeavesNothing
    <2>1. SUFFICES ASSUME s.exit = "clean"
                   PROVE  /\ s.query = "none" /\ s.storageThread = "none"
                          /\ s.historyThread = "none" /\ s.finalizer = "none"
                          /\ \A p \in Preview :
                                s.previews[p] \in {"none", "settled"}
      BY DEF CleanExitLeavesNothing
    <2>2. State(s) /\ Sound(s, inbox)
      BY <1>1 DEF WindowInv, Fine
    <2>3. /\ s.window = "closed" /\ ~ s.deferred /\ s.finalized = "ok"
          /\ s.closing /\ s.modal = "none"
          /\ ~ s.task /\ s.storage = "none" /\ ~ s.history /\ ~ s.active
          /\ s.discards = <<>>
      BY <2>1, <2>2 DEF Sound, Ending, Working
    <2>4. s.query = "none"
      BY <2>2, <2>3 DEF Sound, Querying
    <2>5. s.storageThread = "none" /\ s.historyThread = "none"
      BY <2>2, <2>3 DEF Sound, Storing
    <2>6. s.finalizer = "none"
      BY <2>2, <2>3 DEF Sound, Finalizing
    <2>7. ASSUME NEW p \in Preview
          PROVE  s.previews[p] \in {"none", "settled"}
      <3>1. s.previews[p] \in PreviewState
        BY <2>2 DEF State
      <3>2. Previewed(s) /\ <<p>> # <<>>
        BY <2>2 DEF Sound
      <3>3. s.previews[p] \notin
                {"offered", "queued", "deleting", "discarding"}
        BY <2>3, <3>2 DEF Previewed
      <3> QED BY <3>1, <3>3 DEF PreviewState
    <2> QED BY <2>4, <2>5, <2>6, <2>7
  <1> QED BY <1>1, WindowInvariance, PTL

(* A query starts when the one before has nothing left to say: its thread  *)
(* is gone, none of its signals is queued, and no dialog of it is on the   *)
(* screen.  So a window need not tell queries apart by their generation    *)
(* number (_start_query, _task_succeeded, _query_finished).                *)
NothingIsLeft ==
    Available(s) /\ ~ s.task =>
        /\ s.query = "none" /\ Absent(inbox, Spoken) /\ s.dialog = "none"
        /\ s.storageThread = "none" /\ Absent(inbox, Stored)

(* The window that starts a query is alone with it (_start_query).          *)
THEOREM QueriesBeginAlone == WindowSpec => []NothingIsLeft
  <1>1. WindowInv => NothingIsLeft
    BY DEF WindowInv, Fine, Sound, Ending, Querying, Storing, Available,
           NothingIsLeft
  <1> QED BY <1>1, WindowInvariance, PTL

=============================================================================
