----------------------------- MODULE KnownHosts -----------------------------
(***************************************************************************)
(* collectors/ssh.py: the host keys a process trusts and how a connection  *)
(* comes about (StrictNetmikoFactory.connect).                             *)
(*                                                                         *)
(* known_hosts is one file that several processes read and replace under   *)
(* a lock.  A host that is in it is connected to at once, with the keys    *)
(* read; a host that is not is probed, the operator is asked about the key *)
(* it offered, without the lock, and the file is read again before the key *)
(* is added.  Cancellation and the poll's deadline are looked at before    *)
(* every one of these steps, and win.                                      *)
(*                                                                         *)
(* What the network offers and what the operator answers is free; so is    *)
(* when.  A key is an algorithm and its bits; the thread lock and the file *)
(* lock, always taken together, are one lock.  paramiko keeps at most one  *)
(* key of each algorithm for a host.                                       *)
(***************************************************************************)
EXTENDS Naturals, FiniteSets

CONSTANTS
    Proc,        \* processes of this program, one polling thread in each
    Host,        \* host and port of a device
    Algorithm, Bits,
    Nobody,      \* nobody, no target
    MaxForget    \* bound: how often the operator removes a host by hand

ASSUME KnownHostsAssumption ==
    /\ Nobody \notin Proc \cup Host
    /\ MaxForget \in Nat

Key == Algorithm \X Bits
NoKey == <<Nobody, Nobody>>

VARIABLES
    file,        \* known_hosts
    forgets,     \* how often a host was removed by hand
    holder,      \* who has read the file in order to replace it
    stage,       \* where each process's connect() is
    target,      \* whom it connects to
    offered,     \* offered_key, the key the probe saw
    loaded,      \* the HostKeys it has read last
    prompt,      \* the operator's answer to run_bounded_approval
    inTime,      \* history: that answer is a yes, given while it counted
    interrupted  \* its CancellationToken is set, or its deadline has passed

trust == <<file, forgets, holder>>
dial  == <<stage, target, offered, loaded, prompt, inTime>>
known == <<trust, dial, interrupted>>

Stage  == {"idle", "snapshot", "probe", "verify", "ask", "reload", "save",
           "dial", "up", "down"}

KnownInit ==
    /\ file = [t \in Host |-> {}] /\ forgets = 0 /\ holder = Nobody
    /\ stage = [p \in Proc |-> "idle"]
    /\ target = [p \in Proc |-> Nobody]
    /\ offered = [p \in Proc |-> NoKey]
    /\ loaded = [p \in Proc |-> file]
    /\ prompt = [p \in Proc |-> "none"]
    /\ inTime = [p \in Proc |-> FALSE]
    /\ interrupted = [p \in Proc |-> FALSE]

-----------------------------------------------------------------------------
(* Helpers                                                                 *)

(* An operator whose comment begins with MISTAKE is the one after it with  *)
(* one thing wrong.                                                        *)
(* MISTAKE: a host with a key of another algorithm is not known            *)
MatchesOneAlgorithm(keys, k) ==
    IF \E x \in keys : x[1] = k[1] THEN IF k \in keys THEN "yes" ELSE "changed"
    ELSE "unknown"

(* _known_key_matches: a host that is known offers a key that is known.    *)
Matches(keys, k) ==
    IF keys = {} THEN "unknown" ELSE IF k \in keys THEN "yes" ELSE "changed"

(* HostKeys.add replaces a key of the same algorithm.                      *)
Added(keys, k) == {x \in keys : x[1] # k[1]} \cup {k}

At(p, s) == stage[p] = s /\ ~ interrupted[p]

Goto(p, s) == stage' = [stage EXCEPT ![p] = s]

(* _locked_host_keys: nobody else is between reading and replacing.        *)
Load(p) == holder = Nobody /\ loaded' = [loaded EXCEPT ![p] = file]

-----------------------------------------------------------------------------
(* The environment                                                         *)

(* A cancellation, or the deadline.                                        *)
Interrupt(p) ==
    /\ stage[p] \notin {"idle", "up", "down"} /\ ~ interrupted[p]
    /\ interrupted' = [interrupted EXCEPT ![p] = TRUE]
    /\ UNCHANGED <<trust, dial>>

(* The operator removes a replaced device from known_hosts; an edit made   *)
(* in the instant of a save would be lost, and is left out.                *)
Forget ==
    /\ forgets < MaxForget /\ holder = Nobody
    /\ \E t \in Host : file[t] # {} /\ file' = [file EXCEPT ![t] = {}]
    /\ forgets' = forgets + 1
    /\ UNCHANGED <<holder, dial, interrupted>>

(* The operator answers, perhaps when the poll is about to give up.        *)
Answer(p, yes) ==
    /\ prompt[p] = "open"
    /\ prompt' = [prompt EXCEPT ![p] = IF yes THEN "yes" ELSE "no"]
    /\ inTime' = [inTime EXCEPT ![p] = yes /\ At(p, "ask")]
    /\ UNCHANGED <<trust, stage, target, offered, loaded, interrupted>>

-----------------------------------------------------------------------------
(* connect()                                                               *)

(* connect() has returned, and what it worked with is gone; an answer that *)
(* is given after this goes nowhere.                                       *)
EndConnect(p) ==
    /\ stage' = [stage EXCEPT ![p] = "idle"]
    /\ offered' = [offered EXCEPT ![p] = NoKey]
    /\ loaded' = [loaded EXCEPT ![p] = [t \in Host |-> {}]]
    /\ prompt' = [prompt EXCEPT ![p] = "none"]
    /\ inTime' = [inTime EXCEPT ![p] = FALSE]
    /\ target' = [target EXCEPT ![p] = Nobody]
    /\ interrupted' = [interrupted EXCEPT ![p] = FALSE]

(* Anywhere but in the save: an interruption, which every step looks for   *)
(* first; the lock is not to be had or the file not to be used; the device *)
(* cannot be reached; there is nobody to ask.                              *)
ConnectFails(p) ==
    /\ stage[p] \in {"snapshot", "probe", "verify", "ask", "reload", "dial"}
    /\ Goto(p, "down")
    /\ UNCHANGED <<trust, target, offered, loaded, prompt, inTime, interrupted>>

(* _known_host_keys_snapshot                                               *)
Snapshot(p) ==
    /\ At(p, "snapshot") /\ Load(p)
    /\ Goto(p, IF file[target[p]] = {} THEN "probe" ELSE "dial")
    /\ UNCHANGED <<trust, target, offered, prompt, inTime, interrupted>>

(* _probe_server_key                                                       *)
Probe(p) ==
    /\ At(p, "probe")
    /\ \E k \in Key : offered' = [offered EXCEPT ![p] = k]
    /\ Goto(p, "verify")
    /\ UNCHANGED <<trust, target, loaded, prompt, inTime, interrupted>>

(* _verify_or_approve before the question: the file may have changed since *)
(* the snapshot.  The question is asked without the lock.                  *)
Verify(p) ==
    /\ At(p, "verify") /\ Load(p)
    /\ CASE Matches(file[target[p]], offered[p]) = "yes" ->
              Goto(p, "dial") /\ UNCHANGED prompt
         [] Matches(file[target[p]], offered[p]) = "changed" ->
              Goto(p, "down") /\ UNCHANGED prompt
         [] OTHER -> /\ Goto(p, "ask")
                     /\ prompt' = [prompt EXCEPT ![p] = "open"]
    /\ UNCHANGED <<trust, target, offered, inTime, interrupted>>

(* MISTAKE: a question nobody has answered is taken for a yes              *)
TakeAnyAnswer(p) ==
    /\ At(p, "ask")
    /\ Goto(p, IF prompt[p] # "no" THEN "reload" ELSE "down")
    /\ UNCHANGED <<trust, target, offered, loaded, prompt, inTime, interrupted>>

(* run_bounded_approval returns the helper thread's answer; no answer, or  *)
(* one that comes late, ends in ConnectFails.                              *)
TakeAnswer(p) ==
    /\ At(p, "ask") /\ prompt[p] \in {"yes", "no"}
    /\ Goto(p, IF prompt[p] = "yes" THEN "reload" ELSE "down")
    /\ UNCHANGED <<trust, target, offered, loaded, prompt, inTime, interrupted>>

(* MISTAKE: what was read before the question is what is replaced          *)
ReloadNothing(p) ==
    /\ At(p, "reload") /\ holder = Nobody
    /\ Goto(p, "save") /\ holder' = p
    /\ UNCHANGED <<file, forgets, target, offered, loaded, prompt, inTime,
                   interrupted>>

(* _verify_or_approve after the question, up to the save.                  *)
Reload(p) ==
    /\ At(p, "reload") /\ Load(p)
    /\ CASE Matches(file[target[p]], offered[p]) = "yes" ->
              Goto(p, "dial") /\ UNCHANGED holder
         [] Matches(file[target[p]], offered[p]) = "changed" ->
              Goto(p, "down") /\ UNCHANGED holder
         [] OTHER -> Goto(p, "save") /\ holder' = p
    /\ UNCHANGED <<file, forgets, target, offered, prompt, inTime, interrupted>>

(* _save_host_keys: the whole file is replaced, under the lock.            *)
Save(p) ==
    /\ stage[p] = "save"
    /\ loaded' = [loaded EXCEPT ![p][target[p]] = Added(@, offered[p])]
    /\ file' = loaded'[p]
    /\ holder' = Nobody
    /\ Goto(p, IF interrupted[p] THEN "down" ELSE "dial")
    /\ UNCHANGED <<forgets, target, offered, prompt, inTime, interrupted>>

SaveFails(p) ==
    /\ stage[p] = "save"
    /\ holder' = Nobody
    /\ Goto(p, "down")
    /\ UNCHANGED <<file, forgets, target, offered, loaded, prompt, inTime,
                   interrupted>>

(* Netmiko connects, strictly: the device shows one of the keys it was     *)
(* read with, or is refused.  Sockets have a guard for the deadline and a  *)
(* callback for the cancellation, and the connection is given up when      *)
(* either comes in before it is handed over.                               *)
Dial(p) ==
    /\ At(p, "dial")
    /\ \E k \in Key :
          Goto(p, IF k \in loaded[p][target[p]] THEN "up" ELSE "down")
    /\ UNCHANGED <<trust, target, offered, loaded, prompt, inTime, interrupted>>

(* collect() has a token and a deadline of its own ...                     *)
Begin(p, t) ==
    /\ stage[p] = "idle" /\ Goto(p, "snapshot")
    /\ target' = [target EXCEPT ![p] = t]
    /\ UNCHANGED <<trust, offered, loaded, prompt, inTime, interrupted>>

(* ... and is done with the connection, or without one.                    *)
End(p) == stage[p] \in {"up", "down"} /\ EndConnect(p) /\ UNCHANGED trust

(* The process dies; the system takes the lock from it, and known_hosts    *)
(* is either replaced or not.                                              *)
Crash(p) ==
    /\ stage[p] # "idle" /\ EndConnect(p)
    /\ holder' = IF holder = p THEN Nobody ELSE holder
    /\ UNCHANGED <<file, forgets>>

ProcStep(p) ==
    \/ \E t \in Host : Begin(p, t)
    \/ ConnectFails(p) \/ Snapshot(p) \/ Probe(p) \/ Verify(p)
    \/ TakeAnswer(p) \/ Reload(p) \/ Save(p) \/ SaveFails(p) \/ Dial(p)
    \/ End(p) \/ Crash(p) \/ Interrupt(p)
    \/ \E yes \in BOOLEAN : Answer(p, yes)

KnownNext == Forget \/ \E p \in Proc : ProcStep(p)

KnownSpec == KnownInit /\ [][KnownNext]_known

-----------------------------------------------------------------------------
(* Properties                                                              *)

TypeKnown ==
    /\ file \in [Host -> SUBSET Key] /\ forgets \in 0..MaxForget
    /\ holder \in Proc \cup {Nobody}
    /\ stage \in [Proc -> Stage]
    /\ target \in [Proc -> Host \cup {Nobody}]
    /\ offered \in [Proc -> Key \cup {NoKey}]
    /\ loaded \in [Proc -> [Host -> SUBSET Key]]
    /\ prompt \in [Proc -> {"none", "open", "yes", "no"}]
    /\ inTime \in [Proc -> BOOLEAN]
    /\ interrupted \in [Proc -> BOOLEAN]

(* A key enters known_hosts only by a process whose operator has agreed to *)
(* that very key for that very device while the poll was still running     *)
(* (README.md:235-237: an answer after the limit is not used).             *)
OnlyApprovedKeysAdded ==
    [][\A t \in Host : \A k \in file'[t] \ file[t] :
          \E p \in Proc : /\ stage[p] = "save" /\ target[p] = t
                          /\ offered[p] = k /\ inTime[p]]_known

(* Only the operator's own edit takes a host's keys away or changes them:  *)
(* whatever processes write at the same time, and whatever key a device    *)
(* shows later, a host that is known keeps exactly the keys it has         *)
(* (ssh.py:1226, "Reload after approval so another process cannot be       *)
(* overwritten").                                                          *)
KnownKeysStay ==
    [][Forget \/ \A t \in Host : file[t] # {} => file'[t] = file[t]]_known
=============================================================================
