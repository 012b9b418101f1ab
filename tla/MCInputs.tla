------------------------------ MODULE MCInputs ------------------------------
(***************************************************************************)
(* Small instances of five parts that deal with what others write: the     *)
(* host keys of known_hosts (KnownHosts), the replies of the devices       *)
(* (DeviceTables), a capture file (OfflineReport), a file that other       *)
(* programs hold or change while it is replaced (DurableReplace) and the   *)
(* Raw files that polls store while they are counted (StorageReconcile).   *)
(* They share no state: a behaviour is one of one part while the others    *)
(* rest, and Parts names the parts to check.                               *)
(***************************************************************************)
EXTENDS KnownHosts, DeviceTables, OfflineReport, DurableReplace,
        StorageReconcile, TLC

CONSTANTS p1, p2, Parts

\* The processes of KnownHosts are all alike, and so are the files of StorageReconcile.
Symmetry == Permutations({p1, p2}) \cup Permutations(RawFile)

MCCaptures == <<[sessions |-> <<1, 2>>, users |-> <<1>>, stations |-> <<2>>],
                [sessions |-> <<2, 1>>, users |-> <<1, 2>>, stations |-> <<1>>]>>

VARIABLE part
inputVars == <<known, replyVars, reportVars, replaceVars, reconcileVars, part>>

\* The initial states in which the parts rest.
RestingText == <<"command", "header", "rule", "row", "row", "count", "blank",
                 "command", "header", "rule", "row", "count", "command">>
RestingReply == <<"header", "rule", "count", "blank", "prompt">>
Kinds(lines) == [i \in DOMAIN lines |-> lines[i].kind]

InputsInit ==
    /\ part \in Parts
    /\ KnownInit
    /\ ReplaceInit /\ (part # "replace" => ~windows /\ destination = Old)
    /\ ReportInit
    /\ part # "report" => toWrite \in Texts(Captures[1]) /\ Kinds(toWrite) = RestingText
    /\ ReconcileInit /\ (part # "count" => \A f \in RawFile : ~There(f))
    /\ TablesInit
    /\ part # "replies" => command = "users" /\ Kinds(toCome) = RestingReply

HostsStep ==
    /\ part = "hosts" /\ KnownNext
    /\ UNCHANGED <<replyVars, reportVars, replaceVars, reconcileVars, part>>
RepliesStep ==
    /\ part = "replies" /\ TablesNext
    /\ UNCHANGED <<known, reportVars, replaceVars, reconcileVars, part>>
ReportStep ==
    /\ part = "report" /\ ReportNext
    /\ UNCHANGED <<known, replyVars, replaceVars, reconcileVars, part>>
ReplaceStep ==
    /\ part = "replace" /\ ReplaceNext
    /\ UNCHANGED <<known, replyVars, reportVars, reconcileVars, part>>
CountStep ==
    /\ part = "count" /\ ReconcileNext
    /\ UNCHANGED <<known, replyVars, reportVars, replaceVars, part>>

InputsNext == HostsStep \/ RepliesStep \/ ReportStep \/ ReplaceStep \/ CountStep
InputsSpec == InputsInit /\ [][InputsNext]_inputVars
=============================================================================
