--------------------------- MODULE DurableReplace ---------------------------
(***************************************************************************)
(* storage/durable_io.py, replace_with_retry: a staged file is published   *)
(* over its destination, while other programs hold the files for a moment  *)
(* (a virus scanner, an indexer) or change, replace or remove them.        *)
(*                                                                         *)
(* A file is the number of its edition: identity, size, time and hash      *)
(* together, 0 when there is none.  What the code reads of a file it reads *)
(* in two moments, before and after hashing.  The caller names the hash it *)
(* expects, as all do that write reports, Raw files and manifests.         *)
(***************************************************************************)
EXTENDS Naturals

CONSTANTS
    MaxTries,    \* len(WINDOWS_FILE_RETRY_DELAYS): 5 in the code
    MaxWrites,   \* bound: changes that other programs make
    MaxHolds     \* bound: times that another program holds the files

ASSUME DurableAssumption ==
    /\ MaxTries \in Nat \ {0}
    /\ MaxWrites \in Nat /\ MaxHolds \in Nat

Nothing == 0
Staged == 1      \* the file as the caller wrote it
Old == 2         \* the file published before, if there is one

VARIABLES
    windows,     \* os.name == "nt"
    source, destination, folder,    \* the two files, and their directory
    held,        \* another program holds the files
    at,          \* where the call is
    begun,       \* the edition found when hashing began
    seen,        \* the editions captured before the first attempt
    tries,       \* attempts of this retry loop, this one included
    writes, holds,
    lastWrite    \* the attempt in which somebody last changed something, if any
replaceVars == <<windows, source, destination, folder, held, at, begun, seen,
                 tries, writes, holds, lastWrite>>

ReplaceInit ==
    /\ windows \in BOOLEAN
    /\ source = Staged
    /\ destination \in {Nothing, Old}
    /\ folder = 0
    /\ held = FALSE
    /\ at = "stat-source"
    /\ begun = Nothing
    /\ seen = [from |-> Nothing, over |-> Nothing, where |-> 0]
    /\ tries = 1
    /\ writes = 0 /\ holds = 0
    /\ lastWrite = 0

Attempting ==
    {"attempt", "open-source-again", "hash-source-again", "destination-absent",
     "open-destination-again", "hash-destination-again", "replace"}

files == <<source, destination, folder, held, writes, holds, lastWrite>>

-----------------------------------------------------------------------------
(* The other programs                                                      *)

Hold ==
    /\ holds < MaxHolds /\ ~held
    /\ held' = TRUE /\ holds' = holds + 1
    /\ UNCHANGED <<windows, source, destination, folder, at, begun, seen, tries,
                   writes, lastWrite>>

LetGo ==
    /\ held
    /\ held' = FALSE
    /\ UNCHANGED <<windows, source, destination, folder, at, begun, seen, tries,
                   writes, holds, lastWrite>>

Write ==
    /\ writes < MaxWrites /\ at \notin {"published", "failed"}
    /\ writes' = writes + 1
    /\ lastWrite' = IF at \in Attempting THEN tries ELSE 0
    /\ \/ source' \in {Nothing, Old + writes'} /\ UNCHANGED <<destination, folder>>
       \/ destination' \in {Nothing, Old + writes'} /\ UNCHANGED <<source, folder>>
       \/ folder' = folder + 1 /\ UNCHANGED <<source, destination>>
    /\ UNCHANGED <<windows, held, at, begun, seen, tries, holds>>

-----------------------------------------------------------------------------
(* The call                                                                *)

(* An access that is denied is tried again, on Windows, from here on; any  *)
(* other error is raised.                                                  *)
Denied(retry) ==
    IF windows /\ tries < MaxTries
    THEN at' = retry /\ tries' = tries + 1
    ELSE at' = "failed" /\ UNCHANGED tries

(* _file_state without a hash: the capture's first look                    *)
Stat(step, file, which, next) ==
    /\ at = step
    /\ IF held THEN Denied(step) /\ UNCHANGED seen
       ELSE IF file = Nothing THEN at' = "failed" /\ UNCHANGED <<tries, seen>>
       ELSE at' = next /\ tries' = 1 /\ seen' = [seen EXCEPT ![which] = file]
    /\ UNCHANGED <<windows, begun>> /\ UNCHANGED files

(* _file_state with a hash: the file is opened and hashed ...              *)
Open(step, file, retry, next) ==
    /\ at = step
    /\ IF held THEN Denied(retry) /\ UNCHANGED begun
       ELSE IF file = Nothing THEN at' = "failed" /\ UNCHANGED <<tries, begun>>
       ELSE at' = next /\ begun' = file /\ UNCHANGED tries
    /\ UNCHANGED <<windows, seen>> /\ UNCHANGED files

(* ... and compared with what was there when it was opened, and with what  *)
(* it has to be.                                                           *)
Hashed(step, file, expected, next) ==
    /\ at = step
    /\ at' = IF file = begun /\ file = expected THEN next ELSE "failed"
    /\ UNCHANGED <<windows, begun, seen, tries>> /\ UNCHANGED files

StatSource == Stat("stat-source", source, "from", "open-source")
OpenSource == Open("open-source", source, "open-source", "hash-source")
HashSource ==
    /\ Hashed("hash-source", source, seen.from, "compare-source")

(* The staged bytes are those the caller expects; the directory is noted,  *)
(* and whether there is a destination.                                     *)
CompareSource ==
    /\ at = "compare-source"
    /\ IF seen.from # Staged
       THEN at' = "failed" /\ UNCHANGED <<seen, tries>>
       ELSE /\ seen' = [seen EXCEPT !.where = folder]
            /\ tries' = 1
            /\ at' = IF destination = Nothing THEN "attempt" ELSE "stat-destination"
    /\ UNCHANGED <<windows, begun>> /\ UNCHANGED files

StatDestination ==
    Stat("stat-destination", destination, "over", "open-destination")
OpenDestination ==
    Open("open-destination", destination, "open-destination", "hash-destination")
HashDestination ==
    /\ at = "hash-destination"
    /\ IF destination = begun /\ destination = seen.over
       THEN at' = "attempt" /\ tries' = 1
       ELSE at' = "failed" /\ UNCHANGED tries
    /\ UNCHANGED <<windows, begun, seen>> /\ UNCHANGED files

(* MISTAKE: only the first attempt looks at the files                      *)
AttemptOnceChecked ==
    /\ at = "attempt"
    /\ at' = IF folder # seen.where THEN "failed"
             ELSE IF tries > 1 THEN "replace" ELSE "open-source-again"
    /\ UNCHANGED <<windows, begun, seen, tries>> /\ UNCHANGED files

(* Every attempt checks the directory and both files before it replaces.   *)
Attempt ==
    /\ at = "attempt"
    /\ at' = IF folder # seen.where THEN "failed" ELSE "open-source-again"
    /\ UNCHANGED <<windows, begun, seen, tries>> /\ UNCHANGED files

OpenSourceAgain == Open("open-source-again", source, "attempt", "hash-source-again")
HashSourceAgain ==
    Hashed("hash-source-again", source, seen.from,
           IF seen.over = Nothing THEN "destination-absent"
           ELSE "open-destination-again")
DestinationAbsent ==
    /\ at = "destination-absent"
    /\ at' = IF destination = Nothing THEN "replace" ELSE "failed"
    /\ UNCHANGED <<windows, begun, seen, tries>> /\ UNCHANGED files
OpenDestinationAgain ==
    Open("open-destination-again", destination, "attempt", "hash-destination-again")
HashDestinationAgain ==
    Hashed("hash-destination-again", destination, seen.over, "replace")

(* MoveFileExW or os.replace                                               *)
Replace ==
    /\ at = "replace"
    /\ IF held THEN Denied("attempt") /\ UNCHANGED <<source, destination>>
       ELSE IF source = Nothing
       THEN at' = "failed" /\ UNCHANGED <<tries, source, destination>>
       ELSE /\ at' = "published"
            /\ destination' = source /\ source' = Nothing
            /\ UNCHANGED tries
    /\ UNCHANGED <<windows, begun, seen, folder, held, writes, holds, lastWrite>>

Call ==
    \/ StatSource \/ OpenSource \/ HashSource \/ CompareSource
    \/ StatDestination \/ OpenDestination \/ HashDestination
    \/ Attempt \/ OpenSourceAgain \/ HashSourceAgain \/ DestinationAbsent
    \/ OpenDestinationAgain \/ HashDestinationAgain \/ Replace

ReplaceNext == Hold \/ LetGo \/ Write \/ Call
ReplaceSpec == ReplaceInit /\ [][ReplaceNext]_replaceVars

-----------------------------------------------------------------------------
(* Properties                                                              *)

(* What is published is the staged file and what it replaces is the file   *)
(* captured before, unless somebody changed them during the very attempt   *)
(* that succeeded: a change made while the call waited for a file that     *)
(* was held is never published nor overwritten.                            *)
(* (durable_io.py:68-94: "immediately-before-every-replace-call")         *)
OnlyTheLatestChangesAreLost ==
    [][at' = "published" /\ at = "replace" =>
          \/ source = Staged /\ destination = seen.over
          \/ lastWrite = tries]_replaceVars

=============================================================================
