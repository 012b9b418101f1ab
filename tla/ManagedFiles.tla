---------------------------- MODULE ManagedFiles ----------------------------
(***************************************************************************)
(* storage/session_store.py: what deletions and exports share.             *)
(*                                                                         *)
(* The store keeps rows that name files, and files; a file is moved, never *)
(* rewritten, so its content is told apart by a number: 0 for "no file", 1 *)
(* for what a file held first, n+1 for the report written by operation n.  *)
(* Whoever moves files first writes a manifest that says what is under     *)
(* way, and holds the lease of that operation and the maintenance lease.   *)
(* After a crash the leases are free and the manifests are what the next   *)
(* start goes by.                                                          *)
(*                                                                         *)
(* Runs come, store Raw output (PollStore has the details) and end.        *)
(***************************************************************************)
EXTENDS Naturals, FiniteSets

CONSTANTS
    Run,         \* run ids
    Raw,         \* paths of Raw files, each in the directory of one run
    RawOf,       \* ... which one
    Report,      \* paths in the exports root
    Outside,     \* paths elsewhere that the operator has chosen
    All,         \* "every run" as the target of a deletion
    None,        \* no run
    MaxOps,      \* bound: operations
    MaxTrouble   \* bound: crashes, failures of the disk, lost answers of the
                 \* database and losses of the outside drive, together

Op   == 1..MaxOps                     \* 0 is no operation
File == Raw \cup Report \cup Outside

\* the hidden files an export keeps beside its destination
Kind          == {"export", "external_export"}
Staged(k, o)  == <<k, "staged", o>>
Backup(k, o)  == <<k, "backup", o>>
Hidden(k)     == {Staged(k, o) : o \in Op} \cup {Backup(k, o) : o \in Op}
Inside        == Raw \cup Report \cup Hidden("export")
Path          == File \cup Hidden("export") \cup Hidden("external_export")

\* The three sorts of file are apart, and a hidden file is none of them.
ASSUME FilesAssumption ==
    /\ RawOf \in [Raw -> Run] /\ None \notin Run /\ All \notin Run
    /\ Raw \cap Report = {} /\ Outside \cap (Raw \cup Report) = {}
    /\ \A k \in Kind : Hidden(k) \cap File = {}
    /\ MaxOps \in Nat /\ MaxTrouble \in Nat

VARIABLES
    \* --- the database ---
    runs,        \* runs that exist
    born,        \* runs that ever did: an id is used once
    running,     \* those RUNNING
    rows,        \* raw_files and exports: which run and content a path has
    receipts,    \* external_export_commits
    \* --- the disk ---
    here,        \* the content at a path
    aside,       \* .delete-staging-<operation>: the content it holds of a path
    manifest,    \* the manifest of an operation
    owners,      \* ownership records of external exports
    attached,    \* the drive of the outside paths is there
    \* --- leases, start-up ---
    maintenance, \* who holds the maintenance lease
    up,          \* "down", "up", or "stuck" when the start failed
    rec,         \* recovery: where it is, with which manifest, and what was
                 \* waiting before it began
    waiting,     \* _pending_external_recoveries
    \* --- bounds and history ---
    ops, faults, crashes, detached,
    owed,        \* what a path has to hold: what was put there last and is
                 \* neither replaced nor confirmed for deletion
    doubted,     \* reports whose commit was applied, its answer lost
    overtaken    \* an export was begun over one that is yet to be undone

db     == <<runs, born, running, rows, receipts>>
disk   == <<here, aside, manifest, owners>>
start  == <<up, rec, waiting>>
counts == <<ops, faults, crashes, detached, attached>>
wish   == <<owed, doubted, overtaken>>
files  == <<db, disk, maintenance, start, counts, wish>>

NoRow      == [run |-> None, content |-> 0]
NoManifest == [kind |-> "none"]
NoRecovery == [at |-> "none", op |-> 0, todo |-> {}, before |-> {}]
NewContent(o) == o + 1

FilesInit ==
    /\ runs \in SUBSET Run /\ born = runs /\ running = {}
    /\ rows \in [File -> {NoRow} \cup [run : runs, content : {1}]]
    /\ \A f \in File : rows[f] # NoRow => /\ f \notin Outside
                                          /\ f \in Raw => rows[f].run = RawOf[f]
    /\ \E S \in SUBSET File :
          /\ \A f \in File : rows[f] # NoRow => f \in S
          /\ \A f \in S \cap Raw : rows[f] # NoRow
          /\ here = [p \in Path |-> IF p \in S THEN 1 ELSE 0]
    /\ receipts = {} /\ owners = {} /\ attached = TRUE
    /\ aside = [o \in Op |-> [p \in Path |-> 0]]
    /\ manifest = [o \in Op |-> NoManifest]
    /\ maintenance = "free" /\ up = "up" /\ rec = NoRecovery /\ waiting = {}
    /\ ops = 0 /\ faults = 0 /\ crashes = 0 /\ detached = 0
    /\ owed = [f \in File |-> here[f]] /\ doubted = {}
    /\ overtaken = FALSE

-----------------------------------------------------------------------------
(* Helpers                                                                 *)

NewOp  == ops < MaxOps /\ ops' = ops + 1
Trouble == faults + crashes + detached < MaxTrouble
Faulty == Trouble /\ faults' = faults + 1

\* _replace_file: the content moves
Moved(from, to) == here' = [here EXCEPT ![to] = here[from], ![from] = 0]
Unlinked(p)     == here' = [here EXCEPT ![p] = 0]
Written(o, m)   == manifest' = [manifest EXCEPT ![o] = m]

\* An external export works on the outside drive.
Reachable(kind) == kind = "external_export" => attached

(* What is left to remove when an operation's files are settled: its hidden*)
(* files ps, then the manifest, then the ownership record.                 *)
RemoveNext(o, ps) ==
    IF \E p \in ps : here[p] # 0
    THEN /\ \E p \in ps : here[p] # 0 /\ Unlinked(p)
         /\ UNCHANGED <<manifest, owners>>
    ELSE /\ UNCHANGED here
         /\ \/ /\ manifest[o] # NoManifest
               /\ Written(o, NoManifest) /\ UNCHANGED owners
            \/ /\ manifest[o] = NoManifest
               /\ owners' = owners \ {o} /\ UNCHANGED manifest

AllRemoved(o, ps) ==
    (\A p \in ps : here[p] = 0) /\ manifest[o] = NoManifest /\ o \notin owners

-----------------------------------------------------------------------------
(* Runs                                                                    *)

RunBegins(r) ==
    /\ up = "up" /\ r \notin born
    /\ runs' = runs \cup {r} /\ born' = born \cup {r}
    /\ running' = running \cup {r}
    /\ UNCHANGED <<rows, receipts, disk, maintenance, start, counts, wish>>

RunEnds(r) ==
    /\ up = "up" /\ r \in running /\ running' = running \ {r}
    /\ UNCHANGED <<runs, born, rows, receipts, disk, maintenance, start, counts,
                   wish>>

(* A poll of a running run stores Raw output under a new name; its manifest*)
(* may be left behind (COMMITTED_RECOVERY_PENDING).                        *)
Poll(f) ==
    /\ up = "up" /\ RawOf[f] \in running
    /\ rows[f] = NoRow /\ here[f] = 0 /\ \A o \in Op : aside[o][f] = 0
    /\ rows' = [rows EXCEPT ![f] = [run |-> RawOf[f], content |-> 1]]
    /\ here' = [here EXCEPT ![f] = 1] /\ owed' = [owed EXCEPT ![f] = 1]
    /\ \/ UNCHANGED <<manifest, ops>>
       \/ NewOp /\ Written(ops', [kind |-> "raw_batch", file |-> f])
    /\ UNCHANGED <<runs, born, running, receipts, aside, owners, maintenance, start,
                   faults, crashes, detached, attached, doubted, overtaken>>

Detach ==
    /\ attached /\ Trouble
    /\ attached' = FALSE /\ detached' = detached + 1
    /\ UNCHANGED <<db, disk, maintenance, start, ops, faults, crashes, wish>>

Attach ==
    /\ ~ attached /\ attached' = TRUE
    /\ UNCHANGED <<db, disk, maintenance, start, ops, faults, crashes, detached, wish>>

=============================================================================
