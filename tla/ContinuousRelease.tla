------------------------- MODULE ContinuousRelease -------------------------
(***************************************************************************)
(* The moving "continuous" prerelease: tools/publish_continuous.ps1 asks   *)
(* tools/continuous_release_state.py again and again for the next action   *)
(* and carries it out with the GitHub API, until the action is "done".     *)
(* GitHub keeps the releases and the tag, which outlive a run; a run keeps *)
(* a copy of the release and of the tag, which it refreshes after each     *)
(* change.  Any call may fail, may be carried out while its answer is      *)
(* lost, and the runner may be killed between two calls.  The workflow's   *)
(* concurrency group lets one run at a time work on the release; main      *)
(* moves whenever it likes.                                                *)
(***************************************************************************)
EXTENDS Integers, FiniteSets

CONSTANTS
    None,           \* no release, no tag, no durable marker
    MaxCommit,      \* main goes through 1..MaxCommit; 0 is before the first run
    Builds,         \* the builds one commit may get (each its own ZIP)
    Ids,            \* the numbers GitHub may give to a release
    MaxRuns,        \* bound on the runs started
    MaxFaults,      \* bound on failed calls, lost answers and killed runs
    MaxActions      \* publish_continuous.ps1:376, 40 in the script

ASSUME ReleaseAssumption ==
    /\ MaxCommit \in Nat \ {0} /\ MaxRuns \in Nat /\ MaxFaults \in Nat
    /\ MaxActions \in Nat \ {0}
    /\ Ids \subseteq Nat
    /\ None \notin 0..MaxCommit

Stages == {"staging", "assets_verified", "ready"}

\* What a run was asked to publish: a commit and the ZIP built of it.
Desired == [commit : 0..MaxCommit, build : Builds]
Marker == [stage : Stages, desired : Desired]

\* The name, size and digest of an asset say which build it is of; an upload
\* that was cut off leaves a "starter" without them.
Asset == [kind : {"zip", "sidecar", "sbom"}, of : Desired, starter : BOOLEAN]
Part(kind, d) == [kind |-> kind, of |-> d, starter |-> FALSE]
ZipOf(d) == Part("zip", d)
Starter(d) == [ZipOf(d) EXCEPT !.starter = TRUE]
LegacyTrio(d) == {Part(kind, d) : kind \in {"zip", "sidecar", "sbom"}}

Release == [draft : BOOLEAN, published : BOOLEAN, target : 0..MaxCommit,
            marker : Marker \cup {None}, assets : SUBSET Asset]

\* "Nothing" is told from a release and from a marker.
ASSUME NothingAssumption == None \notin Release \cup Marker

VARIABLES
    main,       \* the commit at the head of main
    tag,        \* the commit the tag "continuous" names, or None
    releases,   \* what GitHub keeps under each number
    run,        \* the variables of the script in the run at hand
    pc,         \* the call the run makes next; "idle" when there is no run
    verdict,    \* how the last run ended
    runs, faults
releaseVars == <<main, tag, releases, run, pc, verdict, runs, faults>>

ASSUME BuildAssumption == Builds # {}
NoBuild == CHOOSE b \in Builds : TRUE
NoRun == [d |-> [commit |-> 0, build |-> NoBuild], id |-> None, seen |-> None,
          seenTag |-> None, legacy |-> FALSE, authenticated |-> FALSE,
          public |-> FALSE, began |-> FALSE, action |-> "none", actions |-> 0]

Existing == {i \in Ids : releases[i] # None}

-----------------------------------------------------------------------------
(* Discovery and selection *)

\* The release to work on.
Keepers ==
    LET public == {i \in Existing : ~releases[i].draft}
        historical == {i \in Existing : releases[i].published}
        filled == {i \in Existing :
                        \E a \in releases[i].assets : ~a.starter}
    IN  IF public # {} THEN public
        ELSE IF historical # {} THEN historical
        ELSE IF filled # {} THEN filled
        ELSE {i \in Existing : \A j \in Existing : i <= j}

\* A second release may only be an empty draft that was never published.
Disposable(i) ==
    /\ releases[i].draft /\ ~releases[i].published
    /\ {a \in releases[i].assets : ~a.starter} = {}
    /\ releases[i].marker # None

\* An asset that was not uploaded to its end may only be in a draft.
StartersAreDisposable ==
    \A i \in Existing : (\E a \in releases[i].assets : a.starter) => releases[i].draft

Selectable ==
    /\ Cardinality(Keepers) = 1
    /\ StartersAreDisposable
    /\ \A i \in Existing \ Keepers : Disposable(i)

\* What a public release may consist of.
Classified(assets) ==
    \/ /\ Cardinality(assets) = 1 /\ \A a \in assets : a.kind = "zip"
    \/ /\ Cardinality(assets) = 3
       /\ {a.kind : a \in assets} = {"zip", "sidecar", "sbom"}

-----------------------------------------------------------------------------
(* The next action, as continuous_release_state.py computes it from the      *)
(* run's copy r of the release and t of the tag                              *)

Exact(r, d) == r.assets = {ZipOf(d)}
HasStage(r, stage) == r.marker # None /\ r.marker.stage = stage

\* A public release whose marker says "ready" is what the marker says.
ReadyIsTrue(r, t) ==
    LET d == r.marker.desired
    IN  ZipOf(d) \in r.assets /\ t = d.commit /\ r.target = d.commit

PublishedAction(r, t) ==
    IF \/ ~Classified(r.assets)
       \/ HasStage(r, "ready") /\ ~ReadyIsTrue(r, t)
    THEN "refused"
    ELSE IF r.marker # None /\ ~HasStage(r, "ready") THEN "hide_and_mark_staging"
    ELSE IF /\ r.marker # None /\ r.marker.desired = run.d
            /\ Exact(r, run.d) /\ t = run.d.commit
    THEN IF run.public THEN "done" ELSE "verify_public"
    ELSE IF Cardinality(r.assets) = 3 /\ ~run.legacy THEN "validate_legacy"
    ELSE "hide_and_mark_staging"

DraftAction(r, t) ==
    IF r.marker = None \/ r.target # run.d.commit THEN "mark_staging"
    ELSE IF r.marker.desired # run.d THEN "mark_staging"
    ELSE IF r.marker.stage = "staging"
    THEN IF ~Exact(r, run.d) THEN "replace_assets"
         ELSE IF run.authenticated THEN "mark_assets_verified"
         ELSE "verify_draft_download"
    ELSE IF ~Exact(r, run.d) THEN "mark_staging"
    ELSE IF t # run.d.commit THEN "align_tag"
    ELSE IF r.marker.stage = "assets_verified" THEN "mark_ready"
    ELSE "publish"

\* MISTAKE: a draft, too, must hold a whole set of assets.
NextActionWhole(r, t) ==
    IF r = None THEN "create_draft"
    ELSE IF ~Classified(r.assets) THEN "refused"
    ELSE IF r.draft THEN DraftAction(r, t)
    ELSE PublishedAction(r, t)

NextAction(r, t) ==
    IF r = None THEN "create_draft"
    ELSE IF r.draft THEN DraftAction(r, t)
    ELSE PublishedAction(r, t)

\* The actions that first ask whether main is still at the run's commit.
AsksForMain == {"create_draft", "hide_and_mark_staging", "align_tag", "publish"}

\* What Assert-RemoteContract asks of the run's copy before it goes public.
ContractHolds(r, draft) ==
    /\ r.draft = draft /\ r.target = run.d.commit
    /\ r.marker # None /\ r.marker.desired.commit = run.d.commit
    /\ Exact(r, run.d)

-----------------------------------------------------------------------------
(* A run: start and discovery *)

\* Any push moves main.
Push ==
    /\ main < MaxCommit
    /\ main' = main + 1
    /\ UNCHANGED <<tag, releases, run, pc, verdict, runs, faults>>

\* A publishing job starts for a commit main has reached: the latest, or an
\* older one whose build took long or that was started again.
StartRun ==
    /\ pc = "idle" /\ runs < MaxRuns
    /\ \E c \in 1..main, b \in Builds :
           run' = [NoRun EXCEPT !.d = [commit |-> c, build |-> b]]
    /\ runs' = runs + 1
    /\ pc' = "read_tag"
    /\ UNCHANGED <<main, tag, releases, verdict, faults>>

\* A terminating error: the catch block hides the release when the run had
\* begun to change it.  "stuck" if neither a fault nor a newer main explains it.
Throw(why) ==
    /\ verdict' = why
    /\ pc' = IF run.began THEN "catch" ELSE "idle"

ReadTag ==
    /\ pc = "read_tag"
    /\ run' = [run EXCEPT !.seenTag = tag]
    /\ pc' = "assert_start"
    /\ UNCHANGED <<main, tag, releases, verdict, runs, faults>>

\* MISTAKE: nobody asks whether main has moved on.
MainNeverAsked == TRUE
MainStillExpected == main = run.d.commit

AssertAtStart ==
    /\ pc = "assert_start"
    /\ IF MainStillExpected
       THEN pc' = "discover" /\ UNCHANGED verdict
       ELSE Throw("superseded")
    /\ UNCHANGED <<main, tag, releases, run, runs, faults>>

\* The releases are listed and one of them is chosen.
Discover ==
    /\ pc = "discover"
    /\ IF Existing = {}
       THEN /\ pc' = "decide"
            /\ UNCHANGED <<run, verdict>>
       ELSE IF Selectable
       THEN /\ \E i \in Keepers : run' = [run EXCEPT !.id = i]
            /\ pc' = "clean"
            /\ UNCHANGED verdict
       ELSE /\ Throw("stuck")
            /\ UNCHANGED run
    /\ UNCHANGED <<main, tag, releases, runs, faults>>

\* One DELETE after the other: unfinished uploads, then superfluous drafts.
CleanStarter ==
    /\ pc = "clean"
    /\ \E i \in Existing : \E a \in releases[i].assets :
           /\ a.starter
           /\ releases' = [releases EXCEPT ![i].assets = @ \ {a}]
    /\ UNCHANGED <<main, tag, run, pc, verdict, runs, faults>>

CleanDuplicate ==
    /\ pc = "clean"
    /\ \A i \in Existing : \A a \in releases[i].assets : ~a.starter
    /\ \E i \in Existing \ {run.id} : releases' = [releases EXCEPT ![i] = None]
    /\ UNCHANGED <<main, tag, run, pc, verdict, runs, faults>>

\* The chosen release is read.
Discovered ==
    /\ pc = "clean"
    /\ \A i \in Existing : \A a \in releases[i].assets : ~a.starter
    /\ Existing = {run.id}
    /\ run' = [run EXCEPT !.seen = releases[run.id]]
    /\ pc' = "decide"
    /\ UNCHANGED <<main, tag, releases, verdict, runs, faults>>

-----------------------------------------------------------------------------
(* A run: one action after the other *)

Decide ==
    /\ pc = "decide"
    /\ LET action == NextAction(run.seen, run.seenTag)
       IN  IF run.actions = MaxActions \/ action = "refused"
           THEN Throw("stuck") /\ UNCHANGED run
           ELSE IF action = "done"
           THEN /\ verdict' = "done"
                /\ pc' = "idle"
                /\ UNCHANGED run
           ELSE /\ run' = [run EXCEPT !.action = action, !.actions = @ + 1]
                /\ pc' = IF action \in AsksForMain THEN "assert_main" ELSE "call"
                /\ UNCHANGED verdict
    /\ UNCHANGED <<main, tag, releases, runs, faults>>

\* Before it publishes, the run also asks for the contract and for the tag.
AssertMain ==
    /\ pc = "assert_main"
    /\ IF run.action = "publish"
          /\ ~(ContractHolds(run.seen, TRUE) /\ tag = run.d.commit)
       THEN Throw("stuck")
       ELSE IF MainStillExpected
       THEN pc' = "call" /\ UNCHANGED verdict
       ELSE Throw("superseded")
    /\ UNCHANGED <<main, tag, releases, run, runs, faults>>

\* What follows a change that GitHub has carried out: its answer reaches the
\* script, which keeps the release (and then reads the tag), or it is lost.
Answered(began, new) ==
    \/ /\ run' = [run EXCEPT !.seen = new, !.began = @ \/ began]
       /\ pc' = "reread"
       /\ UNCHANGED <<verdict, faults>>
    \/ /\ faults < MaxFaults
       /\ faults' = faults + 1
       /\ run' = [run EXCEPT !.began = @ \/ began]
       /\ verdict' = "faulty"
       /\ pc' = IF run.began \/ began THEN "catch" ELSE "idle"

CreateDraft ==
    /\ pc = "call" /\ run.action = "create_draft"
    /\ \E i \in Ids \ Existing :
           LET new == [draft |-> TRUE, published |-> FALSE,
                       target |-> run.d.commit, assets |-> {},
                       marker |-> [stage |-> "staging", desired |-> run.d]]
           IN  /\ releases' = [releases EXCEPT ![i] = new]
               /\ \/ /\ run' = [run EXCEPT !.id = i, !.seen = new, !.began = TRUE]
                     /\ pc' = "reread"
                     /\ UNCHANGED <<verdict, faults>>
                  \/ /\ faults < MaxFaults
                     /\ faults' = faults + 1
                     /\ run' = [run EXCEPT !.began = TRUE]
                     /\ verdict' = "faulty"
                     /\ pc' = "catch"
    /\ UNCHANGED <<main, tag, runs>>

\* The legacy trio is downloaded and its parts are compared: all of one build.
ValidateLegacy ==
    /\ pc = "call" /\ run.action = "validate_legacy"
    /\ IF Cardinality({a.of : a \in run.seen.assets}) = 1
       THEN /\ run' = [run EXCEPT !.legacy = TRUE]
            /\ pc' = "decide"
            /\ UNCHANGED verdict
       ELSE Throw("stuck") /\ UNCHANGED run
    /\ UNCHANGED <<main, tag, releases, runs, faults>>

\* Set-ReleaseMetadata: target, marker and draft change in one PATCH.
SetMetadata(stage, draft, began) ==
    LET new == [releases[run.id] EXCEPT
                  !.target = run.d.commit, !.draft = draft,
                  !.published = @ \/ ~draft,
                  !.marker = [stage |-> stage, desired |-> run.d]]
    IN  /\ releases' = [releases EXCEPT ![run.id] = new]
        /\ Answered(began, new)
        /\ UNCHANGED <<main, tag, runs>>

\* MISTAKE: the release stays public while its assets are replaced.
MarkStagingInPublic ==
    /\ pc = "call"
    /\ run.action \in {"hide_and_mark_staging", "mark_staging"}
    /\ SetMetadata("staging", run.action = "mark_staging", TRUE)

MarkStaging ==
    /\ pc = "call"
    /\ run.action \in {"hide_and_mark_staging", "mark_staging"}
    /\ SetMetadata("staging", TRUE, TRUE)

\* Replacing the assets of a draft: each old one is deleted by a call, then the
\* new ZIP is uploaded; an upload that is cut off leaves its starter behind.
DeleteAsset ==
    /\ pc = "call" /\ run.action = "replace_assets"
    /\ \E a \in releases[run.id].assets :
           /\ releases' = [releases EXCEPT ![run.id].assets = @ \ {a}]
           /\ run' = [run EXCEPT !.began = TRUE]
    /\ UNCHANGED <<main, tag, pc, verdict, runs, faults>>

UploadZip ==
    /\ pc = "call" /\ run.action = "replace_assets"
    /\ releases[run.id].assets = {}
    /\ LET new == [releases[run.id] EXCEPT !.assets = {ZipOf(run.d)}]
       IN  /\ releases' = [releases EXCEPT ![run.id] = new]
           /\ Answered(TRUE, new)
    /\ UNCHANGED <<main, tag, runs>>

UploadIsCutOff ==
    /\ pc = "call" /\ run.action = "replace_assets"
    /\ releases[run.id].assets = {}
    /\ faults < MaxFaults
    /\ faults' = faults + 1
    /\ releases' = [releases EXCEPT ![run.id].assets = {Starter(run.d)}]
    /\ verdict' = "faulty"
    /\ pc' = "catch"
    /\ run' = [run EXCEPT !.began = TRUE]
    /\ UNCHANGED <<main, tag, runs>>

\* The draft's ZIP is downloaded and compared with the one at hand.
VerifyDraftDownload ==
    /\ pc = "call" /\ run.action = "verify_draft_download"
    /\ IF ContractHolds(run.seen, TRUE) /\ ZipOf(run.d) \in releases[run.id].assets
       THEN /\ run' = [run EXCEPT !.authenticated = TRUE]
            /\ pc' = "decide"
            /\ UNCHANGED verdict
       ELSE Throw("stuck") /\ UNCHANGED run
    /\ UNCHANGED <<main, tag, releases, runs, faults>>

MarkAssetsVerified ==
    /\ pc = "call" /\ run.action = "mark_assets_verified"
    /\ SetMetadata("assets_verified", TRUE, FALSE)

AlignTag ==
    /\ pc = "call" /\ run.action = "align_tag"
    /\ tag' = run.d.commit
    /\ Answered(TRUE, run.seen)
    /\ UNCHANGED <<main, releases, runs>>

MarkReady ==
    /\ pc = "call" /\ run.action = "mark_ready"
    /\ IF ContractHolds(run.seen, TRUE)
       THEN SetMetadata("ready", TRUE, FALSE)
       ELSE /\ Throw("stuck")
            /\ UNCHANGED <<main, tag, releases, run, runs, faults>>

Publish ==
    /\ pc = "call" /\ run.action = "publish"
    /\ SetMetadata("ready", FALSE, TRUE)

\* The release the public finds under the tag is read, downloaded, compared.
VerifyPublic ==
    /\ pc = "call" /\ run.action = "verify_public"
    /\ IF /\ tag = run.d.commit
          /\ {i \in Existing : ~releases[i].draft} = {run.id}
          /\ ContractHolds(releases[run.id], FALSE)
       THEN /\ run' = [run EXCEPT !.public = TRUE, !.seen = releases[run.id]]
            /\ pc' = "decide"
            /\ UNCHANGED verdict
       ELSE Throw("stuck") /\ UNCHANGED run
    /\ UNCHANGED <<main, tag, releases, runs, faults>>

\* After a change the tag is read again; where it was moved, or the release
\* published, it has to be at the run's commit.  A release that was changed
\* while it was a draft has to be downloaded again.
Reread ==
    /\ pc = "reread"
    /\ IF run.action \in {"align_tag", "publish"} /\ tag # run.d.commit
       THEN Throw("stuck") /\ UNCHANGED run
       ELSE /\ run' = [run EXCEPT !.seenTag = tag,
                         !.authenticated = @ /\ run.action \notin
                             {"hide_and_mark_staging", "mark_staging", "replace_assets"}]
            /\ pc' = "decide"
            /\ UNCHANGED verdict
    /\ UNCHANGED <<main, tag, releases, runs, faults>>

-----------------------------------------------------------------------------
(* Faults, and the catch block *)

\* A call fails before it changed anything.
CallFails ==
    /\ pc \notin {"idle", "decide", "catch"} /\ faults < MaxFaults
    /\ faults' = faults + 1
    /\ Throw("faulty")
    /\ UNCHANGED <<main, tag, releases, run, runs>>

\* The runner is killed, or the job's time is over.
Killed ==
    /\ pc # "idle" /\ faults < MaxFaults
    /\ faults' = faults + 1
    /\ verdict' = "faulty"
    /\ pc' = "idle"
    /\ UNCHANGED <<main, tag, releases, run, runs>>

\* The interrupted release is hidden, if it is known and the call succeeds.
Hide ==
    /\ pc = "catch"
    /\ \/ /\ run.seen # None
          /\ releases' = [releases EXCEPT ![run.id].draft = TRUE]
          /\ UNCHANGED faults
       \/ /\ run.seen = None
          /\ UNCHANGED <<releases, faults>>
       \/ /\ run.seen # None /\ faults < MaxFaults
          /\ faults' = faults + 1
          /\ UNCHANGED releases
    /\ pc' = "idle"
    /\ UNCHANGED <<main, tag, run, verdict, runs>>

-----------------------------------------------------------------------------
\* What the workflow may find at its first run under this script: nothing, a
\* public release of an earlier version of it, or two drafts it has left.
OldBuild == [commit |-> 0, build |-> NoBuild]
OldPublic(assets) ==
    [draft |-> FALSE, published |-> TRUE, target |-> 0, marker |-> None,
     assets |-> assets]
OldDraft(assets) ==
    [draft |-> TRUE, published |-> FALSE, target |-> 0, assets |-> assets,
     marker |-> [stage |-> "staging", desired |-> OldBuild]]

ReleaseInit ==
    /\ main = 1
    /\ \/ /\ releases = [i \in Ids |-> None]
          /\ tag = None
       \/ \E i \in Ids, assets \in {{ZipOf(OldBuild)}, LegacyTrio(OldBuild)} :
              /\ releases = [[j \in Ids |-> None] EXCEPT ![i] = OldPublic(assets)]
              /\ tag = 0
       \/ \E i, j \in Ids : \E assets \in {{}, {Starter(OldBuild)}, {ZipOf(OldBuild)}} :
              /\ i # j
              /\ releases = [[k \in Ids |-> None] EXCEPT ![i] = OldDraft({}),
                                                         ![j] = OldDraft(assets)]
              /\ tag \in {None, 0}
    /\ run = NoRun
    /\ pc = "idle"
    /\ verdict = "none"
    /\ runs = 0
    /\ faults = 0

RunSteps ==
    \/ ReadTag \/ AssertAtStart \/ Discover \/ CleanStarter \/ CleanDuplicate
    \/ Discovered \/ Decide \/ AssertMain \/ CreateDraft \/ ValidateLegacy
    \/ MarkStaging \/ DeleteAsset \/ UploadZip \/ VerifyDraftDownload
    \/ MarkAssetsVerified \/ AlignTag \/ MarkReady \/ Publish \/ VerifyPublic
    \/ Reread \/ Hide

ReleaseNext ==
    \/ Push \/ StartRun \/ RunSteps
    \/ UploadIsCutOff \/ CallFails \/ Killed

ReleaseSpec == ReleaseInit /\ [][ReleaseNext]_releaseVars

-----------------------------------------------------------------------------
(* Properties *)

ReleaseTypeOK ==
    /\ main \in 1..MaxCommit
    /\ tag \in 0..MaxCommit \cup {None}
    /\ releases \in [Ids -> Release \cup {None}]
    /\ verdict \in {"none", "done", "superseded", "faulty", "stuck"}

\* What the public sees is whole, whatever was interrupted before: a public
\* release with a marker is marked "ready" and consists of exactly the ZIP its
\* marker names, under a tag and a target at that ZIP's commit.
\* (publish_continuous.ps1:496-539, continuous_release_state.py:437-464)
PublicIsWhole ==
    \A i \in Ids : (/\ releases[i] # None
                    /\ ~releases[i].draft
                    /\ releases[i].marker # None) =>
        LET r == releases[i]
        IN  /\ r.marker.stage = "ready"
            /\ r.assets = {ZipOf(r.marker.desired)}
            /\ tag = r.marker.desired.commit
            /\ r.target = r.marker.desired.commit

\* Whatever an interrupted run has left, a later run finishes it: no run ends
\* with an error that neither a fault during the run nor a newer main explains.
\* (continuous_release_state.py:311-409, 412-480: "idempotent action for a
\* forward-only reconciliation")
CleanRunsConverge == verdict # "stuck"

\* The tag, and with it what is published, only moves forward: not even a run
\* of an old commit, started again, takes it back.
\* (Assert-MainStillExpected, publish_continuous.ps1:211-223)
TagMovesForward == [][tag' # tag => tag = None \/ tag' > tag]_tag

=============================================================================
