--------------------------- MODULE HomebrewProvider ---------------------------
(***************************************************************************)
(* The Homebrew provider: what it accepts as a configuration, the plan it  *)
(* makes of it, and its calls against a tap, a git repository that others  *)
(* change too.  A push is never forced, so it is a compare-and-swap of a   *)
(* branch.                                                                 *)
(***************************************************************************)
EXTENDS Sequences, Texts, RepositoryPath, ProviderCaller

CONSTANTS Configurations,  \* the configurations to plan from
          MaxTips          \* bound: commits of the tap's base branch

VARIABLES plan,    \* the operation's payload, at first what it is planned from
          at,      \* the place in a call
          seen,    \* what the call has observed
          site,    \* the tap and its pull requests
          flying   \* requests sent that are neither carried out nor refused yet

vars == <<caller, plan, at, seen, site, flying>>

-----------------------------------------------------------------------------
(* Configuration: a record with the fields of the Go struct, texts as in    *)
(* `Texts`.                                                                *)

ValidBranch(name) ==
    Given(name) /\ Free(name, {"leading -", "dots", "@{", ".lock", "trailing /", "space", "control"})

ValidJVMDistBinary(name) ==
    Given(name) /\ Free(name, {"dots only", "punctuation", "space", "long"})

SupportedJavaVersion(version) == version \in {"8", "11", "17", "21", "25"}

ValidFormula(m) ==
    /\ Free(m.name, {"empty", "lower case", "punctuation"})
    /\ Free(m.binary, {"empty", "blank", "control", "slash"})
    /\ m.kind = "" /\ ~Given(m.source)
    /\ \/ m.layout = "" /\ m.java = ""
       \/ /\ m.layout = "jvm-distribution"
          /\ ValidJVMDistBinary(m.binary) /\ SupportedJavaVersion(m.java)

ValidCask(m) ==
    /\ Free(m.name, {"empty", "upper case", "space"})
    /\ m.kind \in {"app", "pkg", "binary"}
    /\ Free(m.source, {"empty", "blank", "control"})
    /\ ~Given(m.binary) /\ ~Given(m.license) /\ m.layout = "" /\ m.java = ""

ValidateManifest(m) ==
    /\ Free(m.words, {"empty", "blank", "control"})
    /\ Free(m.url, {"empty", "blank", "control", "relative", "other scheme", "user info"})
    /\ \/ m.type = "formula" /\ ValidFormula(m)
       \/ m.type = "cask" /\ ValidCask(m)

ValidateRepository(url) ==
    Free(url, {"empty", "blank", "leading -", "control", "no scheme", "user info"})

ValidateCommit(commit) ==
    /\ Free(commit.message, {"control"})
    /\ Free(commit.email, {"control"})
    /\ Given(commit.email) => Free(commit.email, {"no @", "space", "angle"})

ValidCredentialRef(ref) == Free(ref, {"empty", "long", "space", "control"})

ValidatePullRequest(pr) ==
    /\ Free(pr.repository, {"empty", "blank", "no slash", "control", "space"})
    /\ Given(pr.api) => /\ Free(pr.api, {"relative", "other scheme", "user info", "query"})
                        /\ "http" \in pr.api => pr.allowInsecureHTTP
    /\ Free(pr.title, {"control"})

NoPullRequest == [repository |-> Absent, api |-> Absent, title |-> Absent,
                  allowInsecureHTTP |-> FALSE]

ParseConfiguration(c) ==
    /\ Free(c.artifact, {"empty", "blank"})
    /\ ValidateRepository(c.repository)
    /\ Given(c.branch) => ValidBranch(c.branch)
    /\ NormalizeRepoPath(c.path) # Refused
    /\ c.mode \in {"direct", "pull-request"}
    /\ Given(c.updateBranch) => ValidBranch(c.updateBranch) /\ c.mode # "direct"
    /\ Given(c.credential) => ValidCredentialRef(c.credential)
    /\ ValidateCommit(c.commit)
    /\ c.mode = "pull-request" => Given(c.credential) /\ ValidatePullRequest(c.pullRequest)
    /\ c.mode = "direct" => c.pullRequest = NoPullRequest
    /\ ValidateManifest(c.manifest)

(* A rendered file: the stanzas that do not only quote a word.             *)
RenderFormula(m) ==
    {<<"sha256">>} \union
    IF m.layout = "" THEN {<<"bin.install">>}
    ELSE {<<"depends_on openjdk", m.java>>, <<"libexec.install">>, <<"java_home_env", m.java>>}

RenderCask(m) == {<<"sha256">>, <<m.kind>>}

RenderManifest(m) == IF m.type = "formula" THEN RenderFormula(m) ELSE RenderCask(m)

SelectArtifact(c) == Free(c.artifact, {"not of the release"})

DeterministicUpdateBranch == {"derived"}

(* What Plan accepts: besides the configuration, the artifact must have a  *)
(* digest that the file can hold.                                          *)
Plannable(c) == ParseConfiguration(c) /\ SelectArtifact(c) /\ c.algorithm = "sha256"

PayloadOf(c) ==
    [mode |-> c.mode, repository |-> c.repository, path |-> PathOf(NormalizeRepoPath(c.path)),
     branch |-> IF Given(c.branch) THEN c.branch ELSE Ordinary,
     updateBranch |-> IF c.mode = "pull-request" /\ ~Given(c.updateBranch)
                      THEN DeterministicUpdateBranch ELSE c.updateBranch,
     content |-> RenderManifest(c.manifest), contentSha256 |-> RenderManifest(c.manifest),
     authenticated |-> Given(c.credential), pullRequest |-> c.pullRequest]

(* What apply and reconcile accept of a plan that was read back.           *)
ParsePayload(p) ==
    /\ Given(p.repository) /\ p.content # {}
    /\ p.mode \in {"direct", "pull-request"}
    /\ p.mode = "pull-request" => Given(p.updateBranch)
    /\ p.content = p.contentSha256
    /\ NormalizeRepoPath(p.path) # Refused
    /\ ValidBranch(p.branch)
    /\ Given(p.updateBranch) => ValidBranch(p.updateBranch)

-----------------------------------------------------------------------------
(* The tap: the contents of the planned file in the commits of the base    *)
(* branch, the oldest first, and on the update branch.                     *)

Contents == {"other", "ours"}
Bases == {commits \in Seq(Contents) : Len(commits) <= MaxTips}

Site == [base : Bases, update : {"none"} \union Contents,
         pr : {"none", "open", "closed", "merged"}, opened : 0..MaxCalls]

Tip == Len(site.base)
Exists(branch) == IF branch = "base" THEN Tip > 0 ELSE site.update # "none"
Exact(branch) == IF branch = "base" THEN Tip > 0 /\ site.base[Tip] = "ours"
                 ELSE site.update = "ours"

Requests == [to : {"base", "update", "pulls"}, parent : 0..MaxTips, call : 1..MaxCalls]

Blank == [branch |-> "base", pushed |-> FALSE, refused |-> FALSE,
          exists |-> FALSE, exact |-> FALSE, commit |-> 0, outcome |-> "unknown"]

Places == {"idle", "payload", "ls", "clone", "observed", "workspace", "push", "lookup", "submit"}

TypeOK ==
    /\ caller \in Caller
    /\ at \in Places
    /\ site \in Site
    /\ flying \subseteq Requests
    /\ seen.exact => seen.exists
    /\ caller.evidence <= Tip
    /\ at = "idle" <=> Idle

Init ==
    /\ caller = Unplanned
    /\ plan \in Configurations
    /\ at = "idle"
    /\ seen = Blank
    /\ site \in [base : {<<>>, <<"other">>, <<"ours">>}, update : {"none", "other"},
                 pr : {"none"}, opened : {0}]
    /\ flying = {}

Plan ==
    /\ Planned(Plannable(plan))
    /\ plan' = IF Plannable(plan) THEN PayloadOf(plan) ELSE plan
    /\ UNCHANGED <<at, seen, site, flying>>

Goto(place) == at' = place /\ UNCHANGED caller
Remember(field, value) == seen' = [seen EXCEPT ![field] = value]

Answer(answer, commit) == AnswerWith(answer, commit) /\ at' = "idle" /\ seen' = Blank

Begin(kind) ==
    /\ Call(kind)
    /\ at' = "payload" /\ seen' = Blank
    /\ UNCHANGED <<plan, site, flying>>

(* Without its payload or its token a call is over.                        *)
ReadPayload ==
    /\ at = "payload"
    /\ IF ParsePayload(plan) THEN Goto("ls") /\ UNCHANGED seen ELSE Answer("PERMANENT", 0)
    /\ UNCHANGED <<plan, site, flying>>

NoToken ==
    /\ at = "payload" /\ plan.authenticated
    /\ Answer("PERMANENT", 0)
    /\ UNCHANGED <<plan, site, flying>>

(* observeBranch reads twice: which commit, then the file.                 *)
ListRemote ==
    /\ at = "ls"
    /\ IF Exists(seen.branch)
       THEN Goto("clone") /\ seen' = [seen EXCEPT !.commit = Tip]
       ELSE Goto("observed") /\ seen' = [seen EXCEPT !.exists = FALSE, !.exact = FALSE, !.commit = 0]
    /\ UNCHANGED <<plan, site, flying>>

CloneToObserve ==
    /\ at = "clone" /\ Exists(seen.branch)
    /\ Goto("observed")
    /\ seen' = [seen EXCEPT !.exists = TRUE, !.exact = Exact(seen.branch)]
    /\ UNCHANGED <<plan, site, flying>>

(* After a push that failed, the push decides what an error means.         *)
\* mutant: a failed push is classified like a failed read
WrongClassifyGitPushError == IF seen.outcome = "denied" THEN "PERMANENT" ELSE "RETRYABLE"

ClassifyGitPushError == IF seen.outcome = "denied" THEN "PERMANENT" ELSE "AMBIGUOUS"

\* a denied read is permanent, anything else, a branch that is gone too, retryable
ClassifyGitReadError(denied) == IF denied THEN "PERMANENT" ELSE "RETRYABLE"

ObserveFails(denied) ==
    /\ at \in {"ls", "clone"}
    /\ Answer(IF seen.pushed THEN ClassifyGitPushError ELSE ClassifyGitReadError(denied), 0)
    /\ UNCHANGED <<plan, site, flying>>

ObserveNext(branch) == Goto("ls") /\ Remember("branch", branch)

(* What an observation of a branch decides.                                *)
AfterBase ==
    IF seen.exact THEN Answer("PUBLISHED", seen.commit)
    ELSE IF plan.mode = "direct"
    THEN CASE Calling("apply") /\ seen.exists -> Goto("workspace") /\ UNCHANGED seen
           [] Calling("apply") /\ ~seen.exists -> Answer("PERMANENT", 0)
           [] Calling("reconcile") /\ seen.exists -> Answer("REJECTED", seen.commit)
           [] OTHER -> Answer("WAITING_EXTERNAL", 0)
    ELSE ObserveNext("update")

AfterUpdate ==
    IF seen.exists /\ ~seen.exact THEN Answer("REJECTED", seen.commit)
    ELSE /\ Goto(IF Calling("apply") /\ ~seen.exists THEN "workspace" ELSE "lookup")
         /\ UNCHANGED seen

\* the branch was pushed to and the push failed
AfterFailedPush ==
    IF seen.exact
    THEN IF seen.branch = "base" THEN Answer("PUBLISHED", seen.commit)
                                 ELSE Goto("lookup") /\ UNCHANGED seen
    ELSE IF seen.exists THEN Answer("REJECTED", seen.commit)
    ELSE Answer(ClassifyGitPushError, 0)

Decide ==
    /\ at = "observed"
    /\ IF seen.pushed THEN AfterFailedPush
       ELSE IF seen.branch = "base" THEN AfterBase ELSE AfterUpdate
    /\ UNCHANGED <<plan, site, flying>>

(* commitAndPush: a fresh clone of the base branch is committed to and      *)
(* pushed, unless there is nothing to commit.                               *)
PushFailed(outcome) ==
    /\ Goto("ls")
    /\ seen' = [seen EXCEPT !.pushed = TRUE, !.outcome = outcome]

PushSucceeded(commit) ==
    IF seen.branch = "base" THEN Answer("PUBLISHED", commit)
                            ELSE Goto("lookup") /\ UNCHANGED seen

CommitAndPush ==
    /\ at = "workspace" /\ Tip > 0
    /\ IF Exact("base")
       THEN PushSucceeded(Tip) /\ UNCHANGED flying
       ELSE /\ Goto("push")
            /\ Remember("commit", Tip + 1)
            /\ flying' = flying \union {[to |-> seen.branch, parent |-> Tip, call |-> caller.calls]}
    /\ UNCHANGED <<plan, site>>

\* no clone, or a local failure: nothing was sent
WorkspaceFails(outcome) ==
    /\ at = "workspace" /\ outcome \in {"unknown", "denied"}
    /\ PushFailed(outcome)
    /\ UNCHANGED <<plan, site, flying>>

\* mutant: the push is believed to have landed without an answer
WrongPushReturns(success) ==
    /\ at = "push"
    /\ IF success THEN PushSucceeded(seen.commit)
       ELSE PushFailed(IF seen.outcome = "denied" THEN "denied" ELSE "unknown")
    /\ UNCHANGED <<plan, site, flying>>

\* git succeeds when it learns that the push landed; it may fail to learn it
PushReturns(success) ==
    /\ at = "push"
    /\ IF success THEN seen.outcome = "landed" /\ PushSucceeded(seen.commit)
       ELSE PushFailed(IF seen.outcome = "denied" THEN "denied" ELSE "unknown")
    /\ UNCHANGED <<plan, site, flying>>

(* The pull request of the update branch, whatever its state.              *)
AfterLookup ==
    CASE site.pr = "closed" -> Answer("REJECTED", 0)
      [] site.pr \in {"open", "merged"} -> Answer("WAITING_EXTERNAL", 0)
      [] site.pr = "none" /\ Calling("reconcile") -> Answer("WAITING_EXTERNAL", 0)
      [] site.pr = "none" /\ Calling("apply") /\ seen.refused -> Answer("PERMANENT", 0)
      [] OTHER -> Goto("submit") /\ Remember("outcome", "unsent")

LookupPullRequest ==
    /\ at = "lookup" /\ AfterLookup
    /\ UNCHANGED <<plan, site, flying>>

ClassifyPullRequestStatus(temporary) == IF temporary THEN "RETRYABLE" ELSE "PERMANENT"

LookupFails(temporary) ==
    /\ at = "lookup"
    /\ Answer(IF seen.refused THEN "PERMANENT" ELSE ClassifyPullRequestStatus(temporary), 0)
    /\ UNCHANGED <<plan, site, flying>>

SubmitPullRequest ==
    /\ at = "submit" /\ seen.outcome = "unsent"
    /\ Remember("outcome", "unknown") /\ Goto("submit")
    /\ flying' = flying \union {[to |-> "pulls", parent |-> 0, call |-> caller.calls]}
    /\ UNCHANGED <<plan, site>>

(* A pull request may be opened and the answer not say so: its body is     *)
(* malformed, or it is that of a GET to where a redirect led.              *)
SubmitReturns(response) ==
    /\ at = "submit"
    /\ CASE response = "created" -> seen.outcome = "landed" /\ Answer("WAITING_EXTERNAL", 0)
         [] response = "malformed" -> seen.outcome = "landed" /\ Answer("PERMANENT", 0)
         [] response = "refused" -> /\ seen.outcome = "refused"
                                    /\ Goto("lookup") /\ Remember("refused", TRUE)
         [] response = "denied" -> seen.outcome = "denied" /\ Answer("PERMANENT", 0)
         [] response = "unknown" -> seen.outcome # "unsent" /\ Answer("AMBIGUOUS", 0)
    /\ UNCHANGED <<plan, site, flying>>

Killed ==
    /\ \E journaled \in BOOLEAN : Kill(journaled)
    /\ at' = "idle" /\ seen' = Blank
    /\ UNCHANGED <<plan, site, flying>>

-----------------------------------------------------------------------------
(* The tap decides on a request, before or after the answer to the call.   *)
Acceptable(request) ==
    CASE request.to = "base" -> request.parent = Tip
      [] request.to = "update" -> site.update = "none"
      [] request.to = "pulls" -> site.update # "none" /\ site.pr # "open"

Carried(request) ==
    CASE request.to = "base" -> [site EXCEPT !.base = Append(@, "ours")]
      [] request.to = "update" -> [site EXCEPT !.update = "ours"]
      [] request.to = "pulls" -> [site EXCEPT !.pr = "open", !.opened = @ + 1]

\* whether the call that sent a request still waits for its outcome
Awaited(request) ==
    /\ request.call = caller.calls
    /\ at = IF request.to = "pulls" THEN "submit" ELSE "push"

Settled(request, outcome) ==
    /\ flying' = flying \ {request}
    /\ seen' = IF Awaited(request) THEN [seen EXCEPT !.outcome = outcome] ELSE seen
    /\ UNCHANGED <<caller, plan, at>>

TapActs(request) ==
    /\ request.to = "base" => Tip < MaxTips
    /\ IF Acceptable(request) THEN site' = Carried(request) /\ Settled(request, "landed")
                              ELSE UNCHANGED site /\ Settled(request, "refused")

TapDenies(request) == UNCHANGED site /\ Settled(request, "denied")

(* Others who may write to the tap.  What they did before there was a plan *)
(* is in the initial states.                                               *)
Others(next) ==
    /\ caller.said # "nothing"
    /\ site' = next /\ UNCHANGED <<caller, plan, at, seen, flying>>

OthersCommit(content) == Tip < MaxTips /\ Others([site EXCEPT !.base = Append(@, content)])

MergePullRequest ==
    /\ site.pr = "open" /\ site.update # "none" /\ Tip \in 1..(MaxTips - 1)
    /\ Others([site EXCEPT !.base = Append(@, site.update), !.pr = "merged"])

ClosePullRequest == site.pr = "open" /\ Others([site EXCEPT !.pr = "closed"])

OthersSubmit == site.update # "none" /\ site.pr # "open" /\ Others([site EXCEPT !.pr = "open"])

DeleteBranch == site.update # "none" /\ site.pr # "open" /\ Others([site EXCEPT !.update = "none"])

OverwriteBranch == Exists("update") /\ Others([site EXCEPT !.update = "other"])

Next ==
    \/ Plan
    \/ \E kind \in {"apply", "reconcile"} : Begin(kind)
    \/ ReadPayload \/ NoToken
    \/ ListRemote \/ CloneToObserve \/ Decide
    \/ \E denied \in BOOLEAN : ObserveFails(denied)
    \/ CommitAndPush
    \/ \E outcome \in {"unknown", "denied"} : WorkspaceFails(outcome)
    \/ \E success \in BOOLEAN : PushReturns(success)
    \/ LookupPullRequest
    \/ \E temporary \in BOOLEAN : LookupFails(temporary)
    \/ SubmitPullRequest
    \/ \E response \in {"created", "malformed", "refused", "denied", "unknown"} : SubmitReturns(response)
    \/ Killed
    \/ \E request \in flying : TapActs(request) \/ TapDenies(request)
    \/ \E content \in Contents : OthersCommit(content)
    \/ MergePullRequest \/ ClosePullRequest \/ OthersSubmit \/ DeleteBranch \/ OverwriteBranch

Spec == Init /\ [][Next]_vars

-----------------------------------------------------------------------------
(* Published means that the planned file was on the base branch in a commit *)
(* that is no older than the one the evidence names.                       *)
PublishedIsTrue ==
    caller.said = "PUBLISHED" =>
        caller.evidence > 0 /\ \E i \in caller.evidence..Tip : site.base[i] = "ours"

(* An apply is repeated only when nothing an earlier one sent is           *)
(* outstanding, whether the earlier one was answered or not.               *)
RepeatsAreSafe ==
    (caller.owed = "apply" /\ Idle) => flying = {}

(* A failure that ends the publication leaves no request undecided, of any *)
(* call, and no pull request of its own; except for one that was opened    *)
(* and the answer not understood, which a maintainer may still merge.      *)
FailureIsOver ==
    (caller'.said = "PERMANENT" /\ caller'.owed = "done" /\ ~Idle /\ Idle') =>
        /\ flying = {}
        /\ site.opened = 0 \/ (at = "submit" /\ seen.outcome = "landed")

DefiniteFailuresAreOver == [][FailureIsOver]_vars

(* When a call answers that the publication is rejected, no request of an  *)
(* earlier call can undo that, except where the code takes the risk: a     *)
(* direct push may still land, and someone else's branch or a closed pull  *)
(* request is taken for the end.                                           *)
RejectionStands ==
    (caller'.said = "REJECTED" /\ ~Idle /\ Idle') =>
        \A request \in flying : Acceptable(request) =>
            plan.mode = "direct" \/ site.update = "other" \/ site.pr = "closed"

RejectionsStand == [][RejectionStands]_vars

(* However calls fail, are killed and are repeated, one pull request is    *)
(* opened at most.                                                         *)
SubmittedOnce == site.opened <= 1

(* A reconciliation sends nothing that changes the tap.                    *)
ReconcileObserves == Calling("reconcile") => flying' \subseteq flying
ReconcileOnlyObserves == [][ReconcileObserves]_vars

(* What Plan accepts, apply and reconcile accept, and it names a file in   *)
(* the repository; the file's stanzas for a JVM come together.             *)
PlansAreSound ==
    caller.said \notin {"nothing", "misconfigured"} =>
        /\ ParsePayload(plan)
        /\ NormalizeRepoPath(plan.path) = plan.path.parts
        /\ plan.mode = "pull-request" => plan.authenticated
        /\ \A version \in {"8", "11", "17", "21", "25"} :
              <<"depends_on openjdk", version>> \in plan.content
                  <=> <<"java_home_env", version>> \in plan.content
=============================================================================
