---------------------------- MODULE WingetProvider ----------------------------
(***************************************************************************)
(* The WinGet provider: a set of manifests is pushed to a branch of a      *)
(* fork, submitted as a pull request, and published when the destination's *)
(* base branch has it.  The destination is read at one commit through the  *)
(* API, the fork through git.                                              *)
(***************************************************************************)
EXTENDS Sequences, SequencesExt, Texts, RepositoryPath, ProviderCaller

CONSTANTS Configurations,  \* the configurations to plan from
          Trees,           \* what commits may hold of the planned files
          MaxTips,         \* bound: commits of the destination's base branch
          MaxPulls         \* bound: pull requests of the update branch

VARIABLES plan,    \* the operation's payload, at first what it is planned from
          at,      \* the place in a call
          seen,    \* what the call has observed
          site,    \* the destination, its pull requests and the fork
          flying   \* requests sent that are neither carried out nor refused yet

vars == <<caller, plan, at, seen, site, flying>>

-----------------------------------------------------------------------------
(* Configuration, texts as in `Texts`.                                     *)

ValidMetadata(text) == Free(text, {"empty", "long", "outer space", "control"})
ValidSimple(text) == ValidMetadata(text) /\ Free(text, {"slash"})

NormalizeHTTPURL(url, allowHTTP) ==
    /\ Free(url, {"empty", "relative", "other scheme", "user info"})
    /\ "http" \in url => allowHTTP

ValidBranch(name) ==
    Given(name) /\ Free(name, {"leading -", "dots", "@{", ".lock", "trailing /", "space", "control"})

ValidatePackage(p) ==
    /\ Free(p.identifier, {"empty", "one part", "punctuation"})
    /\ ValidSimple(p.version)
    /\ Given(p.locale) => Free(p.locale, {"punctuation", "long"})
    /\ ValidMetadata(p.publisher)
    /\ Given(p.releaseNotesUrl) => NormalizeHTTPURL(p.releaseNotesUrl, FALSE)

ReservedWindowsName(component) == "device" \in component
ValidPortableAlias(alias) ==
    /\ Free(alias, {"empty", "long", "leading digit", "punctuation", "trailing ."})
    /\ ~ReservedWindowsName(alias)

(* A member of an archive: the components of its path, each a text.        *)
ValidateArchiveMemberPath(path) ==
    /\ path # <<>>
    /\ \A i \in 1..Len(path) :
          /\ Free(path[i], {"empty", "dots only", "outer space", "trailing .", "control"})
          /\ Free(path[i], {"drive", "backslash", "wildcard"})
          /\ ~ReservedWindowsName(path[i])

Extension(path) == IF "msi" \in path[Len(path)] THEN "msi"
                   ELSE IF "exe" \in path[Len(path)] THEN "exe" ELSE "other"

\* two names that Windows takes for one
Fold(text) == text \ {"upper case"}
FoldPath(path) == [i \in DOMAIN path |-> Fold(path[i])]

ValidateNestedInstaller(i) ==
    IF i.type # "zip"
    THEN ~Given(i.archivePath) /\ i.nestedType = "" /\ i.nested = <<>>
    ELSE /\ Free(i.archivePath, {"empty", "relative"})
         /\ i.nestedType \in {"portable", "exe", "msi"}
         /\ i.nested # <<>>
         /\ i.nestedType # "portable" => Len(i.nested) = 1
         /\ \A n \in 1..Len(i.nested) :
               LET file == i.nested[n]
                   Earlier == 1..(n - 1)
               IN  /\ ValidateArchiveMemberPath(file.path)
                   /\ Extension(file.path) = IF i.nestedType = "portable" THEN "exe" ELSE i.nestedType
                   /\ \A k \in Earlier : FoldPath(i.nested[k].path) # FoldPath(file.path)
                   /\ Given(file.alias) =>
                         /\ i.nestedType = "portable" /\ ValidPortableAlias(file.alias)
                         /\ \A k \in Earlier : Fold(i.nested[k].alias) # Fold(file.alias)

(* The archive on disk is the release's artifact, and has every nested     *)
(* file under exactly the name the manifest will give it.                  *)
ValidateZIPArchive(i, archive) ==
    i.type = "zip" =>
        /\ archive.regular /\ archive.size = "artifact" /\ archive.digest = "artifact"
        /\ archive.members # <<>>
        /\ \A m \in 1..Len(archive.members) :
              LET member == archive.members[m]
              IN  /\ ValidateArchiveMemberPath(member.path)
                  /\ member.kind \in {"file", "directory"}
                  /\ \A k \in 1..(m - 1) : FoldPath(archive.members[k].path) # FoldPath(member.path)
        /\ \A n \in 1..Len(i.nested) :
              \E m \in 1..Len(archive.members) :
                  archive.members[m] = [path |-> i.nested[n].path, kind |-> "file"]

ValidateInstaller(i) ==
    /\ i.architecture \in {"x86", "x64", "arm", "arm64", "neutral"}
    /\ i.type \in {"exe", "msi", "msix", "inno", "nullsoft", "wix", "burn", "portable", "zip"}
    /\ NormalizeHTTPURL(i.url, FALSE)
    /\ ValidateNestedInstaller(i)

ValidateRepository(url) ==
    Free(url, {"empty", "blank", "leading -", "control", "no scheme", "user info"})

ValidateCommit(commit) ==
    /\ Free(commit.message, {"control"})
    /\ Free(commit.email, {"control"})
    /\ Given(commit.email) => Free(commit.email, {"no @", "space", "angle"})

ValidCredentialRef(ref) == Free(ref, {"empty", "long", "space", "control"})

ValidatePullRequest(pr) ==
    /\ Free(pr.repository, {"empty", "blank", "no slash", "control", "space"})
    /\ Given(pr.headOwner) => ValidSimple(pr.headOwner)
    /\ Given(pr.api) => NormalizeHTTPURL(pr.api, pr.allowInsecureHTTP) /\ Free(pr.api, {"query"})
    /\ Free(pr.title, {"control"})

ParseConfiguration(c) ==
    /\ Free(c.artifact, {"empty", "blank"})
    /\ ValidateRepository(c.repository)
    /\ Given(c.branch) => ValidBranch(c.branch)
    /\ Given(c.updateBranch) => ValidBranch(c.updateBranch)
    /\ NormalizeRepoPath(c.root) # Refused
    /\ c.manifestVersion \in {"", "1.12.0"}
    /\ ValidatePackage(c.package)
    /\ ValidateInstaller(c.installer)
    /\ ValidCredentialRef(c.credential)
    /\ ValidateCommit(c.commit)
    /\ ValidatePullRequest(c.pullRequest)

(* The manifests, each with its path and the lines that depend on choices. *)
RenderVersionManifest(c) == {<<"ManifestType", "version">>}

RenderInstallerManifest(i) ==
    {<<"InstallerType", i.type>>} \union
    (IF i.type # "zip" THEN {}
     ELSE {<<"NestedInstallerType", i.nestedType>>} \union
          {<<"RelativeFilePath", i.nested[n].path>> : n \in 1..Len(i.nested)} \union
          {<<"PortableCommandAlias", i.nested[n].alias>> : n \in {k \in 1..Len(i.nested) : Given(i.nested[k].alias)}})

RenderLocaleManifest(p) ==
    {<<"ManifestType", "defaultLocale">>} \union
    (IF Given(p.releaseNotesUrl) THEN {<<"ReleaseNotesUrl", p.releaseNotesUrl>>} ELSE {})

(* A version may be two dots, which the path takes for its parent.         *)
ManifestDirectory(root, package) ==
    NormalizeRepoPath(PathOf(NormalizeRepoPath(root) \o <<"a", "Acme", "Tool">>
                             \o <<IF "dots only" \in package.version THEN ".." ELSE "1.0">>))

RenderManifestSet(c) ==
    LET directory == ManifestDirectory(c.root, c.package)
        File(name, content) == [path |-> Append(directory, name), content |-> content]
    IN  <<File("Acme.Tool.installer.yaml", RenderInstallerManifest(c.installer)),
          File("Acme.Tool.locale.yaml", RenderLocaleManifest(c.package)),
          File("Acme.Tool.yaml", RenderVersionManifest(c))>>

ManifestTreeHash(files) == {files[i] : i \in 1..Len(files)}

SelectArtifact(c) == Free(c.artifact, {"not of the release"})
DeterministicUpdateBranch == {"derived"}

Plannable(c) ==
    /\ ParseConfiguration(c) /\ SelectArtifact(c)
    /\ ValidateZIPArchive(c.installer, c.archive)
    /\ c.algorithm = "sha256"

PayloadOf(c) ==
    [repository |-> c.repository,
     branch |-> IF Given(c.branch) THEN c.branch ELSE Ordinary,
     updateBranch |-> IF Given(c.updateBranch) THEN c.updateBranch ELSE DeterministicUpdateBranch,
     files |-> RenderManifestSet(c), treeSha256 |-> ManifestTreeHash(RenderManifestSet(c)),
     pullRequest |-> c.pullRequest, digest |-> c.algorithm]

ParsePayload(p) ==
    /\ Given(p.repository) /\ Len(p.files) = 3
    /\ ValidBranch(p.branch) /\ ValidBranch(p.updateBranch)
    /\ ValidatePullRequest(p.pullRequest)
    /\ \A i \in 1..3 : /\ NormalizeRepoPath(PathOf(p.files[i].path)) = p.files[i].path
                       /\ p.files[i].content # {}
                       /\ \A k \in 1..(i - 1) : p.files[k].path # p.files[i].path
    /\ ManifestTreeHash(p.files) = p.treeSha256
    /\ p.digest = "sha256"

-----------------------------------------------------------------------------
(* The destination and the fork.  A commit holds, for each planned file,   *)
(* the same content, a different one, or none.                             *)

Updates == {"none", "exact", "other"}
PullStates == {"open", "closed", "merged"}
AllSame == [file \in DOMAIN (CHOOSE tree \in Trees : TRUE) |-> "same"]

Tip == Len(site.base)
LastPull == Len(site.pulls)
Requests == [to : {"update", "pulls"}, call : 1..MaxCalls]

Blank == [commit |-> 0, pull |-> 0, exists |-> FALSE, exact |-> FALSE,
          pushed |-> FALSE, refused |-> FALSE, outcome |-> "unknown"]

Places == {"idle", "payload", "resolve", "files", "ls", "clone", "observed", "workspace", "push",
           "prior", "lookup", "submit", "checks"}

TypeOK ==
    /\ caller \in Caller
    /\ at \in Places
    /\ site.base \in Seq(Trees) /\ Tip <= MaxTips
    /\ site.update \in Updates
    /\ site.pulls \in Seq(PullStates) /\ LastPull <= MaxPulls
    /\ site.submitted \in 0..MaxPulls
    /\ flying \subseteq Requests
    /\ seen.commit \in 0..Tip /\ seen.pull \in 0..LastPull /\ caller.evidence \in 0..LastPull
    /\ at = "idle" <=> Idle

Init ==
    /\ caller = Unplanned
    /\ plan \in Configurations
    /\ at = "idle" /\ seen = Blank
    /\ site \in [base : {<<tree>> : tree \in Trees}, update : {"none", "other"}, pulls : {<<>>},
                 submitted : {0}, synced : BOOLEAN]
    /\ flying = {}

Plan ==
    /\ Planned(Plannable(plan))
    /\ plan' = IF Plannable(plan) THEN PayloadOf(plan) ELSE plan
    /\ UNCHANGED <<at, seen, site, flying>>

Goto(place) == at' = place /\ UNCHANGED caller
Answer(answer, pull) == AnswerWith(answer, pull) /\ at' = "idle" /\ seen' = Blank

Begin(kind) ==
    /\ Call(kind)
    /\ at' = "payload" /\ seen' = Blank
    /\ UNCHANGED <<plan, site, flying>>

(* Without its payload or its token a call is over.                        *)
ReadPayload ==
    /\ at = "payload"
    /\ IF ParsePayload(plan) THEN Goto("resolve") /\ UNCHANGED seen ELSE Answer("PERMANENT", 0)
    /\ UNCHANGED <<plan, site, flying>>

NoToken ==
    /\ at = "payload"
    /\ Answer("PERMANENT", 0)
    /\ UNCHANGED <<plan, site, flying>>

ResolveDestinationCommit ==
    /\ at = "resolve"
    /\ Goto("files") /\ seen' = [seen EXCEPT !.commit = Tip]
    /\ UNCHANGED <<plan, site, flying>>

(* A conflict in one file outweighs a file that is missing, before or      *)
(* after it.                                                               *)
ObserveDestination(tree) ==
    CASE \E file \in DOMAIN tree : tree[file] = "different" -> "conflict"
      [] \A file \in DOMAIN tree : tree[file] = "same" -> "exact"
      [] OTHER -> "missing"

ReadDestinationFiles ==
    /\ at = "files"
    /\ LET state == ObserveDestination(site.base[seen.commit])
       IN  CASE state = "exact" -> Answer("PUBLISHED", 0)
             [] state = "conflict" -> Answer("REJECTED", 0)
             [] OTHER -> Goto(IF Calling("apply") THEN "ls" ELSE "prior") /\ UNCHANGED seen
    /\ UNCHANGED <<plan, site, flying>>

ClassifyGitHubStatus(temporary) == IF temporary THEN "RETRYABLE" ELSE "PERMANENT"

\* reading the destination, a pull request or its checks
ReadFails(temporary) ==
    /\ at \in {"resolve", "files", "prior", "lookup", "checks"}
    /\ Answer(IF seen.refused THEN "PERMANENT" ELSE ClassifyGitHubStatus(temporary), 0)
    /\ UNCHANGED <<plan, site, flying>>

(* observeBranch: the fork's update branch, in two reads.                   *)
ListRemote ==
    /\ at = "ls"
    /\ Goto(IF site.update = "none" THEN "observed" ELSE "clone")
    /\ seen' = [seen EXCEPT !.exists = FALSE, !.exact = FALSE]
    /\ UNCHANGED <<plan, site, flying>>

CloneToObserve ==
    /\ at = "clone" /\ site.update # "none"
    /\ Goto("observed")
    /\ seen' = [seen EXCEPT !.exists = TRUE, !.exact = site.update = "exact"]
    /\ UNCHANGED <<plan, site, flying>>

ClassifyGitPushError == IF seen.outcome = "denied" THEN "PERMANENT" ELSE "AMBIGUOUS"
ClassifyGitReadError(denied) == IF denied THEN "PERMANENT" ELSE "RETRYABLE"

ObserveFails(denied) ==
    /\ at \in {"ls", "clone"}
    /\ Answer(IF seen.pushed THEN ClassifyGitPushError ELSE ClassifyGitReadError(denied), 0)
    /\ UNCHANGED <<plan, site, flying>>

Decide ==
    /\ at = "observed"
    /\ CASE seen.exists /\ ~seen.exact -> Answer("REJECTED", 0)
         [] Calling("reconcile") /\ (seen.exists => seen.exact) -> Answer("WAITING_EXTERNAL", 0)
         [] Calling("apply") /\ seen.exact -> Goto("lookup") /\ UNCHANGED seen
         [] Calling("apply") /\ ~seen.exists /\ seen.pushed -> Answer(ClassifyGitPushError, 0)
         [] OTHER -> Goto("workspace") /\ UNCHANGED seen
    /\ UNCHANGED <<plan, site, flying>>

PushFailed(outcome) == Goto("ls") /\ seen' = [seen EXCEPT !.pushed = TRUE, !.outcome = outcome]

(* commitAndPush: on a fork whose base branch already has the files there  *)
(* is nothing to commit, and nothing is pushed.                            *)
CommitAndPush ==
    /\ at = "workspace"
    /\ IF site.synced /\ ObserveDestination(site.base[Tip]) = "exact"
       THEN Goto("lookup") /\ UNCHANGED <<seen, flying>>
       ELSE /\ Goto("push") /\ UNCHANGED seen
            /\ flying' = flying \union {[to |-> "update", call |-> caller.calls]}
    /\ UNCHANGED <<plan, site>>

WorkspaceFails(outcome) ==
    /\ at = "workspace" /\ PushFailed(outcome)
    /\ UNCHANGED <<plan, site, flying>>

PushReturns(success) ==
    /\ at = "push"
    /\ IF success THEN seen.outcome = "landed" /\ Goto("lookup") /\ UNCHANGED seen
       ELSE PushFailed(IF seen.outcome = "denied" THEN "denied" ELSE "unknown")
    /\ UNCHANGED <<plan, site, flying>>

(* The pull request the last answer named, if it is still journaled.       *)
PriorPullRequestNumber == caller.evidence

Observe(pull) ==
    CASE site.pulls[pull] = "closed" -> Answer("REJECTED", pull)
      [] site.pulls[pull] = "merged" -> Answer("WAITING_EXTERNAL", pull)
      [] site.pulls[pull] = "open" /\ Calling("apply") -> Answer("WAITING_EXTERNAL", pull)
      [] OTHER -> Goto("checks") /\ seen' = [seen EXCEPT !.pull = pull]

LookupPriorPullRequest ==
    /\ at = "prior"
    /\ IF PriorPullRequestNumber # 0 THEN Observe(PriorPullRequestNumber)
                                     ELSE Goto("lookup") /\ UNCHANGED seen
    /\ UNCHANGED <<plan, site, flying>>

\* mutant: apply and reconcile share the whole way
WrongLookupPullRequest ==
    /\ at = "lookup"
    /\ CASE LastPull # 0 -> Observe(LastPull)
         [] LastPull = 0 /\ seen.refused -> Answer("PERMANENT", 0)
         [] OTHER -> Goto("submit") /\ seen' = [seen EXCEPT !.outcome = "unsent"]
    /\ UNCHANGED <<plan, site, flying>>

\* the newest pull request of the branch, whatever its state
LookupPullRequest ==
    /\ at = "lookup"
    /\ CASE LastPull # 0 -> Observe(LastPull)
         [] LastPull = 0 /\ Calling("reconcile") -> Goto("ls") /\ UNCHANGED seen
         [] LastPull = 0 /\ seen.refused -> Answer("PERMANENT", 0)
         [] OTHER -> Goto("submit") /\ seen' = [seen EXCEPT !.outcome = "unsent"]
    /\ UNCHANGED <<plan, site, flying>>

(* Check runs come and go; what a set of their states amounts to.          *)
Validation(checks) ==
    CASE "failure" \in checks -> "failed"
      [] "failure" \notin checks /\ checks = {"success"} -> "passed"
      [] OTHER -> "pending"

LookupValidation(checks) ==
    /\ at = "checks"
    /\ Answer(IF Validation(checks) = "failed" THEN "REJECTED" ELSE "WAITING_EXTERNAL", seen.pull)
    /\ UNCHANGED <<plan, site, flying>>

SubmitPullRequest ==
    /\ at = "submit" /\ seen.outcome = "unsent"
    /\ Goto("submit") /\ seen' = [seen EXCEPT !.outcome = "unknown"]
    /\ flying' = flying \union {[to |-> "pulls", call |-> caller.calls]}
    /\ UNCHANGED <<plan, site>>

(* A pull request may be opened and the answer not say so: its body is     *)
(* malformed, or it is that of a GET to where a redirect led.              *)
SubmitReturns(response) ==
    /\ at = "submit"
    /\ CASE response = "created" -> seen.outcome = "landed" /\ Answer("WAITING_EXTERNAL", LastPull)
         [] response = "malformed" -> seen.outcome = "landed" /\ Answer("PERMANENT", 0)
         [] response = "refused" -> /\ seen.outcome = "refused" /\ Goto("lookup")
                                    /\ seen' = [seen EXCEPT !.refused = TRUE]
         [] response = "denied" -> seen.outcome = "denied" /\ Answer("PERMANENT", 0)
         [] response = "unknown" -> seen.outcome # "unsent" /\ Answer("AMBIGUOUS", 0)
    /\ UNCHANGED <<plan, site, flying>>

Killed ==
    /\ \E journaled \in BOOLEAN : Kill(journaled)
    /\ at' = "idle" /\ seen' = Blank
    /\ UNCHANGED <<plan, site, flying>>

-----------------------------------------------------------------------------
(* GitHub decides on a request, before or after the answer to the call.    *)
HasOpenPull == LastPull # 0 /\ site.pulls[LastPull] = "open"

Acceptable(request) ==
    IF request.to = "update" THEN site.update = "none" ELSE site.update # "none" /\ ~HasOpenPull

Carried(request) ==
    IF request.to = "update" THEN [site EXCEPT !.update = "exact"]
    ELSE [site EXCEPT !.pulls = Append(@, "open"), !.submitted = @ + 1]

Awaited(request) ==
    /\ request.call = caller.calls
    /\ at = IF request.to = "pulls" THEN "submit" ELSE "push"

Settled(request, outcome) ==
    /\ flying' = flying \ {request}
    /\ seen' = IF Awaited(request) THEN [seen EXCEPT !.outcome = outcome] ELSE seen
    /\ UNCHANGED <<caller, plan, at>>

GitHubActs(request) ==
    /\ request.to = "pulls" => LastPull < MaxPulls
    /\ IF Acceptable(request) THEN site' = Carried(request) /\ Settled(request, "landed")
                              ELSE UNCHANGED site /\ Settled(request, "refused")

GitHubDenies(request) == UNCHANGED site /\ Settled(request, "denied")

(* Maintainers of the destination and owners of the fork.                  *)
Others(next) ==
    /\ caller.said # "nothing"
    /\ site' = next /\ UNCHANGED <<caller, plan, at, seen, flying>>

OthersCommit(tree) == Tip < MaxTips /\ Others([site EXCEPT !.base = Append(@, tree)])
MergePullRequest ==
    /\ HasOpenPull /\ site.update = "exact" /\ Tip < MaxTips
    /\ Others([site EXCEPT !.base = Append(@, AllSame), !.pulls[LastPull] = "merged"])
ClosePullRequest == HasOpenPull /\ Others([site EXCEPT !.pulls[LastPull] = "closed"])
ReopenPullRequest ==
    LastPull # 0 /\ site.pulls[LastPull] = "closed" /\ Others([site EXCEPT !.pulls[LastPull] = "open"])
OthersSubmit ==
    /\ site.update # "none" /\ ~HasOpenPull /\ LastPull < MaxPulls
    /\ Others([site EXCEPT !.pulls = Append(@, "open")])
DeleteBranch == site.update # "none" /\ ~HasOpenPull /\ Others([site EXCEPT !.update = "none"])
OverwriteBranch == site.update = "exact" /\ Others([site EXCEPT !.update = "other"])

Next ==
    \/ Plan
    \/ \E kind \in {"apply", "reconcile"} : Begin(kind)
    \/ ReadPayload \/ NoToken
    \/ ResolveDestinationCommit \/ ReadDestinationFiles
    \/ ListRemote \/ CloneToObserve \/ Decide \/ CommitAndPush
    \/ \E temporary \in BOOLEAN : ReadFails(temporary)
    \/ \E denied \in BOOLEAN : ObserveFails(denied)
    \/ \E outcome \in {"unknown", "denied"} : WorkspaceFails(outcome)
    \/ \E success \in BOOLEAN : PushReturns(success)
    \/ LookupPriorPullRequest \/ LookupPullRequest \/ SubmitPullRequest
    \/ \E checks \in SUBSET {"success", "failure", "running"} : LookupValidation(checks)
    \/ \E response \in {"created", "malformed", "refused", "denied", "unknown"} : SubmitReturns(response)
    \/ Killed
    \/ \E request \in flying : GitHubActs(request) \/ GitHubDenies(request)
    \/ \E tree \in Trees : OthersCommit(tree)
    \/ MergePullRequest \/ ClosePullRequest \/ ReopenPullRequest \/ OthersSubmit
    \/ DeleteBranch \/ OverwriteBranch

Spec == Init /\ [][Next]_vars

-----------------------------------------------------------------------------
(* Published means that a commit of the destination's base branch had all  *)
(* planned manifests, with the planned content.                            *)
PublishedIsTrue == caller.said = "PUBLISHED" => \E i \in 1..Tip : site.base[i] = AllSame

(* An apply is repeated only when nothing an earlier one sent is           *)
(* outstanding.                                                            *)
RepeatsAreSafe ==
    (caller.owed = "apply" /\ Idle) => flying = {}

(* A failure that ends the publication leaves no request undecided, of any *)
(* call, and no pull request of its own; except for one that was opened    *)
(* and the answer not understood, which a maintainer may still merge.      *)
FailureIsOver ==
    (caller'.said = "PERMANENT" /\ caller'.owed = "done" /\ ~Idle /\ Idle') =>
        /\ flying = {}
        /\ site.submitted = 0 \/ (at = "submit" /\ seen.outcome = "landed")

DefiniteFailuresAreOver == [][FailureIsOver]_vars

(* When a call answers that the publication is rejected, no pull request   *)
(* of an earlier call can still be opened, unless the destination has      *)
(* other content, the branch is someone else's, or a pull request of it    *)
(* was closed or merged already.                                           *)
RejectionStands ==
    (caller'.said = "REJECTED" /\ ~Idle /\ Idle') =>
        \A request \in flying : (request.to = "pulls" /\ Acceptable(request)) =>
            \/ site.update = "other"
            \/ \E i \in 1..LastPull : site.pulls[i] # "open"
            \/ \E i \in 1..Tip : ObserveDestination(site.base[i]) = "conflict"

RejectionsStand == [][RejectionStands]_vars

(* However calls fail, are killed and are repeated, one pull request is    *)
(* submitted at most.                                                      *)
SubmittedOnce == site.submitted <= 1

(* A reconciliation sends nothing that changes the fork or the             *)
(* destination.                                                            *)
ReconcileObserves == Calling("reconcile") => flying' \subseteq flying
ReconcileOnlyObserves == [][ReconcileObserves]_vars

(* What Plan accepts, apply and reconcile accept; the three manifests are  *)
(* three files of one directory in the repository.                         *)
PlansAreSound ==
    caller.said \notin {"nothing", "misconfigured"} =>
        /\ ParsePayload(plan)
        /\ \A i, k \in 1..3 : Front(plan.files[i].path) = Front(plan.files[k].path)
=============================================================================
