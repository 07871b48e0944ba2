----------------------------- MODULE NpmProvider -----------------------------
(***************************************************************************)
(* The npm provider: a package that was built before is published to a     *)
(* registry, which takes every version once.  The package is read again    *)
(* from disk in every call and must be the one that was planned.           *)
(***************************************************************************)
EXTENDS Sequences, SequencesExt, Texts, RepositoryPath, ProviderCaller

CONSTANT Configurations  \* the configurations to plan from

VARIABLES plan,    \* the operation's payload, at first what it is planned from
          at,      \* the place in a call
          seen,    \* what the call has observed
          site,    \* the registry's version and the package file
          flying   \* publish requests neither carried out nor refused yet

vars == <<caller, plan, at, seen, site, flying>>

-----------------------------------------------------------------------------
(* Configuration, texts as in `Texts`.                                     *)

NormalizeRegistry(url, allowInsecure) ==
    /\ Free(url, {"empty", "relative", "other scheme", "user info", "query", "fragment"})
    /\ "http" \in url => allowInsecure

ValidTag(tag) == Free(tag, {"empty", "long", "semantic version", "space", "slash"})
ValidCredentialRef(ref) == Free(ref, {"empty", "long", "space", "control"})
AbsolutePath(path) == Free(path, {"empty", "relative"})
AuthenticationModes == {"token", "trusted-publishing"}

ParseConfiguration(c) ==
    /\ Free(c.artifact, {"empty", "blank"})
    /\ AbsolutePath(c.packagePath)
    /\ NormalizeRegistry(c.registry, c.allowInsecureHTTP)
    /\ Given(c.tag) => ValidTag(c.tag)
    /\ c.access \in {"", "public", "restricted"}
    /\ c.mode \in AuthenticationModes
    /\ ValidCredentialRef(c.credential)

SelectArtifact(c) == Free(c.artifact, {"not of the release"})

ValidPackageName(name) ==
    /\ Free(name, {"empty", "long", "upper case", "space", "backslash"})
    /\ IF "scoped" \in name
       THEN "slash" \in name /\ Free(name, {"two slashes", "empty scope", "trailing /"})
       ELSE Free(name, {"slash", "dots only"})

(* The first of the archive's manifests counts, and it must be valid.      *)
IsManifest(entry) == Clean(entry.path) \in {<<"package", "package.json">>, <<"package.json">>}

PackageManifest(archive) ==
    /\ archive.gzip
    /\ LET manifests == SelectSeq(archive.entries, IsManifest)
       IN  /\ manifests # <<>>
           /\ Head(manifests).small /\ Head(manifests).json
           /\ ValidPackageName(Head(manifests).name)
           /\ Free(Head(manifests).version, {"empty", "not semantic"})

(* The file has the size and the digest of the release's artifact.         *)
LoadPackage(file) ==
    /\ file.exists /\ file.size = "artifact" /\ file.digest = "artifact"
    /\ PackageManifest(file)

CredentialEnvironment(mode) ==
    IF mode = "trusted-publishing" THEN "DISTROPLANE_NPM_ID_TOKEN" ELSE "DISTROPLANE_NPM_TOKEN"

Plannable(c) == ParseConfiguration(c) /\ SelectArtifact(c) /\ LoadPackage(c.package)

PayloadOf(c) ==
    LET manifest == Head(SelectSeq(c.package.entries, IsManifest))
    IN  [artifact |-> c.artifact, packagePath |-> c.packagePath, registry |-> c.registry,
         package |-> manifest.name, version |-> manifest.version,
         tag |-> IF Given(c.tag) THEN c.tag ELSE Ordinary, access |-> c.access,
         authentication |-> c.mode, sha256 |-> "planned",
         requirement |-> CredentialEnvironment(c.mode)]

ParsePayload(p) ==
    /\ Given(p.artifact) /\ AbsolutePath(p.packagePath) /\ Given(p.package) /\ Given(p.version)
    /\ Given(p.registry) /\ Given(p.tag) /\ p.sha256 # ""
    /\ p.authentication \in AuthenticationModes

-----------------------------------------------------------------------------
Files == {"planned", "rebuilt"}
Versions == {"none", "other"} \union Files
Requests == [content : Files, call : 1..MaxCalls]
Blank == [data |-> "none", outcome |-> "unknown"]
Places == {"idle", "payload", "token", "lookup", "publish", "conflict"}

TypeOK ==
    /\ caller \in Caller
    /\ at \in Places
    /\ seen \in [data : Files \union {"none"},
                 outcome : {"unsent", "unknown", "landed", "refused", "denied", "redirected"}]
    /\ site \in [file : Files, version : Versions, sent : 0..MaxCalls]
    /\ flying \subseteq Requests
    /\ at = "idle" <=> Idle

Init ==
    /\ caller = Unplanned
    /\ plan \in Configurations
    /\ at = "idle" /\ seen = Blank
    /\ site \in [file : {"planned"}, version : {"none", "other", "planned"}, sent : {0}]
    /\ flying = {}

Plan ==
    /\ Planned(Plannable(plan))
    /\ plan' = IF Plannable(plan) THEN PayloadOf(plan) ELSE plan
    /\ UNCHANGED <<at, seen, site, flying>>

Goto(place) == at' = place /\ UNCHANGED caller
Answer(answer) == AnswerWith(answer, 0) /\ at' = "idle" /\ seen' = Blank

Begin(kind) ==
    /\ Call(kind)
    /\ at' = "payload" /\ seen' = Blank
    /\ UNCHANGED <<plan, site, flying>>

\* mutant: only planning compares the digest
WrongPrepareExecution ==
    /\ at = "payload"
    /\ IF ParsePayload(plan)
       THEN Goto("token") /\ seen' = [seen EXCEPT !.data = site.file]
       ELSE Answer("PERMANENT")
    /\ UNCHANGED <<plan, site, flying>>

(* The digest is taken of the bytes that are then sent.                    *)
PrepareExecution ==
    /\ at = "payload"
    /\ IF ParsePayload(plan) /\ site.file = plan.sha256
       THEN Goto("token") /\ seen' = [seen EXCEPT !.data = site.file]
       ELSE Answer("PERMANENT")
    /\ UNCHANGED <<plan, site, flying>>

(* A token is at hand, or exchanged for the identity of a workflow.        *)
AuthenticationToken ==
    /\ at = "token"
    /\ Goto("lookup")
    /\ UNCHANGED <<plan, seen, site, flying>>

StatusError(temporary) == IF temporary THEN "RETRYABLE" ELSE "PERMANENT"

NoToken(temporary) ==
    /\ at = "token"
    /\ temporary => plan.authentication = "trusted-publishing"
    /\ Answer(StatusError(temporary))
    /\ UNCHANGED <<plan, site, flying>>

(* What the registry's version says of the package that was read.          *)
ResultForObserved(version) == IF version = seen.data THEN "PUBLISHED" ELSE "REJECTED"

\* mutant: a version that is absent is taken for a refusal
WrongLookup ==
    /\ at = "lookup"
    /\ CASE site.version # "none" -> Answer(ResultForObserved(site.version))
         [] site.version = "none" /\ Calling("reconcile") -> Answer("REJECTED")
         [] OTHER -> Goto("publish") /\ seen' = [seen EXCEPT !.outcome = "unsent"]
    /\ UNCHANGED <<plan, site, flying>>

Lookup ==
    /\ at = "lookup"
    /\ CASE site.version # "none" -> Answer(ResultForObserved(site.version))
         [] site.version = "none" /\ Calling("reconcile") -> Answer("WAITING_EXTERNAL")
         [] OTHER -> Goto("publish") /\ seen' = [seen EXCEPT !.outcome = "unsent"]
    /\ UNCHANGED <<plan, site, flying>>

LookupFails(temporary) ==
    /\ at = "lookup"
    /\ Answer(StatusError(temporary))
    /\ UNCHANGED <<plan, site, flying>>

Publish ==
    /\ at = "publish" /\ seen.outcome = "unsent"
    /\ Goto("publish") /\ seen' = [seen EXCEPT !.outcome = "unknown"]
    /\ flying' = flying \union {[content |-> seen.data, call |-> caller.calls]}
    /\ site' = [site EXCEPT !.sent = @ + 1]
    /\ UNCHANGED plan

(* A registry that answers the request itself tells what became of it.  A  *)
(* redirect is followed, with a GET where its status asks for one: what is *)
(* answered there, that the package exists or does not, is taken for the   *)
(* answer to the upload.                                                   *)
Answered(outcomes) == seen.outcome \in outcomes \union {"redirected"}

\* mutant: no answer is taken for a failure
WrongPublishReturns(response) ==
    /\ at = "publish" /\ seen.outcome # "unsent"
    /\ CASE response = "created" -> Answered({"landed"}) /\ Answer("PUBLISHED")
         [] response = "conflict" -> Answered({"refused"}) /\ Goto("conflict") /\ UNCHANGED seen
         [] response = "denied" -> Answered({"refused", "denied"}) /\ Answer("PERMANENT")
         [] response = "unknown" -> Answer("PERMANENT")
    /\ UNCHANGED <<plan, site, flying>>

(* The registry refuses a version it has with a conflict, or as it denies  *)
(* a publication.                                                          *)
PublishReturns(response) ==
    /\ at = "publish" /\ seen.outcome # "unsent"
    /\ CASE response = "created" -> Answered({"landed"}) /\ Answer("PUBLISHED")
         [] response = "conflict" -> Answered({"refused"}) /\ Goto("conflict") /\ UNCHANGED seen
         [] response = "denied" -> Answered({"refused", "denied"}) /\ Answer("PERMANENT")
         [] response = "unknown" -> Answer("AMBIGUOUS")
    /\ UNCHANGED <<plan, site, flying>>

LookupAfterConflict(fails) ==
    /\ at = "conflict"
    /\ Answer(IF fails \/ site.version = "none" THEN "AMBIGUOUS" ELSE ResultForObserved(site.version))
    /\ UNCHANGED <<plan, site, flying>>

Killed ==
    /\ \E journaled \in BOOLEAN : Kill(journaled)
    /\ at' = "idle" /\ seen' = Blank
    /\ UNCHANGED <<plan, site, flying>>

OperatorRetries == AuthorizeRetry /\ UNCHANGED <<plan, at, seen, site, flying>>

-----------------------------------------------------------------------------
(* The registry decides on a request, before or after the answer to the    *)
(* call.  A version it has is never replaced.                              *)
Awaited(request) == request.call = caller.calls /\ at = "publish"

Settled(request, outcome) ==
    /\ flying' = flying \ {request}
    /\ seen' = IF Awaited(request) THEN [seen EXCEPT !.outcome = outcome] ELSE seen
    /\ UNCHANGED <<caller, plan, at>>

RegistryActs(request) ==
    IF site.version = "none"
    THEN site' = [site EXCEPT !.version = request.content] /\ Settled(request, "landed")
    ELSE UNCHANGED site /\ Settled(request, "refused")

RegistryDenies(request) == UNCHANGED site /\ Settled(request, "denied")

\* with or without having carried it out
RegistryRedirects(request) ==
    /\ \/ UNCHANGED site
       \/ site.version = "none" /\ site' = [site EXCEPT !.version = request.content]
    /\ Settled(request, "redirected")

(* Others publish the version, or build the package again where it lies.   *)
Others(next) ==
    /\ caller.said # "nothing"
    /\ site' = next /\ UNCHANGED <<caller, plan, at, seen, flying>>

OthersPublish(content) == site.version = "none" /\ Others([site EXCEPT !.version = content])
Rebuild == site.file = "planned" /\ Others([site EXCEPT !.file = "rebuilt"])
Restore == site.file = "rebuilt" /\ Others([site EXCEPT !.file = "planned"])

Next ==
    \/ Plan
    \/ \E kind \in {"apply", "reconcile"} : Begin(kind)
    \/ PrepareExecution \/ AuthenticationToken \/ Lookup \/ Publish
    \/ \E temporary \in BOOLEAN : NoToken(temporary) \/ LookupFails(temporary)
    \/ \E response \in {"created", "conflict", "denied", "unknown"} : PublishReturns(response)
    \/ \E fails \in BOOLEAN : LookupAfterConflict(fails)
    \/ Killed \/ OperatorRetries
    \/ \E request \in flying :
          RegistryActs(request) \/ RegistryDenies(request) \/ RegistryRedirects(request)
    \/ \E content \in {"planned", "other"} : OthersPublish(content)
    \/ Rebuild \/ Restore

Spec == Init /\ [][Next]_vars

-----------------------------------------------------------------------------
(* A call that answers published found that the registry has the planned   *)
(* package, not one that was built again since, or had the registry's word *)
(* for it; unless its upload was redirected, and another answer taken for  *)
(* the registry's.                                                         *)
PublicationIsTrue ==
    (caller'.said = "PUBLISHED" /\ ~Idle /\ Idle') =>
        site.version = "planned" \/ (at = "publish" /\ seen.outcome = "redirected")

PublishedIsTrue == [][PublicationIsTrue]_vars

(* Unless an operator authorized it, an apply is repeated only when        *)
(* nothing an earlier one sent is outstanding.                             *)
RepeatsAreSafe ==
    (caller.owed = "apply" /\ Idle /\ caller.authorized = 0) => flying = {}

(* A failure ends the publication only before anything was sent, or when   *)
(* the one request was refused, or followed to where it was redirected: no *)
(* upload is on its way.  If an operator authorized other attempts, their  *)
(* requests may be, for only the last one's outcome decides.               *)
FailureIsOver ==
    (caller'.said = "PERMANENT" /\ caller'.owed = "done" /\ ~Idle /\ Idle') =>
        /\ \A request \in flying : request.call # caller.calls
        /\ caller.authorized = 0 =>
              /\ flying = {}
              /\ \/ site.sent = 0
                 \/ at = "publish" /\ seen.outcome \in {"refused", "denied", "redirected"}

DefiniteFailuresAreOver == [][FailureIsOver]_vars

(* Rejected means that the version is another package's for good, however  *)
(* many attempts are outstanding.                                          *)
RejectedIsTaken == caller.said = "REJECTED" => site.version \notin {"none", "planned"}
RejectionStands == RejectedIsTaken'
RejectionsStand == [][RejectionStands]_vars

(* However calls fail, are killed and are repeated, one publish request is *)
(* sent, and one more for each attempt that an operator authorizes.        *)
SubmittedOnce == site.sent <= 1 + caller.authorized

(* A reconciliation sends no publish request.                              *)
ReconcileObserves == Calling("reconcile") => flying' \subseteq flying
ReconcileOnlyObserves == [][ReconcileObserves]_vars

(* What Plan accepts, apply and reconcile accept, with a name and a        *)
(* version from the manifest that the package shows first.                 *)
PlansAreSound ==
    caller.said \notin {"nothing", "misconfigured"} =>
        /\ ParsePayload(plan)
        /\ ValidPackageName(plan.package) /\ ValidTag(plan.tag)
        /\ plan.requirement = CredentialEnvironment(plan.authentication)
=============================================================================
