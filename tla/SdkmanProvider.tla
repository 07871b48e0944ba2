---------------------------- MODULE SdkmanProvider ----------------------------
(***************************************************************************)
(* The SDKMAN provider: the release of an archive that lies at a URL is    *)
(* announced, through the State API, where a version that exists may be    *)
(* replaced, or through the older vendor API, and looked up in the public  *)
(* state.  A release that SDKMAN accepts is exposed there later, or never. *)
(***************************************************************************)
EXTENDS Sequences, Texts, ProviderCaller

CONSTANT Configurations  \* the configurations to plan from

VARIABLES plan,    \* the operation's payload, at first what it is planned from
          at,      \* the place in a call
          seen,    \* what the call has observed
          site,    \* the version that SDKMAN exposes, and a release accepted for exposure
          flying   \* releases sent that are neither accepted nor refused yet

vars == <<caller, plan, at, seen, site, flying>>

-----------------------------------------------------------------------------
(* Configuration, texts as in `Texts`, credential references by name.      *)

Platforms == {"UNIVERSAL", "LINUX_64", "LINUX_X64", "LINUX_ARM64", "LINUX_32", "LINUX_X32", "LINUX_ARM32SF",
              "LINUX_ARM32HF", "MAC_OSX", "MAC_X64", "MAC_ARM64", "WINDOWS_64", "WINDOWS_X64"}

PlatformStateIDs ==
    [p \in Platforms |->
        CASE p = "UNIVERSAL" -> "universal"
          [] p \in {"LINUX_64", "LINUX_X64"} -> "linuxx64" [] p = "LINUX_ARM64" -> "linuxarm64"
          [] p \in {"LINUX_32", "LINUX_X32"} -> "linuxx32"
          [] p = "LINUX_ARM32SF" -> "linuxarm32sf" [] p = "LINUX_ARM32HF" -> "linuxarm32hf"
          [] p \in {"MAC_OSX", "MAC_X64"} -> "darwinx64" [] p = "MAC_ARM64" -> "darwinarm64"
          [] p \in {"WINDOWS_64", "WINDOWS_X64"} -> "windowsx64"]

CanonicalPlatform(platform) ==
    CASE platform = "LINUX_64" -> "LINUX_X64"
      [] platform = "LINUX_32" -> "LINUX_X32"
      [] platform = "MAC_OSX" -> "MAC_X64"
      [] platform = "WINDOWS_64" -> "WINDOWS_X64"
      [] OTHER -> platform

StatePlatform(platform, mode) ==
    IF mode = "state" THEN CanonicalPlatform(platform) ELSE PlatformStateIDs[platform]

ValidToken(text) == Free(text, {"empty", "long", "outer space", "space", "control", "slash"})
ValidCredentialRef(ref) == ref \notin {"", "malformed"}

\* what a distribution may be called; the State API knows the first two
Distributions == {"TEMURIN", "ZULU", "OTHER", ""}
ValidStateDistribution(distribution) == distribution \in {"TEMURIN", "ZULU"}
ValidStateDistributionOptional(distribution) ==
    distribution = "" \/ ValidStateDistribution(distribution)

NormalizeURL(url, allowInsecure, base) ==
    /\ Free(url, {"empty", "relative", "other scheme", "user info", "fragment"})
    /\ "http" \in url => allowInsecure
    /\ base => Free(url, {"query"})

NormalizeDownloadURL(url, allowInsecure) == NormalizeURL(url, allowInsecure, FALSE)
NormalizeBaseURL(url, allowInsecure) == NormalizeURL(url, allowInsecure, TRUE)

(* Checksums by algorithm: of the artifact, of something else, or none at   *)
(* all; the hexadecimal digits are in either case.                         *)
Algorithms == {"MD5", "SHA-1", "SHA-224", "SHA-256", "SHA-384", "SHA-512"}
StateAlgorithms == {"MD5", "SHA-256", "SHA-512"}

ValidateChecksums(sums) ==
    /\ DOMAIN sums \subseteq Algorithms
    /\ \A a \in DOMAIN sums : sums[a] # "malformed"

Lower(sum) == IF sum = "ARTIFACT" THEN "artifact" ELSE sum

BindArtifactChecksum(sums) ==
    [a \in DOMAIN sums \union {"SHA-256"} |-> IF a \in DOMAIN sums THEN Lower(sums[a]) ELSE "artifact"]

Bindable(sums, digest) == digest = "sha256" /\ BindArtifactChecksum(sums)["SHA-256"] = "artifact"

AuthenticationMode(a) ==
    IF a.mode # "" THEN a.mode
    ELSE IF a.key # "" \/ a.token # "" THEN "legacy" ELSE "state"

Distinct(one, other) == ValidCredentialRef(one) /\ ValidCredentialRef(other) /\ one # other

ParseConfiguration(c) ==
    LET a == c.authentication
        mode == AuthenticationMode(a)
    IN  /\ ValidToken(c.artifact) /\ ValidToken(c.candidate) /\ ValidToken(c.version)
        /\ NormalizeDownloadURL(c.url, c.allowInsecureHTTP)
        /\ c.platform = "" \/ c.platform \in Platforms
        /\ Given(c.vendor) => ValidToken(c.vendor)
        /\ c.stateDistribution \in Distributions
        /\ Given(c.api) => NormalizeBaseURL(c.api, c.allowInsecureHTTP)
        /\ Given(c.stateApi) => NormalizeBaseURL(c.stateApi, c.allowInsecureHTTP)
        /\ ValidateChecksums(c.checksums)
        /\ mode \in {"legacy", "state"}
        /\ mode = "legacy" => a.email = "" /\ a.password = "" /\ Distinct(a.key, a.token)
        /\ mode = "state" => /\ a.key = "" /\ a.token = "" /\ Distinct(a.email, a.password)
                             /\ "java" \notin c.candidate
                             /\ ValidStateDistributionOptional(c.stateDistribution)
                             /\ DOMAIN c.checksums \subseteq StateAlgorithms

SelectArtifact(c) == Free(c.artifact, {"not of the release"})

Plannable(c) ==
    ParseConfiguration(c) /\ SelectArtifact(c) /\ Bindable(c.checksums, c.algorithm)

\* mutant: the platform is kept in the spelling of the configuration
WrongPayloadOf(c) ==
    LET mode == AuthenticationMode(c.authentication)
        platform == IF c.platform = "" THEN "UNIVERSAL" ELSE c.platform
    IN  [mode |-> mode, artifact |-> c.artifact, candidate |-> c.candidate, version |-> c.version,
         vendor |-> c.vendor, platform |-> platform, statePlatform |-> StatePlatform(platform, mode),
         stateDistribution |-> c.stateDistribution, checksums |-> BindArtifactChecksum(c.checksums)]

PayloadOf(c) ==
    LET mode == AuthenticationMode(c.authentication)
        given == IF c.platform = "" THEN "UNIVERSAL" ELSE c.platform
        platform == IF mode = "state" THEN CanonicalPlatform(given) ELSE given
    IN  [mode |-> mode, artifact |-> c.artifact, candidate |-> c.candidate, version |-> c.version,
         vendor |-> c.vendor, platform |-> platform, statePlatform |-> StatePlatform(platform, mode),
         stateDistribution |-> c.stateDistribution, checksums |-> BindArtifactChecksum(c.checksums)]

ParsePayload(p) ==
    /\ ValidToken(p.artifact) /\ ValidToken(p.candidate) /\ ValidToken(p.version)
    /\ p.mode \in {"", "legacy", "state"}
    /\ p.mode = "state" => /\ "java" \notin p.candidate
                           /\ ValidStateDistributionOptional(p.stateDistribution)
                           /\ p.platform = CanonicalPlatform(p.platform)
                           /\ DOMAIN p.checksums \subseteq StateAlgorithms
    /\ p.platform \in Platforms
    /\ p.statePlatform = StatePlatform(p.platform, p.mode)
    /\ ValidateChecksums(p.checksums)
    /\ p.checksums["SHA-256"] = "artifact"

-----------------------------------------------------------------------------
(* What SDKMAN shows at the release's coordinate.                          *)
Shown == [url : {"ours", "other"}, sha256 : {"", "artifact", "other"}, distribution : Distributions]

None == [url |-> "", sha256 |-> "", distribution |-> ""]

\* What is exposed may lack a checksum.  The older API is not told the distribution; it is
\* assumed to know it.
Released(sha256) ==
    [url |-> "ours", sha256 |-> sha256, distribution |-> plan.stateDistribution]

Requests == [call : 1..MaxCalls]
Blank == [outcome |-> "unknown"]
Places == {"idle", "payload", "lookup", "login", "publish", "conflict"}

TypeOK ==
    /\ caller \in Caller
    /\ at \in Places
    /\ seen \in [outcome : {"unsent", "unknown", "landed", "refused", "denied", "redirected"}]
    /\ site.shown \in Shown \union {None}
    /\ site.next \in {"none", "ours"}
    /\ site.sent \in 0..MaxCalls
    /\ flying \subseteq Requests
    /\ at = "idle" <=> Idle

Init ==
    /\ caller = Unplanned
    /\ plan \in Configurations
    /\ at = "idle" /\ seen = Blank
    /\ site = [shown |-> None, next |-> "none", sent |-> 0]
    /\ flying = {}

Plan ==
    /\ Planned(Plannable(plan))
    /\ plan' = IF Plannable(plan) THEN PayloadOf(plan) ELSE plan
    /\ UNCHANGED <<at, seen, site, flying>>

(* What a result's evidence rests on, its publicationState: on an          *)
(* acceptance, which comes of the request itself, or on what was observed. *)
AcceptanceOnly == 1
Observation == 2

Evidence(answer) ==
    CASE answer \in {"PUBLISHED", "REJECTED"} /\ at # "publish" -> Observation
      [] answer = "PUBLISHED" /\ at = "publish" -> AcceptanceOnly
      [] OTHER -> 0

Goto(place) == at' = place /\ UNCHANGED caller
Answer(answer) == AnswerWith(answer, Evidence(answer)) /\ at' = "idle" /\ seen' = Blank
Prepare == seen' = [seen EXCEPT !.outcome = "unsent"]

Begin(kind) ==
    /\ Call(kind)
    /\ at' = "payload" /\ seen' = Blank
    /\ UNCHANGED <<plan, site, flying>>

(* Apply looks before it publishes, but not with the older API.            *)
ReadPayload ==
    /\ at = "payload"
    /\ CASE ~ParsePayload(plan) -> Answer("PERMANENT")
         [] Calling("apply") /\ ParsePayload(plan) /\ plan.mode # "state" -> Goto("publish") /\ Prepare
         [] OTHER -> Goto("lookup") /\ UNCHANGED seen
    /\ UNCHANGED <<plan, site, flying>>

(* What is exposed is the planned release if nothing exposed says no.       *)
Conflicting(shown) ==
    \/ shown.url # "ours"
    \/ shown.sha256 \notin {"", plan.checksums["SHA-256"]}
    \/ /\ plan.stateDistribution # "" \/ plan.mode = "state"
       /\ shown.distribution # plan.stateDistribution

ResultForObserved(shown) == IF Conflicting(shown) THEN "REJECTED" ELSE "PUBLISHED"

Lookup ==
    /\ at = "lookup"
    /\ CASE site.shown # None -> Answer(ResultForObserved(site.shown))
         [] site.shown = None /\ Calling("reconcile") -> Answer("WAITING_EXTERNAL")
         [] OTHER -> Goto("login") /\ UNCHANGED seen
    /\ UNCHANGED <<plan, site, flying>>

StateStatusError(temporary) == IF temporary THEN "RETRYABLE" ELSE "PERMANENT"

LookupFails(temporary) ==
    /\ at = "lookup"
    /\ Answer(StateStatusError(temporary))
    /\ UNCHANGED <<plan, site, flying>>

(* The vendor's credentials are exchanged for a bearer token.              *)
Login ==
    /\ at = "login"
    /\ Goto("publish") /\ Prepare
    /\ UNCHANGED <<plan, site, flying>>

LoginFails(temporary) ==
    /\ at = "login"
    /\ Answer(StateStatusError(temporary))
    /\ UNCHANGED <<plan, site, flying>>

NoCredentials ==
    /\ at = "publish" /\ seen.outcome = "unsent" /\ plan.mode # "state"
    /\ Answer("PERMANENT")
    /\ UNCHANGED <<plan, site, flying>>

Publish ==
    /\ at = "publish" /\ seen.outcome = "unsent"
    /\ Goto("publish") /\ seen' = [seen EXCEPT !.outcome = "unknown"]
    /\ flying' = flying \union {[call |-> caller.calls]}
    /\ site' = [site EXCEPT !.sent = @ + 1]
    /\ UNCHANGED plan

(* A redirect of the State API is not followed, it is a denial.  One of    *)
(* the older API is, as a GET where its status asks for one, and what is   *)
(* answered there is taken for the answer to the release.                  *)
Answered(outcome) == seen.outcome = outcome \/ (plan.mode # "state" /\ seen.outcome = "redirected")

\* mutant: a release without an answer is tried again
WrongPublishReturns(response) ==
    /\ at = "publish" /\ seen.outcome # "unsent"
    /\ CASE response = "accepted" -> Answered("landed") /\ Answer("PUBLISHED")
         [] response = "conflict" -> Answered("refused") /\ Goto("conflict") /\ UNCHANGED seen
         [] response = "denied" -> seen.outcome \in {"denied", "redirected"} /\ Answer("PERMANENT")
         [] response = "unknown" -> Answer("RETRYABLE")
    /\ UNCHANGED <<plan, site, flying>>

(* The State API accepts with one status only; any other success leaves    *)
(* the outcome unknown, as a temporary failure does.                       *)
PublishReturns(response) ==
    /\ at = "publish" /\ seen.outcome # "unsent"
    /\ CASE response = "accepted" -> Answered("landed") /\ Answer("PUBLISHED")
         [] response = "conflict" -> Answered("refused") /\ Goto("conflict") /\ UNCHANGED seen
         [] response = "denied" -> seen.outcome \in {"denied", "redirected"} /\ Answer("PERMANENT")
         [] response = "unknown" -> Answer("AMBIGUOUS")
    /\ UNCHANGED <<plan, site, flying>>

LookupAfterConflict(fails) ==
    /\ at = "conflict"
    /\ Answer(IF fails \/ site.shown = None THEN "AMBIGUOUS" ELSE ResultForObserved(site.shown))
    /\ UNCHANGED <<plan, site, flying>>

Killed ==
    /\ \E journaled \in BOOLEAN : Kill(journaled)
    /\ at' = "idle" /\ seen' = Blank
    /\ UNCHANGED <<plan, site, flying>>

-----------------------------------------------------------------------------
(* SDKMAN decides on a release, before or after the answer to the call.    *)
(* It may replace a version it has, or refuse to.                          *)
Awaited(request) == request.call = caller.calls /\ at = "publish"

Settled(request, outcome) ==
    /\ flying' = flying \ {request}
    /\ seen' = IF Awaited(request) THEN [seen EXCEPT !.outcome = outcome] ELSE seen
    /\ UNCHANGED <<caller, plan, at>>

SdkmanAccepts(request) == site' = [site EXCEPT !.next = "ours"] /\ Settled(request, "landed")
SdkmanRefuses(request) == site.shown # None /\ UNCHANGED site /\ Settled(request, "refused")
SdkmanDenies(request) == UNCHANGED site /\ Settled(request, "denied")

\* with or without having accepted it
SdkmanRedirects(request) ==
    /\ UNCHANGED site \/ site' = [site EXCEPT !.next = "ours"]
    /\ Settled(request, "redirected")

(* What was accepted becomes visible, if it does, whether the call waits   *)
(* for its answer or has returned.                                         *)
SdkmanExposes(sha256) ==
    /\ site.next = "ours"
    /\ site' = [site EXCEPT !.shown = Released(sha256), !.next = "none"]
    /\ UNCHANGED <<caller, plan, at, seen, flying>>

OthersPublish(shown) ==
    /\ caller.said # "nothing" /\ site.shown = None
    /\ site' = [site EXCEPT !.shown = shown]
    /\ UNCHANGED <<caller, plan, at, seen, flying>>

Next ==
    \/ Plan
    \/ \E kind \in {"apply", "reconcile"} : Begin(kind)
    \/ ReadPayload \/ Lookup \/ Login \/ NoCredentials \/ Publish
    \/ \E temporary \in BOOLEAN : LookupFails(temporary) \/ LoginFails(temporary)
    \/ \E response \in {"accepted", "conflict", "denied", "unknown"} : PublishReturns(response)
    \/ \E fails \in BOOLEAN : LookupAfterConflict(fails)
    \/ Killed
    \/ \E request \in flying :
          SdkmanAccepts(request) \/ SdkmanRefuses(request) \/ SdkmanDenies(request) \/ SdkmanRedirects(request)
    \/ \E sha256 \in {"", "artifact"} : SdkmanExposes(sha256)
    \/ \E shown \in Shown : OthersPublish(shown)

Spec == Init /\ [][Next]_vars

-----------------------------------------------------------------------------
(* What is exposed is the planned release: what the code must take for it. *)
IsPlanned(shown) ==
    /\ shown.url = "ours" /\ shown.sha256 # "other"
    /\ plan.mode = "state" \/ plan.stateDistribution # "" =>
          shown.distribution = plan.stateDistribution

(* A call that answers published says by its evidence what it rests on: an *)
(* observation of the planned release, at its coordinate, or an acceptance *)
(* only.  A release that was accepted is exposed or may still be; but with *)
(* the older API another answer, where a redirect led, may be taken for    *)
(* an acceptance.                                                          *)
PublicationIsTrue ==
    (caller'.said = "PUBLISHED" /\ ~Idle /\ Idle') =>
        IF caller'.evidence = Observation THEN IsPlanned(site.shown)
        ELSE \/ IsPlanned(site.shown) \/ site.next = "ours"
             \/ plan.mode # "state" /\ seen.outcome = "redirected"

PublishedIsTrue == [][PublicationIsTrue]_vars

(* An apply is repeated only when nothing an earlier one sent is           *)
(* outstanding, nor accepted and to be exposed.                            *)
RepeatsAreSafe ==
    (caller.owed = "apply" /\ Idle) => flying = {} /\ site.next = "none"

(* A failure ends the publication only before anything was sent, or when   *)
(* the one release was denied or redirected: none is on its way.           *)
FailureIsOver ==
    (caller'.said = "PERMANENT" /\ caller'.owed = "done" /\ ~Idle /\ Idle') =>
        /\ flying = {}
        /\ \/ site.sent = 0
           \/ at = "publish" /\ seen.outcome \in {"denied", "redirected"}

DefiniteFailuresAreOver == [][FailureIsOver]_vars

(* A release is rejected only while another one is exposed.  A request     *)
(* that is outstanding may still replace that one.                         *)
RejectionStands ==
    (caller'.said = "REJECTED" /\ ~Idle /\ Idle') =>
        site.shown # None /\ ~IsPlanned(site.shown)

RejectionsStand == [][RejectionStands]_vars

(* However calls fail, are killed and are repeated, one release is sent.   *)
SubmittedOnce == site.sent <= 1

(* A reconciliation sends no release.                                      *)
ReconcileObserves == Calling("reconcile") => flying' \subseteq flying
ReconcileOnlyObserves == [][ReconcileObserves]_vars

(* What Plan accepts, apply and reconcile accept.  Two spellings of a      *)
(* platform are looked up at one place with either API, and two platforms  *)
(* never are.                                                              *)
PlansAreSound ==
    caller.said \notin {"nothing", "misconfigured"} =>
        /\ ParsePayload(plan)
        /\ \A p, q \in Platforms :
              StatePlatform(p, "legacy") = StatePlatform(q, "legacy")
                  <=> StatePlatform(p, "state") = StatePlatform(q, "state")
=============================================================================
