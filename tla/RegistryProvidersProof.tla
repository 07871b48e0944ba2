----------------------- MODULE RegistryProvidersProof -----------------------
(***************************************************************************)
(* What the calls of an executor make of a provider's requests, and the    *)
(* invariants of the two providers that publish to a registry, npm and     *)
(* SDKMAN, for any configurations, any number of calls and of authorized   *)
(* attempts.  `ProvidersProof` goes on from here.                          *)
(***************************************************************************)
EXTENDS Sequences, Providers, TLAPS

\* An executor calls only what was planned.
Accepted == caller.said \notin {"nothing", "misconfigured"}

(* What a caller c and the requests f that are outstanding are to each     *)
(* other; open says that the call under way has sent a request and does    *)
(* not know what became of it.  One request is outstanding at most, and    *)
(* while an apply is owed or under way only one of that apply, which it    *)
(* does not know the outcome of.                                           *)
Sound(c, f, open) ==
    /\ c \in Caller
    /\ c.call # "none" => c.owed = c.call /\ c.calls > 0
    /\ c.said \in {"nothing", "misconfigured"} => c.owed = "done" /\ c.call = "none" /\ f = {}
    /\ \A r \in f : r.call \in 1..c.calls
    /\ \A r1, r2 \in f : r1 = r2
    /\ c.owed = "apply" => /\ ~open => f = {}
                           /\ \A r \in f : r.call = c.calls
    /\ c.said = "PERMANENT" /\ c.owed = "done" => f = {}

-----------------------------------------------------------------------------
(* What the steps of the caller make of it. *)

LEMMA AnswerKeeps ==
    ASSUME CallerAssumption, NEW f, NEW open, NEW next, Sound(caller, f, open),
           NEW answer \in Answers, NEW evidence \in Nat, AnswerWith(answer, evidence),
           caller.call # "none",
           caller.call = "apply" /\ answer \in {"RETRYABLE", "PERMANENT"} => ~open
    PROVE  /\ Sound(caller', f, next)
           /\ caller'.call = "none" /\ caller'.said = answer /\ caller'.evidence = evidence
           /\ caller'.calls = caller.calls /\ caller'.authorized = caller.authorized
           /\ caller'.owed = "apply" => caller.call = "apply" /\ answer = "RETRYABLE"
           /\ caller'.owed = "done" /\ answer = "PERMANENT" => f = {}
  <1> DEFINE owed == IF caller.call = "apply" THEN AfterApply(answer) ELSE AfterReconcile(answer)
  <1>1. /\ owed \in {"apply", "reconcile", "done"}
        /\ owed = "apply" => caller.call = "apply" /\ answer = "RETRYABLE"
        /\ owed = "done" /\ answer = "PERMANENT" => caller.call = "apply"
    BY DEF AfterApply, AfterReconcile, Answers, Results, Errors
  <1>2. caller' = [caller EXCEPT !.call = "none", !.said = answer, !.evidence = evidence, !.owed = owed]
    BY DEF AnswerWith
  <1> HIDE DEF owed
  <1>3. caller \in Caller /\ caller.call \in {"apply", "reconcile"} /\ caller.calls \in Nat
    BY DEF Sound, Caller
  <1>4. /\ caller' \in Caller
        /\ caller'.call = "none" /\ caller'.said = answer /\ caller'.evidence = evidence
        /\ caller'.calls = caller.calls /\ caller'.authorized = caller.authorized
        /\ caller'.owed = owed
    BY <1>1, <1>2, <1>3 DEF Caller
  <1>5. answer \notin {"nothing", "misconfigured"}
    BY DEF Answers, Results, Errors
  <1>6. (\A r \in f : r.call \in 1..caller.calls) /\ (\A r1, r2 \in f : r1 = r2)
    BY DEF Sound
  <1>7. owed = "apply" \/ (answer = "PERMANENT" /\ owed = "done") => f = {}
    BY <1>1 DEF Sound
  <1> QED  BY <1>1, <1>4, <1>5, <1>6, <1>7 DEF Sound

LEMMA CallKeeps ==
    ASSUME CallerAssumption, NEW f, NEW open, NEW next, Sound(caller, f, open), ~open,
           NEW kind \in {"apply", "reconcile"}, Call(kind)
    PROVE  /\ Sound(caller', f, next)
           /\ caller'.call = kind /\ caller'.said = caller.said /\ caller'.evidence = caller.evidence
           /\ caller'.calls = caller.calls + 1 /\ caller'.authorized = caller.authorized
           /\ caller'.owed = caller.owed /\ caller.owed = kind /\ caller.call = "none"
           /\ caller.said \notin {"nothing", "misconfigured"}
  <1> DEFINE n == caller.calls + 1
  <1>1. /\ caller \in Caller /\ caller.calls < MaxCalls /\ caller.owed = kind /\ caller.call = "none"
        /\ caller.calls \in Nat
    BY DEF Call, Sound, Caller
  <1>2. n \in 0..MaxCalls /\ n \in Nat /\ n > 0
    BY <1>1 DEF Caller, CallerAssumption
  <1>3. caller' = [caller EXCEPT !.call = kind, !.calls = n]
    BY DEF Call
  <1>4. n = caller.calls + 1
    OBVIOUS
  <1> HIDE DEF n
  <1>5. /\ caller' \in Caller
        /\ caller'.call = kind /\ caller'.said = caller.said /\ caller'.evidence = caller.evidence
        /\ caller'.calls = n /\ caller'.authorized = caller.authorized
        /\ caller'.owed = caller.owed
    BY <1>1, <1>2, <1>3 DEF Caller
  <1>6. (\A r \in f : r.call \in 1..n) /\ (\A r1, r2 \in f : r1 = r2)
    BY <1>1, <1>4 DEF Sound
  <1>7. kind = "apply" => f = {}
    BY <1>1 DEF Sound
  <1>8. caller.said \notin {"nothing", "misconfigured"} /\ ~(caller.said = "PERMANENT" /\ caller.owed = "done")
    BY <1>1 DEF Sound
  <1> QED  BY <1>1, <1>2, <1>4, <1>5, <1>6, <1>7, <1>8 DEF Sound

LEMMA KillKeeps ==
    ASSUME CallerAssumption, NEW f, NEW open, NEW next, Sound(caller, f, open),
           NEW journaled \in BOOLEAN, Kill(journaled)
    PROVE  /\ Sound(caller', f, next)
           /\ caller'.call = "none" /\ caller'.said = "AMBIGUOUS" /\ caller'.owed = "reconcile"
           /\ caller'.evidence \in {0, caller.evidence} /\ caller.call # "none"
           /\ caller'.calls = caller.calls /\ caller'.authorized = caller.authorized
  <1> DEFINE evidence == IF journaled THEN 0 ELSE caller.evidence
  <1>1. caller \in Caller /\ evidence \in Nat /\ evidence \in {0, caller.evidence} /\ caller.call # "none"
    BY DEF Sound, Caller, Kill
  <1>2. caller' = [caller EXCEPT !.call = "none", !.owed = "reconcile", !.said = "AMBIGUOUS",
                                 !.evidence = evidence]
    BY DEF Kill
  <1> HIDE DEF evidence
  <1>3. /\ caller' \in Caller
        /\ caller'.call = "none" /\ caller'.said = "AMBIGUOUS" /\ caller'.owed = "reconcile"
        /\ caller'.evidence = evidence
        /\ caller'.calls = caller.calls /\ caller'.authorized = caller.authorized
    BY <1>1, <1>2 DEF Caller, Answers, Errors
  <1> QED  BY <1>1, <1>3 DEF Sound

LEMMA PlannedKeeps ==
    ASSUME CallerAssumption, NEW f, NEW open, NEW next, Sound(caller, f, open),
           NEW accepted \in BOOLEAN, Planned(accepted)
    PROVE  /\ Sound(caller', f, next) /\ f = {} /\ caller.call = "none" /\ caller.said = "nothing"
           /\ caller'.call = "none" /\ caller'.evidence = caller.evidence
           /\ caller'.calls = caller.calls /\ caller'.authorized = caller.authorized
           /\ caller'.said = IF accepted THEN "planned" ELSE "misconfigured"
  <1> DEFINE said == IF accepted THEN "planned" ELSE "misconfigured"
             owed == IF accepted THEN "apply" ELSE "done"
  <1>1. caller \in Caller /\ caller.call = "none" /\ f = {} /\ caller.said = "nothing"
    BY DEF Sound, Planned
  <1>2. /\ said \in {"planned", "misconfigured"} /\ owed \in {"apply", "done"}
        /\ said = "misconfigured" => owed = "done"
    OBVIOUS
  <1>3. caller' = [caller EXCEPT !.said = said, !.owed = owed]
    BY DEF Planned
  <1> HIDE DEF said, owed
  <1>4. /\ caller' \in Caller
        /\ caller'.call = "none" /\ caller'.evidence = caller.evidence
        /\ caller'.calls = caller.calls /\ caller'.authorized = caller.authorized
        /\ caller'.said = said /\ caller'.owed = owed
    BY <1>1, <1>2, <1>3 DEF Caller
  <1>5. Sound(caller', f, next)
    BY <1>1, <1>2, <1>4 DEF Sound
  <1> QED  BY <1>1, <1>4, <1>5 DEF said

LEMMA NothingSent ==
    ASSUME NEW f, NEW open, Sound(caller, f, open), ~open, caller.call = "apply"
    PROVE  f = {}
  BY DEF Sound

LEMMA SendKeeps ==
    ASSUME CallerAssumption, NEW f, NEW open, NEW next, NEW request,
           Sound(caller, f, open), caller.call = "apply", request.call = caller.calls, next
    PROVE  Sound(caller, {request}, next)
  <1>1. caller.said \notin {"nothing", "misconfigured"}
        /\ caller.owed = "apply" /\ caller \in Caller /\ caller.calls \in Nat /\ caller.calls > 0
    BY DEF Sound, Caller, CallerAssumption
  <1>2. caller.calls \in 1..caller.calls
    BY <1>1
  <1> QED  BY <1>1, <1>2 DEF Sound

LEMMA CallsUnderWay ==
    ASSUME CallerAssumption, NEW f, NEW open, Sound(caller, f, open), caller.call # "none"
    PROVE  caller.calls \in Nat /\ caller.calls > 0 /\ caller.calls <= MaxCalls
  BY DEF Sound, Caller, CallerAssumption

LEMMA SettleKeeps ==
    ASSUME NEW f, NEW open, NEW next, Sound(caller, f, open), NEW request \in f
    PROVE  /\ Sound(caller, f \ {request}, next) /\ f = {request}
           /\ caller.said \notin {"nothing", "misconfigured"}
  BY DEF Sound

LEMMA Passes ==
    ASSUME NEW f, NEW open, NEW next, Sound(caller, f, open),
           caller.owed = "apply" /\ ~next => ~open \/ f = {}
    PROVE  Sound(caller, f, next)
  BY DEF Sound

LEMMA UnplannedIsSound ==
    ASSUME CallerAssumption, NEW open
    PROVE  Sound(Unplanned, {}, open)
  BY DEF CallerAssumption, Unplanned, Sound, Caller

-----------------------------------------------------------------------------
(* npm. *)

\* What Plan accepts, apply and reconcile accept.
NpmPayloadIsSound(p) ==
    /\ p.sha256 = "planned" /\ Npm!ParsePayload(p)
    /\ Npm!ValidPackageName(p.package) /\ Npm!ValidTag(p.tag)
    /\ p.requirement = Npm!CredentialEnvironment(p.authentication)

LEMMA NpmPlannable ==
    ASSUME NEW c, Npm!Plannable(c)
    PROVE  NpmPayloadIsSound(Npm!PayloadOf(c))
  <1> DEFINE manifest == Head(SelectSeq(c.package.entries, Npm!IsManifest))
  <1>1. /\ Npm!ValidPackageName(manifest.name) /\ Npm!Given(manifest.version)
        /\ Npm!Given(c.artifact) /\ Npm!AbsolutePath(c.packagePath)
        /\ Npm!Given(c.registry) /\ c.mode \in Npm!AuthenticationModes
        /\ Npm!Given(c.tag) => Npm!ValidTag(c.tag)
    BY DEF Npm!Plannable, Npm!LoadPackage, Npm!PackageManifest, Npm!ParseConfiguration, Npm!Free,
           Npm!Given, Npm!NormalizeRegistry
  <1> HIDE DEF manifest
  <1>2. Npm!Given(manifest.name)
    BY <1>1 DEF Npm!ValidPackageName, Npm!Free, Npm!Given
  <1>3. Npm!PayloadOf(c) =
          [artifact |-> c.artifact, packagePath |-> c.packagePath, registry |-> c.registry,
           package |-> manifest.name, version |-> manifest.version,
           tag |-> IF Npm!Given(c.tag) THEN c.tag ELSE Npm!Ordinary, access |-> c.access,
           authentication |-> c.mode, sha256 |-> "planned",
           requirement |-> Npm!CredentialEnvironment(c.mode)]
    BY DEF Npm!PayloadOf, manifest
  <1>4. Npm!ValidTag(Npm!Ordinary) /\ Npm!Given(Npm!Ordinary)
    BY DEF Npm!ValidTag, Npm!Free, Npm!Ordinary, Npm!Given
  <1> QED
    BY <1>1, <1>2, <1>3, <1>4 DEF NpmPayloadIsSound, Npm!ParsePayload

NpmPlan ==
    /\ Accepted => plan.sha256 = "planned" /\ NpmPayloadIsSound(plan)
    /\ ~Accepted => caller.owed = "done" /\ caller.call = "none" /\ flying = {} /\ site.sent = 0

\* What a call of npm knows at its place.
NpmReads ==
    /\ at \in {"token", "lookup", "publish", "conflict"} => seen.data = "planned"
    /\ at \in {"publish", "conflict"} => Npm!Calling("apply")
    /\ (at = "publish" /\ seen.outcome = "landed") => site.version = "planned"
    /\ caller.call # "none" => caller.owed = caller.call /\ caller.calls > 0

\* The current call has sent its request.
NpmSent == at = "conflict" \/ (at = "publish" /\ seen.outcome # "unsent")

\* A request of the current call is outstanding while the call waits for it, and after the call
\* only if its outcome was left open.
NpmOutstanding ==
    \A request \in flying :
        /\ request.content = "planned"
        /\ request.call <= caller.calls
        /\ request.call = caller.calls =>
              \/ at = "publish" /\ seen.outcome = "unknown"
              \/ at = "idle" /\ caller.said = "AMBIGUOUS"

\* One request per apply that is not repeated.
NpmCounted ==
    /\ site.sent <= caller.calls
    /\ (caller.call # "none" /\ ~NpmSent) => site.sent < caller.calls
    /\ site.sent <= 1 + caller.authorized
    /\ (caller.owed = "apply" /\ ~NpmSent) => site.sent <= caller.authorized
    /\ site.sent = 0 => flying = {}

\* Unless an operator authorized it, an apply is the only one that sends a request.
NpmAlone ==
    (caller.owed = "apply" /\ caller.authorized = 0) => \A request \in flying : request.call = caller.calls

NpmInv ==
    Npm!TypeOK /\ NpmPlan /\ NpmReads /\ NpmOutstanding /\ NpmCounted /\ NpmAlone /\ Npm!RejectedIsTaken

\* What a step keeps, when it ends a call too.
NpmKept == NpmInv' /\ Npm!PublicationIsTrue /\ Npm!FailureIsOver

LEMMA NpmQuiet ==
    ASSUME NpmInv', Npm!Idle \/ ~Npm!Idle' \/ caller'.said = "AMBIGUOUS"
    PROVE  NpmKept
  BY DEF NpmKept, Npm!PublicationIsTrue, Npm!FailureIsOver

-----------------------------------------------------------------------------
(* What the caller's operators do, an operator's authorization included, field by field. *)

LEMMA NpmAnswerEffect ==
    ASSUME CallerAssumption, Npm!TypeOK, NEW answer \in Npm!Answers, Npm!Answer(answer)
    PROVE  /\ caller' \in Npm!Caller
           /\ caller'.call = "none" /\ caller'.said = answer
           /\ caller'.calls = caller.calls /\ caller'.authorized = caller.authorized
           /\ caller'.owed = IF caller.call = "apply" THEN Npm!AfterApply(answer)
                                                        ELSE Npm!AfterReconcile(answer)
           /\ at' = "idle" /\ seen' = Npm!Blank
  <1>1. caller \in Npm!Caller
    BY DEF Npm!TypeOK
  <1>2. /\ Npm!AfterApply(answer) \in {"apply", "reconcile", "done"}
        /\ Npm!AfterReconcile(answer) \in {"apply", "reconcile", "done"}
    BY DEF Npm!AfterApply, Npm!AfterReconcile
  <1> DEFINE owed == IF caller.call = "apply" THEN Npm!AfterApply(answer) ELSE Npm!AfterReconcile(answer)
  <1>3. owed \in {"apply", "reconcile", "done"}
    BY <1>2
  <1>4. caller' = [caller EXCEPT !.call = "none", !.said = answer, !.evidence = 0, !.owed = owed]
    BY DEF Npm!Answer, Npm!AnswerWith
  <1> HIDE DEF owed
  <1>5. /\ caller' \in Npm!Caller
        /\ caller'.call = "none" /\ caller'.said = answer
        /\ caller'.calls = caller.calls /\ caller'.authorized = caller.authorized
        /\ caller'.owed = owed
    BY <1>1, <1>3, <1>4 DEF Npm!Caller, Npm!Answers
  <1> QED  BY <1>5 DEF Npm!Answer, owed

LEMMA NpmCallEffect ==
    ASSUME CallerAssumption, Npm!TypeOK, NEW kind \in {"apply", "reconcile"}, Npm!Call(kind)
    PROVE  /\ caller' \in Npm!Caller
           /\ caller'.call = kind /\ caller'.said = caller.said
           /\ caller'.calls = caller.calls + 1 /\ caller'.authorized = caller.authorized
           /\ caller'.owed = caller.owed
  <1> DEFINE n == caller.calls + 1
  <1>1. caller \in Npm!Caller /\ caller.calls < MaxCalls /\ caller.owed = kind
    BY DEF Npm!Call, Npm!TypeOK
  <1>2. n \in 0..MaxCalls
    BY <1>1 DEF Npm!Caller, CallerAssumption
  <1>3. caller' = [caller EXCEPT !.call = kind, !.calls = n]
    BY DEF Npm!Call
  <1>4. n = caller.calls + 1
    OBVIOUS
  <1> HIDE DEF n
  <1> QED  BY <1>1, <1>2, <1>3, <1>4 DEF Npm!Caller

LEMMA NpmKillEffect ==
    ASSUME CallerAssumption, Npm!TypeOK, NEW journaled \in BOOLEAN, Npm!Kill(journaled)
    PROVE  /\ caller' \in Npm!Caller
           /\ caller'.call = "none" /\ caller'.said = "AMBIGUOUS"
           /\ caller'.calls = caller.calls /\ caller'.authorized = caller.authorized
           /\ caller'.owed = "reconcile"
  <1> DEFINE evidence == IF journaled THEN 0 ELSE caller.evidence
  <1>1. caller \in Npm!Caller /\ evidence \in Nat
    BY DEF Npm!TypeOK, Npm!Caller
  <1>2. caller' = [caller EXCEPT !.call = "none", !.owed = "reconcile", !.said = "AMBIGUOUS",
                                 !.evidence = evidence]
    BY DEF Npm!Kill
  <1> HIDE DEF evidence
  <1> QED  BY <1>1, <1>2 DEF Npm!Caller, Npm!Answers, Npm!Errors

LEMMA NpmAuthorizeEffect ==
    ASSUME CallerAssumption, Npm!TypeOK, Npm!AuthorizeRetry
    PROVE  /\ caller' \in Npm!Caller
           /\ caller'.call = "none" /\ caller'.said = caller.said
           /\ caller'.calls = caller.calls /\ caller'.authorized = caller.authorized + 1
           /\ caller'.owed = "apply"
  <1> DEFINE n == caller.authorized + 1
  <1>1. caller \in Npm!Caller /\ caller.authorized < MaxAuthorized /\ caller.call = "none"
    BY DEF Npm!AuthorizeRetry, Npm!TypeOK
  <1>2. n \in 0..MaxAuthorized
    BY <1>1 DEF Npm!Caller, CallerAssumption
  <1>3. caller' = [caller EXCEPT !.owed = "apply", !.authorized = n]
    BY DEF Npm!AuthorizeRetry
  <1>4. n = caller.authorized + 1
    OBVIOUS
  <1> HIDE DEF n
  <1> QED  BY <1>1, <1>2, <1>3, <1>4 DEF Npm!Caller

-----------------------------------------------------------------------------
(* An answer keeps the invariant if it is true, and if nothing of its call *)
(* is outstanding, or it says so.                                          *)
LEMMA NpmAnswerStep ==
    ASSUME CallerAssumption, NpmInv, at # "idle", NEW answer \in Npm!Answers, Npm!Answer(answer),
           UNCHANGED <<plan, site, flying>>,
           answer = "RETRYABLE" => ~NpmSent,
           answer # "AMBIGUOUS" => ~(at = "publish" /\ seen.outcome = "unknown"),
           answer = "PUBLISHED" =>
               site.version = "planned" \/ (at = "publish" /\ seen.outcome = "redirected"),
           answer = "PERMANENT" =>
               ~NpmSent \/ (at = "publish" /\ seen.outcome \in {"refused", "denied", "redirected"}),
           answer = "REJECTED" => site.version \notin {"none", "planned"}
    PROVE  NpmKept
  <1>1. /\ caller' \in Npm!Caller
        /\ caller'.call = "none" /\ caller'.said = answer
        /\ caller'.calls = caller.calls /\ caller'.authorized = caller.authorized
        /\ caller'.owed = IF caller.call = "apply" THEN Npm!AfterApply(answer) ELSE Npm!AfterReconcile(answer)
        /\ at' = "idle" /\ seen' = Npm!Blank
    BY NpmAnswerEffect DEF NpmInv
  <1>2. caller.call # "none" /\ caller.call \in {"apply", "reconcile"}
    BY DEF NpmInv, Npm!TypeOK, Npm!Idle, Npm!Caller
  <1>3. Npm!TypeOK'
    BY <1>1 DEF NpmInv, Npm!TypeOK, Npm!Idle, Npm!Blank, Npm!Places
  <1>4. NpmPlan'
    BY <1>1, <1>2 DEF NpmInv, NpmPlan, Accepted, Npm!Answers, Npm!Results, Npm!Errors
  <1>5. NpmReads'
    BY <1>1 DEF NpmReads
  <1>6. NpmOutstanding'
    BY <1>1 DEF NpmInv, NpmOutstanding
  <1>7. NpmCounted'
    <2>1. caller'.owed = "apply" => caller.call = "apply" /\ answer = "RETRYABLE"
      BY <1>1 DEF Npm!AfterApply, Npm!AfterReconcile
    <2>2. caller'.owed = "apply" => site.sent <= caller.authorized
      BY <1>2, <2>1 DEF NpmInv, NpmCounted, NpmReads
    <2> QED  BY <1>1, <2>2 DEF NpmInv, NpmCounted
  <1>8. Npm!RejectedIsTaken'
    BY <1>1 DEF Npm!RejectedIsTaken
  <1>9. NpmAlone'
    <2>1. caller'.owed = "apply" => caller.call = "apply" /\ answer = "RETRYABLE"
      BY <1>1 DEF Npm!AfterApply, Npm!AfterReconcile
    <2>2. (caller'.owed = "apply" /\ caller.authorized = 0) => site.sent = 0
      BY <1>2, <2>1 DEF NpmInv, NpmCounted, NpmReads, Npm!TypeOK
    <2> QED  BY <1>1, <2>2 DEF NpmInv, NpmCounted, NpmAlone
  <1>10. Npm!PublicationIsTrue
    BY <1>1 DEF Npm!PublicationIsTrue
  <1>11. Npm!FailureIsOver
    <2>1. SUFFICES ASSUME answer = "PERMANENT", caller'.owed = "done"
                   PROVE  /\ \A request \in flying : request.call # caller.calls
                          /\ caller.authorized = 0 =>
                                /\ flying = {}
                                /\ \/ site.sent = 0
                                   \/ at = "publish" /\ seen.outcome \in {"refused", "denied", "redirected"}
      BY <1>1 DEF Npm!FailureIsOver
    <2>2. caller.call = "apply" /\ caller.owed = "apply"
      BY <1>1, <1>2, <2>1 DEF Npm!AfterReconcile, NpmInv, NpmReads
    <2>3. \A request \in flying : request.call # caller.calls
      BY <2>1 DEF NpmInv, NpmOutstanding
    <2>4. caller.authorized = 0 => flying = {}
      BY <2>2, <2>3 DEF NpmInv, NpmAlone
    <2>5. (caller.authorized = 0 /\ ~NpmSent) => site.sent = 0
      BY <2>2 DEF NpmInv, NpmCounted, Npm!TypeOK
    <2> QED  BY <2>1, <2>3, <2>4, <2>5
  <1>12. NpmInv'
    BY <1>3, <1>4, <1>5, <1>6, <1>7, <1>8, <1>9 DEF NpmInv
  <1> QED  BY <1>10, <1>11, <1>12 DEF NpmKept

(* A call that goes on to another place without a request.                 *)
LEMMA NpmGotoStep ==
    ASSUME CallerAssumption, NpmInv, at # "idle", ~NpmSent,
           NEW place \in {"token", "lookup", "publish"}, Npm!Goto(place),
           UNCHANGED <<plan, site, flying>>,
           seen' \in [data : Npm!Files \union {"none"},
                      outcome : {"unsent", "unknown", "landed", "refused", "denied", "redirected"}],
           seen'.data = "planned",
           place = "publish" => Npm!Calling("apply") /\ seen'.outcome = "unsent"
    PROVE  NpmKept
  <1>1. at' = place /\ caller' = caller
    BY DEF Npm!Goto
  <1>2. caller.call # "none"
    BY DEF NpmInv, Npm!TypeOK, Npm!Idle
  <1>3. Npm!TypeOK'
    BY <1>1, <1>2 DEF NpmInv, Npm!TypeOK, Npm!Idle, Npm!Places
  <1>4. NpmPlan'
    BY <1>1 DEF NpmInv, NpmPlan, Accepted
  <1>5. NpmReads'
    BY <1>1 DEF NpmInv, NpmReads, Npm!Calling
  <1>6. NpmOutstanding'
    BY <1>1 DEF NpmInv, NpmOutstanding, NpmSent
  <1>7. NpmCounted'
    BY <1>1 DEF NpmInv, NpmCounted, NpmSent
  <1>8. Npm!RejectedIsTaken'
    BY <1>1 DEF NpmInv, Npm!RejectedIsTaken
  <1>9. NpmAlone'
    BY <1>1 DEF NpmInv, NpmAlone
  <1>10. NpmInv'
    BY <1>3, <1>4, <1>5, <1>6, <1>7, <1>8, <1>9 DEF NpmInv
  <1> QED  BY <1>1, <1>10, NpmQuiet DEF Npm!Idle

-----------------------------------------------------------------------------
(* The steps of npm's calls, of the executor, of an operator and of others. *)

LEMMA NpmInitially == CallerAssumption /\ Npm!Init => NpmInv
  <1> SUFFICES ASSUME CallerAssumption, Npm!Init PROVE NpmInv
    OBVIOUS
  <1>1. /\ caller.owed = "done" /\ caller.call = "none" /\ caller.calls = 0 /\ caller.authorized = 0
        /\ caller.said = "nothing" /\ caller \in Npm!Caller
    BY DEF Npm!Init, Npm!Unplanned, Npm!Caller, CallerAssumption
  <1>2. at = "idle" /\ seen = Npm!Blank /\ flying = {}
        /\ site \in [file : {"planned"}, version : {"none", "other", "planned"}, sent : {0}]
    BY DEF Npm!Init
  <1>3. Npm!TypeOK
    BY <1>1, <1>2 DEF Npm!TypeOK, Npm!Blank, Npm!Places, Npm!Idle, Npm!Files, Npm!Versions, CallerAssumption
  <1>4. NpmPlan /\ NpmReads /\ NpmOutstanding /\ Npm!RejectedIsTaken
    BY <1>1, <1>2 DEF NpmPlan, Accepted, NpmReads, NpmOutstanding, Npm!RejectedIsTaken
  <1>5. NpmCounted
    BY <1>1, <1>2 DEF NpmCounted
  <1>6. NpmAlone
    BY <1>1 DEF NpmAlone
  <1> QED  BY <1>3, <1>4, <1>5, <1>6 DEF NpmInv

LEMMA NpmPlanStep ==
    ASSUME CallerAssumption, NpmInv, Npm!Plan
    PROVE  NpmInv'
  <1> DEFINE accepted == Npm!Plannable(plan)
  <1>1. /\ caller' \in Npm!Caller
        /\ caller'.call = caller.call /\ caller'.calls = caller.calls
        /\ caller'.authorized = caller.authorized
        /\ caller'.said = IF accepted THEN "planned" ELSE "misconfigured"
        /\ caller'.owed = IF accepted THEN "apply" ELSE "done"
    <2>1. /\ caller \in Npm!Caller
          /\ caller' = [caller EXCEPT !.said = IF accepted THEN "planned" ELSE "misconfigured",
                                      !.owed = IF accepted THEN "apply" ELSE "done"]
      BY DEF Npm!Plan, Npm!Planned, NpmInv, Npm!TypeOK
    <2> HIDE DEF accepted
    <2> QED  BY <2>1 DEF Npm!Caller
  <1>2. caller.call = "none" /\ flying = {} /\ at = "idle"
    BY DEF Npm!Plan, Npm!Planned, NpmInv, NpmPlan, Accepted, Npm!TypeOK, Npm!Idle
  <1>3. /\ accepted => plan'.sha256 = "planned" /\ NpmPayloadIsSound(plan')
        /\ UNCHANGED <<at, seen, site, flying>>
    BY NpmPlannable DEF Npm!Plan, NpmPayloadIsSound
  <1>4. site.sent = 0
    BY DEF Npm!Plan, Npm!Planned, NpmInv, NpmPlan, Accepted
  <1> HIDE DEF accepted
  <1>5. Npm!TypeOK'
    BY <1>1, <1>2, <1>3 DEF NpmInv, Npm!TypeOK, Npm!Idle
  <1>6. NpmPlan'
    BY <1>1, <1>2, <1>3, <1>4 DEF NpmPlan, Accepted
  <1>7. NpmReads' /\ NpmOutstanding'
    BY <1>1, <1>2, <1>3 DEF NpmReads, NpmOutstanding
  <1>8. NpmCounted'
    BY <1>1, <1>2, <1>3, <1>4 DEF NpmCounted, NpmInv, Npm!TypeOK, Npm!Caller
  <1>9. Npm!RejectedIsTaken'
    BY <1>1 DEF Npm!RejectedIsTaken
  <1>10. NpmAlone'
    BY <1>2, <1>3 DEF NpmAlone
  <1> QED  BY <1>5, <1>6, <1>7, <1>8, <1>9, <1>10 DEF NpmInv

LEMMA NpmBeginStep ==
    ASSUME CallerAssumption, NpmInv, NEW kind \in {"apply", "reconcile"}, Npm!Begin(kind)
    PROVE  NpmInv'
  <1>1. /\ caller' \in Npm!Caller
        /\ caller'.call = kind /\ caller'.said = caller.said
        /\ caller'.calls = caller.calls + 1 /\ caller'.authorized = caller.authorized
        /\ caller'.owed = caller.owed
    BY NpmCallEffect DEF Npm!Begin, NpmInv
  <1>2. /\ at' = "payload" /\ seen' = Npm!Blank /\ UNCHANGED <<plan, site, flying>>
        /\ caller.call = "none" /\ caller.owed = kind /\ at = "idle"
    BY DEF Npm!Begin, Npm!Call, NpmInv, Npm!TypeOK, Npm!Idle
  <1>3. caller.calls \in Nat
    BY DEF NpmInv, Npm!TypeOK, Npm!Caller
  <1>4. Npm!TypeOK'
    BY <1>1, <1>2 DEF NpmInv, Npm!TypeOK, Npm!Idle, Npm!Blank, Npm!Places
  <1>5. NpmPlan'
    BY <1>1, <1>2 DEF NpmInv, NpmPlan, Accepted
  <1>6. NpmReads'
    BY <1>1, <1>2, <1>3 DEF NpmReads
  <1>7. NpmOutstanding'
    <2>1. \A request \in flying : request.content = "planned" /\ request.call <= caller.calls
                                  /\ request.call \in Nat
      BY DEF NpmInv, NpmOutstanding, Npm!TypeOK, Npm!Requests
    <2> QED  BY <1>1, <1>2, <1>3, <2>1 DEF NpmOutstanding
  <1>8. NpmCounted'
    <2>1. site.sent \in Nat
      BY DEF NpmInv, Npm!TypeOK
    <2> QED  BY <1>1, <1>2, <1>3, <2>1 DEF NpmInv, NpmCounted, NpmSent
  <1>9. Npm!RejectedIsTaken'
    BY <1>1, <1>2 DEF NpmInv, Npm!RejectedIsTaken
  <1>10. NpmAlone'
    <2>1. (caller.owed = "apply" /\ caller.authorized = 0) => site.sent = 0
      BY <1>2 DEF NpmInv, NpmCounted, NpmSent, Npm!TypeOK
    <2> QED  BY <1>1, <1>2, <2>1 DEF NpmInv, NpmCounted, NpmAlone
  <1> QED  BY <1>4, <1>5, <1>6, <1>7, <1>8, <1>9, <1>10 DEF NpmInv

LEMMA NpmPrepareExecutionStep ==
    ASSUME CallerAssumption, NpmInv, Npm!PrepareExecution
    PROVE  NpmKept
  <1>1. at = "payload" /\ ~NpmSent /\ UNCHANGED <<plan, site, flying>>
    BY DEF Npm!PrepareExecution, NpmSent
  <1>2. CASE Npm!ParsePayload(plan) /\ site.file = plan.sha256
    <2>1. plan.sha256 = "planned"
      BY <1>1 DEF NpmInv, NpmPlan, Npm!TypeOK, Npm!Idle
    <2>2. Npm!Goto("token") /\ seen' = [seen EXCEPT !.data = site.file] /\ site.file = "planned"
      BY <1>2, <2>1 DEF Npm!PrepareExecution
    <2>3. /\ seen' \in [data : Npm!Files \union {"none"},
                        outcome : {"unsent", "unknown", "landed", "refused", "denied", "redirected"}]
          /\ seen'.data = "planned"
      BY <2>2 DEF NpmInv, Npm!TypeOK, Npm!Files
    <2> QED  BY <1>1, <2>2, <2>3, NpmGotoStep
  <1>3. CASE ~(Npm!ParsePayload(plan) /\ site.file = plan.sha256)
    <2>1. Npm!Answer("PERMANENT") /\ "PERMANENT" \in Npm!Answers
      BY <1>3 DEF Npm!PrepareExecution, Npm!Answers, Npm!Errors
    <2> QED  BY <1>1, <2>1, NpmAnswerStep
  <1> QED  BY <1>2, <1>3

LEMMA NpmAuthenticationTokenStep ==
    ASSUME CallerAssumption, NpmInv, Npm!AuthenticationToken
    PROVE  NpmKept
  <1>1. /\ at = "token" /\ ~NpmSent /\ UNCHANGED <<plan, site, flying>> /\ seen' = seen
        /\ Npm!Goto("lookup") /\ seen.data = "planned"
    BY DEF Npm!AuthenticationToken, NpmSent, NpmInv, NpmReads
  <1>2. seen' \in [data : Npm!Files \union {"none"},
                   outcome : {"unsent", "unknown", "landed", "refused", "denied", "redirected"}]
    BY <1>1 DEF NpmInv, Npm!TypeOK
  <1> QED  BY <1>1, <1>2, NpmGotoStep

LEMMA NpmTemporaryStep ==
    ASSUME CallerAssumption, NpmInv, NEW temporary \in BOOLEAN,
           Npm!NoToken(temporary) \/ Npm!LookupFails(temporary)
    PROVE  NpmKept
  <1>1. /\ at \in {"token", "lookup"} /\ ~NpmSent /\ UNCHANGED <<plan, site, flying>>
        /\ Npm!Answer(Npm!StatusError(temporary)) /\ Npm!StatusError(temporary) \in {"RETRYABLE", "PERMANENT"}
    BY DEF Npm!NoToken, Npm!LookupFails, NpmSent, Npm!StatusError
  <1>2. Npm!StatusError(temporary) \in Npm!Answers
    BY <1>1 DEF Npm!Answers, Npm!Errors
  <1> HIDE DEF Npm!StatusError
  <1> QED  BY <1>1, <1>2, NpmAnswerStep

LEMMA NpmLookupStep ==
    ASSUME CallerAssumption, NpmInv, Npm!Lookup
    PROVE  NpmKept
  <1>1. at = "lookup" /\ ~NpmSent /\ UNCHANGED <<plan, site, flying>> /\ seen.data = "planned"
    BY DEF Npm!Lookup, NpmSent, NpmInv, NpmReads
  <1>2. CASE site.version # "none"
    <2>1. Npm!Answer(Npm!ResultForObserved(site.version))
      BY <1>2 DEF Npm!Lookup
    <2>2. /\ Npm!ResultForObserved(site.version) \in {"PUBLISHED", "REJECTED"}
          /\ Npm!ResultForObserved(site.version) = "PUBLISHED" <=> site.version = "planned"
      BY <1>1 DEF Npm!ResultForObserved
    <2>3. Npm!ResultForObserved(site.version) \in Npm!Answers
      BY <2>2 DEF Npm!Answers, Npm!Results
    <2> QED  BY <1>1, <1>2, <2>1, <2>2, <2>3, NpmAnswerStep
  <1>3. CASE site.version = "none" /\ Npm!Calling("reconcile")
    <2>1. Npm!Answer("WAITING_EXTERNAL") /\ "WAITING_EXTERNAL" \in Npm!Answers
      BY <1>3 DEF Npm!Lookup, Npm!Answers, Npm!Results
    <2> QED  BY <1>1, <2>1, NpmAnswerStep
  <1>4. CASE site.version = "none" /\ ~Npm!Calling("reconcile")
    <2>1. Npm!Goto("publish") /\ seen' = [seen EXCEPT !.outcome = "unsent"]
      BY <1>4 DEF Npm!Lookup
    <2>2. Npm!Calling("apply")
      BY <1>1, <1>4 DEF NpmInv, Npm!TypeOK, Npm!Idle, Npm!Calling, Npm!Caller
    <2>3. /\ seen' \in [data : Npm!Files \union {"none"},
                        outcome : {"unsent", "unknown", "landed", "refused", "denied", "redirected"}]
          /\ seen'.data = "planned" /\ seen'.outcome = "unsent"
      BY <1>1, <2>1 DEF NpmInv, Npm!TypeOK
    <2> QED  BY <1>1, <2>1, <2>2, <2>3, NpmGotoStep
  <1> QED  BY <1>2, <1>3, <1>4

LEMMA NpmPublishStep ==
    ASSUME CallerAssumption, NpmInv, Npm!Publish
    PROVE  NpmInv'
  <1>1. /\ at = "publish" /\ seen.outcome = "unsent" /\ at' = "publish" /\ caller' = caller
        /\ seen.data = "planned" /\ plan' = plan /\ ~NpmSent /\ Npm!Calling("apply")
    BY DEF Npm!Publish, Npm!Goto, NpmInv, NpmReads, NpmSent
  <1>2. /\ caller.calls \in 1..MaxCalls /\ caller.call # "none" /\ caller.owed = "apply"
    BY <1>1 DEF NpmInv, NpmReads, Npm!TypeOK, Npm!Caller, Npm!Calling
  <1> DEFINE request == [content |-> "planned", call |-> caller.calls]
  <1>3. /\ flying' = flying \union {request}
        /\ request \in Npm!Requests /\ request.content = "planned" /\ request.call = caller.calls
    BY <1>1, <1>2 DEF Npm!Publish, Npm!Requests, Npm!Files
  <1> HIDE DEF request
  <1>4. /\ seen' \in [data : Npm!Files \union {"none"},
                      outcome : {"unsent", "unknown", "landed", "refused", "denied", "redirected"}]
        /\ seen'.data = "planned" /\ seen'.outcome = "unknown"
    BY <1>1 DEF Npm!Publish, NpmInv, Npm!TypeOK
  <1>5. site.sent \in Nat /\ site.sent < caller.calls /\ site.sent <= caller.authorized
        /\ caller.authorized \in Nat
    BY <1>1, <1>2 DEF NpmInv, Npm!TypeOK, NpmCounted, Npm!Caller
  <1>6. /\ site' \in [file : Npm!Files, version : Npm!Versions, sent : 0..MaxCalls]
        /\ site'.sent = site.sent + 1 /\ site'.version = site.version
    BY <1>2, <1>5 DEF Npm!Publish, NpmInv, Npm!TypeOK
  <1>7. Npm!TypeOK'
    BY <1>1, <1>3, <1>4, <1>6 DEF NpmInv, Npm!TypeOK, Npm!Idle
  <1>8. NpmPlan'
    BY <1>1, <1>2 DEF NpmInv, NpmPlan, Accepted
  <1>9. NpmReads'
    BY <1>1, <1>4 DEF NpmInv, NpmReads, Npm!Calling
  <1>10. NpmOutstanding'
    BY <1>1, <1>2, <1>3, <1>4 DEF NpmInv, NpmOutstanding
  <1>11. NpmCounted'
    BY <1>1, <1>2, <1>4, <1>5, <1>6 DEF NpmCounted, NpmSent
  <1>12. Npm!RejectedIsTaken'
    BY <1>1, <1>6 DEF NpmInv, Npm!RejectedIsTaken
  <1>13. NpmAlone'
    <2>1. caller.authorized = 0 => site.sent = 0
      BY <1>5
    <2> QED  BY <1>1, <1>3, <2>1 DEF NpmInv, NpmCounted, NpmAlone
  <1> QED  BY <1>7, <1>8, <1>9, <1>10, <1>11, <1>12, <1>13 DEF NpmInv

LEMMA NpmPublishReturnsStep ==
    ASSUME CallerAssumption, NpmInv, NEW response \in {"created", "conflict", "denied", "unknown"},
           Npm!PublishReturns(response)
    PROVE  NpmKept
  <1>1. at = "publish" /\ seen.outcome # "unsent" /\ NpmSent /\ UNCHANGED <<plan, site, flying>>
    BY DEF Npm!PublishReturns, NpmSent
  <1>2. CASE response = "created"
    <2>1. /\ seen.outcome \in {"landed", "redirected"} /\ Npm!Answer("PUBLISHED")
          /\ "PUBLISHED" \in Npm!Answers
      BY <1>2 DEF Npm!PublishReturns, Npm!Answered, Npm!Answers, Npm!Results
    <2>2. seen.outcome = "landed" => site.version = "planned"
      BY <1>1 DEF NpmInv, NpmReads
    <2> QED  BY <1>1, <2>1, <2>2, NpmAnswerStep
  <1>3. CASE response = "denied"
    <2>1. /\ seen.outcome \in {"refused", "denied", "redirected"} /\ Npm!Answer("PERMANENT")
          /\ "PERMANENT" \in Npm!Answers
      BY <1>3 DEF Npm!PublishReturns, Npm!Answered, Npm!Answers, Npm!Errors
    <2> QED  BY <1>1, <2>1, NpmAnswerStep
  <1>4. CASE response = "unknown"
    <2>1. Npm!Answer("AMBIGUOUS") /\ "AMBIGUOUS" \in Npm!Answers
      BY <1>4 DEF Npm!PublishReturns, Npm!Answers, Npm!Errors
    <2> QED  BY <1>1, <2>1, NpmAnswerStep
  <1>5. CASE response = "conflict"
    <2>1. /\ seen.outcome \in {"refused", "redirected"} /\ at' = "conflict"
          /\ caller' = caller /\ seen' = seen
      BY <1>5 DEF Npm!PublishReturns, Npm!Goto, Npm!Answered
    <2>2. caller.call # "none"
      BY <1>1 DEF NpmInv, Npm!TypeOK, Npm!Idle
    <2>3. Npm!TypeOK'
      BY <1>1, <2>1, <2>2 DEF NpmInv, Npm!TypeOK, Npm!Idle, Npm!Places
    <2>4. NpmPlan' /\ NpmReads'
      BY <1>1, <2>1 DEF NpmInv, NpmPlan, Accepted, NpmReads, Npm!Calling
    <2>5. NpmOutstanding'
      BY <1>1, <2>1 DEF NpmInv, NpmOutstanding
    <2>6. NpmCounted' /\ NpmAlone'
      BY <1>1, <2>1 DEF NpmInv, NpmCounted, NpmSent, NpmAlone
    <2>7. Npm!RejectedIsTaken'
      BY <1>1, <2>1 DEF NpmInv, Npm!RejectedIsTaken
    <2>8. NpmInv'
      BY <2>3, <2>4, <2>5, <2>6, <2>7 DEF NpmInv
    <2> QED  BY <2>1, <2>8, NpmQuiet DEF Npm!Idle
  <1> QED  BY <1>2, <1>3, <1>4, <1>5

LEMMA NpmLookupAfterConflictStep ==
    ASSUME CallerAssumption, NpmInv, NEW fails \in BOOLEAN, Npm!LookupAfterConflict(fails)
    PROVE  NpmKept
  <1> DEFINE answer == IF fails \/ site.version = "none" THEN "AMBIGUOUS"
                    ELSE Npm!ResultForObserved(site.version)
  <1>1. /\ at = "conflict" /\ UNCHANGED <<plan, site, flying>> /\ Npm!Answer(answer)
        /\ seen.data = "planned"
    BY DEF Npm!LookupAfterConflict, NpmInv, NpmReads
  <1>2. /\ answer \in {"AMBIGUOUS", "PUBLISHED", "REJECTED"}
        /\ answer = "PUBLISHED" => site.version = "planned"
        /\ answer = "REJECTED" => site.version \notin {"none", "planned"}
    BY <1>1 DEF Npm!ResultForObserved
  <1> HIDE DEF answer
  <1>3. answer \in Npm!Answers
    BY <1>2 DEF Npm!Answers, Npm!Results, Npm!Errors
  <1> QED  BY <1>1, <1>2, <1>3, NpmAnswerStep

LEMMA NpmKilledStep ==
    ASSUME CallerAssumption, NpmInv, Npm!Killed
    PROVE  NpmInv'
  <1>1. PICK journaled \in BOOLEAN : Npm!Kill(journaled)
    BY DEF Npm!Killed
  <1>2. /\ caller' \in Npm!Caller
        /\ caller'.call = "none" /\ caller'.said = "AMBIGUOUS"
        /\ caller'.calls = caller.calls /\ caller'.authorized = caller.authorized
        /\ caller'.owed = "reconcile"
    BY <1>1, NpmKillEffect DEF NpmInv
  <1>3. at' = "idle" /\ seen' = Npm!Blank /\ UNCHANGED <<plan, site, flying>> /\ caller.call # "none"
    BY <1>1 DEF Npm!Killed, Npm!Kill
  <1>4. Npm!TypeOK'
    BY <1>2, <1>3 DEF NpmInv, Npm!TypeOK, Npm!Idle, Npm!Blank, Npm!Places
  <1>5. NpmPlan' /\ NpmReads'
    BY <1>2, <1>3 DEF NpmInv, NpmPlan, Accepted, NpmReads
  <1>6. NpmOutstanding'
    BY <1>2, <1>3 DEF NpmInv, NpmOutstanding
  <1>7. NpmCounted'
    BY <1>2, <1>3 DEF NpmInv, NpmCounted
  <1>8. Npm!RejectedIsTaken'
    BY <1>2, <1>3 DEF Npm!RejectedIsTaken
  <1>9. NpmAlone'
    BY <1>2 DEF NpmAlone
  <1> QED  BY <1>4, <1>5, <1>6, <1>7, <1>8, <1>9 DEF NpmInv

LEMMA NpmOperatorRetriesStep ==
    ASSUME CallerAssumption, NpmInv, Npm!OperatorRetries
    PROVE  NpmInv'
  <1>1. /\ caller' \in Npm!Caller
        /\ caller'.call = "none" /\ caller'.said = caller.said
        /\ caller'.calls = caller.calls /\ caller'.authorized = caller.authorized + 1
        /\ caller'.owed = "apply"
    BY NpmAuthorizeEffect DEF Npm!OperatorRetries, NpmInv
  <1>2. /\ UNCHANGED <<plan, at, seen, site, flying>>
        /\ caller.call = "none" /\ caller.owed = "reconcile" /\ caller.said = "WAITING_EXTERNAL"
        /\ at = "idle"
    BY DEF Npm!OperatorRetries, Npm!AuthorizeRetry, NpmInv, Npm!TypeOK, Npm!Idle
  <1>3. caller.authorized \in Nat /\ site.sent \in Nat /\ site.sent <= 1 + caller.authorized
    BY DEF NpmInv, Npm!TypeOK, Npm!Caller, NpmCounted
  <1>4. Npm!TypeOK'
    BY <1>1, <1>2 DEF NpmInv, Npm!TypeOK, Npm!Idle
  <1>5. NpmPlan' /\ NpmReads'
    BY <1>1, <1>2 DEF NpmInv, NpmPlan, Accepted, NpmReads
  <1>6. NpmOutstanding'
    BY <1>1, <1>2 DEF NpmInv, NpmOutstanding
  <1>7. NpmCounted'
    BY <1>1, <1>2, <1>3 DEF NpmInv, NpmCounted, NpmSent
  <1>8. Npm!RejectedIsTaken'
    BY <1>1, <1>2 DEF NpmInv, Npm!RejectedIsTaken
  <1>9. NpmAlone'
    BY <1>1, <1>3 DEF NpmAlone
  <1> QED  BY <1>4, <1>5, <1>6, <1>7, <1>8, <1>9 DEF NpmInv

LEMMA NpmSettledStep ==
    ASSUME CallerAssumption, NpmInv, NEW request \in flying,
           NEW outcome \in {"landed", "refused", "denied", "redirected"}, Npm!Settled(request, outcome),
           site' \in [file : Npm!Files, version : Npm!Versions, sent : 0..MaxCalls],
           site'.sent = site.sent,
           site.version # "none" => site'.version = site.version,
           outcome = "landed" => site'.version = "planned"
    PROVE  NpmInv'
  <1>1. /\ flying' = flying \ {request} /\ caller' = caller /\ plan' = plan /\ at' = at
        /\ seen' = IF Npm!Awaited(request) THEN [seen EXCEPT !.outcome = outcome] ELSE seen
    BY DEF Npm!Settled
  <1>2. /\ request.content = "planned"
        /\ Npm!Awaited(request) => seen.outcome = "unknown"
        /\ request \in Npm!Requests
    BY DEF NpmInv, NpmOutstanding, Npm!Awaited, Npm!TypeOK
  <1>3. /\ seen' \in [data : Npm!Files \union {"none"},
                      outcome : {"unsent", "unknown", "landed", "refused", "denied", "redirected"}]
        /\ seen'.data = seen.data
        /\ seen'.outcome = IF Npm!Awaited(request) THEN outcome ELSE seen.outcome
    BY <1>1 DEF NpmInv, Npm!TypeOK
  <1>4. Npm!TypeOK'
    BY <1>1, <1>3 DEF NpmInv, Npm!TypeOK, Npm!Idle
  <1>5. NpmPlan'
    BY <1>1 DEF NpmInv, NpmPlan, Accepted
  <1>6. site.version = "planned" => site'.version = "planned"
    OBVIOUS
  <1>7. NpmReads'
    BY <1>1, <1>3, <1>6 DEF NpmInv, NpmReads, Npm!Calling, Npm!Awaited
  <1>8. NpmOutstanding'
    <2>1. \A other \in flying' : other \in flying /\ other # request /\ other \in Npm!Requests
      BY <1>1 DEF NpmInv, Npm!TypeOK
    <2>2. \A other \in flying' : other.content = "planned"
      BY <2>1 DEF NpmInv, NpmOutstanding
    <2>3. \A other \in flying' : other.call = request.call => FALSE
      BY <1>2, <2>1, <2>2 DEF Npm!Requests
    <2> QED  BY <1>1, <1>2, <1>3, <2>1, <2>3 DEF NpmInv, NpmOutstanding, Npm!Awaited
  <1>9. NpmSent' <=> NpmSent
    BY <1>1, <1>2, <1>3 DEF NpmSent
  <1>10. NpmCounted'
    BY <1>1, <1>9 DEF NpmInv, NpmCounted
  <1>11. Npm!RejectedIsTaken'
    BY <1>1 DEF NpmInv, Npm!RejectedIsTaken
  <1>12. NpmAlone'
    BY <1>1 DEF NpmInv, NpmAlone
  <1> QED  BY <1>4, <1>5, <1>7, <1>8, <1>10, <1>11, <1>12 DEF NpmInv

LEMMA NpmRegistryStep ==
    ASSUME CallerAssumption, NpmInv, NEW request \in flying,
           Npm!RegistryActs(request) \/ Npm!RegistryDenies(request) \/ Npm!RegistryRedirects(request)
    PROVE  NpmInv'
  <1>1. site \in [file : Npm!Files, version : Npm!Versions, sent : 0..MaxCalls]
    BY DEF NpmInv, Npm!TypeOK
  <1>2. PICK outcome \in {"landed", "refused", "denied", "redirected"} :
            /\ Npm!Settled(request, outcome)
            /\ \/ site' = site /\ outcome # "landed"
               \/ site.version = "none" /\ site' = [site EXCEPT !.version = request.content]
    BY DEF Npm!RegistryActs, Npm!RegistryDenies, Npm!RegistryRedirects
  <1>3. request.content = "planned"
    BY DEF NpmInv, NpmOutstanding
  <1>4. CASE site' = site /\ outcome # "landed"
    BY <1>1, <1>2, <1>4, NpmSettledStep
  <1>5. CASE site.version = "none" /\ site' = [site EXCEPT !.version = request.content]
    <2>1. /\ site' \in [file : Npm!Files, version : Npm!Versions, sent : 0..MaxCalls]
          /\ site'.sent = site.sent /\ site'.version = "planned"
      BY <1>1, <1>3, <1>5 DEF Npm!Versions, Npm!Files
    <2> QED  BY <1>2, <1>5, <2>1, NpmSettledStep
  <1> QED  BY <1>2, <1>4, <1>5

LEMMA NpmOthersStep ==
    ASSUME CallerAssumption, NpmInv,
           \/ \E content \in {"planned", "other"} : Npm!OthersPublish(content)
           \/ Npm!Rebuild \/ Npm!Restore
    PROVE  NpmInv'
  <1>1. UNCHANGED <<caller, plan, at, seen, flying>> /\ caller.said # "nothing"
    BY DEF Npm!OthersPublish, Npm!Rebuild, Npm!Restore, Npm!Others
  <1>2. /\ site' \in [file : Npm!Files, version : Npm!Versions, sent : 0..MaxCalls]
        /\ site'.sent = site.sent
        /\ site.version # "none" => site'.version = site.version
    BY DEF NpmInv, Npm!TypeOK, Npm!OthersPublish, Npm!Rebuild, Npm!Restore, Npm!Others, Npm!Versions,
           Npm!Files
  <1>3. Npm!TypeOK'
    BY <1>1, <1>2 DEF NpmInv, Npm!TypeOK, Npm!Idle
  <1>4. NpmPlan'
    BY <1>1, <1>2 DEF NpmInv, NpmPlan, Accepted
  <1>5. NpmReads'
    BY <1>1, <1>2 DEF NpmInv, NpmReads, Npm!Calling
  <1>6. NpmOutstanding'
    BY <1>1 DEF NpmInv, NpmOutstanding
  <1>7. NpmCounted'
    BY <1>1, <1>2 DEF NpmInv, NpmCounted, NpmSent
  <1>8. Npm!RejectedIsTaken'
    BY <1>1, <1>2 DEF NpmInv, Npm!RejectedIsTaken
  <1>9. NpmAlone'
    BY <1>1 DEF NpmInv, NpmAlone
  <1> QED  BY <1>3, <1>4, <1>5, <1>6, <1>7, <1>8, <1>9 DEF NpmInv

LEMMA NpmStutters ==
    ASSUME NpmInv, UNCHANGED <<caller, plan, at, seen, site, flying>>
    PROVE  NpmInv'
  BY DEF NpmInv, Npm!TypeOK, Npm!Idle, NpmPlan, Accepted, NpmReads, Npm!Calling, NpmOutstanding,
         NpmCounted, NpmSent, NpmAlone, Npm!RejectedIsTaken

\* What a step keeps, and what it does not do.
NpmStep == NpmKept /\ Npm!RejectionStands /\ Npm!ReconcileObserves

LEMMA NpmSteps ==
    ASSUME CallerAssumption, NpmInv, Npm!Next \/ UNCHANGED <<caller, plan, at, seen, site, flying>>
    PROVE  NpmStep
  <1>1. NpmKept
    <2>1. CASE UNCHANGED <<caller, plan, at, seen, site, flying>>
      BY <2>1, NpmStutters, NpmQuiet DEF Npm!Idle
    <2>2. CASE Npm!PrepareExecution \/ Npm!AuthenticationToken \/ Npm!Lookup
      BY <2>2, NpmPrepareExecutionStep, NpmAuthenticationTokenStep, NpmLookupStep
    <2>3. CASE \/ \E temporary \in BOOLEAN : Npm!NoToken(temporary) \/ Npm!LookupFails(temporary)
               \/ \E response \in {"created", "conflict", "denied", "unknown"} : Npm!PublishReturns(response)
               \/ \E fails \in BOOLEAN : Npm!LookupAfterConflict(fails)
      BY <2>3, NpmTemporaryStep, NpmPublishReturnsStep, NpmLookupAfterConflictStep
    <2>4. CASE Npm!Plan \/ \E kind \in {"apply", "reconcile"} : Npm!Begin(kind)
      <3>1. NpmInv'
        BY <2>4, NpmPlanStep, NpmBeginStep
      <3>2. Npm!Idle
        BY <2>4 DEF Npm!Plan, Npm!Planned, Npm!Begin, Npm!Call, Npm!Idle, NpmInv, NpmPlan, Accepted
      <3> QED  BY <3>1, <3>2, NpmQuiet
    <2>5. CASE Npm!Publish
      <3>1. NpmInv' /\ caller' = caller
        BY <2>5, NpmPublishStep DEF Npm!Publish, Npm!Goto
      <3> QED  BY <3>1, NpmQuiet DEF Npm!Idle
    <2>6. CASE Npm!Killed
      <3>1. NpmInv' /\ caller'.said = "AMBIGUOUS"
        BY <2>6, NpmKilledStep, NpmKillEffect DEF Npm!Killed, NpmInv
      <3> QED  BY <3>1, NpmQuiet
    <2>7. CASE Npm!OperatorRetries
      <3>1. NpmInv' /\ Npm!Idle
        BY <2>7, NpmOperatorRetriesStep DEF Npm!OperatorRetries, Npm!AuthorizeRetry, Npm!Idle
      <3> QED  BY <3>1, NpmQuiet
    <2>8. CASE \E request \in flying :
                  Npm!RegistryActs(request) \/ Npm!RegistryDenies(request) \/ Npm!RegistryRedirects(request)
      <3>1. NpmInv' /\ caller' = caller
        BY <2>8, NpmRegistryStep
        DEF Npm!RegistryActs, Npm!RegistryDenies, Npm!RegistryRedirects, Npm!Settled
      <3> QED  BY <3>1, NpmQuiet DEF Npm!Idle
    <2>9. CASE \/ \E content \in {"planned", "other"} : Npm!OthersPublish(content)
               \/ Npm!Rebuild \/ Npm!Restore
      <3>1. NpmInv' /\ caller' = caller
        BY <2>9, NpmOthersStep DEF Npm!OthersPublish, Npm!Rebuild, Npm!Restore, Npm!Others
      <3> QED  BY <3>1, NpmQuiet DEF Npm!Idle
    <2> QED  BY <2>1, <2>2, <2>3, <2>4, <2>5, <2>6, <2>7, <2>8, <2>9 DEF Npm!Next
  <1>2. Npm!RejectionStands
    BY <1>1 DEF NpmKept, NpmInv, Npm!RejectionStands
  <1>3. Npm!ReconcileObserves
    <2>1. CASE UNCHANGED <<caller, plan, at, seen, site, flying>>
      BY <2>1 DEF Npm!ReconcileObserves
    <2>2. CASE Npm!Publish
      <3>1. Npm!Calling("apply")
        BY <2>2 DEF Npm!Publish, NpmInv, NpmReads
      <3> QED  BY <3>1 DEF Npm!Calling, Npm!ReconcileObserves
    <2>3. CASE Npm!Next /\ ~Npm!Publish
      <3>1. flying' \subseteq flying
        BY <2>3
        DEF Npm!Next, Npm!Plan, Npm!Begin, Npm!PrepareExecution, Npm!AuthenticationToken, Npm!Lookup,
            Npm!NoToken, Npm!LookupFails, Npm!PublishReturns, Npm!LookupAfterConflict, Npm!Killed,
            Npm!OperatorRetries, Npm!RegistryActs, Npm!RegistryDenies, Npm!RegistryRedirects, Npm!Settled,
            Npm!OthersPublish, Npm!Rebuild, Npm!Restore, Npm!Others
      <3> QED  BY <3>1 DEF Npm!ReconcileObserves
    <2> QED  BY <2>1, <2>2, <2>3
  <1> QED  BY <1>1, <1>2, <1>3 DEF NpmStep

(* What the invariant says of the properties.                              *)
LEMMA NpmProperties ==
    ASSUME NpmInv
    PROVE  /\ Npm!TypeOK /\ Npm!RepeatsAreSafe /\ Npm!SubmittedOnce /\ Npm!PlansAreSound
  <1>1. Npm!RepeatsAreSafe
    <2>1. SUFFICES ASSUME NpmInv, caller.owed = "apply", Npm!Idle, caller.authorized = 0 PROVE flying = {}
      BY DEF Npm!RepeatsAreSafe
    <2>2. site.sent <= 0 /\ site.sent \in Nat
      BY <2>1 DEF NpmInv, Npm!TypeOK, NpmCounted, NpmSent
    <2> QED  BY <2>1, <2>2 DEF NpmInv, NpmCounted
  <1>2. Npm!SubmittedOnce
    BY DEF NpmInv, NpmCounted, Npm!SubmittedOnce
  <1>3. Npm!PlansAreSound
    BY DEF NpmInv, NpmPlan, NpmPayloadIsSound, Accepted, Npm!PlansAreSound
  <1> QED  BY <1>1, <1>2, <1>3 DEF NpmInv

-----------------------------------------------------------------------------
(* SDKMAN. *)

LEMMA SdkmanCaller ==
    /\ Sdkman!Answers = Answers /\ Sdkman!Caller = Caller /\ Sdkman!Unplanned = Unplanned
    /\ \A answer, evidence : Sdkman!AnswerWith(answer, evidence) <=> AnswerWith(answer, evidence)
    /\ \A kind : Sdkman!Call(kind) <=> Call(kind)
    /\ \A journaled : Sdkman!Kill(journaled) <=> Kill(journaled)
    /\ \A accepted : Sdkman!Planned(accepted) <=> Planned(accepted)
  <1>1. Sdkman!Answers = Answers
    BY DEF Sdkman!Answers, Answers, Sdkman!Results, Results, Sdkman!Errors, Errors
  <1>2. Sdkman!Caller = Caller
    BY <1>1 DEF Sdkman!Caller, Caller
  <1>3. \A answer, evidence : Sdkman!AnswerWith(answer, evidence) <=> AnswerWith(answer, evidence)
    BY DEF Sdkman!AnswerWith, AnswerWith, Sdkman!AfterApply, AfterApply,
           Sdkman!AfterReconcile, AfterReconcile
  <1> QED
    BY <1>1, <1>2, <1>3 DEF Sdkman!Unplanned, Unplanned, Sdkman!Call, Call, Sdkman!Kill, Kill,
                            Sdkman!Planned, Planned

(* Two spellings of a platform have one canonical spelling, and one name   *)
(* with the older API.                                                     *)
LEMMA SdkmanPlatforms ==
    \A p \in Sdkman!Platforms :
        /\ Sdkman!CanonicalPlatform(p) \in Sdkman!Platforms
        /\ Sdkman!CanonicalPlatform(Sdkman!CanonicalPlatform(p)) = Sdkman!CanonicalPlatform(p)
        /\ \A q \in Sdkman!Platforms :
              Sdkman!PlatformStateIDs[p] = Sdkman!PlatformStateIDs[q]
                  <=> Sdkman!CanonicalPlatform(p) = Sdkman!CanonicalPlatform(q)
  <1> DEFINE ID(p) == Sdkman!PlatformStateIDs[p]
             Canonical(p) == Sdkman!CanonicalPlatform(p)
             CanonicalOf(id) == CASE id = "linuxx64" -> "LINUX_X64"
                                  [] id = "linuxx32" -> "LINUX_X32"
                                  [] id = "darwinx64" -> "MAC_X64"
                                  [] id = "windowsx64" -> "WINDOWS_X64"
                                  [] id = "universal" -> "UNIVERSAL"
                                  [] id = "linuxarm64" -> "LINUX_ARM64"
                                  [] id = "linuxarm32sf" -> "LINUX_ARM32SF"
                                  [] id = "linuxarm32hf" -> "LINUX_ARM32HF"
                                  [] OTHER -> "MAC_ARM64"
  <1>1. ASSUME NEW p \in Sdkman!Platforms
        PROVE  /\ Canonical(p) \in Sdkman!Platforms /\ Canonical(Canonical(p)) = Canonical(p)
               /\ CanonicalOf(ID(p)) = Canonical(p) /\ ID(Canonical(p)) = ID(p)
    BY <1>1 DEF Sdkman!Platforms, Sdkman!CanonicalPlatform, Sdkman!PlatformStateIDs
  <1> HIDE DEF ID, Canonical, CanonicalOf
  <1>2. \A p, q \in Sdkman!Platforms : ID(p) = ID(q) <=> Canonical(p) = Canonical(q)
    BY <1>1
  <1> QED  BY <1>1, <1>2 DEF ID, Canonical

(* What Plan accepts makes a payload that apply and reconcile accept.      *)
LEMMA SdkmanPlannable ==
    ASSUME NEW c, Sdkman!Plannable(c)
    PROVE  /\ Sdkman!ParsePayload(Sdkman!PayloadOf(c))
           /\ Sdkman!PayloadOf(c).stateDistribution \in Sdkman!Distributions
  <1> DEFINE mode == Sdkman!AuthenticationMode(c.authentication)
             given == IF c.platform = "" THEN "UNIVERSAL" ELSE c.platform
             platform == IF mode = "state" THEN Sdkman!CanonicalPlatform(given) ELSE given
             sums == Sdkman!BindArtifactChecksum(c.checksums)
             p == Sdkman!PayloadOf(c)
  <1>1. /\ Sdkman!ValidToken(c.artifact) /\ Sdkman!ValidToken(c.candidate) /\ Sdkman!ValidToken(c.version)
        /\ mode \in {"legacy", "state"} /\ c.stateDistribution \in Sdkman!Distributions
        /\ mode = "state" => /\ "java" \notin c.candidate
                             /\ Sdkman!ValidStateDistributionOptional(c.stateDistribution)
                             /\ DOMAIN c.checksums \subseteq Sdkman!StateAlgorithms
    BY DEF Sdkman!Plannable, Sdkman!ParseConfiguration
  <1>2. c.platform = "" \/ c.platform \in Sdkman!Platforms
    BY DEF Sdkman!Plannable, Sdkman!ParseConfiguration
  <1>3. given \in Sdkman!Platforms
    BY <1>2 DEF Sdkman!Platforms
  <1>4. p = [mode |-> mode, artifact |-> c.artifact, candidate |-> c.candidate, version |-> c.version,
             vendor |-> c.vendor, platform |-> platform,
             statePlatform |-> Sdkman!StatePlatform(platform, mode),
             stateDistribution |-> c.stateDistribution, checksums |-> sums]
    BY DEF Sdkman!PayloadOf
  <1>5. /\ platform \in Sdkman!Platforms
        /\ mode = "state" => platform = Sdkman!CanonicalPlatform(platform)
    BY <1>3, SdkmanPlatforms
  <1>6. /\ Sdkman!ValidateChecksums(sums) /\ sums["SHA-256"] = "artifact"
        /\ mode = "state" => DOMAIN sums \subseteq Sdkman!StateAlgorithms
    <2>1. /\ DOMAIN c.checksums \subseteq Sdkman!Algorithms
          /\ \A a \in DOMAIN c.checksums : c.checksums[a] # "malformed"
          /\ sums["SHA-256"] = "artifact"
      BY DEF Sdkman!Plannable, Sdkman!ParseConfiguration, Sdkman!ValidateChecksums, Sdkman!Bindable
    <2>2. /\ DOMAIN sums = DOMAIN c.checksums \union {"SHA-256"}
          /\ \A a \in DOMAIN sums : sums[a] # "malformed"
      BY <2>1 DEF Sdkman!BindArtifactChecksum, Sdkman!Lower
    <2> QED  BY <1>1, <2>1, <2>2 DEF Sdkman!ValidateChecksums, Sdkman!Algorithms, Sdkman!StateAlgorithms
  <1> HIDE DEF mode, platform, sums, p
  <1>7. Sdkman!ParsePayload(p)
    BY <1>1, <1>4, <1>5, <1>6 DEF Sdkman!ParsePayload
  <1> QED  BY <1>1, <1>4, <1>7 DEF p

\* The call under way has sent its release; and it does not know what became of it.
SdkmanSent == at = "conflict" \/ (at = "publish" /\ seen.outcome # "unsent")
SdkmanOpen == at = "publish" /\ seen.outcome = "unknown"

\* The planned release is exposed, or was accepted and may be.
SdkmanTaken == Sdkman!IsPlanned(site.shown) \/ site.next = "ours"

SdkmanPlan ==
    /\ Accepted => Sdkman!ParsePayload(plan) /\ plan.stateDistribution \in Sdkman!Distributions
    /\ ~Accepted => site.sent = 0

\* What a call knows at its place.
SdkmanReads ==
    /\ at \in {"login", "publish", "conflict"} => caller.call = "apply"
    /\ (at = "publish" /\ seen.outcome = "landed") => SdkmanTaken

\* One release is sent, by the only apply that sends one.
SdkmanSite ==
    /\ site \in [shown : Sdkman!Shown \union {Sdkman!None}, next : {"none", "ours"}, sent : {0, 1}]
    /\ site.sent = 0 => site.next = "none" /\ flying = {}
    /\ caller.owed = "apply" /\ ~SdkmanSent => site.sent = 0

SdkmanInv ==
    /\ Sdkman!TypeOK /\ Sound(caller, flying, SdkmanOpen)
    /\ SdkmanPlan /\ SdkmanReads /\ SdkmanSite

\* What a step keeps, and what it does not do.
SdkmanStep ==
    /\ SdkmanInv' /\ Sdkman!RejectionStands /\ Sdkman!ReconcileObserves
    /\ Sdkman!PublicationIsTrue /\ Sdkman!FailureIsOver

LEMMA SdkmanQuiet ==
    ASSUME SdkmanInv', Sdkman!Idle \/ ~Sdkman!Idle' \/ caller'.said = "AMBIGUOUS",
           caller.call # "reconcile" \/ flying' \subseteq flying
    PROVE  SdkmanStep
  BY DEF SdkmanStep, Sdkman!RejectionStands, Sdkman!ReconcileObserves, Sdkman!PublicationIsTrue,
         Sdkman!FailureIsOver, Sdkman!Calling

-----------------------------------------------------------------------------
(* The shapes of the steps of SDKMAN's calls: an answer, a way to another  *)
(* place.                                                                  *)

LEMMA SdkmanAnswers ==
    ASSUME CallerAssumption, SdkmanInv, NEW answer \in Answers, Sdkman!Answer(answer),
           at # "idle", UNCHANGED <<plan, site, flying>>,
           answer = "RETRYABLE" => ~SdkmanSent,
           answer = "PERMANENT" =>
               ~SdkmanSent \/ (at = "publish" /\ seen.outcome \in {"denied", "redirected"}),
           answer = "PUBLISHED" =>
               \/ Sdkman!IsPlanned(site.shown)
               \/ /\ at = "publish"
                  /\ SdkmanTaken \/ (plan.mode # "state" /\ seen.outcome = "redirected"),
           answer = "REJECTED" => site.shown # Sdkman!None /\ ~Sdkman!IsPlanned(site.shown)
    PROVE  SdkmanStep
  <1> DEFINE evidence == Sdkman!Evidence(answer)
  <1>1. /\ AnswerWith(answer, evidence) /\ at' = "idle" /\ seen' = Sdkman!Blank
        /\ caller.call # "none" /\ Sound(caller, flying, SdkmanOpen)
    BY SdkmanCaller DEF Sdkman!Answer, SdkmanInv, Sdkman!TypeOK, Sdkman!Idle
  <1>2. /\ evidence \in Nat
        /\ answer = "PUBLISHED" /\ at = "publish" => evidence # Sdkman!Observation
    BY DEF Sdkman!Evidence, Sdkman!Observation, Sdkman!AcceptanceOnly
  <1> HIDE DEF evidence
  <1>3. SdkmanOpen => SdkmanSent /\ ~(at = "publish" /\ seen.outcome \in {"denied", "redirected"})
    BY DEF SdkmanOpen, SdkmanSent
  <1>4. /\ Sound(caller', flying, SdkmanOpen')
        /\ caller'.call = "none" /\ caller'.said = answer /\ caller'.evidence = evidence
        /\ caller'.owed = "apply" => caller.call = "apply" /\ answer = "RETRYABLE"
        /\ caller'.owed = "done" /\ answer = "PERMANENT" => flying = {}
    BY <1>1, <1>2, <1>3, AnswerKeeps
  <1>5. Accepted /\ Accepted'
    BY <1>1, <1>4 DEF Sound, Accepted, Answers, Results, Errors
  <1>6. Sdkman!TypeOK'
    BY <1>1, <1>4, SdkmanCaller
    DEF Sound, SdkmanInv, Sdkman!TypeOK, Sdkman!Idle, Sdkman!Places, Sdkman!Blank
  <1>7. SdkmanPlan'
    BY <1>5 DEF SdkmanInv, SdkmanPlan, Sdkman!ParsePayload
  <1>8. SdkmanReads'
    BY <1>1 DEF SdkmanReads
  <1>9. SdkmanSite'
    <2>1. caller'.owed = "apply" => caller.owed = "apply" /\ ~SdkmanSent
      BY <1>1, <1>4 DEF Sound
    <2> QED  BY <2>1 DEF SdkmanInv, SdkmanSite
  <1>10. Sdkman!RejectionStands /\ Sdkman!ReconcileObserves
    BY <1>4 DEF Sdkman!RejectionStands, Sdkman!ReconcileObserves
  <1>11. Sdkman!PublicationIsTrue
    BY <1>2, <1>4 DEF Sdkman!PublicationIsTrue, SdkmanTaken
  <1>12. Sdkman!FailureIsOver
    <2>1. (answer = "PERMANENT" /\ caller'.owed = "done") => caller.owed = "apply"
      <3>1. caller.call = "reconcile" => ~(answer = "PERMANENT" /\ caller'.owed = "done")
        BY <1>1 DEF AnswerWith, AfterReconcile, Sound, Caller
      <3> QED  BY <1>1, <3>1 DEF Sound, Caller
    <2>2. (answer = "PERMANENT" /\ caller'.owed = "done" /\ ~SdkmanSent) => site.sent = 0
      BY <2>1 DEF SdkmanInv, SdkmanSite
    <2> QED  BY <1>4, <2>2 DEF Sdkman!FailureIsOver
  <1> QED
    BY <1>4, <1>6, <1>7, <1>8, <1>9, <1>10, <1>11, <1>12 DEF SdkmanStep, SdkmanInv

LEMMA SdkmanGoes ==
    ASSUME CallerAssumption, SdkmanInv, NEW place \in {"lookup", "login", "publish", "conflict"},
           Sdkman!Goto(place), at # "idle", UNCHANGED <<plan, site, flying>>,
           seen' \in [outcome : {"unsent", "unknown", "landed", "refused", "denied", "redirected"}],
           place # "lookup" => caller.call = "apply",
           place = "publish" => seen'.outcome = "unsent",
           ~SdkmanOpen, SdkmanSent => place = "conflict"
    PROVE  SdkmanStep
  <1>1. at' = place /\ caller' = caller /\ caller.call # "none"
    BY DEF Sdkman!Goto, SdkmanInv, Sdkman!TypeOK, Sdkman!Idle
  <1>2. Sdkman!TypeOK'
    BY <1>1 DEF SdkmanInv, Sdkman!TypeOK, Sdkman!Idle, Sdkman!Places
  <1>3. Sound(caller', flying', SdkmanOpen')
    BY <1>1, Passes DEF SdkmanInv
  <1>4. SdkmanPlan'
    BY <1>1 DEF SdkmanInv, SdkmanPlan, Accepted, Sdkman!ParsePayload
  <1>5. SdkmanReads'
    BY <1>1 DEF SdkmanReads
  <1>6. SdkmanSite'
    BY <1>1 DEF SdkmanInv, SdkmanSite, SdkmanSent
  <1>7. SdkmanInv'
    BY <1>2, <1>3, <1>4, <1>5, <1>6 DEF SdkmanInv
  <1> QED  BY <1>1, <1>7, SdkmanQuiet DEF Sdkman!Idle

-----------------------------------------------------------------------------
(* The steps of SDKMAN's calls, of the executor and of others. *)

LEMMA SdkmanInitially == CallerAssumption /\ Sdkman!Init => SdkmanInv
  <1> SUFFICES ASSUME CallerAssumption, Sdkman!Init PROVE SdkmanInv
    OBVIOUS
  <1>1. /\ caller = Unplanned /\ at = "idle" /\ seen = Sdkman!Blank /\ flying = {}
        /\ site = [shown |-> Sdkman!None, next |-> "none", sent |-> 0]
    BY SdkmanCaller DEF Sdkman!Init
  <1>2. Sound(caller, flying, SdkmanOpen)
    BY <1>1, UnplannedIsSound
  <1>3. caller.said = "nothing" /\ caller.call = "none" /\ caller.owed = "done"
    BY <1>1 DEF Unplanned
  <1>4. Sdkman!TypeOK
    BY <1>1, <1>2, <1>3, SdkmanCaller
    DEF Sdkman!TypeOK, Sound, Sdkman!Blank, Sdkman!Places, Sdkman!Idle, CallerAssumption
  <1> QED
    BY <1>1, <1>2, <1>3, <1>4
    DEF SdkmanInv, SdkmanPlan, SdkmanReads, SdkmanSite, Accepted

LEMMA SdkmanPlanStep ==
    ASSUME CallerAssumption, SdkmanInv, Sdkman!Plan
    PROVE  SdkmanStep
  <1> DEFINE accepted == Sdkman!Plannable(plan)
  <1>1. /\ Planned(accepted) /\ accepted \in BOOLEAN /\ UNCHANGED <<at, seen, site, flying>>
        /\ accepted => plan' = Sdkman!PayloadOf(plan)
    BY SdkmanCaller DEF Sdkman!Plan, Planned, Sdkman!Plannable
  <1>2. /\ Sound(caller', flying, SdkmanOpen') /\ flying = {} /\ caller.call = "none"
        /\ caller.said = "nothing" /\ caller'.call = "none"
        /\ caller'.said = IF accepted THEN "planned" ELSE "misconfigured"
    <2> HIDE DEF accepted
    <2> QED  BY <1>1, PlannedKeeps DEF SdkmanInv
  <1>3. at = "idle" /\ site.sent = 0
    BY <1>2 DEF SdkmanInv, Sdkman!TypeOK, Sdkman!Idle, SdkmanPlan, Accepted
  <1>4. accepted => /\ Sdkman!ParsePayload(plan)' /\ (plan.stateDistribution \in Sdkman!Distributions)'
    BY <1>1, SdkmanPlannable DEF Sdkman!ParsePayload
  <1> HIDE DEF accepted
  <1>5. Sdkman!TypeOK'
    BY <1>1, <1>2, <1>3, SdkmanCaller DEF Sound, SdkmanInv, Sdkman!TypeOK, Sdkman!Idle
  <1>6. SdkmanPlan'
    BY <1>1, <1>2, <1>3, <1>4 DEF SdkmanPlan, Accepted
  <1>7. SdkmanReads'
    BY <1>1, <1>3 DEF SdkmanReads
  <1>8. SdkmanSite'
    BY <1>1, <1>3 DEF SdkmanInv, SdkmanSite
  <1>9. SdkmanInv'
    BY <1>1, <1>2, <1>5, <1>6, <1>7, <1>8 DEF SdkmanInv
  <1> QED  BY <1>1, <1>2, <1>9, SdkmanQuiet DEF Sdkman!Idle

LEMMA SdkmanBeginStep ==
    ASSUME CallerAssumption, SdkmanInv, NEW kind \in {"apply", "reconcile"}, Sdkman!Begin(kind)
    PROVE  SdkmanStep
  <1>1. /\ Call(kind) /\ at' = "payload" /\ seen' = Sdkman!Blank /\ UNCHANGED <<plan, site, flying>>
    BY SdkmanCaller DEF Sdkman!Begin
  <1>2. caller.call = "none" /\ at = "idle" /\ ~SdkmanOpen
    BY <1>1 DEF Call, SdkmanInv, Sdkman!TypeOK, Sdkman!Idle, SdkmanOpen
  <1>3. /\ Sound(caller', flying, SdkmanOpen')
        /\ caller'.call = kind /\ caller'.said = caller.said /\ caller'.owed = caller.owed
        /\ Accepted
    BY <1>1, <1>2, CallKeeps DEF SdkmanInv, Accepted
  <1>4. Sdkman!TypeOK'
    BY <1>1, <1>3, SdkmanCaller
    DEF Sound, SdkmanInv, Sdkman!TypeOK, Sdkman!Idle, Sdkman!Places, Sdkman!Blank
  <1>5. SdkmanPlan' /\ SdkmanReads'
    BY <1>1, <1>3 DEF SdkmanInv, SdkmanPlan, SdkmanReads, Accepted, Sdkman!ParsePayload
  <1>6. SdkmanSite'
    BY <1>1, <1>2, <1>3 DEF SdkmanInv, SdkmanSite, SdkmanSent
  <1>7. SdkmanInv'
    BY <1>1, <1>3, <1>4, <1>5, <1>6 DEF SdkmanInv
  <1> QED  BY <1>1, <1>2, <1>7, SdkmanQuiet DEF Sdkman!Idle

LEMMA SdkmanKilledStep ==
    ASSUME CallerAssumption, SdkmanInv, Sdkman!Killed
    PROVE  SdkmanStep
  <1>1. PICK journaled \in BOOLEAN : Kill(journaled)
    BY SdkmanCaller DEF Sdkman!Killed
  <1>2. at' = "idle" /\ seen' = Sdkman!Blank /\ UNCHANGED <<plan, site, flying>>
    BY DEF Sdkman!Killed
  <1>3. /\ Sound(caller', flying, SdkmanOpen')
        /\ caller'.call = "none" /\ caller'.said = "AMBIGUOUS" /\ caller'.owed = "reconcile"
        /\ caller.call # "none"
    BY <1>1, KillKeeps DEF SdkmanInv
  <1>4. Accepted
    BY <1>3 DEF SdkmanInv, Sound, Accepted
  <1>5. Sdkman!TypeOK'
    BY <1>2, <1>3, SdkmanCaller
    DEF Sound, SdkmanInv, Sdkman!TypeOK, Sdkman!Idle, Sdkman!Places, Sdkman!Blank
  <1>6. SdkmanPlan' /\ SdkmanReads' /\ SdkmanSite'
    BY <1>2, <1>3, <1>4 DEF SdkmanInv, SdkmanPlan, SdkmanReads, SdkmanSite, Accepted, Sdkman!ParsePayload
  <1>7. SdkmanInv'
    BY <1>2, <1>3, <1>5, <1>6 DEF SdkmanInv
  <1> QED  BY <1>2, <1>3, <1>7, SdkmanQuiet

LEMMA SdkmanReadPayloadStep ==
    ASSUME CallerAssumption, SdkmanInv, Sdkman!ReadPayload
    PROVE  SdkmanStep
  <1>1. /\ at = "payload" /\ ~SdkmanSent /\ ~SdkmanOpen /\ UNCHANGED <<plan, site, flying>>
        /\ seen \in [outcome : {"unsent", "unknown", "landed", "refused", "denied", "redirected"}]
    BY DEF Sdkman!ReadPayload, SdkmanSent, SdkmanOpen, SdkmanInv, Sdkman!TypeOK
  <1>2. Sdkman!ParsePayload(plan)
    BY <1>1 DEF SdkmanInv, SdkmanPlan, Sdkman!TypeOK, Sdkman!Idle, Sound, Accepted
  <1>3. CASE caller.call = "apply" /\ plan.mode # "state"
    <2>1. Sdkman!Goto("publish") /\ seen' = [seen EXCEPT !.outcome = "unsent"]
      BY <1>2, <1>3 DEF Sdkman!ReadPayload, Sdkman!Calling, Sdkman!Prepare
    <2> QED  BY <1>1, <1>3, <2>1, SdkmanGoes
  <1>4. CASE ~(caller.call = "apply" /\ plan.mode # "state")
    <2>1. Sdkman!Goto("lookup") /\ seen' = seen
      BY <1>2, <1>4 DEF Sdkman!ReadPayload, Sdkman!Calling
    <2> QED  BY <1>1, <2>1, SdkmanGoes
  <1> QED  BY <1>3, <1>4

(* An exposed release is taken for the planned one just when it is that.   *)
LEMMA SdkmanObserved ==
    ASSUME SdkmanInv, at # "idle", site.shown # Sdkman!None
    PROVE  /\ Sdkman!ResultForObserved(site.shown) \in {"PUBLISHED", "REJECTED"}
           /\ Sdkman!ResultForObserved(site.shown) = "PUBLISHED" => Sdkman!IsPlanned(site.shown)
           /\ Sdkman!ResultForObserved(site.shown) = "REJECTED" => ~Sdkman!IsPlanned(site.shown)
  <1>1. plan.checksums["SHA-256"] = "artifact"
    BY DEF SdkmanInv, SdkmanPlan, Sdkman!TypeOK, Sdkman!Idle, Sound, Accepted, Sdkman!ParsePayload
  <1>2. site.shown \in Sdkman!Shown
    BY DEF SdkmanInv, SdkmanSite
  <1>3. Sdkman!Conflicting(site.shown) <=> ~Sdkman!IsPlanned(site.shown)
    BY <1>1, <1>2 DEF Sdkman!Conflicting, Sdkman!IsPlanned, Sdkman!Shown
  <1> QED  BY <1>2, <1>3 DEF Sdkman!ResultForObserved

LEMMA SdkmanLookupStep ==
    ASSUME CallerAssumption, SdkmanInv, Sdkman!Lookup
    PROVE  SdkmanStep
  <1>1. /\ at = "lookup" /\ ~SdkmanSent /\ ~SdkmanOpen /\ UNCHANGED <<plan, site, flying>>
        /\ seen \in [outcome : {"unsent", "unknown", "landed", "refused", "denied", "redirected"}]
    BY DEF Sdkman!Lookup, SdkmanSent, SdkmanOpen, SdkmanInv, Sdkman!TypeOK
  <1>2. CASE site.shown # Sdkman!None
    <2>1. /\ Sdkman!Answer(Sdkman!ResultForObserved(site.shown))
          /\ Sdkman!ResultForObserved(site.shown) \in {"PUBLISHED", "REJECTED"}
      BY <1>1, <1>2, SdkmanObserved DEF Sdkman!Lookup
    <2>2. Sdkman!ResultForObserved(site.shown) \in Answers
      BY <2>1 DEF Answers, Results
    <2> QED  BY <1>1, <1>2, <2>1, <2>2, SdkmanObserved, SdkmanAnswers
  <1>3. CASE site.shown = Sdkman!None /\ caller.call = "reconcile"
    <2>1. Sdkman!Answer("WAITING_EXTERNAL") /\ "WAITING_EXTERNAL" \in Answers
      BY <1>3 DEF Sdkman!Lookup, Sdkman!Calling, Answers, Results
    <2> QED  BY <1>1, <2>1, SdkmanAnswers
  <1>4. CASE site.shown = Sdkman!None /\ caller.call # "reconcile"
    <2>1. Sdkman!Goto("login") /\ seen' = seen
      BY <1>4 DEF Sdkman!Lookup, Sdkman!Calling
    <2>2. caller.call = "apply"
      BY <1>1, <1>4 DEF SdkmanInv, Sdkman!TypeOK, Sdkman!Idle, Sound, Caller
    <2> QED  BY <1>1, <2>1, <2>2, SdkmanGoes
  <1> QED  BY <1>2, <1>3, <1>4

LEMMA SdkmanFailsStep ==
    ASSUME CallerAssumption, SdkmanInv, NEW temporary \in BOOLEAN,
           Sdkman!LookupFails(temporary) \/ Sdkman!LoginFails(temporary)
    PROVE  SdkmanStep
  <1>1. /\ at \in {"lookup", "login"} /\ ~SdkmanSent /\ ~SdkmanOpen /\ UNCHANGED <<plan, site, flying>>
        /\ Sdkman!Answer(Sdkman!StateStatusError(temporary))
        /\ Sdkman!StateStatusError(temporary) \in {"RETRYABLE", "PERMANENT"}
    BY DEF Sdkman!LookupFails, Sdkman!LoginFails, SdkmanSent, SdkmanOpen, Sdkman!StateStatusError
  <1>2. Sdkman!StateStatusError(temporary) \in Answers
    BY <1>1 DEF Answers, Errors
  <1> QED  BY <1>1, <1>2, SdkmanAnswers

LEMMA SdkmanLoginStep ==
    ASSUME CallerAssumption, SdkmanInv, Sdkman!Login
    PROVE  SdkmanStep
  <1>1. /\ at = "login" /\ ~SdkmanSent /\ ~SdkmanOpen /\ UNCHANGED <<plan, site, flying>>
        /\ Sdkman!Goto("publish") /\ seen' = [seen EXCEPT !.outcome = "unsent"]
        /\ seen \in [outcome : {"unsent", "unknown", "landed", "refused", "denied", "redirected"}]
        /\ caller.call = "apply"
    BY DEF Sdkman!Login, Sdkman!Prepare, SdkmanSent, SdkmanOpen, SdkmanInv, Sdkman!TypeOK, SdkmanReads
  <1> QED  BY <1>1, SdkmanGoes

LEMMA SdkmanNoCredentialsStep ==
    ASSUME CallerAssumption, SdkmanInv, Sdkman!NoCredentials
    PROVE  SdkmanStep
  <1>1. /\ at # "idle" /\ ~SdkmanSent /\ ~SdkmanOpen /\ UNCHANGED <<plan, site, flying>>
        /\ Sdkman!Answer("PERMANENT") /\ "PERMANENT" \in Answers
    BY DEF Sdkman!NoCredentials, SdkmanSent, SdkmanOpen, Answers, Errors
  <1> QED  BY <1>1, SdkmanAnswers

LEMMA SdkmanPublishStep ==
    ASSUME CallerAssumption, SdkmanInv, Sdkman!Publish
    PROVE  SdkmanStep
  <1> DEFINE request == [call |-> caller.calls]
  <1>1. /\ at = "publish" /\ seen.outcome = "unsent" /\ ~SdkmanOpen /\ ~SdkmanSent
        /\ at' = "publish" /\ caller' = caller /\ seen' = [seen EXCEPT !.outcome = "unknown"]
        /\ flying' = flying \union {request} /\ site' = [site EXCEPT !.sent = @ + 1] /\ plan' = plan
    BY DEF Sdkman!Publish, Sdkman!Goto, SdkmanOpen, SdkmanSent
  <1>2. caller.call = "apply" /\ caller.owed = "apply" /\ Accepted /\ site.sent = 0
    BY <1>1 DEF SdkmanInv, SdkmanReads, SdkmanSite, Sound, Accepted
  <1>3. seen' = [outcome |-> "unknown"]
    BY <1>1 DEF SdkmanInv, Sdkman!TypeOK
  <1>4. request.call = caller.calls
    OBVIOUS
  <1> HIDE DEF request
  <1>5. SdkmanOpen'
    BY <1>1, <1>3 DEF SdkmanOpen
  <1>6. Sound(caller', flying', SdkmanOpen') /\ caller.calls \in 1..MaxCalls
    <2>1. Sound(caller, flying, SdkmanOpen) /\ ~SdkmanOpen
      BY <1>1 DEF SdkmanInv
    <2>2. flying = {}
      BY <1>2, <2>1, NothingSent
    <2>3. Sound(caller, {request}, SdkmanOpen')
      BY <1>2, <1>4, <1>5, <2>1, SendKeeps
    <2>4. flying' = {request}
      BY <1>1, <2>2
    <2>5. caller.calls \in 1..MaxCalls
      BY <1>2, <2>1, CallsUnderWay DEF CallerAssumption
    <2> QED  BY <1>1, <2>3, <2>4, <2>5
  <1>7. site' = [shown |-> site.shown, next |-> site.next, sent |-> 1]
    BY <1>1, <1>2 DEF SdkmanInv, SdkmanSite
  <1>8. request \in Sdkman!Requests
    BY <1>6 DEF request, Sdkman!Requests
  <1>9. Sdkman!TypeOK'
    BY <1>1, <1>3, <1>6, <1>7, <1>8
    DEF SdkmanInv, Sdkman!TypeOK, Sdkman!Idle, CallerAssumption
  <1>10. SdkmanPlan' /\ SdkmanReads'
    BY <1>1, <1>2, <1>3 DEF SdkmanInv, SdkmanPlan, SdkmanReads, Accepted, Sdkman!ParsePayload
  <1>11. SdkmanSite'
    BY <1>1, <1>3, <1>7 DEF SdkmanInv, SdkmanSite, SdkmanSent
  <1>12. SdkmanInv'
    BY <1>6, <1>9, <1>10, <1>11 DEF SdkmanInv
  <1> QED  BY <1>1, <1>2, <1>12, SdkmanQuiet DEF Sdkman!Idle

LEMMA SdkmanPublishReturnsStep ==
    ASSUME CallerAssumption, SdkmanInv, NEW response \in {"accepted", "conflict", "denied", "unknown"},
           Sdkman!PublishReturns(response)
    PROVE  SdkmanStep
  <1>1. /\ at = "publish" /\ seen.outcome # "unsent" /\ UNCHANGED <<plan, site, flying>>
        /\ seen \in [outcome : {"unsent", "unknown", "landed", "refused", "denied", "redirected"}]
        /\ caller.call = "apply"
    BY DEF Sdkman!PublishReturns, SdkmanInv, SdkmanReads, Sdkman!TypeOK
  <1>2. {"PUBLISHED", "PERMANENT", "AMBIGUOUS"} \subseteq Answers
    BY DEF Answers, Results, Errors
  <1>3. CASE response = "accepted"
    <2>1. /\ seen.outcome = "landed" \/ (plan.mode # "state" /\ seen.outcome = "redirected")
          /\ Sdkman!Answer("PUBLISHED")
      BY <1>3 DEF Sdkman!PublishReturns, Sdkman!Answered
    <2>2. seen.outcome = "landed" => SdkmanTaken
      BY <1>1 DEF SdkmanInv, SdkmanReads
    <2> QED  BY <1>1, <1>2, <2>1, <2>2, SdkmanAnswers
  <1>4. CASE response = "conflict"
    <2>1. Sdkman!Goto("conflict") /\ seen' = seen /\ ~SdkmanOpen
      BY <1>4 DEF Sdkman!PublishReturns, Sdkman!Answered, SdkmanOpen
    <2> QED  BY <1>1, <2>1, SdkmanGoes
  <1>5. CASE response = "denied"
    <2>1. seen.outcome \in {"denied", "redirected"} /\ Sdkman!Answer("PERMANENT")
      BY <1>5 DEF Sdkman!PublishReturns
    <2> QED  BY <1>1, <1>2, <2>1, SdkmanAnswers
  <1>6. CASE response = "unknown"
    <2>1. Sdkman!Answer("AMBIGUOUS")
      BY <1>6 DEF Sdkman!PublishReturns
    <2> QED  BY <1>1, <1>2, <2>1, SdkmanAnswers
  <1> QED  BY <1>3, <1>4, <1>5, <1>6

LEMMA SdkmanLookupAfterConflictStep ==
    ASSUME CallerAssumption, SdkmanInv, NEW fails \in BOOLEAN, Sdkman!LookupAfterConflict(fails)
    PROVE  SdkmanStep
  <1>1. at = "conflict" /\ ~SdkmanOpen /\ UNCHANGED <<plan, site, flying>>
    BY DEF Sdkman!LookupAfterConflict, SdkmanOpen
  <1>2. CASE fails \/ site.shown = Sdkman!None
    <2>1. Sdkman!Answer("AMBIGUOUS") /\ "AMBIGUOUS" \in Answers
      BY <1>2 DEF Sdkman!LookupAfterConflict, Answers, Errors
    <2> QED  BY <1>1, <2>1, SdkmanAnswers
  <1>3. CASE ~(fails \/ site.shown = Sdkman!None)
    <2>1. /\ Sdkman!Answer(Sdkman!ResultForObserved(site.shown))
          /\ Sdkman!ResultForObserved(site.shown) \in {"PUBLISHED", "REJECTED"}
      BY <1>1, <1>3, SdkmanObserved DEF Sdkman!LookupAfterConflict
    <2>2. Sdkman!ResultForObserved(site.shown) \in Answers
      BY <2>1 DEF Answers, Results
    <2> QED  BY <1>1, <1>3, <2>1, <2>2, SdkmanObserved, SdkmanAnswers
  <1> QED  BY <1>2, <1>3

(* SDKMAN decides: the request was the only one of an apply.               *)
LEMMA SdkmanDecidesStep ==
    ASSUME CallerAssumption, SdkmanInv, NEW request \in flying,
           \/ Sdkman!SdkmanAccepts(request) \/ Sdkman!SdkmanRefuses(request)
           \/ Sdkman!SdkmanDenies(request) \/ Sdkman!SdkmanRedirects(request)
    PROVE  SdkmanStep
  <1>1. PICK outcome \in {"landed", "refused", "denied", "redirected"} :
            /\ Sdkman!Settled(request, outcome)
            /\ (site' = site /\ outcome # "landed") \/ site' = [site EXCEPT !.next = "ours"]
    BY DEF Sdkman!SdkmanAccepts, Sdkman!SdkmanRefuses, Sdkman!SdkmanDenies, Sdkman!SdkmanRedirects
  <1>2. /\ flying' = flying \ {request} /\ UNCHANGED <<caller, plan, at>>
        /\ seen' = IF Sdkman!Awaited(request) THEN [seen EXCEPT !.outcome = outcome] ELSE seen
    BY <1>1 DEF Sdkman!Settled
  <1>3. Sound(caller', flying', SdkmanOpen') /\ Accepted
    <2>1. Sound(caller, flying \ {request}, SdkmanOpen') /\ Accepted
      BY SettleKeeps DEF SdkmanInv, Accepted
    <2> QED  BY <1>2, <2>1
  <1>4. /\ seen' \in [outcome : {"unsent", "unknown", "landed", "refused", "denied", "redirected"}]
        /\ seen' = seen \/ (at = "publish" /\ seen'.outcome = outcome)
    BY <1>2 DEF SdkmanInv, Sdkman!TypeOK, Sdkman!Awaited
  <1>5. /\ site' \in [shown : Sdkman!Shown \union {Sdkman!None}, next : {"none", "ours"}, sent : {0, 1}]
        /\ site'.sent = site.sent /\ site'.shown = site.shown
        /\ site.next = "ours" \/ outcome = "landed" => site'.next = "ours"
    BY <1>1 DEF SdkmanInv, SdkmanSite
  <1>6. site.sent # 0
    BY DEF SdkmanInv, SdkmanSite
  <1>7. Sdkman!TypeOK'
    <2>1. site'.sent \in 0..MaxCalls
      BY <1>5 DEF SdkmanInv, Sdkman!TypeOK
    <2> QED  BY <1>2, <1>4, <1>5, <2>1 DEF SdkmanInv, Sdkman!TypeOK, Sdkman!Idle
  <1>8. SdkmanPlan'
    BY <1>2, <1>3 DEF SdkmanInv, SdkmanPlan, Accepted, Sdkman!ParsePayload
  <1>9. SdkmanReads'
    <2>1. SdkmanTaken => SdkmanTaken'
      BY <1>2, <1>5 DEF SdkmanTaken, Sdkman!IsPlanned
    <2>2. outcome = "landed" => SdkmanTaken'
      BY <1>5 DEF SdkmanTaken
    <2> QED  BY <1>2, <1>4, <2>1, <2>2 DEF SdkmanInv, SdkmanReads
  <1>10. SdkmanSite'
    <2>1. SdkmanSent => SdkmanSent'
      BY <1>2, <1>4 DEF SdkmanSent
    <2> QED  BY <1>2, <1>5, <1>6, <2>1 DEF SdkmanInv, SdkmanSite
  <1>11. SdkmanInv'
    BY <1>3, <1>7, <1>8, <1>9, <1>10 DEF SdkmanInv
  <1> QED  BY <1>2, <1>11, SdkmanQuiet DEF Sdkman!Idle

(* What SDKMAN shows changes: by a release that it accepted, or by others. *)
LEMMA SdkmanShownStep ==
    ASSUME CallerAssumption, SdkmanInv, UNCHANGED <<caller, plan, at, seen, flying>>,
           site' \in [shown : Sdkman!Shown \union {Sdkman!None}, next : {"none", "ours"}, sent : {0, 1}],
           site'.sent = site.sent, site'.next \in {"none", site.next},
           SdkmanTaken => SdkmanTaken'
    PROVE  SdkmanStep
  <1>1. Sdkman!TypeOK'
    <2>1. site'.sent \in 0..MaxCalls
      BY DEF SdkmanInv, Sdkman!TypeOK
    <2> QED  BY <2>1 DEF SdkmanInv, Sdkman!TypeOK, Sdkman!Idle
  <1>2. Sound(caller', flying', SdkmanOpen') /\ SdkmanPlan'
    BY DEF SdkmanInv, SdkmanOpen, SdkmanPlan, Accepted, Sdkman!ParsePayload
  <1>3. SdkmanReads' /\ SdkmanSite'
    BY DEF SdkmanInv, SdkmanReads, SdkmanSite, SdkmanSent
  <1>4. SdkmanInv'
    BY <1>1, <1>2, <1>3 DEF SdkmanInv
  <1> QED  BY <1>4, SdkmanQuiet DEF Sdkman!Idle

LEMMA SdkmanExposesStep ==
    ASSUME CallerAssumption, SdkmanInv, NEW sha256 \in {"", "artifact"}, Sdkman!SdkmanExposes(sha256)
    PROVE  SdkmanStep
  <1> DEFINE released == Sdkman!Released(sha256)
  <1>1. /\ UNCHANGED <<caller, plan, at, seen, flying>> /\ site.next = "ours"
        /\ site' = [site EXCEPT !.shown = released, !.next = "none"]
    BY DEF Sdkman!SdkmanExposes
  <1>2. plan.stateDistribution \in Sdkman!Distributions
    BY <1>1 DEF SdkmanInv, SdkmanSite, SdkmanPlan
  <1>3. released \in Sdkman!Shown /\ Sdkman!IsPlanned(released)
    BY <1>2 DEF Sdkman!Released, Sdkman!Shown, Sdkman!IsPlanned
  <1> HIDE DEF released
  <1>4. /\ site' \in [shown : Sdkman!Shown \union {Sdkman!None}, next : {"none", "ours"}, sent : {0, 1}]
        /\ site'.sent = site.sent /\ site'.next = "none" /\ site'.shown = released
    BY <1>1, <1>3 DEF SdkmanInv, SdkmanSite
  <1>5. SdkmanTaken'
    BY <1>1, <1>3, <1>4 DEF SdkmanTaken, Sdkman!IsPlanned
  <1> QED  BY <1>1, <1>4, <1>5, SdkmanShownStep

LEMMA SdkmanOthersStep ==
    ASSUME CallerAssumption, SdkmanInv, NEW shown \in Sdkman!Shown, Sdkman!OthersPublish(shown)
    PROVE  SdkmanStep
  <1>1. /\ UNCHANGED <<caller, plan, at, seen, flying>> /\ site.shown = Sdkman!None
        /\ site' = [site EXCEPT !.shown = shown]
    BY DEF Sdkman!OthersPublish
  <1>2. /\ site' \in [shown : Sdkman!Shown \union {Sdkman!None}, next : {"none", "ours"}, sent : {0, 1}]
        /\ site'.sent = site.sent /\ site'.next = site.next
    BY <1>1 DEF SdkmanInv, SdkmanSite
  <1>3. SdkmanTaken => SdkmanTaken'
    <2>1. Sdkman!None.url = "" /\ site.shown = Sdkman!None
      BY <1>1 DEF Sdkman!None
    <2>2. ~Sdkman!IsPlanned(site.shown)
      BY <2>1 DEF Sdkman!IsPlanned
    <2> QED  BY <1>2, <2>2 DEF SdkmanTaken
  <1> QED  BY <1>1, <1>2, <1>3, SdkmanShownStep

LEMMA SdkmanStutters ==
    ASSUME SdkmanInv, UNCHANGED <<caller, plan, at, seen, site, flying>>
    PROVE  SdkmanStep
  <1>1. Sdkman!TypeOK' /\ Sound(caller, flying, SdkmanOpen)' /\ SdkmanPlan'
    BY DEF SdkmanInv, Sdkman!TypeOK, Sdkman!Idle, SdkmanOpen, SdkmanPlan, Accepted, Sdkman!ParsePayload
  <1>2. SdkmanReads' /\ SdkmanSite'
    BY DEF SdkmanInv, SdkmanReads, SdkmanSite, SdkmanSent, SdkmanTaken, Sdkman!IsPlanned
  <1>3. SdkmanInv'
    BY <1>1, <1>2 DEF SdkmanInv
  <1> QED  BY <1>3, SdkmanQuiet DEF Sdkman!Idle

LEMMA SdkmanSteps ==
    ASSUME CallerAssumption, SdkmanInv, Sdkman!Next \/ UNCHANGED <<caller, plan, at, seen, site, flying>>
    PROVE  SdkmanStep
  <1>1. CASE UNCHANGED <<caller, plan, at, seen, site, flying>>
    BY <1>1, SdkmanStutters
  <1>2. CASE Sdkman!Next
    BY <1>2, SdkmanPlanStep, SdkmanBeginStep, SdkmanReadPayloadStep, SdkmanLookupStep, SdkmanLoginStep,
       SdkmanNoCredentialsStep, SdkmanPublishStep, SdkmanFailsStep, SdkmanPublishReturnsStep,
       SdkmanLookupAfterConflictStep, SdkmanKilledStep, SdkmanDecidesStep, SdkmanExposesStep,
       SdkmanOthersStep
    DEF Sdkman!Next
  <1> QED  BY <1>1, <1>2

(* What the invariant says of the properties.                              *)
LEMMA SdkmanProperties ==
    ASSUME SdkmanInv
    PROVE  Sdkman!TypeOK /\ Sdkman!RepeatsAreSafe /\ Sdkman!SubmittedOnce /\ Sdkman!PlansAreSound
  <1>1. Sdkman!RepeatsAreSafe
    BY DEF SdkmanInv, Sdkman!TypeOK, Sdkman!RepeatsAreSafe, Sound, SdkmanOpen, SdkmanSent, SdkmanSite
  <1>2. Sdkman!SubmittedOnce
    BY DEF SdkmanInv, Sdkman!SubmittedOnce, SdkmanSite
  <1>3. Sdkman!PlansAreSound
    <2>1. \A p \in Sdkman!Platforms : /\ Sdkman!StatePlatform(p, "legacy") = Sdkman!PlatformStateIDs[p]
                                      /\ Sdkman!StatePlatform(p, "state") = Sdkman!CanonicalPlatform(p)
      BY DEF Sdkman!StatePlatform
    <2> QED  BY <2>1, SdkmanPlatforms DEF SdkmanInv, SdkmanPlan, Sdkman!PlansAreSound, Accepted
  <1> QED  BY <1>1, <1>2, <1>3 DEF SdkmanInv
=============================================================================
