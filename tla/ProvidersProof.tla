--------------------------- MODULE ProvidersProof ---------------------------
(***************************************************************************)
(* The invariants of the two providers that push to repositories, Homebrew *)
(* and WinGet, and the theorems about the four providers, for any          *)
(* configurations, any number of calls, of authorized attempts and of      *)
(* commits.                                                                *)
(***************************************************************************)
EXTENDS RegistryProvidersProof, SequenceTheorems

Order == INSTANCE WellFoundedInduction
Path == INSTANCE RepositoryPath

-----------------------------------------------------------------------------
(* Homebrew. *)

\* The file was as planned in a commit of a base branch, from a certain one on.
HomebrewOn(base, from) == from > 0 /\ \E i \in from..Len(base) : base[i] = "ours"

\* The call under way has sent a request and does not know what became of it.
HomebrewOpen ==
    \/ at \in {"push", "submit"} /\ seen.outcome = "unknown"
    \/ at \in {"ls", "clone", "observed"} /\ seen.pushed /\ seen.outcome = "unknown"

\* It has asked for a pull request.
HomebrewSubmitted == seen.refused \/ (at = "submit" /\ seen.outcome # "unsent")

\* It is about to push, pushes, or looks what became of its push.
HomebrewPushing == at \in {"workspace", "push"} \/ (seen.pushed /\ at \in {"ls", "clone", "observed"})

\* What it knows at its place.
HomebrewSeen ==
    /\ seen \in [branch : {"base", "update"}, pushed : BOOLEAN, refused : BOOLEAN, exists : BOOLEAN,
                 exact : BOOLEAN, commit : Nat,
                 outcome : {"unsent", "unknown", "landed", "refused", "denied"}]
    /\ at \in {"workspace", "push", "submit"} \/ seen.pushed \/ seen.refused => caller.call = "apply"
    /\ at = "payload" => seen = Homebrew!Blank
    /\ seen.refused => at = "lookup"
    /\ at \in {"workspace", "push"} => ~seen.pushed
    /\ at \in {"payload", "ls", "clone", "observed", "workspace"} /\ ~seen.pushed => seen.outcome = "unknown"
    /\ HomebrewPushing => /\ seen.branch = "base" => plan.mode = "direct"
                          /\ \A r \in flying : r.to = seen.branch

\* What it knows of commits and branches.
HomebrewCommits ==
    /\ at = "push" /\ seen.branch = "base" =>
          /\ \A r \in flying : r.parent + 1 = seen.commit
          /\ seen.outcome = "landed" => HomebrewOn(site.base, seen.commit)
    /\ at \in {"clone", "observed"} => seen.commit <= Len(site.base)
    /\ at = "clone" /\ seen.branch = "base" => seen.commit > 0
    /\ at = "observed" /\ seen.branch = "base" /\ seen.exact => HomebrewOn(site.base, seen.commit)

HomebrewBranch ==
    /\ at = "observed" /\ seen.branch = "update" =>
          /\ seen.exists => \A r \in flying : r.to # "update"
          /\ seen.exists /\ ~seen.exact => site.update # "ours"
          /\ ~seen.exists /\ ~seen.pushed /\ caller.call = "apply" => site.update = "none"
    /\ at = "workspace" /\ seen.branch = "update" => site.update = "none"

\* The update branch exists only when no push to it is outstanding, and one pull request is asked for.
HomebrewSite ==
    /\ \A r \in flying : /\ r.to = "update" => site.update = "none"
                         /\ r.to = "base" => plan.mode = "direct"
                         /\ r.to = "pulls" => site.opened = 0
    /\ site.opened <= 1
    /\ caller.said = "nothing" => site.opened = 0
    /\ caller.owed = "apply" => site.opened = 0 \/ (at = "submit" /\ seen.outcome = "landed")
    /\ caller.owed = "apply" /\ ~HomebrewSubmitted => \A r \in flying : r.to # "pulls"

HomebrewInv ==
    /\ Homebrew!TypeOK /\ Sound(caller, flying, HomebrewOpen)
    /\ HomebrewSeen /\ HomebrewCommits /\ HomebrewBranch /\ HomebrewSite
    /\ Homebrew!PublishedIsTrue

\* What a step keeps, and what it does not do.
HomebrewStep ==
    HomebrewInv' /\ Homebrew!RejectionStands /\ Homebrew!ReconcileObserves /\ Homebrew!FailureIsOver

LEMMA HomebrewCaller ==
    /\ Homebrew!Answers = Answers /\ Homebrew!Caller = Caller /\ Homebrew!Unplanned = Unplanned
    /\ \A answer, evidence : Homebrew!AnswerWith(answer, evidence) <=> AnswerWith(answer, evidence)
    /\ \A kind : Homebrew!Call(kind) <=> Call(kind)
    /\ \A journaled : Homebrew!Kill(journaled) <=> Kill(journaled)
    /\ \A accepted : Homebrew!Planned(accepted) <=> Planned(accepted)
  <1>1. Homebrew!Answers = Answers
    BY DEF Homebrew!Answers, Answers, Homebrew!Results, Results, Homebrew!Errors, Errors
  <1>2. Homebrew!Caller = Caller
    BY <1>1 DEF Homebrew!Caller, Caller
  <1>3. \A answer, evidence : Homebrew!AnswerWith(answer, evidence) <=> AnswerWith(answer, evidence)
    BY DEF Homebrew!AnswerWith, AnswerWith, Homebrew!AfterApply, AfterApply,
           Homebrew!AfterReconcile, AfterReconcile
  <1> QED
    BY <1>1, <1>2, <1>3 DEF Homebrew!Unplanned, Unplanned, Homebrew!Call, Call, Homebrew!Kill, Kill,
                            Homebrew!Planned, Planned

(* Commits are only added, so what was published stays so.                 *)
LEMMA HomebrewGrows ==
    ASSUME NEW base \in Seq(Homebrew!Contents), NEW longer \in Seq(Homebrew!Contents),
           Len(base) <= Len(longer), \A i \in 1..Len(base) : longer[i] = base[i],
           NEW from \in Nat, HomebrewOn(base, from)
    PROVE  HomebrewOn(longer, from)
  <1>1. PICK i \in from..Len(base) : base[i] = "ours"
    BY DEF HomebrewOn
  <1>2. from > 0 /\ Len(base) \in Nat /\ Len(longer) \in Nat
    BY DEF HomebrewOn
  <1>3. i \in 1..Len(base) /\ i \in from..Len(longer)
    BY <1>1, <1>2
  <1> QED  BY <1>1, <1>2, <1>3 DEF HomebrewOn

LEMMA HomebrewSiteAssumption == MaxTips \in Nat /\ MaxTips > 0
  BY SiteAssumption

LEMMA HomebrewSiteFacts ==
    ASSUME Homebrew!TypeOK
    PROVE  /\ site.base \in Seq(Homebrew!Contents) /\ Len(site.base) \in Nat /\ Len(site.base) <= MaxTips
           /\ site.update \in {"none", "other", "ours"} /\ site.pr \in {"none", "open", "closed", "merged"}
           /\ site.opened \in 0..MaxCalls
           /\ caller.evidence <= Len(site.base)
  BY DEF Homebrew!TypeOK, Homebrew!Site, Homebrew!Bases, Homebrew!Contents, Homebrew!Tip

LEMMA HomebrewPublished ==
    Homebrew!PublishedIsTrue <=> (caller.said = "PUBLISHED" => HomebrewOn(site.base, caller.evidence))
  BY DEF Homebrew!PublishedIsTrue, HomebrewOn, Homebrew!Tip

LEMMA HomebrewAnswers ==
    ASSUME CallerAssumption, HomebrewInv, at # "idle",
           NEW answer \in Answers, NEW commit \in Nat, Homebrew!Answer(answer, commit),
           commit <= Len(site.base), UNCHANGED <<plan, site, flying>>,
           caller.call = "apply" /\ answer \in {"RETRYABLE", "PERMANENT"} => ~HomebrewOpen,
           answer = "RETRYABLE" => ~HomebrewSubmitted,
           answer = "PUBLISHED" => HomebrewOn(site.base, commit),
           answer = "REJECTED" =>
               \A request \in flying : Homebrew!Acceptable(request) =>
                   plan.mode = "direct" \/ site.update = "other" \/ site.pr = "closed"
    PROVE  HomebrewStep
  <1>1. /\ AnswerWith(answer, commit) /\ at' = "idle" /\ seen' = Homebrew!Blank
        /\ caller.call # "none" /\ Sound(caller, flying, HomebrewOpen)
    BY HomebrewCaller DEF Homebrew!Answer, HomebrewInv, Homebrew!TypeOK, Homebrew!Idle
  <1>2. /\ Sound(caller', flying, HomebrewOpen')
        /\ caller'.call = "none" /\ caller'.said = answer /\ caller'.evidence = commit
        /\ caller'.owed = "apply" => caller.call = "apply" /\ answer = "RETRYABLE"
        /\ caller'.owed = "done" /\ answer = "PERMANENT" => flying = {}
    <2>1. caller.call = "apply" /\ answer \in {"RETRYABLE", "PERMANENT"} => ~HomebrewOpen
      OBVIOUS
    <2>2. Sound(caller, flying, HomebrewOpen) /\ AnswerWith(answer, commit) /\ caller.call # "none"
      BY <1>1
    <2> QED
      BY ONLY CallerAssumption, <2>1, <2>2, commit \in Nat, answer \in Answers, AnswerKeeps
  <1>3. Homebrew!TypeOK'
    BY <1>1, <1>2, HomebrewCaller
    DEF Sound, HomebrewInv, Homebrew!TypeOK, Homebrew!Idle, Homebrew!Places, Homebrew!Blank, Homebrew!Tip
  <1>4. HomebrewSeen'
    BY <1>1 DEF HomebrewSeen, Homebrew!Blank, HomebrewPushing
  <1>5. HomebrewCommits' /\ HomebrewBranch'
    BY <1>1 DEF HomebrewCommits, HomebrewBranch
  <1>6. HomebrewSite'
    <2>1. caller'.owed = "apply" => caller.owed = "apply" /\ ~HomebrewSubmitted
      BY <1>1, <1>2 DEF Sound
    <2>2. caller'.said # "nothing"
      BY <1>2 DEF Answers, Results, Errors
    <2> QED  BY <2>1, <2>2 DEF HomebrewInv, HomebrewSite, HomebrewSubmitted
  <1>7. Homebrew!PublishedIsTrue'
    BY <1>2 DEF Homebrew!PublishedIsTrue, HomebrewOn, Homebrew!Tip
  <1>8. Homebrew!RejectionStands /\ Homebrew!ReconcileObserves
    BY <1>2 DEF Homebrew!RejectionStands, Homebrew!ReconcileObserves
  <1>9. Homebrew!FailureIsOver
    <2>1. answer = "PERMANENT" /\ caller'.owed = "done" => caller.owed = "apply"
      <3>1. caller.call = "reconcile" => ~(answer = "PERMANENT" /\ caller'.owed = "done")
        BY <1>1 DEF AnswerWith, AfterReconcile, Sound, Caller
      <3> QED  BY <1>1, <3>1 DEF Sound, Caller
    <2>2. caller.owed = "apply" => site.opened = 0 \/ (at = "submit" /\ seen.outcome = "landed")
      BY DEF HomebrewInv, HomebrewSite
    <2> QED  BY <1>2, <2>1, <2>2 DEF Homebrew!FailureIsOver
  <1> QED
    BY <1>2, <1>3, <1>4, <1>5, <1>6, <1>7, <1>8, <1>9 DEF HomebrewStep, HomebrewInv

(* A step within a call that nobody but the call sees.                     *)
LEMMA HomebrewGoes ==
    ASSUME CallerAssumption, HomebrewInv, at # "idle", NEW place \in Homebrew!Places \ {"idle"},
           Homebrew!Goto(place), UNCHANGED <<plan, site, flying>>,
           seen'.exact => seen'.exists,
           HomebrewSeen', HomebrewCommits', HomebrewBranch',
           caller.call = "apply" /\ ~HomebrewOpen' => ~HomebrewOpen \/ flying = {},
           HomebrewSubmitted => HomebrewSubmitted', at = "submit" => seen.outcome # "landed"
    PROVE  HomebrewStep
  <1>1. at' = place /\ caller' = caller /\ caller.call # "none" /\ place # "idle"
    BY DEF Homebrew!Goto, HomebrewInv, Homebrew!TypeOK, Homebrew!Idle
  <1>2. Homebrew!TypeOK'
    BY <1>1 DEF HomebrewInv, Homebrew!TypeOK, Homebrew!Idle, Homebrew!Tip
  <1>3. Sound(caller', flying', HomebrewOpen')
    <2>1. Sound(caller, flying, HomebrewOpen) /\ (caller.owed = "apply" => caller.call = "apply")
      BY <1>1 DEF HomebrewInv, Sound
    <2> QED  BY <1>1, <2>1, Passes
  <1>4. HomebrewSite'
    BY <1>1 DEF HomebrewInv, HomebrewSite
  <1>5. Homebrew!PublishedIsTrue'
    BY <1>1 DEF HomebrewInv, Homebrew!PublishedIsTrue, Homebrew!Tip
  <1>6. Homebrew!RejectionStands /\ Homebrew!ReconcileObserves /\ Homebrew!FailureIsOver
    BY <1>1 DEF Homebrew!RejectionStands, Homebrew!ReconcileObserves, Homebrew!FailureIsOver, Homebrew!Idle
  <1> QED
    BY <1>2, <1>3, <1>4, <1>5, <1>6 DEF HomebrewStep, HomebrewInv

(* A step that sends a request.                                            *)
LEMMA HomebrewSends ==
    ASSUME CallerAssumption, HomebrewInv, caller.call = "apply", ~HomebrewOpen,
           NEW place \in Homebrew!Places \ {"idle"}, Homebrew!Goto(place),
           NEW request \in Homebrew!Requests, request.call = caller.calls,
           flying' = flying \union {request}, UNCHANGED <<plan, site>>,
           seen'.exact => seen'.exists, HomebrewOpen',
           HomebrewSeen', HomebrewCommits', HomebrewBranch', HomebrewSite'
    PROVE  HomebrewStep
  <1>1. at' = place /\ caller' = caller /\ place # "idle"
    BY DEF Homebrew!Goto
  <1>2. Sound(caller, flying, HomebrewOpen)
    BY DEF HomebrewInv
  <1>3. flying = {} /\ flying' = {request}
    <2>1. flying = {}
      BY <1>2, NothingSent
    <2> QED  BY <2>1
  <1>4. Sound(caller', flying', HomebrewOpen')
    <2>1. Sound(caller, {request}, HomebrewOpen')
      BY <1>2, SendKeeps
    <2> QED  BY <1>1, <1>3, <2>1
  <1>5. Homebrew!TypeOK'
    BY <1>1, <1>3 DEF HomebrewInv, Homebrew!TypeOK, Homebrew!Idle, Homebrew!Tip
  <1>6. Homebrew!PublishedIsTrue'
    BY <1>1 DEF HomebrewInv, Homebrew!PublishedIsTrue, Homebrew!Tip
  <1>7. Homebrew!RejectionStands /\ Homebrew!ReconcileObserves /\ Homebrew!FailureIsOver
    BY <1>1
    DEF Homebrew!RejectionStands, Homebrew!ReconcileObserves, Homebrew!FailureIsOver, Homebrew!Idle,
        Homebrew!Calling
  <1> QED
    BY <1>4, <1>5, <1>6, <1>7 DEF HomebrewStep, HomebrewInv

(* A step of others, or of the tap: what is published stays, and a branch  *)
(* is not created.                                                         *)
LEMMA HomebrewOthersDo ==
    ASSUME CallerAssumption, HomebrewInv, UNCHANGED <<caller, plan, at, seen, flying>>,
           site' \in Homebrew!Site, Len(site.base) <= Len(site'.base),
           \A i \in 1..Len(site.base) : site'.base[i] = site.base[i],
           site'.opened = site.opened,
           site.update = "none" => site'.update = "none",
           site.update # "ours" => site'.update # "ours"
    PROVE  HomebrewStep
  <1>1. /\ site.base \in Seq(Homebrew!Contents) /\ site'.base \in Seq(Homebrew!Contents)
        /\ Len(site.base) \in Nat /\ Len(site'.base) \in Nat /\ caller.evidence <= Len(site.base)
    BY HomebrewSiteFacts DEF HomebrewInv, Homebrew!Site, Homebrew!Bases
  <1>2. seen.commit \in Nat /\ caller.evidence \in Nat
    BY HomebrewCaller DEF HomebrewInv, HomebrewSeen, Homebrew!TypeOK, Caller
  <1>3. \A from \in Nat : HomebrewOn(site.base, from) => HomebrewOn(site'.base, from)
    BY <1>1, HomebrewGrows
  <1>4. Homebrew!TypeOK'
    BY <1>1, <1>2 DEF HomebrewInv, Homebrew!TypeOK, Homebrew!Idle, Homebrew!Tip
  <1>5. Sound(caller', flying', HomebrewOpen') /\ HomebrewSeen'
    BY DEF HomebrewInv, HomebrewOpen, HomebrewSeen, HomebrewPushing
  <1>6. HomebrewCommits'
    BY <1>1, <1>2, <1>3 DEF HomebrewInv, HomebrewCommits
  <1>7. HomebrewBranch'
    BY DEF HomebrewInv, HomebrewBranch
  <1>8. HomebrewSite'
    BY DEF HomebrewInv, HomebrewSite, HomebrewSubmitted
  <1>9. Homebrew!PublishedIsTrue'
    <2>1. caller.said = "PUBLISHED" => HomebrewOn(site.base, caller.evidence)
      BY HomebrewPublished DEF HomebrewInv
    <2>2. caller'.said = "PUBLISHED" => HomebrewOn(site'.base, caller'.evidence)
      BY <1>2, <1>3, <2>1
    <2> QED  BY <2>2 DEF Homebrew!PublishedIsTrue, HomebrewOn, Homebrew!Tip
  <1>10. Homebrew!RejectionStands /\ Homebrew!ReconcileObserves /\ Homebrew!FailureIsOver
    BY DEF Homebrew!RejectionStands, Homebrew!ReconcileObserves, Homebrew!FailureIsOver, Homebrew!Idle
  <1> QED
    BY <1>4, <1>5, <1>6, <1>7, <1>8, <1>9, <1>10 DEF HomebrewStep, HomebrewInv

-----------------------------------------------------------------------------
(* The steps of Homebrew's calls. *)

LEMMA HomebrewReadPayloadStep ==
    ASSUME CallerAssumption, HomebrewInv, Homebrew!ReadPayload \/ Homebrew!NoToken
    PROVE  HomebrewStep
  <1>1. /\ at = "payload" /\ ~HomebrewOpen /\ ~HomebrewSubmitted /\ UNCHANGED <<plan, site, flying>>
        /\ seen = Homebrew!Blank /\ "PERMANENT" \in Answers /\ 0 <= Len(site.base)
    BY HomebrewSiteFacts
    DEF Homebrew!ReadPayload, Homebrew!NoToken, HomebrewOpen, HomebrewSubmitted, HomebrewInv, HomebrewSeen,
        Answers, Errors, Homebrew!Blank
  <1>2. CASE Homebrew!Answer("PERMANENT", 0)
    BY <1>1, <1>2, HomebrewAnswers
  <1>3. CASE Homebrew!Goto("ls") /\ seen' = seen
    <2>1. at' = "ls" /\ "ls" \in Homebrew!Places \ {"idle"} /\ caller' = caller
      BY <1>3 DEF Homebrew!Goto, Homebrew!Places
    <2>2. HomebrewSeen'
      BY <1>1, <1>3, <2>1 DEF HomebrewInv, HomebrewSeen, HomebrewPushing, Homebrew!Blank
    <2>3. HomebrewCommits' /\ HomebrewBranch'
      BY <2>1 DEF HomebrewCommits, HomebrewBranch
    <2>4. seen'.exact => seen'.exists
      BY <1>3 DEF HomebrewInv, Homebrew!TypeOK
    <2> QED  BY <1>1, <1>3, <2>1, <2>2, <2>3, <2>4, HomebrewGoes
  <1> QED  BY <1>2, <1>3 DEF Homebrew!ReadPayload, Homebrew!NoToken

LEMMA HomebrewListRemoteStep ==
    ASSUME CallerAssumption, HomebrewInv, Homebrew!ListRemote
    PROVE  HomebrewStep
  <1>1. /\ at = "ls" /\ UNCHANGED <<plan, site, flying>> /\ ~HomebrewSubmitted
        /\ HomebrewSeen /\ site.base \in Seq(Homebrew!Contents) /\ Len(site.base) \in Nat
        /\ site.update \in {"none", "other", "ours"} /\ (seen.exact => seen.exists)
    BY HomebrewSiteFacts
    DEF Homebrew!ListRemote, HomebrewSubmitted, HomebrewInv, HomebrewSeen, Homebrew!TypeOK
  <1>2. CASE Homebrew!Exists(seen.branch)
    <2>1. Homebrew!Goto("clone") /\ seen' = [seen EXCEPT !.commit = Len(site.base)]
      BY <1>2 DEF Homebrew!ListRemote, Homebrew!Tip
    <2>2. at' = "clone" /\ "clone" \in Homebrew!Places \ {"idle"} /\ caller' = caller
      BY <2>1 DEF Homebrew!Goto, Homebrew!Places
    <2>3. HomebrewSeen' /\ (HomebrewOpen' <=> HomebrewOpen)
      BY <1>1, <2>1, <2>2 DEF HomebrewSeen, HomebrewPushing, HomebrewOpen
    <2>4. HomebrewCommits'
      BY <1>1, <1>2, <2>1, <2>2 DEF HomebrewSeen, HomebrewCommits, Homebrew!Exists, Homebrew!Tip
    <2>5. HomebrewBranch' /\ (seen'.exact => seen'.exists)
      BY <1>1, <2>1, <2>2 DEF HomebrewSeen, HomebrewBranch
    <2> QED  BY <1>1, <2>1, <2>2, <2>3, <2>4, <2>5, HomebrewGoes
  <1>3. CASE ~Homebrew!Exists(seen.branch)
    <2>1. /\ Homebrew!Goto("observed")
          /\ seen' = [seen EXCEPT !.exists = FALSE, !.exact = FALSE, !.commit = 0]
      BY <1>3 DEF Homebrew!ListRemote
    <2>2. at' = "observed" /\ "observed" \in Homebrew!Places \ {"idle"} /\ caller' = caller
      BY <2>1 DEF Homebrew!Goto, Homebrew!Places
    <2>3. HomebrewSeen' /\ (HomebrewOpen' <=> HomebrewOpen)
      BY <1>1, <2>1, <2>2 DEF HomebrewSeen, HomebrewPushing, HomebrewOpen
    <2>4. HomebrewCommits'
      BY <1>1, <2>1, <2>2 DEF HomebrewSeen, HomebrewCommits
    <2>5. HomebrewBranch' /\ (seen'.exact => seen'.exists)
      BY <1>1, <1>3, <2>1, <2>2 DEF HomebrewSeen, HomebrewBranch, Homebrew!Exists
    <2> QED  BY <1>1, <2>1, <2>2, <2>3, <2>4, <2>5, HomebrewGoes
  <1> QED  BY <1>2, <1>3

LEMMA HomebrewCloneToObserveStep ==
    ASSUME CallerAssumption, HomebrewInv, Homebrew!CloneToObserve
    PROVE  HomebrewStep
  <1> DEFINE exact == Homebrew!Exact(seen.branch)
  <1>1. /\ at = "clone" /\ UNCHANGED <<plan, site, flying>> /\ ~HomebrewSubmitted
        /\ HomebrewSeen /\ HomebrewCommits /\ HomebrewSite
        /\ site.base \in Seq(Homebrew!Contents) /\ Len(site.base) \in Nat
    BY HomebrewSiteFacts
    DEF Homebrew!CloneToObserve, HomebrewSubmitted, HomebrewInv, HomebrewSeen
  <1>2. /\ at' = "observed" /\ "observed" \in Homebrew!Places \ {"idle"} /\ caller' = caller
        /\ seen' = [seen EXCEPT !.exists = TRUE, !.exact = exact] /\ Homebrew!Goto("observed")
    BY DEF Homebrew!CloneToObserve, Homebrew!Goto, Homebrew!Places
  <1>3. /\ exact \in BOOLEAN
        /\ seen.branch = "update" => site.update # "none" /\ (~exact => site.update # "ours")
        /\ seen.branch = "base" /\ exact => HomebrewOn(site.base, seen.commit)
    <2>1. exact \in BOOLEAN
      BY DEF Homebrew!Exact
    <2>2. seen.branch = "update" => site.update # "none" /\ (~exact => site.update # "ours")
      BY DEF Homebrew!CloneToObserve, Homebrew!Exact, Homebrew!Exists
    <2>3. ASSUME seen.branch = "base", exact PROVE HomebrewOn(site.base, seen.commit)
      <3>1. site.base[Len(site.base)] = "ours"
        BY <2>3 DEF Homebrew!Exact, Homebrew!Tip
      <3>2. seen.commit \in Nat /\ seen.commit > 0 /\ seen.commit <= Len(site.base)
        BY <1>1, <2>3 DEF HomebrewSeen, HomebrewCommits
      <3> QED  BY <1>1, <3>1, <3>2 DEF HomebrewOn
    <2> QED  BY <2>1, <2>2, <2>3
  <1> HIDE DEF exact
  <1>4. HomebrewSeen' /\ (HomebrewOpen' <=> HomebrewOpen)
    BY <1>1, <1>2, <1>3 DEF HomebrewSeen, HomebrewPushing, HomebrewOpen
  <1>5. HomebrewCommits'
    <2>1. seen'.branch = seen.branch /\ seen'.commit = seen.commit /\ seen'.exact = exact
      BY <1>1, <1>2 DEF HomebrewSeen
    <2> QED  BY <1>1, <1>2, <1>3, <2>1 DEF HomebrewCommits
  <1>6. HomebrewBranch' /\ (seen'.exact => seen'.exists)
    <2>1. seen'.branch = seen.branch /\ seen'.exists /\ seen'.exact = exact
      BY <1>1, <1>2 DEF HomebrewSeen
    <2>2. seen.branch = "update" => \A r \in flying : r.to # "update"
      BY <1>1, <1>3 DEF HomebrewSite
    <2> QED  BY <1>1, <1>2, <1>3, <2>1, <2>2 DEF HomebrewBranch
  <1> QED  BY <1>1, <1>2, <1>4, <1>5, <1>6, HomebrewGoes

LEMMA HomebrewObserveFailsStep ==
    ASSUME CallerAssumption, HomebrewInv, NEW denied \in BOOLEAN, Homebrew!ObserveFails(denied)
    PROVE  HomebrewStep
  <1> DEFINE answer == IF seen.pushed THEN Homebrew!ClassifyGitPushError
                                      ELSE Homebrew!ClassifyGitReadError(denied)
  <1>1. /\ at \in {"ls", "clone"} /\ UNCHANGED <<plan, site, flying>> /\ ~HomebrewSubmitted
        /\ 0 <= Len(site.base) /\ Homebrew!Answer(answer, 0)
    BY HomebrewSiteFacts
    DEF Homebrew!ObserveFails, HomebrewSubmitted, HomebrewInv, HomebrewSeen
  <1>2. /\ answer \in {"RETRYABLE", "PERMANENT", "AMBIGUOUS"}
        /\ answer \in {"RETRYABLE", "PERMANENT"} => ~HomebrewOpen
    BY <1>1 DEF HomebrewOpen, Homebrew!ClassifyGitPushError, Homebrew!ClassifyGitReadError
  <1> HIDE DEF answer
  <1>3. answer \in Answers
    BY <1>2 DEF Answers, Errors
  <1> QED  BY <1>1, <1>2, <1>3, HomebrewAnswers

(* What an observation of a branch decides: after a push that failed, of   *)
(* the base branch, and of the update branch.                              *)
LEMMA HomebrewAfterFailedPushStep ==
    ASSUME CallerAssumption, HomebrewInv, at = "observed", seen.pushed, Homebrew!AfterFailedPush,
           UNCHANGED <<plan, site, flying>>
    PROVE  HomebrewStep
  <1>1. /\ HomebrewSeen /\ HomebrewPushing /\ caller.call = "apply" /\ ~HomebrewSubmitted
        /\ seen.commit \in Nat /\ seen.commit <= Len(site.base) /\ seen.branch \in {"base", "update"}
        /\ (seen.exact => seen.exists) /\ 0 <= Len(site.base)
        /\ {"PUBLISHED", "REJECTED", "PERMANENT", "AMBIGUOUS"} \subseteq Answers
    BY HomebrewSiteFacts
    DEF HomebrewInv, HomebrewSeen, HomebrewPushing, HomebrewCommits, HomebrewSubmitted, Homebrew!TypeOK,
        Answers, Results, Errors
  <1>2. CASE seen.exact /\ seen.branch = "base"
    <2>1. Homebrew!Answer("PUBLISHED", seen.commit)
      BY <1>2 DEF Homebrew!AfterFailedPush
    <2>2. HomebrewOn(site.base, seen.commit)
      BY <1>2 DEF HomebrewInv, HomebrewCommits
    <2> QED  BY <1>1, <2>1, <2>2, HomebrewAnswers
  <1>3. CASE seen.exact /\ seen.branch # "base"
    <2>1. Homebrew!Goto("lookup") /\ seen' = seen
      BY <1>3 DEF Homebrew!AfterFailedPush
    <2>2. at' = "lookup" /\ "lookup" \in Homebrew!Places \ {"idle"} /\ caller' = caller
      BY <2>1 DEF Homebrew!Goto, Homebrew!Places
    <2>3. flying = {}
      <3>1. \A r \in flying : r.to = "update" /\ r.to # "update"
        BY <1>1, <1>3 DEF HomebrewInv, HomebrewSeen, HomebrewBranch
      <3> QED  BY <3>1
    <2>4. HomebrewSeen'
      BY <1>1, <2>1, <2>2 DEF HomebrewSeen, HomebrewPushing
    <2>5. HomebrewCommits' /\ HomebrewBranch'
      BY <2>2 DEF HomebrewCommits, HomebrewBranch
    <2> QED  BY <1>1, <2>1, <2>2, <2>3, <2>4, <2>5, HomebrewGoes
  <1>4. CASE ~seen.exact /\ seen.exists
    <2>1. Homebrew!Answer("REJECTED", seen.commit)
      BY <1>4 DEF Homebrew!AfterFailedPush
    <2>2. \A request \in flying : plan.mode = "direct"
      <3>1. \A request \in flying : request.to = seen.branch
        BY <1>1 DEF HomebrewSeen
      <3>2. seen.branch = "update" => \A request \in flying : request.to # "update"
        BY <1>4 DEF HomebrewInv, HomebrewBranch
      <3>3. seen.branch = "base" => plan.mode = "direct"
        BY <1>1 DEF HomebrewSeen
      <3> QED  BY <1>1, <3>1, <3>2, <3>3
    <2> QED  BY <1>1, <2>1, <2>2, HomebrewAnswers
  <1>5. CASE ~seen.exact /\ ~seen.exists
    <2> DEFINE answer == Homebrew!ClassifyGitPushError
    <2>1. Homebrew!Answer(answer, 0)
      BY <1>5 DEF Homebrew!AfterFailedPush
    <2>2. answer \in {"PERMANENT", "AMBIGUOUS"} /\ (answer = "PERMANENT" => ~HomebrewOpen)
      BY DEF Homebrew!ClassifyGitPushError, HomebrewOpen
    <2> HIDE DEF answer
    <2>3. answer \in Answers
      BY <1>1, <2>2
    <2> QED  BY <1>1, <2>1, <2>2, <2>3, HomebrewAnswers
  <1> QED  BY <1>2, <1>3, <1>4, <1>5

LEMMA HomebrewAfterBaseStep ==
    ASSUME CallerAssumption, HomebrewInv, at = "observed", ~seen.pushed, seen.branch = "base",
           Homebrew!AfterBase, UNCHANGED <<plan, site, flying>>
    PROVE  HomebrewStep
  <1>1. /\ HomebrewSeen /\ ~HomebrewSubmitted /\ ~HomebrewOpen
        /\ seen.commit \in Nat /\ seen.commit <= Len(site.base) /\ seen.exists \in BOOLEAN
        /\ (seen.exact => seen.exists) /\ 0 <= Len(site.base)
        /\ caller.call \in {"apply", "reconcile"}
        /\ {"PUBLISHED", "REJECTED", "PERMANENT", "WAITING_EXTERNAL"} \subseteq Answers
    BY HomebrewSiteFacts, HomebrewCaller
    DEF HomebrewInv, HomebrewSeen, HomebrewCommits, HomebrewSubmitted, HomebrewOpen, Homebrew!TypeOK,
        Homebrew!Idle, Caller, Answers, Results, Errors
  <1>2. CASE seen.exact
    <2>1. Homebrew!Answer("PUBLISHED", seen.commit)
      BY <1>2 DEF Homebrew!AfterBase
    <2>2. HomebrewOn(site.base, seen.commit)
      BY <1>2 DEF HomebrewInv, HomebrewCommits
    <2> QED  BY <1>1, <2>1, <2>2, HomebrewAnswers
  <1>3. CASE ~seen.exact /\ plan.mode = "direct" /\ caller.call = "apply" /\ seen.exists
    <2>1. Homebrew!Goto("workspace") /\ seen' = seen
      BY <1>3 DEF Homebrew!AfterBase, Homebrew!Calling
    <2>2. at' = "workspace" /\ "workspace" \in Homebrew!Places \ {"idle"} /\ caller' = caller
      BY <2>1 DEF Homebrew!Goto, Homebrew!Places
    <2>3. flying = {}
      <3>1. Sound(caller, flying, HomebrewOpen)
        BY DEF HomebrewInv
      <3> QED  BY <1>1, <1>3, <3>1, NothingSent
    <2>4. HomebrewSeen'
      BY <1>1, <1>3, <2>1, <2>2, <2>3 DEF HomebrewSeen, HomebrewPushing
    <2>5. HomebrewCommits' /\ HomebrewBranch'
      BY <2>1, <2>2 DEF HomebrewCommits, HomebrewBranch
    <2> QED  BY <1>1, <2>1, <2>2, <2>3, <2>4, <2>5, HomebrewGoes
  <1>4. CASE ~seen.exact /\ plan.mode = "direct" /\ caller.call = "apply" /\ ~seen.exists
    <2>1. Homebrew!Answer("PERMANENT", 0)
      BY <1>4 DEF Homebrew!AfterBase, Homebrew!Calling
    <2> QED  BY <1>1, <2>1, HomebrewAnswers
  <1>5. CASE ~seen.exact /\ plan.mode = "direct" /\ caller.call = "reconcile" /\ seen.exists
    <2>1. Homebrew!Answer("REJECTED", seen.commit)
      BY <1>5 DEF Homebrew!AfterBase, Homebrew!Calling
    <2> QED  BY <1>1, <1>5, <2>1, HomebrewAnswers
  <1>6. CASE ~seen.exact /\ plan.mode = "direct" /\ caller.call = "reconcile" /\ ~seen.exists
    <2>1. Homebrew!Answer("WAITING_EXTERNAL", 0)
      BY <1>6 DEF Homebrew!AfterBase, Homebrew!Calling
    <2> QED  BY <1>1, <2>1, HomebrewAnswers
  <1>7. CASE ~seen.exact /\ plan.mode # "direct"
    <2>1. Homebrew!Goto("ls") /\ seen' = [seen EXCEPT !.branch = "update"]
      BY <1>7 DEF Homebrew!AfterBase, Homebrew!ObserveNext, Homebrew!Remember
    <2>2. at' = "ls" /\ "ls" \in Homebrew!Places \ {"idle"} /\ caller' = caller
      BY <2>1 DEF Homebrew!Goto, Homebrew!Places
    <2>3. HomebrewSeen'
      BY <1>1, <2>1, <2>2 DEF HomebrewSeen, HomebrewPushing
    <2>4. HomebrewCommits' /\ HomebrewBranch' /\ (seen'.exact => seen'.exists)
      BY <1>1, <2>1, <2>2 DEF HomebrewSeen, HomebrewCommits, HomebrewBranch
    <2> QED  BY <1>1, <2>1, <2>2, <2>3, <2>4, HomebrewGoes
  <1> QED  BY <1>1, <1>2, <1>3, <1>4, <1>5, <1>6, <1>7

LEMMA HomebrewAfterUpdateStep ==
    ASSUME CallerAssumption, HomebrewInv, at = "observed", ~seen.pushed, seen.branch = "update",
           Homebrew!AfterUpdate, UNCHANGED <<plan, site, flying>>
    PROVE  HomebrewStep
  <1>1. /\ HomebrewSeen /\ ~HomebrewSubmitted /\ ~HomebrewOpen
        /\ seen.commit \in Nat /\ seen.commit <= Len(site.base)
        /\ (seen.exact => seen.exists) /\ "REJECTED" \in Answers
    BY DEF HomebrewInv, HomebrewSeen, HomebrewCommits, HomebrewSubmitted, HomebrewOpen, Homebrew!TypeOK,
           Answers, Results
  <1>2. CASE seen.exists /\ ~seen.exact
    <2>1. Homebrew!Answer("REJECTED", seen.commit)
      BY <1>2 DEF Homebrew!AfterUpdate
    <2>2. ASSUME NEW request \in flying, Homebrew!Acceptable(request)
          PROVE  plan.mode = "direct" \/ site.update = "other"
      <3>1. request.to \in {"base", "update", "pulls"} /\ request.to # "update" /\ site.update # "ours"
        BY <1>2 DEF HomebrewInv, Homebrew!TypeOK, Homebrew!Requests, HomebrewBranch
      <3>2. request.to = "base" => plan.mode = "direct"
        BY DEF HomebrewInv, HomebrewSite
      <3>3. site.update \in {"none", "other", "ours"}
        BY HomebrewSiteFacts DEF HomebrewInv
      <3> QED  BY <2>2, <3>1, <3>2, <3>3 DEF Homebrew!Acceptable
    <2> QED  BY <1>1, <2>1, <2>2, HomebrewAnswers
  <1>3. CASE ~(seen.exists /\ ~seen.exact) /\ caller.call = "apply" /\ ~seen.exists
    <2>1. Homebrew!Goto("workspace") /\ seen' = seen
      BY <1>3 DEF Homebrew!AfterUpdate, Homebrew!Calling
    <2>2. at' = "workspace" /\ "workspace" \in Homebrew!Places \ {"idle"} /\ caller' = caller
      BY <2>1 DEF Homebrew!Goto, Homebrew!Places
    <2>3. flying = {}
      <3>1. Sound(caller, flying, HomebrewOpen)
        BY DEF HomebrewInv
      <3> QED  BY <1>1, <1>3, <3>1, NothingSent
    <2>4. HomebrewSeen'
      BY <1>1, <1>3, <2>1, <2>2, <2>3 DEF HomebrewSeen, HomebrewPushing
    <2>5. HomebrewCommits' /\ HomebrewBranch'
      BY <1>3, <2>1, <2>2 DEF HomebrewInv, HomebrewCommits, HomebrewBranch
    <2> QED  BY <1>1, <2>1, <2>2, <2>3, <2>4, <2>5, HomebrewGoes
  <1>4. CASE ~(seen.exists /\ ~seen.exact) /\ ~(caller.call = "apply" /\ ~seen.exists)
    <2>1. Homebrew!Goto("lookup") /\ seen' = seen
      BY <1>4 DEF Homebrew!AfterUpdate, Homebrew!Calling
    <2>2. at' = "lookup" /\ "lookup" \in Homebrew!Places \ {"idle"} /\ caller' = caller
      BY <2>1 DEF Homebrew!Goto, Homebrew!Places
    <2>3. HomebrewSeen'
      BY <1>1, <2>1, <2>2 DEF HomebrewSeen, HomebrewPushing
    <2>4. HomebrewCommits' /\ HomebrewBranch'
      BY <2>2 DEF HomebrewCommits, HomebrewBranch
    <2> QED  BY <1>1, <2>1, <2>2, <2>3, <2>4, HomebrewGoes
  <1> QED  BY <1>2, <1>3, <1>4

LEMMA HomebrewDecideStep ==
    ASSUME CallerAssumption, HomebrewInv, Homebrew!Decide
    PROVE  HomebrewStep
  <1>1. at = "observed" /\ UNCHANGED <<plan, site, flying>> /\ seen.branch \in {"base", "update"}
    BY DEF Homebrew!Decide, HomebrewInv, HomebrewSeen
  <1>2. CASE seen.pushed
    BY <1>1, <1>2, HomebrewAfterFailedPushStep DEF Homebrew!Decide
  <1>3. CASE ~seen.pushed /\ seen.branch = "base"
    BY <1>1, <1>3, HomebrewAfterBaseStep DEF Homebrew!Decide
  <1>4. CASE ~seen.pushed /\ seen.branch = "update"
    BY <1>1, <1>4, HomebrewAfterUpdateStep DEF Homebrew!Decide
  <1> QED  BY <1>1, <1>2, <1>3, <1>4

(* A commit is pushed, unless there is nothing to commit.                  *)
LEMMA HomebrewCommitAndPushStep ==
    ASSUME CallerAssumption, HomebrewInv, Homebrew!CommitAndPush
    PROVE  HomebrewStep
  <1>1. /\ at = "workspace" /\ plan' = plan /\ site' = site /\ ~HomebrewSubmitted /\ ~HomebrewOpen
        /\ HomebrewSeen /\ HomebrewPushing /\ caller.call = "apply" /\ HomebrewSite
        /\ ~seen.pushed /\ ~seen.refused /\ seen.outcome = "unknown" /\ seen.branch \in {"base", "update"}
        /\ (seen.exact => seen.exists) /\ "PUBLISHED" \in Answers
    BY DEF Homebrew!CommitAndPush, HomebrewSubmitted, HomebrewOpen, HomebrewPushing, HomebrewInv,
           HomebrewSeen, Homebrew!TypeOK, Answers, Results
  <1>2. /\ Len(site.base) \in Nat /\ Len(site.base) <= MaxTips /\ Len(site.base) > 0
        /\ site.base \in Seq(Homebrew!Contents)
    BY HomebrewSiteFacts DEF Homebrew!CommitAndPush, Homebrew!Tip, HomebrewInv
  <1>3. flying = {}
    <2>1. Sound(caller, flying, HomebrewOpen)
      BY DEF HomebrewInv
    <2> QED  BY <1>1, <2>1, NothingSent
  <1>4. CASE Homebrew!Exact("base") /\ seen.branch = "base"
    <2>1. Homebrew!Answer("PUBLISHED", Len(site.base)) /\ flying' = flying
      BY <1>4 DEF Homebrew!CommitAndPush, Homebrew!PushSucceeded, Homebrew!Tip
    <2>2. HomebrewOn(site.base, Len(site.base))
      BY <1>2, <1>4 DEF HomebrewOn, Homebrew!Exact, Homebrew!Tip
    <2> QED  BY <1>1, <1>2, <2>1, <2>2, HomebrewAnswers
  <1>5. CASE Homebrew!Exact("base") /\ seen.branch # "base"
    <2>1. Homebrew!Goto("lookup") /\ seen' = seen /\ flying' = flying
      BY <1>5 DEF Homebrew!CommitAndPush, Homebrew!PushSucceeded
    <2>2. at' = "lookup" /\ "lookup" \in Homebrew!Places \ {"idle"} /\ caller' = caller
      BY <2>1 DEF Homebrew!Goto, Homebrew!Places
    <2>3. HomebrewSeen'
      BY <1>1, <2>1, <2>2 DEF HomebrewSeen, HomebrewPushing
    <2>4. HomebrewCommits' /\ HomebrewBranch'
      BY <2>2 DEF HomebrewCommits, HomebrewBranch
    <2> QED  BY <1>1, <1>3, <2>1, <2>2, <2>3, <2>4, HomebrewGoes
  <1>6. CASE ~Homebrew!Exact("base")
    <2> DEFINE request == [to |-> seen.branch, parent |-> Len(site.base), call |-> caller.calls]
    <2>1. /\ Homebrew!Goto("push") /\ seen' = [seen EXCEPT !.commit = Len(site.base) + 1]
          /\ flying' = flying \union {request}
      BY <1>6 DEF Homebrew!CommitAndPush, Homebrew!Remember, Homebrew!Tip
    <2>2. caller.calls \in Nat /\ caller.calls > 0 /\ caller.calls <= MaxCalls
      <3>1. Sound(caller, flying, HomebrewOpen) /\ caller.call # "none"
        BY <1>1 DEF HomebrewInv
      <3> QED  BY <3>1, CallsUnderWay
    <2>3. request \in Homebrew!Requests
      BY <1>1, <1>2, <2>2, HomebrewSiteAssumption DEF Homebrew!Requests, CallerAssumption
    <2>4. /\ request.to = seen.branch /\ request.parent = Len(site.base) /\ request.call = caller.calls
      OBVIOUS
    <2> HIDE DEF request
    <2>5. at' = "push" /\ "push" \in Homebrew!Places \ {"idle"} /\ caller' = caller /\ flying' = {request}
      BY <1>3, <2>1 DEF Homebrew!Goto, Homebrew!Places
    <2>6. /\ seen'.branch = seen.branch /\ seen'.commit = Len(site.base) + 1 /\ seen'.outcome = "unknown"
          /\ seen'.exact = seen.exact /\ seen'.exists = seen.exists /\ seen'.refused = seen.refused
          /\ seen'.pushed = seen.pushed
      BY <1>1, <2>1 DEF HomebrewSeen
    <2>7. HomebrewOpen'
      BY <2>5, <2>6 DEF HomebrewOpen
    <2>8. HomebrewSeen'
      <3>1. seen' \in [branch : {"base", "update"}, pushed : BOOLEAN, refused : BOOLEAN, exists : BOOLEAN,
                       exact : BOOLEAN, commit : Nat,
                       outcome : {"unsent", "unknown", "landed", "refused", "denied"}]
        BY <1>1, <1>2, <2>1 DEF HomebrewSeen
      <3>2. seen.branch = "base" => plan.mode = "direct"
        BY <1>1 DEF HomebrewSeen
      <3> QED  BY <1>1, <2>4, <2>5, <2>6, <3>1, <3>2 DEF HomebrewSeen, HomebrewPushing
    <2>9. HomebrewCommits'
      BY <1>1, <2>4, <2>5, <2>6 DEF HomebrewCommits
    <2>10. HomebrewBranch'
      BY <2>5 DEF HomebrewBranch
    <2>11. HomebrewSite'
      <3>1. seen.branch = "update" => site.update = "none"
        BY <1>1 DEF HomebrewInv, HomebrewBranch
      <3>2. seen.branch = "base" => plan.mode = "direct"
        BY <1>1 DEF HomebrewSeen
      <3>3. ~HomebrewSubmitted'
        BY <1>1, <2>5, <2>6 DEF HomebrewSubmitted
      <3> QED  BY <1>1, <2>4, <2>5, <3>1, <3>2, <3>3 DEF HomebrewSite
    <2> QED  BY <1>1, <2>1, <2>3, <2>4, <2>5, <2>6, <2>7, <2>8, <2>9, <2>10, <2>11, HomebrewSends
  <1> QED  BY <1>4, <1>5, <1>6

(* A push that failed, or a workspace that did, is followed by a look.     *)
LEMMA HomebrewPushFailedStep ==
    ASSUME CallerAssumption, HomebrewInv, at \in {"workspace", "push"},
           NEW outcome \in {"unknown", "denied"}, Homebrew!PushFailed(outcome),
           outcome = "denied" => ~HomebrewOpen, UNCHANGED <<plan, site, flying>>
    PROVE  HomebrewStep
  <1>1. /\ at' = "ls" /\ "ls" \in Homebrew!Places \ {"idle"} /\ caller' = caller
        /\ seen' = [seen EXCEPT !.pushed = TRUE, !.outcome = outcome] /\ Homebrew!Goto("ls")
    BY DEF Homebrew!PushFailed, Homebrew!Goto, Homebrew!Places
  <1>2. /\ HomebrewSeen /\ HomebrewPushing /\ caller.call = "apply" /\ ~seen.refused
        /\ (seen.exact => seen.exists)
    BY DEF HomebrewInv, HomebrewSeen, HomebrewPushing, Homebrew!TypeOK
  <1>3. /\ seen'.branch = seen.branch /\ seen'.outcome = outcome /\ seen'.pushed
        /\ seen'.exact = seen.exact /\ seen'.exists = seen.exists /\ ~seen'.refused
    BY <1>1, <1>2 DEF HomebrewSeen
  <1>4. HomebrewSeen'
    <2>1. seen' \in [branch : {"base", "update"}, pushed : BOOLEAN, refused : BOOLEAN, exists : BOOLEAN,
                     exact : BOOLEAN, commit : Nat,
                     outcome : {"unsent", "unknown", "landed", "refused", "denied"}]
      BY <1>1, <1>2 DEF HomebrewSeen
    <2>2. /\ seen.branch = "base" => plan.mode = "direct"
          /\ \A r \in flying : r.to = seen.branch
      BY <1>2 DEF HomebrewSeen
    <2> QED  BY <1>1, <1>2, <1>3, <2>1, <2>2 DEF HomebrewSeen, HomebrewPushing
  <1>5. HomebrewCommits' /\ HomebrewBranch'
    BY <1>1 DEF HomebrewCommits, HomebrewBranch
  <1>6. ~HomebrewOpen' => ~HomebrewOpen
    BY <1>1, <1>3 DEF HomebrewOpen
  <1>7. ~HomebrewSubmitted
    BY <1>2 DEF HomebrewSubmitted
  <1> QED  BY <1>1, <1>2, <1>3, <1>4, <1>5, <1>6, <1>7, HomebrewGoes

LEMMA HomebrewWorkspaceFailsStep ==
    ASSUME CallerAssumption, HomebrewInv, NEW outcome \in {"unknown", "denied"},
           Homebrew!WorkspaceFails(outcome)
    PROVE  HomebrewStep
  <1>1. at = "workspace" /\ Homebrew!PushFailed(outcome) /\ UNCHANGED <<plan, site, flying>> /\ ~HomebrewOpen
    BY DEF Homebrew!WorkspaceFails, HomebrewOpen
  <1> QED  BY <1>1, HomebrewPushFailedStep

LEMMA HomebrewPushReturnsStep ==
    ASSUME CallerAssumption, HomebrewInv, NEW success \in BOOLEAN, Homebrew!PushReturns(success)
    PROVE  HomebrewStep
  <1>1. /\ at = "push" /\ UNCHANGED <<plan, site, flying>> /\ HomebrewSeen /\ HomebrewCommits
        /\ caller.call = "apply" /\ ~seen.refused /\ seen.branch \in {"base", "update"}
        /\ seen.commit \in Nat /\ (seen.exact => seen.exists) /\ ~HomebrewSubmitted
        /\ Len(site.base) \in Nat /\ "PUBLISHED" \in Answers
    BY HomebrewSiteFacts
    DEF Homebrew!PushReturns, HomebrewInv, HomebrewSeen, HomebrewSubmitted, Homebrew!TypeOK, Answers,
        Results
  <1>2. CASE success /\ seen.branch = "base"
    <2>1. Homebrew!Answer("PUBLISHED", seen.commit) /\ seen.outcome = "landed"
      BY <1>2 DEF Homebrew!PushReturns, Homebrew!PushSucceeded
    <2>2. HomebrewOn(site.base, seen.commit)
      BY <1>1, <1>2, <2>1 DEF HomebrewCommits
    <2>3. seen.commit <= Len(site.base)
      BY <1>1, <2>2 DEF HomebrewOn
    <2> QED  BY <1>1, <2>1, <2>2, <2>3, HomebrewAnswers
  <1>3. CASE success /\ seen.branch # "base"
    <2>1. Homebrew!Goto("lookup") /\ seen' = seen /\ seen.outcome = "landed"
      BY <1>3 DEF Homebrew!PushReturns, Homebrew!PushSucceeded
    <2>2. at' = "lookup" /\ "lookup" \in Homebrew!Places \ {"idle"} /\ caller' = caller /\ ~HomebrewOpen
      BY <1>1, <2>1 DEF Homebrew!Goto, Homebrew!Places, HomebrewOpen
    <2>3. HomebrewSeen'
      BY <1>1, <2>1, <2>2 DEF HomebrewSeen, HomebrewPushing
    <2>4. HomebrewCommits' /\ HomebrewBranch'
      BY <2>2 DEF HomebrewCommits, HomebrewBranch
    <2> QED  BY <1>1, <2>1, <2>2, <2>3, <2>4, HomebrewGoes
  <1>4. CASE ~success
    <2> DEFINE outcome == IF seen.outcome = "denied" THEN "denied" ELSE "unknown"
    <2>1. Homebrew!PushFailed(outcome)
      BY <1>4 DEF Homebrew!PushReturns
    <2>2. outcome \in {"unknown", "denied"} /\ (outcome = "denied" => ~HomebrewOpen)
      BY <1>1 DEF HomebrewOpen
    <2> HIDE DEF outcome
    <2> QED  BY <1>1, <2>1, <2>2, HomebrewPushFailedStep
  <1> QED  BY <1>2, <1>3, <1>4

LEMMA HomebrewLookupStep ==
    ASSUME CallerAssumption, HomebrewInv, Homebrew!LookupPullRequest
    PROVE  HomebrewStep
  <1>1. /\ at = "lookup" /\ UNCHANGED <<plan, site, flying>> /\ HomebrewSeen /\ ~HomebrewOpen
        /\ (seen.exact => seen.exists) /\ 0 <= Len(site.base) /\ Homebrew!AfterLookup
        /\ caller.call \in {"apply", "reconcile"} /\ site.pr \in {"none", "open", "closed", "merged"}
        /\ {"REJECTED", "WAITING_EXTERNAL", "PERMANENT"} \subseteq Answers
    BY HomebrewSiteFacts, HomebrewCaller
    DEF Homebrew!LookupPullRequest, HomebrewInv, HomebrewOpen, HomebrewSeen, Homebrew!TypeOK,
        Homebrew!Idle, Caller, Answers, Results, Errors
  <1>2. CASE site.pr = "closed"
    <2>1. Homebrew!Answer("REJECTED", 0)
      BY <1>1, <1>2 DEF Homebrew!AfterLookup
    <2> QED  BY <1>1, <1>2, <2>1, HomebrewAnswers
  <1>3. CASE site.pr \in {"open", "merged"} \/ (site.pr = "none" /\ caller.call = "reconcile")
    <2>1. Homebrew!Answer("WAITING_EXTERNAL", 0)
      BY <1>1, <1>3 DEF Homebrew!AfterLookup, Homebrew!Calling
    <2> QED  BY <1>1, <2>1, HomebrewAnswers
  <1>4. CASE site.pr = "none" /\ caller.call = "apply" /\ seen.refused
    <2>1. Homebrew!Answer("PERMANENT", 0)
      BY <1>1, <1>4 DEF Homebrew!AfterLookup, Homebrew!Calling
    <2> QED  BY <1>1, <2>1, HomebrewAnswers
  <1>5. CASE site.pr = "none" /\ caller.call = "apply" /\ ~seen.refused
    <2>1. Homebrew!Goto("submit") /\ seen' = [seen EXCEPT !.outcome = "unsent"]
      BY <1>1, <1>5 DEF Homebrew!AfterLookup, Homebrew!Calling, Homebrew!Remember
    <2>2. at' = "submit" /\ "submit" \in Homebrew!Places \ {"idle"} /\ caller' = caller
      BY <2>1 DEF Homebrew!Goto, Homebrew!Places
    <2>3. HomebrewSeen' /\ (seen'.exact => seen'.exists)
      BY <1>1, <1>5, <2>1, <2>2 DEF HomebrewSeen, HomebrewPushing
    <2>4. HomebrewCommits' /\ HomebrewBranch' /\ ~HomebrewSubmitted
      BY <1>1, <1>5, <2>2 DEF HomebrewCommits, HomebrewBranch, HomebrewSubmitted
    <2> QED  BY <1>1, <2>1, <2>2, <2>3, <2>4, HomebrewGoes
  <1> QED  BY <1>1, <1>2, <1>3, <1>4, <1>5

LEMMA HomebrewLookupFailsStep ==
    ASSUME CallerAssumption, HomebrewInv, NEW temporary \in BOOLEAN, Homebrew!LookupFails(temporary)
    PROVE  HomebrewStep
  <1> DEFINE answer == IF seen.refused THEN "PERMANENT" ELSE Homebrew!ClassifyPullRequestStatus(temporary)
  <1>1. /\ at = "lookup" /\ UNCHANGED <<plan, site, flying>> /\ ~HomebrewOpen
        /\ 0 <= Len(site.base) /\ Homebrew!Answer(answer, 0)
    BY HomebrewSiteFacts DEF Homebrew!LookupFails, HomebrewInv, HomebrewOpen
  <1>2. answer \in {"PERMANENT", "RETRYABLE"} /\ (answer = "RETRYABLE" => ~HomebrewSubmitted)
    BY <1>1 DEF Homebrew!ClassifyPullRequestStatus, HomebrewSubmitted
  <1> HIDE DEF answer
  <1>3. answer \in Answers
    BY <1>2 DEF Answers, Errors
  <1> QED  BY <1>1, <1>2, <1>3, HomebrewAnswers

LEMMA HomebrewSubmitStep ==
    ASSUME CallerAssumption, HomebrewInv, Homebrew!SubmitPullRequest
    PROVE  HomebrewStep
  <1> DEFINE request == [to |-> "pulls", parent |-> 0, call |-> caller.calls]
  <1>1. /\ at = "submit" /\ seen.outcome = "unsent" /\ ~HomebrewOpen /\ ~HomebrewSubmitted
        /\ HomebrewSeen /\ caller.call = "apply" /\ UNCHANGED <<plan, site>> /\ ~seen.refused
        /\ Homebrew!Goto("submit") /\ seen' = [seen EXCEPT !.outcome = "unknown"]
        /\ flying' = flying \union {request} /\ (seen.exact => seen.exists)
    BY DEF Homebrew!SubmitPullRequest, Homebrew!Remember, HomebrewOpen, HomebrewSubmitted, HomebrewInv,
           HomebrewSeen, Homebrew!TypeOK
  <1>2. caller.calls \in Nat /\ caller.calls > 0 /\ caller.calls <= MaxCalls /\ caller.owed = "apply" /\ flying = {}
    <2>1. Sound(caller, flying, HomebrewOpen) /\ caller.call # "none"
      BY <1>1 DEF HomebrewInv
    <2>2. flying = {} /\ caller.owed = "apply"
      BY <1>1, <2>1, NothingSent DEF Sound
    <2> QED  BY <2>1, <2>2, CallsUnderWay
  <1>3. request \in Homebrew!Requests
    BY <1>2, HomebrewSiteAssumption DEF Homebrew!Requests, CallerAssumption
  <1>4. request.to = "pulls" /\ request.call = caller.calls
    OBVIOUS
  <1> HIDE DEF request
  <1>5. at' = "submit" /\ "submit" \in Homebrew!Places \ {"idle"} /\ caller' = caller /\ flying' = {request}
    BY <1>1, <1>2 DEF Homebrew!Goto, Homebrew!Places
  <1>6. /\ HomebrewOpen' /\ HomebrewSubmitted' /\ HomebrewSeen' /\ (seen'.exact => seen'.exists)
    BY <1>1, <1>5 DEF HomebrewOpen, HomebrewSubmitted, HomebrewSeen, HomebrewPushing
  <1>7. HomebrewCommits' /\ HomebrewBranch'
    BY <1>5 DEF HomebrewCommits, HomebrewBranch
  <1>8. HomebrewSite'
    BY <1>1, <1>2, <1>4, <1>5, <1>6 DEF HomebrewInv, HomebrewSite
  <1> QED  BY <1>1, <1>3, <1>4, <1>5, <1>6, <1>7, <1>8, HomebrewSends

LEMMA HomebrewSubmitReturnsStep ==
    ASSUME CallerAssumption, HomebrewInv,
           NEW response \in {"created", "malformed", "refused", "denied", "unknown"},
           Homebrew!SubmitReturns(response)
    PROVE  HomebrewStep
  <1>1. /\ at = "submit" /\ UNCHANGED <<plan, site, flying>> /\ HomebrewSeen /\ caller.call = "apply"
        /\ (seen.exact => seen.exists) /\ 0 <= Len(site.base) /\ ~seen.refused
        /\ {"WAITING_EXTERNAL", "PERMANENT", "AMBIGUOUS"} \subseteq Answers
    BY HomebrewSiteFacts
    DEF Homebrew!SubmitReturns, HomebrewInv, HomebrewSeen, Homebrew!TypeOK, Answers, Results, Errors
  <1>2. CASE response = "refused"
    <2>1. seen.outcome = "refused" /\ Homebrew!Goto("lookup") /\ seen' = [seen EXCEPT !.refused = TRUE]
      BY <1>2 DEF Homebrew!SubmitReturns, Homebrew!Remember
    <2>2. at' = "lookup" /\ "lookup" \in Homebrew!Places \ {"idle"} /\ caller' = caller /\ ~HomebrewOpen
      BY <1>1, <2>1 DEF Homebrew!Goto, Homebrew!Places, HomebrewOpen
    <2>3. HomebrewSeen' /\ (seen'.exact => seen'.exists) /\ HomebrewSubmitted'
      BY <1>1, <2>1, <2>2 DEF HomebrewSeen, HomebrewPushing, HomebrewSubmitted
    <2>4. HomebrewCommits' /\ HomebrewBranch'
      BY <2>2 DEF HomebrewCommits, HomebrewBranch
    <2> QED  BY <1>1, <2>1, <2>2, <2>3, <2>4, HomebrewGoes
  <1>3. CASE response = "created"
    <2>1. Homebrew!Answer("WAITING_EXTERNAL", 0)
      BY <1>3 DEF Homebrew!SubmitReturns
    <2> QED  BY <1>1, <2>1, HomebrewAnswers
  <1>4. CASE response \in {"malformed", "denied"}
    <2>1. Homebrew!Answer("PERMANENT", 0) /\ seen.outcome \in {"landed", "denied"}
      BY <1>4 DEF Homebrew!SubmitReturns
    <2>2. ~HomebrewOpen
      BY <1>1, <2>1 DEF HomebrewOpen
    <2> QED  BY <1>1, <2>1, <2>2, HomebrewAnswers
  <1>5. CASE response = "unknown"
    <2>1. Homebrew!Answer("AMBIGUOUS", 0)
      BY <1>5 DEF Homebrew!SubmitReturns
    <2> QED  BY <1>1, <2>1, HomebrewAnswers
  <1> QED  BY <1>2, <1>3, <1>4, <1>5

-----------------------------------------------------------------------------
(* The tap decides, and the others who write to it. *)

\* a longer branch
LEMMA HomebrewAppended ==
    ASSUME HomebrewInv, NEW content \in Homebrew!Contents, Len(site.base) < MaxTips
    PROVE  /\ Append(site.base, content) \in Homebrew!Bases
           /\ Len(Append(site.base, content)) = Len(site.base) + 1
           /\ \A i \in 1..Len(site.base) : Append(site.base, content)[i] = site.base[i]
           /\ Append(site.base, content)[Len(site.base) + 1] = content
  <1>1. site.base \in Seq(Homebrew!Contents) /\ Len(site.base) \in Nat
    BY HomebrewSiteFacts DEF HomebrewInv
  <1> QED  BY <1>1, HomebrewSiteAssumption DEF Homebrew!Bases

(* A request that is decided was the only one.  What the tap makes of it   *)
(* is what the call under way, if it still is that, will learn.            *)
LEMMA HomebrewSettles ==
    ASSUME CallerAssumption, HomebrewInv, NEW request \in flying,
           NEW outcome \in {"landed", "refused", "denied"}, Homebrew!Settled(request, outcome),
           site' \in Homebrew!Site, Len(site.base) <= Len(site'.base),
           \A i \in 1..Len(site.base) : site'.base[i] = site.base[i],
           request.to = "base" /\ outcome = "landed" =>
               request.parent + 1 = Len(site'.base) /\ site'.base[request.parent + 1] = "ours",
           site'.update # site.update => request.to = "update",
           site'.opened # site.opened =>
               request.to = "pulls" /\ outcome = "landed" /\ site'.opened = site.opened + 1
    PROVE  HomebrewStep
  <1>1. /\ flying' = flying \ {request} /\ UNCHANGED <<caller, plan, at>>
        /\ seen' = IF Homebrew!Awaited(request) THEN [seen EXCEPT !.outcome = outcome] ELSE seen
    BY DEF Homebrew!Settled
  <1>2. flying = {request} /\ flying' = {} /\ Sound(caller', flying', HomebrewOpen')
        /\ caller.said # "nothing"
    <2>1. Sound(caller, flying \ {request}, HomebrewOpen') /\ flying = {request} /\ caller.said # "nothing"
      BY SettleKeeps DEF HomebrewInv
    <2> QED  BY <1>1, <2>1
  <1>3. /\ request \in Homebrew!Requests /\ request.parent \in Nat /\ HomebrewSeen /\ HomebrewSite
        /\ site.opened \in Nat /\ site'.opened \in 0..MaxCalls
    BY HomebrewSiteFacts DEF HomebrewInv, Homebrew!TypeOK, Homebrew!Requests, Homebrew!Site
  <1>4. /\ site.base \in Seq(Homebrew!Contents) /\ site'.base \in Seq(Homebrew!Contents)
        /\ Len(site.base) \in Nat /\ Len(site'.base) \in Nat /\ caller.evidence <= Len(site.base)
        /\ caller.evidence \in Nat /\ seen.commit \in Nat
    BY <1>3, HomebrewSiteFacts, HomebrewCaller
    DEF HomebrewInv, HomebrewSeen, Homebrew!TypeOK, Homebrew!Site, Homebrew!Bases, Caller
  <1>5. \A from \in Nat : HomebrewOn(site.base, from) => HomebrewOn(site'.base, from)
    BY <1>4, HomebrewGrows
  <1>6. /\ seen' \in [branch : {"base", "update"}, pushed : BOOLEAN, refused : BOOLEAN, exists : BOOLEAN,
                      exact : BOOLEAN, commit : Nat,
                      outcome : {"unsent", "unknown", "landed", "refused", "denied"}]
        /\ seen'.branch = seen.branch /\ seen'.pushed = seen.pushed /\ seen'.refused = seen.refused
        /\ seen'.exists = seen.exists /\ seen'.exact = seen.exact /\ seen'.commit = seen.commit
        /\ seen' = seen \/ (at \in {"push", "submit"} /\ seen'.outcome = outcome)
        /\ seen'.outcome = "landed" /\ at = "push" =>
              seen.outcome = "landed" \/ (outcome = "landed" /\ request.to # "pulls")
    <2>1. Homebrew!Awaited(request) => at \in {"push", "submit"} /\ (at = "push" => request.to # "pulls")
      BY DEF Homebrew!Awaited
    <2> QED  BY <1>1, <1>3, <2>1 DEF HomebrewSeen
  <1>7. Homebrew!TypeOK'
    BY <1>1, <1>2, <1>4, <1>6 DEF HomebrewInv, Homebrew!TypeOK, Homebrew!Idle, Homebrew!Tip
  <1>8. HomebrewSeen'
    BY <1>1, <1>2, <1>3, <1>6 DEF HomebrewSeen, HomebrewPushing
  <1>9. HomebrewCommits'
    <2>1. ASSUME at = "push", seen.branch = "base", seen'.outcome = "landed"
          PROVE  HomebrewOn(site'.base, seen.commit)
      <3>1. CASE seen.outcome = "landed"
        BY <1>4, <1>5, <2>1, <3>1 DEF HomebrewInv, HomebrewCommits
      <3>2. CASE outcome = "landed" /\ request.to # "pulls"
        <4>1. request.to = "base" /\ request.parent + 1 = seen.commit
          BY <1>3, <2>1 DEF HomebrewSeen, HomebrewPushing, HomebrewInv, HomebrewCommits
        <4>2. seen.commit = Len(site'.base) /\ site'.base[seen.commit] = "ours" /\ seen.commit > 0
          BY <1>3, <3>2, <4>1
        <4> QED  BY <1>4, <4>2 DEF HomebrewOn
      <3> QED  BY <1>6, <2>1, <3>1, <3>2
    <2>2. /\ at \in {"clone", "observed"} => seen.commit <= Len(site.base)
          /\ at = "clone" /\ seen.branch = "base" => seen.commit > 0
          /\ at = "observed" /\ seen.branch = "base" /\ seen.exact => HomebrewOn(site.base, seen.commit)
      BY DEF HomebrewInv, HomebrewCommits
    <2> QED  BY <1>1, <1>2, <1>4, <1>5, <1>6, <2>1, <2>2 DEF HomebrewCommits
  <1>10. HomebrewBranch'
    <2>1. caller.call = "apply" => HomebrewOpen
      <3>1. Sound(caller, flying, HomebrewOpen)
        BY DEF HomebrewInv
      <3> QED  BY ONLY <1>2, <3>1, NothingSent
    <2>2. at = "observed" /\ ~seen.pushed => ~HomebrewOpen
      BY DEF HomebrewOpen
    <2>3. at = "workspace" => ~HomebrewOpen /\ caller.call = "apply"
      BY <1>3 DEF HomebrewOpen, HomebrewSeen
    <2>4. at = "observed" /\ seen.branch = "update" /\ seen.exists => request.to # "update"
      BY DEF HomebrewInv, HomebrewBranch
    <2> QED  BY <1>1, <1>2, <1>6, <2>1, <2>2, <2>3, <2>4 DEF HomebrewInv, HomebrewBranch
  <1>11. HomebrewSite'
    <2>1. site'.opened <= 1
      BY <1>3 DEF HomebrewSite
    <2>2. ASSUME caller.owed = "apply"
          PROVE  site'.opened = 0 \/ (at' = "submit" /\ seen'.outcome = "landed")
      <3>1. HomebrewOpen /\ request.call = caller.calls
        <4>1. Sound(caller, flying, HomebrewOpen)
          BY DEF HomebrewInv
        <4> QED  BY <1>2, <2>2, <4>1 DEF Sound
      <3>2. site.opened = 0
        BY <1>3, <2>2, <3>1 DEF HomebrewSite, HomebrewOpen
      <3>3. CASE site'.opened # site.opened
        <4>1. request.to = "pulls" /\ outcome = "landed"
          BY <3>3
        <4>2. HomebrewSubmitted
          BY <1>3, <2>2, <4>1 DEF HomebrewSite
        <4>3. at = "submit"
          BY <1>3, <3>1, <4>2 DEF HomebrewSubmitted, HomebrewSeen, HomebrewOpen
        <4>4. Homebrew!Awaited(request)
          BY <3>1, <4>1, <4>3 DEF Homebrew!Awaited
        <4> QED  BY <1>1, <1>3, <4>1, <4>3, <4>4 DEF HomebrewSeen
      <3> QED  BY <3>2, <3>3
    <2> QED  BY <1>1, <1>2, <1>3, <2>1, <2>2 DEF HomebrewSite
  <1>12. Homebrew!PublishedIsTrue'
    <2>1. caller.said = "PUBLISHED" => HomebrewOn(site.base, caller.evidence)
      BY HomebrewPublished DEF HomebrewInv
    <2>2. caller'.said = "PUBLISHED" => HomebrewOn(site'.base, caller'.evidence)
      BY <1>1, <1>4, <1>5, <2>1
    <2> QED  BY <2>2 DEF Homebrew!PublishedIsTrue, HomebrewOn, Homebrew!Tip
  <1>13. Homebrew!RejectionStands /\ Homebrew!ReconcileObserves /\ Homebrew!FailureIsOver
    BY <1>1 DEF Homebrew!RejectionStands, Homebrew!ReconcileObserves, Homebrew!FailureIsOver, Homebrew!Idle
  <1> QED
    BY <1>2, <1>7, <1>8, <1>9, <1>10, <1>11, <1>12, <1>13 DEF HomebrewStep, HomebrewInv

LEMMA HomebrewTapStep ==
    ASSUME CallerAssumption, HomebrewInv, NEW request \in flying,
           Homebrew!TapActs(request) \/ Homebrew!TapDenies(request)
    PROVE  HomebrewStep
  <1>1. /\ request.to \in {"base", "update", "pulls"} /\ site \in Homebrew!Site
        /\ Len(site.base) \in Nat /\ HomebrewSite /\ request.call \in 1..MaxCalls
        /\ site.opened \in Nat
    BY HomebrewSiteFacts DEF HomebrewInv, Homebrew!TypeOK, Homebrew!Requests
  <1>2. CASE site' = site /\ \E outcome \in {"refused", "denied"} : Homebrew!Settled(request, outcome)
    <2>1. PICK outcome \in {"refused", "denied"} : Homebrew!Settled(request, outcome)
      BY <1>2
    <2>2. outcome \in {"landed", "refused", "denied"} /\ outcome # "landed" /\ Len(site.base) <= Len(site'.base)
      BY <1>1, <1>2
    <2> QED  BY <1>1, <1>2, <2>1, <2>2, HomebrewSettles
  <1>3. CASE site' = Homebrew!Carried(request) /\ Homebrew!Settled(request, "landed")
             /\ Homebrew!Acceptable(request) /\ (request.to = "base" => Homebrew!Tip < MaxTips)
    <2>1. CASE request.to = "base"
      <3>1. /\ site' = [site EXCEPT !.base = Append(site.base, "ours")] /\ request.parent = Len(site.base)
            /\ Len(site.base) < MaxTips /\ "ours" \in Homebrew!Contents
        BY <1>3, <2>1 DEF Homebrew!Carried, Homebrew!Acceptable, Homebrew!Tip, Homebrew!Contents
      <3>2. /\ site'.base = Append(site.base, "ours") /\ site'.update = site.update
            /\ site'.opened = site.opened
        BY <1>1, <3>1 DEF Homebrew!Site
      <3>3. /\ Append(site.base, "ours") \in Homebrew!Bases
            /\ Len(Append(site.base, "ours")) = Len(site.base) + 1
            /\ \A i \in 1..Len(site.base) : Append(site.base, "ours")[i] = site.base[i]
            /\ Append(site.base, "ours")[Len(site.base) + 1] = "ours"
        BY <3>1, HomebrewAppended
      <3>4. site' \in Homebrew!Site
        BY <1>1, <3>1, <3>3 DEF Homebrew!Site
      <3>5. /\ Len(site.base) <= Len(site'.base) /\ \A i \in 1..Len(site.base) : site'.base[i] = site.base[i]
            /\ request.parent + 1 = Len(site'.base) /\ site'.base[request.parent + 1] = "ours"
        BY <1>1, <3>1, <3>2, <3>3
      <3> QED  BY <1>3, <2>1, <3>2, <3>4, <3>5, HomebrewSettles
    <2>2. CASE request.to = "update"
      <3>1. site' = [site EXCEPT !.update = "ours"]
        BY <1>3, <2>2 DEF Homebrew!Carried
      <3>2. site' \in Homebrew!Site /\ site'.base = site.base /\ site'.opened = site.opened
        BY <1>1, <3>1 DEF Homebrew!Site, Homebrew!Contents
      <3>3. Len(site.base) <= Len(site'.base)
        BY <1>1, <3>2
      <3> QED  BY <1>3, <2>2, <3>2, <3>3, HomebrewSettles
    <2>3. CASE request.to = "pulls"
      <3>1. site' = [site EXCEPT !.pr = "open", !.opened = site.opened + 1] /\ site.opened = 0
        BY <1>1, <1>3, <2>3 DEF Homebrew!Carried, HomebrewSite
      <3>2. site.opened + 1 \in 0..MaxCalls
        BY <1>1, <3>1 DEF CallerAssumption
      <3>3. /\ site' \in Homebrew!Site /\ site'.base = site.base /\ site'.update = site.update
            /\ site'.opened = site.opened + 1
        BY <1>1, <3>1, <3>2 DEF Homebrew!Site
      <3>4. Len(site.base) <= Len(site'.base)
        BY <1>1, <3>3
      <3> QED  BY <1>3, <2>3, <3>3, <3>4, HomebrewSettles
    <2> QED  BY <1>1, <2>1, <2>2, <2>3
  <1> QED  BY <1>2, <1>3 DEF Homebrew!TapActs, Homebrew!TapDenies

LEMMA HomebrewOthersStep ==
    ASSUME CallerAssumption, HomebrewInv,
           \/ \E content \in Homebrew!Contents : Homebrew!OthersCommit(content)
           \/ Homebrew!MergePullRequest \/ Homebrew!ClosePullRequest \/ Homebrew!OthersSubmit
           \/ Homebrew!DeleteBranch \/ Homebrew!OverwriteBranch
    PROVE  HomebrewStep
  <1>1. /\ site \in Homebrew!Site /\ Len(site.base) \in Nat /\ Len(site.base) <= MaxTips
        /\ site.update \in {"none", "other", "ours"}
    BY HomebrewSiteFacts DEF HomebrewInv, Homebrew!TypeOK
  <1>2. UNCHANGED <<caller, plan, at, seen, flying>>
    BY DEF Homebrew!OthersCommit, Homebrew!MergePullRequest, Homebrew!ClosePullRequest,
           Homebrew!OthersSubmit, Homebrew!DeleteBranch, Homebrew!OverwriteBranch, Homebrew!Others
  <1>3. CASE \E content \in Homebrew!Contents, pr \in {site.pr, "merged"} :
                 Len(site.base) < MaxTips /\ site' = [site EXCEPT !.base = Append(site.base, content), !.pr = pr]
    <2>1. PICK content \in Homebrew!Contents, pr \in {site.pr, "merged"} :
              Len(site.base) < MaxTips /\ site' = [site EXCEPT !.base = Append(site.base, content), !.pr = pr]
      BY <1>3
    <2>2. /\ Append(site.base, content) \in Homebrew!Bases
          /\ Len(Append(site.base, content)) = Len(site.base) + 1
          /\ \A i \in 1..Len(site.base) : Append(site.base, content)[i] = site.base[i]
      BY <2>1, HomebrewAppended
    <2>3. site'.base = Append(site.base, content) /\ site'.update = site.update /\ site'.opened = site.opened
      BY <1>1, <2>1 DEF Homebrew!Site
    <2>4. site' \in Homebrew!Site
      BY <1>1, <2>1, <2>2 DEF Homebrew!Site
    <2>5. Len(site.base) <= Len(site'.base) /\ \A i \in 1..Len(site.base) : site'.base[i] = site.base[i]
      BY <1>1, <2>2, <2>3
    <2> QED  BY <1>2, <2>3, <2>4, <2>5, HomebrewOthersDo
  <1>4. CASE \/ \E pr \in {"open", "closed"} : site' = [site EXCEPT !.pr = pr]
             \/ \E update \in {"none", "other"} : site.update # "none" /\ site' = [site EXCEPT !.update = update]
    <2>1. /\ site' \in Homebrew!Site /\ site'.base = site.base /\ site'.opened = site.opened
          /\ site.update = "none" => site'.update = "none"
          /\ site.update # "ours" => site'.update # "ours"
      BY <1>1, <1>4 DEF Homebrew!Site, Homebrew!Contents
    <2>2. Len(site.base) <= Len(site'.base)
      BY <1>1, <2>1
    <2> QED  BY <1>2, <2>1, <2>2, HomebrewOthersDo
  <1>5. CASE \E content \in Homebrew!Contents : Homebrew!OthersCommit(content)
    <2>1. PICK content \in Homebrew!Contents :
              Len(site.base) < MaxTips /\ site' = [site EXCEPT !.base = Append(site.base, content)]
      BY <1>5 DEF Homebrew!OthersCommit, Homebrew!Others, Homebrew!Tip
    <2>2. site' = [site EXCEPT !.base = Append(site.base, content), !.pr = site.pr]
      BY <1>1, <2>1 DEF Homebrew!Site
    <2> QED  BY <1>3, <2>1, <2>2
  <1>6. CASE Homebrew!MergePullRequest
    <2>1. /\ Len(site.base) < MaxTips /\ site.update \in Homebrew!Contents
          /\ site' = [site EXCEPT !.base = Append(site.base, site.update), !.pr = "merged"]
      BY <1>1, <1>6, HomebrewSiteAssumption
      DEF Homebrew!MergePullRequest, Homebrew!Others, Homebrew!Tip, Homebrew!Contents
    <2> QED  BY <1>3, <2>1
  <1>7. CASE Homebrew!ClosePullRequest \/ Homebrew!OthersSubmit \/ Homebrew!DeleteBranch \/ Homebrew!OverwriteBranch
    BY <1>4, <1>7
    DEF Homebrew!ClosePullRequest, Homebrew!OthersSubmit, Homebrew!DeleteBranch, Homebrew!OverwriteBranch,
        Homebrew!Others, Homebrew!Exists
  <1> QED  BY <1>5, <1>6, <1>7

-----------------------------------------------------------------------------
(* Homebrew's first states, and the steps of the executor. *)

LEMMA HomebrewInitially == CallerAssumption /\ Homebrew!Init => HomebrewInv
  <1> SUFFICES ASSUME CallerAssumption, Homebrew!Init PROVE HomebrewInv
    OBVIOUS
  <1>1. /\ caller = Unplanned /\ at = "idle" /\ seen = Homebrew!Blank /\ flying = {}
        /\ site \in [base : {<<>>, <<"other">>, <<"ours">>}, update : {"none", "other"},
                     pr : {"none"}, opened : {0}]
    BY HomebrewCaller DEF Homebrew!Init
  <1>2. Sound(caller, flying, HomebrewOpen)
    BY <1>1, UnplannedIsSound
  <1>3. caller.said = "nothing" /\ caller.call = "none" /\ caller.owed = "done" /\ caller.evidence = 0
    BY <1>1 DEF Unplanned
  <1>4. site.base \in Seq(Homebrew!Contents) /\ Len(site.base) \in Nat /\ Len(site.base) <= 1
    <2>1. site.base \in {<<>>, <<"other">>, <<"ours">>}
      BY <1>1
    <2>2. CASE site.base = <<>>
      BY <2>2
    <2>3. CASE site.base = <<"other">>
      BY <2>3 DEF Homebrew!Contents
    <2>4. CASE site.base = <<"ours">>
      BY <2>4 DEF Homebrew!Contents
    <2> QED  BY <2>1, <2>2, <2>3, <2>4
  <1>5. site \in Homebrew!Site
    BY <1>1, <1>4, HomebrewSiteAssumption
    DEF Homebrew!Site, Homebrew!Bases, Homebrew!Contents, CallerAssumption
  <1>6. Homebrew!TypeOK
    BY <1>1, <1>2, <1>3, <1>4, <1>5, HomebrewCaller
    DEF Homebrew!TypeOK, Sound, Homebrew!Blank, Homebrew!Places, Homebrew!Idle, Homebrew!Tip
  <1>7. HomebrewSeen
    BY <1>1 DEF HomebrewSeen, HomebrewPushing, Homebrew!Blank
  <1>8. HomebrewCommits /\ HomebrewBranch /\ HomebrewSite /\ Homebrew!PublishedIsTrue
    BY <1>1, <1>3 DEF HomebrewCommits, HomebrewBranch, HomebrewSite, Homebrew!PublishedIsTrue
  <1> QED  BY <1>2, <1>6, <1>7, <1>8 DEF HomebrewInv

LEMMA HomebrewPlanStep ==
    ASSUME CallerAssumption, HomebrewInv, Homebrew!Plan
    PROVE  HomebrewStep
  <1> DEFINE accepted == Homebrew!Plannable(plan)
  <1>1. Planned(accepted) /\ accepted \in BOOLEAN /\ UNCHANGED <<at, seen, site, flying>>
    BY HomebrewCaller DEF Homebrew!Plan, Planned, Homebrew!Plannable
  <1>2. /\ Sound(caller', flying, HomebrewOpen') /\ flying = {} /\ caller.call = "none"
        /\ caller.said = "nothing" /\ caller'.call = "none" /\ caller'.evidence = caller.evidence
        /\ caller'.said = IF accepted THEN "planned" ELSE "misconfigured"
    <2> HIDE DEF accepted
    <2> QED  BY <1>1, PlannedKeeps DEF HomebrewInv
  <1> HIDE DEF accepted
  <1>3. at = "idle" /\ site.opened = 0
    <2>1. at = "idle" /\ caller.owed = "done"
      BY <1>2 DEF HomebrewInv, Homebrew!TypeOK, Homebrew!Idle, Sound
    <2>2. site.opened = 0
      BY <1>2 DEF HomebrewInv, HomebrewSite
    <2> QED  BY <2>1, <2>2
  <1>4. Homebrew!TypeOK'
    BY <1>1, <1>2, <1>3, HomebrewCaller
    DEF Sound, HomebrewInv, Homebrew!TypeOK, Homebrew!Idle, Homebrew!Tip
  <1>5. HomebrewSeen' /\ HomebrewCommits' /\ HomebrewBranch'
    BY <1>1, <1>2, <1>3 DEF HomebrewInv, HomebrewSeen, HomebrewPushing, HomebrewCommits, HomebrewBranch
  <1>6. HomebrewSite'
    BY <1>1, <1>2, <1>3 DEF HomebrewInv, HomebrewSite
  <1>7. /\ Homebrew!PublishedIsTrue' /\ Homebrew!RejectionStands
        /\ Homebrew!ReconcileObserves /\ Homebrew!FailureIsOver
    BY <1>1, <1>2
    DEF Homebrew!PublishedIsTrue, Homebrew!RejectionStands, Homebrew!ReconcileObserves,
        Homebrew!FailureIsOver
  <1> QED
    BY <1>1, <1>2, <1>4, <1>5, <1>6, <1>7 DEF HomebrewStep, HomebrewInv

LEMMA HomebrewBeginStep ==
    ASSUME CallerAssumption, HomebrewInv, NEW kind \in {"apply", "reconcile"}, Homebrew!Begin(kind)
    PROVE  HomebrewStep
  <1>1. /\ Call(kind) /\ at' = "payload" /\ seen' = Homebrew!Blank /\ UNCHANGED <<plan, site, flying>>
    BY HomebrewCaller DEF Homebrew!Begin
  <1>2. caller.call = "none" /\ at = "idle" /\ ~HomebrewOpen
    BY <1>1 DEF Call, HomebrewInv, Homebrew!TypeOK, Homebrew!Idle, HomebrewOpen
  <1>3. /\ Sound(caller', flying, HomebrewOpen')
        /\ caller'.call = kind /\ caller'.said = caller.said /\ caller'.owed = caller.owed
        /\ caller'.evidence = caller.evidence /\ caller.said # "nothing"
    BY <1>1, <1>2, CallKeeps DEF HomebrewInv
  <1>4. Homebrew!TypeOK'
    BY <1>1, <1>3, HomebrewCaller
    DEF Sound, HomebrewInv, Homebrew!TypeOK, Homebrew!Idle, Homebrew!Places, Homebrew!Blank, Homebrew!Tip
  <1>5. HomebrewSeen' /\ HomebrewCommits' /\ HomebrewBranch'
    BY <1>1 DEF HomebrewSeen, HomebrewPushing, HomebrewCommits, HomebrewBranch, Homebrew!Blank
  <1>6. HomebrewSite'
    BY <1>1, <1>2, <1>3 DEF HomebrewInv, HomebrewSite, HomebrewSubmitted, HomebrewSeen
  <1>7. /\ Homebrew!PublishedIsTrue' /\ Homebrew!RejectionStands
        /\ Homebrew!ReconcileObserves /\ Homebrew!FailureIsOver
    BY <1>1, <1>2, <1>3
    DEF HomebrewInv, Homebrew!PublishedIsTrue, Homebrew!RejectionStands, Homebrew!ReconcileObserves,
        Homebrew!FailureIsOver,
        Homebrew!Idle, Homebrew!Tip
  <1> QED
    BY <1>1, <1>3, <1>4, <1>5, <1>6, <1>7 DEF HomebrewStep, HomebrewInv

LEMMA HomebrewKilledStep ==
    ASSUME CallerAssumption, HomebrewInv, Homebrew!Killed
    PROVE  HomebrewStep
  <1>1. PICK journaled \in BOOLEAN : Kill(journaled)
    BY HomebrewCaller DEF Homebrew!Killed
  <1>2. at' = "idle" /\ seen' = Homebrew!Blank /\ UNCHANGED <<plan, site, flying>>
    BY DEF Homebrew!Killed
  <1>3. /\ Sound(caller', flying, HomebrewOpen')
        /\ caller'.call = "none" /\ caller'.said = "AMBIGUOUS" /\ caller'.owed = "reconcile"
        /\ caller'.evidence \in {0, caller.evidence}
    BY <1>1, KillKeeps DEF HomebrewInv
  <1>4. Homebrew!TypeOK'
    BY <1>2, <1>3, HomebrewCaller, HomebrewSiteFacts
    DEF Sound, HomebrewInv, Homebrew!TypeOK, Homebrew!Idle, Homebrew!Places, Homebrew!Blank, Homebrew!Tip
  <1>5. HomebrewSeen' /\ HomebrewCommits' /\ HomebrewBranch'
    BY <1>2 DEF HomebrewSeen, HomebrewPushing, HomebrewCommits, HomebrewBranch, Homebrew!Blank
  <1>6. HomebrewSite'
    BY <1>2, <1>3 DEF HomebrewInv, HomebrewSite
  <1>7. /\ Homebrew!PublishedIsTrue' /\ Homebrew!RejectionStands
        /\ Homebrew!ReconcileObserves /\ Homebrew!FailureIsOver
    BY <1>2, <1>3
    DEF Homebrew!PublishedIsTrue, Homebrew!RejectionStands, Homebrew!ReconcileObserves,
        Homebrew!FailureIsOver
  <1> QED
    BY <1>2, <1>3, <1>4, <1>5, <1>6, <1>7 DEF HomebrewStep, HomebrewInv

LEMMA HomebrewStutters ==
    ASSUME HomebrewInv, UNCHANGED <<caller, plan, at, seen, site, flying>>
    PROVE  HomebrewStep
  <1>1. Homebrew!TypeOK' /\ Sound(caller, flying, HomebrewOpen)'
    BY DEF HomebrewInv, Homebrew!TypeOK, Homebrew!Idle, Homebrew!Tip, HomebrewOpen
  <1>2. HomebrewSeen' /\ HomebrewCommits' /\ HomebrewBranch' /\ HomebrewSite'
    BY DEF HomebrewInv, HomebrewSeen, HomebrewPushing, HomebrewCommits, HomebrewOn, HomebrewBranch,
           HomebrewSite, HomebrewSubmitted
  <1>3. Homebrew!PublishedIsTrue'
    BY DEF HomebrewInv, Homebrew!PublishedIsTrue, Homebrew!Tip
  <1> QED
    BY <1>1, <1>2, <1>3
    DEF HomebrewInv, HomebrewStep, Homebrew!RejectionStands, Homebrew!ReconcileObserves,
        Homebrew!FailureIsOver, Homebrew!Idle

LEMMA HomebrewSteps ==
    ASSUME CallerAssumption, HomebrewInv, Homebrew!Next \/ UNCHANGED <<caller, plan, at, seen, site, flying>>
    PROVE  HomebrewStep
  <1>1. CASE UNCHANGED <<caller, plan, at, seen, site, flying>>
    BY <1>1, HomebrewStutters
  <1>2. CASE Homebrew!Next
    BY <1>2, HomebrewPlanStep, HomebrewBeginStep, HomebrewKilledStep, HomebrewReadPayloadStep,
       HomebrewListRemoteStep, HomebrewCloneToObserveStep, HomebrewObserveFailsStep, HomebrewDecideStep,
       HomebrewCommitAndPushStep, HomebrewWorkspaceFailsStep, HomebrewPushReturnsStep, HomebrewLookupStep,
       HomebrewLookupFailsStep, HomebrewSubmitStep, HomebrewSubmitReturnsStep, HomebrewTapStep,
       HomebrewOthersStep
    DEF Homebrew!Next
  <1> QED  BY <1>1, <1>2

(* What the invariant says of the properties.                              *)
LEMMA HomebrewProperties ==
    ASSUME HomebrewInv
    PROVE  /\ Homebrew!TypeOK /\ Homebrew!PublishedIsTrue /\ Homebrew!RepeatsAreSafe /\ Homebrew!SubmittedOnce
  <1>1. Homebrew!RepeatsAreSafe
    BY DEF HomebrewInv, Homebrew!TypeOK, Homebrew!RepeatsAreSafe, Homebrew!Idle, Sound, HomebrewOpen
  <1>2. Homebrew!SubmittedOnce
    BY DEF HomebrewInv, Homebrew!SubmittedOnce, HomebrewSite
  <1> QED  BY <1>1, <1>2 DEF HomebrewInv

-----------------------------------------------------------------------------
(* WinGet. *)

\* A commit of a base branch had all planned manifests, as planned.
WingetOn(base) == \E i \in 1..Len(base) : base[i] = Winget!AllSame

\* The call under way has sent a request and does not know what became of it.
WingetOpen ==
    \/ at \in {"push", "submit"} /\ seen.outcome = "unknown"
    \/ at \in {"ls", "clone", "observed"} /\ seen.pushed /\ seen.outcome = "unknown"

\* It has asked for a pull request.
WingetSubmitted == seen.refused \/ (at = "submit" /\ seen.outcome # "unsent")

\* It is about to push, pushes, or looks what became of its push.
WingetPushing == at \in {"workspace", "push"} \/ (seen.pushed /\ at \in {"ls", "clone", "observed"})

WingetObserved ==
    [commit : Nat, pull : Nat, exists : BOOLEAN, exact : BOOLEAN, pushed : BOOLEAN, refused : BOOLEAN,
     outcome : {"unsent", "unknown", "landed", "refused", "denied"}]

\* What it knows at its place.
WingetSeen ==
    /\ seen \in WingetObserved
    /\ seen.exact => seen.exists
    /\ at \in {"workspace", "push", "submit"} \/ seen.pushed \/ seen.refused => caller.call = "apply"
    /\ at = "payload" => seen = Winget!Blank
    /\ seen.refused => at = "lookup"
    /\ at = "files" => seen.commit > 0
    /\ at = "checks" => seen.pull > 0
    /\ at \in {"resolve", "files", "prior", "workspace", "push"} => ~seen.pushed
    /\ at \in {"payload", "resolve", "files", "ls", "clone", "observed", "workspace"}
       /\ ~seen.pushed /\ caller.call = "apply" => seen.outcome = "unknown"
    /\ WingetPushing => \A r \in flying : r.to = "update"

\* What it knows of the fork's update branch.
WingetBranch ==
    /\ at = "observed" =>
          /\ seen.exists => \A r \in flying : r.to # "update"
          /\ seen.exists /\ ~seen.exact => site.update # "exact"
          /\ ~seen.exists /\ ~seen.pushed /\ caller.call = "apply" => site.update = "none"
    /\ at = "workspace" => site.update = "none"

\* The update branch exists only when no push to it is outstanding, and one pull request is asked for.
WingetSite ==
    /\ site \in [base : Seq(Trees), update : {"none", "exact", "other"},
                 pulls : Seq({"open", "closed", "merged"}), submitted : {0, 1}, synced : BOOLEAN]
    /\ Len(site.base) > 0
    /\ \A r \in flying : /\ r.to = "update" => site.update = "none"
                         /\ r.to = "pulls" => site.submitted = 0
    /\ caller.said = "nothing" => site.submitted = 0
    /\ caller.owed = "apply" => site.submitted = 0 \/ (at = "submit" /\ seen.outcome = "landed")
    /\ caller.owed = "apply" /\ ~WingetSubmitted => \A r \in flying : r.to # "pulls"

WingetInv ==
    /\ Winget!TypeOK /\ Sound(caller, flying, WingetOpen)
    /\ WingetSeen /\ WingetBranch /\ WingetSite
    /\ Winget!PublishedIsTrue

\* What a step keeps, and what it does not do.
WingetStep ==
    WingetInv' /\ Winget!RejectionStands /\ Winget!ReconcileObserves /\ Winget!FailureIsOver

LEMMA WingetCaller ==
    /\ Winget!Answers = Answers /\ Winget!Caller = Caller /\ Winget!Unplanned = Unplanned
    /\ \A answer, evidence : Winget!AnswerWith(answer, evidence) <=> AnswerWith(answer, evidence)
    /\ \A kind : Winget!Call(kind) <=> Call(kind)
    /\ \A journaled : Winget!Kill(journaled) <=> Kill(journaled)
    /\ \A accepted : Winget!Planned(accepted) <=> Planned(accepted)
  <1>1. Winget!Answers = Answers
    BY DEF Winget!Answers, Answers, Winget!Results, Results, Winget!Errors, Errors
  <1>2. Winget!Caller = Caller
    BY <1>1 DEF Winget!Caller, Caller
  <1>3. \A answer, evidence : Winget!AnswerWith(answer, evidence) <=> AnswerWith(answer, evidence)
    BY DEF Winget!AnswerWith, AnswerWith, Winget!AfterApply, AfterApply,
           Winget!AfterReconcile, AfterReconcile
  <1> QED
    BY <1>1, <1>2, <1>3 DEF Winget!Unplanned, Unplanned, Winget!Call, Call, Winget!Kill, Kill,
                            Winget!Planned, Planned

LEMMA WingetSiteAssumption ==
    /\ MaxMerges \in Nat /\ MaxMerges > 0 /\ Winget!AllSame \in Trees
    /\ Trees \subseteq [DOMAIN Winget!AllSame -> {"same", "different", "none"}]
  BY SiteAssumption

(* Commits are only added, so what was published stays so.                 *)
LEMMA WingetGrows ==
    ASSUME NEW base \in Seq(Trees), NEW longer \in Seq(Trees),
           Len(base) <= Len(longer), \A i \in 1..Len(base) : longer[i] = base[i], WingetOn(base)
    PROVE  WingetOn(longer)
  <1>1. PICK i \in 1..Len(base) : base[i] = Winget!AllSame
    BY DEF WingetOn
  <1>2. i \in 1..Len(longer)
    BY <1>1
  <1> QED  BY <1>1, <1>2 DEF WingetOn

(* A commit whose planned files are all there is one that holds the plan.  *)
LEMMA WingetExact ==
    ASSUME NEW tree \in Trees, Winget!ObserveDestination(tree) = "exact"
    PROVE  tree = Winget!AllSame
  <1> DEFINE files == DOMAIN Winget!AllSame
  <1>1. tree \in [files -> {"same", "different", "none"}]
    BY WingetSiteAssumption
  <1>2. \A file \in DOMAIN tree : tree[file] = "same"
    BY DEF Winget!ObserveDestination
  <1>3. Winget!AllSame = [file \in files |-> "same"]
    BY DEF Winget!AllSame
  <1> HIDE DEF files
  <1> QED  BY <1>1, <1>2, <1>3

LEMMA WingetSiteFacts ==
    ASSUME WingetInv
    PROVE  /\ site.base \in Seq(Trees) /\ Len(site.base) \in Nat /\ Len(site.base) <= MaxMerges
           /\ Len(site.base) > 0 /\ Len(site.pulls) \in Nat /\ Len(site.pulls) <= MaxMerges
           /\ site.update \in {"none", "exact", "other"} /\ site.pulls \in Seq({"open", "closed", "merged"})
           /\ caller.evidence \in 0..Len(site.pulls) /\ seen.commit \in 0..Len(site.base)
           /\ seen.pull \in 0..Len(site.pulls) /\ 0 \in 0..Len(site.pulls)
  BY DEF WingetInv, WingetSite, Winget!TypeOK, Winget!Tip, Winget!LastPull

LEMMA WingetPublished ==
    Winget!PublishedIsTrue <=> (caller.said = "PUBLISHED" => WingetOn(site.base))
  BY DEF Winget!PublishedIsTrue, WingetOn, Winget!Tip

LEMMA WingetAnswers ==
    ASSUME CallerAssumption, WingetInv, at # "idle",
           NEW answer \in Answers, NEW pull \in 0..Len(site.pulls), Winget!Answer(answer, pull),
           UNCHANGED <<plan, site, flying>>,
           caller.call = "apply" /\ answer \in {"RETRYABLE", "PERMANENT"} => ~WingetOpen,
           answer = "RETRYABLE" => ~WingetSubmitted,
           answer = "PUBLISHED" => WingetOn(site.base),
           answer = "REJECTED" =>
               \A request \in flying : (request.to = "pulls" /\ Winget!Acceptable(request)) =>
                   \/ site.update = "other"
                   \/ \E i \in 1..Len(site.pulls) : site.pulls[i] # "open"
                   \/ \E i \in 1..Len(site.base) : Winget!ObserveDestination(site.base[i]) = "conflict"
    PROVE  WingetStep
  <1>1. /\ AnswerWith(answer, pull) /\ at' = "idle" /\ seen' = Winget!Blank
        /\ caller.call # "none" /\ Sound(caller, flying, WingetOpen) /\ pull \in Nat
    BY WingetCaller, WingetSiteFacts DEF Winget!Answer, WingetInv, Winget!TypeOK, Winget!Idle
  <1>2. /\ Sound(caller', flying, WingetOpen')
        /\ caller'.call = "none" /\ caller'.said = answer /\ caller'.evidence = pull
        /\ caller'.owed = "apply" => caller.call = "apply" /\ answer = "RETRYABLE"
        /\ caller'.owed = "done" /\ answer = "PERMANENT" => flying = {}
    <2>1. caller.call = "apply" /\ answer \in {"RETRYABLE", "PERMANENT"} => ~WingetOpen
      OBVIOUS
    <2>2. /\ Sound(caller, flying, WingetOpen) /\ AnswerWith(answer, pull)
          /\ caller.call # "none" /\ pull \in Nat
      BY <1>1
    <2>3. ASSUME NEW number \in Nat, AnswerWith(answer, number)
          PROVE  /\ Sound(caller', flying, WingetOpen')
                 /\ caller'.call = "none" /\ caller'.said = answer /\ caller'.evidence = number
                 /\ caller'.owed = "apply" => caller.call = "apply" /\ answer = "RETRYABLE"
                 /\ caller'.owed = "done" /\ answer = "PERMANENT" => flying = {}
      BY ONLY CallerAssumption, <2>1, <2>2, <2>3, answer \in Answers, AnswerKeeps, SMTT(30)
    <2> QED  BY <2>2, <2>3
  <1>3. Winget!TypeOK'
    BY <1>1, <1>2, WingetCaller, WingetSiteFacts
    DEF Sound, WingetInv, Winget!TypeOK, Winget!Idle, Winget!Places, Winget!Blank, Winget!Tip,
        Winget!LastPull
  <1>4. WingetSeen'
    BY <1>1 DEF WingetSeen, Winget!Blank, WingetPushing, WingetObserved
  <1>5. WingetBranch'
    BY <1>1 DEF WingetBranch
  <1>6. WingetSite'
    <2>1. caller'.owed = "apply" => caller.owed = "apply" /\ ~WingetSubmitted
      BY <1>1, <1>2 DEF Sound
    <2>2. caller'.said # "nothing"
      BY <1>2 DEF Answers, Results, Errors
    <2> QED  BY <2>1, <2>2 DEF WingetInv, WingetSite, WingetSubmitted
  <1>7. Winget!PublishedIsTrue'
    BY <1>2 DEF Winget!PublishedIsTrue, WingetOn, Winget!Tip
  <1>8. Winget!RejectionStands /\ Winget!ReconcileObserves
    BY <1>2 DEF Winget!RejectionStands, Winget!ReconcileObserves, Winget!Tip, Winget!LastPull
  <1>9. Winget!FailureIsOver
    <2>1. answer = "PERMANENT" /\ caller'.owed = "done" => caller.owed = "apply"
      <3>1. caller.call = "reconcile" => ~(answer = "PERMANENT" /\ caller'.owed = "done")
        BY <1>1 DEF AnswerWith, AfterReconcile, Sound, Caller
      <3> QED  BY <1>1, <3>1 DEF Sound, Caller
    <2>2. caller.owed = "apply" => site.submitted = 0 \/ (at = "submit" /\ seen.outcome = "landed")
      BY DEF WingetInv, WingetSite
    <2> QED  BY <1>2, <2>1, <2>2 DEF Winget!FailureIsOver
  <1> QED
    BY <1>2, <1>3, <1>4, <1>5, <1>6, <1>7, <1>8, <1>9 DEF WingetStep, WingetInv

(* A step within a call that nobody but the call sees.                     *)
LEMMA WingetGoes ==
    ASSUME CallerAssumption, WingetInv, at # "idle", NEW place \in Winget!Places \ {"idle"},
           Winget!Goto(place), UNCHANGED <<plan, site, flying>>,
           seen'.commit \in 0..Len(site.base), seen'.pull \in 0..Len(site.pulls),
           WingetSeen', WingetBranch',
           caller.call = "apply" /\ ~WingetOpen' => ~WingetOpen \/ flying = {},
           WingetSubmitted => WingetSubmitted', at = "submit" => seen.outcome # "landed"
    PROVE  WingetStep
  <1>1. at' = place /\ caller' = caller /\ caller.call # "none" /\ place # "idle"
    BY DEF Winget!Goto, WingetInv, Winget!TypeOK, Winget!Idle
  <1>2. Winget!TypeOK'
    BY <1>1 DEF WingetInv, Winget!TypeOK, Winget!Idle, Winget!Tip, Winget!LastPull
  <1>3. Sound(caller', flying', WingetOpen')
    <2>1. Sound(caller, flying, WingetOpen) /\ (caller.owed = "apply" => caller.call = "apply")
      BY <1>1 DEF WingetInv, Sound
    <2> QED  BY <1>1, <2>1, Passes
  <1>4. WingetSite'
    BY <1>1 DEF WingetInv, WingetSite
  <1>5. Winget!PublishedIsTrue'
    BY <1>1 DEF WingetInv, Winget!PublishedIsTrue, Winget!Tip
  <1>6. Winget!RejectionStands /\ Winget!ReconcileObserves /\ Winget!FailureIsOver
    BY <1>1 DEF Winget!RejectionStands, Winget!ReconcileObserves, Winget!FailureIsOver, Winget!Idle
  <1> QED
    BY <1>2, <1>3, <1>4, <1>5, <1>6 DEF WingetStep, WingetInv

(* A step that sends a request.                                            *)
LEMMA WingetSends ==
    ASSUME CallerAssumption, WingetInv, caller.call = "apply", ~WingetOpen,
           NEW place \in Winget!Places \ {"idle"}, Winget!Goto(place),
           NEW request \in Winget!Requests, request.call = caller.calls,
           flying' = flying \union {request}, UNCHANGED <<plan, site>>,
           seen'.commit = seen.commit, seen'.pull = seen.pull, WingetOpen',
           WingetSeen', WingetBranch', WingetSite'
    PROVE  WingetStep
  <1>1. at' = place /\ caller' = caller /\ place # "idle"
    BY DEF Winget!Goto
  <1>2. Sound(caller, flying, WingetOpen)
    BY DEF WingetInv
  <1>3. flying = {} /\ flying' = {request}
    <2>1. flying = {}
      BY <1>2, NothingSent
    <2> QED  BY <2>1
  <1>4. Sound(caller', flying', WingetOpen')
    <2>1. Sound(caller, {request}, WingetOpen')
      BY <1>2, SendKeeps
    <2> QED  BY <1>1, <1>3, <2>1
  <1>5. Winget!TypeOK'
    BY <1>1, <1>3 DEF WingetInv, Winget!TypeOK, Winget!Idle, Winget!Tip, Winget!LastPull
  <1>6. Winget!PublishedIsTrue'
    BY <1>1 DEF WingetInv, Winget!PublishedIsTrue, Winget!Tip
  <1>7. Winget!RejectionStands /\ Winget!ReconcileObserves /\ Winget!FailureIsOver
    BY <1>1
    DEF Winget!RejectionStands, Winget!ReconcileObserves, Winget!FailureIsOver, Winget!Idle, Winget!Calling
  <1> QED
    BY <1>4, <1>5, <1>6, <1>7 DEF WingetStep, WingetInv

(* A step of others: what is published stays, pull requests are not        *)
(* forgotten, and the update branch is not created.                        *)
LEMMA WingetOthersDo ==
    ASSUME CallerAssumption, WingetInv, UNCHANGED <<caller, plan, at, seen, flying>>,
           site' \in [base : Seq(Trees), update : {"none", "exact", "other"},
                      pulls : Seq({"open", "closed", "merged"}), submitted : {0, 1}, synced : BOOLEAN],
           Len(site.base) <= Len(site'.base), Len(site'.base) <= MaxMerges,
           \A i \in 1..Len(site.base) : site'.base[i] = site.base[i],
           Len(site.pulls) <= Len(site'.pulls), Len(site'.pulls) <= MaxMerges,
           site'.submitted = site.submitted,
           site.update = "none" => site'.update = "none",
           site.update # "exact" => site'.update # "exact"
    PROVE  WingetStep
  <1>1. /\ site.base \in Seq(Trees) /\ site'.base \in Seq(Trees) /\ Len(site.base) > 0
        /\ Len(site.base) \in Nat /\ Len(site'.base) \in Nat
        /\ Len(site.pulls) \in Nat /\ Len(site'.pulls) \in Nat
    BY WingetSiteFacts
  <1>2. WingetOn(site.base) => WingetOn(site'.base)
    BY <1>1, WingetGrows
  <1>3. Winget!TypeOK'
    <2>1. site'.submitted \in 0..MaxMerges
      BY DEF WingetInv, Winget!TypeOK
    <2>2. /\ seen.commit \in 0..Len(site'.base) /\ seen.pull \in 0..Len(site'.pulls)
          /\ caller.evidence \in 0..Len(site'.pulls)
      BY <1>1, WingetSiteFacts
    <2> QED
      BY <1>1, <2>1, <2>2
      DEF WingetInv, Winget!TypeOK, Winget!Idle, Winget!Tip, Winget!LastPull, Winget!Updates,
          Winget!PullStates
  <1>4. Sound(caller', flying', WingetOpen') /\ WingetSeen'
    BY DEF WingetInv, WingetOpen, WingetSeen, WingetPushing
  <1>5. WingetBranch'
    BY DEF WingetInv, WingetBranch
  <1>6. WingetSite'
    BY <1>1 DEF WingetInv, WingetSite, WingetSubmitted
  <1>7. Winget!PublishedIsTrue'
    <2>1. caller.said = "PUBLISHED" => WingetOn(site.base)
      BY WingetPublished DEF WingetInv
    <2>2. caller'.said = "PUBLISHED" => WingetOn(site'.base)
      BY <1>2, <2>1
    <2> QED  BY <2>2 DEF Winget!PublishedIsTrue, WingetOn, Winget!Tip
  <1>8. Winget!RejectionStands /\ Winget!ReconcileObserves /\ Winget!FailureIsOver
    BY DEF Winget!RejectionStands, Winget!ReconcileObserves, Winget!FailureIsOver, Winget!Idle
  <1> QED
    BY <1>3, <1>4, <1>5, <1>6, <1>7, <1>8 DEF WingetStep, WingetInv

-----------------------------------------------------------------------------
(* The steps of WinGet's calls. *)

LEMMA WingetReadPayloadStep ==
    ASSUME CallerAssumption, WingetInv, Winget!ReadPayload \/ Winget!NoToken
    PROVE  WingetStep
  <1>1. /\ at = "payload" /\ ~WingetOpen /\ ~WingetSubmitted /\ UNCHANGED <<plan, site, flying>>
        /\ seen = Winget!Blank /\ "PERMANENT" \in Answers
    BY DEF Winget!ReadPayload, Winget!NoToken, WingetOpen, WingetSubmitted, WingetInv, WingetSeen,
           Answers, Errors, Winget!Blank
  <1>2. CASE Winget!Answer("PERMANENT", 0)
    BY <1>1, <1>2, WingetAnswers, WingetSiteFacts
  <1>3. CASE Winget!Goto("resolve") /\ seen' = seen
    <2>1. at' = "resolve" /\ "resolve" \in Winget!Places \ {"idle"} /\ caller' = caller
      BY <1>3 DEF Winget!Goto, Winget!Places
    <2>2. WingetSeen'
      BY <1>1, <1>3, <2>1 DEF WingetInv, WingetSeen, WingetPushing, Winget!Blank
    <2>3. WingetBranch'
      BY <2>1 DEF WingetBranch
    <2> QED  BY <1>1, <1>3, <2>1, <2>2, <2>3, WingetGoes, WingetSiteFacts
  <1> QED  BY <1>2, <1>3 DEF Winget!ReadPayload, Winget!NoToken

LEMMA WingetResolveStep ==
    ASSUME CallerAssumption, WingetInv, Winget!ResolveDestinationCommit
    PROVE  WingetStep
  <1>1. /\ at = "resolve" /\ ~WingetOpen /\ ~WingetSubmitted /\ UNCHANGED <<plan, site, flying>>
        /\ WingetSeen /\ Winget!Goto("files") /\ seen' = [seen EXCEPT !.commit = Len(site.base)]
    BY DEF Winget!ResolveDestinationCommit, WingetOpen, WingetSubmitted, WingetInv, WingetSeen, Winget!Tip
  <1>2. at' = "files" /\ "files" \in Winget!Places \ {"idle"} /\ caller' = caller
    BY <1>1 DEF Winget!Goto, Winget!Places
  <1>3. /\ seen' \in WingetObserved /\ seen'.commit = Len(site.base) /\ seen'.pull = seen.pull
        /\ seen'.exists = seen.exists /\ seen'.exact = seen.exact /\ seen'.pushed = seen.pushed
        /\ seen'.refused = seen.refused /\ seen'.outcome = seen.outcome
    BY <1>1, WingetSiteFacts DEF WingetSeen, WingetObserved
  <1>4. WingetSeen'
    BY <1>1, <1>2, <1>3, WingetSiteFacts DEF WingetSeen, WingetPushing
  <1>5. WingetBranch' /\ seen'.commit \in 0..Len(site.base) /\ seen'.pull \in 0..Len(site.pulls)
    BY <1>2, <1>3, WingetSiteFacts DEF WingetBranch
  <1> QED  BY <1>1, <1>2, <1>4, <1>5, WingetGoes

(* The commit that was read holds the plan, other content, or not all of   *)
(* the files.                                                              *)
LEMMA WingetFilesStep ==
    ASSUME CallerAssumption, WingetInv, Winget!ReadDestinationFiles
    PROVE  WingetStep
  <1> DEFINE state == Winget!ObserveDestination(site.base[seen.commit])
  <1>1. /\ at = "files" /\ ~WingetOpen /\ ~WingetSubmitted /\ UNCHANGED <<plan, site, flying>>
        /\ WingetSeen /\ seen.commit \in 1..Len(site.base)
        /\ {"PUBLISHED", "REJECTED"} \subseteq Answers
    <2>1. at = "files" /\ UNCHANGED <<plan, site, flying>> /\ WingetSeen
      BY DEF Winget!ReadDestinationFiles, WingetInv
    <2>2. ~WingetOpen /\ ~WingetSubmitted /\ seen.commit > 0
      BY <2>1 DEF WingetOpen, WingetSubmitted, WingetSeen
    <2>3. seen.commit \in 1..Len(site.base)
      BY <2>2, WingetSiteFacts
    <2>4. {"PUBLISHED", "REJECTED"} \subseteq Answers
      BY DEF Answers, Results
    <2> QED  BY <2>1, <2>2, <2>3, <2>4
  <1>2. CASE state = "exact"
    <2>1. Winget!Answer("PUBLISHED", 0)
      BY <1>2 DEF Winget!ReadDestinationFiles
    <2>2. site.base[seen.commit] \in Trees
      BY <1>1, WingetSiteFacts
    <2>3. WingetOn(site.base)
      BY <1>1, <1>2, <2>2, WingetExact DEF WingetOn
    <2> QED  BY <1>1, <2>1, <2>3, WingetAnswers, WingetSiteFacts
  <1>3. CASE state = "conflict"
    <2>1. Winget!Answer("REJECTED", 0)
      BY <1>3 DEF Winget!ReadDestinationFiles
    <2> QED  BY <1>1, <1>3, <2>1, WingetAnswers, WingetSiteFacts
  <1>4. CASE state \notin {"exact", "conflict"}
    <2>1. PICK place \in {"ls", "prior"} : Winget!Goto(place) /\ (place = "ls" <=> caller.call = "apply")
      BY <1>4 DEF Winget!ReadDestinationFiles, Winget!Calling
    <2>2. seen' = seen
      BY <1>4 DEF Winget!ReadDestinationFiles
    <2>3. at' = place /\ place \in Winget!Places \ {"idle"} /\ caller' = caller
      BY <2>1 DEF Winget!Goto, Winget!Places
    <2>4. WingetSeen'
      BY <1>1, <2>1, <2>2, <2>3 DEF WingetSeen, WingetPushing
    <2>5. WingetBranch'
      BY <2>1, <2>3 DEF WingetBranch
    <2> QED  BY <1>1, <2>1, <2>2, <2>3, <2>4, <2>5, WingetGoes, WingetSiteFacts
  <1> QED  BY <1>2, <1>3, <1>4

LEMMA WingetReadFailsStep ==
    ASSUME CallerAssumption, WingetInv, NEW temporary \in BOOLEAN, Winget!ReadFails(temporary)
    PROVE  WingetStep
  <1> DEFINE answer == IF seen.refused THEN "PERMANENT" ELSE Winget!ClassifyGitHubStatus(temporary)
  <1>1. /\ at \in {"resolve", "files", "prior", "lookup", "checks"} /\ UNCHANGED <<plan, site, flying>>
        /\ ~WingetOpen /\ Winget!Answer(answer, 0)
    BY DEF Winget!ReadFails, WingetOpen
  <1>2. answer \in {"PERMANENT", "RETRYABLE"} /\ (answer = "RETRYABLE" => ~WingetSubmitted)
    BY <1>1 DEF Winget!ClassifyGitHubStatus, WingetSubmitted
  <1> HIDE DEF answer
  <1>3. answer \in Answers
    BY <1>2 DEF Answers, Errors
  <1> QED  BY <1>1, <1>2, <1>3, WingetAnswers, WingetSiteFacts

LEMMA WingetListRemoteStep ==
    ASSUME CallerAssumption, WingetInv, Winget!ListRemote
    PROVE  WingetStep
  <1>1. /\ at = "ls" /\ UNCHANGED <<plan, site, flying>> /\ ~WingetSubmitted /\ WingetSeen
        /\ seen' = [seen EXCEPT !.exists = FALSE, !.exact = FALSE]
    BY DEF Winget!ListRemote, WingetSubmitted, WingetInv, WingetSeen
  <1>2. PICK place \in {"observed", "clone"} : Winget!Goto(place) /\ (place = "observed" => site.update = "none")
    BY DEF Winget!ListRemote
  <1>3. at' = place /\ place \in Winget!Places \ {"idle"} /\ caller' = caller
    BY <1>2 DEF Winget!Goto, Winget!Places
  <1>4. /\ seen' \in WingetObserved /\ seen'.commit = seen.commit /\ seen'.pull = seen.pull
        /\ ~seen'.exists /\ ~seen'.exact /\ seen'.pushed = seen.pushed
        /\ seen'.refused = seen.refused /\ seen'.outcome = seen.outcome
    BY <1>1 DEF WingetSeen, WingetObserved
  <1>5. WingetSeen' /\ (WingetOpen' <=> WingetOpen)
    BY <1>1, <1>2, <1>3, <1>4 DEF WingetSeen, WingetPushing, WingetOpen
  <1>6. WingetBranch' /\ seen'.commit \in 0..Len(site.base) /\ seen'.pull \in 0..Len(site.pulls)
    BY <1>1, <1>2, <1>3, <1>4, WingetSiteFacts DEF WingetBranch
  <1> QED  BY <1>1, <1>2, <1>3, <1>5, <1>6, WingetGoes

LEMMA WingetCloneToObserveStep ==
    ASSUME CallerAssumption, WingetInv, Winget!CloneToObserve
    PROVE  WingetStep
  <1> DEFINE exact == site.update = "exact"
  <1>1. /\ at = "clone" /\ UNCHANGED <<plan, site, flying>> /\ ~WingetSubmitted /\ WingetSeen
        /\ Winget!Goto("observed") /\ site.update # "none" /\ WingetSite
        /\ seen' = [seen EXCEPT !.exists = TRUE, !.exact = exact]
    BY DEF Winget!CloneToObserve, WingetSubmitted, WingetInv, WingetSeen
  <1>2. exact \in BOOLEAN /\ (~exact => site.update # "exact")
    OBVIOUS
  <1> HIDE DEF exact
  <1>3. at' = "observed" /\ "observed" \in Winget!Places \ {"idle"} /\ caller' = caller
    BY <1>1 DEF Winget!Goto, Winget!Places
  <1>4. /\ seen' \in WingetObserved /\ seen'.commit = seen.commit /\ seen'.pull = seen.pull
        /\ seen'.exists /\ seen'.exact = exact /\ seen'.pushed = seen.pushed
        /\ seen'.refused = seen.refused /\ seen'.outcome = seen.outcome
    BY <1>1, <1>2 DEF WingetSeen, WingetObserved
  <1>5. WingetSeen' /\ (WingetOpen' <=> WingetOpen)
    BY <1>1, <1>3, <1>4 DEF WingetSeen, WingetPushing, WingetOpen
  <1>6. WingetBranch' /\ seen'.commit \in 0..Len(site.base) /\ seen'.pull \in 0..Len(site.pulls)
    BY <1>1, <1>2, <1>3, <1>4, WingetSiteFacts DEF WingetBranch, WingetSite
  <1> QED  BY <1>1, <1>3, <1>5, <1>6, WingetGoes

LEMMA WingetObserveFailsStep ==
    ASSUME CallerAssumption, WingetInv, NEW denied \in BOOLEAN, Winget!ObserveFails(denied)
    PROVE  WingetStep
  <1> DEFINE answer == IF seen.pushed THEN Winget!ClassifyGitPushError
                                      ELSE Winget!ClassifyGitReadError(denied)
  <1>1. /\ at \in {"ls", "clone"} /\ UNCHANGED <<plan, site, flying>> /\ ~WingetSubmitted
        /\ Winget!Answer(answer, 0)
    BY DEF Winget!ObserveFails, WingetSubmitted, WingetInv, WingetSeen
  <1>2. /\ answer \in {"RETRYABLE", "PERMANENT", "AMBIGUOUS"}
        /\ answer \in {"RETRYABLE", "PERMANENT"} => ~WingetOpen
    BY <1>1 DEF WingetOpen, Winget!ClassifyGitPushError, Winget!ClassifyGitReadError
  <1> HIDE DEF answer
  <1>3. answer \in Answers
    BY <1>2 DEF Answers, Errors
  <1> QED  BY <1>1, <1>2, <1>3, WingetAnswers, WingetSiteFacts

LEMMA WingetDecideStep ==
    ASSUME CallerAssumption, WingetInv, Winget!Decide
    PROVE  WingetStep
  <1>1. /\ at = "observed" /\ UNCHANGED <<plan, site, flying>> /\ ~WingetSubmitted /\ WingetSeen
        /\ WingetBranch /\ seen.exists \in BOOLEAN /\ seen.exact \in BOOLEAN /\ (seen.exact => seen.exists)
        /\ caller.call \in {"apply", "reconcile"}
        /\ {"REJECTED", "WAITING_EXTERNAL", "PERMANENT", "AMBIGUOUS"} \subseteq Answers
    BY WingetCaller
    DEF Winget!Decide, WingetSubmitted, WingetInv, WingetSeen, WingetObserved, Winget!TypeOK, Winget!Idle,
        Caller, Answers, Results, Errors
  <1>2. CASE seen.exists /\ ~seen.exact
    <2>1. Winget!Answer("REJECTED", 0)
      BY <1>1, <1>2 DEF Winget!Decide, Winget!Calling
    <2>2. ASSUME NEW request \in flying, request.to = "pulls", Winget!Acceptable(request)
          PROVE  site.update = "other"
      BY <1>1, <1>2, <2>2, WingetSiteFacts DEF Winget!Acceptable, WingetBranch
    <2> QED  BY <1>1, <2>1, <2>2, WingetAnswers, WingetSiteFacts
  <1>3. CASE (seen.exists => seen.exact) /\ caller.call = "reconcile"
    <2>1. Winget!Answer("WAITING_EXTERNAL", 0)
      BY <1>1, <1>3 DEF Winget!Decide, Winget!Calling
    <2> QED  BY <1>1, <2>1, WingetAnswers, WingetSiteFacts
  <1>4. CASE seen.exact /\ caller.call = "apply"
    <2>1. Winget!Goto("lookup") /\ seen' = seen
      BY <1>1, <1>4 DEF Winget!Decide, Winget!Calling
    <2>2. at' = "lookup" /\ "lookup" \in Winget!Places \ {"idle"} /\ caller' = caller
      BY <2>1 DEF Winget!Goto, Winget!Places
    <2>3. WingetOpen => flying = {}
      <3>1. WingetOpen => \A r \in flying : r.to = "update" /\ r.to # "update"
        BY <1>1, <1>4 DEF WingetOpen, WingetSeen, WingetPushing, WingetBranch
      <3> QED  BY <3>1
    <2>4. WingetSeen' /\ WingetBranch'
      BY <1>1, <2>1, <2>2 DEF WingetSeen, WingetPushing, WingetBranch
    <2> QED  BY <1>1, <2>1, <2>2, <2>3, <2>4, WingetGoes, WingetSiteFacts
  <1>5. CASE ~seen.exists /\ caller.call = "apply" /\ seen.pushed
    <2> DEFINE answer == Winget!ClassifyGitPushError
    <2>1. Winget!Answer(answer, 0)
      BY <1>1, <1>5 DEF Winget!Decide, Winget!Calling
    <2>2. answer \in {"PERMANENT", "AMBIGUOUS"} /\ (answer = "PERMANENT" => ~WingetOpen)
      BY DEF Winget!ClassifyGitPushError, WingetOpen
    <2> HIDE DEF answer
    <2>3. answer \in Answers
      BY <1>1, <2>2
    <2> QED  BY <1>1, <2>1, <2>2, <2>3, WingetAnswers, WingetSiteFacts
  <1>6. CASE ~seen.exists /\ caller.call = "apply" /\ ~seen.pushed
    <2>1. Winget!Goto("workspace") /\ seen' = seen
      BY <1>1, <1>6 DEF Winget!Decide, Winget!Calling
    <2>2. at' = "workspace" /\ "workspace" \in Winget!Places \ {"idle"} /\ caller' = caller
      BY <2>1 DEF Winget!Goto, Winget!Places
    <2>3. ~WingetOpen /\ flying = {}
      <3>1. Sound(caller, flying, WingetOpen) /\ ~WingetOpen
        BY <1>1, <1>6 DEF WingetInv, WingetOpen
      <3> QED  BY <1>6, <3>1, NothingSent
    <2>4. WingetSeen' /\ WingetBranch'
      BY <1>1, <1>6, <2>1, <2>2, <2>3 DEF WingetSeen, WingetPushing, WingetBranch
    <2> QED  BY <1>1, <2>1, <2>2, <2>3, <2>4, WingetGoes, WingetSiteFacts
  <1> QED  BY <1>1, <1>2, <1>3, <1>4, <1>5, <1>6

(* The manifests are pushed, unless there is nothing to commit.            *)
LEMMA WingetCommitAndPushStep ==
    ASSUME CallerAssumption, WingetInv, Winget!CommitAndPush
    PROVE  WingetStep
  <1>1. /\ at = "workspace" /\ plan' = plan /\ site' = site /\ seen' = seen
        /\ ~WingetSubmitted /\ ~WingetOpen /\ WingetSeen /\ caller.call = "apply" /\ WingetSite
        /\ ~seen.pushed /\ ~seen.refused /\ seen.outcome = "unknown" /\ site.update = "none"
    BY DEF Winget!CommitAndPush, WingetSubmitted, WingetOpen, WingetInv, WingetSeen, WingetBranch
  <1>2. flying = {} /\ caller.owed = "apply"
    <2>1. Sound(caller, flying, WingetOpen)
      BY DEF WingetInv
    <2> QED  BY <1>1, <2>1, NothingSent DEF Sound
  <1>3. CASE Winget!Goto("lookup") /\ flying' = flying
    <2>1. at' = "lookup" /\ "lookup" \in Winget!Places \ {"idle"} /\ caller' = caller
      BY <1>3 DEF Winget!Goto, Winget!Places
    <2>2. WingetSeen' /\ WingetBranch'
      BY <1>1, <2>1 DEF WingetSeen, WingetPushing, WingetBranch
    <2> QED  BY <1>1, <1>3, <2>1, <2>2, WingetGoes, WingetSiteFacts
  <1>4. CASE Winget!Goto("push") /\ flying' = flying \union {[to |-> "update", call |-> caller.calls]}
    <2> DEFINE request == [to |-> "update", call |-> caller.calls]
    <2>1. caller.calls \in Nat /\ caller.calls > 0 /\ caller.calls <= MaxCalls
      <3>1. Sound(caller, flying, WingetOpen) /\ caller.call # "none"
        BY <1>1 DEF WingetInv
      <3> QED  BY <3>1, CallsUnderWay
    <2>2. request \in Winget!Requests
      BY <2>1 DEF Winget!Requests, CallerAssumption
    <2>3. request.to = "update" /\ request.call = caller.calls /\ flying' = flying \union {request}
      BY <1>4
    <2> HIDE DEF request
    <2>4. at' = "push" /\ "push" \in Winget!Places \ {"idle"} /\ caller' = caller /\ flying' = {request}
      BY <1>2, <1>4, <2>3 DEF Winget!Goto, Winget!Places
    <2>5. WingetOpen' /\ ~WingetSubmitted'
      BY <1>1, <2>4 DEF WingetOpen, WingetSubmitted
    <2>6. WingetSeen' /\ WingetBranch'
      BY <1>1, <2>3, <2>4 DEF WingetSeen, WingetPushing, WingetBranch
    <2>7. WingetSite'
      BY <1>1, <1>2, <2>3, <2>4, <2>5 DEF WingetSite
    <2> QED  BY <1>1, <1>4, <2>2, <2>3, <2>4, <2>5, <2>6, <2>7, WingetSends
  <1> QED  BY <1>3, <1>4 DEF Winget!CommitAndPush

(* A push that failed, or a workspace that did, is followed by a look.     *)
LEMMA WingetPushFailedStep ==
    ASSUME CallerAssumption, WingetInv, at \in {"workspace", "push"},
           NEW outcome \in {"unknown", "denied"}, Winget!PushFailed(outcome),
           outcome = "denied" => ~WingetOpen, UNCHANGED <<plan, site, flying>>
    PROVE  WingetStep
  <1>1. /\ at' = "ls" /\ "ls" \in Winget!Places \ {"idle"} /\ caller' = caller
        /\ seen' = [seen EXCEPT !.pushed = TRUE, !.outcome = outcome] /\ Winget!Goto("ls")
    BY DEF Winget!PushFailed, Winget!Goto, Winget!Places
  <1>2. WingetSeen /\ WingetPushing /\ caller.call = "apply" /\ ~seen.refused
    BY DEF WingetInv, WingetSeen, WingetPushing
  <1>3. /\ seen' \in WingetObserved /\ seen'.commit = seen.commit /\ seen'.pull = seen.pull
        /\ seen'.exists = seen.exists /\ seen'.exact = seen.exact /\ seen'.pushed
        /\ ~seen'.refused /\ seen'.outcome = outcome
    BY <1>1, <1>2 DEF WingetSeen, WingetObserved
  <1>4. WingetSeen'
    BY <1>1, <1>2, <1>3 DEF WingetSeen, WingetPushing
  <1>5. WingetBranch' /\ seen'.commit \in 0..Len(site.base) /\ seen'.pull \in 0..Len(site.pulls)
    BY <1>1, <1>3, WingetSiteFacts DEF WingetBranch
  <1>6. (~WingetOpen' => ~WingetOpen) /\ ~WingetSubmitted
    BY <1>1, <1>2, <1>3 DEF WingetOpen, WingetSubmitted
  <1> QED  BY <1>1, <1>4, <1>5, <1>6, WingetGoes

LEMMA WingetWorkspaceFailsStep ==
    ASSUME CallerAssumption, WingetInv, NEW outcome \in {"unknown", "denied"},
           Winget!WorkspaceFails(outcome)
    PROVE  WingetStep
  <1>1. at = "workspace" /\ Winget!PushFailed(outcome) /\ UNCHANGED <<plan, site, flying>> /\ ~WingetOpen
    BY DEF Winget!WorkspaceFails, WingetOpen, WingetInv, WingetSeen
  <1> QED  BY <1>1, WingetPushFailedStep

LEMMA WingetPushReturnsStep ==
    ASSUME CallerAssumption, WingetInv, NEW success \in BOOLEAN, Winget!PushReturns(success)
    PROVE  WingetStep
  <1>1. /\ at = "push" /\ UNCHANGED <<plan, site, flying>> /\ WingetSeen /\ ~seen.pushed /\ ~seen.refused
        /\ ~WingetSubmitted
    BY DEF Winget!PushReturns, WingetInv, WingetSeen, WingetSubmitted
  <1>2. CASE success
    <2>1. Winget!Goto("lookup") /\ seen' = seen /\ seen.outcome = "landed"
      BY <1>2 DEF Winget!PushReturns
    <2>2. at' = "lookup" /\ "lookup" \in Winget!Places \ {"idle"} /\ caller' = caller /\ ~WingetOpen
      BY <1>1, <2>1 DEF Winget!Goto, Winget!Places, WingetOpen
    <2>3. WingetSeen' /\ WingetBranch'
      BY <1>1, <2>1, <2>2 DEF WingetSeen, WingetPushing, WingetBranch
    <2> QED  BY <1>1, <2>1, <2>2, <2>3, WingetGoes, WingetSiteFacts
  <1>3. CASE ~success
    <2> DEFINE outcome == IF seen.outcome = "denied" THEN "denied" ELSE "unknown"
    <2>1. Winget!PushFailed(outcome)
      BY <1>3 DEF Winget!PushReturns
    <2>2. outcome \in {"unknown", "denied"} /\ (outcome = "denied" => ~WingetOpen)
      BY <1>1 DEF WingetOpen
    <2> HIDE DEF outcome
    <2> QED  BY <1>1, <2>1, <2>2, WingetPushFailedStep
  <1> QED  BY <1>2, <1>3

(* A pull request is what it is whoever opened it.                         *)
LEMMA WingetObserveStep ==
    ASSUME CallerAssumption, WingetInv, at \in {"prior", "lookup"}, NEW pull \in 1..Len(site.pulls),
           Winget!Observe(pull), UNCHANGED <<plan, site, flying>>
    PROVE  WingetStep
  <1>1. /\ WingetSeen /\ ~WingetOpen /\ pull \in 0..Len(site.pulls) /\ pull \in Nat /\ pull > 0
        /\ site.pulls[pull] \in {"open", "closed", "merged"}
        /\ caller.call \in {"apply", "reconcile"} /\ {"REJECTED", "WAITING_EXTERNAL"} \subseteq Answers
    <2>1. WingetSeen /\ ~WingetOpen /\ caller.call \in {"apply", "reconcile"}
      BY WingetCaller DEF WingetInv, WingetOpen, Winget!TypeOK, Winget!Idle, Caller
    <2>2. {"REJECTED", "WAITING_EXTERNAL"} \subseteq Answers
      BY DEF Answers, Results
    <2> QED  BY <2>1, <2>2, WingetSiteFacts
  <1>2. CASE site.pulls[pull] = "closed"
    <2>1. Winget!Answer("REJECTED", pull)
      BY <1>1, <1>2 DEF Winget!Observe, Winget!Calling
    <2> QED  BY <1>1, <1>2, <2>1, WingetAnswers
  <1>3. CASE site.pulls[pull] = "merged" \/ (site.pulls[pull] = "open" /\ caller.call = "apply")
    <2>1. Winget!Answer("WAITING_EXTERNAL", pull)
      BY <1>1, <1>3 DEF Winget!Observe, Winget!Calling
    <2> QED  BY <1>1, <2>1, WingetAnswers
  <1>4. CASE site.pulls[pull] = "open" /\ caller.call = "reconcile"
    <2>1. Winget!Goto("checks") /\ seen' = [seen EXCEPT !.pull = pull]
      BY <1>1, <1>4 DEF Winget!Observe, Winget!Calling
    <2>2. at' = "checks" /\ "checks" \in Winget!Places \ {"idle"} /\ caller' = caller
      BY <2>1 DEF Winget!Goto, Winget!Places
    <2>3. /\ seen' \in WingetObserved /\ seen'.commit = seen.commit /\ seen'.pull = pull
          /\ seen'.exists = seen.exists /\ seen'.exact = seen.exact /\ seen'.pushed = seen.pushed
          /\ seen'.refused = seen.refused /\ seen'.outcome = seen.outcome
      BY <1>1, <2>1 DEF WingetSeen, WingetObserved
    <2>4. ~seen.refused /\ ~seen.pushed
      BY <1>1, <1>4 DEF WingetSeen
    <2>5. WingetSeen' /\ WingetBranch' /\ ~WingetSubmitted
      BY <1>1, <2>2, <2>3, <2>4 DEF WingetSeen, WingetPushing, WingetBranch, WingetSubmitted
    <2>6. seen'.commit \in 0..Len(site.base)
      BY <2>3, WingetSiteFacts
    <2> QED  BY <1>1, <2>1, <2>2, <2>3, <2>5, <2>6, WingetGoes
  <1> QED  BY <1>1, <1>2, <1>3, <1>4

LEMMA WingetLookupPriorStep ==
    ASSUME CallerAssumption, WingetInv, Winget!LookupPriorPullRequest
    PROVE  WingetStep
  <1>1. /\ at = "prior" /\ UNCHANGED <<plan, site, flying>> /\ WingetSeen /\ ~WingetOpen /\ ~WingetSubmitted
        /\ ~seen.pushed
    BY DEF Winget!LookupPriorPullRequest, WingetInv, WingetOpen, WingetSubmitted, WingetSeen
  <1>2. CASE caller.evidence # 0
    <2>1. caller.evidence \in 1..Len(site.pulls)
      BY <1>2, WingetSiteFacts
    <2>2. Winget!Observe(caller.evidence)
      BY <1>2 DEF Winget!LookupPriorPullRequest, Winget!PriorPullRequestNumber
    <2> QED  BY <1>1, <2>1, <2>2, WingetObserveStep
  <1>3. CASE caller.evidence = 0
    <2>1. Winget!Goto("lookup") /\ seen' = seen
      BY <1>3 DEF Winget!LookupPriorPullRequest, Winget!PriorPullRequestNumber
    <2>2. at' = "lookup" /\ "lookup" \in Winget!Places \ {"idle"} /\ caller' = caller
      BY <2>1 DEF Winget!Goto, Winget!Places
    <2>3. WingetSeen' /\ WingetBranch'
      BY <1>1, <2>1, <2>2 DEF WingetSeen, WingetPushing, WingetBranch
    <2> QED  BY <1>1, <2>1, <2>2, <2>3, WingetGoes, WingetSiteFacts
  <1> QED  BY <1>2, <1>3

LEMMA WingetLookupStep ==
    ASSUME CallerAssumption, WingetInv, Winget!LookupPullRequest
    PROVE  WingetStep
  <1>1. /\ at = "lookup" /\ UNCHANGED <<plan, site, flying>> /\ WingetSeen /\ ~WingetOpen
        /\ caller.call \in {"apply", "reconcile"} /\ Len(site.pulls) \in Nat
    BY WingetCaller, WingetSiteFacts
    DEF Winget!LookupPullRequest, WingetInv, WingetOpen, Winget!TypeOK, Winget!Idle, Caller
  <1>2. CASE Len(site.pulls) # 0
    <2>1. Winget!Observe(Len(site.pulls))
      BY <1>2 DEF Winget!LookupPullRequest, Winget!LastPull
    <2>2. Len(site.pulls) \in 1..Len(site.pulls)
      BY <1>1, <1>2
    <2> QED  BY <1>1, <2>1, <2>2, WingetObserveStep
  <1>3. CASE Len(site.pulls) = 0 /\ caller.call = "reconcile"
    <2>1. ~seen.refused /\ ~seen.pushed
      BY <1>1, <1>3 DEF WingetSeen
    <2>2. Winget!Goto("ls") /\ seen' = seen
      BY <1>3, <2>1 DEF Winget!LookupPullRequest, Winget!LastPull, Winget!Calling
    <2>3. at' = "ls" /\ "ls" \in Winget!Places \ {"idle"} /\ caller' = caller
      BY <2>2 DEF Winget!Goto, Winget!Places
    <2>4. WingetSeen' /\ WingetBranch' /\ ~WingetSubmitted
      BY <1>1, <1>3, <2>1, <2>2, <2>3 DEF WingetSeen, WingetPushing, WingetBranch, WingetSubmitted
    <2> QED  BY <1>1, <2>2, <2>3, <2>4, WingetGoes, WingetSiteFacts
  <1>4. CASE Len(site.pulls) = 0 /\ caller.call = "apply" /\ seen.refused
    <2>1. Winget!Answer("PERMANENT", 0) /\ "PERMANENT" \in Answers
      BY <1>4 DEF Winget!LookupPullRequest, Winget!LastPull, Winget!Calling, Answers, Errors
    <2> QED  BY <1>1, <2>1, WingetAnswers, WingetSiteFacts
  <1>5. CASE Len(site.pulls) = 0 /\ caller.call = "apply" /\ ~seen.refused
    <2>1. Winget!Goto("submit") /\ seen' = [seen EXCEPT !.outcome = "unsent"]
      BY <1>5 DEF Winget!LookupPullRequest, Winget!LastPull, Winget!Calling
    <2>2. at' = "submit" /\ "submit" \in Winget!Places \ {"idle"} /\ caller' = caller
      BY <2>1 DEF Winget!Goto, Winget!Places
    <2>3. /\ seen' \in WingetObserved /\ seen'.commit = seen.commit /\ seen'.pull = seen.pull
          /\ seen'.exists = seen.exists /\ seen'.exact = seen.exact /\ seen'.pushed = seen.pushed
          /\ ~seen'.refused /\ seen'.outcome = "unsent"
      BY <1>1, <1>5, <2>1 DEF WingetSeen, WingetObserved
    <2>4. WingetSeen' /\ WingetBranch' /\ ~WingetSubmitted
      BY <1>1, <1>5, <2>2, <2>3 DEF WingetSeen, WingetPushing, WingetBranch, WingetSubmitted
    <2>5. seen'.commit \in 0..Len(site.base) /\ seen'.pull \in 0..Len(site.pulls)
      BY <2>3, WingetSiteFacts
    <2> QED  BY <1>1, <2>1, <2>2, <2>4, <2>5, WingetGoes
  <1> QED  BY <1>1, <1>2, <1>3, <1>4, <1>5

LEMMA WingetValidationStep ==
    ASSUME CallerAssumption, WingetInv, NEW checks, Winget!LookupValidation(checks)
    PROVE  WingetStep
  <1> DEFINE answer == IF Winget!Validation(checks) = "failed" THEN "REJECTED" ELSE "WAITING_EXTERNAL"
  <1>1. /\ at = "checks" /\ UNCHANGED <<plan, site, flying>> /\ ~WingetOpen /\ ~WingetSubmitted
        /\ Winget!Answer(answer, seen.pull) /\ seen.pull > 0
    BY DEF Winget!LookupValidation, WingetInv, WingetOpen, WingetSubmitted, WingetSeen
  <1>2. answer \in {"REJECTED", "WAITING_EXTERNAL"}
    OBVIOUS
  <1> HIDE DEF answer
  <1>3. answer \in Answers
    BY <1>2 DEF Answers, Results
  <1>4. ASSUME NEW request \in flying, request.to = "pulls", Winget!Acceptable(request)
        PROVE  \E i \in 1..Len(site.pulls) : site.pulls[i] # "open"
    <2>1. Len(site.pulls) \in 1..Len(site.pulls) /\ Len(site.pulls) # 0
      BY <1>1, WingetSiteFacts
    <2>2. site.pulls[Len(site.pulls)] # "open"
      BY <1>4, <2>1 DEF Winget!Acceptable, Winget!HasOpenPull, Winget!LastPull
    <2> QED  BY <2>1, <2>2
  <1> QED  BY <1>1, <1>2, <1>3, <1>4, WingetAnswers, WingetSiteFacts

LEMMA WingetSubmitStep ==
    ASSUME CallerAssumption, WingetInv, Winget!SubmitPullRequest
    PROVE  WingetStep
  <1> DEFINE request == [to |-> "pulls", call |-> caller.calls]
  <1>1. /\ at = "submit" /\ seen.outcome = "unsent" /\ ~WingetOpen /\ ~WingetSubmitted
        /\ WingetSeen /\ caller.call = "apply" /\ UNCHANGED <<plan, site>> /\ ~seen.refused
        /\ Winget!Goto("submit") /\ seen' = [seen EXCEPT !.outcome = "unknown"]
        /\ flying' = flying \union {request}
    BY DEF Winget!SubmitPullRequest, WingetOpen, WingetSubmitted, WingetInv, WingetSeen
  <1>2. caller.calls \in Nat /\ caller.calls > 0 /\ caller.calls <= MaxCalls /\ caller.owed = "apply" /\ flying = {}
    <2>1. Sound(caller, flying, WingetOpen) /\ caller.call # "none"
      BY <1>1 DEF WingetInv
    <2>2. flying = {} /\ caller.owed = "apply"
      BY <1>1, <2>1, NothingSent DEF Sound
    <2> QED  BY <2>1, <2>2, CallsUnderWay
  <1>3. request \in Winget!Requests
    BY <1>2 DEF Winget!Requests, CallerAssumption
  <1>4. request.to = "pulls" /\ request.call = caller.calls
    OBVIOUS
  <1> HIDE DEF request
  <1>5. at' = "submit" /\ "submit" \in Winget!Places \ {"idle"} /\ caller' = caller /\ flying' = {request}
    BY <1>1, <1>2 DEF Winget!Goto, Winget!Places
  <1>6. /\ seen' \in WingetObserved /\ seen'.commit = seen.commit /\ seen'.pull = seen.pull
        /\ seen'.exists = seen.exists /\ seen'.exact = seen.exact /\ seen'.pushed = seen.pushed
        /\ ~seen'.refused /\ seen'.outcome = "unknown"
    BY <1>1 DEF WingetSeen, WingetObserved
  <1>7. WingetOpen' /\ WingetSubmitted' /\ WingetSeen' /\ WingetBranch'
    BY <1>1, <1>5, <1>6 DEF WingetOpen, WingetSubmitted, WingetSeen, WingetPushing, WingetBranch
  <1>8. WingetSite'
    BY <1>1, <1>2, <1>4, <1>5, <1>7 DEF WingetInv, WingetSite
  <1> QED  BY <1>1, <1>3, <1>4, <1>5, <1>6, <1>7, <1>8, WingetSends

LEMMA WingetSubmitReturnsStep ==
    ASSUME CallerAssumption, WingetInv,
           NEW response \in {"created", "malformed", "refused", "denied", "unknown"},
           Winget!SubmitReturns(response)
    PROVE  WingetStep
  <1>1. /\ at = "submit" /\ UNCHANGED <<plan, site, flying>> /\ WingetSeen /\ caller.call = "apply"
        /\ {"WAITING_EXTERNAL", "PERMANENT", "AMBIGUOUS"} \subseteq Answers
        /\ Len(site.pulls) \in 0..Len(site.pulls) /\ 0 \in 0..Len(site.pulls)
    BY WingetSiteFacts DEF Winget!SubmitReturns, WingetInv, WingetSeen, Answers, Results, Errors
  <1>2. CASE response = "refused"
    <2>1. seen.outcome = "refused" /\ Winget!Goto("lookup") /\ seen' = [seen EXCEPT !.refused = TRUE]
      BY <1>2 DEF Winget!SubmitReturns
    <2>2. at' = "lookup" /\ "lookup" \in Winget!Places \ {"idle"} /\ caller' = caller /\ ~WingetOpen
      BY <1>1, <2>1 DEF Winget!Goto, Winget!Places, WingetOpen
    <2>3. /\ seen' \in WingetObserved /\ seen'.commit = seen.commit /\ seen'.pull = seen.pull
          /\ seen'.exists = seen.exists /\ seen'.exact = seen.exact /\ seen'.pushed = seen.pushed
          /\ seen'.refused /\ seen'.outcome = seen.outcome
      BY <1>1, <2>1 DEF WingetSeen, WingetObserved
    <2>4. WingetSeen' /\ WingetBranch' /\ WingetSubmitted'
      BY <1>1, <2>2, <2>3 DEF WingetSeen, WingetPushing, WingetBranch, WingetSubmitted
    <2>5. seen'.commit \in 0..Len(site.base) /\ seen'.pull \in 0..Len(site.pulls)
      BY <2>3, WingetSiteFacts
    <2> QED  BY <1>1, <2>1, <2>2, <2>4, <2>5, WingetGoes
  <1>3. CASE response = "created"
    <2>1. Winget!Answer("WAITING_EXTERNAL", Len(site.pulls))
      BY <1>3 DEF Winget!SubmitReturns, Winget!LastPull
    <2> QED  BY <1>1, <2>1, WingetAnswers
  <1>4. CASE response \in {"malformed", "denied"}
    <2>1. Winget!Answer("PERMANENT", 0) /\ seen.outcome \in {"landed", "denied"}
      BY <1>4 DEF Winget!SubmitReturns
    <2>2. ~WingetOpen
      BY <1>1, <2>1 DEF WingetOpen
    <2> QED  BY <1>1, <2>1, <2>2, WingetAnswers
  <1>5. CASE response = "unknown"
    <2>1. Winget!Answer("AMBIGUOUS", 0)
      BY <1>5 DEF Winget!SubmitReturns
    <2> QED  BY <1>1, <2>1, WingetAnswers
  <1> QED  BY <1>2, <1>3, <1>4, <1>5

-----------------------------------------------------------------------------
(* GitHub decides, and the others who write to the destination. *)

(* A request that is decided was the only one.  What GitHub makes of it    *)
(* is what the call under way, if it still is that, will learn.            *)
LEMMA WingetSettles ==
    ASSUME CallerAssumption, WingetInv, NEW request \in flying,
           NEW outcome \in {"landed", "refused", "denied"}, Winget!Settled(request, outcome),
           site' \in [base : Seq(Trees), update : {"none", "exact", "other"},
                      pulls : Seq({"open", "closed", "merged"}), submitted : {0, 1}, synced : BOOLEAN],
           site'.base = site.base, Len(site.pulls) <= Len(site'.pulls), Len(site'.pulls) <= MaxMerges,
           site'.update # site.update => request.to = "update",
           site'.submitted # site.submitted => request.to = "pulls" /\ outcome = "landed"
    PROVE  WingetStep
  <1>1. /\ flying' = flying \ {request} /\ UNCHANGED <<caller, plan, at>>
        /\ seen' = IF Winget!Awaited(request) THEN [seen EXCEPT !.outcome = outcome] ELSE seen
    BY DEF Winget!Settled
  <1>2. /\ flying = {request} /\ flying' = {} /\ Sound(caller', flying', WingetOpen')
        /\ caller.said # "nothing"
    <2>1. Sound(caller, flying \ {request}, WingetOpen') /\ flying = {request} /\ caller.said # "nothing"
      BY SettleKeeps DEF WingetInv
    <2> QED  BY <1>1, <2>1
  <1>3. WingetSeen /\ WingetBranch /\ WingetSite /\ Len(site.pulls) \in Nat /\ Len(site'.pulls) \in Nat
    BY WingetSiteFacts DEF WingetInv
  <1>4. /\ seen' \in WingetObserved /\ seen'.commit = seen.commit /\ seen'.pull = seen.pull
        /\ seen'.exists = seen.exists /\ seen'.exact = seen.exact /\ seen'.pushed = seen.pushed
        /\ seen'.refused = seen.refused
        /\ seen' = seen \/ (at \in {"push", "submit"} /\ seen'.outcome = outcome)
    <2>1. Winget!Awaited(request) => at \in {"push", "submit"}
      BY DEF Winget!Awaited
    <2> QED  BY <1>1, <1>3, <2>1 DEF WingetSeen, WingetObserved
  <1>5. Winget!TypeOK'
    <2>1. site'.submitted \in 0..MaxMerges
      BY WingetSiteAssumption
    <2>2. /\ seen'.commit \in 0..Len(site'.base) /\ seen'.pull \in 0..Len(site'.pulls)
          /\ caller.evidence \in 0..Len(site'.pulls) /\ Len(site'.base) <= MaxMerges
      BY <1>3, <1>4, WingetSiteFacts
    <2> QED
      BY <1>1, <1>2, <2>1, <2>2
      DEF WingetInv, Winget!TypeOK, Winget!Idle, Winget!Tip, Winget!LastPull, Winget!Updates,
          Winget!PullStates
  <1>6. WingetSeen'
    <2>1. seen' = seen => WingetSeen'
      BY <1>1, <1>2, <1>3 DEF WingetSeen, WingetPushing
    <2>2. at \in {"push", "submit"} => WingetSeen'
      BY <1>1, <1>2, <1>3, <1>4 DEF WingetSeen, WingetPushing
    <2> QED  BY <1>4, <2>1, <2>2
  <1>7. WingetBranch'
    <2>1. caller.call = "apply" => WingetOpen
      <3>1. Sound(caller, flying, WingetOpen)
        BY DEF WingetInv
      <3> QED  BY ONLY <1>2, <3>1, NothingSent
    <2>2. at = "observed" /\ ~seen.pushed => ~WingetOpen
      BY DEF WingetOpen
    <2>3. at = "workspace" => ~WingetOpen /\ caller.call = "apply"
      BY <1>3 DEF WingetOpen, WingetSeen
    <2>4. at = "observed" /\ seen.exists => request.to # "update"
      BY <1>3 DEF WingetBranch
    <2> QED  BY <1>1, <1>2, <1>3, <1>4, <2>1, <2>2, <2>3, <2>4 DEF WingetBranch
  <1>8. WingetSite'
    <2>2. ASSUME caller.owed = "apply"
          PROVE  site'.submitted = 0 \/ (at' = "submit" /\ seen'.outcome = "landed")
      <3>1. WingetOpen /\ request.call = caller.calls
        <4>1. Sound(caller, flying, WingetOpen)
          BY DEF WingetInv
        <4> QED  BY <1>2, <2>2, <4>1 DEF Sound
      <3>2. site.submitted = 0
        BY <1>3, <2>2, <3>1 DEF WingetSite, WingetOpen
      <3>3. CASE site'.submitted # site.submitted
        <4>1. request.to = "pulls" /\ outcome = "landed"
          BY <3>3
        <4>2. WingetSubmitted
          BY <1>3, <2>2, <4>1 DEF WingetSite
        <4>3. at = "submit"
          BY <1>3, <3>1, <4>2 DEF WingetSubmitted, WingetSeen, WingetOpen
        <4>4. Winget!Awaited(request)
          BY <3>1, <4>1, <4>3 DEF Winget!Awaited
        <4> QED  BY <1>1, <1>3, <4>1, <4>3, <4>4 DEF WingetSeen, WingetObserved
      <3> QED  BY <3>2, <3>3
    <2> QED  BY <1>1, <1>2, <1>3, <2>2 DEF WingetSite
  <1>9. Winget!PublishedIsTrue'
    BY <1>1 DEF WingetInv, Winget!PublishedIsTrue, Winget!Tip
  <1>10. Winget!RejectionStands /\ Winget!ReconcileObserves /\ Winget!FailureIsOver
    BY <1>1 DEF Winget!RejectionStands, Winget!ReconcileObserves, Winget!FailureIsOver, Winget!Idle
  <1> QED
    BY <1>2, <1>5, <1>6, <1>7, <1>8, <1>9, <1>10 DEF WingetStep, WingetInv

LEMMA WingetGitHubStep ==
    ASSUME CallerAssumption, WingetInv, NEW request \in flying,
           Winget!GitHubActs(request) \/ Winget!GitHubDenies(request)
    PROVE  WingetStep
  <1>1. /\ request.to \in {"update", "pulls"} /\ WingetSite
        /\ Len(site.pulls) \in Nat /\ Len(site.pulls) <= MaxMerges
        /\ site.pulls \in Seq({"open", "closed", "merged"})
    BY WingetSiteFacts DEF WingetInv, Winget!TypeOK, Winget!Requests
  <1>2. CASE site' = site /\ \E outcome \in {"refused", "denied"} : Winget!Settled(request, outcome)
    <2>1. PICK outcome \in {"landed", "refused", "denied"} : Winget!Settled(request, outcome)
      BY <1>2
    <2>2. Len(site.pulls) <= Len(site'.pulls) /\ Len(site'.pulls) <= MaxMerges
      BY <1>1, <1>2
    <2> QED  BY <1>1, <1>2, <2>1, <2>2, WingetSettles DEF WingetSite
  <1>3. CASE site' = Winget!Carried(request) /\ Winget!Settled(request, "landed")
             /\ (request.to = "pulls" => Winget!LastPull < MaxMerges)
    <2>1. CASE request.to = "update"
      <3>1. site' = [site EXCEPT !.update = "exact"]
        BY <1>3, <2>1 DEF Winget!Carried
      <3>2. /\ site' \in [base : Seq(Trees), update : {"none", "exact", "other"},
                          pulls : Seq({"open", "closed", "merged"}), submitted : {0, 1}, synced : BOOLEAN]
            /\ site'.base = site.base /\ site'.pulls = site.pulls /\ site'.submitted = site.submitted
        BY <1>1, <3>1 DEF WingetSite
      <3>3. Len(site.pulls) <= Len(site'.pulls) /\ Len(site'.pulls) <= MaxMerges
        BY <1>1, <3>2
      <3> QED  BY <1>3, <2>1, <3>2, <3>3, WingetSettles
    <2>2. CASE request.to = "pulls"
      <3>1. /\ site' = [site EXCEPT !.pulls = Append(site.pulls, "open"), !.submitted = site.submitted + 1]
            /\ site.submitted = 0 /\ Len(site.pulls) < MaxMerges
        BY <1>1, <1>3, <2>2 DEF Winget!Carried, WingetSite, Winget!LastPull
      <3>2. /\ Append(site.pulls, "open") \in Seq({"open", "closed", "merged"})
            /\ Len(Append(site.pulls, "open")) = Len(site.pulls) + 1
        BY <1>1
      <3> DEFINE pulls == Append(site.pulls, "open")
      <3> HIDE DEF pulls
      <3>3. site' = [site EXCEPT !.pulls = pulls, !.submitted = 1]
        BY <3>1 DEF pulls
      <3>4. pulls \in Seq({"open", "closed", "merged"}) /\ Len(pulls) = Len(site.pulls) + 1
        BY <3>2 DEF pulls
      <3>5. /\ site' \in [base : Seq(Trees), update : {"none", "exact", "other"},
                          pulls : Seq({"open", "closed", "merged"}), submitted : {0, 1}, synced : BOOLEAN]
            /\ site'.base = site.base /\ site'.pulls = pulls /\ site'.update = site.update
        BY <1>1, <3>3, <3>4 DEF WingetSite
      <3>6. Len(site.pulls) <= Len(site'.pulls) /\ Len(site'.pulls) <= MaxMerges
        BY <1>1, WingetSiteAssumption, <3>1, <3>4, <3>5
      <3> QED  BY <1>3, <2>2, <3>5, <3>6, WingetSettles
    <2> QED  BY <1>1, <2>1, <2>2
  <1> QED  BY <1>2, <1>3 DEF Winget!GitHubActs, Winget!GitHubDenies

LEMMA WingetOthersStep ==
    ASSUME CallerAssumption, WingetInv,
           \/ \E tree \in Trees : Winget!OthersCommit(tree)
           \/ Winget!MergePullRequest \/ Winget!ClosePullRequest \/ Winget!ReopenPullRequest
           \/ Winget!OthersSubmit \/ Winget!DeleteBranch \/ Winget!OverwriteBranch
    PROVE  WingetStep
  <1> DEFINE States == {"open", "closed", "merged"}
             Sites == [base : Seq(Trees), update : {"none", "exact", "other"},
                       pulls : Seq(States), submitted : {0, 1}, synced : BOOLEAN]
  <1>1. /\ site \in Sites /\ site.base \in Seq(Trees) /\ site.pulls \in Seq(States)
        /\ Len(site.base) \in Nat /\ Len(site.pulls) \in Nat
        /\ Len(site.base) <= MaxMerges /\ Len(site.pulls) <= MaxMerges
        /\ site.update \in {"none", "exact", "other"}
    BY WingetSiteFacts DEF WingetInv, WingetSite
  <1>2. UNCHANGED <<caller, plan, at, seen, flying>>
    BY DEF Winget!OthersCommit, Winget!MergePullRequest, Winget!ClosePullRequest, Winget!ReopenPullRequest,
           Winget!OthersSubmit, Winget!DeleteBranch, Winget!OverwriteBranch, Winget!Others
  \* what others leave: a longer branch or the same, pull requests in other states or one more
  <1>3. ASSUME NEW base \in Seq(Trees), NEW pulls \in Seq(States), NEW update \in {"none", "exact", "other"},
               site' = [site EXCEPT !.base = base, !.pulls = pulls, !.update = update],
               Len(site.base) <= Len(base), Len(base) <= MaxMerges,
               \A i \in 1..Len(site.base) : base[i] = site.base[i],
               Len(site.pulls) <= Len(pulls), Len(pulls) <= MaxMerges,
               update = site.update \/ (site.update # "none" /\ update # "exact")
        PROVE  WingetStep
    <2>1. /\ site' \in Sites /\ site'.base = base /\ site'.pulls = pulls /\ site'.update = update
          /\ site'.submitted = site.submitted
      BY <1>1, <1>3
    <2> QED  BY <1>2, <1>3, <2>1, WingetOthersDo
  <1>4. ASSUME NEW tree \in Trees, Len(site.base) < MaxMerges
        PROVE  /\ Append(site.base, tree) \in Seq(Trees)
               /\ Len(site.base) <= Len(Append(site.base, tree))
               /\ Len(Append(site.base, tree)) <= MaxMerges
               /\ \A i \in 1..Len(site.base) : Append(site.base, tree)[i] = site.base[i]
    BY <1>1, <1>4, WingetSiteAssumption
  <1>5. ASSUME NEW state \in States
        PROVE  /\ [site.pulls EXCEPT ![Len(site.pulls)] = state] \in Seq(States)
               /\ Len([site.pulls EXCEPT ![Len(site.pulls)] = state]) = Len(site.pulls)
    <2> DEFINE n == Len(site.pulls)
               pulls == [site.pulls EXCEPT ![n] = state]
    <2>1. site.pulls \in [1..n -> States] /\ n \in Nat
      BY <1>1
    <2> HIDE DEF n
    <2>2. pulls \in [1..n -> States]
      BY <2>1
    <2>3. pulls \in Seq(States) /\ Len(pulls) = n
      BY <2>1, <2>2
    <2> QED  BY <2>3 DEF n
  <1>6. Len(site.base) <= Len(site.base) /\ Len(site.pulls) <= Len(site.pulls)
    BY <1>1
  <1>7. CASE \E tree \in Trees : Winget!OthersCommit(tree)
    <2>1. PICK tree \in Trees :
              Len(site.base) < MaxMerges /\ site' = [site EXCEPT !.base = Append(site.base, tree)]
      BY <1>7 DEF Winget!OthersCommit, Winget!Others, Winget!Tip
    <2> DEFINE base == Append(site.base, tree)
    <2>2. /\ base \in Seq(Trees) /\ Len(site.base) <= Len(base) /\ Len(base) <= MaxMerges
          /\ \A i \in 1..Len(site.base) : base[i] = site.base[i]
      BY <1>4, <2>1
    <2>3. site' = [site EXCEPT !.base = base]
      BY <2>1
    <2> HIDE DEF base
    <2>4. site' = [site EXCEPT !.base = base, !.pulls = site.pulls, !.update = site.update]
      BY <1>1, <2>3
    <2> QED  BY <1>1, <1>3, <1>6, <2>2, <2>4
  <1>8. CASE Winget!MergePullRequest
    <2> DEFINE base == Append(site.base, Winget!AllSame)
               pulls == [site.pulls EXCEPT ![Len(site.pulls)] = "merged"]
    <2>1. Len(site.base) < MaxMerges /\ site' = [site EXCEPT !.base = base, !.pulls = pulls]
      BY <1>8 DEF Winget!MergePullRequest, Winget!Others, Winget!Tip, Winget!LastPull
    <2>2. /\ base \in Seq(Trees) /\ Len(site.base) <= Len(base) /\ Len(base) <= MaxMerges
          /\ \A i \in 1..Len(site.base) : base[i] = site.base[i]
      BY <1>4, <2>1, WingetSiteAssumption
    <2>3. pulls \in Seq(States) /\ Len(pulls) = Len(site.pulls)
      BY <1>5
    <2> HIDE DEF base, pulls
    <2>4. site' = [site EXCEPT !.base = base, !.pulls = pulls, !.update = site.update]
      BY <1>1, <2>1
    <2>5. Len(site.pulls) <= Len(pulls) /\ Len(pulls) <= MaxMerges
      BY <1>1, <2>3
    <2> QED  BY <1>1, <1>3, <2>2, <2>3, <2>4, <2>5
  <1>9. CASE Winget!ClosePullRequest \/ Winget!ReopenPullRequest
    <2>1. PICK state \in States :
              site' = [site EXCEPT !.pulls = [site.pulls EXCEPT ![Len(site.pulls)] = state]]
      BY <1>9 DEF Winget!ClosePullRequest, Winget!ReopenPullRequest, Winget!Others, Winget!LastPull
    <2> DEFINE pulls == [site.pulls EXCEPT ![Len(site.pulls)] = state]
    <2>2. pulls \in Seq(States) /\ Len(pulls) = Len(site.pulls) /\ site' = [site EXCEPT !.pulls = pulls]
      BY <1>5, <2>1
    <2> HIDE DEF pulls
    <2>3. site' = [site EXCEPT !.base = site.base, !.pulls = pulls, !.update = site.update]
      BY <1>1, <2>2
    <2>4. Len(site.pulls) <= Len(pulls) /\ Len(pulls) <= MaxMerges
      BY <1>1, <2>2
    <2> QED  BY <1>1, <1>3, <1>6, <2>2, <2>3, <2>4
  <1>10. CASE Winget!OthersSubmit
    <2> DEFINE pulls == Append(site.pulls, "open")
    <2>1. Len(site.pulls) < MaxMerges /\ site' = [site EXCEPT !.pulls = pulls]
      BY <1>10 DEF Winget!OthersSubmit, Winget!Others, Winget!LastPull
    <2>2. pulls \in Seq(States) /\ Len(pulls) = Len(site.pulls) + 1
      BY <1>1
    <2> HIDE DEF pulls
    <2>3. site' = [site EXCEPT !.base = site.base, !.pulls = pulls, !.update = site.update]
      BY <1>1, <2>1
    <2>4. Len(site.pulls) <= Len(pulls) /\ Len(pulls) <= MaxMerges
      BY <1>1, <2>1, <2>2, WingetSiteAssumption
    <2> QED  BY <1>1, <1>3, <1>6, <2>2, <2>3, <2>4
  <1>11. CASE Winget!DeleteBranch \/ Winget!OverwriteBranch
    <2>1. PICK update \in {"none", "other"} : site.update # "none" /\ site' = [site EXCEPT !.update = update]
      BY <1>11 DEF Winget!DeleteBranch, Winget!OverwriteBranch, Winget!Others
    <2>2. site' = [site EXCEPT !.base = site.base, !.pulls = site.pulls, !.update = update]
      BY <1>1, <2>1
    <2> QED  BY <1>1, <1>3, <1>6, <2>1, <2>2
  <1> QED  BY <1>7, <1>8, <1>9, <1>10, <1>11

-----------------------------------------------------------------------------
(* WinGet's first states, and the steps of the executor. *)

LEMMA WingetInitially == CallerAssumption /\ Winget!Init => WingetInv
  <1> SUFFICES ASSUME CallerAssumption, Winget!Init PROVE WingetInv
    OBVIOUS
  <1>1. /\ caller = Unplanned /\ at = "idle" /\ seen = Winget!Blank /\ flying = {}
        /\ site \in [base : {<<tree>> : tree \in Trees}, update : {"none", "other"}, pulls : {<<>>},
                     submitted : {0}, synced : BOOLEAN]
    BY WingetCaller DEF Winget!Init
  <1>2. Sound(caller, flying, WingetOpen)
    BY <1>1, UnplannedIsSound
  <1>3. caller.said = "nothing" /\ caller.call = "none" /\ caller.owed = "done" /\ caller.evidence = 0
    BY <1>1 DEF Unplanned
  <1>4. site.base \in Seq(Trees) /\ Len(site.base) = 1
    <2>1. PICK tree \in Trees : site.base = <<tree>>
      BY <1>1
    <2> QED  BY <2>1
  <1>5. /\ site \in [base : Seq(Trees), update : {"none", "exact", "other"},
                     pulls : Seq({"open", "closed", "merged"}), submitted : {0, 1}, synced : BOOLEAN]
        /\ Len(site.pulls) = 0 /\ site.submitted = 0
    <2>1. /\ site = [base |-> site.base, update |-> site.update, pulls |-> site.pulls,
                     submitted |-> site.submitted, synced |-> site.synced]
          /\ site.update \in {"none", "exact", "other"} /\ site.pulls = <<>> /\ site.submitted = 0
          /\ site.synced \in BOOLEAN
      BY <1>1
    <2>2. site.pulls \in Seq({"open", "closed", "merged"}) /\ Len(site.pulls) = 0
      BY <2>1
    <2> QED  BY <1>4, <2>1, <2>2
  <1>6. Winget!TypeOK
    BY <1>1, <1>2, <1>3, <1>4, <1>5, WingetCaller, WingetSiteAssumption
    DEF Winget!TypeOK, Sound, Winget!Blank, Winget!Places, Winget!Idle, Winget!Tip, Winget!LastPull,
        Winget!Updates, Winget!PullStates
  <1>7. WingetSeen /\ WingetBranch
    BY <1>1 DEF WingetSeen, WingetObserved, WingetPushing, Winget!Blank, WingetBranch
  <1>8. WingetSite /\ Winget!PublishedIsTrue
    BY <1>1, <1>3, <1>4, <1>5 DEF WingetSite, Winget!PublishedIsTrue
  <1> QED  BY <1>2, <1>6, <1>7, <1>8 DEF WingetInv

LEMMA WingetPlanStep ==
    ASSUME CallerAssumption, WingetInv, Winget!Plan
    PROVE  WingetStep
  <1> DEFINE accepted == Winget!Plannable(plan)
  <1>1. Planned(accepted) /\ accepted \in BOOLEAN /\ UNCHANGED <<at, seen, site, flying>>
    BY WingetCaller DEF Winget!Plan, Planned, Winget!Plannable
  <1>2. /\ Sound(caller', flying, WingetOpen') /\ flying = {} /\ caller.call = "none"
        /\ caller.said = "nothing" /\ caller'.call = "none" /\ caller'.evidence = caller.evidence
        /\ caller'.said = IF accepted THEN "planned" ELSE "misconfigured"
    <2> HIDE DEF accepted
    <2> QED  BY <1>1, PlannedKeeps DEF WingetInv
  <1> HIDE DEF accepted
  <1>3. at = "idle" /\ site.submitted = 0
    BY <1>2 DEF WingetInv, Winget!TypeOK, Winget!Idle, WingetSite
  <1>4. Winget!TypeOK'
    BY <1>1, <1>2, <1>3, WingetCaller
    DEF Sound, WingetInv, Winget!TypeOK, Winget!Idle, Winget!Tip, Winget!LastPull
  <1>5. WingetSeen' /\ WingetBranch'
    BY <1>1, <1>2, <1>3 DEF WingetInv, WingetSeen, WingetPushing, WingetBranch
  <1>6. WingetSite'
    BY <1>1, <1>2, <1>3 DEF WingetInv, WingetSite
  <1>7. /\ Winget!PublishedIsTrue' /\ Winget!RejectionStands
        /\ Winget!ReconcileObserves /\ Winget!FailureIsOver
    BY <1>1, <1>2
    DEF Winget!PublishedIsTrue, Winget!RejectionStands, Winget!ReconcileObserves, Winget!FailureIsOver
  <1> QED
    BY <1>1, <1>2, <1>4, <1>5, <1>6, <1>7 DEF WingetStep, WingetInv

LEMMA WingetBeginStep ==
    ASSUME CallerAssumption, WingetInv, NEW kind \in {"apply", "reconcile"}, Winget!Begin(kind)
    PROVE  WingetStep
  <1>1. Call(kind) /\ at' = "payload" /\ seen' = Winget!Blank /\ UNCHANGED <<plan, site, flying>>
    BY WingetCaller DEF Winget!Begin
  <1>2. caller.call = "none" /\ at = "idle" /\ ~WingetOpen
    BY <1>1 DEF Call, WingetInv, Winget!TypeOK, Winget!Idle, WingetOpen
  <1>3. /\ Sound(caller', flying, WingetOpen')
        /\ caller'.call = kind /\ caller'.said = caller.said /\ caller'.owed = caller.owed
        /\ caller'.evidence = caller.evidence /\ caller.said # "nothing"
    BY <1>1, <1>2, CallKeeps DEF WingetInv
  <1>4. Winget!TypeOK'
    BY <1>1, <1>3, WingetCaller, WingetSiteFacts
    DEF Sound, WingetInv, Winget!TypeOK, Winget!Idle, Winget!Places, Winget!Blank, Winget!Tip,
        Winget!LastPull
  <1>5. WingetSeen' /\ WingetBranch'
    BY <1>1 DEF WingetSeen, WingetObserved, WingetPushing, WingetBranch, Winget!Blank
  <1>6. WingetSite'
    BY <1>1, <1>2, <1>3 DEF WingetInv, WingetSite, WingetSubmitted, WingetSeen
  <1>7. /\ Winget!PublishedIsTrue' /\ Winget!RejectionStands
        /\ Winget!ReconcileObserves /\ Winget!FailureIsOver
    BY <1>1, <1>2, <1>3
    DEF WingetInv, Winget!PublishedIsTrue, Winget!RejectionStands, Winget!ReconcileObserves,
        Winget!FailureIsOver,
        Winget!Idle, Winget!Tip
  <1> QED
    BY <1>1, <1>3, <1>4, <1>5, <1>6, <1>7 DEF WingetStep, WingetInv

LEMMA WingetKilledStep ==
    ASSUME CallerAssumption, WingetInv, Winget!Killed
    PROVE  WingetStep
  <1>1. PICK journaled \in BOOLEAN : Kill(journaled)
    BY WingetCaller DEF Winget!Killed
  <1>2. at' = "idle" /\ seen' = Winget!Blank /\ UNCHANGED <<plan, site, flying>>
    BY DEF Winget!Killed
  <1>3. /\ Sound(caller', flying, WingetOpen')
        /\ caller'.call = "none" /\ caller'.said = "AMBIGUOUS" /\ caller'.owed = "reconcile"
        /\ caller'.evidence \in {0, caller.evidence}
    BY <1>1, KillKeeps DEF WingetInv
  <1>4. Winget!TypeOK'
    BY <1>2, <1>3, WingetCaller, WingetSiteFacts
    DEF Sound, WingetInv, Winget!TypeOK, Winget!Idle, Winget!Places, Winget!Blank, Winget!Tip,
        Winget!LastPull
  <1>5. WingetSeen' /\ WingetBranch'
    BY <1>2 DEF WingetSeen, WingetObserved, WingetPushing, WingetBranch, Winget!Blank
  <1>6. WingetSite'
    BY <1>2, <1>3 DEF WingetInv, WingetSite
  <1>7. /\ Winget!PublishedIsTrue' /\ Winget!RejectionStands
        /\ Winget!ReconcileObserves /\ Winget!FailureIsOver
    BY <1>2, <1>3
    DEF Winget!PublishedIsTrue, Winget!RejectionStands, Winget!ReconcileObserves, Winget!FailureIsOver
  <1> QED
    BY <1>2, <1>3, <1>4, <1>5, <1>6, <1>7 DEF WingetStep, WingetInv

LEMMA WingetStutters ==
    ASSUME WingetInv, UNCHANGED <<caller, plan, at, seen, site, flying>>
    PROVE  WingetStep
  <1>1. Winget!TypeOK' /\ Sound(caller, flying, WingetOpen)'
    BY DEF WingetInv, Winget!TypeOK, Winget!Idle, Winget!Tip, Winget!LastPull, WingetOpen
  <1>2. WingetSeen' /\ WingetBranch' /\ WingetSite'
    BY DEF WingetInv, WingetSeen, WingetPushing, WingetBranch, WingetSite, WingetSubmitted
  <1>3. Winget!PublishedIsTrue'
    BY DEF WingetInv, Winget!PublishedIsTrue, Winget!Tip
  <1> QED
    BY <1>1, <1>2, <1>3
    DEF WingetInv, WingetStep, Winget!RejectionStands, Winget!ReconcileObserves, Winget!FailureIsOver,
        Winget!Idle

LEMMA WingetSteps ==
    ASSUME CallerAssumption, WingetInv, Winget!Next \/ UNCHANGED <<caller, plan, at, seen, site, flying>>
    PROVE  WingetStep
  <1>1. CASE UNCHANGED <<caller, plan, at, seen, site, flying>>
    BY <1>1, WingetStutters
  <1>2. CASE Winget!Next
    BY <1>2, WingetPlanStep, WingetBeginStep, WingetKilledStep, WingetReadPayloadStep, WingetResolveStep,
       WingetFilesStep, WingetReadFailsStep, WingetListRemoteStep, WingetCloneToObserveStep,
       WingetObserveFailsStep, WingetDecideStep, WingetCommitAndPushStep, WingetWorkspaceFailsStep,
       WingetPushReturnsStep, WingetLookupPriorStep, WingetLookupStep, WingetValidationStep,
       WingetSubmitStep, WingetSubmitReturnsStep, WingetGitHubStep, WingetOthersStep
    DEF Winget!Next
  <1> QED  BY <1>1, <1>2

(* What the invariant says of the properties.                              *)
LEMMA WingetProperties ==
    ASSUME WingetInv
    PROVE  /\ Winget!TypeOK /\ Winget!PublishedIsTrue /\ Winget!RepeatsAreSafe /\ Winget!SubmittedOnce
  <1>1. Winget!RepeatsAreSafe
    BY DEF WingetInv, Winget!TypeOK, Winget!RepeatsAreSafe, Winget!Idle, Sound, WingetOpen
  <1>2. Winget!SubmittedOnce
    BY DEF WingetInv, Winget!SubmittedOnce, WingetSite
  <1> QED  BY <1>1, <1>2 DEF WingetInv

-----------------------------------------------------------------------------
(* Induction over numbers: a set of numbers that is not empty has a least  *)
(* element, so a set with 0 and every successor has them all.              *)

LEMMA LeastExists ==
    ASSUME NEW T, T \subseteq Nat, T # {}
    PROVE  \E x \in T : \A y \in T : x <= y
<1> DEFINE R == Order!OpToRel(<, Nat)
<1>1. Order!IsWellFoundedOn(R, Nat)
  BY Order!NatLessThanWellFounded
<1>2. R = {ss \in Nat \X Nat : ss[1] < ss[2]}
  BY DEF Order!OpToRel
<1> HIDE DEF R
<1>3. \E x \in T : \A y \in T : ~(<<y, x>> \in R)
  BY <1>1, Order!WFMin
<1>4. \A x, y \in Nat : <<y, x>> \in R <=> y < x
  BY <1>2
<1>5. PICK x \in T : \A y \in T : ~(<<y, x>> \in R)
  BY <1>3
<1>6. \A y \in T : x <= y
  <2> TAKE y \in T
  <2>1. x \in Nat /\ y \in Nat
    OBVIOUS
  <2>2. ~(y < x)
    BY <1>4, <1>5, <2>1
  <2> QED
    BY <2>1, <2>2
<1> QED
  BY <1>6

LEMMA Induction ==
    ASSUME NEW T, 0 \in T, \A n \in Nat : n \in T => n + 1 \in T
    PROVE  Nat \subseteq T
<1> SUFFICES ASSUME ~(Nat \subseteq T) PROVE FALSE
  OBVIOUS
<1>1. PICK x \in Nat \ T : \A y \in Nat \ T : x <= y
  <2>1. Nat \ T # {} /\ Nat \ T \subseteq Nat
    OBVIOUS
  <2> QED BY <2>1, LeastExists
<1>2. x # 0 /\ x - 1 \in Nat /\ x - 1 \in T
  BY <1>1
<1> QED
  BY <1>1, <1>2

-----------------------------------------------------------------------------
(* Paths.  `Clean` is a recursion over the parts of a path, and a claim    *)
(* about what it makes of them an induction over their number.             *)

\* done[n] is what the first n parts come to.
Cleaning(parts, done, n) ==
    done = [k \in 0 .. n |-> IF k = 0 THEN <<>> ELSE Path!CleanStep(done[k - 1], parts[k])]

LEMMA CleaningExists ==
    ASSUME NEW parts
    PROVE  \A n \in Nat : \E done : Cleaning(parts, done, n)
  <1> DEFINE T == {n \in Nat : \E done : Cleaning(parts, done, n)}
  <1>1. 0 \in T
    <2>1. Cleaning(parts, [k \in 0 .. 0 |-> <<>>], 0)
      BY DEF Cleaning
    <2> QED  BY <2>1
  <1>2. ASSUME NEW n \in Nat, n \in T  PROVE n + 1 \in T
    <2>1. PICK done : Cleaning(parts, done, n)
      BY <1>2
    <2> DEFINE more == [k \in 0 .. (n + 1) |->
                            IF k = n + 1 THEN Path!CleanStep(done[n], parts[n + 1]) ELSE done[k]]
    <2>2. DOMAIN done = 0 .. n
      BY <2>1 DEF Cleaning
    <2>3. \A k \in 0 .. n : done[k] = IF k = 0 THEN <<>> ELSE Path!CleanStep(done[k - 1], parts[k])
      BY <2>1 DEF Cleaning
    <2>4. \A k \in 0 .. n : more[k] = done[k]
      OBVIOUS
    <2>5. more[n + 1] = Path!CleanStep(more[n], parts[n + 1])
      BY <2>4
    <2>6. \A k \in 0 .. (n + 1) : more[k] = IF k = 0 THEN <<>> ELSE Path!CleanStep(more[k - 1], parts[k])
      <3> TAKE k \in 0 .. (n + 1)
      <3>1. CASE k = n + 1
        BY <2>5, <3>1
      <3>2. CASE k \in 1 .. n
        <4>1. k - 1 \in 0 .. n /\ k \in 0 .. n
          BY <3>2
        <4> HIDE DEF more
        <4> QED  BY <2>3, <2>4, <3>2, <4>1
      <3>3. CASE k = 0
        BY <2>3, <2>4, <3>3
      <3> QED  BY <3>1, <3>2, <3>3
    <2>7. DOMAIN more = 0 .. (n + 1) /\ more = [k \in DOMAIN more |-> more[k]]
      OBVIOUS
    <2> HIDE DEF more
    <2>8. Cleaning(parts, more, n + 1)
      BY <2>6, <2>7 DEF Cleaning
    <2> QED  BY <2>8
  <1> HIDE DEF T
  <1>3. Nat \subseteq T
    BY <1>1, <1>2, Induction
  <1> QED  BY <1>3 DEF T

\* The recursion in Clean is well-founded.
LEMMA CleanIs ==
    ASSUME NEW S, NEW parts \in Seq(S)
    PROVE  \E done : Cleaning(parts, done, Len(parts)) /\ Path!Clean(parts) = done[Len(parts)]
  <1> DEFINE done == CHOOSE d : Cleaning(parts, d, Len(parts))
  <1>1. Cleaning(parts, done, Len(parts))
    BY CleaningExists
  <1>2. Path!Clean(parts) = done[Len(parts)]
    BY DEF Path!Clean, Cleaning
  <1> QED  BY <1>1, <1>2

\* What the first parts of a path come to has no part that Clean removes, and ".." only at its start.
Upward(d, S) ==
    /\ d \in Seq(S)
    /\ \A i \in 1 .. Len(d) : d[i] \notin {"", "."}
    /\ Len(d) > 0 /\ d[1] # ".." => \A i \in 1 .. Len(d) : d[i] # ".."

LEMMA StepKeepsUpward ==
    ASSUME NEW S, NEW d, Upward(d, S), NEW part \in S
    PROVE  Upward(Path!CleanStep(d, part), S)
  <1>0. d \in Seq(S) /\ Len(d) \in Nat
    BY LenProperties DEF Upward
  <1>1. CASE part \in {"", "."}
    BY <1>1 DEF Path!CleanStep
  <1>2. CASE part = ".." /\ d # <<>> /\ Path!Last(d) # ".."
    <2>1. Path!CleanStep(d, part) = SubSeq(d, 1, Len(d) - 1)
      BY <1>2 DEF Path!CleanStep, Path!Front
    <2>2. Len(d) \in Nat \ {0}
      BY <1>0, <1>2, EmptySeq
    <2> DEFINE front == SubSeq(d, 1, Len(d) - 1)
    <2>3. front \in Seq(S) /\ Len(front) = Len(d) - 1 /\ \A i \in 1 .. Len(front) : front[i] = d[i]
      <3>1. Len(d) - 1 \in Nat /\ \A i \in 1 .. (Len(d) - 1) : d[i] \in S
        <4>1. Len(d) - 1 \in Nat /\ \A i \in 1 .. (Len(d) - 1) : i \in 1 .. Len(d)
          BY <2>2
        <4> QED  BY <1>0, <4>1, ElementOfSeq
      <3>2. /\ front \in Seq(S)
            /\ Len(front) = IF 1 <= Len(d) - 1 THEN Len(d) - 1 - 1 + 1 ELSE 0
            /\ \A i \in 1 .. (Len(d) - 1 - 1 + 1) : front[i] = d[1 + i - 1]
        BY <3>1, SubSeqProperties
      <3> HIDE DEF front
      <3>3. Len(front) = Len(d) - 1
        <4> DEFINE n == Len(d)  m == Len(front)
        <4>1. n \in Nat \ {0} /\ m = IF 1 <= n - 1 THEN n - 1 - 1 + 1 ELSE 0
          BY <2>2, <3>2
        <4> HIDE DEF n, m
        <4>2. m = n - 1
          BY <4>1
        <4> QED  BY <4>2 DEF n, m
      <3> QED  BY <3>1, <3>2, <3>3
    <2> HIDE DEF front
    <2>4. Upward(front, S)
      <3>1. \A i \in 1 .. Len(front) : i \in 1 .. Len(d) /\ front[i] = d[i]
        BY <2>2, <2>3
      <3>2. Len(front) > 0 => Len(d) > 0 /\ front[1] = d[1]
        BY <2>2, <2>3
      <3> QED  BY <2>3, <3>1, <3>2 DEF Upward
    <2> QED  BY <2>1, <2>4 DEF front
  <1>3. CASE part \notin {"", "."} /\ ~(part = ".." /\ d # <<>> /\ Path!Last(d) # "..")
    <2>1. Path!CleanStep(d, part) = Append(d, part)
      BY <1>3 DEF Path!CleanStep
    <2> DEFINE more == Append(d, part)
    <2>2. /\ Len(d) \in Nat /\ more \in Seq(S) /\ Len(more) = Len(d) + 1
          /\ \A i \in 1 .. Len(d) : more[i] = d[i]
          /\ more[Len(d) + 1] = part
      BY <1>0, AppendProperties
    <2>3. part = ".." /\ Len(d) > 0 => d[Len(d)] = ".."
      <3>1. d = <<>> => Len(d) = 0
        BY EmptySeq
      <3> QED  BY <1>3, <3>1 DEF Path!Last
    <2> HIDE DEF more
    <2>4. Upward(more, S)
      <3>1. \A i \in 1 .. Len(more) : more[i] \notin {"", "."}
        <4> TAKE i \in 1 .. Len(more)
        <4>1. CASE i = Len(d) + 1
          BY <1>3, <2>2, <4>1
        <4>2. CASE i # Len(d) + 1
          <5>1. i \in 1 .. Len(d)
            BY <2>2, <4>2
          <5> QED  BY <2>2, <5>1 DEF Upward
        <4> QED  BY <4>1, <4>2
      <3>2. ASSUME more[1] # "..", NEW i \in 1 .. Len(more)  PROVE more[i] # ".."
        <4>1. CASE Len(d) = 0
          BY <2>2, <3>2, <4>1
        <4>2. CASE Len(d) > 0
          <5>1. d[1] # ".."
            BY <2>2, <3>2, <4>2
          <5>2. \A k \in 1 .. Len(d) : d[k] # ".."
            BY <4>2, <5>1 DEF Upward
          <5> QED  BY <2>2, <2>3, <4>2, <5>2
        <4> QED  BY <2>2, <4>1, <4>2
      <3> QED  BY <2>2, <3>1, <3>2 DEF Upward
    <2> QED  BY <2>1, <2>4 DEF more
  <1> QED  BY <1>1, <1>2, <1>3

LEMMA CleaningIsUpward ==
    ASSUME NEW S, NEW parts \in Seq(S), NEW done, Cleaning(parts, done, Len(parts))
    PROVE  Upward(done[Len(parts)], S)
  <1> DEFINE T == {n \in Nat : n <= Len(parts) => Upward(done[n], S)}
  <1>1. 0 \in T
    <2>1. done[0] = <<>>
      BY LenProperties DEF Cleaning
    <2>2. Upward(<<>>, S)
      BY EmptySeq DEF Upward
    <2> QED  BY <2>1, <2>2
  <1>2. ASSUME NEW n \in Nat, n \in T  PROVE n + 1 \in T
    <2> SUFFICES ASSUME n + 1 <= Len(parts)  PROVE Upward(done[n + 1], S)
      OBVIOUS
    <2>1. Upward(done[n], S) /\ parts[n + 1] \in S
      BY <1>2
    <2>2. done[n + 1] = Path!CleanStep(done[n], parts[n + 1])
      BY DEF Cleaning
    <2> QED  BY <2>1, <2>2, StepKeepsUpward
  <1> HIDE DEF T
  <1>3. Nat \subseteq T
    BY <1>1, <1>2, Induction
  <1> QED  BY <1>3 DEF T

\* What paths are made of: strings, and literals, of which no prover knows that they are strings.
Component ==
    STRING \union {"..", "a", "Acme", "Tool", "1.0", "Acme.Tool.installer.yaml", "Acme.Tool.locale.yaml",
                   "Acme.Tool.yaml"}

LEMMA StringsAreComponents ==
    ASSUME NEW q \in Seq(STRING)
    PROVE  q \in Seq(Component)
  <1>1. STRING \subseteq Component
    BY DEF Component
  <1> QED  BY <1>1, SeqMonotonic

\* A path of a file in the repository, as NormalizeRepoPath leaves it.
IsName(part) == part \in Component /\ part \notin {"", ".", ".."}
Names(q) == q \in Seq(Component) /\ Len(q) > 0 /\ \A i \in 1 .. Len(q) : IsName(q[i])

LEMMA CleaningKeepsNames ==
    ASSUME NEW parts \in Seq(Component), NEW m \in 0 .. Len(parts), \A i \in 1 .. m : IsName(parts[i]),
           NEW done, Cleaning(parts, done, Len(parts))
    PROVE  done[m] \in Seq(Component) /\ Len(done[m]) = m /\ \A i \in 1 .. m : done[m][i] = parts[i]
  <1> DEFINE Same(n) == /\ done[n] \in Seq(Component) /\ Len(done[n]) = n
                        /\ \A i \in 1 .. n : done[n][i] = parts[i]
             T == {n \in Nat : n <= m => Same(n)}
  <1>1. 0 \in T
    <2>1. done[0] = <<>>
      BY LenProperties DEF Cleaning
    <2>2. Len(done[0]) = 0 /\ done[0] \in Seq(Component)
      BY <2>1, EmptySeq
    <2> QED  BY <2>2
  <1>2. ASSUME NEW n \in Nat, n \in T  PROVE n + 1 \in T
    <2> SUFFICES ASSUME n + 1 <= m  PROVE Same(n + 1)
      OBVIOUS
    <2>1. Same(n) /\ IsName(parts[n + 1])
      BY <1>2
    <2>2. done[n + 1] = Path!CleanStep(done[n], parts[n + 1])
      BY DEF Cleaning
    <2>3. done[n + 1] = Append(done[n], parts[n + 1])
      BY <2>1, <2>2 DEF Path!CleanStep, IsName
    <2>4. parts[n + 1] \in Component
      BY <2>1 DEF IsName
    <2>5. /\ done[n + 1] \in Seq(Component) /\ Len(done[n + 1]) = n + 1
          /\ \A i \in 1 .. n : done[n + 1][i] = done[n][i]
          /\ done[n + 1][n + 1] = parts[n + 1]
      BY <2>1, <2>3, <2>4, AppendProperties
    <2> QED  BY <2>1, <2>5
  <1> HIDE DEF T
  <1>3. Nat \subseteq T
    BY <1>1, <1>2, Induction
  <1> QED  BY <1>3 DEF T

\* What NormalizeRepoPath makes of a path it does not refuse consists of names,
LEMMA NormalizedIsNames ==
    ASSUME NEW path, path.parts \in Seq(Component), Path!NormalizeRepoPath(path) # Path!Refused
    PROVE  Names(Path!NormalizeRepoPath(path))
  <1> DEFINE q == Path!Clean(path.parts)
  <1>1. Upward(q, Component)
    BY CleanIs, CleaningIsUpward
  <1>2. Path!NormalizeRepoPath(path) = q /\ q # <<>> /\ Head(q) # ".."
    BY DEF Path!NormalizeRepoPath, Path!Refused
  <1> HIDE DEF q
  <1>3. q \in Seq(Component) /\ Len(q) \in Nat \ {0}
    BY <1>1, <1>2, EmptySeq DEF Upward
  <1>4. \A i \in 1 .. Len(q) : q[i] \in Component
    BY <1>3, ElementOfSeq
  <1>5. \A i \in 1 .. Len(q) : q[i] \notin {"", ".", ".."}
    <2>1. q[1] # ".."
      BY <1>2, <1>3
    <2>2. Len(q) > 0
      BY <1>3
    <2>3. /\ \A i \in 1 .. Len(q) : q[i] \notin {"", "."}
          /\ \A i \in 1 .. Len(q) : q[i] # ".."
      BY <1>1, <2>1, <2>2 DEF Upward
    <2> QED  BY <2>3
  <1>6. Names(q)
    <2>1. q \in Seq(Component) /\ Len(q) > 0
      BY <1>3
    <2>2. \A i \in 1 .. Len(q) : IsName(q[i])
      BY <1>4, <1>5 DEF IsName
    <2> QED  BY <2>1, <2>2 DEF Names
  <1> QED  BY <1>2, <1>6

\* and it changes no path that consists of names.
LEMMA NamesAreNormal ==
    ASSUME NEW q, Names(q)
    PROVE  Path!NormalizeRepoPath(Path!PathOf(q)) = q
  <1>1. PICK done : Cleaning(q, done, Len(q)) /\ Path!Clean(q) = done[Len(q)]
    BY CleanIs DEF Names
  <1>2. /\ done[Len(q)] \in Seq(Component) /\ Len(done[Len(q)]) = Len(q)
        /\ \A i \in 1 .. Len(q) : done[Len(q)][i] = q[i]
    BY <1>1, CleaningKeepsNames DEF Names
  <1>3. Path!Clean(q) = q
    BY <1>1, <1>2, SeqEqual DEF Names
  <1>4. q # <<>> /\ Head(q) # ".."
    <2>1. Len(q) \in Nat /\ Len(q) > 0 /\ IsName(q[1])
      BY LenProperties DEF Names
    <2>2. q # <<>>
      BY <2>1, EmptySeq
    <2>3. Head(q) = q[1]
      BY <2>1, <2>2
    <2> QED  BY <2>1, <2>2, <2>3 DEF IsName
  <1> QED  BY <1>3, <1>4 DEF Path!NormalizeRepoPath, Path!PathOf

\* The parent of a path of names.
LEMMA FrontOfNames ==
    ASSUME NEW q, Names(q), Len(q) > 1
    PROVE  /\ Names(Path!Front(q)) /\ Len(Path!Front(q)) = Len(q) - 1
           /\ \A i \in 1 .. (Len(q) - 1) : Path!Front(q)[i] = q[i]
  <1> DEFINE n == Len(q)
             front == SubSeq(q, 1, n - 1)
  <1>1. q \in Seq(Component) /\ n \in Nat /\ n > 1 /\ \A i \in 1 .. n : IsName(q[i])
    BY LenProperties DEF Names
  <1> HIDE DEF n
  <1>2. n - 1 \in Nat /\ \A i \in 1 .. (n - 1) : q[i] \in Component /\ IsName(q[i])
    <2>1. n - 1 \in Nat /\ \A i \in 1 .. (n - 1) : i \in 1 .. n
      BY <1>1
    <2>2. \A i \in 1 .. (n - 1) : IsName(q[i])
      BY <1>1, <2>1
    <2> QED  BY <2>1, <2>2 DEF IsName
  <1>3. /\ front \in Seq(Component)
        /\ Len(front) = IF 1 <= n - 1 THEN n - 1 - 1 + 1 ELSE 0
        /\ \A i \in 1 .. (n - 1 - 1 + 1) : front[i] = q[1 + i - 1]
    BY <1>2, SubSeqProperties
  <1> HIDE DEF front
  <1>4. Len(front) = n - 1 /\ Len(front) > 0 /\ \A i \in 1 .. (n - 1) : front[i] = q[i]
    BY <1>1, <1>3
  <1>5. Names(front)
    BY <1>2, <1>3, <1>4 DEF Names
  <1>6. Path!Front(q) = front
    BY DEF Path!Front, front, n
  <1> QED  BY <1>4, <1>5, <1>6 DEF n

\* A path of names to which ".." is appended comes to its parent.
LEMMA ParentIsNormal ==
    ASSUME NEW q, Names(q), Len(q) > 1
    PROVE  Path!NormalizeRepoPath(Path!PathOf(Append(q, ".."))) = Path!Front(q)
  <1> DEFINE parts == Append(q, "..")
  <1>0. q \in Seq(Component) /\ Len(q) \in Nat /\ Len(q) > 1 /\ ".." \in Component
    BY LenProperties DEF Names, Component
  <1>1. /\ parts \in Seq(Component) /\ Len(parts) = Len(q) + 1
        /\ \A i \in 1 .. Len(q) : parts[i] = q[i] /\ IsName(parts[i])
        /\ parts[Len(q) + 1] = ".."
    <2>1. /\ parts \in Seq(Component) /\ Len(parts) = Len(q) + 1
          /\ \A i \in 1 .. Len(q) : parts[i] = q[i]
          /\ parts[Len(q) + 1] = ".."
      BY <1>0, AppendProperties
    <2> HIDE DEF parts
    <2> QED  BY <2>1 DEF Names
  <1> HIDE DEF parts
  <1>2. PICK done : Cleaning(parts, done, Len(parts)) /\ Path!Clean(parts) = done[Len(parts)]
    BY <1>1, CleanIs
  <1>3. /\ done[Len(q)] \in Seq(Component) /\ Len(done[Len(q)]) = Len(q)
        /\ \A i \in 1 .. Len(q) : done[Len(q)][i] = parts[i]
    <2>1. Len(q) \in 0 .. Len(parts) /\ \A i \in 1 .. Len(q) : IsName(parts[i])
      BY <1>0, <1>1
    <2> QED  BY <1>1, <1>2, <2>1, CleaningKeepsNames
  <1>4. done[Len(q)] = q
    BY <1>0, <1>1, <1>3, SeqEqual
  <1>5. Path!Clean(parts) = Path!CleanStep(q, "..")
    BY <1>0, <1>1, <1>2, <1>4 DEF Cleaning
  <1>6. q # <<>> /\ Path!Last(q) # ".."
    <2>1. IsName(q[Len(q)])
      BY <1>0 DEF Names
    <2>2. q # <<>>
      BY <1>0, EmptySeq
    <2> QED  BY <2>1, <2>2 DEF Path!Last, IsName
  <1>7. Path!Clean(parts) = Path!Front(q)
    BY <1>5, <1>6 DEF Path!CleanStep
  <1> DEFINE front == Path!Front(q)
  <1>8. Names(front)
    BY FrontOfNames
  <1> HIDE DEF front
  <1>9. front # <<>> /\ Head(front) # ".." /\ parts # <<>>
    <2>1. Len(front) \in Nat /\ Len(front) > 0 /\ IsName(front[1]) /\ front \in Seq(Component)
      BY <1>8, LenProperties DEF Names
    <2>2. front # <<>> /\ parts # <<>>
      BY <1>0, <1>1, <2>1, EmptySeq
    <2>3. Head(front) = front[1]
      BY <2>1, <2>2
    <2> QED  BY <2>1, <2>2, <2>3 DEF IsName
  <1> QED  BY <1>7, <1>9 DEF Path!NormalizeRepoPath, Path!PathOf, parts, front

LEMMA NameAppended ==
    ASSUME NEW q, Names(q), NEW name, IsName(name)
    PROVE  Names(Append(q, name)) /\ Len(Append(q, name)) = Len(q) + 1
  <1>1. q \in Seq(Component) /\ Len(q) \in Nat /\ Len(q) > 0 /\ name \in Component
    BY LenProperties DEF Names, IsName
  <1> DEFINE more == Append(q, name)
  <1>2. /\ more \in Seq(Component) /\ Len(more) = Len(q) + 1
        /\ \A i \in 1 .. Len(q) : more[i] = q[i]
        /\ more[Len(q) + 1] = name
    BY <1>1, AppendProperties
  <1> HIDE DEF more
  <1>3. \A i \in 1 .. Len(more) : IsName(more[i])
    <2> TAKE i \in 1 .. Len(more)
    <2>1. CASE i = Len(q) + 1
      BY <1>2, <2>1
    <2>2. CASE i # Len(q) + 1
      <3>1. i \in 1 .. Len(q)
        BY <1>1, <1>2, <2>2
      <3> QED  BY <1>2, <3>1 DEF Names
    <2> QED  BY <2>1, <2>2
  <1>4. Len(more) > 0
    BY <1>1, <1>2
  <1>5. Names(more) /\ Len(more) = Len(q) + 1
    BY <1>2, <1>3, <1>4 DEF Names
  <1> QED  BY <1>5 DEF more

\* The providers' paths are these.
LEMMA SamePaths ==
    ASSUME NEW path
    PROVE  /\ Homebrew!NormalizeRepoPath(path) = Path!NormalizeRepoPath(path)
           /\ Winget!NormalizeRepoPath(path) = Path!NormalizeRepoPath(path)
  <1>1. \A d, part : Homebrew!CleanStep(d, part) = Path!CleanStep(d, part)
    BY DEF Homebrew!CleanStep, Path!CleanStep, Homebrew!Last, Path!Last, Homebrew!Front, Path!Front
  <1>2. \A d, part : Winget!CleanStep(d, part) = Path!CleanStep(d, part)
    BY DEF Winget!CleanStep, Path!CleanStep, Winget!Last, Path!Last, Winget!Front, Path!Front
  <1>3. \A parts : Homebrew!Clean(parts) = Path!Clean(parts)
    BY DEF Homebrew!Clean, Path!Clean, Homebrew!CleanStep, Path!CleanStep, Homebrew!Last, Path!Last,
           Homebrew!Front,
           Path!Front
  <1>4. \A parts : Winget!Clean(parts) = Path!Clean(parts)
    BY DEF Winget!Clean, Path!Clean, Winget!CleanStep, Path!CleanStep, Winget!Last, Path!Last, Winget!Front,
           Path!Front
  <1> QED  BY <1>3, <1>4
           DEF Homebrew!NormalizeRepoPath, Winget!NormalizeRepoPath, Path!NormalizeRepoPath,
               Homebrew!Refused, Winget!Refused, Path!Refused

-----------------------------------------------------------------------------
(* What Plan accepts of Homebrew's configurations.                         *)

LEMMA Tuples ==
    /\ \A a, b, c : <<a>> # <<b, c>>
    /\ \A a, b, c, d : <<a, b>> = <<c, d>> <=> a = c /\ b = d
  <1>1. ASSUME NEW a, NEW b, NEW c  PROVE <<a>> # <<b, c>>
    <2>1. Len(<<a>>) = 1 /\ Len(<<b, c>>) = 2
      OBVIOUS
    <2> QED  BY <2>1
  <1>2. \A a, b, c, d : <<a, b>> = <<c, d>> <=> a = c /\ b = d
    OBVIOUS
  <1> QED  BY <1>1, <1>2

\* What Homebrew's apply and reconcile need of a payload.
HomebrewPayloadIsSound(p) ==
    /\ Homebrew!ParsePayload(p)
    /\ Homebrew!NormalizeRepoPath(p.path) = p.path.parts
    /\ p.mode = "pull-request" => p.authenticated
    /\ \A version \in {"8", "11", "17", "21", "25"} :
          <<"depends_on openjdk", version>> \in p.content <=> <<"java_home_env", version>> \in p.content

LEMMA HomebrewContent ==
    ASSUME NEW m
    PROVE  /\ Homebrew!RenderManifest(m) # {}
           /\ \A version \in {"8", "11", "17", "21", "25"} :
                 <<"depends_on openjdk", version>> \in Homebrew!RenderManifest(m)
                     <=> <<"java_home_env", version>> \in Homebrew!RenderManifest(m)
  <1>1. Homebrew!RenderManifest(m) # {}
    BY DEF Homebrew!RenderManifest, Homebrew!RenderFormula, Homebrew!RenderCask
  <1>2. ASSUME NEW version
        PROVE  <<"depends_on openjdk", version>> \in Homebrew!RenderManifest(m)
                   <=> <<"java_home_env", version>> \in Homebrew!RenderManifest(m)
    <2> DEFINE jdk == <<"depends_on openjdk", version>>
               home == <<"java_home_env", version>>
    <2>1. \A word : jdk # <<word>> /\ home # <<word>>
      BY Tuples
    <2>2. /\ jdk = <<"depends_on openjdk", m.java>> <=> version = m.java
          /\ home = <<"java_home_env", m.java>> <=> version = m.java
          /\ jdk # <<"java_home_env", m.java>> /\ home # <<"depends_on openjdk", m.java>>
      BY Tuples
    <2> HIDE DEF jdk, home
    <2>3. jdk \in Homebrew!RenderFormula(m) <=> home \in Homebrew!RenderFormula(m)
      BY <2>1, <2>2 DEF Homebrew!RenderFormula
    <2>4. jdk \notin Homebrew!RenderCask(m) /\ home \notin Homebrew!RenderCask(m)
      BY <2>1 DEF Homebrew!RenderCask
    <2> QED  BY <2>3, <2>4 DEF Homebrew!RenderManifest, jdk, home
  <1> QED  BY <1>1, <1>2

\* What Homebrew's Plan accepts comes to a sound payload.
LEMMA HomebrewPlannable ==
    ASSUME PathAssumption, NEW c \in HomebrewConfigurations, Homebrew!Plannable(c)
    PROVE  HomebrewPayloadIsSound(Homebrew!PayloadOf(c))
  <1> DEFINE p == Homebrew!PayloadOf(c)
             parts == Homebrew!NormalizeRepoPath(c.path)
  <1>1. Homebrew!ParseConfiguration(c)
    BY DEF Homebrew!Plannable
  <1>2. Names(parts)
    <2>1. c.path.parts \in Seq(Component)
      BY StringsAreComponents DEF PathAssumption
    <2>2. Path!NormalizeRepoPath(c.path) # Path!Refused
      BY <1>1, SamePaths DEF Homebrew!ParseConfiguration, Homebrew!Refused, Path!Refused
    <2> QED  BY <2>1, <2>2, SamePaths, NormalizedIsNames
  <1>3. /\ p.mode = c.mode /\ p.repository = c.repository /\ p.path = Homebrew!PathOf(parts)
        /\ p.branch = (IF Homebrew!Given(c.branch) THEN c.branch ELSE Homebrew!Ordinary)
        /\ p.updateBranch = (IF c.mode = "pull-request" /\ ~Homebrew!Given(c.updateBranch)
                             THEN Homebrew!DeterministicUpdateBranch ELSE c.updateBranch)
        /\ p.content = Homebrew!RenderManifest(c.manifest) /\ p.contentSha256 = p.content
        /\ p.authenticated = Homebrew!Given(c.credential)
    BY DEF Homebrew!PayloadOf
  <1> HIDE DEF p
  <1>4. Homebrew!NormalizeRepoPath(p.path) = parts /\ p.path.parts = parts /\ parts # Homebrew!Refused
    <2>1. Homebrew!PathOf(parts) = Path!PathOf(parts) /\ p.path.parts = parts
      BY <1>3 DEF Homebrew!PathOf, Path!PathOf
    <2>2. parts # <<>>
      BY <1>2, EmptySeq DEF Names
    <2> QED  BY <1>2, <1>3, <2>1, <2>2, SamePaths, NamesAreNormal DEF Homebrew!Refused
  <1>5. Homebrew!ValidBranch(p.branch)
    BY <1>1, <1>3 DEF Homebrew!ParseConfiguration, Homebrew!ValidBranch, Homebrew!Given, Homebrew!Free,
                      Homebrew!Ordinary
  <1>6. /\ Homebrew!Given(p.updateBranch) => Homebrew!ValidBranch(p.updateBranch)
        /\ p.mode = "pull-request" => Homebrew!Given(p.updateBranch)
    BY <1>1, <1>3 DEF Homebrew!ParseConfiguration, Homebrew!ValidBranch, Homebrew!Given, Homebrew!Free,
                      Homebrew!DeterministicUpdateBranch
  <1>7. Homebrew!Given(p.repository)
    BY <1>1, <1>3
    DEF Homebrew!ParseConfiguration, Homebrew!ValidateRepository, Homebrew!Given, Homebrew!Free
  <1>8. p.mode \in {"direct", "pull-request"} /\ (p.mode = "pull-request" => p.authenticated)
    BY <1>1, <1>3 DEF Homebrew!ParseConfiguration
  <1>9. Homebrew!ParsePayload(p)
    BY <1>3, <1>4, <1>5, <1>6, <1>7, <1>8, HomebrewContent DEF Homebrew!ParsePayload
  <1>10. HomebrewPayloadIsSound(p)
    BY <1>3, <1>4, <1>8, <1>9, HomebrewContent DEF HomebrewPayloadIsSound
  <1> QED  BY <1>10 DEF p

HomebrewPlan ==
    IF Accepted THEN HomebrewPayloadIsSound(plan) ELSE plan \in HomebrewConfigurations

\* Only Plan makes something else of the plan, and only a call of what was planned is answered.
LEMMA HomebrewPlanStands ==
    ASSUME HomebrewInv, Homebrew!Next, ~Homebrew!Plan
    PROVE  plan' = plan /\ (caller' = caller \/ (Accepted /\ Accepted'))
  <1> DEFINE Goes == caller' = caller \/ (Accepted /\ caller'.said \in Answers)
  <1>1. at # "idle" \/ caller.call # "none" \/ caller.owed # "done" => Accepted
    BY DEF HomebrewInv, Sound, Homebrew!TypeOK, Homebrew!Idle, Accepted
  <1>2. ASSUME NEW answer, NEW commit, Homebrew!Answer(answer, commit)  PROVE caller'.said = answer
    <2>1. AnswerWith(answer, commit)
      BY <1>2, HomebrewCaller DEF Homebrew!Answer
    <2>2. caller \in Caller
      BY DEF HomebrewInv, Sound
    <2> QED  BY <2>1, <2>2 DEF AnswerWith, Caller
  <1>3. ASSUME NEW kind \in {"apply", "reconcile"}, Homebrew!Begin(kind)
        PROVE  plan' = plan /\ Accepted /\ Accepted'
    <2>1. plan' = plan /\ Accepted
      BY <1>1, <1>3 DEF Homebrew!Begin, Homebrew!Call
    <2>2. caller'.said = caller.said
      BY <1>3 DEF Homebrew!Begin, Homebrew!Call, HomebrewInv, Sound, Caller
    <2> QED  BY <2>1, <2>2 DEF Accepted
  <1>4. ASSUME \/ Homebrew!ReadPayload \/ Homebrew!ListRemote \/ Homebrew!CloneToObserve
               \/ Homebrew!CommitAndPush \/ Homebrew!SubmitPullRequest \/ Homebrew!NoToken
        PROVE  plan' = plan /\ Goes
    BY <1>1, <1>2, <1>4
    DEF Homebrew!ReadPayload, Homebrew!ListRemote, Homebrew!CloneToObserve, Homebrew!CommitAndPush,
        Homebrew!SubmitPullRequest, Homebrew!NoToken, Homebrew!Goto, Homebrew!PushSucceeded,
        Answers, Results, Errors
  <1>5. ASSUME Homebrew!Decide \/ Homebrew!LookupPullRequest
        PROVE  plan' = plan /\ Goes
    BY <1>1, <1>2, <1>5
    DEF Homebrew!Decide, Homebrew!LookupPullRequest, Homebrew!AfterFailedPush, Homebrew!AfterBase,
        Homebrew!AfterUpdate, Homebrew!AfterLookup, Homebrew!Goto, Homebrew!ObserveNext,
        Homebrew!ClassifyGitPushError, Answers, Results, Errors
  <1>6. ASSUME \/ \E denied \in BOOLEAN : Homebrew!ObserveFails(denied)
               \/ \E outcome \in {"unknown", "denied"} : Homebrew!WorkspaceFails(outcome)
               \/ \E success \in BOOLEAN : Homebrew!PushReturns(success)
               \/ \E temporary \in BOOLEAN : Homebrew!LookupFails(temporary)
               \/ \E response \in {"created", "malformed", "refused", "denied", "unknown"} :
                      Homebrew!SubmitReturns(response)
        PROVE  plan' = plan /\ Goes
    BY <1>1, <1>2, <1>6
    DEF Homebrew!ObserveFails, Homebrew!WorkspaceFails, Homebrew!PushReturns, Homebrew!LookupFails,
        Homebrew!SubmitReturns, Homebrew!PushFailed, Homebrew!PushSucceeded, Homebrew!Goto,
        Homebrew!ClassifyGitPushError, Homebrew!ClassifyGitReadError, Homebrew!ClassifyPullRequestStatus,
        Answers, Results, Errors
  <1>7. ASSUME Homebrew!Killed  PROVE plan' = plan /\ Goes
    BY <1>1, <1>7 DEF Homebrew!Killed, Homebrew!Kill, HomebrewInv, Sound, Caller, Answers, Errors
  <1>8. ASSUME NEW request \in flying, Homebrew!TapActs(request) \/ Homebrew!TapDenies(request)
        PROVE  plan' = plan /\ caller' = caller
    BY <1>8 DEF Homebrew!TapActs, Homebrew!TapDenies, Homebrew!Settled
  <1>9. ASSUME \/ \E content \in Homebrew!Contents : Homebrew!OthersCommit(content)
               \/ Homebrew!MergePullRequest \/ Homebrew!ClosePullRequest \/ Homebrew!OthersSubmit
               \/ Homebrew!DeleteBranch \/ Homebrew!OverwriteBranch
        PROVE  plan' = plan /\ caller' = caller
    BY <1>9
    DEF Homebrew!OthersCommit, Homebrew!MergePullRequest, Homebrew!ClosePullRequest, Homebrew!OthersSubmit,
        Homebrew!DeleteBranch, Homebrew!OverwriteBranch, Homebrew!Others
  <1>10. Goes => caller' = caller \/ (Accepted /\ Accepted')
    BY DEF Accepted, Answers, Results, Errors
  <1> HIDE DEF Goes
  <1> QED
    BY <1>3, <1>4, <1>5, <1>6, <1>7, <1>8, <1>9, <1>10 DEF Homebrew!Next

LEMMA HomebrewPlanHolds ==
    ASSUME PathAssumption, HomebrewInv, HomebrewPlan,
           Homebrew!Next \/ UNCHANGED <<caller, plan, at, seen, site, flying>>
    PROVE  HomebrewPlan'
  <1>1. CASE Homebrew!Plan
    <2> DEFINE accepted == Homebrew!Plannable(plan)
    <2>1. plan \in HomebrewConfigurations
      BY <1>1 DEF Homebrew!Plan, Homebrew!Planned, Accepted, HomebrewPlan
    <2>2. /\ caller'.said = (IF accepted THEN "planned" ELSE "misconfigured")
          /\ plan' = IF accepted THEN Homebrew!PayloadOf(plan) ELSE plan
      BY <1>1 DEF Homebrew!Plan, Homebrew!Planned, HomebrewInv, Sound, Caller
    <2>3. accepted => HomebrewPayloadIsSound(Homebrew!PayloadOf(plan))
      BY <2>1, HomebrewPlannable
    <2> HIDE DEF accepted
    <2> QED  BY <2>1, <2>2, <2>3 DEF HomebrewPlan, Accepted
  <1>2. CASE Homebrew!Next /\ ~Homebrew!Plan
    <2>1. plan' = plan /\ (Accepted <=> Accepted')
      BY <1>2, HomebrewPlanStands DEF Accepted
    <2> QED  BY <2>1 DEF HomebrewPlan
  <1>3. CASE UNCHANGED <<caller, plan, at, seen, site, flying>>
    BY <1>3 DEF HomebrewPlan, Accepted
  <1> QED  BY <1>1, <1>2, <1>3

-----------------------------------------------------------------------------
(* What Plan accepts of WinGet's.  The manifests are files of one directory, *)
(* be it that of the package or, for a version of two dots, its parent.      *)

LEMMA ManifestDirectoryIsNames ==
    ASSUME NEW root, root.parts \in Seq(STRING), Path!NormalizeRepoPath(root) # Path!Refused, NEW package
    PROVE  Names(Winget!ManifestDirectory(root, package))
  <1> DEFINE R == Path!NormalizeRepoPath(root)
             tail == <<"a", "Acme", "Tool">>
             q == R \o tail
             last == IF "dots only" \in package.version THEN ".." ELSE "1.0"
  <1>1. Names(R)
    BY StringsAreComponents, NormalizedIsNames
  <1> HIDE DEF R
  <1>2. R \in Seq(Component) /\ Len(R) \in Nat /\ Len(R) > 0
    BY <1>1, LenProperties DEF Names
  <1>3. tail \in Seq(Component) /\ Len(tail) = 3 /\ \A i \in 1 .. 3 : IsName(tail[i])
    <2>1. IsName("a") /\ IsName("Acme") /\ IsName("Tool")
      BY DEF IsName, Component
    <2>2. Len(tail) = 3 /\ tail[1] = "a" /\ tail[2] = "Acme" /\ tail[3] = "Tool"
      OBVIOUS
    <2>3. "a" \in Component /\ "Acme" \in Component /\ "Tool" \in Component
      BY DEF Component
    <2>4. tail \in Seq(Component)
      BY <2>3
    <2> HIDE DEF tail
    <2> QED  BY <2>1, <2>2, <2>4
  <1> HIDE DEF tail
  <1>4. /\ q \in Seq(Component) /\ Len(q) = Len(R) + 3
        /\ \A i \in 1 .. Len(R) + 3 : q[i] = IF i <= Len(R) THEN R[i] ELSE tail[i - Len(R)]
    <2>1. /\ q \in Seq(Component) /\ Len(q) = Len(R) + Len(tail)
          /\ \A i \in 1 .. Len(R) + Len(tail) : q[i] = IF i <= Len(R) THEN R[i] ELSE tail[i - Len(R)]
      BY <1>2, <1>3, ConcatProperties
    <2> HIDE DEF q
    <2> QED  BY <1>3, <2>1
  <1> HIDE DEF q
  <1>5. Names(q) /\ Len(q) > 1
    <2>1. \A i \in 1 .. Len(R) + 3 : (i <= Len(R) => i \in 1 .. Len(R)) /\ (i > Len(R) => i - Len(R) \in 1 .. 3)
      BY <1>2
    <2>2. ASSUME NEW i \in 1 .. Len(q) PROVE IsName(q[i])
      <3>1. CASE i <= Len(R)
        <4>1. q[i] = R[i] /\ i \in 1 .. Len(R)
          BY <1>4, <2>1, <3>1
        <4> QED  BY <1>1, <4>1 DEF Names
      <3>2. CASE i > Len(R)
        <4>1. q[i] = tail[i - Len(R)] /\ i - Len(R) \in 1 .. 3
          BY <1>2, <1>4, <2>1, <3>2
        <4> QED  BY <1>3, <4>1
      <3> QED  BY <1>2, <1>4, <3>1, <3>2
    <2>3. Len(q) > 1
      BY <1>2, <1>4
    <2> QED  BY <1>4, <2>2, <2>3 DEF Names
  <1>6. Winget!ManifestDirectory(root, package) = Path!NormalizeRepoPath(Path!PathOf(q \o <<last>>))
    BY SamePaths DEF Winget!ManifestDirectory, Winget!PathOf, Path!PathOf, q, R, tail
  <1>7. last \in Component /\ q \o <<last>> = Append(q, last)
    <2>1. last \in Component
      BY DEF Component
    <2> HIDE DEF last
    <2> QED  BY <1>4, <2>1, AppendIsConcat
  <1>8. CASE last = ".."
    BY <1>5, <1>6, <1>7, <1>8, ParentIsNormal, FrontOfNames
  <1>9. CASE last = "1.0"
    <2>1. IsName(last)
      BY <1>9 DEF IsName, Component
    <2> HIDE DEF last
    <2> QED  BY <1>5, <1>6, <1>7, <2>1, NameAppended, NamesAreNormal
  <1> QED  BY <1>8, <1>9

\* What WinGet's apply and reconcile need of a payload.
WingetPayloadIsSound(p) ==
    /\ Winget!ParsePayload(p)
    /\ \A i, k \in 1 .. 3 : Winget!Front(p.files[i].path) = Winget!Front(p.files[k].path)

\* The file's path is that of the directory and the file's name.
LEMMA FileOfDirectory ==
    ASSUME NEW directory, Names(directory), NEW name, IsName(name)
    PROVE  /\ Winget!NormalizeRepoPath(Winget!PathOf(Append(directory, name))) = Append(directory, name)
           /\ Winget!Front(Append(directory, name)) = directory
  <1> DEFINE file == Append(directory, name)
  <1>1. Names(file) /\ Len(file) = Len(directory) + 1 /\ Len(directory) \in Nat
    BY NameAppended, LenProperties DEF Names
  <1>2. Winget!PathOf(file) = Path!PathOf(file)
    BY DEF Winget!PathOf, Path!PathOf
  <1>3. Winget!NormalizeRepoPath(Winget!PathOf(file)) = file
    <2> HIDE DEF file
    <2> QED  BY <1>1, <1>2, SamePaths, NamesAreNormal
  <1>4. Winget!Front(file) = directory
    <2> DEFINE front == Path!Front(file)
    <2>1. /\ file \in Seq(Component) /\ directory \in Seq(Component) /\ Len(directory) > 0
          /\ \A i \in 1 .. Len(directory) : file[i] = directory[i]
      <3>1. directory \in Seq(Component) /\ Len(directory) > 0 /\ name \in Component
        BY DEF Names, IsName
      <3> QED  BY <3>1, AppendProperties
    <2> HIDE DEF file
    <2>2. Len(file) > 1 /\ Len(file) - 1 = Len(directory)
      BY <1>1, <2>1
    <2>3. Names(front) /\ Len(front) = Len(directory) /\ \A i \in 1 .. Len(directory) : front[i] = file[i]
      BY <1>1, <2>2, FrontOfNames
    <2>4. front = directory
      <3> HIDE DEF front
      <3> QED  BY <2>1, <2>3, SeqEqual DEF Names
    <2> QED  BY <2>4 DEF Winget!Front, Path!Front
  <1> QED  BY <1>3, <1>4

LEMMA WingetContent ==
    ASSUME NEW c
    PROVE  /\ Winget!RenderInstallerManifest(c.installer) # {}
           /\ Winget!RenderLocaleManifest(c.package) # {}
           /\ Winget!RenderVersionManifest(c) # {}
  BY DEF Winget!RenderInstallerManifest, Winget!RenderLocaleManifest, Winget!RenderVersionManifest

\* What WinGet's Plan accepts comes to a sound payload.
LEMMA WingetPlannable ==
    ASSUME PathAssumption, NEW c \in WingetConfigurations, Winget!Plannable(c)
    PROVE  WingetPayloadIsSound(Winget!PayloadOf(c))
  <1> DEFINE p == Winget!PayloadOf(c)
             directory == Winget!ManifestDirectory(c.root, c.package)
             Called(name) == Append(directory, name)
             content == <<Winget!RenderInstallerManifest(c.installer),
                          Winget!RenderLocaleManifest(c.package), Winget!RenderVersionManifest(c)>>
             name == <<"Acme.Tool.installer.yaml", "Acme.Tool.locale.yaml", "Acme.Tool.yaml">>
  <1>1. Winget!ParseConfiguration(c)
    BY DEF Winget!Plannable
  <1>2. Names(directory)
    <2>1. c.root.parts \in Seq(STRING)
      BY DEF PathAssumption
    <2>2. Path!NormalizeRepoPath(c.root) # Path!Refused
      BY <1>1, SamePaths DEF Winget!ParseConfiguration, Winget!Refused, Path!Refused
    <2> QED  BY <2>1, <2>2, ManifestDirectoryIsNames
  <1>3. /\ p.repository = c.repository
        /\ p.branch = (IF Winget!Given(c.branch) THEN c.branch ELSE Winget!Ordinary)
        /\ p.updateBranch = (IF Winget!Given(c.updateBranch) THEN c.updateBranch
                             ELSE Winget!DeterministicUpdateBranch)
        /\ p.treeSha256 = Winget!ManifestTreeHash(p.files)
        /\ p.pullRequest = c.pullRequest /\ p.digest = c.algorithm
    BY DEF Winget!PayloadOf
  <1>4. /\ Len(p.files) = 3
        /\ \A i \in 1 .. 3 : p.files[i].path = Called(name[i]) /\ p.files[i].content = content[i]
    BY DEF Winget!PayloadOf, Winget!RenderManifestSet
  <1>5. \A i \in 1 .. 3 : IsName(name[i]) /\ content[i] # {}
    <2>1. /\ IsName("Acme.Tool.installer.yaml") /\ IsName("Acme.Tool.locale.yaml")
          /\ IsName("Acme.Tool.yaml")
      BY DEF IsName, Component
    <2>2. /\ name[1] = "Acme.Tool.installer.yaml" /\ name[2] = "Acme.Tool.locale.yaml"
          /\ name[3] = "Acme.Tool.yaml"
      OBVIOUS
    <2>3. content[1] # {} /\ content[2] # {} /\ content[3] # {}
      BY WingetContent
    <2> HIDE DEF name, content
    <2> QED  BY <2>1, <2>2, <2>3
  <1>6. \A i, k \in 1 .. 3 : name[i] = name[k] => i = k
    OBVIOUS
  <1> HIDE DEF p, directory, content, name
  <1>7. \A i \in 1 .. 3 : /\ Winget!NormalizeRepoPath(Winget!PathOf(p.files[i].path)) = p.files[i].path
                          /\ Winget!Front(p.files[i].path) = directory
    <2> TAKE i \in 1 .. 3
    <2>1. p.files[i].path = Append(directory, name[i]) /\ IsName(name[i])
      BY <1>4, <1>5
    <2> QED  BY <1>2, <2>1, FileOfDirectory
  <1>8. \A i, k \in 1 .. 3 : p.files[k].path = p.files[i].path => i = k
    <2> SUFFICES ASSUME NEW i \in 1 .. 3, NEW k \in 1 .. 3, p.files[k].path = p.files[i].path
                 PROVE  i = k
      OBVIOUS
    <2>1. directory \in Seq(Component) /\ name[i] \in Component /\ name[k] \in Component
      BY <1>2, <1>5 DEF Names, IsName
    <2>2. Append(directory, name[k]) = Append(directory, name[i])
      BY <1>4
    <2>3. name[k] = name[i]
      BY ONLY <2>1, <2>2, AppendInjective
    <2> QED  BY <1>6, <2>3
  <1>9. Winget!ValidBranch(p.branch) /\ Winget!ValidBranch(p.updateBranch)
    BY <1>1, <1>3 DEF Winget!ParseConfiguration, Winget!ValidBranch, Winget!Given, Winget!Free,
                      Winget!Ordinary, Winget!DeterministicUpdateBranch
  <1>10. Winget!Given(p.repository) /\ Winget!ValidatePullRequest(p.pullRequest)
    BY <1>1, <1>3 DEF Winget!ParseConfiguration, Winget!ValidateRepository, Winget!Given, Winget!Free
  <1>11. p.digest = "sha256"
    BY <1>3 DEF Winget!Plannable
  <1>12. \A i \in 1 .. 3 : p.files[i].content # {} /\ \A k \in 1 .. (i - 1) : p.files[k].path # p.files[i].path
    BY <1>4, <1>5, <1>8
  <1>13. Winget!ParsePayload(p)
    BY <1>3, <1>4, <1>7, <1>9, <1>10, <1>11, <1>12 DEF Winget!ParsePayload
  <1>14. WingetPayloadIsSound(p)
    BY <1>7, <1>13 DEF WingetPayloadIsSound
  <1> QED  BY <1>14 DEF p

WingetPlan ==
    IF Accepted THEN WingetPayloadIsSound(plan) ELSE plan \in WingetConfigurations

\* Only Plan makes something else of the plan, and only a call of what was planned is answered.
LEMMA WingetPlanStands ==
    ASSUME WingetInv, Winget!Next, ~Winget!Plan
    PROVE  plan' = plan /\ (caller' = caller \/ (Accepted /\ Accepted'))
  <1> DEFINE Goes == caller' = caller \/ (Accepted /\ caller'.said \in Answers)
  <1>1. at # "idle" \/ caller.call # "none" \/ caller.owed # "done" => Accepted
    BY DEF WingetInv, Sound, Winget!TypeOK, Winget!Idle, Accepted
  <1>2. ASSUME NEW answer, NEW pull, Winget!Answer(answer, pull)  PROVE caller'.said = answer
    <2>1. AnswerWith(answer, pull)
      BY <1>2, WingetCaller DEF Winget!Answer
    <2>2. caller \in Caller
      BY DEF WingetInv, Sound
    <2> QED  BY <2>1, <2>2 DEF AnswerWith, Caller
  <1>3. ASSUME NEW kind \in {"apply", "reconcile"}, Winget!Begin(kind)
        PROVE  plan' = plan /\ Accepted /\ Accepted'
    <2>1. plan' = plan /\ Accepted
      BY <1>1, <1>3 DEF Winget!Begin, Winget!Call
    <2>2. caller'.said = caller.said
      BY <1>3 DEF Winget!Begin, Winget!Call, WingetInv, Sound, Caller
    <2> QED  BY <2>1, <2>2 DEF Accepted
  <1>4. ASSUME \/ Winget!ReadPayload \/ Winget!NoToken \/ Winget!ResolveDestinationCommit
               \/ Winget!ReadDestinationFiles \/ Winget!ListRemote \/ Winget!CloneToObserve
        PROVE  plan' = plan /\ Goes
    BY <1>1, <1>2, <1>4
    DEF Winget!ReadPayload, Winget!NoToken, Winget!ResolveDestinationCommit, Winget!ReadDestinationFiles,
        Winget!ListRemote, Winget!CloneToObserve, Winget!Goto, Answers, Results, Errors
  <1>5. ASSUME Winget!Decide \/ Winget!CommitAndPush \/ Winget!SubmitPullRequest
        PROVE  plan' = plan /\ Goes
    BY <1>1, <1>2, <1>5
    DEF Winget!Decide, Winget!CommitAndPush, Winget!SubmitPullRequest, Winget!Goto,
        Winget!ClassifyGitPushError, Answers, Results, Errors
  <1>6. ASSUME \/ \E temporary \in BOOLEAN : Winget!ReadFails(temporary)
               \/ \E denied \in BOOLEAN : Winget!ObserveFails(denied)
               \/ \E outcome \in {"unknown", "denied"} : Winget!WorkspaceFails(outcome)
               \/ \E success \in BOOLEAN : Winget!PushReturns(success)
        PROVE  plan' = plan /\ Goes
    BY <1>1, <1>2, <1>6
    DEF Winget!ReadFails, Winget!ObserveFails, Winget!WorkspaceFails, Winget!PushReturns,
        Winget!PushFailed, Winget!Goto, Winget!ClassifyGitPushError, Winget!ClassifyGitReadError,
        Winget!ClassifyGitHubStatus, Answers, Results, Errors
  <1>7. ASSUME \/ Winget!LookupPriorPullRequest \/ Winget!LookupPullRequest
               \/ \E checks \in SUBSET {"success", "failure", "running"} : Winget!LookupValidation(checks)
               \/ \E response \in {"created", "malformed", "refused", "denied", "unknown"} :
                      Winget!SubmitReturns(response)
        PROVE  plan' = plan /\ Goes
    BY <1>1, <1>2, <1>7
    DEF Winget!LookupPriorPullRequest, Winget!LookupPullRequest, Winget!LookupValidation,
        Winget!SubmitReturns, Winget!Observe, Winget!Goto, Answers, Results, Errors
  <1>8. ASSUME Winget!Killed  PROVE plan' = plan /\ Goes
    BY <1>1, <1>8 DEF Winget!Killed, Winget!Kill, WingetInv, Sound, Caller, Answers, Errors
  <1>9. ASSUME NEW request \in flying, Winget!GitHubActs(request) \/ Winget!GitHubDenies(request)
        PROVE  plan' = plan /\ caller' = caller
    BY <1>9 DEF Winget!GitHubActs, Winget!GitHubDenies, Winget!Settled
  <1>10. ASSUME \/ \E tree \in Trees : Winget!OthersCommit(tree)
                \/ Winget!MergePullRequest \/ Winget!ClosePullRequest \/ Winget!ReopenPullRequest
                \/ Winget!OthersSubmit \/ Winget!DeleteBranch \/ Winget!OverwriteBranch
         PROVE  plan' = plan /\ caller' = caller
    BY <1>10
    DEF Winget!OthersCommit, Winget!MergePullRequest, Winget!ClosePullRequest, Winget!ReopenPullRequest,
        Winget!OthersSubmit, Winget!DeleteBranch, Winget!OverwriteBranch, Winget!Others
  <1>11. Goes => caller' = caller \/ (Accepted /\ Accepted')
    BY DEF Accepted, Answers, Results, Errors
  <1> HIDE DEF Goes
  <1> QED
    BY <1>3, <1>4, <1>5, <1>6, <1>7, <1>8, <1>9, <1>10, <1>11 DEF Winget!Next

LEMMA WingetPlanHolds ==
    ASSUME PathAssumption, WingetInv, WingetPlan,
           Winget!Next \/ UNCHANGED <<caller, plan, at, seen, site, flying>>
    PROVE  WingetPlan'
  <1>1. CASE Winget!Plan
    <2> DEFINE accepted == Winget!Plannable(plan)
    <2>1. plan \in WingetConfigurations
      BY <1>1 DEF Winget!Plan, Winget!Planned, Accepted, WingetPlan
    <2>2. /\ caller'.said = (IF accepted THEN "planned" ELSE "misconfigured")
          /\ plan' = IF accepted THEN Winget!PayloadOf(plan) ELSE plan
      BY <1>1 DEF Winget!Plan, Winget!Planned, WingetInv, Sound, Caller
    <2>3. accepted => WingetPayloadIsSound(Winget!PayloadOf(plan))
      BY <2>1, WingetPlannable
    <2> HIDE DEF accepted
    <2> QED  BY <2>1, <2>2, <2>3 DEF WingetPlan, Accepted
  <1>2. CASE Winget!Next /\ ~Winget!Plan
    <2>1. plan' = plan /\ (Accepted <=> Accepted')
      BY <1>2, WingetPlanStands DEF Accepted
    <2> QED  BY <2>1 DEF WingetPlan
  <1>3. CASE UNCHANGED <<caller, plan, at, seen, site, flying>>
    BY <1>3 DEF WingetPlan, Accepted
  <1> QED  BY <1>1, <1>2, <1>3

-----------------------------------------------------------------------------
(* The providers together: a behavior is of one of them, and stays so.     *)

ProvidersInv ==
    /\ provider \in {"homebrew", "winget", "npm", "sdkman"}
    /\ OfEach(HomebrewInv, WingetInv, NpmInv, SdkmanInv)

LEMMA ProvidersInitially == CallerAssumption /\ SiteAssumption /\ Init => ProvidersInv
  <1> SUFFICES ASSUME CallerAssumption, SiteAssumption, Init PROVE ProvidersInv
    OBVIOUS
  <1>1. CASE Is("homebrew") /\ Homebrew!Init
    BY <1>1, HomebrewInitially DEF ProvidersInv, OfEach, Is
  <1>2. CASE Is("winget") /\ Winget!Init
    BY <1>2, WingetInitially DEF ProvidersInv, OfEach, Is
  <1>3. CASE Is("npm") /\ Npm!Init
    BY <1>3, NpmInitially DEF ProvidersInv, OfEach, Is
  <1>4. CASE Is("sdkman") /\ Sdkman!Init
    BY <1>4, SdkmanInitially DEF ProvidersInv, OfEach, Is
  <1> QED  BY <1>1, <1>2, <1>3, <1>4 DEF Init, Is

\* What a step of any provider keeps, and what it does not do.
LEMMA ProvidersStep ==
    ASSUME CallerAssumption, SiteAssumption, ProvidersInv, [Next]_vars
    PROVE  /\ ProvidersInv'
           /\ OfEach(Homebrew!RejectionStands, Winget!RejectionStands,
                     Npm!RejectionStands, Sdkman!RejectionStands)
           /\ OfEach(Homebrew!ReconcileObserves, Winget!ReconcileObserves,
                     Npm!ReconcileObserves, Sdkman!ReconcileObserves)
           /\ OfEach(Homebrew!PublishedIsTrue', Winget!PublishedIsTrue',
                     Npm!PublicationIsTrue, Sdkman!PublicationIsTrue)
           /\ OfEach(Homebrew!FailureIsOver, Winget!FailureIsOver, Npm!FailureIsOver, Sdkman!FailureIsOver)
  <1>1. provider' = provider
    BY DEF Next, vars
  <1>2. CASE Is("homebrew")
    <2>1. HomebrewInv /\ (Homebrew!Next \/ UNCHANGED <<caller, plan, at, seen, site, flying>>)
      BY <1>2 DEF ProvidersInv, OfEach, Next, vars, Is
    <2>2. HomebrewStep
      BY <2>1, HomebrewSteps
    <2> QED  BY <1>1, <1>2, <2>2 DEF HomebrewStep, HomebrewInv, ProvidersInv, OfEach, Is
  <1>3. CASE Is("winget")
    <2>1. WingetInv /\ (Winget!Next \/ UNCHANGED <<caller, plan, at, seen, site, flying>>)
      BY <1>3 DEF ProvidersInv, OfEach, Next, vars, Is
    <2>2. WingetStep
      BY <2>1, WingetSteps
    <2> QED  BY <1>1, <1>3, <2>2 DEF WingetStep, WingetInv, ProvidersInv, OfEach, Is
  <1>4. CASE Is("npm")
    <2>1. NpmInv /\ (Npm!Next \/ UNCHANGED <<caller, plan, at, seen, site, flying>>)
      BY <1>4 DEF ProvidersInv, OfEach, Next, vars, Is
    <2>2. NpmStep
      BY <2>1, NpmSteps
    <2> QED  BY <1>1, <1>4, <2>2 DEF NpmStep, NpmKept, ProvidersInv, OfEach, Is
  <1>5. CASE Is("sdkman")
    <2>1. SdkmanInv /\ (Sdkman!Next \/ UNCHANGED <<caller, plan, at, seen, site, flying>>)
      BY <1>5 DEF ProvidersInv, OfEach, Next, vars, Is
    <2>2. SdkmanStep
      BY <2>1, SdkmanSteps
    <2> QED  BY <1>1, <1>5, <2>2 DEF SdkmanStep, ProvidersInv, OfEach, Is
  <1> QED  BY <1>2, <1>3, <1>4, <1>5 DEF ProvidersInv, Is

(* What the invariant says of the properties.                              *)
LEMMA ProvidersProperties ==
    ASSUME ProvidersInv
    PROVE  /\ TypeOK /\ RepeatsAreSafe /\ SubmittedOnce
           /\ Is("npm") => Npm!PlansAreSound
           /\ Is("sdkman") => Sdkman!PlansAreSound
  <1>1. CASE Is("homebrew") /\ HomebrewInv
    BY <1>1, HomebrewProperties
    DEF TypeOK, RepeatsAreSafe, SubmittedOnce, OfEach, Is
  <1>2. CASE Is("winget") /\ WingetInv
    BY <1>2, WingetProperties
    DEF TypeOK, RepeatsAreSafe, SubmittedOnce, OfEach, Is
  <1>3. CASE Is("npm") /\ NpmInv
    BY <1>3, NpmProperties
    DEF TypeOK, RepeatsAreSafe, SubmittedOnce, OfEach, Is
  <1>4. CASE Is("sdkman") /\ SdkmanInv
    BY <1>4, SdkmanProperties
    DEF TypeOK, RepeatsAreSafe, SubmittedOnce, OfEach, Is
  <1> QED  BY <1>1, <1>2, <1>3, <1>4 DEF ProvidersInv, OfEach, Is

\* The plan of the provider whose behavior it is.
ProvidersPlan == (Is("homebrew") => HomebrewPlan) /\ (Is("winget") => WingetPlan)

LEMMA ProvidersPlanInitially == Init => ProvidersPlan
  BY DEF Init, Is, Homebrew!Init, Winget!Init, Homebrew!Unplanned, Winget!Unplanned, ProvidersPlan,
         HomebrewPlan, WingetPlan, Accepted

LEMMA ProvidersPlanStep ==
    ASSUME PathAssumption, ProvidersInv, ProvidersPlan, [Next]_vars
    PROVE  ProvidersPlan'
  <1>1. provider' = provider
    BY DEF Next, vars
  <1>2. CASE Is("homebrew")
    <2>1. HomebrewInv /\ (Homebrew!Next \/ UNCHANGED <<caller, plan, at, seen, site, flying>>)
      BY <1>2 DEF ProvidersInv, OfEach, Next, vars, Is
    <2>2. HomebrewPlan'
      BY <1>2, <2>1, HomebrewPlanHolds DEF ProvidersPlan
    <2> QED  BY <1>1, <1>2, <2>2 DEF ProvidersPlan, Is
  <1>3. CASE Is("winget")
    <2>1. WingetInv /\ (Winget!Next \/ UNCHANGED <<caller, plan, at, seen, site, flying>>)
      BY <1>3 DEF ProvidersInv, OfEach, Next, vars, Is
    <2>2. WingetPlan'
      BY <1>3, <2>1, WingetPlanHolds DEF ProvidersPlan
    <2> QED  BY <1>1, <1>3, <2>2 DEF ProvidersPlan, Is
  <1> QED  BY <1>1, <1>2, <1>3 DEF ProvidersPlan, Is

-----------------------------------------------------------------------------
(* However calls end, are killed between two steps, are repeated and race  *)
(* with requests that arrive late and with others who publish, what a      *)
(* provider knows at each place of a call fits the destination, and one    *)
(* request at most is outstanding, of the apply that does not know of it.  *)
THEOREM ProvidersInvariantHolds == Spec => []ProvidersInv
  <1>1. Init => ProvidersInv
    BY ProvidersInitially, CallerAssumption, SiteAssumption
  <1>2. ProvidersInv /\ [Next]_vars => ProvidersInv'
    BY ProvidersStep, CallerAssumption, SiteAssumption
  <1> QED  BY <1>1, <1>2, PTL DEF Spec

(* What calls remember, and what the destinations look like, is of its type. *)
THEOREM ProvidersTypeHolds == Spec => []TypeOK
  <1>1. ProvidersInv => TypeOK
    BY ProvidersProperties
  <1> QED  BY <1>1, ProvidersInvariantHolds, PTL

(* Published is said, of a push or a pull request, only when the planned   *)
(* file is in a commit of the base branch.  npm and SDKMAN also say it on  *)
(* the word of their service: then the service carried out the request or, *)
(* in the case that their module names, redirected it and nothing landed.  *)
THEOREM ProvidersPublishedIsTrue == Spec => PublishedIsTrue
  <1>1. ProvidersInv /\ [Next]_vars =>
            [OfEach(Homebrew!PublishedIsTrue', Winget!PublishedIsTrue',
                    Npm!PublicationIsTrue, Sdkman!PublicationIsTrue)]_vars
    BY ProvidersStep, CallerAssumption, SiteAssumption
  <1> QED  BY <1>1, ProvidersInvariantHolds, PTL DEF Spec, PublishedIsTrue

(* The executor makes an apply again only when nothing an earlier one sent *)
(* is outstanding, or an operator authorized it: a provider says RETRYABLE *)
(* of no request whose outcome it does not know.                           *)
THEOREM ProvidersRepeatsAreSafe == Spec => []RepeatsAreSafe
  <1>1. ProvidersInv => RepeatsAreSafe
    BY ProvidersProperties
  <1> QED  BY <1>1, ProvidersInvariantHolds, PTL

(* A provider that says PERMANENT, and so ends the publication, leaves     *)
(* nothing that may still publish, no request of any call and no pull      *)
(* request, but in the cases that the provider's module names.             *)
THEOREM ProvidersDefiniteFailuresAreOver == Spec => DefiniteFailuresAreOver
  <1>1. ProvidersInv /\ [Next]_vars =>
            [OfEach(Homebrew!FailureIsOver, Winget!FailureIsOver,
                    Npm!FailureIsOver, Sdkman!FailureIsOver)]_vars
    BY ProvidersStep, CallerAssumption, SiteAssumption
  <1> QED  BY <1>1, ProvidersInvariantHolds, PTL DEF Spec, DefiniteFailuresAreOver

(* Over any number of calls a provider submits a publication once (npm:    *)
(* once more for each attempt that an operator authorized).                *)
THEOREM ProvidersSubmittedOnce == Spec => []SubmittedOnce
  <1>1. ProvidersInv => SubmittedOnce
    BY ProvidersProperties
  <1> QED  BY <1>1, ProvidersInvariantHolds, PTL

(* When a call answers REJECTED, no request of an earlier call that is     *)
(* still outstanding undoes it, but in the cases that the provider's       *)
(* module names; npm and SDKMAN say it only while others have the place.   *)
THEOREM ProvidersRejectionsStand == Spec => RejectionsStand
  <1>1. ProvidersInv /\ [Next]_vars =>
            [OfEach(Homebrew!RejectionStands, Winget!RejectionStands,
                    Npm!RejectionStands, Sdkman!RejectionStands)]_vars
    BY ProvidersStep, CallerAssumption, SiteAssumption
  <1> QED  BY <1>1, ProvidersInvariantHolds, PTL DEF Spec, RejectionsStand

(* A reconciliation sends nothing and changes nothing at the destination.  *)
THEOREM ProvidersReconcileOnlyObserves == Spec => ReconcileOnlyObserves
  <1>1. ProvidersInv /\ [Next]_vars =>
            [OfEach(Homebrew!ReconcileObserves, Winget!ReconcileObserves,
                    Npm!ReconcileObserves, Sdkman!ReconcileObserves)]_vars
    BY ProvidersStep, CallerAssumption, SiteAssumption
  <1> QED  BY <1>1, ProvidersInvariantHolds, PTL DEF Spec, ReconcileOnlyObserves

(* No provider's Plan accepts a configuration whose payload its apply or   *)
(* its reconcile would refuse, whatever the configuration: cleaning a path *)
(* once leaves nothing to clean, WinGet's manifests are three files of one *)
(* directory even for a version of two dots, and Homebrew's formula sets   *)
(* up the Java version that it depends on.                                 *)
THEOREM ProvidersPlansAreSound == Spec => []PlansAreSound
  <1>1. Init => ProvidersPlan
    BY ProvidersPlanInitially
  <1>2. ProvidersInv /\ ProvidersPlan /\ [Next]_vars => ProvidersPlan'
    BY ProvidersPlanStep, PathAssumption
  <1>3. ProvidersInv /\ ProvidersPlan => PlansAreSound
    <2> SUFFICES ASSUME ProvidersInv, ProvidersPlan PROVE PlansAreSound
      OBVIOUS
    <2>1. Is("homebrew") => Homebrew!PlansAreSound
      BY DEF ProvidersPlan, HomebrewPlan, HomebrewPayloadIsSound, Accepted, Homebrew!PlansAreSound
    <2>2. Is("winget") => Winget!PlansAreSound
      BY DEF ProvidersPlan, WingetPlan, WingetPayloadIsSound, Accepted, Winget!PlansAreSound
    <2>3. (Is("npm") => Npm!PlansAreSound) /\ (Is("sdkman") => Sdkman!PlansAreSound)
      BY ProvidersProperties
    <2> QED  BY <2>1, <2>2, <2>3 DEF PlansAreSound, OfEach, ProvidersInv, Is
  <1> QED  BY <1>1, <1>2, <1>3, ProvidersInvariantHolds, PTL DEF Spec
=============================================================================
