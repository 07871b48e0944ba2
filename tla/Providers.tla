------------------------------ MODULE Providers ------------------------------
(***************************************************************************)
(* The four providers under one executor (`ProviderCaller`).  A behavior   *)
(* is of one of them, fixed by `provider`; what a plan, a place in a call, *)
(* an observation, a destination and a request are is the provider's.      *)
(***************************************************************************)
EXTENDS Sequences, ProviderCaller

CONSTANTS HomebrewConfigurations, WingetConfigurations, NpmConfigurations, SdkmanConfigurations,
          Trees,           \* what commits of winget's destination may hold
          MaxTips,         \* bound: commits of a tap
          MaxMerges        \* bound: commits and pull requests of winget's destination

VARIABLES provider, plan, at, seen, site, flying

vars == <<provider, caller, plan, at, seen, site, flying>>

Homebrew == INSTANCE HomebrewProvider WITH Configurations <- HomebrewConfigurations
Winget == INSTANCE WingetProvider WITH
    Configurations <- WingetConfigurations, MaxTips <- MaxMerges, MaxPulls <- MaxMerges
Npm == INSTANCE NpmProvider WITH Configurations <- NpmConfigurations
Sdkman == INSTANCE SdkmanProvider WITH Configurations <- SdkmanConfigurations

(* A tap may have a commit, and winget's destination has one.  Commits     *)
(* are compared file by file, and a merge brings all files as planned.     *)
ASSUME SiteAssumption ==
    /\ MaxTips \in Nat \ {0} /\ MaxMerges \in Nat \ {0}
    /\ Winget!AllSame \in Trees
    /\ Trees \subseteq [DOMAIN Winget!AllSame -> {"same", "different", "none"}]

(* The components of a path are texts.                                     *)
ASSUME PathAssumption ==
    /\ \A c \in HomebrewConfigurations : c.path.parts \in Seq(STRING)
    /\ \A c \in WingetConfigurations : c.root.parts \in Seq(STRING)

-----------------------------------------------------------------------------
Is(name) == provider = name

Init ==
    \/ provider = "homebrew" /\ Homebrew!Init
    \/ provider = "winget" /\ Winget!Init
    \/ provider = "npm" /\ Npm!Init
    \/ provider = "sdkman" /\ Sdkman!Init

Next ==
    /\ UNCHANGED provider
    /\ \/ Is("homebrew") /\ Homebrew!Next
       \/ Is("winget") /\ Winget!Next
       \/ Is("npm") /\ Npm!Next
       \/ Is("sdkman") /\ Sdkman!Next

Spec == Init /\ [][Next]_vars

(* The properties of the providers, each stated in the provider's module.  *)
OfEach(homebrew, winget, npm, sdkman) ==
    CASE Is("homebrew") -> homebrew [] Is("winget") -> winget [] Is("npm") -> npm [] Is("sdkman") -> sdkman

(* What a call may remember, and what the site may look like.              *)
TypeOK == OfEach(Homebrew!TypeOK, Winget!TypeOK, Npm!TypeOK, Sdkman!TypeOK)

(* An apply is made again only when nothing an earlier one sent is         *)
(* outstanding, unless an operator authorized it.                          *)
RepeatsAreSafe ==
    OfEach(Homebrew!RepeatsAreSafe, Winget!RepeatsAreSafe, Npm!RepeatsAreSafe, Sdkman!RepeatsAreSafe)

(* However calls fail, are killed and are repeated, a publication is       *)
(* submitted once, or once more for each authorized attempt.               *)
SubmittedOnce ==
    OfEach(Homebrew!SubmittedOnce, Winget!SubmittedOnce, Npm!SubmittedOnce, Sdkman!SubmittedOnce)

(* What Plan accepts, apply and reconcile accept.                          *)
PlansAreSound ==
    OfEach(Homebrew!PlansAreSound, Winget!PlansAreSound, Npm!PlansAreSound, Sdkman!PlansAreSound)

(* A provider answers published only when the planned content is, or was,  *)
(* at the destination, or when SDKMAN accepted it and the evidence says    *)
(* so; unless npm or SDKMAN's older API followed a redirect.               *)
PublishedIsTrue ==
    [][OfEach(Homebrew!PublishedIsTrue', Winget!PublishedIsTrue',
              Npm!PublicationIsTrue, Sdkman!PublicationIsTrue)]_vars

(* A failure that ends a publication leaves nothing outstanding that could *)
(* still publish it, but in the cases that each provider's module names: a *)
(* pull request whose answer was not understood, an earlier attempt when   *)
(* an operator authorized another, a redirect.                             *)
DefiniteFailuresAreOver ==
    [][OfEach(Homebrew!FailureIsOver, Winget!FailureIsOver, Npm!FailureIsOver, Sdkman!FailureIsOver)]_vars

(* A rejection is not undone by a request that is outstanding, but in the  *)
(* cases that each provider's module names.                                *)
RejectionsStand ==
    [][OfEach(Homebrew!RejectionStands, Winget!RejectionStands,
              Npm!RejectionStands, Sdkman!RejectionStands)]_vars

(* A reconciliation only observes, it sends nothing.                       *)
ReconcileOnlyObserves ==
    [][OfEach(Homebrew!ReconcileObserves, Winget!ReconcileObserves,
              Npm!ReconcileObserves, Sdkman!ReconcileObserves)]_vars
=============================================================================
