---------------------------- MODULE PlanningProof ----------------------------
(***************************************************************************)
(* Theorems about Planning, for any commands, targets, executables,        *)
(* configurations and changes by others.                                   *)
(*                                                                         *)
(* The properties speak of a plan that is executed, perhaps long after     *)
(* the executables it was made with are gone; what they promise was        *)
(* settled while it was made, by reads of one file at four times.  The     *)
(* invariant therefore says of a command that makes a plan what its reads  *)
(* still tell it: without an upgrade, everything (Fresh, Described); after *)
(* one, that a plan with operations of another executable carries a digest *)
(* that the file it will be retained from no longer has (Suspect).  What   *)
(* is bound and kept follows the plan (FitsBinding, Kept), and a plan that *)
(* is saved keeps what its origin says of it (OriginSafe).                 *)
(***************************************************************************)
EXTENDS Planning, TLAPS, WellFoundedInduction

-----------------------------------------------------------------------------
(* Plans.                                                                  *)

Versions == {b.version : b \in Builds}
PlanFields == {"release", "targets", "operations", "source"}

\* The parts of a plan fit together, and it is about one artifact.
PlanSound(p) ==
    /\ DOMAIN p = PlanFields
    /\ DOMAIN p.targets \subseteq Targets
    /\ \A t \in DOMAIN p.targets : p.targets[t].digest \in Builds /\ p.targets[t].version \in Versions
    /\ \A s, t \in DOMAIN p.targets :
          p.targets[s].version = p.targets[t].version => p.targets[s].digest = p.targets[t].digest
    /\ \A o \in p.operations : o.target \in DOMAIN p.targets /\ o.payload.artifact = p.release

OperationsOf(p, t) == {o \in p.operations : o.target = t}

\* The executable with the digest of t is the one that described itself.
Described(p, t) ==
    LET build == p.targets[t].digest
    IN  /\ ValidDescription(build)
        /\ p.targets[t].version = build.version
        /\ p.targets[t].requirements = build.requires \union build.demands
        /\ RequiredCapabilities(OperationsOf(p, t)) \subseteq build.capabilities

\* ... and the one that planned.
Unmixed(p, t) == \A o \in OperationsOf(p, t) : o.payload.computedBy = p.targets[t].digest

\* What the upgrades during its making leave of a plan.
PlanHonest(p, upgrades) ==
    /\ upgrades = 0 => \A t \in DOMAIN p.targets : Described(p, t)
    /\ upgrades < 2 => \A t \in DOMAIN p.targets : Unmixed(p, t)

-----------------------------------------------------------------------------
(* What a command, r, knows at each of its steps.                          *)

Fields ==
    {"kind", "pc", "config", "todo", "described", "hashed", "plan", "bindings", "from", "left",
     "explicit", "trusted", "upgrades"}

Describing == {"describe", "hash", "ask"}
Sourcing   == Describing \union {"inventory", "check"}
Making     == Sourcing \union {"keep", "receipt", "save"}
Retaining  == {"check", "keep", "receipt", "save"}
Running    == {"register", "open", "bind", "execute"}

CommandTyped(r) ==
    /\ DOMAIN r = Fields
    /\ r.pc \in CommandSteps
    /\ r.kind \in {"none", "plan", "publish", "apply", "reconcile"}
    /\ r.upgrades \in 0..2
    /\ r.pc \in Making \union Running => PlanSound(r.plan)
    /\ r.pc \in Making => r.config \in Configurations

\* How far it has come with the targets of the configuration.
Visits(r) ==
    /\ r.pc \in Sourcing => r.todo # {} /\ r.todo \subseteq DOMAIN r.config.targets
    /\ r.pc \in Describing => DOMAIN r.plan.targets = DOMAIN r.config.targets \ r.todo
    /\ r.pc = "inventory" => r.todo = DOMAIN r.config.targets
    /\ r.pc \in Making \ Describing => DOMAIN r.plan.targets = DOMAIN r.config.targets

\* Where the executables were found, and what was seen of them.
Found(r) ==
    /\ \A place \in Places :
          /\ r.described[place] # NoBuild =>
                r.described[place] \in Builds /\ ValidDescription(r.described[place])
          /\ r.hashed[place] # NoBuild => r.hashed[place] \in Builds
    /\ DOMAIN r.described = Places /\ DOMAIN r.hashed = Places
    /\ DOMAIN r.plan.targets \subseteq DOMAIN r.from
    /\ \A t \in DOMAIN r.from :
          /\ t \in DOMAIN r.config.targets
          /\ r.from[t] \in Places
          /\ r.config.targets[t] # "" => r.from[t] = r.config.targets[t]
    /\ r.pc \in {"hash", "ask"} =>
          FirstOf(r.todo) \in DOMAIN r.from /\ r.described[r.from[FirstOf(r.todo)]] # NoBuild
    /\ r.pc = "ask" =>
          LET place == r.from[FirstOf(r.todo)]
          IN  /\ r.hashed[place] # NoBuild
              /\ OneDigestPerVersion(r, r.described[place].version, r.hashed[place])

\* Without an upgrade, what was seen of the executables is still so; with one, only of one place
\* it is not.
Fresh(r) ==
    /\ r.upgrades = 0 =>
          /\ \A place \in Places : /\ r.described[place] \in {NoBuild, disk[place]}
                                   /\ r.hashed[place] \in {NoBuild, disk[place]}
          /\ \A t \in DOMAIN r.from : r.from[t] = Resolve(r.config.targets[t])
    /\ r.upgrades = 1 /\ r.hashed["elsewhere"] \notin {NoBuild, disk["elsewhere"]} =>
          \A t \in DOMAIN r.from :
              r.config.targets[t] = "" /\ r.from[t] = "elsewhere" => disk["installed"] = NoBuild

\* A plan with operations of another executable waits for the digest that will give it away.
Suspect(r, t) ==
    /\ r.upgrades = 1
    /\ r.pc \in Sourcing /\ (r.pc = "check" => t \in r.todo)
    /\ disk[Resolve(r.config.targets[t])] # r.plan.targets[t].digest

Honest(r) ==
    /\ r.upgrades = 0 => \A t \in DOMAIN r.plan.targets : Described(r.plan, t)
    /\ r.upgrades < 2 => \A t \in DOMAIN r.plan.targets : Unmixed(r.plan, t) \/ Suspect(r, t)

\* What is to be retained, for the targets whose executables were hashed again.
Checked(r) == IF r.pc = "check" THEN DOMAIN r.plan.targets \ r.todo ELSE DOMAIN r.plan.targets

FitsBinding(r, t) ==
    LET version == r.plan.targets[t].version
    IN  /\ version \in DOMAIN r.bindings
        /\ r.bindings[version].digest = r.plan.targets[t].digest
        /\ r.bindings[version].trusted => r.from[t] = "installed" /\ r.config.targets[t] = ""

BindingsSound(r) ==
    /\ \A t \in Checked(r) : FitsBinding(r, t)
    /\ \A v \in DOMAIN r.bindings :
          /\ \E t \in Checked(r) : r.plan.targets[t].version = v
          /\ r.bindings[v] \in [place : Places, digest : Builds, trusted : BOOLEAN]
          /\ r.bindings[v].trusted => r.bindings[v].digest \in held

\* What was retained already.
Kept(r, v) ==
    /\ r.bindings[v].digest \in retained
    /\ receipts[r.bindings[v].digest] = [version |-> v, trusted |-> r.bindings[v].trusted]

Left(r) ==
    /\ r.left \subseteq DOMAIN r.bindings
    /\ r.pc = "check" => r.left = DOMAIN r.bindings
    /\ r.pc \in {"keep", "receipt"} => r.left # {}
    /\ r.pc = "receipt" => r.bindings[Current(r)].digest \in retained
    /\ r.pc = "save" => r.left = {}
    /\ \A v \in DOMAIN r.bindings \ r.left : Kept(r, v)

\* A command that executes with default credentials bound every target to a trusted receipt.
Ambient(r) ==
    r.trusted => \A t \in DOMAIN r.plan.targets :
        /\ receipts[r.plan.targets[t].digest] # NoReceipt
        /\ receipts[r.plan.targets[t].digest].trusted
        /\ r.config.targets[t] = ""

CommandSafe(r) ==
    /\ CommandTyped(r)
    /\ r.pc \in Making => Visits(r) /\ Found(r) /\ Honest(r)
    /\ r.pc \in Describing => Fresh(r)
    /\ r.pc \in Describing \union {"inventory"} => r.bindings = Empty /\ r.left = {}
    /\ r.pc \in Retaining => BindingsSound(r) /\ Left(r)
    /\ r.pc \in Running => r.plan \in saved
    /\ r.pc = "execute" => Ambient(r)

-----------------------------------------------------------------------------
(* The project.                                                            *)

StoreSafe ==
    /\ disk["installed"] # NoBuild => disk["installed"] \in held
    /\ \A b \in Builds : receipts[b] # NoReceipt /\ receipts[b].trusted => b \in held

SavedSafe ==
    /\ \A p \in saved : PlanSound(p) /\ \A t \in DOMAIN p.targets : Resolvable(p.targets[t])
    /\ registered \subseteq {PlanID(p) : p \in saved}

\* What a saved plan owes to its origin.
OriginSafe(r) ==
    /\ \E p \in saved : r.plan = PlanID(p)
    /\ r.upgrades \in 0..2
    /\ PlanHonest(r.plan, r.upgrades)
    /\ \A t \in DOMAIN r.plan.targets :
          receipts[r.plan.targets[t].digest].trusted => r.from[t] = "installed" /\ r.named[t] = ""

Safety ==
    /\ StoreSafe
    /\ SavedSafe
    /\ \A r \in origins : OriginSafe(r)
    /\ DOMAIN command = Commands
    /\ \A c \in Commands : CommandSafe(command[c])

IInv == TypeOK /\ Safety

-----------------------------------------------------------------------------
(* Orders, plans and their identities.                                     *)

LEMMA LeastIsLeast ==
    ASSUME NEW S, S \subseteq Nat, S # {}
    PROVE  Least(S) \in S /\ \A n \in S : Least(S) <= n
<1> DEFINE R == {ss \in Nat \X Nat : ss[1] < ss[2]}
<1>1. R = OpToRel(<, Nat)
  BY DEF OpToRel
<1>2. IsWellFoundedOn(R, Nat)
  BY <1>1, NatLessThanWellFounded
<1>3. PICK m \in S : \A n \in S : ~ (<<n, m>> \in R)
  <2> HIDE DEF R
  <2> QED BY <1>2, WFMin
<1>4. ASSUME NEW n \in S PROVE m <= n
  <2>1. ~ (<<n, m>> \in R)
    BY <1>3
  <2>2. n \in Nat /\ m \in Nat
    OBVIOUS
  <2>3. n < m => <<n, m>> \in R
    BY <2>2
  <2> QED
    BY <2>1, <2>2, <2>3
<1> QED
  BY <1>4 DEF Least

LEMMA FirstIsAmong ==
    ASSUME NEW S, S \subseteq Targets, S # {}
    PROVE  FirstOf(S) \in S
<1> DEFINE places == {i \in DOMAIN TargetOrder : TargetOrder[i] \in S}
<1>1. places \subseteq Nat /\ places # {}
  BY TargetAssumption DEF Targets
<1>2. Least(places) \in places
  BY <1>1, LeastIsLeast
<1> QED
  BY <1>2 DEF FirstOf

LEMMA IdentityKeeps ==
    ASSUME NEW p, DOMAIN p = PlanFields
    PROVE  /\ PlanID(p).targets = p.targets
           /\ PlanID(p).operations = p.operations
           /\ PlanID(p).release = p.release
  BY DEF PlanID, PlanFields

\* Only what counts for the identity of a plan is asked of it.
LEMMA IdentityIsSound ==
    ASSUME NEW p, NEW q, PlanID(p) = PlanID(q), DOMAIN p = PlanFields, DOMAIN q = PlanFields,
           NEW upgrades
    PROVE  /\ p.targets = q.targets /\ p.operations = q.operations /\ p.release = q.release
           /\ PlanHonest(PlanID(p), upgrades) <=> PlanHonest(p, upgrades)
<1>1. /\ PlanID(p).targets = p.targets /\ PlanID(q).targets = q.targets
      /\ PlanID(p).operations = p.operations /\ PlanID(q).operations = q.operations
      /\ PlanID(p).release = p.release /\ PlanID(q).release = q.release
  BY IdentityKeeps
<1>2. PlanHonest(PlanID(p), upgrades) <=> PlanHonest(p, upgrades)
  BY <1>1 DEF PlanHonest, Described, Unmixed, OperationsOf
<1> QED
  BY <1>1, <1>2

LEMMA InitSafe == Init => IInv
<1> SUFFICES ASSUME Init PROVE IInv
  OBVIOUS
<1>1. TypeOK
  <2>1. /\ disk \in Disks /\ configuration \in Configurations
        /\ held = {disk["installed"]} \ {NoBuild}
    BY StartAssumption DEF Init
  <2>2. held \subseteq Builds
    BY <2>1 DEF Disks, Places
  <2>3. artifacts \in [Sources -> Digests] /\ receipts \in [Builds -> Receipts \union {NoReceipt}]
    BY DEF Init
  <2>4. \A c \in Commands : command[c] = NoCommand
    BY DEF Init
  <2>5. NoCommand.pc = "idle" /\ NoCommand.kind = "none"
    BY DEF NoCommand
  <2> QED
    BY <2>1, <2>2, <2>3, <2>4, <2>5, BoundAssumption DEF Init, TypeOK, CommandSteps
<1>2. \A c \in Commands : CommandSafe(command[c])
  BY DEF Init, CommandSafe, CommandTyped, NoCommand, Fields, CommandSteps, Making, Sourcing, Running, Describing,
         Retaining
<1> QED
  BY <1>1, <1>2 DEF Init, IInv, Safety, StoreSafe, SavedSafe

-----------------------------------------------------------------------------
(* The steps of a command, c, up to what they make of its record.  The     *)
(* project is as it was unless the lemma is about a step that changes it.  *)

\* What c knows.
LEMMA Known ==
    ASSUME IInv, NEW c \in Commands
    PROVE  CommandSafe(command[c])
  BY DEF IInv, Safety

LEMMA NextTarget ==
    ASSUME NEW r, CommandTyped(r), Visits(r), r.pc \in Sourcing
    PROVE  /\ FirstOf(r.todo) \in r.todo
           /\ FirstOf(r.todo) \in DOMAIN r.config.targets
           /\ DOMAIN r.config.targets \subseteq Targets
<1>1. r.config \in Configurations /\ r.todo # {} /\ r.todo \subseteq DOMAIN r.config.targets
  BY DEF CommandTyped, Visits, Making
<1>2. DOMAIN r.config.targets \subseteq Targets
  BY <1>1, ConfigurationAssumption
<1>3. FirstOf(r.todo) \in r.todo
  BY <1>1, <1>2, FirstIsAmong
<1> QED
  BY <1>1, <1>2, <1>3

LEMMA ResolvesToPlace ==
    ASSUME NEW config \in Configurations, NEW t \in DOMAIN config.targets
    PROVE  Resolve(config.targets[t]) \in Places
  BY ConfigurationAssumption DEF Resolve, Places

LEMMA InvokePlanSafe ==
    ASSUME IInv, NEW c \in Commands, InvokePlan(c)
    PROVE  CommandSafe(command'[c])
<1> DEFINE s == command'[c]
<1>1. s = [NoCommand EXCEPT !.pc = "describe", !.config = configuration,
                            !.todo = DOMAIN configuration.targets, !.plan = EmptyPlan]
  BY DEF InvokePlan, Become, IInv, Safety
<1>2. /\ DOMAIN s = Fields /\ s.kind = "none" /\ s.pc = "describe" /\ s.config = configuration
      /\ s.todo = DOMAIN configuration.targets /\ s.plan = EmptyPlan /\ s.upgrades = 0
      /\ s.described = [p \in Places |-> NoBuild] /\ s.hashed = [p \in Places |-> NoBuild]
      /\ s.bindings = Empty /\ s.from = Empty /\ s.left = {}
  BY <1>1 DEF NoCommand, Fields
<1>3. configuration \in Configurations /\ DOMAIN configuration.targets # {}
  BY ConfigurationAssumption DEF IInv, TypeOK
<1>4. /\ DOMAIN s.plan.targets = {} /\ s.plan.operations = {} /\ DOMAIN s.plan = PlanFields
      /\ DOMAIN s.from = {}
  BY <1>2 DEF EmptyPlan, Empty, PlanFields
<1> HIDE DEF s
<1>5. CommandTyped(s)
  BY <1>2, <1>3, <1>4 DEF CommandTyped, PlanSound, CommandSteps
<1>6. Visits(s)
  BY <1>2, <1>3, <1>4 DEF Visits, Sourcing, Describing, Making
<1>7. Found(s)
  BY <1>2, <1>4 DEF Found
<1>8. Honest(s) /\ Fresh(s)
  BY <1>2, <1>4 DEF Honest, Fresh, Places
<1>9. CommandSafe(s)
  BY <1>2, <1>5, <1>6, <1>7, <1>8 DEF CommandSafe, Describing, Retaining, Running
<1> QED
  BY <1>9 DEF s

LEMMA InvokeApplySafe ==
    ASSUME IInv, NEW c \in Commands, NEW plan \in saved, InvokeApply(c, plan)
    PROVE  CommandSafe(command'[c])
<1> DEFINE s == command'[c]
<1>1. s = [NoCommand EXCEPT !.pc = "open", !.plan = plan]
  BY DEF InvokeApply, Become, IInv, Safety
<1>2. DOMAIN s = Fields /\ s.kind = "none" /\ s.pc = "open" /\ s.plan = plan /\ s.upgrades = 0
  BY <1>1 DEF NoCommand, Fields
<1>3. PlanSound(plan)
  BY DEF IInv, Safety, SavedSafe
<1> HIDE DEF s
<1>4. CommandSafe(s)
  BY <1>2, <1>3 DEF CommandSafe, CommandTyped, CommandSteps, Making, Sourcing, Describing, Retaining
<1> QED
  BY <1>4 DEF s

LEMMA FinishedIsSafe == CommandSafe(Finished)
  BY DEF CommandSafe, CommandTyped, Finished, NoCommand, Fields, CommandSteps, Making, Sourcing,
         Running, Describing, Retaining

LEMMA FailsSafely ==
    ASSUME IInv, NEW c \in Commands, Fail(c)
    PROVE  CommandSafe(command'[c])
<1>1. command'[c] = Finished
  BY DEF Fail, Become, IInv, Safety
<1> QED
  BY <1>1, FinishedIsSafe

LEMMA DescribeSafe ==
    ASSUME IInv, NEW c \in Commands, Describe(c)
    PROVE  CommandSafe(command'[c])
<1> DEFINE r == command[c]
           s == command'[c]
           target == FirstOf(r.todo)
           place == Resolve(r.config.targets[target])
           answer == IF r.described[place] # NoBuild THEN r.described[place] ELSE disk[place]
<1>1. CASE Fail(c)
  BY <1>1, FailsSafely
<1>2. CASE ~ Fail(c)
  <2>1. /\ r.pc = "describe" /\ answer # NoBuild /\ ValidDescription(answer)
        /\ s = [r EXCEPT !.described[place] = answer, !.pc = "hash",
                         !.from = [t \in DOMAIN @ \union {target} |-> IF t = target THEN place ELSE @[t]]]
    BY <1>2 DEF Describe, Become, Place, Target, IInv, Safety
  <2>2. CommandSafe(r)
    BY Known
  <2>3. CommandTyped(r) /\ Visits(r) /\ Found(r) /\ Honest(r) /\ Fresh(r)
    BY <2>1, <2>2 DEF CommandSafe, Making, Sourcing, Describing
  <2>4. r.bindings = Empty /\ r.left = {}
    BY <2>1, <2>2 DEF CommandSafe, Describing
  <2>5. DOMAIN r = Fields
    BY <2>3 DEF CommandTyped
  <2>6. /\ target \in r.todo /\ target \in DOMAIN r.config.targets
        /\ r.config \in Configurations /\ place \in Places
    <3>1. r.pc \in Sourcing /\ r.pc \in Making
      BY <2>1 DEF Sourcing, Describing, Making
    <3>2. r.config \in Configurations
      BY <2>3, <3>1 DEF CommandTyped
    <3> QED
      BY <2>3, <3>1, <3>2, NextTarget, ResolvesToPlace
  <2>7. answer \in Builds
    BY <2>1, <2>3, <2>6, ZenonT(60) DEF Found, IInv, TypeOK, Disks
  <2>8. DOMAIN r.described = Places
    BY <2>3 DEF Found
  <2>9. /\ DOMAIN s = Fields /\ s.kind = r.kind /\ s.pc = "hash" /\ s.config = r.config
        /\ s.todo = r.todo /\ s.plan = r.plan /\ s.upgrades = r.upgrades
        /\ s.described = [r.described EXCEPT ![place] = answer] /\ s.hashed = r.hashed
        /\ s.bindings = r.bindings /\ s.left = r.left
        /\ s.from = [t \in DOMAIN r.from \union {target} |-> IF t = target THEN place ELSE r.from[t]]
    BY <2>1, <2>5 DEF Fields
  <2> HIDE DEF s, r
  <2>10. CommandTyped(s)
    BY <2>1, <2>3, <2>9 DEF CommandTyped, CommandSteps, Making, Sourcing, Describing
  <2>11. Visits(s)
    BY <2>1, <2>3, <2>9 DEF Visits, Making, Sourcing, Describing
  <2>12. Found(s)
    <3>1. r.config.targets[target] # "" => place = r.config.targets[target]
      BY DEF Resolve
    <3>2. ASSUME NEW p \in Places
          PROVE  /\ s.described[p] # NoBuild =>
                        s.described[p] \in Builds /\ ValidDescription(s.described[p])
                 /\ s.hashed[p] # NoBuild => s.hashed[p] \in Builds
      <4>1. /\ r.described[p] # NoBuild => r.described[p] \in Builds /\ ValidDescription(r.described[p])
            /\ r.hashed[p] # NoBuild => r.hashed[p] \in Builds
        BY <2>3 DEF Found
      <4>2. CASE p = place
        <5>1. s.described[p] = answer
          BY <2>8, <2>9, <4>2
        <5>2. ValidDescription(answer)
          BY <2>1
        <5>3. s.hashed[p] = r.hashed[p]
          BY <2>9
        <5> HIDE DEF answer
        <5> QED
          BY <2>7, <4>1, <5>1, <5>2, <5>3
      <4>3. CASE p # place
        BY <2>8, <2>9, <4>1, <4>3
      <4> QED
        BY <4>2, <4>3
    <3>3. DOMAIN s.described = Places /\ DOMAIN s.hashed = Places
      BY <2>3, <2>8, <2>9 DEF Found
    <3>4. /\ DOMAIN s.from = DOMAIN r.from \union {target} /\ s.from[target] = place
          /\ \A t \in DOMAIN r.from \ {target} : s.from[t] = r.from[t]
      BY <2>9
    <3>5. ASSUME NEW t \in DOMAIN s.from
          PROVE  /\ t \in DOMAIN s.config.targets
                 /\ s.from[t] \in Places
                 /\ s.config.targets[t] # "" => s.from[t] = s.config.targets[t]
      <4> HIDE DEF target, place, answer
      <4>1. s.config = r.config
        BY <2>9
      <4>2. CASE t = target
        BY <2>6, <3>1, <3>4, <4>1, <4>2
      <4>3. CASE t # target
        <5>1. t \in DOMAIN r.from /\ s.from[t] = r.from[t]
          BY <3>4, <3>5, <4>3
        <5>2. /\ t \in DOMAIN r.config.targets
              /\ r.from[t] \in Places
              /\ r.config.targets[t] # "" => r.from[t] = r.config.targets[t]
          BY <2>3, <5>1 DEF Found
        <5> QED
          BY <4>1, <5>1, <5>2
      <4> QED
        BY <4>2, <4>3
    <3>6. DOMAIN s.plan.targets \subseteq DOMAIN s.from
      BY <2>3, <2>9, <3>4 DEF Found
    <3>7. s.described[place] # NoBuild
      <4> HIDE DEF target, place, answer
      <4>1. s.described[place] = answer
        BY <2>6, <2>8, <2>9
      <4> QED
        BY <2>1, <4>1
    <3> QED
      BY <2>9, <3>2, <3>3, <3>4, <3>5, <3>6, <3>7 DEF Found
  <2>13. Honest(s)
    BY <2>1, <2>3, <2>9, ZenonT(60) DEF Honest, Suspect, Sourcing, Describing
  <2>14. Fresh(s)
    <3>1. r.upgrades = 0 => answer = disk[place]
      BY <2>3, <2>6 DEF Fresh
    <3>2. r.config.targets[target] = "" /\ place = "elsewhere" => disk["installed"] = NoBuild
      BY DEF Resolve
    <3> QED
      BY <2>3, <2>6, <2>8, <2>9, <3>1, <3>2, ZenonT(60) DEF Fresh
  <2>15. CommandSafe(s)
    BY <2>4, <2>9, <2>10, <2>11, <2>12, <2>13, <2>14 DEF CommandSafe, Retaining, Running
  <2> QED
    BY <2>15 DEF s
<1> QED
  BY <1>1, <1>2

LEMMA HashProviderSafe ==
    ASSUME IInv, NEW c \in Commands, HashProvider(c)
    PROVE  CommandSafe(command'[c])
<1> DEFINE r == command[c]
           s == command'[c]
           target == FirstOf(r.todo)
           place == r.from[target]
           digest == IF r.hashed[place] # NoBuild THEN r.hashed[place] ELSE disk[place]
<1>1. CASE Fail(c)
  BY <1>1, FailsSafely
<1>2. CASE ~ Fail(c)
  <2>1. /\ r.pc = "hash" /\ digest # NoBuild
        /\ OneDigestPerVersion(r, r.described[place].version, digest)
        /\ s = [r EXCEPT !.hashed[place] = digest, !.pc = "ask"]
    BY <1>2 DEF HashProvider, Become, Target, IInv, Safety
  <2>2. CommandSafe(r)
    BY Known
  <2>3. CommandTyped(r) /\ Visits(r) /\ Found(r) /\ Honest(r) /\ Fresh(r)
    BY <2>1, <2>2 DEF CommandSafe, Making, Sourcing, Describing
  <2>4. r.bindings = Empty /\ r.left = {}
    BY <2>1, <2>2 DEF CommandSafe, Describing
  <2>5. DOMAIN r = Fields
    BY <2>3 DEF CommandTyped
  <2>6. target \in DOMAIN r.from /\ place \in Places /\ r.described[place] # NoBuild
    BY <2>1, <2>3 DEF Found
  <2>7. digest \in Builds
    BY <2>1, <2>3, <2>6, ZenonT(60) DEF Found, IInv, TypeOK, Disks
  <2>8. DOMAIN r.hashed = Places
    BY <2>3 DEF Found
  <2>9. /\ DOMAIN s = Fields /\ s.kind = r.kind /\ s.pc = "ask" /\ s.config = r.config
        /\ s.todo = r.todo /\ s.plan = r.plan /\ s.upgrades = r.upgrades
        /\ s.described = r.described /\ s.hashed = [r.hashed EXCEPT ![place] = digest]
        /\ s.bindings = r.bindings /\ s.left = r.left /\ s.from = r.from
    BY <2>1, <2>5 DEF Fields
  <2> HIDE DEF s, r
  <2>10. CommandTyped(s)
    BY <2>1, <2>3, <2>9 DEF CommandTyped, CommandSteps, Making, Sourcing, Describing
  <2>11. Visits(s)
    BY <2>1, <2>3, <2>9 DEF Visits, Making, Sourcing, Describing
  <2>12. Found(s)
    <3>1. \A p \in Places :
             /\ s.described[p] # NoBuild => s.described[p] \in Builds /\ ValidDescription(s.described[p])
             /\ s.hashed[p] # NoBuild => s.hashed[p] \in Builds
      BY <2>3, <2>7, <2>8, <2>9 DEF Found
    <3>2. DOMAIN s.described = Places /\ DOMAIN s.hashed = Places
      BY <2>3, <2>8, <2>9 DEF Found
    <3>3. s.hashed[place] = digest
      BY <2>6, <2>8, <2>9
    <3>4. OneDigestPerVersion(s, s.described[place].version, s.hashed[place])
      BY <2>1, <2>9, <3>3, ZenonT(60) DEF OneDigestPerVersion
    <3>5. /\ DOMAIN s.plan.targets \subseteq DOMAIN s.from
          /\ \A t \in DOMAIN s.from :
                /\ t \in DOMAIN s.config.targets
                /\ s.from[t] \in Places
                /\ s.config.targets[t] # "" => s.from[t] = s.config.targets[t]
      BY <2>3, <2>9, ZenonT(60) DEF Found
    <3> HIDE DEF digest
    <3> QED
      BY <2>1, <2>6, <2>9, <3>1, <3>2, <3>3, <3>4, <3>5 DEF Found
  <2>13. Honest(s)
    BY <2>1, <2>3, <2>9, ZenonT(60)
       DEF Honest, Suspect, Sourcing, Describing
  <2>14. Fresh(s)
    BY <2>3, <2>6, <2>8, <2>9, ZenonT(60) DEF Fresh, Places
  <2>15. CommandSafe(s)
    BY <2>4, <2>9, <2>10, <2>11, <2>12, <2>13, <2>14 DEF CommandSafe, Retaining, Running
  <2> QED
    BY <2>15 DEF s
<1> QED
  BY <1>1, <1>2

\* What a target contributes to a plan asks for no more than the operations of its provider.
LEMMA DraftsOfTarget ==
    ASSUME NEW target, NEW planner, NEW artifact, NEW options
    PROVE  LET drafts == DraftsOf(target, planner, artifact, options)
           IN  /\ \A o \in drafts : /\ o.target = target
                                    /\ o.payload.computedBy = planner
                                    /\ o.payload.artifact = artifact
               /\ RequiredCapabilities(drafts) = RequiredCapabilities(planner.operations)
<1> DEFINE drafts == DraftsOf(target, planner, artifact, options)
           Draft(o) == [id |-> <<target, o.id>>, target |-> target,
                        dependencies |-> {<<target, d>> : d \in o.dependencies},
                        sideEffecting |-> o.sideEffecting,
                        payload |-> [computedBy |-> planner, artifact |-> artifact, options |-> options]]
<1>1. drafts = {Draft(o) : o \in planner.operations}
  BY DEF DraftsOf
<1>2. \A o : /\ Draft(o).target = target /\ Draft(o).payload.computedBy = planner
             /\ Draft(o).payload.artifact = artifact /\ Draft(o).sideEffecting = o.sideEffecting
  OBVIOUS
<1> HIDE DEF drafts, Draft
<1>3. \A o \in drafts : \E p \in planner.operations : o = Draft(p)
  BY <1>1
<1>4. \A p \in planner.operations : Draft(p) \in drafts
  BY <1>1
<1>5. drafts = {} <=> planner.operations = {}
  BY <1>1
<1>6. (\E o \in drafts : o.sideEffecting) <=> (\E p \in planner.operations : p.sideEffecting)
  BY <1>2, <1>3, <1>4
<1>7. RequiredCapabilities(drafts) = RequiredCapabilities(planner.operations)
  BY <1>5, <1>6 DEF RequiredCapabilities
<1>8. \A o \in drafts : /\ o.target = target /\ o.payload.computedBy = planner
                        /\ o.payload.artifact = artifact
  BY <1>2, <1>3
<1> QED
  BY <1>7, <1>8 DEF drafts

\* The next record of a command that is done with a target.
LEMMA Advances ==
    ASSUME NEW r, NEW s, NEW pc, NEW pcAfterLast, DOMAIN r = Fields, s = Advance(r, pc, pcAfterLast)
    PROVE  LET others == r.todo \ {FirstOf(r.todo)}
           IN  /\ DOMAIN s = Fields
               /\ s.kind = r.kind /\ s.config = r.config /\ s.described = r.described
               /\ s.hashed = r.hashed /\ s.plan = r.plan /\ s.bindings = r.bindings /\ s.from = r.from
               /\ s.left = r.left /\ s.explicit = r.explicit /\ s.trusted = r.trusted
               /\ s.upgrades = r.upgrades
               /\ others # {} => s.pc = pc /\ s.todo = others
               /\ others = {} => s.pc = pcAfterLast /\ s.todo = DOMAIN r.config.targets
  BY DEF Advance, Fields

LEMMA PlanTargetSafe ==
    ASSUME IInv, NEW c \in Commands, PlanTarget(c)
    PROVE  CommandSafe(command'[c])
<1> DEFINE r == command[c]
           s == command'[c]
           target == FirstOf(r.todo)
           place == r.from[target]
           planner == disk[place]
           description == r.described[place]
           options == r.config.options
           record == TargetOf(description, planner, r.hashed[place], options)
           drafts == DraftsOf(target, planner, r.plan.release, options)
           planned == [r.plan EXCEPT
               !.targets = [t \in DOMAIN @ \union {target} |-> IF t = target THEN record ELSE @[t]],
               !.operations = @ \union drafts]
           others == r.todo \ {target}
<1>1. CASE Fail(c)
  BY <1>1, FailsSafely
<1>2. CASE ~ Fail(c)
  <2>1. /\ r.pc = "ask" /\ planner # NoBuild
        /\ RequiredCapabilities(planner.operations) \subseteq description.capabilities
        /\ WellFormed(planned)
        /\ s = Advance([r EXCEPT !.plan = planned], "describe", "inventory")
    BY <1>2 DEF PlanTarget, Become, Target, IInv, Safety
  <2>2. CommandSafe(r)
    BY Known
  <2>3. CommandTyped(r) /\ Visits(r) /\ Found(r) /\ Honest(r) /\ Fresh(r)
    BY <2>1, <2>2 DEF CommandSafe, Making, Sourcing, Describing
  <2>4. r.bindings = Empty /\ r.left = {}
    BY <2>1, <2>2 DEF CommandSafe, Describing
  <2>5. DOMAIN r = Fields /\ r.upgrades \in 0..2
    BY <2>3 DEF CommandTyped
  <2>6. /\ r.pc \in Sourcing /\ r.pc \in Making /\ r.pc \in Describing
    BY <2>1 DEF Sourcing, Describing, Making
  <2>7. r.config \in Configurations /\ PlanSound(r.plan)
    BY <2>3, <2>6 DEF CommandTyped
  <2>8. /\ target \in r.todo /\ target \in DOMAIN r.config.targets
        /\ DOMAIN r.config.targets \subseteq Targets
    BY <2>3, <2>6, NextTarget
  <2>9. DOMAIN r.plan.targets = DOMAIN r.config.targets \ r.todo /\ r.todo \subseteq DOMAIN r.config.targets
    BY <2>3, <2>6 DEF Visits
  <2>10. /\ target \in DOMAIN r.from /\ place \in Places
         /\ description \in Builds /\ ValidDescription(description)
         /\ r.hashed[place] \in Builds
         /\ r.config.targets[target] # "" => place = r.config.targets[target]
    BY <2>1, <2>3 DEF Found
  <2>11. DOMAIN [r EXCEPT !.plan = planned] = Fields
    BY <2>5
  <2>12. /\ [r EXCEPT !.plan = planned].plan = planned
         /\ \A f \in Fields \ {"plan"} : [r EXCEPT !.plan = planned][f] = r[f]
    BY <2>5 DEF Fields
  <2>13. /\ DOMAIN s = Fields /\ s.kind = r.kind /\ s.config = r.config /\ s.described = r.described
         /\ s.hashed = r.hashed /\ s.plan = planned /\ s.bindings = r.bindings /\ s.from = r.from
         /\ s.left = r.left /\ s.upgrades = r.upgrades
         /\ others # {} => s.pc = "describe" /\ s.todo = others
         /\ others = {} => s.pc = "inventory" /\ s.todo = DOMAIN r.config.targets
    <3> DEFINE q == [r EXCEPT !.plan = planned]
    <3>1. /\ q.kind = r.kind /\ q.config = r.config /\ q.described = r.described /\ q.hashed = r.hashed
          /\ q.plan = planned /\ q.bindings = r.bindings /\ q.from = r.from /\ q.left = r.left
          /\ q.upgrades = r.upgrades /\ q.todo = r.todo
      BY <2>12 DEF Fields
    <3>2. s = Advance(q, "describe", "inventory") /\ DOMAIN q = Fields
      BY <2>1, <2>11
    <3> HIDE DEF q, s, planned
    <3> QED
      BY <3>1, <3>2, Advances
  <2>14. /\ DOMAIN planned = PlanFields /\ planned.release = r.plan.release
         /\ planned.targets = [t \in DOMAIN r.plan.targets \union {target} |->
                                  IF t = target THEN record ELSE r.plan.targets[t]]
         /\ planned.operations = r.plan.operations \union drafts
    BY <2>7 DEF PlanSound, PlanFields
  <2>15. /\ DOMAIN planned.targets = DOMAIN r.plan.targets \union {target}
         /\ planned.targets[target] = record
         /\ \A t \in DOMAIN r.plan.targets : t # target /\ planned.targets[t] = r.plan.targets[t]
    BY <2>8, <2>9, <2>14
  <2>16. /\ record.version = description.version /\ record.digest = r.hashed[place]
         /\ record.requirements = description.requires \union planner.demands
    BY DEF TargetOf
  <2>17. /\ \A o \in drafts : /\ o.target = target /\ o.payload.computedBy = planner
                              /\ o.payload.artifact = r.plan.release
         /\ RequiredCapabilities(drafts) = RequiredCapabilities(planner.operations)
    BY DraftsOfTarget
  <2> HIDE DEF planned, record, drafts
  <2>18. PlanSound(planned)
    <3>1. \A t \in DOMAIN planned.targets :
             planned.targets[t].digest \in Builds /\ planned.targets[t].version \in Versions
      <4>1. record.digest \in Builds /\ record.version \in Versions
        BY <2>10, <2>16 DEF Versions
      <4> HIDE DEF r, target
      <4> QED
        BY <2>7, <2>15, <4>1 DEF PlanSound
    <3>2. \A o \in planned.operations :
             o.target \in DOMAIN planned.targets /\ o.payload.artifact = planned.release
      BY <2>7, <2>14, <2>15, <2>17 DEF PlanSound
    <3>3. DOMAIN planned.targets \subseteq Targets
      BY <2>7, <2>8, <2>15 DEF PlanSound
    <3> QED
      BY <2>1, <2>14, <3>1, <3>2, <3>3 DEF PlanSound, WellFormed
  <2>19. \A t \in DOMAIN r.plan.targets : OperationsOf(planned, t) = OperationsOf(r.plan, t)
    BY <2>14, <2>15, <2>17 DEF OperationsOf
  <2>20. OperationsOf(planned, target) = drafts
    BY <2>7, <2>8, <2>9, <2>14, <2>17 DEF OperationsOf, PlanSound
  <2>21. \A t \in DOMAIN r.plan.targets : /\ Described(r.plan, t) => Described(planned, t)
                                          /\ Unmixed(r.plan, t) => Unmixed(planned, t)
    BY <2>15, <2>19 DEF Described, Unmixed
  <2>22. r.upgrades = 0 => r.hashed[place] = planner /\ description = planner
    BY <2>1, <2>3, <2>10 DEF Fresh, Found
  <2>23. r.upgrades = 0 => Described(planned, target)
    BY <2>1, <2>10, <2>15, <2>16, <2>17, <2>20, <2>22 DEF Described
  <2>24. s.pc \in {"describe", "inventory"} /\ s.pc \in Sourcing /\ s.pc # "check"
    BY <2>13 DEF Sourcing, Describing
  <2>25. r.upgrades = 1 /\ r.hashed[place] # planner => disk[Resolve(r.config.targets[target])] # r.hashed[place]
    <3> SUFFICES ASSUME r.upgrades = 1, r.hashed[place] # planner
                 PROVE  Resolve(r.config.targets[target]) = place
      OBVIOUS
    <3>1. CASE r.config.targets[target] # ""
      BY <2>10, <3>1 DEF Resolve
    <3>2. CASE r.config.targets[target] = "" /\ place = "installed"
      BY <2>1, <3>2 DEF Resolve
    <3>3. CASE r.config.targets[target] = "" /\ place = "elsewhere"
      <4>1. r.hashed["elsewhere"] \notin {NoBuild, disk["elsewhere"]}
        BY <2>10, <3>3, BuildAssumption
      <4>2. disk["installed"] = NoBuild
        BY <2>3, <2>10, <3>3, <4>1 DEF Fresh
      <4> QED
        BY <3>3, <4>2 DEF Resolve
    <3> QED
      BY <2>10, <3>1, <3>2, <3>3 DEF Places
  <2> HIDE DEF s, r, target, place, planner, description
  <2>26. r.upgrades < 2 => Unmixed(planned, target) \/ Suspect(s, target)
    <3>1. CASE r.hashed[place] = planner
      BY <2>15, <2>16, <2>17, <2>20, <3>1 DEF Unmixed
    <3>2. CASE r.upgrades = 1 /\ r.hashed[place] # planner
      BY <2>13, <2>15, <2>16, <2>24, <2>25, <3>2 DEF Suspect
    <3> QED
      BY <2>5, <2>22, <3>1, <3>2
  <2>27. \A t \in DOMAIN r.plan.targets : Suspect(r, t) => Suspect(s, t)
    BY <2>13, <2>15, <2>24 DEF Suspect
  <2>28. Honest(s)
    <3>1. s.plan = planned /\ s.upgrades = r.upgrades
      BY <2>13
    <3>2. r.upgrades = 0 => \A t \in DOMAIN planned.targets : Described(planned, t)
      BY <2>3, <2>15, <2>21, <2>23 DEF Honest
    <3>3. r.upgrades < 2 => \A t \in DOMAIN planned.targets : Unmixed(planned, t) \/ Suspect(s, t)
      BY <2>3, <2>15, <2>21, <2>26, <2>27 DEF Honest
    <3> QED
      BY <3>1, <3>2, <3>3 DEF Honest
  <2>29. CommandTyped(s)
    BY <2>3, <2>7, <2>13, <2>18, <2>24 DEF CommandTyped, CommandSteps
  <2>30. Visits(s)
    <3>1. others \subseteq DOMAIN r.config.targets /\ target \in DOMAIN r.config.targets
      BY <2>8, <2>9
    <3>2. DOMAIN s.plan.targets = (DOMAIN r.config.targets \ r.todo) \union {target}
      BY <2>9, <2>13, <2>15
    <3> QED
      BY <2>8, <2>9, <2>13, <3>1, <3>2 DEF Visits, Sourcing, Describing, Making
  <2>31. Found(s)
    <3>1. DOMAIN s.plan.targets \subseteq DOMAIN s.from
      BY <2>3, <2>10, <2>13, <2>15 DEF Found
    <3>2. s.pc \notin {"hash", "ask"}
      BY <2>24
    <3>3. s.described = r.described /\ s.hashed = r.hashed /\ s.from = r.from /\ s.config = r.config
      BY <2>13
    <3> QED
      BY <2>3, <3>1, <3>2, <3>3 DEF Found
  <2>32. Fresh(s)
    BY <2>3, <2>13 DEF Fresh
  <2>33. CommandSafe(s)
    BY <2>4, <2>13, <2>24, <2>28, <2>29, <2>30, <2>31, <2>32 DEF CommandSafe, Retaining, Running
  <2> QED
    BY <2>33 DEF s
<1> QED
  BY <1>1, <1>2

LEMMA CheckInventorySafe ==
    ASSUME IInv, NEW c \in Commands, NEW kind \in {"plan", "publish"}, CheckInventory(c, kind)
    PROVE  CommandSafe(command'[c])
<1> DEFINE r == command[c]
           s == command'[c]
<1>1. CASE Fail(c)
  BY <1>1, FailsSafely
<1>2. CASE ~ Fail(c)
  <2>1. /\ r.pc = "inventory"
        /\ s = [r EXCEPT !.kind = kind, !.pc = "check", !.described = NoCommand.described,
                         !.hashed = NoCommand.hashed]
    BY <1>2 DEF CheckInventory, Become, IInv, Safety
  <2>2. CommandSafe(r)
    BY Known
  <2>3. /\ CommandTyped(r) /\ Visits(r) /\ Found(r) /\ Honest(r)
        /\ r.bindings = Empty /\ r.left = {}
    BY <2>1, <2>2 DEF CommandSafe, Making, Sourcing
  <2>4. DOMAIN r = Fields
    BY <2>3 DEF CommandTyped
  <2>5. /\ DOMAIN s = Fields /\ s.kind = kind /\ s.pc = "check" /\ s.config = r.config
        /\ s.todo = r.todo /\ s.plan = r.plan /\ s.upgrades = r.upgrades
        /\ s.described = [p \in Places |-> NoBuild] /\ s.hashed = [p \in Places |-> NoBuild]
        /\ s.bindings = r.bindings /\ s.left = r.left /\ s.from = r.from
    BY <2>1, <2>4 DEF Fields, NoCommand
  <2>6. DOMAIN s.bindings = {}
    BY <2>3, <2>5 DEF Empty
  <2> HIDE DEF s, r
  <2>7. CommandTyped(s)
    BY <2>1, <2>3, <2>5 DEF CommandTyped, CommandSteps, Making, Sourcing
  <2>8. Visits(s) /\ r.todo = DOMAIN r.plan.targets
    BY <2>1, <2>3, <2>5 DEF Visits, Making, Sourcing, Describing
  <2>9. Found(s)
    BY <2>3, <2>5, ZenonT(60) DEF Found
  <2>10. Honest(s)
    BY <2>1, <2>3, <2>5, <2>8 DEF Honest, Suspect, Sourcing
  <2>11. BindingsSound(s) /\ Left(s)
    BY <2>3, <2>5, <2>6, <2>8 DEF BindingsSound, Left, Checked
  <2>12. CommandSafe(s)
    BY <2>5, <2>7, <2>8, <2>9, <2>10, <2>11 DEF CommandSafe, Running, Describing
  <2> QED
    BY <2>12 DEF s
<1> QED
  BY <1>1, <1>2

LEMMA CheckSourceSafe ==
    ASSUME IInv, NEW c \in Commands, CheckSource(c)
    PROVE  CommandSafe(command'[c])
<1> DEFINE r == command[c]
           s == command'[c]
           target == FirstOf(r.todo)
           place == Resolve(r.config.targets[target])
           planned == r.plan.targets[target]
           version == planned.version
           trusted == r.config.targets[target] = "" /\ place = "installed"
           bound == [r EXCEPT
               !.bindings = Bound(r, place, planned.digest, trusted, planned.version),
               !.from[target] = place,
               !.left = @ \union {planned.version}]
           others == r.todo \ {target}
<1>1. CASE Fail(c)
  BY <1>1, FailsSafely
<1>2. CASE ~ Fail(c)
  <2>1. /\ r.pc = "check" /\ disk[place] = planned.digest
        /\ s = Advance(bound, "check", "keep")
    BY <1>2 DEF CheckSource, Become, Target, Place, IInv, Safety
  <2>2. CommandSafe(r)
    BY Known
  <2>3. /\ CommandTyped(r) /\ Visits(r) /\ Found(r) /\ Honest(r)
        /\ BindingsSound(r) /\ Left(r)
    BY <2>1, <2>2 DEF CommandSafe, Making, Sourcing, Retaining
  <2>4. DOMAIN r = Fields
    BY <2>3 DEF CommandTyped
  <2>5. r.pc \in Sourcing /\ r.pc \in Making
    BY <2>1 DEF Sourcing, Making
  <2>6. r.config \in Configurations /\ PlanSound(r.plan)
    BY <2>3, <2>5 DEF CommandTyped
  <2>7. /\ target \in r.todo /\ target \in DOMAIN r.config.targets
        /\ r.todo \subseteq DOMAIN r.config.targets
        /\ DOMAIN r.plan.targets = DOMAIN r.config.targets
    <3>1. DOMAIN r.plan.targets = DOMAIN r.config.targets /\ r.todo \subseteq DOMAIN r.config.targets
      BY <2>1, <2>3, <2>5 DEF Visits, Describing
    <3> QED
      BY <2>3, <2>5, <3>1, NextTarget
  <2>8. place \in Places
    BY <2>6, <2>7, ResolvesToPlace
  <2>9. /\ bound.bindings = Bound(r, place, planned.digest, trusted, version)
        /\ bound.from = [r.from EXCEPT ![target] = place]
        /\ bound.left = r.left \union {version}
        /\ \A f \in Fields \ {"bindings", "from", "left"} : bound[f] = r[f]
        /\ DOMAIN bound = Fields
    BY <2>4 DEF Fields
  <2> HIDE DEF bound, s
  <2>10. /\ bound.kind = r.kind /\ bound.pc = r.pc /\ bound.config = r.config /\ bound.described = r.described
         /\ bound.hashed = r.hashed /\ bound.plan = r.plan /\ bound.upgrades = r.upgrades
         /\ bound.todo = r.todo
    BY <2>9 DEF Fields
  <2>11. /\ DOMAIN s = Fields /\ s.kind = r.kind /\ s.config = r.config /\ s.described = r.described
         /\ s.hashed = r.hashed /\ s.plan = r.plan /\ s.upgrades = r.upgrades
         /\ s.bindings = Bound(r, place, planned.digest, trusted, version)
         /\ s.from = [r.from EXCEPT ![target] = place]
         /\ s.left = r.left \union {version}
         /\ others # {} => s.pc = "check" /\ s.todo = others
         /\ others = {} => s.pc = "keep" /\ s.todo = DOMAIN r.config.targets
    <3> HIDE DEF r
    <3>1. LET rest == bound.todo \ {FirstOf(bound.todo)}
          IN  /\ DOMAIN s = Fields
              /\ s.kind = bound.kind /\ s.config = bound.config /\ s.described = bound.described
              /\ s.hashed = bound.hashed /\ s.plan = bound.plan /\ s.upgrades = bound.upgrades
              /\ s.bindings = bound.bindings /\ s.from = bound.from /\ s.left = bound.left
              /\ rest # {} => s.pc = "check" /\ s.todo = rest
              /\ rest = {} => s.pc = "keep" /\ s.todo = DOMAIN bound.config.targets
      <4>1. DOMAIN bound = Fields /\ s = Advance(bound, "check", "keep")
        BY <2>1, <2>9
      <4> QED
        BY ONLY <4>1, Advances
    <3> HIDE DEF planned, trusted, version
    <3> QED
      BY <2>9, <2>10, <3>1
  <2>12. /\ target \in DOMAIN r.plan.targets
         /\ planned.digest \in Builds /\ version \in Versions
    BY <2>6, <2>7 DEF PlanSound
  <2>13. target \in DOMAIN r.from
    BY <2>3, <2>12 DEF Found
  <2>14. trusted => r.config.targets[target] = "" /\ place = "installed" /\ planned.digest \in held
    BY <2>1, <2>12, BuildAssumption DEF IInv, Safety, StoreSafe
  <2>15. trusted \in BOOLEAN
    OBVIOUS
  <2>16. r.config.targets[target] # "" => place = r.config.targets[target]
    BY DEF Resolve
  <2>17. ~ (others # {} /\ others = {}) /\ (s.pc = "check" \/ s.pc = "keep")
    BY <2>11
  <2>18. Suspect(r, target) => FALSE
    BY <2>1 DEF Suspect
  <2> HIDE DEF r, target, place, planned, trusted, version
  <2>19. CommandTyped(s)
    BY <2>3, <2>6, <2>11, <2>17 DEF CommandTyped, CommandSteps
  <2>20. Visits(s)
    BY <2>7, <2>11, <2>17 DEF Visits, Making, Sourcing, Describing
  <2>21. /\ DOMAIN s.from = DOMAIN r.from /\ s.from[target] = place
         /\ \A t \in DOMAIN r.from \ {target} : s.from[t] = r.from[t]
    BY <2>11, <2>13
  <2>22. Found(s)
    BY <2>3, <2>8, <2>11, <2>16, <2>17, <2>21, ZenonT(60) DEF Found
  <2>23. Honest(s)
    <3>1. ASSUME NEW t \in DOMAIN r.plan.targets, Suspect(r, t) PROVE Suspect(s, t)
      <4>1. t \in r.todo /\ t # target /\ others # {}
        BY <2>1, <2>18, <3>1 DEF Suspect
      <4> QED
        BY <2>11, <3>1, <4>1 DEF Suspect, Sourcing
    <3> QED
      BY <2>3, <2>11, <3>1 DEF Honest
  <2>24. /\ Checked(s) = Checked(r) \union {target}
         /\ Checked(r) = DOMAIN r.plan.targets \ r.todo
    BY <2>1, <2>7, <2>11, <2>12, <2>17 DEF Checked
  <2>25. /\ DOMAIN s.bindings = DOMAIN r.bindings \union {version}
         /\ \A v \in DOMAIN r.bindings \ {version} : s.bindings[v] = r.bindings[v]
         /\ version \in DOMAIN r.bindings =>
                s.bindings[version] = [r.bindings[version] EXCEPT !.trusted = @ /\ trusted]
         /\ version \notin DOMAIN r.bindings =>
                s.bindings[version] = [place |-> place, digest |-> planned.digest, trusted |-> trusted]
    BY <2>11 DEF Bound
  <2>26. ASSUME version \in DOMAIN r.bindings
         PROVE  /\ r.bindings[version] \in [place : Places, digest : Builds, trusted : BOOLEAN]
                /\ r.bindings[version].digest = planned.digest
    <3>1. PICK t \in Checked(r) : r.plan.targets[t].version = version
      BY <2>3, <2>26 DEF BindingsSound
    <3>2. r.bindings[version].digest = r.plan.targets[t].digest
      BY <2>3, <3>1 DEF BindingsSound, FitsBinding
    <3>3. r.plan.targets[t].digest = planned.digest
      BY <2>6, <2>12, <2>24, <3>1 DEF PlanSound, planned, version
    <3> QED
      BY <2>3, <2>26, <3>2, <3>3 DEF BindingsSound
  <2>27. /\ s.bindings[version] \in [place : Places, digest : Builds, trusted : BOOLEAN]
         /\ s.bindings[version].digest = planned.digest
         /\ s.bindings[version].trusted =>
                trusted /\ (version \in DOMAIN r.bindings => r.bindings[version].trusted)
    BY <2>8, <2>12, <2>15, <2>25, <2>26
  <2>28. ASSUME NEW t \in Checked(s) PROVE FitsBinding(s, t)
    <3>1. CASE t = target
      BY <2>11, <2>14, <2>21, <2>25, <2>27, <3>1 DEF FitsBinding, planned, version
    <3>2. CASE t # target
      <4>1. t \in Checked(r) /\ t \in DOMAIN r.plan.targets /\ t \in DOMAIN r.from
        BY <2>3, <2>24, <3>2 DEF Found
      <4>2. FitsBinding(r, t)
        BY <2>3, <4>1 DEF BindingsSound
      <4>3. s.from[t] = r.from[t]
        BY <2>21, <3>2, <4>1
      <4>4. s.plan = r.plan /\ s.config = r.config
        BY <2>11
      <4> DEFINE v == r.plan.targets[t].version
      <4>6. /\ v \in DOMAIN r.bindings
            /\ r.bindings[v].digest = r.plan.targets[t].digest
            /\ r.bindings[v].trusted => r.from[t] = "installed" /\ r.config.targets[t] = ""
        BY <4>2 DEF FitsBinding
      <4>7. CASE v = version
        BY <2>25, <2>26, <2>27, <4>3, <4>4, <4>6, <4>7, ZenonT(60) DEF FitsBinding
      <4>8. CASE v # version
        <5>1. v \in DOMAIN s.bindings /\ s.bindings[v] = r.bindings[v]
          BY <2>25, <4>6, <4>8
        <5> QED
          BY <4>3, <4>4, <4>6, <5>1 DEF FitsBinding
      <4> QED
        BY <4>7, <4>8
    <3> QED
      BY <3>1, <3>2
  <2>29. ASSUME NEW v \in DOMAIN s.bindings
         PROVE  /\ \E t \in Checked(s) : s.plan.targets[t].version = v
                /\ s.bindings[v] \in [place : Places, digest : Builds, trusted : BOOLEAN]
                /\ s.bindings[v].trusted => s.bindings[v].digest \in held
    <3>1. CASE v = version
      BY <2>11, <2>14, <2>24, <2>27, <3>1 DEF planned, version
    <3>2. CASE v # version
      BY <2>3, <2>11, <2>24, <2>25, <3>2 DEF BindingsSound
    <3> QED
      BY <3>1, <3>2
  <2>30. BindingsSound(s)
    BY <2>28, <2>29 DEF BindingsSound
  <2>31. Left(s)
    BY <2>1, <2>3, <2>11, <2>17, <2>25 DEF Left
  <2>32. CommandSafe(s)
    BY <2>17, <2>19, <2>20, <2>22, <2>23, <2>30, <2>31 DEF CommandSafe, Running, Describing
  <2> QED
    BY <2>32 DEF s
<1> QED
  BY <1>1, <1>2

LEMMA RegisterSafe ==
    ASSUME IInv, NEW c \in Commands, Register(c)
    PROVE  /\ CommandSafe(command'[c])
           /\ command[c].plan \in saved
<1> DEFINE r == command[c]
           s == command'[c]
<1>1. /\ r.pc = "register"
      /\ s = IF r.kind = "publish"
             THEN [NoCommand EXCEPT !.kind = "publish", !.pc = "open", !.plan = r.plan] ELSE Finished
  BY DEF Register, Become, IInv, Safety
<1>2. CommandSafe(r)
  BY Known
<1>3. PlanSound(r.plan) /\ r.plan \in saved
  BY <1>1, <1>2 DEF CommandSafe, CommandTyped, Running
<1>4. CASE r.kind = "publish"
  <2>1. DOMAIN s = Fields /\ s.kind = "publish" /\ s.pc = "open" /\ s.plan = r.plan /\ s.upgrades = 0
    BY <1>1, <1>4 DEF NoCommand, Fields
  <2> HIDE DEF s, r
  <2>2. CommandSafe(s)
    BY <1>3, <2>1 DEF CommandSafe, CommandTyped, CommandSteps, Making, Sourcing, Describing, Retaining
  <2> QED
    BY <1>3, <2>2 DEF s, r
<1>5. CASE r.kind # "publish"
  BY <1>1, <1>3, <1>5, FinishedIsSafe
<1> QED
  BY <1>4, <1>5

LEMMA OpenPlanSafe ==
    ASSUME IInv, NEW c \in Commands, NEW kind \in {"apply", "reconcile"}, OpenPlan(c, kind)
    PROVE  CommandSafe(command'[c])
<1> DEFINE r == command[c]
           s == command'[c]
<1>1. CASE Fail(c)
  BY <1>1, FailsSafely
<1>2. CASE ~ Fail(c)
  <2>1. r.pc = "open" /\ s = [r EXCEPT !.kind = kind, !.pc = "bind"]
    BY <1>2 DEF OpenPlan, Become, IInv, Safety
  <2>2. CommandSafe(r)
    BY Known
  <2>3. DOMAIN r = Fields /\ PlanSound(r.plan) /\ r.plan \in saved /\ r.upgrades \in 0..2
    BY <2>1, <2>2 DEF CommandSafe, CommandTyped, Running
  <2>4. /\ DOMAIN s = Fields /\ s.kind = kind /\ s.pc = "bind" /\ s.plan = r.plan
        /\ s.upgrades = r.upgrades
    BY <2>1, <2>3 DEF Fields
  <2> HIDE DEF s, r
  <2>5. CommandSafe(s)
    BY <2>3, <2>4 DEF CommandSafe, CommandTyped, CommandSteps, Making, Sourcing, Describing, Retaining
  <2> QED
    BY <2>5 DEF s
<1> QED
  BY <1>1, <1>2

LEMMA BindProvidersSafe ==
    ASSUME IInv, NEW c \in Commands, NEW explicit \in Mappings, BindProviders(c, explicit)
    PROVE  CommandSafe(command'[c])
<1> DEFINE r == command[c]
           s == command'[c]
<1>1. CASE Fail(c)
  BY <1>1, FailsSafely
<1>2. CASE ~ Fail(c)
  <2> DEFINE trusted == TrustedDefaults(r.plan, configuration)
  <2>1. /\ r.pc = "bind"
        /\ \A t \in DOMAIN r.plan.targets : Resolvable(r.plan.targets[t])
        /\ s = [r EXCEPT !.pc = "execute", !.explicit = explicit, !.config = configuration,
                         !.trusted = trusted]
    BY <1>2 DEF BindProviders, Become, IInv, Safety
  <2>2. CommandSafe(r)
    BY Known
  <2>3. /\ DOMAIN r = Fields /\ PlanSound(r.plan) /\ r.plan \in saved /\ r.upgrades \in 0..2
        /\ r.kind \in {"none", "plan", "publish", "apply", "reconcile"}
    BY <2>1, <2>2 DEF CommandSafe, CommandTyped, Running
  <2>4. /\ DOMAIN s = Fields /\ s.kind = r.kind /\ s.pc = "execute" /\ s.plan = r.plan
        /\ s.upgrades = r.upgrades /\ s.config = configuration /\ s.trusted = trusted
    <3> HIDE DEF trusted
    <3> QED
      BY <2>1, <2>3 DEF Fields
  <2>5. Ambient(s)
    <3>1. s.trusted => trusted
      BY <2>4
    <3>2. trusted => \A t \in DOMAIN r.plan.targets :
             receipts[r.plan.targets[t].digest].trusted /\ configuration.targets[t] = ""
      BY DEF TrustedDefaults
    <3>3. \A t \in DOMAIN r.plan.targets : receipts[r.plan.targets[t].digest] # NoReceipt
      BY <2>1 DEF Resolvable
    <3>4. s.plan = r.plan /\ s.config = configuration
      BY <2>4
    <3> HIDE DEF trusted, s, r
    <3> QED
      BY <3>1, <3>2, <3>3, <3>4 DEF Ambient
  <2> HIDE DEF s, r
  <2>6. CommandSafe(s)
    BY <2>3, <2>4, <2>5
    DEF CommandSafe, CommandTyped, CommandSteps, Making, Sourcing, Describing, Retaining
  <2> QED
    BY <2>6 DEF s
<1> QED
  BY <1>1, <1>2

\* What never goes away: files, receipts, plans.
Grows ==
    /\ retained \subseteq retained'
    /\ \A b \in Builds : receipts[b] # NoReceipt => receipts'[b] = receipts[b]
    /\ saved \subseteq saved'

LEMMA KeptGrows ==
    ASSUME NEW r, NEW v \in DOMAIN r.bindings, PlanSound(r.plan), BindingsSound(r),
           Checked(r) \subseteq DOMAIN r.plan.targets, Kept(r, v), Grows
    PROVE  /\ r.bindings[v].digest \in retained'
           /\ receipts'[r.bindings[v].digest] = [version |-> v, trusted |-> r.bindings[v].trusted]
<1>1. v \in Versions
  BY DEF BindingsSound, PlanSound
<1>2. r.bindings[v].digest \in Builds /\ r.bindings[v].trusted \in BOOLEAN
  BY DEF BindingsSound
<1>3. [version |-> v, trusted |-> r.bindings[v].trusted] # NoReceipt
  BY <1>1, <1>2, BuildAssumption DEF Receipts, Versions
<1> QED
  BY <1>2, <1>3 DEF Kept, Grows

\* A command that is where it should be stays so while others add to the store.
LEMMA StaysSafe ==
    ASSUME NEW d \in Commands, CommandSafe(command'[d]), disk' = disk, held \subseteq held', Grows
    PROVE  CommandSafe(command[d])'
<1> DEFINE r == command'[d]
<1>1. /\ CommandTyped(r)
      /\ r.pc \in Making => Visits(r) /\ Found(r) /\ Honest(r)
      /\ r.pc \in Describing => Fresh(r)
      /\ r.pc \in Describing \union {"inventory"} => r.bindings = Empty /\ r.left = {}
      /\ r.pc \in Retaining => BindingsSound(r) /\ Left(r)
      /\ r.pc \in Running => r.plan \in saved
      /\ r.pc = "execute" => Ambient(r)
  BY DEF CommandSafe
<1>2. CommandTyped(command[d])'
  BY <1>1 DEF CommandTyped
<1>3. r.pc \in Making => Visits(command[d])' /\ Found(command[d])' /\ Honest(command[d])'
  <2>1. Visits(r) => Visits(command[d])'
    BY DEF Visits
  <2>2. Found(r) => Found(command[d])'
    BY DEF Found
  <2>3. Honest(r) => Honest(command[d])'
    BY DEF Honest, Suspect, Resolve
  <2> QED
    BY <1>1, <2>1, <2>2, <2>3
<1>4. r.pc \in Describing => Fresh(command[d])'
  BY <1>1 DEF Fresh, Resolve
<1>5. r.pc \in Retaining => BindingsSound(command[d])' /\ Left(command[d])'
  <2> SUFFICES ASSUME r.pc \in Retaining PROVE BindingsSound(command[d])' /\ Left(command[d])'
    OBVIOUS
  <2>1. BindingsSound(command[d])'
    BY <1>1 DEF BindingsSound, FitsBinding, Checked
  <2>2. PlanSound(r.plan) /\ Checked(r) \subseteq DOMAIN r.plan.targets
    BY <1>1 DEF CommandTyped, Making, Sourcing, Retaining, Checked
  <2>3. \A v \in DOMAIN r.bindings \ r.left : Kept(command[d], v)'
    BY <1>1, <2>2, KeptGrows DEF Left, Kept
  <2>4. Left(command[d])'
    BY <1>1, <2>3 DEF Left, Current, Grows
  <2> QED
    BY <2>1, <2>4
<1>6. r.pc \in Running => r.plan \in saved'
  BY <1>1 DEF Grows
<1>7. r.pc = "execute" => Ambient(command[d])'
  <2> SUFFICES ASSUME r.pc = "execute" PROVE Ambient(command[d])'
    OBVIOUS
  <2>1. Ambient(r) /\ PlanSound(r.plan)
    BY <1>1 DEF CommandTyped, Running
  <2> QED
    BY <2>1 DEF Ambient, PlanSound, Grows
<1> QED
  BY <1>1, <1>2, <1>3, <1>4, <1>5, <1>6, <1>7 DEF CommandSafe

\* What is due next is something to be retained.
LEMMA CurrentIsLeft ==
    ASSUME NEW r, CommandTyped(r), r.pc \in {"keep", "receipt"}, BindingsSound(r), Left(r)
    PROVE  /\ Current(r) \in r.left /\ Current(r) \in DOMAIN r.bindings /\ Current(r) \in Versions
           /\ r.bindings[Current(r)] \in [place : Places, digest : Builds, trusted : BOOLEAN]
<1>1. PlanSound(r.plan)
  BY DEF CommandTyped, Making
<1>2. Checked(r) = DOMAIN r.plan.targets
  BY DEF Checked
<1>3. DOMAIN r.bindings \subseteq Versions
  BY <1>1, <1>2 DEF BindingsSound, PlanSound
<1>4. Versions \subseteq Nat
  BY BuildAssumption DEF Versions
<1>5. r.left # {} /\ r.left \subseteq DOMAIN r.bindings
  BY DEF Left
<1>6. Current(r) \in r.left
  BY <1>3, <1>4, <1>5, LeastIsLeast DEF Current
<1> QED
  BY <1>3, <1>5, <1>6 DEF BindingsSound

\* A command in the same place of its work, but for what it still has to retain.
LEMMA RetainsSafely ==
    ASSUME NEW d \in Commands, disk' = disk, held' = held, Grows,
           LET r == command[d]
               s == command'[d]
           IN  /\ CommandSafe(r) /\ r.pc \in {"keep", "receipt"}
               /\ s.pc \in {"keep", "receipt", "save"}
               /\ DOMAIN s = Fields /\ s.kind = r.kind /\ s.config = r.config /\ s.todo = r.todo
               /\ s.described = r.described /\ s.hashed = r.hashed /\ s.plan = r.plan
               /\ s.bindings = r.bindings /\ s.from = r.from /\ s.upgrades = r.upgrades,
           Left(command[d])'
    PROVE  CommandSafe(command[d])'
<1> DEFINE r == command[d]
           s == command'[d]
<1>1. /\ CommandTyped(r) /\ Visits(r) /\ Found(r) /\ Honest(r) /\ BindingsSound(r)
  BY DEF CommandSafe, Making, Retaining
<1>2. /\ r.pc \in {"keep", "receipt"} /\ s.pc \in {"keep", "receipt", "save"}
      /\ DOMAIN s = Fields /\ s.kind = r.kind /\ s.config = r.config /\ s.todo = r.todo
      /\ s.described = r.described /\ s.hashed = r.hashed /\ s.plan = r.plan
      /\ s.bindings = r.bindings /\ s.from = r.from /\ s.upgrades = r.upgrades
  OBVIOUS
<1> HIDE DEF r, s
<1>3. CommandTyped(s)
  BY <1>1, <1>2 DEF CommandTyped, CommandSteps, Making
<1>4. Visits(s)
  BY <1>1, <1>2 DEF Visits, Making, Sourcing, Describing
<1>5. Found(s)
  BY <1>1, <1>2, ZenonT(60) DEF Found
<1>6. Honest(s)
  BY <1>1, <1>2 DEF Honest, Suspect, Sourcing, Describing
<1>7. BindingsSound(s)
  <2>1. Checked(s) = Checked(r)
    BY <1>2 DEF Checked
  <2>2. \A t \in Checked(s) : FitsBinding(s, t)
    <3>1. \A t \in Checked(r) : FitsBinding(r, t)
      BY <1>1 DEF BindingsSound
    <3>2. \A t : FitsBinding(r, t) => FitsBinding(s, t)
      BY <1>2 DEF FitsBinding
    <3> QED
      BY <2>1, <3>1, <3>2
  <2> QED
    BY <1>1, <1>2, <2>1, <2>2 DEF BindingsSound
<1>8. CommandTyped(command[d])' /\ Visits(command[d])' /\ Found(command[d])'
  BY <1>3, <1>4, <1>5 DEF CommandTyped, Visits, Found, s
<1>9. Honest(command[d])'
  BY <1>6 DEF Honest, Suspect, Resolve, s
<1>10. BindingsSound(command[d])'
  BY <1>7 DEF BindingsSound, FitsBinding, Checked, s
<1> QED
  BY <1>2, <1>8, <1>9, <1>10 DEF CommandSafe, Describing, Running, s

LEMMA KeepExecutableSafe ==
    ASSUME IInv, NEW c \in Commands, KeepExecutable(c)
    PROVE  /\ CommandSafe(command[c])'
           /\ Grows
           /\ retained' \subseteq Builds
<1> DEFINE r == command[c]
           s == command'[c]
           version == Current(r)
           binding == r.bindings[version]
<1>1. disk' = disk /\ held' = held /\ receipts' = receipts /\ saved' = saved
  BY DEF KeepExecutable, world, plans
<1>2. CASE Fail(c) /\ retained' = retained
  <2>1. Grows
    BY <1>1, <1>2 DEF Grows
  <2>2. CommandSafe(command'[c])
    BY <1>2, FailsSafely
  <2> QED
    BY <1>1, <1>2, <2>1, <2>2, StaysSafe DEF IInv, TypeOK
<1>3. CASE ~ (Fail(c) /\ retained' = retained)
  <2>1. /\ r.pc = "keep"
        /\ s = [r EXCEPT !.pc = "receipt"] /\ retained' = retained \union {binding.digest}
    BY <1>3 DEF KeepExecutable, Become, IInv, Safety
  <2>2. CommandSafe(r)
    BY Known
  <2>3. CommandTyped(r) /\ BindingsSound(r) /\ Left(r) /\ DOMAIN r = Fields
    BY <2>1, <2>2 DEF CommandSafe, Retaining, CommandTyped
  <2>4. version \in r.left /\ binding \in [place : Places, digest : Builds, trusted : BOOLEAN]
    BY <2>1, <2>3, CurrentIsLeft
  <2>5. Grows /\ retained' \subseteq Builds
    BY <1>1, <2>1, <2>4 DEF Grows, IInv, TypeOK
  <2>6. /\ DOMAIN s = Fields /\ s.pc = "receipt" /\ s.kind = r.kind /\ s.config = r.config
        /\ s.todo = r.todo /\ s.described = r.described /\ s.hashed = r.hashed /\ s.plan = r.plan
        /\ s.bindings = r.bindings /\ s.from = r.from /\ s.upgrades = r.upgrades /\ s.left = r.left
    BY <2>1, <2>3 DEF Fields
  <2>7. Left(command[c])'
    BY <1>1, <2>1, <2>3, <2>4, <2>6 DEF Left, Kept, Current
  <2> HIDE DEF r, s
  <2>8. CommandSafe(command[c])'
    BY <1>1, <2>1, <2>2, <2>5, <2>6, <2>7, RetainsSafely DEF r, s
  <2> QED
    BY <2>5, <2>8
<1> QED
  BY <1>2, <1>3

LEMMA WriteReceiptSafe ==
    ASSUME IInv, NEW c \in Commands, WriteReceipt(c)
    PROVE  /\ CommandSafe(command[c])'
           /\ Grows
           /\ receipts' \in [Builds -> Receipts \union {NoReceipt}]
           /\ StoreSafe'
<1> DEFINE r == command[c]
           s == command'[c]
           version == Current(r)
           digest == r.bindings[version].digest
           receipt == [version |-> version, trusted |-> r.bindings[version].trusted]
           others == r.left \ {version}
<1>1. disk' = disk /\ held' = held /\ retained' = retained /\ saved' = saved
  BY DEF WriteReceipt, world, plans
<1>2. CASE Fail(c) /\ receipts' = receipts
  <2>1. Grows
    BY <1>1, <1>2 DEF Grows
  <2>2. CommandSafe(command'[c])
    BY <1>2, FailsSafely
  <2>3. CommandSafe(command[c])'
    BY <1>1, <1>2, <2>1, <2>2, StaysSafe
  <2> QED
    BY <1>1, <1>2, <2>1, <2>3 DEF IInv, TypeOK, Safety, StoreSafe
<1>3. CASE ~ (Fail(c) /\ receipts' = receipts)
  <2>1. /\ r.pc = "receipt" /\ receipts[digest] \in {NoReceipt, receipt}
        /\ s = [r EXCEPT !.left = others, !.pc = IF others = {} THEN "save" ELSE "keep"]
        /\ receipts' = [receipts EXCEPT ![digest] = receipt]
    BY <1>3 DEF WriteReceipt, Become, IInv, Safety
  <2>2. CommandSafe(r)
    BY Known
  <2>3. CommandTyped(r) /\ BindingsSound(r) /\ Left(r) /\ DOMAIN r = Fields /\ PlanSound(r.plan)
    BY <2>1, <2>2 DEF CommandSafe, Retaining, CommandTyped, Making
  <2>4. /\ version \in r.left /\ version \in Versions /\ version \in DOMAIN r.bindings
        /\ digest \in Builds /\ r.bindings[version].trusted \in BOOLEAN
    BY <2>1, <2>3, CurrentIsLeft
  <2>5. receipt \in Receipts
    BY <2>4 DEF Receipts, Versions
  <2>6. /\ DOMAIN receipts = Builds /\ receipts'[digest] = receipt
        /\ \A b \in Builds \ {digest} : receipts'[b] = receipts[b]
        /\ receipts' \in [Builds -> Receipts \union {NoReceipt}]
    BY <2>1, <2>4, <2>5 DEF IInv, TypeOK
  <2>7. receipt.version = version /\ receipt.trusted = r.bindings[version].trusted
    OBVIOUS
  <2> HIDE DEF receipt
  <2>8. Grows
    <3>1. receipts[digest] # NoReceipt => receipts'[digest] = receipts[digest]
      BY <2>1, <2>6
    <3> QED
      BY <1>1, <2>6, <3>1 DEF Grows
  <2>9. receipt.trusted => digest \in held
    BY <2>3, <2>4, <2>7 DEF BindingsSound
  <2>10. StoreSafe'
    BY <1>1, <2>6, <2>9 DEF StoreSafe, IInv, Safety
  <2>11. /\ DOMAIN s = Fields /\ s.kind = r.kind /\ s.config = r.config
         /\ s.todo = r.todo /\ s.described = r.described /\ s.hashed = r.hashed /\ s.plan = r.plan
         /\ s.bindings = r.bindings /\ s.from = r.from /\ s.upgrades = r.upgrades /\ s.left = others
         /\ s.pc = IF others = {} THEN "save" ELSE "keep"
    BY <2>1, <2>3 DEF Fields
  <2>12. digest \in retained'
    BY <1>1, <2>1, <2>3 DEF Left
  <2>13. Checked(r) \subseteq DOMAIN r.plan.targets
    BY DEF Checked
  <2>14. ASSUME NEW v \in DOMAIN r.bindings \ others PROVE Kept(command[c], v)'
    <3>1. CASE v = version
      BY <2>6, <2>11, <2>12, <3>1 DEF Kept, receipt
    <3>2. CASE v # version
      <4>1. Kept(r, v)
        BY <2>3, <3>2 DEF Left
      <4>2. /\ r.bindings[v].digest \in retained'
            /\ receipts'[r.bindings[v].digest] = [version |-> v, trusted |-> r.bindings[v].trusted]
        BY <2>3, <2>8, <2>13, <4>1, KeptGrows
      <4> QED
        BY <2>11, <4>2 DEF Kept
    <3> QED
      BY <3>1, <3>2
  <2> HIDE DEF version, digest
  <2>15. Left(command[c])'
    BY <2>3, <2>11, <2>14 DEF Left
  <2> HIDE DEF r, s
  <2>16. s.pc \in {"keep", "receipt", "save"} /\ r.pc \in {"keep", "receipt"}
    BY <2>1, <2>11
  <2>17. CommandSafe(command[c])'
    BY <1>1, <2>2, <2>8, <2>11, <2>15, <2>16, RetainsSafely DEF r, s
  <2> QED
    BY <2>6, <2>8, <2>10, <2>17
<1> QED
  BY <1>2, <1>3

LEMMA SaveSafe ==
    ASSUME IInv, NEW c \in Commands, Save(c)
    PROVE  /\ CommandSafe(command[c])'
           /\ Grows
           /\ SavedSafe'
           /\ \A o \in origins' : OriginSafe(o)'
<1> DEFINE r == command[c]
           s == command'[c]
           origin == [plan |-> PlanID(r.plan), upgrades |-> r.upgrades, from |-> r.from,
                      named |-> r.config.targets]
<1>1. disk' = disk /\ held' = held /\ retained' = retained /\ receipts' = receipts /\ registered' = registered
  BY DEF Save, world, store
<1>2. CASE Fail(c) /\ saved' = saved /\ origins' = origins
  <2>1. Grows
    BY <1>1, <1>2 DEF Grows
  <2>2. CommandSafe(command'[c])
    BY <1>2, FailsSafely
  <2>3. CommandSafe(command[c])'
    BY <1>1, <2>1, <2>2, StaysSafe
  <2>4. SavedSafe'
    BY <1>1, <1>2 DEF IInv, Safety, SavedSafe, Resolvable
  <2>5. \A o \in origins' : OriginSafe(o)'
    BY <1>1, <1>2 DEF IInv, Safety, OriginSafe
  <2> QED
    BY <2>1, <2>3, <2>4, <2>5
<1>3. CASE ~ (Fail(c) /\ saved' = saved /\ origins' = origins)
  <2>1. /\ r.pc = "save"
        /\ saved' = saved \union {r.plan} /\ origins' = origins \union {origin}
        /\ s = [NoCommand EXCEPT !.kind = r.kind, !.pc = "register", !.plan = r.plan]
    BY <1>3 DEF Save, Become, IInv, Safety
  <2>2. CommandSafe(r)
    BY Known
  <2>3. /\ CommandTyped(r) /\ Honest(r) /\ BindingsSound(r) /\ Left(r) /\ PlanSound(r.plan)
        /\ r.upgrades \in 0..2 /\ r.kind \in {"none", "plan", "publish", "apply", "reconcile"}
    BY <2>1, <2>2 DEF CommandSafe, Retaining, CommandTyped, Making
  <2>4. Grows
    BY <1>1, <2>1 DEF Grows
  <2>5. ASSUME NEW t \in DOMAIN r.plan.targets
        PROVE  /\ Resolvable(r.plan.targets[t])
               /\ receipts[r.plan.targets[t].digest].trusted =>
                      r.from[t] = "installed" /\ r.config.targets[t] = ""
    <3> DEFINE version == r.plan.targets[t].version
               digest == r.plan.targets[t].digest
    <3>1. FitsBinding(r, t)
      BY <2>1, <2>3 DEF BindingsSound, Checked
    <3>2. version \in DOMAIN r.bindings \ r.left /\ r.bindings[version].digest = digest
      BY <2>1, <2>3, <3>1 DEF FitsBinding, Left
    <3>3. Kept(r, version)
      BY <2>3, <3>2 DEF Left
    <3>4. /\ digest \in retained
          /\ receipts[digest] = [version |-> version, trusted |-> r.bindings[version].trusted]
      BY <3>2, <3>3 DEF Kept
    <3>5. version \in Versions /\ r.bindings[version].trusted \in BOOLEAN
      BY <2>3, <3>2 DEF PlanSound, BindingsSound
    <3>6. receipts[digest] # NoReceipt
      <4> HIDE DEF version, digest
      <4>1. receipts[digest] \in Receipts
        BY <3>4, <3>5 DEF Receipts, Versions
      <4> QED
        BY <4>1, BuildAssumption
    <3>7. receipts[digest].version = version /\ receipts[digest].trusted = r.bindings[version].trusted
      BY <3>4
    <3>8. Resolvable(r.plan.targets[t])
      BY <3>4, <3>6, <3>7 DEF Resolvable
    <3> QED
      BY <3>1, <3>7, <3>8 DEF FitsBinding
  <2>6. PlanHonest(r.plan, r.upgrades)
    <3>1. \A t : ~ Suspect(r, t)
      BY <2>1 DEF Suspect, Sourcing, Describing
    <3> QED
      BY <2>3, <3>1 DEF Honest, PlanHonest
  <2>7. DOMAIN r.plan = PlanFields
    BY <2>3 DEF PlanSound
  <2>8. PlanID(r.plan).targets = r.plan.targets
    BY <2>7, IdentityKeeps
  <2>9. PlanHonest(PlanID(r.plan), r.upgrades)
    BY <2>6, <2>7, IdentityIsSound
  <2>10. SavedSafe'
    <3>1. \A p \in saved' : PlanSound(p) /\ \A t \in DOMAIN p.targets : Resolvable(p.targets[t])
      BY <2>1, <2>3, <2>5 DEF IInv, Safety, SavedSafe
    <3>2. \A p \in saved' : (PlanSound(p) /\ \A t \in DOMAIN p.targets : Resolvable(p.targets[t]))'
      BY <1>1, <3>1 DEF Resolvable
    <3>3. registered' \subseteq {PlanID(p) : p \in saved'}
      BY <1>1, <2>1 DEF IInv, Safety, SavedSafe
    <3> QED
      BY <3>2, <3>3 DEF SavedSafe
  <2>11. ASSUME NEW o, o = origin PROVE OriginSafe(o)'
    <3>1. /\ o.plan = PlanID(r.plan) /\ o.upgrades = r.upgrades /\ o.from = r.from
          /\ o.named = r.config.targets
      BY <2>11
    <3>2. r.plan \in saved'
      BY <2>1
    <3> HIDE DEF origin, r
    <3>3. \A t \in DOMAIN o.plan.targets :
             receipts'[o.plan.targets[t].digest].trusted => o.from[t] = "installed" /\ o.named[t] = ""
      BY <1>1, <2>5, <2>8, <3>1
    <3>4. PlanHonest(o.plan, o.upgrades) /\ o.upgrades \in 0..2
      BY <2>3, <2>9, <3>1
    <3>5. \E p \in saved' : o.plan = PlanID(p)
      BY <3>1, <3>2
    <3> QED
      BY <3>3, <3>4, <3>5 DEF OriginSafe
  <2>12. \A o \in origins : OriginSafe(o)'
    BY <1>1, <2>1 DEF IInv, Safety, OriginSafe
  <2>13. CommandSafe(command[c])'
    <3>1. /\ DOMAIN s = Fields /\ s.kind = r.kind /\ s.pc = "register" /\ s.plan = r.plan
          /\ s.upgrades = 0
      BY <2>1 DEF NoCommand, Fields
    <3>2. r.plan \in saved'
      BY <2>1
    <3> HIDE DEF r, s
    <3> QED
      BY <2>3, <3>1, <3>2
      DEF CommandSafe, CommandTyped, CommandSteps, Making, Sourcing, Describing, Retaining, r, s
  <2> HIDE DEF origin
  <2>14. \A o \in origins' : OriginSafe(o)'
    BY <2>1, <2>11, <2>12
  <2> QED
    BY <2>4, <2>10, <2>13, <2>14
<1> QED
  BY <1>2, <1>3

\* Who is not upgraded knows what the executables were; who was once, that they were not all.
LEMMA UpgradeSafe ==
    ASSUME IInv, NEW c \in Commands, NEW place \in Places, NEW build \in Upgrades \union {NoBuild},
           Upgrade(place, build)
    PROVE  CommandSafe(command[c])'
<1> DEFINE r == command[c]
           s == command'[c]
           counts == r.pc \in PlanningSteps /\ r.upgrades < 2
<1>1. /\ disk' = [disk EXCEPT ![place] = build] /\ held \subseteq held'
      /\ retained' = retained /\ receipts' = receipts /\ saved' = saved
      /\ disk \in [Places -> Builds \union {NoBuild}]
  BY DEF Upgrade, store, plans, IInv, TypeOK, Disks
<1>2. s = IF counts THEN [r EXCEPT !.upgrades = @ + 1] ELSE r
  BY DEF Upgrade
<1>3. CommandSafe(r)
  BY Known
<1>4. DOMAIN r = Fields /\ r.upgrades \in 0..2
  BY <1>3 DEF CommandSafe, CommandTyped
<1>5. /\ DOMAIN s = Fields /\ s.kind = r.kind /\ s.pc = r.pc /\ s.config = r.config
      /\ s.todo = r.todo /\ s.plan = r.plan /\ s.described = r.described /\ s.hashed = r.hashed
      /\ s.bindings = r.bindings /\ s.left = r.left /\ s.from = r.from /\ s.trusted = r.trusted
      /\ s.upgrades = IF counts THEN r.upgrades + 1 ELSE r.upgrades
  BY <1>2, <1>4 DEF Fields
<1> HIDE DEF r, s
<1>6. CommandTyped(command[c])'
  BY <1>3, <1>4, <1>5 DEF CommandSafe, CommandTyped, s
<1>7. r.pc \in Making => Visits(command[c])' /\ Found(command[c])'
  <2>1. r.pc \in Making => Visits(command[c])'
    BY <1>3, <1>5 DEF CommandSafe, Visits, s
  <2>2. r.pc \in Making => Found(command[c])'
    <3>1. r.pc \in Making => Found(r)
      BY <1>3 DEF CommandSafe
    <3>2. Found(r) => Found(s)
      BY <1>5, ZenonT(60) DEF Found, OneDigestPerVersion
    <3>3. Found(s) => Found(command[c])'
      BY DEF Found, OneDigestPerVersion, s
    <3> QED
      BY <3>1, <3>2, <3>3
  <2> QED
    BY <2>1, <2>2
<1>8. r.upgrades = 0 /\ r.pc \in Making => \A t \in DOMAIN r.plan.targets : Unmixed(r.plan, t)
  BY <1>3 DEF CommandSafe, Honest, Suspect
<1>9. r.pc \in Making => Honest(command[c])'
  <2> SUFFICES ASSUME r.pc \in Making PROVE Honest(command[c])'
    OBVIOUS
  <2>1. Honest(r)
    BY <1>3 DEF CommandSafe
  <2>2. CASE counts
    BY <1>4, <1>5, <1>8, <2>2 DEF Honest, s
  <2>3. CASE ~ counts
    <3>1. r.upgrades < 2 => \A t \in DOMAIN r.plan.targets : Unmixed(r.plan, t)
      BY <2>1, <2>3, <1>4 DEF Honest, Suspect, Sourcing, Describing, PlanningSteps
    <3> QED
      BY <1>5, <2>1, <2>3, <3>1 DEF Honest, s
  <2> QED
    BY <2>2, <2>3
<1>10. r.pc \in Describing => Fresh(command[c])'
  <2> SUFFICES ASSUME r.pc \in Describing PROVE Fresh(command[c])'
    OBVIOUS
  <2>1. Fresh(r) /\ Found(r)
    BY <1>3 DEF CommandSafe, Making, Sourcing
  <2>2. s.upgrades # 0 /\ (s.upgrades = 1 => r.upgrades = 0)
    BY <1>4, <1>5 DEF Describing, PlanningSteps
  <2>3. ASSUME s.upgrades = 1, s.hashed["elsewhere"] \notin {NoBuild, disk'["elsewhere"]},
               NEW t \in DOMAIN s.from, s.config.targets[t] = "", s.from[t] = "elsewhere"
        PROVE  disk'["installed"] = NoBuild
    <3>1. s.hashed["elsewhere"] \in {NoBuild, disk["elsewhere"]}
      BY <1>5, <2>1, <2>2, <2>3 DEF Fresh, Places
    <3>2. place # "installed" /\ disk'["installed"] = disk["installed"]
      BY <1>1, <2>3, <3>1 DEF Places
    <3>3. Resolve(s.config.targets[t]) = "elsewhere"
      BY <1>5, <2>1, <2>2, <2>3 DEF Fresh
    <3> QED
      BY <2>3, <3>2, <3>3 DEF Resolve
  <2> QED
    BY <2>2, <2>3 DEF Fresh, s
<1>11. r.pc \in Describing \union {"inventory"} => s.bindings = Empty /\ s.left = {}
  BY <1>3, <1>5 DEF CommandSafe
<1>12. r.pc \in Retaining => BindingsSound(command[c])' /\ Left(command[c])'
  <2> SUFFICES ASSUME r.pc \in Retaining PROVE BindingsSound(command[c])' /\ Left(command[c])'
    OBVIOUS
  <2>1. BindingsSound(r) /\ Left(r)
    BY <1>3 DEF CommandSafe
  <2>2. BindingsSound(command[c])'
    <3>1. Checked(s) = Checked(r)
      BY <1>5 DEF Checked
    <3>2. \A t \in Checked(s) : FitsBinding(s, t)
      <4>1. \A t \in Checked(r) : FitsBinding(r, t)
        BY <2>1 DEF BindingsSound
      <4>2. \A t : FitsBinding(r, t) => FitsBinding(s, t)
        BY <1>5 DEF FitsBinding
      <4> QED
        BY <3>1, <4>1, <4>2
    <3>3. \A v \in DOMAIN s.bindings :
             /\ \E t \in Checked(s) : s.plan.targets[t].version = v
             /\ s.bindings[v] \in [place : Places, digest : Builds, trusted : BOOLEAN]
             /\ s.bindings[v].trusted => s.bindings[v].digest \in held'
      BY <1>1, <1>5, <2>1, <3>1 DEF BindingsSound
    <3>4. \A t \in Checked(command[c])' : FitsBinding(command[c], t)'
      BY <3>2 DEF FitsBinding, Checked, s
    <3>5. Checked(command[c])' = Checked(s)
      BY DEF Checked, s
    <3> QED
      BY <3>3, <3>4, <3>5 DEF BindingsSound, s
  <2>3. Left(command[c])'
    BY <1>1, <1>5, <2>1 DEF Left, Kept, Current, s
  <2> QED
    BY <2>2, <2>3
<1>13. r.pc \in Running => s.plan \in saved'
  BY <1>1, <1>3, <1>5 DEF CommandSafe
<1>14. r.pc = "execute" => Ambient(command[c])'
  BY <1>1, <1>3, <1>5 DEF CommandSafe, Ambient, s
<1> QED
  BY <1>5, <1>6, <1>7, <1>9, <1>10, <1>11, <1>12, <1>13, <1>14 DEF CommandSafe, s

-----------------------------------------------------------------------------
(* The induction.                                                          *)

\* Where c alone took a step, and the store and the plans are as they should be.
LEMMA StepKeeps ==
    ASSUME IInv, NEW c \in Commands, NEW record, command' = [command EXCEPT ![c] = record],
           UNCHANGED world, Grows, CommandSafe(command[c])',
           retained' \subseteq Builds, receipts' \in [Builds -> Receipts \union {NoReceipt}],
           StoreSafe', SavedSafe', \A o \in origins' : OriginSafe(o)'
    PROVE  IInv'
<1>1. /\ disk' = disk /\ held' = held /\ artifacts' = artifacts /\ configuration' = configuration
      /\ changes' = changes
  BY DEF world
<1>2. DOMAIN command' = Commands
  BY DEF IInv, Safety
<1>3. ASSUME NEW d \in Commands PROVE CommandSafe(command[d])'
  <2>1. CASE d = c
    BY <2>1
  <2>2. CASE d # c
    <3>1. command'[d] = command[d]
      BY <2>2 DEF IInv, Safety
    <3>2. CommandSafe(command'[d])
      BY <3>1, Known
    <3> QED
      BY <1>1, <3>2, StaysSafe
  <2> QED
    BY <2>1, <2>2
<1>4. Safety'
  BY <1>2, <1>3 DEF Safety
<1>5. ASSUME NEW d \in Commands
      PROVE  /\ command'[d].pc \in CommandSteps
             /\ command'[d].kind \in {"none", "plan", "publish", "apply", "reconcile"}
             /\ command'[d].pc \in {"inventory", "check", "keep", "receipt", "save", "register", "open",
                                   "bind", "execute"} => DOMAIN command'[d].plan.targets \subseteq Targets
  BY <1>3 DEF CommandSafe, CommandTyped, PlanSound, Making, Sourcing, Running
<1>6. TypeOK'
  BY <1>1, <1>5 DEF IInv, TypeOK
<1> QED
  BY <1>4, <1>6 DEF IInv

\* Where, besides, nothing of the store and the plans changed.
LEMMA PlainStepKeeps ==
    ASSUME IInv, NEW c \in Commands, NEW record, command' = [command EXCEPT ![c] = record],
           UNCHANGED <<world, store, plans>>, CommandSafe(command'[c])
    PROVE  IInv'
<1>1. UNCHANGED world /\ UNCHANGED <<disk, held, retained, receipts, saved, registered, origins>>
  BY DEF world, store, plans
<1>2. Grows
  BY <1>1 DEF Grows
<1>3. CommandSafe(command[c])'
  BY <1>1, <1>2, StaysSafe
<1>4. StoreSafe' /\ SavedSafe'
  BY <1>1 DEF IInv, Safety, StoreSafe, SavedSafe, Resolvable
<1>5. \A o \in origins' : OriginSafe(o)'
  BY <1>1 DEF IInv, Safety, OriginSafe
<1>6. retained' \subseteq Builds /\ receipts' \in [Builds -> Receipts \union {NoReceipt}]
  BY <1>1 DEF IInv, TypeOK
<1> QED
  BY <1>1, <1>2, <1>3, <1>4, <1>5, <1>6, StepKeeps

\* The receipts and the plans that are there are not touched by new ones.
LEMMA PlansKeep ==
    ASSUME IInv, Grows, saved' = saved, registered' = registered, origins' = origins
    PROVE  SavedSafe' /\ \A o \in origins' : OriginSafe(o)'
<1>1. ASSUME NEW p \in saved, NEW t \in DOMAIN p.targets
      PROVE  /\ p.targets[t].digest \in Builds
             /\ receipts[p.targets[t].digest] # NoReceipt
             /\ receipts'[p.targets[t].digest] = receipts[p.targets[t].digest]
             /\ Resolvable(p.targets[t])'
  <2>1. Resolvable(p.targets[t]) /\ p.targets[t].digest \in Builds
    BY DEF IInv, Safety, SavedSafe, PlanSound
  <2>2. /\ receipts[p.targets[t].digest] # NoReceipt
        /\ receipts'[p.targets[t].digest] = receipts[p.targets[t].digest]
    BY <2>1 DEF Resolvable, Grows
  <2> QED
    BY <2>1, <2>2 DEF Resolvable, Grows
<1>2. SavedSafe'
  BY <1>1 DEF IInv, Safety, SavedSafe
<1>3. ASSUME NEW o \in origins PROVE OriginSafe(o)'
  <2>1. OriginSafe(o)
    BY DEF IInv, Safety
  <2>2. PICK p \in saved : o.plan = PlanID(p)
    BY <2>1 DEF OriginSafe
  <2>3. o.plan.targets = p.targets
    BY <2>2, IdentityKeeps DEF IInv, Safety, SavedSafe, PlanSound
  <2>4. \A t \in DOMAIN o.plan.targets :
           receipts'[o.plan.targets[t].digest] = receipts[o.plan.targets[t].digest]
    BY <1>1, <2>3
  <2> QED
    BY <2>1, <2>4 DEF OriginSafe
<1> QED
  BY <1>2, <1>3

LEMMA StepSafe ==
    ASSUME IInv, NEW c \in Commands, Step(c)
    PROVE  IInv'
<1>1. CASE InvokePlan(c)
  BY <1>1, InvokePlanSafe, PlainStepKeeps DEF InvokePlan, Become
<1>2. CASE \E plan \in saved : InvokeApply(c, plan)
  <2>1. PICK plan \in saved : InvokeApply(c, plan)
    BY <1>2
  <2>2. CommandSafe(command'[c])
    BY <2>1, InvokeApplySafe
  <2> QED
    BY <2>1, <2>2, PlainStepKeeps DEF InvokeApply, Become
<1>3. CASE Describe(c)
  BY <1>3, DescribeSafe, PlainStepKeeps DEF Describe, Become, Fail
<1>4. CASE HashProvider(c)
  BY <1>4, HashProviderSafe, PlainStepKeeps DEF HashProvider, Become, Fail
<1>5. CASE PlanTarget(c)
  BY <1>5, PlanTargetSafe, PlainStepKeeps DEF PlanTarget, Become, Fail
<1>6. CASE \E kind \in {"plan", "publish"} : CheckInventory(c, kind)
  <2>1. PICK kind \in {"plan", "publish"} : CheckInventory(c, kind)
    BY <1>6
  <2>2. CommandSafe(command'[c])
    BY <2>1, CheckInventorySafe
  <2> QED
    BY <2>1, <2>2, PlainStepKeeps DEF CheckInventory, Become, Fail
<1>7. CASE CheckSource(c)
  BY <1>7, CheckSourceSafe, PlainStepKeeps DEF CheckSource, Become, Fail
<1>8. CASE KeepExecutable(c)
  <2>1. CommandSafe(command[c])' /\ Grows /\ retained' \subseteq Builds
    BY <1>8, KeepExecutableSafe
  <2>2. /\ UNCHANGED world
        /\ UNCHANGED <<disk, held, receipts, saved, registered, origins>>
        /\ \E record : command' = [command EXCEPT ![c] = record]
    BY <1>8 DEF KeepExecutable, world, plans, Become, Fail
  <2>3. SavedSafe' /\ \A o \in origins' : OriginSafe(o)'
    BY <2>1, <2>2, PlansKeep
  <2>4. StoreSafe'
    BY <2>2 DEF IInv, Safety, StoreSafe
  <2>5. receipts' \in [Builds -> Receipts \union {NoReceipt}]
    BY <2>2 DEF IInv, TypeOK
  <2> QED
    BY <2>1, <2>2, <2>3, <2>4, <2>5, StepKeeps
<1>9. CASE WriteReceipt(c)
  <2>1. /\ CommandSafe(command[c])' /\ Grows /\ StoreSafe'
        /\ receipts' \in [Builds -> Receipts \union {NoReceipt}]
    BY <1>9, WriteReceiptSafe
  <2>2. /\ UNCHANGED world /\ UNCHANGED <<retained, saved, registered, origins>>
        /\ \E record : command' = [command EXCEPT ![c] = record]
    BY <1>9 DEF WriteReceipt, world, plans, Become, Fail
  <2>3. SavedSafe' /\ \A o \in origins' : OriginSafe(o)'
    BY <2>1, <2>2, PlansKeep
  <2>4. retained' \subseteq Builds
    BY <2>2 DEF IInv, TypeOK
  <2> QED
    BY <2>1, <2>2, <2>3, <2>4, StepKeeps
<1>10. CASE Save(c)
  <2>1. /\ CommandSafe(command[c])' /\ Grows /\ SavedSafe'
        /\ \A o \in origins' : OriginSafe(o)'
    BY <1>10, SaveSafe
  <2>2. /\ UNCHANGED world /\ UNCHANGED <<disk, held, retained, receipts>>
        /\ \E record : command' = [command EXCEPT ![c] = record]
    BY <1>10 DEF Save, world, store, Become, Fail
  <2>3. StoreSafe'
    BY <2>2 DEF IInv, Safety, StoreSafe
  <2>4. retained' \subseteq Builds /\ receipts' \in [Builds -> Receipts \union {NoReceipt}]
    BY <2>2 DEF IInv, TypeOK
  <2> QED
    BY <2>1, <2>2, <2>3, <2>4, StepKeeps
<1>11. CASE Register(c)
  <2>1. CommandSafe(command'[c]) /\ command[c].plan \in saved
    BY <1>11, RegisterSafe
  <2>2. /\ UNCHANGED world /\ UNCHANGED <<disk, held, retained, receipts, saved, origins>>
        /\ registered' = registered \union {PlanID(command[c].plan)}
        /\ \E record : command' = [command EXCEPT ![c] = record]
    BY <1>11 DEF Register, world, store, Become, Fail
  <2>3. Grows
    BY <2>2 DEF Grows
  <2>4. CommandSafe(command[c])'
    BY <2>1, <2>2, <2>3, StaysSafe
  <2>5. StoreSafe'
    BY <2>2 DEF IInv, Safety, StoreSafe
  <2>6. SavedSafe'
    BY <2>1, <2>2 DEF IInv, Safety, SavedSafe, Resolvable
  <2>7. \A o \in origins' : OriginSafe(o)'
    BY <2>2 DEF IInv, Safety, OriginSafe
  <2>8. retained' \subseteq Builds /\ receipts' \in [Builds -> Receipts \union {NoReceipt}]
    BY <2>2 DEF IInv, TypeOK
  <2> QED
    BY <2>2, <2>3, <2>4, <2>5, <2>6, <2>7, <2>8, StepKeeps
<1>12. CASE \E kind \in {"apply", "reconcile"} : OpenPlan(c, kind)
  <2>1. PICK kind \in {"apply", "reconcile"} : OpenPlan(c, kind)
    BY <1>12
  <2>2. CommandSafe(command'[c])
    BY <2>1, OpenPlanSafe
  <2> QED
    BY <2>1, <2>2, PlainStepKeeps DEF OpenPlan, Become, Fail
<1>13. CASE \E explicit \in Mappings : BindProviders(c, explicit)
  <2>1. PICK explicit \in Mappings : BindProviders(c, explicit)
    BY <1>13
  <2>2. CommandSafe(command'[c])
    BY <2>1, BindProvidersSafe
  <2> QED
    BY <2>1, <2>2, PlainStepKeeps DEF BindProviders, Become, Fail
<1>14. CASE End(c)
  BY <1>14, FailsSafely, PlainStepKeeps DEF End, Become, Fail
<1> QED
  BY <1>1, <1>2, <1>3, <1>4, <1>5, <1>6, <1>7, <1>8, <1>9, <1>10, <1>11, <1>12, <1>13, <1>14 DEF Step

LEMMA OthersSafe ==
    ASSUME IInv,
           \/ \E place \in Places, build \in Upgrades \union {NoBuild} : Upgrade(place, build)
           \/ \E source \in Sources, digest \in Digests : Rebuild(source, digest)
           \/ \E config \in Configurations : Edit(config)
    PROVE  IInv'
<1>1. /\ UNCHANGED <<retained, receipts, saved, registered, origins>>
      /\ DOMAIN command' = Commands
  BY DEF Upgrade, Rebuild, Edit, store, plans, IInv, Safety
<1>2. /\ artifacts' \in [Sources -> Digests] /\ configuration' \in Configurations
      /\ changes' \in 0..MaxChanges
  <2>1. changes' \in {changes, changes + 1} /\ (changes' # changes => changes < MaxChanges)
    BY DEF Upgrade, Rebuild, Edit
  <2>2. changes \in 0..MaxChanges /\ artifacts \in [Sources -> Digests] /\ configuration \in Configurations
    BY DEF IInv, TypeOK
  <2>3. artifacts' \in [Sources -> Digests] /\ configuration' \in Configurations
    BY <2>2 DEF Upgrade, Rebuild, Edit
  <2> QED
    BY <2>1, <2>2, <2>3, BoundAssumption
<1>3. /\ disk' \in Disks /\ held' \subseteq Builds /\ held \subseteq held'
      /\ disk'["installed"] # NoBuild => disk'["installed"] \in held'
  <2>1. CASE disk' = disk /\ held' = held
    BY <2>1 DEF IInv, TypeOK, Safety, StoreSafe
  <2>2. CASE \E place \in Places, build \in Upgrades \union {NoBuild} : Upgrade(place, build)
    <3>1. PICK place \in Places, build \in Upgrades \union {NoBuild} : Upgrade(place, build)
      BY <2>2
    <3>2. /\ disk' = [disk EXCEPT ![place] = build]
          /\ held' = IF place = "installed" /\ build # NoBuild THEN held \union {build} ELSE held
      BY <3>1 DEF Upgrade
    <3>3. disk \in [Places -> Builds \union {NoBuild}] /\ held \subseteq Builds
      BY DEF IInv, TypeOK, Disks
    <3>4. build \in Builds \union {NoBuild}
      BY BuildAssumption
    <3>5. disk["installed"] # NoBuild => disk["installed"] \in held
      BY DEF IInv, Safety, StoreSafe
    <3> QED
      BY <3>2, <3>3, <3>4, <3>5 DEF Disks, Places
  <2> QED
    BY <2>1, <2>2 DEF Rebuild, Edit
<1>4. ASSUME NEW d \in Commands PROVE CommandSafe(command[d])'
  <2>1. CASE \E place \in Places, build \in Upgrades \union {NoBuild} : Upgrade(place, build)
    BY <2>1, UpgradeSafe
  <2>2. CASE command' = command /\ disk' = disk
    <3>1. Grows
      BY <1>1 DEF Grows
    <3>2. CommandSafe(command'[d])
      BY <2>2, Known
    <3> QED
      BY <1>3, <2>2, <3>1, <3>2, StaysSafe
  <2> QED
    BY <2>1, <2>2 DEF Rebuild, Edit
<1>5. StoreSafe'
  BY <1>1, <1>3 DEF IInv, Safety, StoreSafe
<1>6. SavedSafe'
  BY <1>1 DEF IInv, Safety, SavedSafe, Resolvable
<1>7. \A o \in origins' : OriginSafe(o)'
  BY <1>1 DEF IInv, Safety, OriginSafe
<1>8. Safety'
  BY <1>1, <1>4, <1>5, <1>6, <1>7 DEF Safety
<1>9. ASSUME NEW d \in Commands
      PROVE  /\ command'[d].pc \in CommandSteps
             /\ command'[d].kind \in {"none", "plan", "publish", "apply", "reconcile"}
             /\ command'[d].pc \in {"inventory", "check", "keep", "receipt", "save", "register", "open",
                                   "bind", "execute"} => DOMAIN command'[d].plan.targets \subseteq Targets
  BY <1>4 DEF CommandSafe, CommandTyped, PlanSound, Making, Sourcing, Running
<1>10. TypeOK'
  BY <1>1, <1>2, <1>3, <1>9 DEF IInv, TypeOK
<1> QED
  BY <1>8, <1>10 DEF IInv

LEMMA NextSafe == IInv /\ [Next]_vars => IInv'
<1>1. ASSUME IInv, UNCHANGED vars PROVE IInv'
  <2>1. \A d \in Commands : CommandSafe(command[d])'
    <3>1. Grows /\ disk' = disk /\ held' = held /\ command' = command
      BY <1>1 DEF vars, Grows
    <3> QED
      BY <1>1, <3>1, Known, StaysSafe
  <2>2. SavedSafe' /\ StoreSafe' /\ \A o \in origins' : OriginSafe(o)'
    BY <1>1 DEF vars, IInv, Safety, SavedSafe, StoreSafe, OriginSafe, Resolvable
  <2>3. TypeOK'
    BY <1>1 DEF vars, IInv, TypeOK
  <2> QED
    BY <1>1, <2>1, <2>2, <2>3 DEF vars, IInv, Safety
<1>2. ASSUME IInv, NEW c \in Commands, Step(c) PROVE IInv'
  BY <1>2, StepSafe
<1> QED
  BY <1>1, <1>2, OthersSafe DEF Next

(* At every step of every command, what it has read, bound and written so  *)
(* far is as Safety says; neither upgrades nor other commands invalidate   *)
(* it, but for the upgrades that a command counts.                         *)
THEOREM PlanningInvariantHolds == Spec => []IInv
<1> QED
  BY InitSafe, NextSafe, PTL DEF Spec

-----------------------------------------------------------------------------
(* What follows.                                                           *)

\* A plan that is saved, by what its origins leave of it.
LEMMA OriginsTell ==
    ASSUME IInv, NEW p \in saved, NEW t \in DOMAIN p.targets
    PROVE  /\ PlanSound(p)
           /\ AlwaysUpgraded(p, 1) \/ Described(p, t)
           /\ AlwaysUpgraded(p, 2) \/ Unmixed(p, t)
<1>1. PlanSound(p)
  BY DEF IInv, Safety, SavedSafe
<1>2. \A upgrades : PlanHonest(PlanID(p), upgrades) => PlanHonest(p, upgrades)
  BY <1>1, IdentityIsSound DEF PlanSound
<1>3. \A r \in OriginsOf(p) : r.upgrades \in 0..2 /\ PlanHonest(p, r.upgrades)
  BY <1>2 DEF OriginsOf, IInv, Safety, OriginSafe
<1>4. \A r \in OriginsOf(p) : /\ r.upgrades >= 1 \/ Described(p, t)
                              /\ r.upgrades >= 2 \/ Unmixed(p, t)
  <2> SUFFICES ASSUME NEW r \in OriginsOf(p)
               PROVE  /\ r.upgrades >= 1 \/ Described(p, t)
                      /\ r.upgrades >= 2 \/ Unmixed(p, t)
    OBVIOUS
  <2>1. PlanHonest(p, r.upgrades) /\ r.upgrades \in 0..2
    BY <1>3
  <2> QED
    BY <2>1 DEF PlanHonest
<1> QED
  BY <1>1, <1>4 DEF AlwaysUpgraded

LEMMA InvariantExecutesAsPlanned == IInv => ExecutedAsPlanned
<1> SUFFICES ASSUME IInv, NEW c \in Commands, NEW t \in Targets, MayRun(c, t)
             PROVE  LET plan == command[c].plan
                        provider == plan.targets[t].digest
                    IN  /\ \/ provider.requires \union provider.demands = plan.targets[t].requirements
                           \/ AlwaysUpgraded(plan, 1)
                        /\ \A o \in plan.operations : o.target = t =>
                              /\ o.payload.artifact = plan.release
                              /\ o.payload.computedBy = provider \/ AlwaysUpgraded(plan, 2)
  BY DEF ExecutedAsPlanned
<1> DEFINE plan == command[c].plan
<1>1. t \in DOMAIN plan.targets /\ command[c].pc = "execute"
  BY DEF MayRun
<1>2. plan \in saved
  BY <1>1, Known DEF CommandSafe, Running
<1>3. /\ PlanSound(plan)
      /\ AlwaysUpgraded(plan, 1) \/ Described(plan, t)
      /\ AlwaysUpgraded(plan, 2) \/ Unmixed(plan, t)
  BY <1>1, <1>2, OriginsTell
<1> HIDE DEF plan
<1>4. \A o \in plan.operations : o.payload.artifact = plan.release
  BY <1>3 DEF PlanSound
<1>5. AlwaysUpgraded(plan, 1) \/
      plan.targets[t].digest.requires \union plan.targets[t].digest.demands = plan.targets[t].requirements
  BY <1>3 DEF Described
<1>6. \A o \in plan.operations : o.target = t =>
         o.payload.computedBy = plan.targets[t].digest \/ AlwaysUpgraded(plan, 2)
  BY <1>3 DEF Unmixed, OperationsOf
<1> QED
  BY <1>4, <1>5, <1>6 DEF plan

LEMMA InvariantKeepsPlansRunnable == IInv => SavedPlansCanRun
<1> SUFFICES ASSUME IInv PROVE SavedPlansCanRun
  OBVIOUS
<1>1. registered \subseteq {PlanID(p) : p \in saved}
  BY DEF IInv, Safety, SavedSafe
<1>2. ASSUME NEW p \in saved, NEW t \in DOMAIN p.targets
      PROVE  /\ Resolvable(p.targets[t])
             /\ \/ AlwaysUpgraded(p, 1)
                \/ \A capability \in RequiredCapabilities({o \in p.operations : o.target = t}) :
                       Verified(p.targets[t], capability)
  <2>1. Resolvable(p.targets[t])
    BY DEF IInv, Safety, SavedSafe
  <2>2. AlwaysUpgraded(p, 1) \/ Described(p, t)
    BY OriginsTell
  <2>3. Described(p, t) =>
           \A capability \in RequiredCapabilities({o \in p.operations : o.target = t}) :
               Verified(p.targets[t], capability)
    BY DEF Described, OperationsOf, ValidDescription, Verified
  <2> QED
    BY <2>1, <2>2, <2>3
<1> QED
  BY <1>1, <1>2 DEF SavedPlansCanRun

LEMMA InvariantGuardsAmbient == IInv => AmbientOnlyForInstalled
<1> SUFFICES ASSUME IInv, NEW c \in Commands, NEW t \in Targets, MayRun(c, t)
             PROVE  LET cmd == command[c]
                        assigned == DOMAIN cmd.explicit \union DOMAIN cmd.config.sources
                        digests == {cmd.plan.targets[u].digest : u \in DOMAIN cmd.plan.targets}
                    IN  {u.ref : u \in cmd.plan.targets[t].requirements} \subseteq assigned \/
                        /\ digests \subseteq held
                        /\ \A u \in DOMAIN cmd.plan.targets : cmd.config.targets[u] = ""
                        /\ \A r \in origins : \A u \in DOMAIN r.plan.targets :
                              r.plan.targets[u].digest \in digests =>
                                  r.from[u] = "installed" /\ r.named[u] = ""
  BY DEF AmbientOnlyForInstalled
<1> DEFINE cmd == command[c]
           assigned == DOMAIN cmd.explicit \union DOMAIN cmd.config.sources
           digests == {cmd.plan.targets[u].digest : u \in DOMAIN cmd.plan.targets}
<1>1. CASE {u.ref : u \in cmd.plan.targets[t].requirements} \subseteq assigned
  BY <1>1
<1>2. CASE ~ ({u.ref : u \in cmd.plan.targets[t].requirements} \subseteq assigned)
  <2>1. PICK use \in cmd.plan.targets[t].requirements : use.ref \notin assigned
    BY <1>2
  <2>2. cmd.pc = "execute" /\ use \in DOMAIN SourcesOf(cmd)
    BY <2>1 DEF MayRun
  <2>3. SourceOf(use, cmd.plan, cmd.config.sources, cmd.explicit, cmd.trusted) # NoVariable
    BY <2>2 DEF SourcesOf, SelectSources
  <2>4. cmd.trusted
    BY <2>1, <2>3 DEF SourceOf
  <2>5. CommandSafe(cmd)
    BY Known
  <2>6. Ambient(cmd) /\ PlanSound(cmd.plan)
    BY <2>2, <2>5 DEF CommandSafe, CommandTyped, Running
  <2>7. \A u \in DOMAIN cmd.plan.targets :
           /\ cmd.plan.targets[u].digest \in Builds
           /\ receipts[cmd.plan.targets[u].digest] # NoReceipt
           /\ receipts[cmd.plan.targets[u].digest].trusted
           /\ cmd.config.targets[u] = ""
    BY <2>4, <2>6 DEF Ambient, PlanSound
  <2> HIDE DEF cmd
  <2>8. \A digest \in digests :
           digest \in Builds /\ receipts[digest] # NoReceipt /\ receipts[digest].trusted
    BY <2>7
  <2>9. digests \subseteq held
    BY <2>8 DEF IInv, Safety, StoreSafe
  <2>10. \A r \in origins : \A u \in DOMAIN r.plan.targets :
            r.plan.targets[u].digest \in digests => r.from[u] = "installed" /\ r.named[u] = ""
    BY <2>8 DEF IInv, Safety, OriginSafe
  <2> QED
    BY <2>7, <2>9, <2>10 DEF cmd
<1> QED
  BY <1>1, <1>2

(* Every variable of the planning commands has its type, for every number  *)
(* of commands, targets, provider executables and configurations, and      *)
(* however often others upgrade, rebuild and edit between their steps.     *)
THEOREM PlanningIsTyped == Spec => []TypeOK
<1>1. IInv => TypeOK
  BY DEF IInv
<1> QED
  BY <1>1, PlanningInvariantHolds, PTL

(* For every project: an operation that may run is one its retained        *)
(* executable planned, on the artifact of the plan, and it is given the    *)
(* credentials that executable asks for, unless every making of the plan   *)
(* was crossed by two upgrades (or, for the credentials, by one).          *)
THEOREM OperationsAreExecutedAsPlanned == Spec => []ExecutedAsPlanned
  BY PlanningInvariantHolds, InvariantExecutesAsPlanned, PTL

(* For every project: whenever a credential is read from the environment   *)
(* by default, all executables of the plan were once installed beside the  *)
(* program and nothing else was ever kept under their digests.             *)
THEOREM AmbientCredentialsAreGuarded == Spec => []AmbientOnlyForInstalled
  BY PlanningInvariantHolds, InvariantGuardsAmbient, PTL

(* For every project: the executables of every plan that was saved are     *)
(* retained, with receipts that fit it, so that it can be executed later.  *)
THEOREM SavedPlansStayRunnable == Spec => []SavedPlansCanRun
  BY PlanningInvariantHolds, InvariantKeepsPlansRunnable, PTL
=============================================================================
