------------------------------- MODULE Planning -------------------------------
(***************************************************************************)
(* From a configuration to a plan that can be executed: the commands plan, *)
(* publish, apply and reconcile up to the call of a provider, in one       *)
(* project, while others upgrade the provider executables, rebuild the     *)
(* artifact and edit the configuration between any two of their steps.     *)
(*                                                                         *)
(* The catalog's part (claims, journals, runs) is RunCatalog's, and what   *)
(* happens to an operation is Executor's.                                  *)
(***************************************************************************)
EXTENDS Naturals, Sequences, PlanDocument

CONSTANTS
    Commands,         \* processes, each of which runs one command
    TargetOrder,      \* the targets of the release, in the order of their ids
    Builds,           \* the provider executables that may be found somewhere
    NoBuild,          \* no file at a place
    NoReceipt,        \* no receipt of a digest
    Starts,           \* the executables and the configuration at first
    Upgrades,         \* the executables that may come to be there later
    Digests,          \* the contents the artifact may have
    Sources,          \* the files it may be in
    Configurations,   \* what the configuration file may say
    Mappings,         \* the --credential flags a command may be given
    MaxChanges        \* bound on what others change

Targets == {TargetOrder[i] : i \in DOMAIN TargetOrder}

Places == {"installed", "elsewhere"}

Receipts == [version : {b.version : b \in Builds}, trusted : BOOLEAN]
Disks == [Places -> Builds \union {NoBuild}]

ASSUME BoundAssumption == MaxChanges \in Nat
ASSUME TargetAssumption == TargetOrder \in Seq(Targets)
ASSUME BuildAssumption ==
    /\ NoBuild \notin Builds /\ NoReceipt \notin Receipts
    /\ Upgrades \subseteq Builds
    /\ \A b \in Builds : b.version \in Nat
ASSUME ConfigurationAssumption ==
    \A config \in Configurations :
        /\ config.source \in Sources
        /\ DOMAIN config.targets # {} /\ DOMAIN config.targets \subseteq Targets
        /\ \A t \in DOMAIN config.targets : config.targets[t] \in Places \union {""}
ASSUME StartAssumption ==
    \A start \in Starts : start.disk \in Disks /\ start.configuration \in Configurations

VARIABLES
    disk,             \* the executable at each place
    artifacts,        \* the content of each artifact file
    configuration,    \* what the configuration file says
    retained,         \* .distroplane/providers: executables, by digest
    receipts,         \* and the binding.json beside each
    saved,            \* .distroplane/plans
    registered,       \* the plans of the catalog
    command,          \* what each process is doing
    changes,          \* what others have changed so far
    held,             \* history: executables that were once in the trusted place
    origins           \* history: how each saved plan came about

world == <<disk, artifacts, configuration, changes, held>>
store == <<retained, receipts>>
plans == <<saved, registered, origins>>
vars == <<disk, artifacts, configuration, retained, receipts, saved, registered, command, changes,
          held, origins>>

Empty == [x \in {} |-> NoBuild]
NoPlan == [targets |-> Empty]

NoCommand ==
    [kind |-> "none", pc |-> "idle", config |-> NoPlan, todo |-> {},
     described |-> [p \in Places |-> NoBuild], hashed |-> [p \in Places |-> NoBuild],
     plan |-> NoPlan, bindings |-> Empty, from |-> Empty,
     left |-> {}, explicit |-> Empty, trusted |-> FALSE, upgrades |-> 0]

Finished == [NoCommand EXCEPT !.pc = "done"]

Init ==
    /\ \E start \in Starts : disk = start.disk /\ configuration = start.configuration
    /\ \E digest \in Digests : artifacts = [s \in Sources |-> digest]
    /\ retained = {}
    /\ receipts = [b \in Builds |-> NoReceipt]
    /\ saved = {}
    /\ registered = {}
    /\ command = [c \in Commands |-> NoCommand]
    /\ changes = 0
    /\ held = {disk["installed"]} \ {NoBuild}
    /\ origins = {}

-----------------------------------------------------------------------------
Become(c, record) == command' = [command EXCEPT ![c] = record]
Fail(c) == Become(c, Finished)

(* Targets are visited in the order of their ids.                          *)
Least(numbers) == CHOOSE n \in numbers : \A m \in numbers : n <= m
FirstOf(targets) == TargetOrder[Least({i \in DOMAIN TargetOrder : TargetOrder[i] \in targets})]
Target(c) == FirstOf(command[c].todo)

Advance(cmd, pc, pcAfterLast) ==
    LET others == cmd.todo \ {FirstOf(cmd.todo)}
    IN  IF others # {}
        THEN [cmd EXCEPT !.todo = others, !.pc = pc]
        ELSE [cmd EXCEPT !.todo = DOMAIN cmd.config.targets, !.pc = pcAfterLast]

(* ResolveExecutable.  Without a configured executable it is the one       *)
(* installed beside the program, else the first on the path.               *)
Resolve(executable) ==
    IF executable # "" THEN executable
    ELSE IF disk["installed"] # NoBuild THEN "installed"
    ELSE "elsewhere"

Place(c) == Resolve(command[c].config.targets[Target(c)])

EmptyPlan ==
    [release |-> artifacts[configuration.source], targets |-> Empty, operations |-> {},
     source |-> configuration.source]

(* A plan and a publish start from the configuration, and are the same     *)
(* until the plan is built.                                                *)
InvokePlan(c) ==
    /\ command[c].pc = "idle"
    /\ Become(c, [NoCommand EXCEPT !.pc = "describe", !.config = configuration,
                                   !.todo = DOMAIN configuration.targets, !.plan = EmptyPlan])
    /\ UNCHANGED <<world, store, plans>>

(* An apply and a reconcile start from a plan file.                        *)
InvokeApply(c, plan) ==
    /\ command[c].pc = "idle"
    /\ Become(c, [NoCommand EXCEPT !.pc = "open", !.plan = plan])
    /\ UNCHANGED <<world, store, plans>>

(* Build, per target: the provider describes itself (once per executable), *)
(* its file is hashed (once per executable), and it plans the target.      *)
Describe(c) ==
    LET cmd == command[c]
        place == Place(c)
        answer == IF cmd.described[place] # NoBuild THEN cmd.described[place] ELSE disk[place]
    IN  /\ cmd.pc = "describe"
        /\ IF answer # NoBuild /\ ValidDescription(answer)
           THEN Become(c, [cmd EXCEPT !.described[place] = answer, !.pc = "hash",
                                      !.from = [t \in DOMAIN @ \union {Target(c)} |->
                                                    IF t = Target(c) THEN place ELSE @[t]]])
           ELSE Fail(c)
        /\ UNCHANGED <<world, store, plans>>

OneDigestPerVersion(cmd, version, digest) ==
    \A t \in DOMAIN cmd.plan.targets :
        cmd.plan.targets[t].version = version => cmd.plan.targets[t].digest = digest

HashProvider(c) ==
    LET cmd == command[c]
        place == cmd.from[Target(c)]
        digest == IF cmd.hashed[place] # NoBuild THEN cmd.hashed[place] ELSE disk[place]
    IN  /\ cmd.pc = "hash"
        /\ IF digest # NoBuild /\ OneDigestPerVersion(cmd, cmd.described[place].version, digest)
           THEN Become(c, [cmd EXCEPT !.hashed[place] = digest, !.pc = "ask"])
           ELSE Fail(c)
        /\ UNCHANGED <<world, store, plans>>

PlanTarget(c) ==
    LET cmd == command[c]
        target == Target(c)
        place == cmd.from[target]
        planner == disk[place]
        description == cmd.described[place]
        options == cmd.config.options
        planned == [cmd.plan EXCEPT
            !.targets = [t \in DOMAIN @ \union {target} |->
                            IF t = target THEN TargetOf(description, planner, cmd.hashed[place], options)
                            ELSE @[t]],
            !.operations = @ \union DraftsOf(target, planner, cmd.plan.release, options)]
    IN  /\ cmd.pc = "ask"
        /\ IF /\ planner # NoBuild
              /\ ValidOperations(planner.operations)
              /\ RequiredCapabilities(planner.operations) \subseteq description.capabilities
              /\ WellFormed(planned)
           THEN Become(c, Advance([cmd EXCEPT !.plan = planned], "describe", "inventory"))
           ELSE Fail(c)
        /\ UNCHANGED <<world, store, plans>>

(* publish refuses a release of which another plan is registered.          *)
CheckInventory(c, kind) ==
    LET cmd == command[c]
    IN  /\ cmd.pc = "inventory"
        /\ IF kind = "publish" => registered \subseteq {PlanID(cmd.plan)}
           THEN Become(c, [cmd EXCEPT !.kind = kind, !.pc = "check", !.described = NoCommand.described,
                                      !.hashed = NoCommand.hashed])
           ELSE Fail(c)
        /\ UNCHANGED <<world, store, plans>>

-----------------------------------------------------------------------------
(* Retain: the executables are found and hashed again, for each target,    *)
(* and then kept under their digests, for each version.                    *)
Bound(cmd, place, digest, trusted, version) ==
    IF version \in DOMAIN cmd.bindings
    THEN [cmd.bindings EXCEPT ![version].trusted = @ /\ trusted]
    ELSE [v \in DOMAIN cmd.bindings \union {version} |->
             IF v = version THEN [place |-> place, digest |-> digest, trusted |-> trusted]
             ELSE cmd.bindings[v]]

\* the executable is not hashed again
WrongCheckSource(c) ==
    LET cmd == command[c]
        place == Place(c)
        planned == cmd.plan.targets[Target(c)]
        trusted == cmd.config.targets[Target(c)] = "" /\ place = "installed"
        bound == [cmd EXCEPT
            !.bindings = Bound(cmd, place, planned.digest, trusted, planned.version),
            !.from[Target(c)] = place,
            !.left = @ \union {planned.version}]
    IN  /\ cmd.pc = "check"
        /\ Become(c, Advance(bound, "check", "keep"))
        /\ UNCHANGED <<world, store, plans>>

CheckSource(c) ==
    LET cmd == command[c]
        place == Place(c)
        planned == cmd.plan.targets[Target(c)]
        trusted == cmd.config.targets[Target(c)] = "" /\ place = "installed"
        bound == [cmd EXCEPT
            !.bindings = Bound(cmd, place, planned.digest, trusted, planned.version),
            !.from[Target(c)] = place,
            !.left = @ \union {planned.version}]
    IN  /\ cmd.pc = "check"
        /\ IF disk[place] = planned.digest THEN Become(c, Advance(bound, "check", "keep")) ELSE Fail(c)
        /\ UNCHANGED <<world, store, plans>>

Current(cmd) == Least(cmd.left)

\* copies whatever is there
WrongKeepExecutable(c) ==
    LET cmd == command[c]
        binding == cmd.bindings[Current(cmd)]
    IN  /\ cmd.pc = "keep"
        /\ Become(c, [cmd EXCEPT !.pc = "receipt"])
        /\ retained' = retained \union (IF binding.digest \in retained THEN {} ELSE {disk[binding.place]})
        /\ UNCHANGED <<world, receipts, plans>>

KeepExecutable(c) ==
    LET cmd == command[c]
        binding == cmd.bindings[Current(cmd)]
    IN  /\ cmd.pc = "keep"
        /\ IF binding.digest \in retained \/ disk[binding.place] = binding.digest
           THEN Become(c, [cmd EXCEPT !.pc = "receipt"]) /\ retained' = retained \union {binding.digest}
           ELSE Fail(c) /\ UNCHANGED retained
        /\ UNCHANGED <<world, receipts, plans>>

\* the last receipt wins
WrongWriteReceipt(c) ==
    LET cmd == command[c]
        version == Current(cmd)
        digest == cmd.bindings[version].digest
        receipt == [version |-> version, trusted |-> cmd.bindings[version].trusted]
        others == cmd.left \ {version}
    IN  /\ cmd.pc = "receipt"
        /\ Become(c, [cmd EXCEPT !.left = others, !.pc = IF others = {} THEN "save" ELSE "keep"])
        /\ receipts' = [receipts EXCEPT ![digest] = receipt]
        /\ UNCHANGED <<world, retained, plans>>

(* A receipt is written once; another one for the same digest is refused.  *)
WriteReceipt(c) ==
    LET cmd == command[c]
        version == Current(cmd)
        digest == cmd.bindings[version].digest
        receipt == [version |-> version, trusted |-> cmd.bindings[version].trusted]
        others == cmd.left \ {version}
    IN  /\ cmd.pc = "receipt"
        /\ IF receipts[digest] \in {NoReceipt, receipt}
           THEN /\ Become(c, [cmd EXCEPT !.left = others, !.pc = IF others = {} THEN "save" ELSE "keep"])
                /\ receipts' = [receipts EXCEPT ![digest] = receipt]
           ELSE Fail(c) /\ UNCHANGED receipts
        /\ UNCHANGED <<world, retained, plans>>

(* Store.Save installs the plan unless its name has another content.       *)
Save(c) ==
    LET cmd == command[c]
    IN  /\ cmd.pc = "save"
        /\ IF \A p \in saved : PlanID(p) = PlanID(cmd.plan) => p = cmd.plan
           THEN /\ saved' = saved \union {cmd.plan}
                /\ origins' = origins \union
                      {[plan |-> PlanID(cmd.plan), upgrades |-> cmd.upgrades, from |-> cmd.from,
                        named |-> cmd.config.targets]}
                /\ Become(c, [NoCommand EXCEPT !.kind = cmd.kind, !.pc = "register", !.plan = cmd.plan])
           ELSE Fail(c) /\ UNCHANGED <<saved, origins>>
        /\ UNCHANGED <<world, store, registered>>

(* A publish goes on with its plan, once it was approved, as an apply.     *)
Register(c) ==
    LET cmd == command[c]
    IN  /\ cmd.pc = "register"
        /\ registered' = registered \union {PlanID(cmd.plan)}
        /\ Become(c, IF cmd.kind = "publish"
                     THEN [NoCommand EXCEPT !.kind = "publish", !.pc = "open", !.plan = cmd.plan]
                     ELSE Finished)
        /\ UNCHANGED <<world, store, saved, origins>>

-----------------------------------------------------------------------------
(* Executing a plan: it is validated again as it is read, and its          *)
(* artifacts are verified unless it is only reconciled.                    *)
OpenPlan(c, kind) ==
    LET cmd == command[c]
    IN  /\ cmd.pc = "open"
        /\ cmd.kind = "publish" => kind = "apply"
        /\ IF /\ WellFormed(cmd.plan)
              /\ kind = "reconcile" \/ artifacts[cmd.plan.source] = cmd.plan.release
           THEN Become(c, [cmd EXCEPT !.kind = kind, !.pc = "bind"])
           ELSE Fail(c)
        /\ UNCHANGED <<world, store, plans>>

(* The retained executable of a target, as its plan records it.            *)
Resolvable(target) ==
    /\ target.digest \in retained
    /\ receipts[target.digest] # NoReceipt
    /\ receipts[target.digest].version = target.version

\* the receipt alone decides
WrongTrustedDefaults(plan, config) ==
    \A t \in DOMAIN plan.targets : receipts[plan.targets[t].digest].trusted

(* Default credentials need a trusted receipt for every target, and a      *)
(* configuration that leaves the choice of all executables to the program. *)
TrustedDefaults(plan, config) ==
    \A t \in DOMAIN plan.targets :
        receipts[plan.targets[t].digest].trusted /\ config.targets[t] = ""

(* executionDriverWithDigests, with the configuration as it is now and the *)
(* --credential flags of the command, which nothing reads before.          *)
BindProviders(c, explicit) ==
    LET cmd == command[c]
        plan == cmd.plan
        config == configuration
        trusted == TrustedDefaults(plan, config)
    IN  /\ cmd.pc = "bind"
        /\ IF /\ \A t \in DOMAIN plan.targets : t \in DOMAIN config.targets /\ Resolvable(plan.targets[t])
              /\ SourcesAreClear(plan, config.sources, explicit, trusted)
           THEN Become(c, [cmd EXCEPT !.pc = "execute", !.explicit = explicit, !.config = config,
                                      !.trusted = trusted])
           ELSE Fail(c)
        /\ UNCHANGED <<world, store, plans>>

(* The command returns, or is killed, after any of its steps.              *)
End(c) ==
    /\ command[c].pc \notin {"idle", "done"}
    /\ Fail(c)
    /\ UNCHANGED <<world, store, plans>>

-----------------------------------------------------------------------------
(* What others do.                                                         *)
PlanningSteps == {"describe", "hash", "ask", "inventory", "check", "keep"}

Upgrade(place, build) ==
    /\ changes < MaxChanges
    /\ disk[place] # build
    /\ disk' = [disk EXCEPT ![place] = build]
    /\ held' = IF place = "installed" /\ build # NoBuild THEN held \union {build} ELSE held
    /\ changes' = changes + 1
    /\ command' = [c \in Commands |->
          IF command[c].pc \in PlanningSteps /\ command[c].upgrades < 2
          THEN [command[c] EXCEPT !.upgrades = @ + 1] ELSE command[c]]
    /\ UNCHANGED <<artifacts, configuration, store, plans>>

Rebuild(source, digest) ==
    /\ changes < MaxChanges
    /\ artifacts[source] # digest
    /\ artifacts' = [artifacts EXCEPT ![source] = digest]
    /\ changes' = changes + 1
    /\ UNCHANGED <<disk, configuration, held, command, store, plans>>

Edit(config) ==
    /\ changes < MaxChanges
    /\ configuration # config
    /\ configuration' = config
    /\ changes' = changes + 1
    /\ UNCHANGED <<disk, artifacts, held, command, store, plans>>

Step(c) ==
    \/ InvokePlan(c)
    \/ \E plan \in saved : InvokeApply(c, plan)
    \/ Describe(c) \/ HashProvider(c) \/ PlanTarget(c)
    \/ \E kind \in {"plan", "publish"} : CheckInventory(c, kind)
    \/ CheckSource(c) \/ KeepExecutable(c) \/ WriteReceipt(c) \/ Save(c) \/ Register(c)
    \/ \E kind \in {"apply", "reconcile"} : OpenPlan(c, kind)
    \/ \E explicit \in Mappings : BindProviders(c, explicit)
    \/ End(c)

Next ==
    \/ \E c \in Commands : Step(c)
    \/ \E place \in Places, build \in Upgrades \union {NoBuild} : Upgrade(place, build)
    \/ \E source \in Sources, digest \in Digests : Rebuild(source, digest)
    \/ \E config \in Configurations : Edit(config)

Spec == Init /\ [][Next]_vars

-----------------------------------------------------------------------------
(* The driver has a provider describe itself, as the plan recorded it, and *)
(* resolves the credentials of the target before any operation of it.      *)
Verified(target, capability) ==
    /\ target.digest.name = ProviderName
    /\ target.digest.speaks
    /\ target.digest.version = target.version
    /\ capability \in target.digest.capabilities

SourcesOf(cmd) == SelectSources(cmd.plan, cmd.config.sources, cmd.explicit, cmd.trusted)

MayRun(c, t) ==
    LET cmd == command[c]
        target == cmd.plan.targets[t]
    IN  /\ cmd.pc = "execute"
        /\ t \in DOMAIN cmd.plan.targets
        /\ Verified(target, cmd.kind)
        /\ CredentialsAreDistinct(target.requirements)
        /\ target.requirements \subseteq DOMAIN SourcesOf(cmd)

OriginsOf(plan) == {r \in origins : r.plan = PlanID(plan)}
AlwaysUpgraded(plan, times) == \A r \in OriginsOf(plan) : r.upgrades >= times

(* An operation runs in the executable that planned it, on the artifact it *)
(* was planned for and with the credentials that executable asks for,      *)
(* however upgrades fall between the description, the digest, the plan     *)
(* request and the retention of a provider: one upgrade during a command   *)
(* never mixes the operations of two executables, because the digest is    *)
(* taken before the plan request and again after it, and only an upgrade   *)
(* between description and digest mixes the credentials.                   *)
ExecutedAsPlanned ==
    \A c \in Commands, t \in Targets : MayRun(c, t) =>
        LET plan == command[c].plan
            provider == plan.targets[t].digest
        IN  /\ \/ provider.requires \union provider.demands = plan.targets[t].requirements
               \/ AlwaysUpgraded(plan, 1)
            /\ \A o \in plan.operations : o.target = t =>
                  /\ o.payload.artifact = plan.release
                  /\ o.payload.computedBy = provider \/ AlwaysUpgraded(plan, 2)

(* Credentials that nobody assigned to a reference are read from the       *)
(* environment only for executables that were installed beside the         *)
(* program, of which no plan of the project ever kept a copy from          *)
(* elsewhere or under a configured path, and while the configuration names *)
(* no executable for any target of the plan: through Retain, the receipts  *)
(* and the binding of the driver, whatever is replaced or edited meanwhile.*)
AmbientOnlyForInstalled ==
    \A c \in Commands, t \in Targets : MayRun(c, t) =>
        LET cmd == command[c]
            assigned == DOMAIN cmd.explicit \union DOMAIN cmd.config.sources
            digests == {cmd.plan.targets[u].digest : u \in DOMAIN cmd.plan.targets}
        IN  {u.ref : u \in cmd.plan.targets[t].requirements} \subseteq assigned \/
            /\ digests \subseteq held
            /\ \A u \in DOMAIN cmd.plan.targets : cmd.config.targets[u] = ""
            /\ \A r \in origins : \A u \in DOMAIN r.plan.targets :
                  r.plan.targets[u].digest \in digests => r.from[u] = "installed" /\ r.named[u] = ""

(* A plan that a command saved or registered can be executed later, when   *)
(* the executables it was made with are long gone: each was retained       *)
(* before, with a receipt that still says what the plan says, and it       *)
(* describes itself as planned unless it was upgraded in the meantime.     *)
SavedPlansCanRun ==
    /\ registered \subseteq {PlanID(p) : p \in saved}
    /\ \A p \in saved : \A t \in DOMAIN p.targets :
          /\ Resolvable(p.targets[t])
          /\ \/ AlwaysUpgraded(p, 1)
             \/ \A capability \in RequiredCapabilities({o \in p.operations : o.target = t}) :
                    Verified(p.targets[t], capability)

CommandSteps ==
    {"idle", "describe", "hash", "ask", "inventory", "check", "keep", "receipt", "save", "register",
     "open", "bind", "execute", "done"}

(* Every variable has its type; a command past its planning has a plan.    *)
TypeOK ==
    /\ disk \in Disks
    /\ artifacts \in [Sources -> Digests]
    /\ configuration \in Configurations
    /\ retained \subseteq Builds
    /\ receipts \in [Builds -> Receipts \union {NoReceipt}]
    /\ held \subseteq Builds
    /\ changes \in 0..MaxChanges
    /\ \A c \in Commands :
          /\ command[c].pc \in CommandSteps
          /\ command[c].kind \in {"none", "plan", "publish", "apply", "reconcile"}
          /\ command[c].pc \in {"inventory", "check", "keep", "receipt", "save", "register", "open",
                               "bind", "execute"} => DOMAIN command[c].plan.targets \subseteq Targets
=============================================================================
