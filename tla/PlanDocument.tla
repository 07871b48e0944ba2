----------------------------- MODULE PlanDocument -----------------------------
(***************************************************************************)
(* What a plan is made of, and what the planner, the credential selection  *)
(* and the driver require of the answers of a provider.                    *)
(*                                                                         *)
(* A provider executable is a record of the answers it gives: `name`,      *)
(* `version`, whether it `speaks` the protocol, its `capabilities` and the *)
(* credentials it `requires` in its description; the `operations` and the  *)
(* credentials it `demands` in its plan.  Its digest is the record itself: *)
(* two files with one digest are one file.  All targets use one provider,  *)
(* ProviderName, perhaps in several versions; nothing in this code relates *)
(* the targets of different providers except the names of credentials.     *)
(***************************************************************************)
LOCAL INSTANCE Naturals
LOCAL INSTANCE FiniteSets
LOCAL INSTANCE Functions

CONSTANTS ProviderName,          \* the name the configuration gives
          DefaultSources         \* the ambient variable for each variable a provider may want

NoVariable == "none"

-----------------------------------------------------------------------------
(* A description the planner accepts.                                      *)
ValidDescription(provider) ==
    /\ provider.name = ProviderName
    /\ provider.speaks
    /\ "plan" \in provider.capabilities

(* Kahn's algorithm: what is left out of the last round is on a cycle.     *)
Processed(operations) ==
    LET Round(i, done) == {o \in operations : o.dependencies \subseteq {d.id : d \in done}}
    IN  FoldFunction(Round, {}, [i \in 1..Cardinality(operations) |-> i])

ValidOperations(operations) ==
    /\ \A o, p \in operations : o.id = p.id => o = p
    /\ \A o \in operations : o.dependencies \subseteq {p.id : p \in operations}
    /\ Processed(operations) = operations

RequiredCapabilities(operations) ==
    {"plan"} \union
    (IF operations = {} THEN {} ELSE {"apply"}) \union
    (IF \E o \in operations : o.sideEffecting THEN {"reconcile"} ELSE {})

(* The part of a plan that one target contributes: `planner` is the file   *)
(* that answered the plan request, `digest` the one that was hashed.       *)
TargetOf(description, planner, digest, options) ==
    [version |-> description.version, digest |-> digest, options |-> options,
     requirements |-> description.requires \union planner.demands]

DraftsOf(target, planner, artifact, options) ==
    {[id |-> <<target, o.id>>,
      target |-> target,
      dependencies |-> {<<target, d>> : d \in o.dependencies},
      sideEffecting |-> o.sideEffecting,
      payload |-> [computedBy |-> planner, artifact |-> artifact, options |-> options]]
        : o \in planner.operations}

(* What NewPlan asks of a plan, when it is built and when it is loaded.    *)
WellFormed(plan) ==
    /\ DOMAIN plan.targets # {}
    /\ \A o \in plan.operations : o.target \in DOMAIN plan.targets
    /\ \A s, t \in DOMAIN plan.targets :
          plan.targets[s].version = plan.targets[t].version => plan.targets[s].digest = plan.targets[t].digest
    /\ ValidOperations(plan.operations)

(* Everything counts for the identity of a plan except where its artifact  *)
(* lies.                                                                   *)
PlanID(plan) == [f \in DOMAIN plan \ {"source"} |-> plan[f]]

-----------------------------------------------------------------------------
(* Which environment variable each credential is read from: the one given  *)
(* on the command line, else the configured one, else, for an installed    *)
(* provider whose credentials a single target needs, the default.          *)
Uses(plan) == UNION {target.requirements : target \in Range(plan.targets)}

NeedingTargets(plan) == {t \in DOMAIN plan.targets : plan.targets[t].requirements # {}}

SourceOf(use, plan, configured, explicit, trusted) ==
    IF use.ref \in DOMAIN explicit THEN explicit[use.ref]
    ELSE IF use.ref \in DOMAIN configured THEN configured[use.ref]
    ELSE IF /\ trusted
            /\ Cardinality(NeedingTargets(plan)) = 1
            /\ use.environment \in DOMAIN DefaultSources
         THEN DefaultSources[use.environment]
    ELSE NoVariable

SelectSources(plan, configured, explicit, trusted) ==
    LET Source(use) == SourceOf(use, plan, configured, explicit, trusted)
    IN  [use \in {u \in Uses(plan) : Source(u) # NoVariable} |-> Source(use)]

SourcesAreClear(plan, configured, explicit, trusted) ==
    LET sources == SelectSources(plan, configured, explicit, trusted)
    IN  /\ \A u, v \in Uses(plan) : u.ref = v.ref => u = v
        /\ DOMAIN explicit \union DOMAIN configured \subseteq {u.ref : u \in Uses(plan)}
        /\ \A u, v \in DOMAIN sources : sources[u] = sources[v] => u = v

(* The driver prepares no operation of a target that wants two credentials *)
(* in one variable or one credential in two.                               *)
CredentialsAreDistinct(requirements) ==
    \A u, v \in requirements : (u.ref = v.ref \/ u.environment = v.environment) => u = v
=============================================================================
