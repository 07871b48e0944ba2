------------------------------ MODULE MCPlanning ------------------------------
(***************************************************************************)
(* Planning for TLC: two targets, two commands, three executables that may *)
(* replace each other and three that no plan can be made or executed with.  *)
(***************************************************************************)
EXTENDS Planning, TLC

Token == [ref |-> "token", environment |-> "TOKEN"]
Second == [ref |-> "second", environment |-> "SECOND"]
SameVariable == [ref |-> "second", environment |-> "TOKEN"]

MCDefaultSources == [e \in {"TOKEN"} |-> "AMBIENT"]

Publish == [id |-> "publish", dependencies |-> {}, sideEffecting |-> TRUE]
Inspect == [id |-> "inspect", dependencies |-> {"publish"}, sideEffecting |-> FALSE]

First ==
    [name |-> "provider", version |-> 1, speaks |-> TRUE,
     capabilities |-> {"plan", "apply", "reconcile"}, requires |-> {}, operations |-> {Publish},
     demands |-> {Token}]
\* built again under the same version, for other credentials
Again == [First EXCEPT !.requires = {Second}, !.demands = {}]
Newer == [First EXCEPT !.version = 2, !.demands = {}, !.operations = {Publish, Inspect}]

Unusable ==
    {[First EXCEPT !.capabilities = {"plan", "apply"}],
     [First EXCEPT !.operations = {Inspect, [Publish EXCEPT !.dependencies = {"inspect"}]}],
     [First EXCEPT !.requires = {SameVariable}]}

MCUpgrades == {First, Newer}
MCBuilds == MCUpgrades \union {Again} \union Unusable

MCSymmetry == Permutations(Commands) \union Permutations(Digests)

Single == [targets |-> [t \in {"T1"} |-> ""], source |-> "checkout", options |-> "options", sources |-> Empty]
OtherCheckout ==
    [Single EXCEPT !.source = "other checkout", !.sources = [r \in {"token"} |-> "ASSIGNED"]]
Mixed ==
    [Single EXCEPT !.targets = [t \in {"T1", "T2"} |-> IF t = "T1" THEN "elsewhere" ELSE ""]]

MCConfigurations == {Single, OtherCheckout, Mixed}

Start(installed, elsewhere, config) ==
    [disk |-> [p \in Places |-> IF p = "installed" THEN installed ELSE elsewhere],
     configuration |-> config]
MCStarts ==
    {Start(First, First, Single), Start(Again, Newer, Mixed)} \union
    {Start(NoBuild, b, Single) : b \in Unusable}

MCMappings == {[r \in refs |-> "FLAG"] : refs \in SUBSET {"token", "second"}}
MCTargetOrder == <<"T1", "T2">>
=============================================================================
