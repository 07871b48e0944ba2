----------------------------- MODULE MCExecutor -----------------------------
(* Small plans for model checking Executor. *)
EXTENDS Executor, TLC

CONSTANTS a, b

\* One publication.
SingleDependencies == a :> {}

\* Two publications, b after a.
ChainDependencies == a :> {} @@ b :> {a}

\* Two independent ones.
PairDependencies == a :> {} @@ b :> {}
=============================================================================
