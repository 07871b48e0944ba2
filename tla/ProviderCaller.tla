---------------------------- MODULE ProviderCaller ----------------------------
(***************************************************************************)
(* A publication as a provider meets it: which calls the executor makes,   *)
(* and what it concludes from an answer.  The modules of the providers     *)
(* extend this one with what happens inside a call.  `Executor` has the    *)
(* executor's side in full; here only that is kept which decides the next  *)
(* call.                                                                   *)
(***************************************************************************)
EXTENDS Naturals

CONSTANTS MaxCalls,        \* bound: calls the executor makes
          MaxAuthorized    \* bound: further attempts an operator authorizes

ASSUME CallerAssumption == MaxCalls \in Nat /\ MaxAuthorized \in Nat

VARIABLE caller

(* Results, and errors by what `mapError` keeps of them.                   *)
Results == {"PUBLISHED", "WAITING_EXTERNAL", "REJECTED"}
Errors == {"AMBIGUOUS", "RETRYABLE", "PERMANENT"}
Answers == Results \union Errors

Caller == [owed : {"apply", "reconcile", "done"},
           call : {"none", "apply", "reconcile"},
           calls : 0..MaxCalls,
           authorized : 0..MaxAuthorized,
           said : Answers \union {"nothing", "planned", "misconfigured"},
           evidence : Nat]

Unplanned == [owed |-> "done", call |-> "none", calls |-> 0, authorized |-> 0,
              said |-> "nothing", evidence |-> 0]

(* `Plan` answered: an error ends it, a plan is applied.                   *)
Planned(accepted) ==
    /\ caller.said = "nothing"
    /\ caller' = [caller EXCEPT !.said = IF accepted THEN "planned" ELSE "misconfigured",
                                !.owed = IF accepted THEN "apply" ELSE "done"]

(* The executor calls the provider, an apply or a reconciliation.          *)
Call(kind) ==
    /\ caller.call = "none"
    /\ caller.owed = kind
    /\ caller.calls < MaxCalls
    /\ caller' = [caller EXCEPT !.call = kind, !.calls = @ + 1]

Calling(kind) == caller.call = kind
Idle == caller.call = "none"

(* What is to be done after an answer to an apply.  An error that is       *)
(* ambiguous or retryable is not an end, any other is.                     *)
AfterApply(answer) ==
    CASE answer \in {"WAITING_EXTERNAL", "AMBIGUOUS"} -> "reconcile"
      [] answer = "RETRYABLE" -> "apply"
      [] OTHER -> "done"

(* A reconciliation that fails is repeated, whatever the error.            *)
AfterReconcile(answer) ==
    IF answer \in {"PUBLISHED", "REJECTED"} THEN "done" ELSE "reconcile"

(* An answer is journaled with its evidence, a number here (0 for none);    *)
(* an answer without evidence drops what an earlier one left.              *)
AnswerWith(answer, evidence) ==
    caller' = [caller EXCEPT !.call = "none", !.said = answer, !.evidence = evidence,
                             !.owed = IF caller.call = "apply" THEN AfterApply(answer)
                                                               ELSE AfterReconcile(answer)]

(* A timeout, a signal or a crash ends the call and the provider's         *)
(* processes.  An apply that was dispatched is only reconciled from then   *)
(* on.  Of a reconciliation that crashed nothing is journaled.             *)
Kill(journaled) ==
    /\ caller.call # "none"
    /\ caller.call = "apply" => journaled
    /\ caller' = [caller EXCEPT !.call = "none", !.owed = "reconcile", !.said = "AMBIGUOUS",
                                !.evidence = IF journaled THEN 0 ELSE @]

(* An operator authorizes another attempt of an ambiguous one after a      *)
(* reconciliation that found nothing.  Only npm's operations allow it.     *)
AuthorizeRetry ==
    /\ caller.call = "none"
    /\ caller.owed = "reconcile" /\ caller.said = "WAITING_EXTERNAL"
    /\ caller.authorized < MaxAuthorized
    /\ caller' = [caller EXCEPT !.owed = "apply", !.authorized = @ + 1]
=============================================================================
