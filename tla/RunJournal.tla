----------------------------- MODULE RunJournal -----------------------------
(***************************************************************************)
(* The journal of one run as journal.Reduce reads it                       *)
(* (internal/journal/reducer.go).                                          *)
(*                                                                         *)
(* The durable artefact is a sequence of events; everything the program    *)
(* decides, it decides on the state Reduce derives from them.  A journal   *)
(* is therefore represented by that derived state, and appending an event  *)
(* by one operator per event type, the two halves of which are the case of *)
(* the reducer's switch: when it accepts the event, and what it then sets. *)
(*                                                                         *)
(* Writer.Append (writer.go:171) does not consult the reducer.  An event   *)
(* the reducer refuses still becomes durable, and from then on every       *)
(* Reduce of the file fails.  The field "refused" records that: it holds   *)
(* the type of the first refused event.  The other fields then go on as if *)
(* the event had been accepted, which is what the invocation that wrote it *)
(* still acts on until it next calls Reduce; no later one gets past it.    *)
(*                                                                         *)
(* Left out: event identity (sequence, run, plan and target ids), the text *)
(* of provider states and evidence, error codes, and the lease's id, owner *)
(* and times (the holder always presents the lease it was given; whether   *)
(* the deadline has passed is the caller's "elapsed").                     *)
(***************************************************************************)
EXTENDS Naturals

CONSTANTS
    Operation,      \* the operations of the saved plan
    Dependencies,   \* Dependencies[o]: the operations o waits for
    SideEffecting,  \* the operations that publish something
    Authorizable    \* those of provider "npm" and kind "publish"

ASSUMPTION PlanAssumption ==
    /\ Dependencies \in [Operation -> SUBSET Operation]
    /\ SideEffecting \subseteq Operation
    /\ Authorizable \subseteq Operation

OperationStates == {"PLANNED", "READY", "RUNNING", "BLOCKED", "WAITING_EXTERNAL",
                    "PUBLISHED", "REJECTED", "FAILED", "CANCELLED"}

\* The results a provider can report (executor/types.go, Result.validate).
ProviderResults == {"WAITING_EXTERNAL", "PUBLISHED", "REJECTED"}

OperationState ==
    [state             : OperationStates,
     attempt           : Nat,
     blockedAttempts   : Nat,
     readyJournaled    : BOOLEAN,
     leaseActive       : BOOLEAN,
     providerStarted   : BOOLEAN,
     providerResponded : BOOLEAN,
     reconcileRequired : BOOLEAN,
     ambiguous         : BOOLEAN,
     retryable         : BOOLEAN,
     observedAbsent    : BOOLEAN,
     dispatched        : BOOLEAN,
     reconciling       : BOOLEAN]

EventTypes == {"RUN_STARTED", "RUN_COMPLETED", "RUN_CANCELLED", "OPERATION_READY",
    "LEASE_ACQUIRED", "LEASE_RENEWED", "LEASE_EXPIRED", "LEASE_RELEASED",
    "OPERATION_CANCELLED", "ATTEMPT_STARTED", "CREDENTIAL_RESOLVED",
    "PROVIDER_PROCESS_STARTED", "SIDE_EFFECT_DISPATCHED",
    "PROVIDER_RESPONSE_RECEIVED", "OUTCOME_AMBIGUOUS", "OPERATION_OUTCOME",
    "OPERATION_RESULT", "RECONCILE_STARTED", "RETRY_AUTHORIZED", "RECONCILE_RESULT"}

JournalState ==
    [status  : {"EMPTY", "STARTED", "CANCELLED", "COMPLETED"},
     refused : EventTypes \cup {"NONE"},
     ops     : [Operation -> OperationState]]

PlannedOperation ==
    [state |-> "PLANNED", attempt |-> 0, blockedAttempts |-> 0,
     readyJournaled |-> FALSE, leaseActive |-> FALSE, providerStarted |-> FALSE,
     providerResponded |-> FALSE, reconcileRequired |-> FALSE, ambiguous |-> FALSE,
     retryable |-> FALSE, observedAbsent |-> FALSE, dispatched |-> FALSE,
     reconciling |-> FALSE]

EmptyJournal ==
    [status |-> "EMPTY", refused |-> "NONE", ops |-> [o \in Operation |-> PlannedOperation]]

-----------------------------------------------------------------------------
(* Helpers of the reducer. *)

\* (Mutant: a dependency that was only submitted counts as published.)
WrongDependenciesSubmitted(ops, o) ==
    \A d \in Dependencies[o] : ops[d].state \in {"PUBLISHED", "WAITING_EXTERNAL"}

DependenciesPublished(ops, o) ==
    \A d \in Dependencies[o] : ops[d].state = "PUBLISHED"

\* refreshReady: every planned operation whose dependencies are published becomes ready.
RefreshReady(ops) ==
    [o \in Operation |->
        IF ops[o].state = "PLANNED" /\ DependenciesPublished(ops, o)
        THEN [ops[o] EXCEPT !.state = "READY"]
        ELSE ops[o]]

AllQuiescent(ops) ==
    \A o \in Operation :
        /\ ~ops[o].reconcileRequired
        /\ ~ops[o].leaseActive
        /\ ops[o].state \in {"PUBLISHED", "REJECTED", "FAILED", "CANCELLED"}

\* The record of a cancelled operation.
Cancelled(op) == [op EXCEPT !.state = "CANCELLED", !.retryable = FALSE]

\* (Mutant: side effects that need reconciliation are cancelled as well.)
WrongCancelUnreconciled(ops) ==
    [o \in Operation |->
        IF ops[o].state \in {"PLANNED", "READY", "RUNNING", "FAILED", "BLOCKED"}
        THEN [ops[o] EXCEPT !.state = "CANCELLED", !.retryable = FALSE,
                            !.reconcileRequired = FALSE]
        ELSE ops[o]]

\* (Mutant: settled operations are cancelled as well.)
WrongCancelSettled(ops) ==
    [o \in Operation |->
        IF ops[o].reconcileRequired THEN ops[o] ELSE Cancelled(ops[o])]

\* cancelRemaining: whatever is settled, or has a side effect to reconcile, stays.
CancelRemaining(ops) ==
    [o \in Operation |->
        IF /\ ~ops[o].reconcileRequired
           /\ ops[o].state \in {"PLANNED", "READY", "RUNNING", "FAILED", "BLOCKED"}
        THEN Cancelled(ops[o])
        ELSE ops[o]]

\* applyResult: the record of an operation after its attempt or reconciliation ended.
ApplyResult(op, state, retryable, preserveAmbiguous) ==
    [op EXCEPT !.state = state,
               !.retryable = retryable,
               !.dispatched = FALSE,
               !.reconciling = FALSE,
               !.providerStarted = FALSE,
               !.providerResponded = FALSE,
               !.reconcileRequired = (state = "WAITING_EXTERNAL"),
               !.ambiguous = preserveAmbiguous /\ op.ambiguous /\ state = "WAITING_EXTERNAL"]

AllowedAfterRunCancellation ==
    {"LEASE_ACQUIRED", "LEASE_RENEWED", "LEASE_EXPIRED", "LEASE_RELEASED",
     "CREDENTIAL_RESOLVED", "PROVIDER_PROCESS_STARTED", "PROVIDER_RESPONSE_RECEIVED",
     "OPERATION_OUTCOME", "RECONCILE_STARTED", "RECONCILE_RESULT"}

\* The checks Reduce makes of every event before it looks at its type.
AcceptedByRun(j, type) ==
    /\ (j.status = "EMPTY") <=> (type = "RUN_STARTED")
    /\ j.status # "COMPLETED"
    /\ j.status = "CANCELLED" => type \in AllowedAfterRunCancellation

\* One event: the reducer accepts it when "accepts" holds, and then derives "next".
AppendEvent(j, type, accepts, next) ==
    IF j.refused = "NONE" /\ ~(AcceptedByRun(j, type) /\ accepts)
    THEN [next EXCEPT !.refused = type]
    ELSE next

SetOperation(j, o, op) == [j EXCEPT !.ops[o] = op]

\* As SetOperation, followed by the reducer's refreshReady.
SettleOperation(j, o, op) == [j EXCEPT !.ops = RefreshReady([j.ops EXCEPT ![o] = op])]

-----------------------------------------------------------------------------
(* The events of a run. *)

RunStarted(j) ==
    AppendEvent(j, "RUN_STARTED", TRUE,
                [j EXCEPT !.status = "STARTED", !.ops = RefreshReady(j.ops)])

RunCompleted(j) ==
    AppendEvent(j, "RUN_COMPLETED", AllQuiescent(j.ops), [j EXCEPT !.status = "COMPLETED"])

RunCancelled(j) ==
    AppendEvent(j, "RUN_CANCELLED", TRUE,
                [j EXCEPT !.status = "CANCELLED", !.ops = CancelRemaining(j.ops)])

(* The events of an operation. *)

OperationReady(j, o) ==
    AppendEvent(j, "OPERATION_READY",
        j.ops[o].state = "READY" /\ ~j.ops[o].readyJournaled,
        SetOperation(j, o, [j.ops[o] EXCEPT !.readyJournaled = TRUE]))

Retriable(op) == op.state \in {"READY", "BLOCKED"} \/ (op.state = "FAILED" /\ op.retryable)

LeaseAcquired(j, o) ==
    AppendEvent(j, "LEASE_ACQUIRED",
        ~j.ops[o].leaseActive /\ (Retriable(j.ops[o]) \/ j.ops[o].reconcileRequired),
        SetOperation(j, o, [j.ops[o] EXCEPT !.leaseActive = TRUE]))

LeaseRenewed(j, o) ==
    AppendEvent(j, "LEASE_RENEWED", j.ops[o].leaseActive, j)

LeaseExpired(j, o, elapsed) ==
    AppendEvent(j, "LEASE_EXPIRED", j.ops[o].leaseActive /\ elapsed,
           SetOperation(j, o, [j.ops[o] EXCEPT !.leaseActive = FALSE]))

LeaseReleased(j, o) ==
    AppendEvent(j, "LEASE_RELEASED", j.ops[o].leaseActive,
           SetOperation(j, o, [j.ops[o] EXCEPT !.leaseActive = FALSE]))

OperationCancelled(j, o) ==
    AppendEvent(j, "OPERATION_CANCELLED",
        j.ops[o].state \in {"PLANNED", "READY"},
        SettleOperation(j, o, Cancelled(j.ops[o])))

AttemptStarted(j, o, attempt) ==
    AppendEvent(j, "ATTEMPT_STARTED",
        /\ Retriable(j.ops[o])
        /\ ~j.ops[o].reconcileRequired
        /\ attempt = j.ops[o].attempt + 1
        /\ DependenciesPublished(j.ops, o),
        SetOperation(j, o,
            [j.ops[o] EXCEPT !.state = "RUNNING",
                             !.attempt = attempt,
                             !.dispatched = FALSE,
                             !.reconciling = FALSE,
                             !.providerStarted = FALSE,
                             !.providerResponded = FALSE,
                             !.reconcileRequired = FALSE,
                             !.ambiguous = FALSE,
                             !.retryable = FALSE,
                             !.observedAbsent = FALSE]))

CredentialResolved(j, o, attempt) ==
    AppendEvent(j, "CREDENTIAL_RESOLVED",
        /\ attempt = j.ops[o].attempt
        /\ \/ j.ops[o].reconciling
           \/ j.ops[o].state = "RUNNING" /\ ~j.ops[o].dispatched,
        j)

ProviderProcessStarted(j, o, attempt) ==
    AppendEvent(j, "PROVIDER_PROCESS_STARTED",
        /\ attempt = j.ops[o].attempt
        /\ j.ops[o].state = "RUNNING" \/ j.ops[o].reconciling
        /\ ~j.ops[o].providerStarted,
        SetOperation(j, o, [j.ops[o] EXCEPT !.providerStarted = TRUE,
                                            !.providerResponded = FALSE]))

SideEffectDispatched(j, o, attempt) ==
    AppendEvent(j, "SIDE_EFFECT_DISPATCHED",
        /\ o \in SideEffecting
        /\ j.ops[o].state = "RUNNING"
        /\ attempt = j.ops[o].attempt
        /\ ~j.ops[o].dispatched,
        SetOperation(j, o, [j.ops[o] EXCEPT !.dispatched = TRUE,
                                            !.reconcileRequired = TRUE,
                                            !.ambiguous = TRUE]))

ProviderResponseReceived(j, o, attempt) ==
    AppendEvent(j, "PROVIDER_RESPONSE_RECEIVED",
        /\ attempt = j.ops[o].attempt
        /\ j.ops[o].providerStarted
        /\ ~j.ops[o].providerResponded,
        SetOperation(j, o, [j.ops[o] EXCEPT !.providerResponded = TRUE]))

OutcomeAmbiguous(j, o, attempt) ==
    AppendEvent(j, "OUTCOME_AMBIGUOUS",
        /\ o \in SideEffecting
        /\ j.ops[o].dispatched
        /\ j.ops[o].state = "RUNNING"
        /\ attempt = j.ops[o].attempt,
        SetOperation(j, o, [j.ops[o] EXCEPT !.reconcileRequired = TRUE,
                                            !.ambiguous = TRUE,
                                            !.retryable = FALSE]))

\* OPERATION_WAITING_EXTERNAL, _PUBLISHED, _REJECTED and _FAILED: the explicit results.
OperationOutcome(j, o, attempt, state, retryable) ==
    AppendEvent(j, "OPERATION_OUTCOME",
        /\ attempt = j.ops[o].attempt
        /\ IF j.ops[o].reconciling
           THEN j.ops[o].reconcileRequired
           ELSE /\ j.ops[o].state = "RUNNING"
                /\ o \in SideEffecting /\ ~j.ops[o].dispatched => state = "FAILED",
        SettleOperation(j, o, ApplyResult(j.ops[o], state, retryable, j.ops[o].reconciling)))

\* OPERATION_RESULT, which the executor uses for BLOCKED and CANCELLED only.
OperationResult(j, o, attempt, state) ==
    AppendEvent(j, "OPERATION_RESULT",
        /\ j.ops[o].state = "RUNNING"
        /\ attempt = j.ops[o].attempt
        /\ state = "BLOCKED" => /\ ~j.ops[o].providerStarted
                                /\ ~j.ops[o].dispatched
                                /\ ~j.ops[o].reconcileRequired
        /\ o \in SideEffecting /\ ~j.ops[o].dispatched
             => state \in {"BLOCKED", "FAILED", "CANCELLED"},
        LET op == IF state = "BLOCKED"
                  THEN [j.ops[o] EXCEPT !.blockedAttempts = @ + 1]
                  ELSE j.ops[o]
        IN  SettleOperation(j, o, ApplyResult(op, state, FALSE, FALSE)))

ReconcileStarted(j, o, attempt) ==
    AppendEvent(j, "RECONCILE_STARTED",
        /\ j.ops[o].reconcileRequired
        /\ attempt = j.ops[o].attempt
        /\ ~j.ops[o].reconciling,
        SetOperation(j, o, [j.ops[o] EXCEPT !.reconciling = TRUE,
                                            !.providerStarted = FALSE,
                                            !.providerResponded = FALSE]))

\* "absent": the provider reported the release absent, and no error code.
ReconcileResult(j, o, attempt, state, retryable, absent) ==
    AppendEvent(j, "RECONCILE_RESULT",
        /\ j.ops[o].reconcileRequired
        /\ j.ops[o].reconciling
        /\ attempt = j.ops[o].attempt,
        SettleOperation(j, o,
            [ApplyResult(j.ops[o], state, retryable, TRUE)
                 EXCEPT !.observedAbsent = absent /\ state = "WAITING_EXTERNAL"]))

\* The reducer's condition for an operator to accept the risk of a second attempt.
RetryAuthorizable(op, o) ==
    /\ o \in SideEffecting
    /\ o \in Authorizable
    /\ op.state = "WAITING_EXTERNAL"
    /\ op.reconcileRequired
    /\ op.ambiguous
    /\ op.observedAbsent
    /\ ~op.reconciling
    /\ ~op.leaseActive

RetryAuthorized(j, o, attempt) ==
    AppendEvent(j, "RETRY_AUTHORIZED",
        RetryAuthorizable(j.ops[o], o) /\ attempt = j.ops[o].attempt,
        SetOperation(j, o, [j.ops[o] EXCEPT !.observedAbsent = FALSE,
                                            !.state = "READY",
                                            !.retryable = FALSE,
                                            !.reconcileRequired = FALSE,
                                            !.ambiguous = FALSE]))
=============================================================================
