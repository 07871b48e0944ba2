------------------------ MODULE ExecutorCourseProof ------------------------
(***************************************************************************)
(* The course of an operation through Executor: what may follow what in    *)
(* its record, whoever appends the events.                                 *)
(*                                                                         *)
(* Safety of ExecutorProof says what is safe at the destination.  It does  *)
(* not say that an attempt is counted once, that a dependency that was     *)
(* published stays so, that a decision was made by the destination, or     *)
(* that a goroutine runs in an invocation that may publish.  Course adds   *)
(* that, and that every step of Execute and its surroundings moves each    *)
(* record in one of a few ways (Legal).  From Safety and Course together   *)
(* follow the remaining properties and that Executor implements            *)
(* Publication.                                                            *)
(***************************************************************************)
EXTENDS ExecutorProof

-----------------------------------------------------------------------------
(* What an event leaves of the operations it is not about. *)

Same(op, next) ==
    /\ next.state = op.state
    /\ next.attempt = op.attempt
    /\ next.blockedAttempts = op.blockedAttempts
    /\ next.reconcileRequired = op.reconcileRequired

\* p became ready, because what it depends on is published.
MadeReady(j, k, p) ==
    /\ j.ops[p].state = "PLANNED" /\ k.ops[p].state = "READY"
    /\ k.ops[p].attempt = j.ops[p].attempt
    /\ k.ops[p].blockedAttempts = j.ops[p].blockedAttempts
    /\ k.ops[p].reconcileRequired = j.ops[p].reconcileRequired
    /\ DependenciesPublished(k.ops, p)

Stays(j, k, p) == k.ops[p] = j.ops[p] \/ MadeReady(j, k, p)

\* Only o is worked on.
Rest(j, k, o) ==
    /\ k.status = j.status
    /\ \A p \in Operation \ {o} : Stays(j, k, p)

-----------------------------------------------------------------------------
(* What each event does to the course of the record it is about. *)

LEMMA SetEvent ==
    ASSUME NEW j \in JournalState, NEW o \in Operation, NEW op, NEW type,
           NEW k \in Appended(type, SetOperation(j, o, op))
    PROVE  k.ops[o] = op /\ Rest(j, k, o)
BY DEF Appended, SetOperation, JournalState, Rest, Stays

LEMMA SettleEvent ==
    ASSUME NEW j \in JournalState, NEW o \in Operation, NEW op, NEW type, op.state # "PLANNED",
           NEW k \in Appended(type, SettleOperation(j, o, op))
    PROVE  k.ops[o] = op /\ Rest(j, k, o)
<1> DEFINE ops == [j.ops EXCEPT ![o] = op]
<1>1. ops[o] = op /\ \A p \in Operation \ {o} : ops[p] = j.ops[p]
  BY DEF JournalState
<1>2. k.ops = RefreshReady(ops) /\ k.status = j.status
  BY DEF Appended, SettleOperation, JournalState
<1> HIDE DEF ops
<1>3. k.ops[o] = op
  BY <1>1, <1>2 DEF RefreshReady
<1>4. \A d \in Operation : ops[d].state = "PUBLISHED" => k.ops[d].state = "PUBLISHED"
  BY <1>2 DEF RefreshReady
<1>5. ASSUME NEW p \in Operation \ {o} PROVE Stays(j, k, p)
  <2>1. CASE ops[p].state = "PLANNED" /\ DependenciesPublished(ops, p)
    <3>1. k.ops[p] = [j.ops[p] EXCEPT !.state = "READY"] /\ j.ops[p].state = "PLANNED"
      BY <1>1, <1>2, <2>1 DEF RefreshReady
    <3>2. DependenciesPublished(k.ops, p)
      BY <1>4, <2>1, PlanAssumption DEF DependenciesPublished
    <3>3. j.ops[p] \in OperationState
      BY DEF JournalState
    <3> QED
      BY <3>1, <3>2, <3>3 DEF Stays, MadeReady, OperationState
  <2>2. CASE ~(ops[p].state = "PLANNED" /\ DependenciesPublished(ops, p))
    BY <1>1, <1>2, <2>2 DEF RefreshReady, Stays
  <2> QED
    BY <2>1, <2>2
<1> QED
  BY <1>2, <1>3, <1>5 DEF Rest

LEMMA BookkeepingEvent ==
    ASSUME NEW j \in JournalState, NEW o \in Operation, NEW attempt, NEW elapsed, NEW k,
           \/ k = OperationReady(j, o)
           \/ k = LeaseAcquired(j, o) \/ k = LeaseRenewed(j, o)
           \/ k = LeaseExpired(j, o, elapsed) \/ k = LeaseReleased(j, o)
           \/ k = CredentialResolved(j, o, attempt)
           \/ k = ProviderProcessStarted(j, o, attempt)
           \/ k = ProviderResponseReceived(j, o, attempt)
           \/ k = ReconcileStarted(j, o, attempt)
    PROVE  Same(j.ops[o], k.ops[o]) /\ Rest(j, k, o)
<1>1. j.ops[o] \in OperationState
  BY DEF JournalState
<1>2. CASE k = LeaseRenewed(j, o) \/ k = CredentialResolved(j, o, attempt)
  <2>1. k.ops = j.ops /\ k.status = j.status
    BY <1>2 DEF LeaseRenewed, CredentialResolved, AppendEvent, JournalState
  <2> QED
    BY <2>1 DEF Same, Rest, Stays
<1>3. CASE ~(k = LeaseRenewed(j, o) \/ k = CredentialResolved(j, o, attempt))
  <2>1. PICK op, type : k \in Appended(type, SetOperation(j, o, op)) /\ Same(j.ops[o], op)
    <3>1. CASE k = OperationReady(j, o)
      <4> DEFINE op == [j.ops[o] EXCEPT !.readyJournaled = TRUE]
      <4>1. Same(j.ops[o], op)
        BY <1>1 DEF Same, OperationState
      <4>2. k \in Appended("OPERATION_READY", SetOperation(j, o, op))
        BY <3>1 DEF OperationReady, AppendEvent, Appended
      <4> QED  BY <4>1, <4>2
    <3>2. CASE k = LeaseAcquired(j, o)
      <4> DEFINE op == [j.ops[o] EXCEPT !.leaseActive = TRUE]
      <4>1. Same(j.ops[o], op)
        BY <1>1 DEF Same, OperationState
      <4>2. k \in Appended("LEASE_ACQUIRED", SetOperation(j, o, op))
        BY <3>2 DEF LeaseAcquired, AppendEvent, Appended
      <4> QED  BY <4>1, <4>2
    <3>3. CASE k = LeaseExpired(j, o, elapsed) \/ k = LeaseReleased(j, o)
      <4> DEFINE op == [j.ops[o] EXCEPT !.leaseActive = FALSE]
      <4>1. Same(j.ops[o], op)
        BY <1>1 DEF Same, OperationState
      <4>2. \/ k \in Appended("LEASE_EXPIRED", SetOperation(j, o, op))
            \/ k \in Appended("LEASE_RELEASED", SetOperation(j, o, op))
        BY <3>3 DEF LeaseExpired, LeaseReleased, AppendEvent, Appended
      <4> QED  BY <4>1, <4>2
    <3>4. CASE k = ProviderProcessStarted(j, o, attempt)
      <4> DEFINE op == [j.ops[o] EXCEPT !.providerStarted = TRUE, !.providerResponded = FALSE]
      <4>1. Same(j.ops[o], op)
        BY <1>1 DEF Same, OperationState
      <4>2. k \in Appended("PROVIDER_PROCESS_STARTED", SetOperation(j, o, op))
        BY <3>4 DEF ProviderProcessStarted, AppendEvent, Appended
      <4> QED  BY <4>1, <4>2
    <3>5. CASE k = ProviderResponseReceived(j, o, attempt)
      <4> DEFINE op == [j.ops[o] EXCEPT !.providerResponded = TRUE]
      <4>1. Same(j.ops[o], op)
        BY <1>1 DEF Same, OperationState
      <4>2. k \in Appended("PROVIDER_RESPONSE_RECEIVED", SetOperation(j, o, op))
        BY <3>5 DEF ProviderResponseReceived, AppendEvent, Appended
      <4> QED  BY <4>1, <4>2
    <3>6. CASE k = ReconcileStarted(j, o, attempt)
      <4> DEFINE op == [j.ops[o] EXCEPT !.reconciling = TRUE, !.providerStarted = FALSE,
                                        !.providerResponded = FALSE]
      <4>1. Same(j.ops[o], op)
        BY <1>1 DEF Same, OperationState
      <4>2. k \in Appended("RECONCILE_STARTED", SetOperation(j, o, op))
        BY <3>6 DEF ReconcileStarted, AppendEvent, Appended
      <4> QED  BY <4>1, <4>2
    <3> QED
      BY <1>3, <3>1, <3>2, <3>3, <3>4, <3>5, <3>6
  <2> QED
    BY <2>1, SetEvent
<1> QED
  BY <1>2, <1>3

\* The attempts counted in a record stay as they are.
SameCount(op, next) ==
    next.attempt = op.attempt /\ next.blockedAttempts = op.blockedAttempts

LEMMA AttemptEvent ==
    ASSUME NEW j \in JournalState, NEW o \in Operation, NEW attempt
    PROVE  LET k == AttemptStarted(j, o, attempt)
           IN  /\ k.ops[o].state = "RUNNING" /\ ~k.ops[o].reconcileRequired
               /\ k.ops[o].attempt = attempt
               /\ k.ops[o].blockedAttempts = j.ops[o].blockedAttempts
               /\ Rest(j, k, o)
<1> DEFINE op == [j.ops[o] EXCEPT !.state = "RUNNING", !.attempt = attempt,
                      !.dispatched = FALSE, !.reconciling = FALSE,
                      !.providerStarted = FALSE, !.providerResponded = FALSE,
                      !.reconcileRequired = FALSE, !.ambiguous = FALSE,
                      !.retryable = FALSE, !.observedAbsent = FALSE]
           k  == AttemptStarted(j, o, attempt)
<1>1. j.ops[o] \in OperationState
  BY DEF JournalState
<1>2. /\ op.state = "RUNNING" /\ ~op.reconcileRequired /\ op.attempt = attempt
      /\ op.blockedAttempts = j.ops[o].blockedAttempts
  BY <1>1 DEF OperationState
<1>3. k \in Appended("ATTEMPT_STARTED", SetOperation(j, o, op))
  BY DEF AttemptStarted, AppendEvent, Appended
<1> HIDE DEF op, k
<1>4. k.ops[o] = op /\ Rest(j, k, o)
  BY <1>3, SetEvent
<1> QED
  BY <1>2, <1>4 DEF k

LEMMA MarkingEvent ==
    ASSUME NEW j \in JournalState, NEW o \in Operation, NEW attempt, NEW k,
           k = SideEffectDispatched(j, o, attempt) \/ k = OutcomeAmbiguous(j, o, attempt)
    PROVE  /\ k.ops[o].state = j.ops[o].state /\ SameCount(j.ops[o], k.ops[o])
           /\ Rest(j, k, o)
<1> DEFINE dispatched == [j.ops[o] EXCEPT !.dispatched = TRUE, !.reconcileRequired = TRUE,
                                          !.ambiguous = TRUE]
           ambiguous  == [j.ops[o] EXCEPT !.reconcileRequired = TRUE, !.ambiguous = TRUE,
                                          !.retryable = FALSE]
<1>1. j.ops[o] \in OperationState
  BY DEF JournalState
<1>2. /\ dispatched.state = j.ops[o].state /\ SameCount(j.ops[o], dispatched)
      /\ ambiguous.state = j.ops[o].state /\ SameCount(j.ops[o], ambiguous)
  BY <1>1 DEF OperationState, SameCount
<1>3. \/ k \in Appended("SIDE_EFFECT_DISPATCHED", SetOperation(j, o, dispatched))
      \/ k \in Appended("OUTCOME_AMBIGUOUS", SetOperation(j, o, ambiguous))
  BY DEF SideEffectDispatched, OutcomeAmbiguous, AppendEvent, Appended
<1> HIDE DEF dispatched, ambiguous
<1>4. (k.ops[o] = dispatched \/ k.ops[o] = ambiguous) /\ Rest(j, k, o)
  BY <1>3, SetEvent
<1> QED
  BY <1>2, <1>4

\* An attempt or a reconciliation has ended.
Ended(op, next, state) ==
    /\ next.state = state
    /\ next.reconcileRequired => state = "WAITING_EXTERNAL"
    /\ SameCount(op, next)

LEMMA AppliedResult ==
    ASSUME NEW op \in OperationState, NEW state, NEW retryable, NEW preserve
    PROVE  Ended(op, ApplyResult(op, state, retryable, preserve), state)
<1> DEFINE next == ApplyResult(op, state, retryable, preserve)
<1>1. next.state = state /\ next.attempt = op.attempt /\ next.blockedAttempts = op.blockedAttempts
  BY DEF ApplyResult, OperationState
<1>2. next.reconcileRequired = (state = "WAITING_EXTERNAL")
  BY DEF ApplyResult, OperationState
<1> HIDE DEF next
<1> QED
  BY <1>1, <1>2 DEF Ended, SameCount, next

LEMMA EndingEvent ==
    ASSUME NEW j \in JournalState, NEW o \in Operation, NEW attempt, NEW state, NEW retryable,
           NEW absent, NEW k, state # "PLANNED",
           \/ k = OperationOutcome(j, o, attempt, state, retryable)
           \/ k = ReconcileResult(j, o, attempt, state, retryable, absent)
    PROVE  Ended(j.ops[o], k.ops[o], state) /\ Rest(j, k, o)
<1> DEFINE before     == j.ops[o]
           applied    == ApplyResult(before, state, retryable, before.reconciling)
           result     == ApplyResult(before, state, retryable, TRUE)
           final == [result EXCEPT !.observedAbsent = absent /\ state = "WAITING_EXTERNAL"]
<1>1. before \in OperationState
  BY DEF JournalState
<1>2. Ended(before, applied, state) /\ Ended(before, result, state)
  BY <1>1, AppliedResult
<1>3. Ended(before, final, state)
  <2>1. /\ final.state = result.state
        /\ final.reconcileRequired = result.reconcileRequired
        /\ SameCount(result, final)
    BY <1>1 DEF ApplyResult, OperationState, SameCount
  <2> HIDE DEF before, result, final
  <2> QED
    BY <1>2, <2>1 DEF Ended, SameCount
<1>4. \/ k \in Appended("OPERATION_OUTCOME", SettleOperation(j, o, applied))
      \/ k \in Appended("RECONCILE_RESULT", SettleOperation(j, o, final))
  BY DEF OperationOutcome, ReconcileResult, AppendEvent, Appended
<1> HIDE DEF before, applied, final
<1>5. applied.state # "PLANNED" /\ final.state # "PLANNED"
  BY <1>2, <1>3 DEF Ended
<1>6. CASE k \in Appended("OPERATION_OUTCOME", SettleOperation(j, o, applied))
  BY <1>2, <1>5, <1>6, SettleEvent DEF before
<1>7. CASE k \in Appended("RECONCILE_RESULT", SettleOperation(j, o, final))
  BY <1>3, <1>5, <1>7, SettleEvent DEF before
<1> QED
  BY <1>4, <1>6, <1>7

LEMMA ResultEvent ==
    ASSUME NEW j \in JournalState, NEW o \in Operation, NEW attempt,
           NEW state \in {"BLOCKED", "CANCELLED"}
    PROVE  LET k == OperationResult(j, o, attempt, state)
           IN  /\ k.ops[o].state = state /\ ~k.ops[o].reconcileRequired
               /\ k.ops[o].attempt = j.ops[o].attempt
               /\ k.ops[o].blockedAttempts = IF state = "BLOCKED" THEN j.ops[o].blockedAttempts + 1
                                             ELSE j.ops[o].blockedAttempts
               /\ Rest(j, k, o)
<1> DEFINE blocked == [j.ops[o] EXCEPT !.blockedAttempts = @ + 1]
           counted == IF state = "BLOCKED" THEN blocked ELSE j.ops[o]
           op      == ApplyResult(counted, state, FALSE, FALSE)
           k       == OperationResult(j, o, attempt, state)
<1>1. j.ops[o] \in OperationState
  BY DEF JournalState
<1>2. /\ counted \in OperationState /\ counted.attempt = j.ops[o].attempt
      /\ counted.blockedAttempts = IF state = "BLOCKED" THEN j.ops[o].blockedAttempts + 1
                                   ELSE j.ops[o].blockedAttempts
  BY <1>1 DEF OperationState
<1>3. k \in Appended("OPERATION_RESULT", SettleOperation(j, o, op))
  BY DEF OperationResult, AppendEvent, Appended
<1> HIDE DEF counted, k
<1>4. Ended(counted, op, state)
  BY <1>2, AppliedResult
<1> HIDE DEF op
<1>5. k.ops[o] = op /\ Rest(j, k, o)
  BY <1>3, <1>4, SettleEvent DEF Ended
<1> QED
  BY <1>2, <1>4, <1>5 DEF Ended, SameCount, k

LEMMA CancelEvent ==
    ASSUME NEW j \in JournalState, NEW o \in Operation
    PROVE  LET k == OperationCancelled(j, o)
           IN  /\ k.ops[o].state = "CANCELLED" /\ SameCount(j.ops[o], k.ops[o])
               /\ k.ops[o].reconcileRequired = j.ops[o].reconcileRequired
               /\ Rest(j, k, o)
<1> DEFINE op == Cancelled(j.ops[o])
           k  == OperationCancelled(j, o)
<1>1. j.ops[o] \in OperationState
  BY DEF JournalState
<1>2. /\ op.state = "CANCELLED" /\ SameCount(j.ops[o], op)
      /\ op.reconcileRequired = j.ops[o].reconcileRequired
  BY <1>1 DEF Cancelled, OperationState, SameCount
<1>3. k \in Appended("OPERATION_CANCELLED", SettleOperation(j, o, op))
  BY DEF OperationCancelled, AppendEvent, Appended
<1> HIDE DEF op, k
<1>4. k.ops[o] = op /\ Rest(j, k, o)
  BY <1>2, <1>3, SettleEvent
<1> QED
  BY <1>2, <1>4 DEF k

LEMMA AuthorizeEvent ==
    ASSUME NEW j \in JournalState, NEW o \in Operation, NEW attempt
    PROVE  LET k == RetryAuthorized(j, o, attempt)
           IN  /\ k.ops[o].state = "READY" /\ ~k.ops[o].reconcileRequired
               /\ SameCount(j.ops[o], k.ops[o])
               /\ Rest(j, k, o)
<1> DEFINE op == [j.ops[o] EXCEPT !.observedAbsent = FALSE, !.state = "READY",
                      !.retryable = FALSE, !.reconcileRequired = FALSE, !.ambiguous = FALSE]
           k  == RetryAuthorized(j, o, attempt)
<1>1. j.ops[o] \in OperationState
  BY DEF JournalState
<1>2. op.state = "READY" /\ ~op.reconcileRequired /\ SameCount(j.ops[o], op)
  BY <1>1 DEF OperationState, SameCount
<1>3. k \in Appended("RETRY_AUTHORIZED", SetOperation(j, o, op))
  BY DEF RetryAuthorized, AppendEvent, Appended
<1> HIDE DEF op, k
<1>4. k.ops[o] = op /\ Rest(j, k, o)
  BY <1>3, SetEvent
<1> QED
  BY <1>2, <1>4 DEF k

(* The events of the run. *)

LEMMA RunStartedEvent ==
    ASSUME NEW j \in JournalState
    PROVE  /\ RunStarted(j).status = "STARTED"
           /\ \A p \in Operation : Stays(j, RunStarted(j), p)
<1> DEFINE k == RunStarted(j)
<1>1. k.ops = RefreshReady(j.ops) /\ k.status = "STARTED"
  BY DEF RunStarted, AppendEvent, JournalState
<1> HIDE DEF k
<1>2. \A d \in Operation : j.ops[d].state = "PUBLISHED" => k.ops[d].state = "PUBLISHED"
  BY <1>1 DEF RefreshReady
<1>3. ASSUME NEW p \in Operation PROVE Stays(j, k, p)
  <2>1. CASE j.ops[p].state = "PLANNED" /\ DependenciesPublished(j.ops, p)
    <3>1. k.ops[p] = [j.ops[p] EXCEPT !.state = "READY"]
      BY <1>1, <2>1 DEF RefreshReady
    <3>2. DependenciesPublished(k.ops, p)
      BY <1>2, <2>1, PlanAssumption DEF DependenciesPublished
    <3>3. j.ops[p] \in OperationState
      BY DEF JournalState
    <3> QED
      BY <2>1, <3>1, <3>2, <3>3 DEF Stays, MadeReady, OperationState
  <2>2. CASE ~(j.ops[p].state = "PLANNED" /\ DependenciesPublished(j.ops, p))
    BY <1>1, <2>2 DEF RefreshReady, Stays
  <2> QED
    BY <2>1, <2>2
<1> QED
  BY <1>1, <1>3 DEF k

LEMMA RunCancelledEvent ==
    ASSUME NEW j \in JournalState, NEW p \in Operation
    PROVE  LET k == RunCancelled(j)
           IN  \/ k.ops[p] = j.ops[p]
               \/ /\ ~j.ops[p].reconcileRequired
                  /\ j.ops[p].state \notin {"PUBLISHED", "REJECTED"}
                  /\ k.ops[p].state = "CANCELLED" /\ SameCount(j.ops[p], k.ops[p])
                  /\ k.ops[p].reconcileRequired = j.ops[p].reconcileRequired
<1>1. j.ops[p] \in OperationState
  BY DEF JournalState
<1>2. RunCancelled(j).ops = CancelRemaining(j.ops)
  BY DEF RunCancelled, AppendEvent, JournalState
<1>3. \/ CancelRemaining(j.ops)[p] = j.ops[p]
      \/ /\ CancelRemaining(j.ops)[p] = Cancelled(j.ops[p])
         /\ ~j.ops[p].reconcileRequired
         /\ j.ops[p].state \notin {"PUBLISHED", "REJECTED"}
  BY DEF CancelRemaining
<1>4. /\ Cancelled(j.ops[p]).state = "CANCELLED" /\ SameCount(j.ops[p], Cancelled(j.ops[p]))
      /\ Cancelled(j.ops[p]).reconcileRequired = j.ops[p].reconcileRequired
  BY <1>1 DEF Cancelled, OperationState, SameCount
<1> QED
  BY <1>2, <1>3, <1>4

LEMMA RunCompletedEvent ==
    ASSUME NEW j \in JournalState
    PROVE  RunCompleted(j).status = "COMPLETED" /\ RunCompleted(j).ops = j.ops
BY DEF RunCompleted, AppendEvent, JournalState

-----------------------------------------------------------------------------
(* The course of a record: what may follow what. *)

Decided == {"PUBLISHED", "REJECTED"}
Outcomes == {"WAITING_EXTERNAL", "FAILED", "CANCELLED"} \cup Decided

Marked(op, next) == op.state = "RUNNING" /\ next.state = "RUNNING" /\ SameCount(op, next)

Begun(op, next, allowed) ==
    /\ op.state \in {"READY", "BLOCKED", "FAILED"} /\ Spent(op) < allowed
    /\ next.state = "RUNNING" /\ ~next.reconcileRequired
    /\ next.attempt = op.attempt + 1 /\ next.blockedAttempts = op.blockedAttempts

Finished(op, next) ==
    /\ op.state = "RUNNING" \/ op.reconcileRequired
    /\ \E state \in Outcomes : Ended(op, next, state)

BlockedAgain(op, next) ==
    /\ op.state = "RUNNING"
    /\ next.state = "BLOCKED" /\ ~next.reconcileRequired
    /\ next.attempt = op.attempt /\ next.blockedAttempts = op.blockedAttempts + 1

Dropped(op, next) ==
    /\ ~op.reconcileRequired /\ op.state \notin Decided
    /\ next.state = "CANCELLED" /\ ~next.reconcileRequired /\ SameCount(op, next)

Legal(op, next, allowed) ==
    \/ Same(op, next)
    \/ Marked(op, next)
    \/ Begun(op, next, allowed)
    \/ Finished(op, next)
    \/ BlockedAgain(op, next)
    \/ Dropped(op, next)

\* Only what runs or waits is to be reconciled; no attempt is counted too often, and one that
\* may start is still in the budget.
CountSound(op, allowed) ==
    /\ op.reconcileRequired => op.state \in {"RUNNING", "WAITING_EXTERNAL"}
    /\ op.blockedAttempts <= op.attempt
    /\ op.state = "RUNNING" => op.blockedAttempts < op.attempt
    /\ Spent(op) <= allowed
    /\ op.state \in {"PLANNED", "READY", "BLOCKED"} => Spent(op) < allowed

LEMMA LegalSound ==
    ASSUME NEW op \in OperationState, NEW next \in OperationState, NEW allowed \in Nat,
           CountSound(op, allowed), Legal(op, next, allowed)
    PROVE  /\ CountSound(next, allowed)
           /\ op.state \in Decided => next.state = op.state
           /\ op.state \in {"PLANNED", "CANCELLED"} => next.state \in {op.state, "CANCELLED"}
<1> USE DEF CountSound
<1>1. /\ op.attempt \in Nat /\ op.blockedAttempts \in Nat
      /\ next.attempt \in Nat /\ next.blockedAttempts \in Nat
  BY DEF OperationState
<1>2. CASE Same(op, next)
  <2>1. next.reconcileRequired => op.reconcileRequired
    BY <1>2, Zenon DEF Same
  <2>2. next.state = op.state /\ SameCount(op, next)
    BY <1>2 DEF Same, SameCount
  <2> QED
    BY <1>1, <2>1, <2>2 DEF SameCount, Spent
<1>3. CASE Marked(op, next)
  BY <1>1, <1>3 DEF Marked, SameCount, Spent, Decided
<1>4. CASE Begun(op, next, allowed)
  BY <1>1, <1>4 DEF Begun, Spent, Decided
<1>5. CASE Finished(op, next)
  BY <1>1, <1>5 DEF Finished, Ended, Outcomes, SameCount, Spent, Decided
<1>6. CASE BlockedAgain(op, next)
  BY <1>1, <1>6 DEF BlockedAgain, Spent, Decided
<1>7. CASE Dropped(op, next)
  BY <1>1, <1>7 DEF Dropped, SameCount, Spent, Decided
<1> QED
  BY <1>2, <1>3, <1>4, <1>5, <1>6, <1>7 DEF Legal

-----------------------------------------------------------------------------
(* The invariant. *)

Busy == {"prepared", "credentialed", "started", "dispatched", "requested", "responded"}

Allowed(o) == MaxAttempts + authorizations[o]

\* What was begun, was begun after its dependencies were published.
InOrder(o) ==
    Op(o).state \notin {"PLANNED", "CANCELLED"} => DependenciesPublished(journal.ops, o)

\* A decision in the journal is the destination's.
DecisionTrue(o) ==
    o \in SideEffecting =>
        /\ Op(o).state = "PUBLISHED" => dest[o] = "published"
        /\ Op(o).state = "REJECTED" => dest[o] = "rejected"

\* DependenciesFirst, of one operation.
ExposedInOrder(o) ==
    Exposed(o) => \A d \in Dependencies[o] \cap SideEffecting : dest[d] = "published"

RecordSound(o) ==
    /\ CountSound(Op(o), Allowed(o))
    /\ InOrder(o)
    /\ DecisionTrue(o)
    /\ ExposedInOrder(o)

\* A goroutine works on a record that says so, and publishes only where it may.
TaskSound(o) ==
    /\ task[o].kind = "apply" /\ task[o].phase \in Busy => Op(o).state = "RUNNING"
    /\ task[o].kind = "reconcile" /\ task[o].phase \in Busy \cup {"leased"} =>
          Op(o).reconcileRequired
    /\ task[o].kind = "apply" /\ task[o].phase # "idle" =>
          mode = "apply" /\ journal.status = "STARTED"

\* A batch takes up for an attempt only what may be attempted.
BatchSound(o) ==
    o \in todo /\ proc = "batch" /\ ~Op(o).reconcileRequired =>
        /\ mode = "apply" /\ journal.status = "STARTED"
        /\ Op(o).state = "FAILED" => Spent(Op(o)) < MaxAttempts

RunIsOn == proc # "down" => journal.status # "EMPTY"

Course ==
    /\ RunIsOn
    /\ \A o \in Operation : RecordSound(o) /\ TaskSound(o) /\ BatchSound(o)

-----------------------------------------------------------------------------
(* What a step does to the records. *)

Moves(p) == Legal(Op(p), Op(p)', Allowed(p)) \/ MadeReady(journal, journal', p)

\* A decision that is new in the journal was made by the destination.
Told(p) ==
    p \in SideEffecting =>
        /\ Op(p)'.state = "PUBLISHED" => Op(p).state = "PUBLISHED" \/ dest'[p] = "published"
        /\ Op(p)'.state = "REJECTED" => Op(p).state = "REJECTED" \/ dest'[p] = "rejected"

\* A request leaves only from an attempt that runs.
ExposedByAttempt(p) == Exposed(p)' => Exposed(p) \/ Op(p).state = "RUNNING"

\* DecisionsAreFinal, of one operation.
Final(p) == Op(p).state \in Decided => Op(p)'.state = Op(p).state

LEMMA StaysMoves ==
    ASSUME NEW p \in Operation, Stays(journal, journal', p)
    PROVE  /\ Moves(p) /\ Told(p)
           /\ Op(p)'.reconcileRequired = Op(p).reconcileRequired
           /\ SameCount(Op(p), Op(p)')
           /\ Op(p).state # "PLANNED" => Op(p)'.state = Op(p).state
           /\ Op(p).state = "PLANNED" => Op(p)'.state \in {"PLANNED", "READY"}
<1>1. CASE journal'.ops[p] = journal.ops[p]
  BY <1>1 DEF Moves, Legal, Same, Told, SameCount, Op
<1>2. CASE MadeReady(journal, journal', p)
  BY <1>2 DEF Moves, MadeReady, Told, SameCount, Op
<1> QED
  BY <1>1, <1>2 DEF Stays

LEMMA MovesSound ==
    ASSUME TypeOK, TypeOK', NEW p \in Operation, CountSound(Op(p), Allowed(p)), Moves(p)
    PROVE  /\ CountSound(Op(p)', Allowed(p))
           /\ Final(p)
           /\ \/ Op(p).state \in {"PLANNED", "CANCELLED"} => Op(p)'.state \in {Op(p).state, "CANCELLED"}
              \/ DependenciesPublished(journal'.ops, p)
<1>1. Op(p) \in OperationState /\ Op(p)' \in OperationState /\ Allowed(p) \in Nat
  BY BoundsAssumption DEF TypeOK, JournalState, Op, Allowed
<1>2. CASE Legal(Op(p), Op(p)', Allowed(p))
  BY <1>1, <1>2, LegalSound DEF Final
<1>3. CASE MadeReady(journal, journal', p)
  <2>1. /\ Op(p)'.attempt = Op(p).attempt /\ Op(p)'.blockedAttempts = Op(p).blockedAttempts
        /\ Op(p)'.state = "READY" /\ Op(p).state = "PLANNED"
        /\ Op(p)'.reconcileRequired => Op(p).reconcileRequired
    BY <1>3, Zenon DEF MadeReady, Op
  <2>2. CountSound(Op(p)', Allowed(p))
    BY <1>1, <2>1 DEF CountSound, Spent
  <2> QED
    BY <1>3, <2>1, <2>2 DEF MadeReady, Final, Decided
<1> QED
  BY <1>2, <1>3 DEF Moves

\* What is decided at the destination stays.
DestinationStays == \A p \in Operation : dest'[p] = dest[p] \/ dest[p] = "absent"

LEMMA RecordsSound ==
    ASSUME TypeOK, TypeOK', Course, authorizations' = authorizations, DestinationStays,
           \A p \in Operation : Moves(p) /\ Told(p) /\ ExposedByAttempt(p)
    PROVE  \A p \in Operation : RecordSound(p)' /\ Final(p)
<1>1. ASSUME NEW p \in Operation
      PROVE  /\ CountSound(Op(p)', Allowed(p)) /\ Final(p)
             /\ \/ Op(p).state \in {"PLANNED", "CANCELLED"} => Op(p)'.state \in {Op(p).state, "CANCELLED"}
                \/ DependenciesPublished(journal'.ops, p)
  BY MovesSound DEF Course, RecordSound
<1>2. ASSUME NEW p \in Operation PROVE CountSound(Op(p), Allowed(p))'
  BY <1>1 DEF Allowed, CountSound, Spent, Op
<1>3. ASSUME NEW p \in Operation PROVE InOrder(p)'
  <2>1. CASE Op(p).state \in {"PLANNED", "CANCELLED"}
    BY <1>1, <2>1 DEF InOrder
  <2>2. CASE Op(p).state \notin {"PLANNED", "CANCELLED"}
    <3>1. DependenciesPublished(journal.ops, p)
      BY <2>2 DEF Course, RecordSound, InOrder
    <3>2. \A d \in Dependencies[p] : d \in Operation
      BY PlanAssumption
    <3> QED
      BY <1>1, <3>1, <3>2 DEF InOrder, DependenciesPublished, Final, Decided, Op
  <2> QED
    BY <2>1, <2>2
<1>4. ASSUME NEW p \in Operation PROVE DecisionTrue(p)'
  BY DEF DecisionTrue, Course, RecordSound, Told, DestinationStays
<1>5. ASSUME NEW p \in Operation PROVE ExposedInOrder(p)'
  <2> SUFFICES ASSUME Exposed(p)', NEW d \in Dependencies[p] \cap SideEffecting
               PROVE  dest'[d] = "published"
    BY DEF ExposedInOrder
  <2>1. d \in Operation
    BY PlanAssumption
  <2>2. dest[d] = "published"
    <3>1. CASE Exposed(p)
      BY <3>1 DEF Course, RecordSound, ExposedInOrder
    <3>2. CASE Op(p).state = "RUNNING"
      <4>1. Op(d).state = "PUBLISHED"
        BY <3>2 DEF Course, RecordSound, InOrder, DependenciesPublished, Op
      <4> QED
        BY <2>1, <4>1 DEF Course, RecordSound, DecisionTrue
    <3> QED
      BY <3>1, <3>2 DEF ExposedByAttempt
  <2> QED
    BY <2>1, <2>2 DEF DestinationStays
<1> QED
  BY <1>1, <1>2, <1>3, <1>4, <1>5 DEF RecordSound

\* Only o's record moves.
LEMMA OneMoves ==
    ASSUME NEW o \in Operation, Rest(journal, journal', o),
           Legal(Op(o), Op(o)', Allowed(o)), Told(o)
    PROVE  \A p \in Operation : Moves(p) /\ Told(p)
<1>1. ASSUME NEW p \in Operation \ {o} PROVE Moves(p) /\ Told(p)
  BY StaysMoves DEF Rest, Told
<1> QED
  BY <1>1 DEF Moves

\* No record moves, and nothing leaves.
LEMMA NothingMoves ==
    ASSUME journal'.ops = journal.ops, UNCHANGED <<dest, outstanding>>
    PROVE  /\ \A p \in Operation : Moves(p) /\ Told(p) /\ ExposedByAttempt(p)
           /\ DestinationStays
BY StaysMoves DEF Stays, Told, ExposedByAttempt, Exposed, DestinationStays

-----------------------------------------------------------------------------
(* What a step does to goroutines and batches it does not work on. *)

CourseKept == Course' /\ \A p \in Operation : Final(p)

LEMMA TaskStays ==
    ASSUME NEW p \in Operation, TaskSound(p), task'[p] = task[p], mode' = mode,
           journal'.status = journal.status,
           Op(p)'.reconcileRequired = Op(p).reconcileRequired,
           Op(p).state = "RUNNING" => Op(p)'.state = "RUNNING"
    PROVE  TaskSound(p)'
BY DEF TaskSound

LEMMA OtherTaskStays ==
    ASSUME NEW p \in Operation, TaskSound(p), task'[p] = task[p], mode' = mode,
           journal'.status = journal.status, Stays(journal, journal', p)
    PROVE  TaskSound(p)'
BY StaysMoves, TaskStays

\* Without goroutines and outside a batch only the records matter.
LEMMA RestingCourse ==
    ASSUME \A p \in Operation : task'[p].phase = "idle", proc' # "batch", RunIsOn',
           \A p \in Operation : RecordSound(p)' /\ Final(p)
    PROVE  CourseKept
<1>1. \A p \in Operation : TaskSound(p)' /\ BatchSound(p)'
  BY DEF TaskSound, BatchSound, Busy
<1> QED
  BY <1>1 DEF Course, CourseKept

\* A goroutine makes a step.
LEMMA GoroutineCourse ==
    ASSUME TypeOK, TypeOK', Course, NEW o \in Operation, proc = "run", proc' = "run",
           Rest(journal, journal', o), Legal(Op(o), Op(o)', Allowed(o)), Told(o),
           UNCHANGED <<mode, dest, authorizations>>,
           \A p \in Operation \ {o} : task'[p] = task[p] /\ outstanding'[p] = outstanding[p],
           ExposedByAttempt(o), TaskSound(o)'
    PROVE  CourseKept
<1>1. \A p \in Operation : Moves(p) /\ Told(p)
  BY OneMoves
<1>2. DestinationStays /\ \A p \in Operation : ExposedByAttempt(p)
  BY DEF DestinationStays, ExposedByAttempt, Exposed
<1>3. \A p \in Operation : RecordSound(p)' /\ Final(p)
  BY <1>1, <1>2, RecordsSound
<1>4. ASSUME NEW p \in Operation \ {o} PROVE TaskSound(p)'
  BY OtherTaskStays DEF Course, Rest
<1>5. RunIsOn' /\ \A p \in Operation : BatchSound(p)'
  BY DEF RunIsOn, BatchSound, Course, Rest
<1> QED
  BY <1>3, <1>4, <1>5 DEF Course, CourseKept

\* It has its outcome.
LEMMA SettledCourse ==
    ASSUME TypeOK, TypeOK', Safety, Course, NEW o \in Operation, proc = "run", proc' = "run",
           Enter(o, "settled"), task[o].phase \in Busy,
           Rest(journal, journal', o), Legal(Op(o), Op(o)', Allowed(o)), Told(o),
           UNCHANGED <<mode, dest, authorizations>>,
           \A p \in Operation \ {o} : outstanding'[p] = outstanding[p],
           ExposedByAttempt(o)
    PROVE  CourseKept
<1>1. /\ task'[o].phase = "settled" /\ task'[o].kind = task[o].kind
      /\ \A p \in Operation \ {o} : task'[p] = task[p]
  BY DEF Enter, TypeOK, Tasks
<1>2. TaskSound(o)'
  BY <1>1 DEF Course, TaskSound, Busy, Rest
<1> QED
  BY <1>1, <1>2, GoroutineCourse

LEMMA FailureMoves ==
    ASSUME TypeOK, Safety, Course, NEW o \in Operation, NEW f \in Failures,
           SettleFailure(o, f), task[o].phase \in Busy
    PROVE  /\ Rest(journal, journal', o) /\ Legal(Op(o), Op(o)', Allowed(o))
           /\ Op(o)'.state \notin Decided
<1> DEFINE attempt  == Op(o).attempt
           decision == Decision(Op(o).dispatched, o \in SideEffecting, f)
<1>1. journal \in JournalState
  BY DEF TypeOK
<1>2. task[o].kind \in {"apply", "reconcile"}
  BY TaskType DEF Safety, OperationSafe, KindKnown, TypeOK, Tasks, Busy
<1>3. CASE task[o].kind = "reconcile"
  <2>1. journal' = ReconcileResult(journal, o, attempt, "WAITING_EXTERNAL",
                                   IsRetryable(f) \/ Op(o).ambiguous, FALSE)
    BY <1>3 DEF SettleFailure, Settle, ReconcileFailure
  <2>2. Ended(journal.ops[o], journal'.ops[o], "WAITING_EXTERNAL") /\ Rest(journal, journal', o)
    BY <1>1, <2>1, EndingEvent
  <2>3. Op(o).reconcileRequired
    BY <1>3 DEF Course, TaskSound
  <2> QED
    BY <2>2, <2>3 DEF Legal, Finished, Outcomes, Decided, Ended, Op
<1>4. CASE task[o].kind = "apply"
  <2>1. Op(o).state = "RUNNING"
    BY <1>4 DEF Course, TaskSound
  <2>2. journal' = ApplyFailure(o, f)
    BY <1>4 DEF SettleFailure, Settle
  <2>3. CASE journal' = OutcomeAmbiguous(journal, o, attempt)
    <3>1. journal'.ops[o].state = "RUNNING" /\ SameCount(journal.ops[o], journal'.ops[o])
          /\ Rest(journal, journal', o)
      BY <1>1, <2>1, <2>3, MarkingEvent DEF Op
    <3> QED
      BY <2>1, <3>1 DEF Legal, Marked, Decided, Op
  <2>4. CASE journal' = OperationResult(journal, o, attempt, "CANCELLED")
    <3>1. /\ journal'.ops[o].state = "CANCELLED" /\ ~journal'.ops[o].reconcileRequired
          /\ journal'.ops[o].attempt = journal.ops[o].attempt
          /\ journal'.ops[o].blockedAttempts = journal.ops[o].blockedAttempts
          /\ Rest(journal, journal', o)
      BY <1>1, <2>4, ResultEvent
    <3>2. Ended(Op(o), Op(o)', "CANCELLED")
      BY <3>1 DEF Ended, SameCount, Op
    <3> QED
      BY <2>1, <3>1, <3>2 DEF Legal, Finished, Outcomes, Decided, Op
  <2>5. CASE journal' = OperationResult(journal, o, attempt, "BLOCKED")
    <3>1. /\ journal'.ops[o].state = "BLOCKED" /\ ~journal'.ops[o].reconcileRequired
          /\ journal'.ops[o].attempt = journal.ops[o].attempt
          /\ journal'.ops[o].blockedAttempts = journal.ops[o].blockedAttempts + 1
          /\ Rest(journal, journal', o)
      BY <1>1, <2>5, ResultEvent
    <3> QED
      BY <2>1, <3>1 DEF Legal, BlockedAgain, Decided, Op
  <2>6. CASE journal' = OperationOutcome(journal, o, attempt, "FAILED", decision = "retry")
    <3>1. Ended(journal.ops[o], journal'.ops[o], "FAILED") /\ Rest(journal, journal', o)
      <4> HIDE DEF attempt, decision
      <4> QED  BY <1>1, <2>6, EndingEvent
    <3> QED
      BY <2>1, <3>1 DEF Legal, Finished, Outcomes, Decided, Ended, Op
  <2> QED
    BY <2>2, <2>3, <2>4, <2>5, <2>6 DEF ApplyFailure
<1> QED
  BY <1>2, <1>3, <1>4

-----------------------------------------------------------------------------
(* The steps of a goroutine. *)

LEMMA SameMoves ==
    ASSUME NEW o \in Operation, Same(Op(o), Op(o)')
    PROVE  Legal(Op(o), Op(o)', Allowed(o)) /\ Told(o)
BY DEF Same, Legal, Told

\* A record that is merely kept up to date, by a goroutine that stays, goes on, or ends.
LEMMA UpToDateCourse ==
    ASSUME TypeOK, TypeOK', Course, NEW o \in Operation, proc = "run", proc' = "run",
           Rest(journal, journal', o), Same(Op(o), Op(o)'),
           UNCHANGED <<mode, dest, authorizations>>,
           \A p \in Operation \ {o} : task'[p] = task[p] /\ outstanding'[p] = outstanding[p],
           ExposedByAttempt(o),
           \/ task'[o].phase = "idle"
           \/ task'[o].kind = task[o].kind /\ task'[o].phase = task[o].phase
           \/ task'[o].kind = task[o].kind /\ task[o].phase \in Busy /\ task'[o].phase \in Busy
    PROVE  CourseKept
<1>1. Legal(Op(o), Op(o)', Allowed(o)) /\ Told(o)
  BY SameMoves
<1>2. TaskSound(o)'
  <2>1. TaskSound(o)
    BY DEF Course
  <2>2. /\ Op(o)'.state = Op(o).state /\ journal'.status = journal.status
        /\ Op(o).reconcileRequired => Op(o)'.reconcileRequired
    BY DEF Same, Rest
  <2> QED
    BY <2>1, <2>2 DEF TaskSound, Busy
<1> QED
  BY <1>1, <1>2, GoroutineCourse

LEMMA RespondFrame ==
    ASSUME TypeOK, NEW o \in Operation, NEW reply \in Replies, Respond(o, reply)
    PROVE  /\ proc = "run" /\ proc' = "run" /\ UNCHANGED <<mode, dest, authorizations>>
           /\ \A p \in Operation \ {o} : task'[p] = task[p] /\ outstanding'[p] = outstanding[p]
           /\ outstanding'[o] => outstanding[o]
           /\ task'[o].kind = task[o].kind /\ task[o].phase \in Busy /\ task'[o].phase \in Busy
<1>1. proc = "run" /\ proc' = "run" /\ UNCHANGED <<mode, dest, authorizations>>
  BY DEF Respond, Goroutine
<1>2. /\ task[o].phase = "requested" /\ task'[o].phase = "responded"
      /\ task'[o].kind = task[o].kind
      /\ \A p \in Operation \ {o} : task'[p] = task[p]
  BY DEF Respond, Goroutine, TypeOK, Tasks
<1>3. /\ \A p \in Operation \ {o} : outstanding'[p] = outstanding[p]
      /\ outstanding'[o] => outstanding[o]
  BY DEF Respond, TypeOK
<1> QED
  BY <1>1, <1>2, <1>3 DEF Busy

LEMMA BookkeepingCourse ==
    ASSUME TypeOK, TypeOK', Course, NEW o \in Operation,
           \/ PrepareSucceeds(o) \/ StartProvider(o) \/ RenewLease(o) \/ ReleaseLease(o)
           \/ \E reply \in Replies : Respond(o, reply)
    PROVE  CourseKept
<1>1. /\ proc = "run" /\ proc' = "run" /\ UNCHANGED <<mode, dest, authorizations>>
      /\ \A p \in Operation \ {o} : task'[p] = task[p] /\ outstanding'[p] = outstanding[p]
      /\ outstanding'[o] => outstanding[o]
  <2>1. CASE PrepareSucceeds(o) \/ StartProvider(o)
    BY <2>1 DEF PrepareSucceeds, StartProvider, Goroutine, Internal, Enter, TypeOK, world
  <2>2. CASE RenewLease(o)
    BY <2>2 DEF RenewLease, Internal, world
  <2>3. CASE ReleaseLease(o)
    BY <2>3 DEF ReleaseLease, Goroutine, TypeOK, world
  <2>4. CASE \E reply \in Replies : Respond(o, reply)
    BY <2>4, RespondFrame
  <2> QED
    BY <2>1, <2>2, <2>3, <2>4
<1>2. Same(Op(o), Op(o)') /\ Rest(journal, journal', o)
  <2>1. journal \in JournalState
    BY DEF TypeOK
  <2>2. \/ \E attempt : \/ journal' = CredentialResolved(journal, o, attempt)
                        \/ journal' = ProviderProcessStarted(journal, o, attempt)
                        \/ journal' = ProviderResponseReceived(journal, o, attempt)
        \/ journal' = LeaseRenewed(journal, o) \/ journal' = LeaseReleased(journal, o)
        \/ \E elapsed : journal' = LeaseExpired(journal, o, elapsed)
    BY DEF PrepareSucceeds, StartProvider, RenewLease, ReleaseLease, Respond
  <2> QED
    BY <2>1, <2>2, BookkeepingEvent DEF Op
<1>3. ExposedByAttempt(o)
  BY <1>1 DEF ExposedByAttempt, Exposed
<1>4. \/ task'[o].phase = "idle"
      \/ task'[o].kind = task[o].kind /\ task'[o].phase = task[o].phase
      \/ task'[o].kind = task[o].kind /\ task[o].phase \in Busy /\ task'[o].phase \in Busy
  <2>1. CASE PrepareSucceeds(o) \/ StartProvider(o)
    BY <2>1 DEF PrepareSucceeds, StartProvider, Goroutine, Enter, TypeOK, Tasks, Busy
  <2>2. CASE RenewLease(o)
    BY <2>2 DEF RenewLease
  <2>3. CASE ReleaseLease(o)
    BY <2>3 DEF ReleaseLease, NoTask, TypeOK
  <2>4. CASE \E reply \in Replies : Respond(o, reply)
    BY <2>4, RespondFrame
  <2> QED
    BY <2>1, <2>2, <2>3, <2>4
<1> QED
  BY <1>1, <1>2, <1>3, <1>4, UpToDateCourse

LEMMA DispatchCourse ==
    ASSUME TypeOK, TypeOK', Course, NEW o \in Operation, Dispatch(o)
    PROVE  CourseKept
<1>1. /\ proc = "run" /\ proc' = "run" /\ UNCHANGED <<mode, dest, outstanding, authorizations>>
      /\ task[o].phase = "started" /\ task[o].kind = "apply" /\ Enter(o, "dispatched")
  BY DEF Dispatch, Goroutine, Publishing, Internal, world
<1>2. /\ task'[o].phase = "dispatched" /\ task'[o].kind = "apply"
      /\ \A p \in Operation \ {o} : task'[p] = task[p]
  BY <1>1 DEF Enter, TypeOK, Tasks
<1>3. Op(o).state = "RUNNING" /\ mode = "apply" /\ journal.status = "STARTED"
  BY <1>1 DEF Course, TaskSound, Busy
<1>4. /\ journal'.ops[o].state = "RUNNING" /\ SameCount(journal.ops[o], journal'.ops[o])
      /\ Rest(journal, journal', o)
  BY <1>3, MarkingEvent DEF Dispatch, TypeOK, Op
<1>5. Legal(Op(o), Op(o)', Allowed(o)) /\ Told(o)
  BY <1>3, <1>4 DEF Legal, Marked, Told, Op
<1>6. TaskSound(o)'
  BY <1>1, <1>2, <1>3, <1>4 DEF TaskSound, Rest, Op
<1>7. ExposedByAttempt(o)
  BY <1>1 DEF ExposedByAttempt, Exposed
<1> QED
  BY <1>1, <1>2, <1>4, <1>5, <1>6, <1>7, GoroutineCourse

LEMMA ReleaseRequestCourse ==
    ASSUME TypeOK, TypeOK', Course, NEW o \in Operation, ReleaseRequest(o)
    PROVE  CourseKept
<1>1. /\ proc = "run" /\ proc' = "run" /\ UNCHANGED <<journal, mode, dest, authorizations>>
      /\ task[o].phase \in Busy
  BY DEF ReleaseRequest, Goroutine, Busy
<1>2. /\ task'[o].phase \in Busy /\ task'[o].kind = task[o].kind
      /\ \A p \in Operation \ {o} : task'[p] = task[p] /\ outstanding'[p] = outstanding[p]
      /\ outstanding'[o] = outstanding[o] \/ Publishing(o)
  <2>1. /\ task'[o].phase = "requested" /\ task'[o].kind = task[o].kind
        /\ \A p \in Operation \ {o} : task'[p] = task[p]
    BY DEF ReleaseRequest, Enter, TypeOK, Tasks
  <2>2. /\ \A p \in Operation \ {o} : outstanding'[p] = outstanding[p]
        /\ outstanding' = outstanding \/ Publishing(o)
    BY DEF ReleaseRequest, TypeOK
  <2> QED
    BY <2>1, <2>2 DEF Busy
<1>3. ExposedByAttempt(o)
  BY <1>1, <1>2 DEF ExposedByAttempt, Exposed, Publishing, Course, TaskSound
<1>4. Same(Op(o), Op(o)') /\ Rest(journal, journal', o)
  BY <1>1 DEF Same, Rest, Stays, Op
<1> QED
  BY <1>1, <1>2, <1>3, <1>4, UpToDateCourse

LEMMA TaskFailureCourse ==
    ASSUME TypeOK, TypeOK', Safety, Course, NEW o \in Operation, NEW f \in Failures,
           \/ PrepareFails(o, f) \/ StartFails(o, f) \/ AbortBeforeDispatch(o, f)
           \/ CallFails(o, f) \/ PersistError(o, f)
    PROVE  CourseKept
<1>1. /\ proc = "run" /\ SettleFailure(o, f) /\ task[o].phase \in Busy
      /\ UNCHANGED <<dest, authorizations>>
  BY DEF PrepareFails, StartFails, AbortBeforeDispatch, CallFails, PersistError, Goroutine, world,
         Busy
<1>2. proc' = "run" /\ UNCHANGED mode /\ Enter(o, "settled")
  BY <1>1 DEF SettleFailure, Settle
<1>3. /\ Rest(journal, journal', o) /\ Legal(Op(o), Op(o)', Allowed(o))
      /\ Op(o)'.state \notin Decided
  BY <1>1, FailureMoves
<1>4. Told(o)
  BY <1>3 DEF Told, Decided
<1>5. /\ \A p \in Operation \ {o} : outstanding'[p] = outstanding[p]
      /\ outstanding'[o] = outstanding[o] \/ Publishing(o)
  BY DEF PrepareFails, StartFails, AbortBeforeDispatch, CallFails, PersistError, Cleanup, TypeOK,
         world
<1>6. ExposedByAttempt(o)
  BY <1>1, <1>5 DEF ExposedByAttempt, Exposed, Publishing, Course, TaskSound
<1> QED
  BY <1>1, <1>2, <1>3, <1>4, <1>5, <1>6, SettledCourse

LEMMA PersistCourse ==
    ASSUME TypeOK, TypeOK', Safety, Course, NEW o \in Operation,
           \/ \E absent \in BOOLEAN : PersistResult(o, absent)
           \/ PersistInvalid(o) \/ ResultNotJournaled(o)
    PROVE  CourseKept
<1> DEFINE attempt == Op(o).attempt
           reply   == task[o].reply
<1>1. /\ proc = "run" /\ proc' = "run" /\ Enter(o, "settled") /\ task[o].phase = "responded"
      /\ UNCHANGED <<mode, dest, outstanding, authorizations>>
  BY DEF PersistResult, PersistInvalid, ResultNotJournaled, Settle, Goroutine, world
<1>2. task[o].phase \in Busy /\ ExposedByAttempt(o)
  BY <1>1 DEF Busy, ExposedByAttempt, Exposed
<1>3. task[o].kind \in {"apply", "reconcile"} /\ journal \in JournalState
  BY <1>1, TaskType DEF Safety, OperationSafe, KindKnown, TypeOK, Tasks
<1>4. Op(o).state = "RUNNING" \/ Op(o).reconcileRequired
  BY <1>2, <1>3 DEF Course, TaskSound
<1>5. /\ Rest(journal, journal', o) /\ Legal(Op(o), Op(o)', Allowed(o)) /\ Told(o)
  <2>1. CASE ResultNotJournaled(o)
    <3>1. Same(Op(o), Op(o)') /\ Rest(journal, journal', o)
      BY <2>1 DEF ResultNotJournaled, Settle, Same, Rest, Stays, Op
    <3> QED
      BY <3>1, SameMoves
  <2>2. CASE \E absent \in BOOLEAN : PersistResult(o, absent)
    <3>1. PICK absent \in BOOLEAN : PersistResult(o, absent)
      BY <2>2
    <3>2. /\ reply \in ProviderResults
          /\ \/ journal' = ReconcileResult(journal, o, attempt, reply, FALSE, absent)
             \/ journal' = OperationOutcome(journal, o, attempt, reply, FALSE)
      BY <3>1 DEF PersistResult, Settle
    <3>3. reply # "PLANNED" /\ reply \in Outcomes
      BY <3>2 DEF ProviderResults, Outcomes, Decided
    <3>4. Ended(journal.ops[o], journal'.ops[o], reply) /\ Rest(journal, journal', o)
      <4> HIDE DEF attempt, reply
      <4> QED  BY <1>3, <3>2, <3>3, EndingEvent
    <3>5. Legal(Op(o), Op(o)', Allowed(o))
      BY <1>4, <3>3, <3>4 DEF Legal, Finished, Op
    <3>6. Told(o)
      BY <1>1, <3>4 DEF Told, Ended, Safety, OperationSafe, ResponseIsTrue, Op
    <3> QED
      BY <3>4, <3>5, <3>6
  <2>3. CASE PersistInvalid(o)
    <3>1. \/ journal' = ReconcileResult(journal, o, attempt, "WAITING_EXTERNAL", FALSE, FALSE)
          \/ journal' = OutcomeAmbiguous(journal, o, attempt) /\ task[o].kind = "apply"
          \/ journal' = OperationOutcome(journal, o, attempt, "FAILED", FALSE)
      BY <2>3 DEF PersistInvalid, Settle, Publishing
    <3>2. CASE journal' = ReconcileResult(journal, o, attempt, "WAITING_EXTERNAL", FALSE, FALSE)
      <4>1. Ended(journal.ops[o], journal'.ops[o], "WAITING_EXTERNAL") /\ Rest(journal, journal', o)
        BY <1>3, <3>2, EndingEvent
      <4> QED
        BY <1>4, <4>1 DEF Legal, Finished, Outcomes, Told, Ended, Op
    <3>3. CASE journal' = OutcomeAmbiguous(journal, o, attempt) /\ task[o].kind = "apply"
      <4>1. Op(o).state = "RUNNING"
        BY <1>2, <3>3 DEF Course, TaskSound
      <4>2. /\ journal'.ops[o].state = "RUNNING"
            /\ SameCount(journal.ops[o], journal'.ops[o]) /\ Rest(journal, journal', o)
        BY <1>3, <3>3, <4>1, MarkingEvent DEF Op
      <4> QED
        BY <4>1, <4>2 DEF Legal, Marked, Told, Op
    <3>4. CASE journal' = OperationOutcome(journal, o, attempt, "FAILED", FALSE)
      <4>1. Ended(journal.ops[o], journal'.ops[o], "FAILED") /\ Rest(journal, journal', o)
        BY <1>3, <3>4, EndingEvent
      <4> QED
        BY <1>4, <4>1 DEF Legal, Finished, Outcomes, Told, Ended, Op
    <3> QED
      BY <3>1, <3>2, <3>3, <3>4
  <2> QED
    BY <2>1, <2>2, <2>3
<1> QED
  BY <1>1, <1>2, <1>5, SettledCourse

LEMMA RunTaskCourse ==
    ASSUME TypeOK, TypeOK', Safety, Course, NEW o \in Operation, RunTask(o)
    PROVE  CourseKept
BY BookkeepingCourse, DispatchCourse, ReleaseRequestCourse, TaskFailureCourse, PersistCourse
DEF RunTask

-----------------------------------------------------------------------------
(* The steps of the loop. *)

\* The journal stays, and so does everything the invariant speaks of.
LEMMA StillCourse ==
    ASSUME TypeOK, TypeOK', Course,
           UNCHANGED <<journal, task, mode, dest, outstanding, authorizations>>,
           todo' \subseteq todo,
           proc' = proc \/ (proc # "down" /\ proc' # "batch")
    PROVE  CourseKept
<1>1. \A p \in Operation : RecordSound(p)' /\ Final(p)
  BY NothingMoves, RecordsSound
<1>2. \A p \in Operation : TaskSound(p)'
  BY OtherTaskStays DEF Course, Stays
<1>3. \A p \in Operation : BatchSound(p)'
  BY DEF Course, BatchSound, Op
<1>4. RunIsOn'
  BY DEF Course, RunIsOn
<1> QED
  BY <1>1, <1>2, <1>3, <1>4 DEF Course, CourseKept

LEMMA ReturnCourse ==
    ASSUME TypeOK, TypeOK', Course, NEW result, Return(result),
           UNCHANGED <<dest, authorizations>>,
           \A p \in Operation : Moves(p) /\ Told(p) /\ ExposedByAttempt(p)
    PROVE  CourseKept
<1>1. \A p \in Operation : RecordSound(p)' /\ Final(p)
  BY RecordsSound DEF DestinationStays
<1>2. /\ \A p \in Operation : task'[p].phase = "idle"
      /\ proc' # "batch" /\ RunIsOn'
  BY DEF Return, NoTask, RunIsOn
<1> QED
  BY <1>1, <1>2, RestingCourse

LEMMA LoopCourse ==
    ASSUME TypeOK, TypeOK', Safety, Course, Loop PROVE CourseKept
<1>1. CASE ReturnUnreadable \/ ReturnCompleted \/ ReturnPending \/ (JoinBatch /\ failed)
  <2>1. PICK result \in {"ok", "error"} : Return(result)
    BY <1>1 DEF ReturnUnreadable, ReturnCompleted, ReturnPending, JoinBatch
  <2>2. UNCHANGED <<journal, dest, outstanding, authorizations>>
    BY <1>1 DEF ReturnUnreadable, ReturnCompleted, ReturnPending, JoinBatch, world
  <2> QED
    BY <2>1, <2>2, NothingMoves, ReturnCourse
<1>2. CASE CancelRun
  <2>1. /\ Return("error") /\ UNCHANGED <<dest, outstanding, authorizations>>
        /\ journal' = RunCancelled(journal) /\ journal \in JournalState
    BY <1>2 DEF CancelRun, world, TypeOK
  <2>2. ASSUME NEW p \in Operation PROVE Moves(p) /\ Told(p) /\ ExposedByAttempt(p)
    <3>1. \/ Op(p)' = Op(p)
          \/ /\ ~Op(p).reconcileRequired /\ Op(p).state \notin Decided
             /\ Op(p)'.state = "CANCELLED" /\ SameCount(Op(p), Op(p)')
             /\ Op(p)'.reconcileRequired = Op(p).reconcileRequired
      BY <2>1, RunCancelledEvent DEF Op, Decided
    <3>2. Moves(p)
      BY <3>1 DEF Moves, Legal, Same, Dropped
    <3>3. Told(p) /\ ExposedByAttempt(p)
      BY <2>1, <3>1 DEF Told, ExposedByAttempt, Exposed
    <3> QED
      BY <3>2, <3>3
  <2> QED
    BY <2>1, <2>2, ReturnCourse
<1>3. CASE BeginPass \/ CompleteRun
  <2>1. /\ proc = "loop" /\ proc' # "batch" /\ journal'.ops = journal.ops
        /\ journal'.status \in {journal.status, "COMPLETED"}
        /\ UNCHANGED <<task, dest, outstanding, authorizations>>
    <3>1. CASE BeginPass
      <4>1. NextPass \in Passes \cup {"none"}
        BY DEF NextPass, Passes
      <4> QED
        BY <3>1, <4>1 DEF BeginPass, AtTop, Passes, world
    <3>2. CASE CompleteRun
      BY <3>2, RunCompletedEvent DEF CompleteRun, NothingToRun, AtTop, TypeOK, world
    <3> QED
      BY <1>3, <3>1, <3>2
  <2>2. \A p \in Operation : RecordSound(p)' /\ Final(p)
    BY <2>1, NothingMoves, RecordsSound
  <2>3. (\A p \in Operation : task'[p].phase = "idle") /\ RunIsOn'
    BY <2>1 DEF Safety, Quiet, Course, RunIsOn
  <2> QED
    BY <2>1, <2>2, <2>3, RestingCourse
<1>4. CASE FormBatch
  <2>1. /\ proc = "loop" /\ proc' = "batch" /\ todo' \subseteq Candidates
        /\ journal.status \notin {"EMPTY", "COMPLETED"}
        /\ UNCHANGED <<journal, task, mode, dest, outstanding, authorizations>>
    BY <1>4 DEF FormBatch, AtTop, Batches, Course, RunIsOn, world
  <2>2. \A p \in Operation : RecordSound(p)' /\ Final(p)
    BY <2>1, NothingMoves, RecordsSound
  <2>3. \A p \in Operation : TaskSound(p)'
    BY <2>1, OtherTaskStays DEF Course, Stays
  <2>4. ASSUME NEW p \in todo', ~Op(p).reconcileRequired
        PROVE  /\ mode = "apply" /\ journal.status = "STARTED"
               /\ Op(p).state = "FAILED" => Spent(Op(p)) < MaxAttempts
    <3>1. p \in ApplyCandidates
      BY <2>1, <2>4 DEF Candidates, ReconcileCandidates
    <3>2. mode = "apply" /\ journal.status = "STARTED"
      BY <2>1, <3>1 DEF ApplyCandidates, TypeOK, JournalState
    <3>3. Op(p).state = "FAILED" => ~Exhausted(Op(p))
      BY <3>1 DEF ApplyCandidates
    <3>4. Op(p).attempt \in Nat /\ Op(p).blockedAttempts \in Nat
      BY <3>1 DEF ApplyCandidates, TypeOK, JournalState, OperationState, Op
    <3> QED
      BY <3>2, <3>3, <3>4, BoundsAssumption DEF Exhausted, Spent
  <2>5. \A p \in Operation : BatchSound(p)'
    BY <2>1, <2>4 DEF BatchSound, Op
  <2>6. RunIsOn'
    BY <2>1 DEF RunIsOn
  <2> QED
    BY <2>2, <2>3, <2>5, <2>6 DEF Course, CourseKept
<1>5. CASE RunBatch
  BY <1>5, StillCourse DEF RunBatch, world
<1>6. CASE JoinBatch /\ ~failed
  BY <1>6, StillCourse DEF JoinBatch, invocation, world
<1> QED
  BY <1>1, <1>2, <1>3, <1>4, <1>5, <1>6 DEF Loop

LEMMA PassCourse ==
    ASSUME TypeOK, TypeOK', Safety, Course, NEW o \in Operation,
           \/ ExpireJournalLease(o) \/ JournalReadyOperation(o)
           \/ RecoverUndispatched(o) \/ CancelBlocked(o)
    PROVE  CourseKept
<1> DEFINE attempt == Op(o).attempt
<1>1. PICK pass \in Passes : PassStep(pass, o)
  BY DEF ExpireJournalLease, JournalReadyOperation, RecoverUndispatched, CancelBlocked, Passes
<1>2. /\ proc = pass /\ proc' \in {"loop", pass} /\ o \in todo
      /\ UNCHANGED <<task, dest, outstanding, authorizations>>
  BY <1>1 DEF PassStep, world
<1>3. journal \in JournalState
  BY DEF TypeOK
<1>4. Rest(journal, journal', o) /\ Legal(Op(o), Op(o)', Allowed(o)) /\ Told(o)
  <2>1. CASE ExpireJournalLease(o) \/ JournalReadyOperation(o)
    <3>1. journal' = OperationReady(journal, o) \/ \E elapsed : journal' = LeaseExpired(journal, o, elapsed)
      BY <2>1 DEF ExpireJournalLease, JournalReadyOperation
    <3>2. Same(Op(o), Op(o)') /\ Rest(journal, journal', o)
      BY <1>3, <3>1, BookkeepingEvent DEF Op
    <3> QED
      BY <3>2, SameMoves
  <2>2. CASE RecoverUndispatched(o)
    <3>1. Op(o).state = "RUNNING"
      BY <2>2 DEF RecoverUndispatched, PassStep, Safety, WorkIsCurrent
    <3>2. Ended(journal.ops[o], journal'.ops[o], "FAILED") /\ Rest(journal, journal', o)
      <4>1. journal' = OperationOutcome(journal, o, attempt, "FAILED", TRUE)
        BY <2>2 DEF RecoverUndispatched
      <4> HIDE DEF attempt
      <4> QED  BY <1>3, <4>1, EndingEvent
    <3> QED
      BY <3>1, <3>2 DEF Legal, Finished, Outcomes, Told, Ended, Op
  <2>3. CASE CancelBlocked(o)
    <3>1. Op(o).state \in {"PLANNED", "READY"}
      BY <2>3 DEF CancelBlocked, PassStep, Safety, WorkIsCurrent
    <3>2. ~Op(o).reconcileRequired
      BY <3>1 DEF Course, RecordSound, CountSound
    <3>3. /\ journal'.ops[o].state = "CANCELLED" /\ SameCount(journal.ops[o], journal'.ops[o])
          /\ journal'.ops[o].reconcileRequired = journal.ops[o].reconcileRequired
          /\ Rest(journal, journal', o)
      BY <1>3, <2>3, CancelEvent DEF CancelBlocked
    <3>4. Dropped(Op(o), Op(o)')
      BY <3>1, <3>2, <3>3 DEF Dropped, Decided, Op
    <3> QED
      BY <3>3, <3>4 DEF Legal, Told, Op
  <2> QED
    BY <2>1, <2>2, <2>3
<1>5. \A p \in Operation : Moves(p) /\ Told(p)
  BY <1>4, OneMoves
<1>6. DestinationStays /\ \A p \in Operation : ExposedByAttempt(p)
  BY <1>2 DEF DestinationStays, ExposedByAttempt, Exposed
<1>7. \A p \in Operation : RecordSound(p)' /\ Final(p)
  BY <1>2, <1>5, <1>6, RecordsSound
<1>8. /\ \A p \in Operation : task'[p].phase = "idle"
      /\ proc' # "batch" /\ RunIsOn'
  BY <1>2, <1>4 DEF Safety, Quiet, Passes, Course, RunIsOn, Rest
<1> QED
  BY <1>7, <1>8, RestingCourse

\* A candidate of the batch is worked on; the others are as they were found.
LEMMA BatchCourse ==
    ASSUME TypeOK, TypeOK', Course, NEW o \in Operation, proc = "batch", proc' = "batch",
           Rest(journal, journal', o), Legal(Op(o), Op(o)', Allowed(o)), Told(o),
           UNCHANGED <<mode, dest, outstanding, authorizations>>,
           \A p \in Operation \ {o} : task'[p] = task[p],
           todo' \subseteq todo, o \notin todo' \/ Same(Op(o), Op(o)'), TaskSound(o)'
    PROVE  CourseKept
<1>1. \A p \in Operation : Moves(p) /\ Told(p)
  BY OneMoves
<1>2. DestinationStays /\ \A p \in Operation : ExposedByAttempt(p)
  BY DEF DestinationStays, ExposedByAttempt, Exposed
<1>3. \A p \in Operation : RecordSound(p)' /\ Final(p)
  BY <1>1, <1>2, RecordsSound
<1>4. ASSUME NEW p \in Operation \ {o} PROVE TaskSound(p)'
  BY OtherTaskStays DEF Course, Rest
<1>5. ASSUME NEW p \in Operation PROVE BatchSound(p)'
  <2> SUFFICES ASSUME p \in todo', ~Op(p)'.reconcileRequired
               PROVE  /\ mode = "apply" /\ journal.status = "STARTED"
                      /\ Op(p)'.state = "FAILED" => Spent(Op(p)') < MaxAttempts
    BY DEF BatchSound, Rest
  <2>1. /\ SameCount(Op(p), Op(p)') /\ (Op(p)'.state = "FAILED" => Op(p).state = "FAILED")
        /\ Op(p).reconcileRequired => Op(p)'.reconcileRequired
    <3>1. CASE p = o
      BY <3>1 DEF Same, SameCount
    <3>2. CASE p # o
      BY <3>2, StaysMoves DEF Rest
    <3> QED
      BY <3>1, <3>2
  <2>2. Spent(Op(p)') = Spent(Op(p))
    BY <2>1 DEF SameCount, Spent
  <2> QED
    BY <2>1, <2>2 DEF Course, BatchSound
<1>6. RunIsOn'
  BY DEF Course, RunIsOn, Rest
<1> QED
  BY <1>3, <1>4, <1>5, <1>6 DEF Course, CourseKept

LEMMA AcquireLeaseCourse ==
    ASSUME TypeOK, TypeOK', Course, NEW o \in Operation, AcquireLease(o)
    PROVE  CourseKept
<1> DEFINE kind == IF Op(o).reconcileRequired THEN "reconcile" ELSE "apply"
<1>1. /\ proc = "batch" /\ proc' = "batch" /\ o \in todo /\ todo' = todo
      /\ UNCHANGED <<mode, dest, outstanding, authorizations>>
      /\ journal' = LeaseAcquired(journal, o) /\ journal \in JournalState
  BY DEF AcquireLease, NextCandidate, TypeOK, world
<1>2. /\ task'[o] = [kind |-> kind, phase |-> "leased", reply |-> "none"]
      /\ \A p \in Operation \ {o} : task'[p] = task[p]
  BY DEF AcquireLease, TypeOK
<1>3. Same(Op(o), Op(o)') /\ Rest(journal, journal', o)
  BY <1>1, BookkeepingEvent DEF Op
<1>4. Legal(Op(o), Op(o)', Allowed(o)) /\ Told(o)
  BY <1>3, SameMoves
<1>5. TaskSound(o)'
  <2>1. Op(o).reconcileRequired => Op(o)'.reconcileRequired
    BY <1>3, Zenon DEF Same
  <2>2. ~Op(o).reconcileRequired => mode = "apply" /\ journal.status = "STARTED"
    BY <1>1 DEF Course, BatchSound
  <2> QED
    BY <1>1, <1>2, <1>3, <2>1, <2>2 DEF TaskSound, Busy, Rest
<1> QED
  BY <1>1, <1>2, <1>3, <1>4, <1>5, BatchCourse

LEMMA PrepareTaskCourse ==
    ASSUME TypeOK, TypeOK', Safety, Course, NEW o \in Operation, PrepareTask(o)
    PROVE  CourseKept
<1> DEFINE attempt == Op(o).attempt
<1>1. /\ proc = "batch" /\ proc' = "batch" /\ task[o].phase = "leased" /\ todo' = todo \ {o}
      /\ UNCHANGED <<mode, dest, outstanding, authorizations>>
      /\ journal \in JournalState
  BY DEF PrepareTask, TypeOK, world
<1>2. /\ task'[o].phase = "prepared" /\ task'[o].kind = task[o].kind
      /\ \A p \in Operation \ {o} : task'[p] = task[p]
  BY DEF PrepareTask, TypeOK, Tasks
<1>3. CASE task[o].kind = "apply"
  <2>1. journal' = AttemptStarted(journal, o, attempt + 1)
    BY <1>3 DEF PrepareTask
  <2>2. /\ journal'.ops[o].state = "RUNNING" /\ ~journal'.ops[o].reconcileRequired
        /\ journal'.ops[o].attempt = journal.ops[o].attempt + 1
        /\ journal'.ops[o].blockedAttempts = journal.ops[o].blockedAttempts
        /\ Rest(journal, journal', o)
    BY <1>1, <2>1, AttemptEvent DEF Op
  <2>3. ~Op(o).reconcileRequired /\ Op(o).state \in {"READY", "BLOCKED", "FAILED"} /\ o \in todo
    BY <1>1, <1>3 DEF Safety, OperationSafe, LeasedIsNext, WorkIsCurrent
  <2>4. Spent(Op(o)) < Allowed(o)
    <3>1. CASE Op(o).state = "FAILED"
      <4>1. Spent(Op(o)) < MaxAttempts
        BY <1>1, <2>3, <3>1 DEF Course, BatchSound
      <4>2. authorizations[o] \in Nat /\ Op(o).attempt \in Nat /\ Op(o).blockedAttempts \in Nat
        BY DEF TypeOK, JournalState, OperationState, Op
      <4> QED
        BY <4>1, <4>2, BoundsAssumption DEF Allowed, Spent
    <3>2. CASE Op(o).state \in {"READY", "BLOCKED"}
      BY <3>2 DEF Course, RecordSound, CountSound
    <3> QED
      BY <2>3, <3>1, <3>2
  <2>5. Legal(Op(o), Op(o)', Allowed(o)) /\ Told(o)
    BY <2>2, <2>3, <2>4 DEF Legal, Begun, Told, Op
  <2>6. TaskSound(o)'
    BY <1>1, <1>2, <1>3, <2>2 DEF TaskSound, Course, Rest, Op
  <2> QED
    BY <1>1, <1>2, <2>2, <2>5, <2>6, BatchCourse
<1>4. CASE task[o].kind # "apply"
  <2>1. journal' = ReconcileStarted(journal, o, attempt)
    BY <1>4 DEF PrepareTask
  <2>2. Same(Op(o), Op(o)') /\ Rest(journal, journal', o)
    BY <1>1, <2>1, BookkeepingEvent DEF Op
  <2>3. Legal(Op(o), Op(o)', Allowed(o)) /\ Told(o)
    BY <2>2, SameMoves
  <2>4. TaskSound(o)'
    <3>1. Op(o).reconcileRequired => Op(o)'.reconcileRequired
      BY <2>2, Zenon DEF Same
    <3> QED
      BY <1>1, <1>2, <1>4, <3>1 DEF TaskSound, Course
  <2> QED
    BY <1>1, <1>2, <2>2, <2>3, <2>4, BatchCourse
<1> QED
  BY <1>3, <1>4

LEMMA LoopForCourse ==
    ASSUME TypeOK, TypeOK', Safety, Course, NEW o \in Operation, LoopFor(o) PROVE CourseKept
<1>1. CASE BackoffInterrupted(o)
  BY <1>1, StillCourse DEF BackoffInterrupted, world
<1>2. CASE AcquireInterrupted(o)
  <2>1. Return("error") /\ UNCHANGED <<journal, dest, outstanding, authorizations>>
    BY <1>2 DEF AcquireInterrupted, world
  <2> QED
    BY <2>1, NothingMoves, ReturnCourse
<1> QED
  BY <1>1, <1>2, PassCourse, AcquireLeaseCourse, PrepareTaskCourse DEF LoopFor

-----------------------------------------------------------------------------
(* The surroundings. *)

LEMMA CrashCourse ==
    ASSUME TypeOK, TypeOK', Safety, Course, Crash PROVE CourseKept
<1>1. Return("crash") /\ UNCHANGED <<journal, dest, authorizations>>
  BY DEF Crash
<1>2. \A p \in Operation : Moves(p) /\ Told(p)
  BY <1>1, StaysMoves DEF Stays
<1>3. ASSUME NEW p \in Operation PROVE ExposedByAttempt(p)
  <2>1. CASE outstanding'[p] => outstanding[p]
    BY <1>1, <2>1 DEF ExposedByAttempt, Exposed
  <2>2. CASE ~(outstanding'[p] => outstanding[p])
    <3>1. \/ Goroutine(p, "dispatched")
          \/ /\ Publishing(p)
             /\ Goroutine(p, "prepared") \/ Goroutine(p, "credentialed") \/ Goroutine(p, "started")
      BY <2>2 DEF Crash
    <3>2. task[p].kind = "apply" /\ task[p].phase \in Busy
      BY <3>1 DEF Goroutine, Publishing, Safety, OperationSafe, DispatchedIsFirst, Busy
    <3> QED
      BY <3>2 DEF Course, TaskSound, ExposedByAttempt
  <2> QED
    BY <2>1, <2>2
<1> QED
  BY <1>1, <1>2, <1>3, ReturnCourse

LEMMA StartCourse ==
    ASSUME TypeOK, TypeOK', Safety, Course, NEW m \in {"apply", "reconcile"}, Start(m)
    PROVE  CourseKept
<1>1. /\ proc = "down" /\ proc' = "loop"
      /\ UNCHANGED <<task, dest, outstanding, authorizations>>
      /\ journal \in JournalState
  BY DEF Start, world, TypeOK
<1>2. \A p \in Operation : Stays(journal, journal', p)
  BY <1>1, RunStartedEvent DEF Start, Stays
<1>3. journal'.status # "EMPTY"
  BY <1>1, RunStartedEvent DEF Start
<1>4. /\ \A p \in Operation : Moves(p) /\ Told(p) /\ ExposedByAttempt(p)
      /\ DestinationStays
  BY <1>1, <1>2, StaysMoves DEF ExposedByAttempt, Exposed, DestinationStays
<1>5. \A p \in Operation : RecordSound(p)' /\ Final(p)
  BY <1>1, <1>4, RecordsSound
<1>6. \A p \in Operation : task'[p].phase = "idle"
  BY <1>1 DEF Safety, Quiet
<1> QED
  BY <1>1, <1>3, <1>5, <1>6, RestingCourse DEF RunIsOn

\* The authorization that lets o start again raises what o is allowed.
LEMMA AuthorizeRetryCourse ==
    ASSUME TypeOK, TypeOK', Safety, Course, NEW o \in Operation, AuthorizeRetry(o)
    PROVE  CourseKept
<1>1. /\ proc = "down" /\ proc' = "down" /\ UNCHANGED <<task, dest, outstanding>>
      /\ journal \in JournalState
      /\ journal' = RetryAuthorized(journal, o, Op(o).attempt)
  BY DEF AuthorizeRetry, TypeOK
<1>2. /\ Op(o)'.state = "READY" /\ ~Op(o)'.reconcileRequired /\ SameCount(Op(o), Op(o)')
      /\ Rest(journal, journal', o)
  BY <1>1, AuthorizeEvent DEF Op
<1>3. Op(o).state = "WAITING_EXTERNAL"
  <2>1. journal.refused = "NONE" /\ journal'.refused = "NONE"
    BY <1>1 DEF AuthorizeRetry
  <2>2. \/ RetryAuthorizable(journal.ops[o], o)
        \/ journal'.refused = "RETRY_AUTHORIZED"
    BY <1>1, <2>1 DEF RetryAuthorized, AppendEvent, SetOperation, JournalState
  <2> QED
    BY <2>1, <2>2 DEF RetryAuthorizable, Op
<1>4. /\ Allowed(o)' = Allowed(o) + 1
      /\ \A p \in Operation \ {o} : Allowed(p)' = Allowed(p)
  BY BoundsAssumption DEF AuthorizeRetry, Allowed, TypeOK
<1>5. \A p \in Operation \ {o} : Moves(p) /\ Told(p)
  BY <1>2, StaysMoves DEF Rest
<1>6. ASSUME NEW p \in Operation PROVE CountSound(Op(p), Allowed(p))' /\ Final(p)
  <2>1. CASE p = o
    <3>1. /\ Op(o).attempt \in Nat /\ Op(o).blockedAttempts \in Nat /\ Allowed(o) \in Nat
      BY BoundsAssumption DEF TypeOK, JournalState, OperationState, Op, Allowed
    <3>2. CountSound(Op(o), Allowed(o))
      BY DEF Course, RecordSound
    <3>3. CountSound(Op(o)', Allowed(o)')
      BY <1>2, <1>4, <3>1, <3>2 DEF CountSound, SameCount, Spent
    <3> QED
      BY <1>3, <2>1, <3>3 DEF CountSound, Spent, Final, Decided
  <2>2. CASE p # o
    <3>1. CountSound(Op(p)', Allowed(p)) /\ Final(p)
      BY <1>5, <2>2, MovesSound DEF Course, RecordSound
    <3> QED
      BY <1>4, <2>2, <3>1 DEF CountSound, Spent
  <2> QED
    BY <2>1, <2>2
<1>7. ASSUME NEW p \in Operation PROVE InOrder(p)'
  <2>1. \A d \in Dependencies[p] : d \in Operation
    BY PlanAssumption
  <2>2. InOrder(p)
    BY DEF Course, RecordSound
  <2>3. CASE p = o
    BY <1>3, <1>6, <2>1, <2>2, <2>3 DEF InOrder, DependenciesPublished, Final, Decided, Op
  <2>4. CASE p # o
    <3>1. \/ Op(p).state \in {"PLANNED", "CANCELLED"} => Op(p)'.state \in {Op(p).state, "CANCELLED"}
          \/ DependenciesPublished(journal'.ops, p)
      BY <1>5, <2>4, MovesSound DEF Course, RecordSound
    <3> QED
      BY <1>6, <2>1, <2>2, <3>1 DEF InOrder, DependenciesPublished, Final, Decided, Op
  <2> QED
    BY <2>3, <2>4
<1>8. ASSUME NEW p \in Operation PROVE DecisionTrue(p)' /\ ExposedInOrder(p)'
  BY <1>1, <1>2, <1>5 DEF Course, RecordSound, DecisionTrue, ExposedInOrder, Exposed, Told
<1>9. \A p \in Operation : RecordSound(p)' /\ Final(p)
  BY <1>6, <1>7, <1>8 DEF RecordSound
<1>10. (\A p \in Operation : task'[p].phase = "idle") /\ RunIsOn' /\ proc' # "batch"
  BY <1>1 DEF Safety, Quiet, RunIsOn
<1> QED
  BY <1>9, <1>10, RestingCourse

LEMMA DestinationActsCourse ==
    ASSUME TypeOK, TypeOK', Safety, Course, NEW o \in Operation,
           NEW decision \in {"published", "rejected"}, DestinationActs(o, decision)
    PROVE  CourseKept
<1>1. /\ outstanding[o] /\ dest'[o] = decision /\ ~outstanding'[o]
      /\ \A p \in Operation \ {o} : dest'[p] = dest[p] /\ outstanding'[p] = outstanding[p]
      /\ UNCHANGED <<journal, proc, todo, task, mode, authorizations>>
  BY DEF DestinationActs, TypeOK
<1>2. dest[o] = "absent" /\ Exposed(o)
  BY <1>1 DEF Safety, OperationSafe, OutstandingIsUndecided, Exposed
<1>3. \A p \in Operation : Moves(p) /\ Told(p)
  BY <1>1, StaysMoves DEF Stays
<1>4. DestinationStays /\ \A p \in Operation : ExposedByAttempt(p)
  BY <1>1, <1>2 DEF DestinationStays, ExposedByAttempt, Exposed
<1>5. \A p \in Operation : RecordSound(p)' /\ Final(p)
  BY <1>1, <1>3, <1>4, RecordsSound
<1>6. RunIsOn' /\ \A p \in Operation : TaskSound(p)' /\ BatchSound(p)'
  BY <1>1 DEF Course, RunIsOn, TaskSound, BatchSound, Op
<1> QED
  BY <1>5, <1>6 DEF Course, CourseKept

LEMMA SurroundingsCourse ==
    ASSUME TypeOK, TypeOK', Safety, Course, Surroundings PROVE CourseKept
<1>1. CASE Signal \/ \E o \in Operation : LeaseDeadline(o)
  BY <1>1, StillCourse DEF Signal, LeaseDeadline, world
<1> QED
  BY <1>1, CrashCourse, StartCourse, AuthorizeRetryCourse, DestinationActsCourse DEF Surroundings

\* Every step keeps the course, and revises no decision.
LEMMA NextCourse ==
    ASSUME IInv, IInv', Course, [Next]_vars PROVE CourseKept
<1>1. CASE Next
  BY <1>1, LoopCourse, LoopForCourse, RunTaskCourse, SurroundingsCourse DEF Next, Execute, IInv
<1>2. CASE UNCHANGED vars
  BY <1>2, StillCourse DEF vars, IInv
<1> QED
  BY <1>1, <1>2

LEMMA InitCourse == Init => Course
<1> SUFFICES ASSUME Init PROVE Course
  OBVIOUS
<1>1. ASSUME NEW o \in Operation PROVE RecordSound(o)
  <2>1. Op(o) = PlannedOperation /\ Allowed(o) = MaxAttempts
    BY BoundsAssumption DEF Init, EmptyJournal, Op, Allowed
  <2>2. CountSound(Op(o), Allowed(o))
    BY <2>1, BoundsAssumption DEF CountSound, Spent, PlannedOperation
  <2> QED
    BY <2>1, <2>2
    DEF RecordSound, InOrder, DecisionTrue, ExposedInOrder, Exposed, PlannedOperation, Init
<1>2. ASSUME NEW o \in Operation PROVE TaskSound(o) /\ BatchSound(o)
  BY DEF Init, TaskSound, BatchSound, NoTask, Busy
<1> QED
  BY <1>1, <1>2 DEF Course, RunIsOn, Init

\* The record of every operation keeps to its course; see Course.
THEOREM CourseHolds == Spec => [](IInv /\ Course)
<1>1. Init => IInv /\ Course
  BY InitType, InitSafety, InitCourse DEF IInv
<1>2. IInv /\ IInv' /\ Course /\ [Next]_vars => Course'
  BY NextCourse DEF CourseKept
<1> QED
  BY <1>1, <1>2, InvariantHolds, PTL DEF Spec

\* Whatever is interrupted, times out or is blocked: no operation reaches its provider with
\* more attempts than the budget and the authorizations of the operator allow.
THEOREM BudgetKept == Spec => []AttemptBudget
<1>1. Course => AttemptBudget
  BY DEF Course, RecordSound, CountSound, Allowed, AttemptBudget
<1> QED
  BY <1>1, CourseHolds, PTL

\* In every plan no publication is requested before those it depends on are published at
\* the destination.
THEOREM DependenciesComeFirst == Spec => []DependenciesFirst
<1>1. Course => DependenciesFirst
  BY DEF Course, RecordSound, ExposedInOrder, DependenciesFirst
<1> QED
  BY <1>1, CourseHolds, PTL

\* No event, of whatever invocation, revises a decision the journal has recorded.
THEOREM DecisionsStand == Spec => DecisionsAreFinal
<1>1. IInv /\ IInv' /\ Course /\ [Next]_vars =>
      [\A o \in Operation :
          Op(o).state \in {"PUBLISHED", "REJECTED"} => journal'.ops[o].state = Op(o).state]_vars
  BY NextCourse DEF CourseKept, Final, Decided, Op
<1> QED
  BY <1>1, CourseHolds, PTL DEF Spec, DecisionsAreFinal

\* A request leaves only from an apply of a run that is not cancelled, with its dispatch in
\* the journal and the record marked for reconciliation.
THEOREM PublishesWhenAllowed == Spec => PublishesOnlyWhenAllowed
<1>1. IInv /\ Course =>
      \A o \in Operation : Released(o) =>
          /\ mode = "apply"
          /\ journal.status = "STARTED"
          /\ Op(o).dispatched /\ Op(o).reconcileRequired
  <2> SUFFICES ASSUME IInv, Course, NEW o \in Operation, Released(o)
               PROVE  /\ mode = "apply" /\ journal.status = "STARTED"
                      /\ Op(o).dispatched /\ Op(o).reconcileRequired
    OBVIOUS
  <2>1. Op(o).dispatched /\ Op(o).reconcileRequired
    BY DEF IInv, Safety, OperationSafe, AfterDispatch, Released
  <2>2. mode = "apply" /\ journal.status = "STARTED"
    BY DEF Course, TaskSound, Released, Publishing
  <2> QED
    BY <2>1, <2>2
<1>2. IInv /\ Course /\ [Next]_vars =>
      [\A o \in Operation : Released(o) =>
          /\ mode = "apply"
          /\ journal.status = "STARTED"
          /\ Op(o).dispatched /\ Op(o).reconcileRequired]_vars
  BY <1>1
<1> QED
  BY <1>2, CourseHolds, PTL DEF Spec, PublishesOnlyWhenAllowed

-----------------------------------------------------------------------------
(* The refinement: every publication goes the way Publication promises. *)

RecordStays(p) == RecordOf(p)' = RecordOf(p)
WorldStays(p)  == dest'[p] = dest[p] /\ outstanding'[p] = outstanding[p]

\* Promise!Promised, of one operation, in terms of the executor.
Keeps(p) ==
    \/ RecordOf(p) = "clear" /\ RecordOf(p)' = "owed" /\ WorldStays(p)
    \/ /\ RecordOf(p) = "owed" /\ ~outstanding[p] /\ dest[p] = "absent"
       /\ outstanding'[p] /\ dest'[p] = "absent" /\ RecordStays(p)
    \/ /\ outstanding[p] /\ ~outstanding'[p] /\ dest'[p] \in {"published", "rejected"}
       /\ RecordStays(p)
    \/ outstanding[p] /\ ~outstanding'[p] /\ dest'[p] = dest[p] /\ RecordStays(p)
    \/ /\ RecordOf(p) = "owed" /\ ~outstanding[p] /\ dest[p] = "absent"
       /\ RecordOf(p)' = "clear" /\ WorldStays(p)
    \/ /\ RecordOf(p) = "owed" /\ dest[p] \in {"published", "rejected"}
       /\ RecordOf(p)' = dest[p] /\ WorldStays(p)
    \/ RecordStays(p) /\ WorldStays(p)

\* What the destination says of p is unchanged, so what the record says may only change as
\* PublicationAccounted and the truth of its decisions allow before and after.
LEMMA RecordMoves ==
    ASSUME TypeOK, TypeOK', NEW p \in SideEffecting, p \in Operation, WorldStays(p),
           ~Excused(p), ~Excused(p)', Accounted(p), Accounted(p)', DecisionTrue(p)', Final(p)
    PROVE  Keeps(p)
<1>1. dest[p] \in {"absent", "published", "rejected"}
  BY DEF TypeOK
<1>2. CASE Op(p).state \in Decided
  BY <1>2 DEF Final, Keeps, RecordStays, RecordOf, Decided
<1>3. CASE Op(p).state \notin Decided /\ ~Op(p).reconcileRequired
  <2>1. RecordOf(p) = "clear" /\ ~Exposed(p)
    BY <1>3 DEF RecordOf, Decided, Accounted, Recorded
  <2>2. Op(p)'.state \notin Decided
    BY <2>1 DEF DecisionTrue, Decided, WorldStays, Exposed
  <2>3. RecordOf(p)' \in {"clear", "owed"}
    BY <2>2 DEF RecordOf, Decided
  <2> QED
    BY <2>1, <2>3 DEF Keeps, RecordStays
<1>4. CASE Op(p).state \notin Decided /\ Op(p).reconcileRequired
  <2>1. RecordOf(p) = "owed"
    BY <1>4 DEF RecordOf, Decided
  <2>2. CASE Op(p)'.state \in Decided
    <3>1. RecordOf(p)' = dest[p] /\ dest[p] \in {"published", "rejected"}
      BY <2>2 DEF DecisionTrue, Decided, WorldStays, RecordOf
    <3> QED
      BY <2>1, <3>1 DEF Keeps
  <2>3. CASE Op(p)'.state \notin Decided /\ Op(p)'.reconcileRequired
    <3>1. RecordOf(p)' = "owed"
      BY <2>3 DEF RecordOf, Decided
    <3> QED
      BY <2>1, <3>1 DEF Keeps, RecordStays
  <2>4. CASE Op(p)'.state \notin Decided /\ ~Op(p)'.reconcileRequired
    <3>1. RecordOf(p)' = "clear"
      BY <2>4 DEF RecordOf, Decided
    <3>2. ~Exposed(p)'
      BY <2>4 DEF Accounted, Recorded, Decided
    <3>3. ~outstanding[p] /\ dest[p] = "absent"
      BY <3>2 DEF Exposed, WorldStays
    <3> QED
      BY <2>1, <3>1, <3>3 DEF Keeps
  <2> QED
    BY <2>2, <2>3, <2>4
<1> QED
  BY <1>2, <1>3, <1>4

\* The loop does not touch the destination, nor do most steps of a goroutine.
LEMMA LoopWorld ==
    ASSUME Loop \/ \E o \in Operation : LoopFor(o) PROVE UNCHANGED world
<1>1. CASE Loop
  BY <1>1
  DEF Loop, ReturnUnreadable, ReturnCompleted, CancelRun, BeginPass, CompleteRun, ReturnPending,
      FormBatch, RunBatch, JoinBatch
<1>2. ASSUME NEW o \in Operation, LoopFor(o) PROVE UNCHANGED world
  BY <1>2
  DEF LoopFor, ExpireJournalLease, JournalReadyOperation, RecoverUndispatched, CancelBlocked,
      PassStep, AcquireLease, BackoffInterrupted, AcquireInterrupted, PrepareTask
<1> QED
  BY <1>1, <1>2

LEMMA RunTaskWorld ==
    ASSUME NEW o \in Operation, RunTask(o)
    PROVE  \/ UNCHANGED world
           \/ ReleaseRequest(o)
           \/ \E reply \in Replies : Respond(o, reply)
           \/ \E f \in Failures : AbortBeforeDispatch(o, f)
BY DEF RunTask, PrepareSucceeds, StartProvider, Dispatch, PrepareFails, StartFails, CallFails,
       PersistError, PersistResult, PersistInvalid, ResultNotJournaled, RenewLease, ReleaseLease,
       Internal

\* The promise of p is kept by a step that leaves the destination as it is.
UndisturbedOf(p) == WorldStays(p) /\ (Excused(p) => Excused(p)')

LEMMA UndisturbedKeeps ==
    ASSUME IInv, IInv', Course', NEW p \in SideEffecting, p \in Operation, Final(p),
           ~Excused(p)', UndisturbedOf(p)
    PROVE  Keeps(p) /\ ~Excused(p)
<1>1. ~Excused(p)
  BY DEF UndisturbedOf
<1>2. Accounted(p) /\ Accounted(p)' /\ TypeOK /\ TypeOK'
  BY DEF IInv, Safety, OperationSafe
<1>3. DecisionTrue(p)'
  BY DEF Course, RecordSound
<1> QED
  BY <1>1, <1>2, <1>3, RecordMoves DEF UndisturbedOf

\* The record that a request leaves from.
LEMMA DispatchedOwed ==
    ASSUME IInv, Course, NEW p \in Operation, task[p].phase = "dispatched", ~Excused(p)
    PROVE  RecordOf(p) = "owed" /\ ~outstanding[p] /\ dest[p] = "absent"
<1>1. Publishing(p) /\ ~Exposed(p) /\ Op(p).reconcileRequired
  BY DEF IInv, Safety, OperationSafe, DispatchedIsFirst, AfterDispatch
<1>2. Op(p).state = "RUNNING"
  BY <1>1 DEF Publishing, Course, TaskSound, Busy
<1> QED
  BY <1>1, <1>2 DEF RecordOf, Exposed

LEMMA ReleaseKeeps ==
    ASSUME IInv, IInv', Course, Course', NEW o \in Operation, ReleaseRequest(o),
           NEW p \in SideEffecting, p \in Operation, Final(p), ~Excused(p)'
    PROVE  Keeps(p) /\ ~Excused(p)
<1>1. UNCHANGED <<journal, dest, leaked, authorizations>>
  BY DEF ReleaseRequest
<1>2. ~Excused(p) /\ RecordStays(p) /\ dest'[p] = dest[p]
  BY <1>1 DEF Excused, RecordStays, RecordOf, Op
<1>3. CASE outstanding'[p] = outstanding[p]
  BY <1>2, <1>3 DEF Keeps, WorldStays
<1>4. CASE outstanding'[p] # outstanding[p]
  <2>1. p = o /\ Publishing(o) /\ outstanding'[p]
    BY <1>4 DEF ReleaseRequest, IInv, TypeOK
  <2>2. task[p].phase = "dispatched"
    BY <2>1 DEF ReleaseRequest, Goroutine
  <2> QED
    BY <1>2, <2>1, <2>2, DispatchedOwed DEF Keeps
<1> QED
  BY <1>3, <1>4

LEMMA RespondKeeps ==
    ASSUME IInv, IInv', Course, Course', NEW o \in Operation, NEW reply \in Replies,
           Respond(o, reply), NEW p \in SideEffecting, p \in Operation, Final(p), ~Excused(p)'
    PROVE  Keeps(p) /\ ~Excused(p)
<1>1. UNCHANGED <<dest, leaked, authorizations>>
  BY DEF Respond
<1>2. Excused(p) => Excused(p)'
  BY <1>1 DEF Excused
<1>3. CASE outstanding'[p] = outstanding[p]
  BY <1>1, <1>2, <1>3, UndisturbedKeeps DEF UndisturbedOf, WorldStays
<1>4. CASE outstanding'[p] # outstanding[p]
  <2>1. p = o /\ outstanding[p] /\ ~outstanding'[p]
    BY <1>4 DEF Respond, IInv, TypeOK
  <2>2. Same(Op(o), Op(o)')
    BY BookkeepingEvent DEF Respond, IInv, TypeOK, Op
  <2>3. RecordStays(o)
    <3>1. /\ Op(o)'.state = Op(o).state
          /\ Op(o)'.reconcileRequired = Op(o).reconcileRequired
      BY <2>2, Zenon DEF Same
    <3> QED
      BY <3>1, Zenon DEF RecordStays, RecordOf
  <2> QED
    BY <1>1, <1>2, <2>1, <2>3 DEF Keeps
<1> QED
  BY <1>3, <1>4

LEMMA AbortKeeps ==
    ASSUME IInv, IInv', Course', NEW o \in Operation, NEW f \in Failures,
           AbortBeforeDispatch(o, f),
           NEW p \in SideEffecting, p \in Operation, Final(p), ~Excused(p)'
    PROVE  Keeps(p) /\ ~Excused(p)
<1>1. Cleanup(o) /\ UNCHANGED <<dest, authorizations>>
  BY DEF AbortBeforeDispatch
<1>2. Excused(p) => Excused(p)'
  BY <1>1 DEF Cleanup, Excused
<1>3. outstanding'[p] = outstanding[p]
  BY <1>1 DEF Cleanup, Excused, IInv, TypeOK
<1> QED
  BY <1>1, <1>2, <1>3, UndisturbedKeeps DEF UndisturbedOf, WorldStays

LEMMA CrashKeeps ==
    ASSUME IInv, IInv', Course, Course', Crash,
           NEW p \in SideEffecting, p \in Operation, Final(p), ~Excused(p)'
    PROVE  Keeps(p) /\ ~Excused(p)
<1>1. UNCHANGED <<journal, dest, authorizations>>
  BY DEF Crash
<1>2. ~Excused(p)
  BY <1>1 DEF Crash, Excused
<1>3. RecordStays(p) /\ dest'[p] = dest[p]
  BY <1>1 DEF RecordStays, RecordOf, Op
<1>4. CASE outstanding'[p] = outstanding[p]
  BY <1>3, <1>2, <1>4 DEF Keeps, WorldStays
<1>5. CASE outstanding'[p] # outstanding[p]
  <2>1. outstanding'[p] /\ task[p].phase = "dispatched"
    <3>1. PICK late \in SUBSET {o \in Operation : Goroutine(o, "dispatched")},
               leaks \in SUBSET Operation :
            /\ leaked' = leaked \cup leaks
            /\ outstanding' = [o \in Operation |->
                  outstanding[o] \/ (o \in late \cup leaks /\ dest[o] = "absent")]
      BY DEF Crash
    <3>2. p \notin leaks
      BY <3>1 DEF Excused
    <3>3. outstanding'[p] = (outstanding[p] \/ (p \in late /\ dest[p] = "absent"))
      BY <3>1, <3>2
    <3>4. outstanding[p] \in BOOLEAN
      BY DEF IInv, TypeOK
    <3>5. p \in late /\ outstanding'[p]
      BY <1>5, <3>3, <3>4
    <3> QED
      BY <3>5 DEF Goroutine
  <2> QED
    BY <1>2, <1>3, <2>1, DispatchedOwed DEF Keeps
<1> QED
  BY <1>4, <1>5

LEMMA DestinationActsKeeps ==
    ASSUME IInv, NEW o \in Operation, NEW decision \in {"published", "rejected"},
           DestinationActs(o, decision), NEW p \in SideEffecting, p \in Operation, ~Excused(p)'
    PROVE  Keeps(p) /\ ~Excused(p)
<1>1. UNCHANGED <<journal, leaked, authorizations>>
  BY DEF DestinationActs
<1>2. ~Excused(p) /\ RecordStays(p)
  BY <1>1 DEF Excused, RecordStays, RecordOf, Op
<1>3. \/ WorldStays(p)
      \/ outstanding[p] /\ ~outstanding'[p] /\ dest'[p] = decision
  BY DEF DestinationActs, WorldStays, IInv, TypeOK
<1> QED
  BY <1>2, <1>3 DEF Keeps

\* Every step keeps the promise of every publication it takes no risk with.
LEMMA NextKeeps ==
    ASSUME IInv, IInv', Course, Course', [Next]_vars,
           NEW p \in SideEffecting, ~Excused(p)'
    PROVE  Keeps(p) /\ ~Excused(p)
<1>1. p \in Operation
  BY PlanAssumption
<1>2. Final(p)
  BY <1>1, NextCourse DEF CourseKept
<1>3. CASE UNCHANGED world
  <2>1. UndisturbedOf(p)
    BY <1>3 DEF UndisturbedOf, WorldStays, Excused, world
  <2> QED
    BY <1>1, <1>2, <2>1, UndisturbedKeeps
<1>4. CASE \E o \in Operation : RunTask(o)
  <2>1. PICK o \in Operation : RunTask(o)
    BY <1>4
  <2> QED
    BY <1>1, <1>2, <1>3, <2>1, RunTaskWorld, ReleaseKeeps, RespondKeeps, AbortKeeps
<1>5. CASE Surroundings
  <2>1. CASE Signal \/ (\E o \in Operation : LeaseDeadline(o))
             \/ (\E m \in {"apply", "reconcile"} : Start(m))
    BY <1>3, <2>1 DEF Signal, LeaseDeadline, Start
  <2>2. ASSUME NEW o \in Operation, AuthorizeRetry(o) PROVE UndisturbedOf(p)
    BY <2>2, <1>1 DEF AuthorizeRetry, UndisturbedOf, WorldStays, Excused, IInv, TypeOK
  <2> QED
    BY <1>1, <1>2, <1>5, <2>1, <2>2, UndisturbedKeeps, CrashKeeps, DestinationActsKeeps
    DEF Surroundings
<1>6. CASE Loop \/ \E o \in Operation : LoopFor(o)
  BY <1>3, <1>6, LoopWorld
<1>7. CASE UNCHANGED vars
  BY <1>3, <1>7 DEF vars, world
<1> QED
  BY <1>4, <1>5, <1>6, <1>7 DEF Next, Execute

\* Executor implements Publication: whatever is interrupted, killed and started again, every
\* publication is marked before its one request leaves, and settled by what the destination
\* did, until a risk is taken with it.
THEOREM PromiseKept == Spec => KeepsPromise
<1>1. Init => Promise!Init
  <2> SUFFICES ASSUME Init PROVE Promise!Init
    OBVIOUS
  <2>1. ASSUME NEW o \in SideEffecting
        PROVE  RecordOf(o) = "clear" /\ outstanding[o] = FALSE /\ dest[o] = "absent"
               /\ Excused(o) = FALSE
    <3>1. o \in Operation
      BY PlanAssumption
    <3>2. Op(o) = PlannedOperation /\ authorizations[o] = 0 /\ leaked = {}
          /\ outstanding[o] = FALSE /\ dest[o] = "absent"
      BY <3>1 DEF Init, Op, EmptyJournal
    <3>3. ~(o \in leaked) /\ ~(authorizations[o] > 0)
      BY <3>2
    <3> QED
      BY <3>2, <3>3 DEF RecordOf, PlannedOperation, Excused
  <2> QED
    BY <2>1, Zenon DEF Promise!Init
<1>2. IInv /\ IInv' /\ Course /\ Course' /\ [Next]_vars => Promise!Next
  <2> SUFFICES ASSUME IInv, IInv', Course, Course', [Next]_vars,
                      NEW p \in SideEffecting, ~Excused(p)'
               PROVE  Promise!Promised(p)
    BY DEF Promise!Next
  <2>1. Keeps(p) /\ ~Excused(p)
    BY NextKeeps
  <2> QED
    BY <2>1
    DEF Keeps, RecordStays, WorldStays, Promise!Promised, Promise!Mark, Promise!Request,
        Promise!Decide, Promise!Withdraw, Promise!Clear, Promise!Settle, Promise!RecordKept,
        Promise!DestinationKept, Promise!Decisions
<1> QED
  BY <1>1, <1>2, CourseHolds, PTL DEF Spec, KeepsPromise, Promise!Spec

-----------------------------------------------------------------------------
(* What is left behind by an Execute that returns without an error. *)

\* CleanReturn, of one operation.
LeftOnPurpose(o) ==
    Op(o).reconcileRequired =>
        \/ Key(o) \in reconciled \cup deferred
        \/ journal.status = "CANCELLED" /\ Op(o).leaseActive

\* ReturnPending returns only when every operation that remains was put to its provider.
LEMMA PendingIsClean ==
    ASSUME ReturnPending PROVE \A o \in Operation : LeftOnPurpose(o)'
<1>1. /\ Candidates = {} /\ UNCHANGED <<journal, reconciled, deferred>>
      /\ journal.status = "CANCELLED" \/ \A o \in Operation : ~Op(o).leaseActive
  BY DEF ReturnPending, NothingToRun, Return
<1>2. ASSUME NEW o \in Operation, Op(o).reconcileRequired, ~Op(o).leaseActive
      PROVE  Key(o) \in reconciled \cup deferred
  BY <1>1, <1>2 DEF Candidates, ReconcileCandidates
<1> QED
  BY <1>1, <1>2 DEF LeftOnPurpose, Key, Op

\* While no invocation runs, only an authorization changes the journal, and it leaves less
\* to reconcile.
LEMMA AuthorizationIsClean ==
    ASSUME TypeOK, Course, NEW o \in Operation, AuthorizeRetry(o),
           \A p \in Operation : LeftOnPurpose(p)
    PROVE  \A p \in Operation : LeftOnPurpose(p)'
<1>1. /\ journal \in JournalState /\ UNCHANGED <<reconciled, deferred>>
      /\ journal' = RetryAuthorized(journal, o, Op(o).attempt)
  BY DEF AuthorizeRetry, TypeOK
<1>2. ~Op(o)'.reconcileRequired /\ Rest(journal, journal', o)
  BY <1>1, AuthorizeEvent DEF Op
<1>3. ASSUME NEW p \in Operation \ {o}, Op(p)'.reconcileRequired PROVE Op(p)' = Op(p)
  <2>1. ~MadeReady(journal, journal', p)
    BY <1>3 DEF MadeReady, Course, RecordSound, CountSound, Op
  <2> QED
    BY <1>2, <2>1 DEF Rest, Stays, Op
<1> QED
  BY <1>1, <1>2, <1>3 DEF LeftOnPurpose, Key, Rest

CleanExit ==
    exit = "ok" /\ journal.status # "COMPLETED" /\ proc = "down" =>
        \A o \in Operation : LeftOnPurpose(o)

LEMMA CleanExitKept ==
    ASSUME TypeOK, Course, CleanExit, [Next]_vars PROVE CleanExit'
<1> SUFFICES ASSUME exit' = "ok", journal'.status # "COMPLETED", proc' = "down"
             PROVE  \A o \in Operation : LeftOnPurpose(o)'
  BY DEF CleanExit
<1>1. CASE Loop
  <2>1. \/ ReturnUnreadable \/ ReturnCompleted \/ CancelRun \/ ReturnPending
        \/ BeginPass \/ CompleteRun \/ FormBatch \/ RunBatch \/ JoinBatch
    BY <1>1 DEF Loop
  <2>2. ~ReturnUnreadable /\ ~CancelRun /\ ~ReturnCompleted
    BY DEF ReturnUnreadable, CancelRun, ReturnCompleted, Return
  <2>3. ~BeginPass /\ ~FormBatch /\ ~RunBatch
    BY DEF BeginPass, FormBatch, RunBatch, NextPass
  <2>4. ~CompleteRun /\ ~JoinBatch
    BY DEF CompleteRun, NothingToRun, AtTop, JoinBatch, Return
  <2> QED
    BY <2>1, <2>2, <2>3, <2>4, PendingIsClean
<1>2. ASSUME NEW o \in Operation PROVE ~LoopFor(o)
  BY DEF LoopFor, ExpireJournalLease, JournalReadyOperation, RecoverUndispatched, CancelBlocked,
         PassStep, AcquireLease, BackoffInterrupted, AcquireInterrupted, PrepareTask,
         NextCandidate, Return
<1>3. ASSUME NEW o \in Operation PROVE ~RunTask(o)
  <2> SUFFICES ASSUME RunTask(o) PROVE proc = "run" /\ proc' = proc
    OBVIOUS
  <2>1. CASE \E f \in Failures :
               PrepareFails(o, f) \/ StartFails(o, f) \/ AbortBeforeDispatch(o, f)
               \/ CallFails(o, f) \/ PersistError(o, f)
    BY <2>1 DEF PrepareFails, StartFails, AbortBeforeDispatch, CallFails, PersistError,
                Goroutine, SettleFailure, Settle
  <2>2. CASE \/ PrepareSucceeds(o) \/ StartProvider(o) \/ Dispatch(o) \/ ReleaseRequest(o)
             \/ \E reply \in Replies : Respond(o, reply)
             \/ RenewLease(o) \/ ReleaseLease(o)
    BY <2>2 DEF PrepareSucceeds, StartProvider, Dispatch, ReleaseRequest, Respond, RenewLease,
                ReleaseLease, Goroutine, Internal
  <2>3. CASE \/ \E absent \in BOOLEAN : PersistResult(o, absent)
             \/ PersistInvalid(o) \/ ResultNotJournaled(o)
    BY <2>3 DEF PersistResult, PersistInvalid, ResultNotJournaled, Goroutine, Settle
  <2> QED
    BY <2>1, <2>2, <2>3 DEF RunTask
<1>4. CASE Surroundings
  <2>1. (\A m \in {"apply", "reconcile"} : ~Start(m)) /\ ~Crash
    BY DEF Start, Crash, Return
  <2>2. ~Signal
    BY DEF Signal
  <2>3. ASSUME NEW o \in Operation,
               \/ LeaseDeadline(o)
               \/ \E decision \in {"published", "rejected"} : DestinationActs(o, decision)
        PROVE  \A p \in Operation : LeftOnPurpose(p)'
    BY <2>3 DEF LeaseDeadline, DestinationActs, CleanExit, LeftOnPurpose, Key, Op
  <2>4. ASSUME NEW o \in Operation, AuthorizeRetry(o)
        PROVE  \A p \in Operation : LeftOnPurpose(p)'
    <3>1. exit = "ok" /\ proc = "down" /\ journal.status = journal'.status
      BY <2>4, AuthorizeEvent DEF AuthorizeRetry, Rest, TypeOK
    <3> QED
      BY <2>4, <3>1, AuthorizationIsClean DEF CleanExit
  <2> QED
    BY <1>4, <2>1, <2>2, <2>3, <2>4 DEF Surroundings
<1>5. CASE UNCHANGED vars
  BY <1>5 DEF vars, CleanExit, LeftOnPurpose, Key, Op
<1> QED
  BY <1>1, <1>2, <1>3, <1>4, <1>5 DEF Next, Execute

\* An Execute that returns without an error forgot no side effect: each was put to its
\* provider, or left for later on purpose.
THEOREM ReturnsClean == Spec => []CleanReturn
<1>1. Init => CleanExit
  BY DEF Init, CleanExit
<1>2. IInv /\ Course /\ CleanExit /\ [Next]_vars => CleanExit'
  BY CleanExitKept DEF IInv
<1>3. CleanExit => CleanReturn
  BY DEF CleanExit, CleanReturn, LeftOnPurpose
<1> QED
  BY <1>1, <1>2, <1>3, CourseHolds, PTL DEF Spec

-----------------------------------------------------------------------------
(* Every event the executor appends is accepted when the journal is read   *)
(* again, but for a second RECONCILE_STARTED.                              *)
(*                                                                         *)
(* Whether the reducer accepts an event depends on marks of the record     *)
(* that nothing else depends on: lease, provider started and responded,    *)
(* reconciling, readiness announced.  Replay says, as long as no event was *)
(* refused, that these are as the position of the loop and the phase of    *)
(* the goroutine want them; after a refusal the journal is lost and        *)
(* nothing more is asked of it.                                            *)

-----------------------------------------------------------------------------
(* The invariant. *)

\* Only what is to be reconciled is being reconciled.
ReconcilingIsOwed(o) == Op(o).reconciling => Op(o).reconcileRequired

\* A goroutine holds a lease, and the marks of its record are those of its phase.
TaskMarked(o) ==
    /\ task[o].phase # "idle" => Op(o).leaseActive
    /\ task[o].kind = "reconcile" /\ task[o].phase \in Busy => Op(o).reconciling
    /\ task[o].phase \in {"prepared", "credentialed"} => ~Op(o).providerStarted
    /\ task[o].phase \in {"started", "dispatched", "requested"} =>
          Op(o).providerStarted /\ ~Op(o).providerResponded

\* What a pass or a batch has still to visit can take the event it is visited for.
VisitDue(o) ==
    o \in todo =>
        /\ proc = "expire" => o \in due /\ Op(o).leaseActive
        /\ proc = "announce" => Op(o).state = "READY" /\ ~Op(o).readyJournaled
        /\ proc = "batch" =>
              /\ task[o].phase \in {"idle", "leased"}
              /\ task[o].phase = "idle" => ~Op(o).leaseActive
              /\ ~Op(o).reconcileRequired /\ Op(o).state = "FAILED" => Op(o).retryable

\* Events are appended to a run that goes on.
RunOpen ==
    /\ proc \notin {"down", "loop"} => journal.status # "COMPLETED"
    /\ proc \in {"announce", "recover", "doom"} => journal.status = "STARTED"

Appending ==
    /\ journal.refused = "NONE"
    /\ RunOpen
    /\ \A o \in Operation : ReconcilingIsOwed(o) /\ TaskMarked(o) /\ VisitDue(o)

Replay == journal.refused = "RECONCILE_STARTED" \/ Appending

-----------------------------------------------------------------------------
(* Accepted events. *)

\* p has nothing to do with the event; at most it became ready.
Untouched(j, k, p) ==
    \/ k.ops[p] = j.ops[p]
    \/ j.ops[p].state = "PLANNED" /\ k.ops[p] = [j.ops[p] EXCEPT !.state = "READY"]

\* The event gives o the record op, and is not refused.
Gives(j, k, o, op) ==
    /\ k.refused = j.refused
    /\ k.status = j.status
    /\ k.ops[o] = op
    /\ \A p \in Operation \ {o} : Untouched(j, k, p)

LEMMA SetGives ==
    ASSUME NEW j \in JournalState, NEW o \in Operation, NEW op,
           NEW type, NEW accepts, AcceptedByRun(j, type), accepts
    PROVE  Gives(j, AppendEvent(j, type, accepts, SetOperation(j, o, op)), o, op)
<1>1. AppendEvent(j, type, accepts, SetOperation(j, o, op)) = SetOperation(j, o, op)
  BY DEF AppendEvent
<1>2. Gives(j, SetOperation(j, o, op), o, op)
  BY DEF Gives, SetOperation, JournalState, Untouched
<1> QED
  BY <1>1, <1>2

LEMMA SettleGives ==
    ASSUME NEW j \in JournalState, NEW o \in Operation, NEW op, op.state # "PLANNED",
           NEW type, NEW accepts, AcceptedByRun(j, type), accepts
    PROVE  Gives(j, AppendEvent(j, type, accepts, SettleOperation(j, o, op)), o, op)
<1> DEFINE ops == [j.ops EXCEPT ![o] = op]
           k   == SettleOperation(j, o, op)
<1>1. AppendEvent(j, type, accepts, k) = k
  BY DEF AppendEvent
<1>2. ops[o] = op /\ \A p \in Operation \ {o} : ops[p] = j.ops[p]
  BY DEF JournalState
<1>3. k.ops = RefreshReady(ops) /\ k.status = j.status /\ k.refused = j.refused
  BY DEF SettleOperation, JournalState
<1> HIDE DEF ops, k
<1>4. k.ops[o] = op
  BY <1>2, <1>3 DEF RefreshReady
<1>5. \A p \in Operation \ {o} : Untouched(j, k, p)
  <2> TAKE p \in Operation \ {o}
  <2>1. \/ k.ops[p] = ops[p]
        \/ ops[p].state = "PLANNED" /\ k.ops[p] = [ops[p] EXCEPT !.state = "READY"]
    BY <1>3 DEF RefreshReady
  <2> QED
    BY <1>2, <2>1 DEF Untouched
<1>6. Gives(j, k, o, op)
  BY <1>3, <1>4, <1>5 DEF Gives
<1> QED
  BY <1>1, <1>6 DEF k

\* The run takes every event but the first while it is started, and some once cancelled.
LEMMA StartedAccepts ==
    ASSUME NEW j, j.status = "STARTED", NEW type, type # "RUN_STARTED"
    PROVE  AcceptedByRun(j, type)
BY DEF AcceptedByRun

LEMMA OpenAccepts ==
    ASSUME NEW j, j.status \in {"STARTED", "CANCELLED"},
           NEW type \in AllowedAfterRunCancellation
    PROVE  AcceptedByRun(j, type)
BY DEF AcceptedByRun, AllowedAfterRunCancellation

\* The other operations stay as the invariant wants them.
LEMMA OtherStays ==
    ASSUME TypeOK, NEW p \in Operation, Untouched(journal, journal', p),
           ReconcilingIsOwed(p), TaskMarked(p), task'[p] = task[p]
    PROVE  ReconcilingIsOwed(p)' /\ TaskMarked(p)'
<1>1. CASE journal'.ops[p] = journal.ops[p]
  BY <1>1 DEF ReconcilingIsOwed, TaskMarked, Op
<1>2. CASE journal'.ops[p] = [journal.ops[p] EXCEPT !.state = "READY"]
  <2>1. journal.ops[p] \in OperationState
    BY DEF TypeOK, JournalState
  <2> QED
    BY <1>2, <2>1 DEF ReconcilingIsOwed, TaskMarked, Op, OperationState
<1> QED
  BY <1>1, <1>2 DEF Untouched

LEMMA OtherVisit ==
    ASSUME TypeOK, NEW p \in Operation, Untouched(journal, journal', p), VisitDue(p),
           task'[p] = task[p], p \in todo' => p \in todo, proc' = proc,
           p \in due => p \in due'
    PROVE  VisitDue(p)'
<1>1. CASE journal'.ops[p] = journal.ops[p]
  BY <1>1 DEF VisitDue, Op
<1>2. CASE journal.ops[p].state = "PLANNED" /\ journal'.ops[p] = [journal.ops[p] EXCEPT !.state = "READY"]
  <2>1. journal.ops[p] \in OperationState
    BY DEF TypeOK, JournalState
  <2> QED
    BY <1>2, <2>1 DEF VisitDue, Op, OperationState
<1> QED
  BY <1>1, <1>2 DEF Untouched

-----------------------------------------------------------------------------
(* Goroutines. *)

LEMMA GoroutineReplays ==
    ASSUME TypeOK, Appending, NEW o \in Operation, NEW op, proc = "run", proc' = "run",
           Gives(journal, journal', o, op),
           \A p \in Operation \ {o} : task'[p] = task[p],
           ReconcilingIsOwed(o)', TaskMarked(o)'
    PROVE  Appending'
<1>1. journal'.refused = "NONE" /\ RunOpen'
  BY DEF Appending, RunOpen, Gives
<1>2. \A p \in Operation \ {o} : ReconcilingIsOwed(p)' /\ TaskMarked(p)'
  BY OtherStays DEF Appending, Gives
<1>3. \A p \in Operation : VisitDue(p)'
  BY DEF VisitDue
<1> QED
  BY <1>1, <1>2, <1>3 DEF Appending

\* In a run that goes on, what o's goroutine appends is accepted unless its own state is
\* against it.
LEMMA GoroutineAccepted ==
    ASSUME TypeOK, Course, Appending, NEW o \in Operation, proc = "run"
    PROVE  /\ journal \in JournalState /\ journal.ops[o] \in OperationState
           /\ \A type \in AllowedAfterRunCancellation : AcceptedByRun(journal, type)
           /\ task[o].kind = "apply" /\ task[o].phase # "idle" =>
                 \A type : type # "RUN_STARTED" => AcceptedByRun(journal, type)
<1>1. journal \in JournalState /\ journal.ops[o] \in OperationState
  BY DEF TypeOK, JournalState
<1>2. journal.status \in {"STARTED", "CANCELLED"}
  BY <1>1 DEF Appending, RunOpen, Course, RunIsOn, JournalState
<1>3. \A type \in AllowedAfterRunCancellation : AcceptedByRun(journal, type)
  BY <1>2, OpenAccepts
<1>4. task[o].kind = "apply" /\ task[o].phase # "idle" =>
          \A type : type # "RUN_STARTED" => AcceptedByRun(journal, type)
  BY StartedAccepts DEF Course, TaskSound
<1> QED
  BY <1>1, <1>3, <1>4

LEMMA PrepareSucceedsReplays ==
    ASSUME IInv, Course, Appending, NEW o \in Operation, PrepareSucceeds(o) PROVE Appending'
<1>1. /\ proc = "run" /\ proc' = "run" /\ task[o].phase = "prepared" /\ TypeOK
      /\ Enter(o, "credentialed")
      /\ journal' = CredentialResolved(journal, o, Op(o).attempt)
  BY DEF PrepareSucceeds, Goroutine, Internal, IInv
<1>2. /\ task'[o].phase = "credentialed" /\ task'[o].kind = task[o].kind
      /\ \A p \in Operation \ {o} : task'[p] = task[p]
  BY <1>1 DEF Enter, TypeOK, Tasks
<1>3. journal' = journal
  <2>1. AcceptedByRun(journal, "CREDENTIAL_RESOLVED")
    BY <1>1, GoroutineAccepted DEF AllowedAfterRunCancellation
  <2>2. Op(o).reconciling \/ (Op(o).state = "RUNNING" /\ ~Op(o).dispatched)
    <3>1. task[o].kind \in {"apply", "reconcile"}
      BY <1>1 DEF IInv, Safety, OperationSafe, KindKnown, TypeOK, Tasks
    <3> QED
      BY <1>1, <3>1 DEF IInv, Safety, OperationSafe, BeforeDispatch, Appending, TaskMarked, Busy
  <2> QED
    BY <1>1, <2>1, <2>2 DEF CredentialResolved, AppendEvent, Op
<1>4. Gives(journal, journal', o, journal.ops[o])
  BY <1>3 DEF Gives, Untouched
<1>5. ReconcilingIsOwed(o)' /\ TaskMarked(o)'
  BY <1>1, <1>2, <1>3 DEF Appending, ReconcilingIsOwed, TaskMarked, Op, Busy
<1> QED
  BY <1>1, <1>2, <1>4, <1>5, GoroutineReplays

LEMMA StartProviderReplays ==
    ASSUME IInv, Course, Appending, NEW o \in Operation, StartProvider(o) PROVE Appending'
<1> DEFINE op == [journal.ops[o] EXCEPT !.providerStarted = TRUE, !.providerResponded = FALSE]
<1>1. /\ proc = "run" /\ proc' = "run" /\ task[o].phase = "credentialed" /\ TypeOK
      /\ Enter(o, "started")
      /\ journal' = ProviderProcessStarted(journal, o, Op(o).attempt)
  BY DEF StartProvider, Goroutine, Internal, IInv
<1>2. /\ task'[o].phase = "started" /\ task'[o].kind = task[o].kind
      /\ \A p \in Operation \ {o} : task'[p] = task[p]
  BY <1>1 DEF Enter, TypeOK, Tasks
<1>3. AcceptedByRun(journal, "PROVIDER_PROCESS_STARTED") /\ journal \in JournalState
  BY <1>1, GoroutineAccepted DEF AllowedAfterRunCancellation
<1>4. /\ Op(o).state = "RUNNING" \/ Op(o).reconciling
      /\ ~Op(o).providerStarted
  <2>1. task[o].kind \in {"apply", "reconcile"}
    BY <1>1 DEF IInv, Safety, OperationSafe, KindKnown, TypeOK, Tasks
  <2> QED
    BY <1>1, <2>1 DEF IInv, Safety, OperationSafe, BeforeDispatch, Appending, TaskMarked, Busy
<1>5. Gives(journal, journal', o, op)
  BY <1>1, <1>3, <1>4, SetGives DEF ProviderProcessStarted, Op
<1>6. ReconcilingIsOwed(o)' /\ TaskMarked(o)'
  <2>1. Op(o)' = op /\ Op(o) \in OperationState
    BY <1>1, <1>5 DEF Gives, Op, TypeOK, JournalState
  <2> QED
    BY <1>1, <1>2, <2>1 DEF Appending, ReconcilingIsOwed, TaskMarked, Op, Busy, OperationState
<1> QED
  BY <1>1, <1>2, <1>5, <1>6, GoroutineReplays

LEMMA DispatchReplays ==
    ASSUME IInv, Course, Appending, NEW o \in Operation, Dispatch(o) PROVE Appending'
<1> DEFINE op == [journal.ops[o] EXCEPT !.dispatched = TRUE, !.reconcileRequired = TRUE,
                                        !.ambiguous = TRUE]
<1>1. /\ proc = "run" /\ proc' = "run" /\ task[o].phase = "started" /\ task[o].kind = "apply"
      /\ o \in SideEffecting /\ TypeOK /\ Enter(o, "dispatched")
      /\ journal' = SideEffectDispatched(journal, o, Op(o).attempt)
  BY DEF Dispatch, Goroutine, Publishing, Internal, IInv
<1>2. /\ task'[o].phase = "dispatched" /\ task'[o].kind = task[o].kind
      /\ \A p \in Operation \ {o} : task'[p] = task[p]
  BY <1>1 DEF Enter, TypeOK, Tasks
<1>3. AcceptedByRun(journal, "SIDE_EFFECT_DISPATCHED") /\ journal \in JournalState
  BY <1>1, GoroutineAccepted
<1>4. Op(o).state = "RUNNING" /\ ~Op(o).dispatched
  BY <1>1 DEF IInv, Safety, OperationSafe, BeforeDispatch
<1>5. Gives(journal, journal', o, op)
  BY <1>1, <1>3, <1>4, SetGives DEF SideEffectDispatched, Op
<1>6. ReconcilingIsOwed(o)' /\ TaskMarked(o)'
  <2>1. Op(o)' = op /\ Op(o) \in OperationState
    BY <1>1, <1>5 DEF Gives, Op, TypeOK, JournalState
  <2> QED
    BY <1>1, <1>2, <2>1 DEF Appending, ReconcilingIsOwed, TaskMarked, Op, Busy, OperationState
<1> QED
  BY <1>1, <1>2, <1>5, <1>6, GoroutineReplays

LEMMA ReleaseRequestReplays ==
    ASSUME IInv, Course, Appending, NEW o \in Operation, ReleaseRequest(o) PROVE Appending'
<1>1. /\ proc = "run" /\ proc' = "run" /\ task[o].phase \in {"dispatched", "started"} /\ TypeOK
      /\ Enter(o, "requested") /\ journal' = journal
  BY DEF ReleaseRequest, Goroutine, IInv
<1>2. /\ task'[o].phase = "requested" /\ task'[o].kind = task[o].kind
      /\ \A p \in Operation \ {o} : task'[p] = task[p]
  BY <1>1 DEF Enter, TypeOK, Tasks
<1>3. Gives(journal, journal', o, journal.ops[o])
  BY <1>1 DEF Gives, Untouched
<1>4. ReconcilingIsOwed(o)' /\ TaskMarked(o)'
  BY <1>1, <1>2 DEF Appending, ReconcilingIsOwed, TaskMarked, Op, Busy
<1> QED
  BY <1>1, <1>2, <1>3, <1>4, GoroutineReplays

LEMMA RespondReplays ==
    ASSUME IInv, Course, Appending, NEW o \in Operation, NEW reply \in Replies,
           Respond(o, reply)
    PROVE  Appending'
<1> DEFINE op == [journal.ops[o] EXCEPT !.providerResponded = TRUE]
<1>1. /\ proc = "run" /\ proc' = "run" /\ task[o].phase = "requested" /\ TypeOK
      /\ journal' = ProviderResponseReceived(journal, o, Op(o).attempt)
  BY DEF Respond, Goroutine, IInv
<1>2. /\ task'[o].phase = "responded" /\ task'[o].kind = task[o].kind
      /\ \A p \in Operation \ {o} : task'[p] = task[p]
  BY <1>1 DEF Respond, TypeOK, Tasks
<1>3. AcceptedByRun(journal, "PROVIDER_RESPONSE_RECEIVED") /\ journal \in JournalState
  BY <1>1, GoroutineAccepted DEF AllowedAfterRunCancellation
<1>4. Op(o).providerStarted /\ ~Op(o).providerResponded
  BY <1>1 DEF Appending, TaskMarked
<1>5. Gives(journal, journal', o, op)
  BY <1>1, <1>3, <1>4, SetGives DEF ProviderResponseReceived, Op
<1>6. ReconcilingIsOwed(o)' /\ TaskMarked(o)'
  <2>1. Op(o)' = op /\ Op(o) \in OperationState
    BY <1>1, <1>5 DEF Gives, Op, TypeOK, JournalState
  <2> QED
    BY <1>1, <1>2, <2>1 DEF Appending, ReconcilingIsOwed, TaskMarked, Op, Busy, OperationState
<1> QED
  BY <1>1, <1>2, <1>5, <1>6, GoroutineReplays

LEMMA RenewLeaseReplays ==
    ASSUME IInv, Course, Appending, NEW o \in Operation, RenewLease(o) PROVE Appending'
<1>1. /\ proc = "run" /\ proc' = "run" /\ task[o].phase # "idle" /\ TypeOK /\ task' = task
      /\ journal' = LeaseRenewed(journal, o)
  BY DEF RenewLease, Internal, IInv
<1>2. AcceptedByRun(journal, "LEASE_RENEWED") /\ Op(o).leaseActive
  BY <1>1, GoroutineAccepted DEF AllowedAfterRunCancellation, Appending, TaskMarked
<1>3. journal' = journal
  BY <1>1, <1>2 DEF LeaseRenewed, AppendEvent, Op
<1>4. Gives(journal, journal', o, journal.ops[o])
  BY <1>3 DEF Gives, Untouched
<1>5. ReconcilingIsOwed(o)' /\ TaskMarked(o)'
  BY <1>1, <1>3 DEF Appending, ReconcilingIsOwed, TaskMarked, Op
<1> QED
  BY <1>1, <1>4, <1>5, GoroutineReplays

LEMMA ReleaseLeaseReplays ==
    ASSUME IInv, Course, Appending, NEW o \in Operation, ReleaseLease(o) PROVE Appending'
<1> DEFINE op == [journal.ops[o] EXCEPT !.leaseActive = FALSE]
<1>1. /\ proc = "run" /\ proc' = "run" /\ task[o].phase = "settled" /\ TypeOK
      /\ journal' = IF o \in due THEN LeaseExpired(journal, o, TRUE) ELSE LeaseReleased(journal, o)
  BY DEF ReleaseLease, Goroutine, IInv
<1>2. /\ task'[o].phase = "idle" /\ task'[o].kind = "none"
      /\ \A p \in Operation \ {o} : task'[p] = task[p]
  BY DEF ReleaseLease, NoTask, IInv, TypeOK
<1>3. /\ AcceptedByRun(journal, "LEASE_EXPIRED") /\ AcceptedByRun(journal, "LEASE_RELEASED")
      /\ journal \in JournalState
  BY <1>1, GoroutineAccepted DEF AllowedAfterRunCancellation
<1>4. Op(o).leaseActive
  BY <1>1 DEF Appending, TaskMarked
<1>5. Gives(journal, journal', o, op)
  BY <1>1, <1>3, <1>4, SetGives DEF LeaseExpired, LeaseReleased, Op
<1>6. ReconcilingIsOwed(o)' /\ TaskMarked(o)'
  <2>1. Op(o)' = op /\ Op(o) \in OperationState
    BY <1>1, <1>5 DEF Gives, Op, TypeOK, JournalState
  <2> QED
    BY <1>2, <2>1 DEF Appending, ReconcilingIsOwed, TaskMarked, Op, Busy, OperationState
<1> QED
  BY <1>1, <1>2, <1>5, <1>6, GoroutineReplays

(* A goroutine that journals its outcome. *)

\* The outcome is accepted, keeps the lease, and ends the reconciliation or leaves it owed.
Settles(j, k, o) ==
    /\ Gives(j, k, o, k.ops[o])
    /\ j.ops[o].leaseActive => k.ops[o].leaseActive
    /\ k.ops[o].reconciling => k.ops[o].reconcileRequired

LEMMA SettledReplays ==
    ASSUME TypeOK, Appending, NEW o \in Operation, proc = "run", task[o].phase \in Busy,
           NEW after, NEW defer, Settle(o, after, defer), Settles(journal, after, o)
    PROVE  Appending'
<1>1. proc' = "run" /\ journal' = after /\ Enter(o, "settled")
  BY DEF Settle
<1>2. task'[o].phase = "settled" /\ \A p \in Operation \ {o} : task'[p] = task[p]
  BY <1>1 DEF Enter, TypeOK, Tasks
<1>3. Gives(journal, journal', o, journal'.ops[o])
  BY <1>1 DEF Settles
<1>4. ReconcilingIsOwed(o)' /\ TaskMarked(o)'
  BY <1>1, <1>2 DEF Settles, Appending, ReconcilingIsOwed, TaskMarked, Op, Busy
<1> QED
  BY <1>1, <1>2, <1>3, <1>4, GoroutineReplays

Over(op, next, state) ==
    /\ next.state = state
    /\ ~next.reconciling
    /\ op.leaseActive => next.leaseActive

LEMMA ResultMarks ==
    ASSUME NEW op \in OperationState, NEW state, NEW retryable, NEW preserve
    PROVE  Over(op, ApplyResult(op, state, retryable, preserve), state)
BY DEF ApplyResult, OperationState, Over

LEMMA ReconcileMarks ==
    ASSUME NEW op \in OperationState, NEW state, NEW retryable, NEW absent
    PROVE  Over(op, [ApplyResult(op, state, retryable, TRUE) EXCEPT !.observedAbsent = absent], state)
BY DEF ApplyResult, OperationState, Over

LEMMA OutcomeAmbiguousSettles ==
    ASSUME NEW j \in JournalState, NEW o \in SideEffecting, o \in Operation,
           AcceptedByRun(j, "OUTCOME_AMBIGUOUS"), j.ops[o].dispatched, j.ops[o].state = "RUNNING"
    PROVE  Settles(j, OutcomeAmbiguous(j, o, j.ops[o].attempt), o)
<1> DEFINE op == [j.ops[o] EXCEPT !.reconcileRequired = TRUE, !.ambiguous = TRUE,
                                  !.retryable = FALSE]
           k  == OutcomeAmbiguous(j, o, j.ops[o].attempt)
<1>1. Gives(j, k, o, op)
  BY SetGives DEF OutcomeAmbiguous
<1>2. op.reconcileRequired /\ (j.ops[o].leaseActive => op.leaseActive)
  BY DEF JournalState, OperationState
<1> HIDE DEF op, k
<1>3. Settles(j, k, o)
  BY <1>1, <1>2 DEF Settles, Gives
<1> QED
  BY <1>3 DEF k

LEMMA OutcomeSettles ==
    ASSUME NEW j \in JournalState, NEW o \in Operation, NEW state \in Outcomes, NEW retryable,
           AcceptedByRun(j, "OPERATION_OUTCOME"),
           j.ops[o].reconciling => j.ops[o].reconcileRequired, j.ops[o].state = "RUNNING",
           o \in SideEffecting /\ ~j.ops[o].dispatched => state = "FAILED"
    PROVE  Settles(j, OperationOutcome(j, o, j.ops[o].attempt, state, retryable), o)
<1> DEFINE op == ApplyResult(j.ops[o], state, retryable, j.ops[o].reconciling)
           k  == OperationOutcome(j, o, j.ops[o].attempt, state, retryable)
<1>1. Over(j.ops[o], op, state)
  BY ResultMarks DEF JournalState
<1>2. state # "PLANNED"
  BY DEF Outcomes, Decided
<1>3. Gives(j, k, o, op)
  BY <1>1, <1>2, SettleGives DEF OperationOutcome, Over
<1> HIDE DEF op, k
<1>4. Settles(j, k, o)
  BY <1>1, <1>3 DEF Settles, Gives, Over
<1> QED
  BY <1>4 DEF k

LEMMA ResultSettles ==
    ASSUME NEW j \in JournalState, NEW o \in Operation, NEW state \in {"BLOCKED", "CANCELLED"},
           AcceptedByRun(j, "OPERATION_RESULT"), j.ops[o].state = "RUNNING",
           state = "BLOCKED" =>
               ~j.ops[o].providerStarted /\ ~j.ops[o].dispatched /\ ~j.ops[o].reconcileRequired
    PROVE  Settles(j, OperationResult(j, o, j.ops[o].attempt, state), o)
<1> DEFINE blocked == [j.ops[o] EXCEPT !.blockedAttempts = @ + 1]
           counted == IF state = "BLOCKED" THEN blocked ELSE j.ops[o]
           op      == ApplyResult(counted, state, FALSE, FALSE)
           k       == OperationResult(j, o, j.ops[o].attempt, state)
<1>1. j.ops[o] \in OperationState
  BY DEF JournalState
<1>2. counted \in OperationState /\ (j.ops[o].leaseActive => counted.leaseActive)
  BY <1>1 DEF OperationState
<1> HIDE DEF counted
<1>3. Over(counted, op, state)
  BY <1>2, ResultMarks
<1>4. Gives(j, k, o, op)
  <2> DEFINE accepts ==
          /\ j.ops[o].state = "RUNNING"
          /\ j.ops[o].attempt = j.ops[o].attempt
          /\ state = "BLOCKED" => /\ ~j.ops[o].providerStarted
                                  /\ ~j.ops[o].dispatched
                                  /\ ~j.ops[o].reconcileRequired
          /\ o \in SideEffecting /\ ~j.ops[o].dispatched
               => state \in {"BLOCKED", "FAILED", "CANCELLED"}
  <2>1. accepts
    OBVIOUS
  <2>2. k = AppendEvent(j, "OPERATION_RESULT", accepts, SettleOperation(j, o, op))
    BY DEF OperationResult, counted
  <2> HIDE DEF accepts, k, op
  <2> QED
    BY <1>3, <2>1, <2>2, SettleGives DEF Over
<1> HIDE DEF op, k
<1>5. Settles(j, k, o)
  BY <1>2, <1>3, <1>4 DEF Settles, Gives, Over
<1> QED
  BY <1>5 DEF k

LEMMA ReconcileResultSettles ==
    ASSUME NEW j \in JournalState, NEW o \in Operation, NEW state \in ProviderResults,
           NEW retryable, NEW absent, AcceptedByRun(j, "RECONCILE_RESULT"),
           j.ops[o].reconcileRequired, j.ops[o].reconciling
    PROVE  Settles(j, ReconcileResult(j, o, j.ops[o].attempt, state, retryable, absent), o)
<1> DEFINE op == [ApplyResult(j.ops[o], state, retryable, TRUE)
                      EXCEPT !.observedAbsent = absent /\ state = "WAITING_EXTERNAL"]
           k  == ReconcileResult(j, o, j.ops[o].attempt, state, retryable, absent)
<1>1. Over(j.ops[o], op, state)
  <2> DEFINE seen == absent /\ state = "WAITING_EXTERNAL"
  <2> HIDE DEF seen
  <2>1. Over(j.ops[o], [ApplyResult(j.ops[o], state, retryable, TRUE)
                            EXCEPT !.observedAbsent = seen], state)
    BY ReconcileMarks DEF JournalState
  <2> QED
    BY <2>1 DEF seen
<1>2. state # "PLANNED"
  BY DEF ProviderResults
<1>3. Gives(j, k, o, op)
  BY <1>1, <1>2, SettleGives DEF ReconcileResult, Over
<1> HIDE DEF op, k
<1>4. Settles(j, k, o)
  BY <1>1, <1>3 DEF Settles, Gives, Over
<1> QED
  BY <1>4 DEF k

\* A call blocked by a missing credential never reached its provider.
LEMMA BlockedIsEarly ==
    ASSUME TypeOK, NEW o \in Operation,
           \/ PrepareFails(o, "BLOCKED") \/ StartFails(o, "BLOCKED")
           \/ AbortBeforeDispatch(o, "BLOCKED") \/ CallFails(o, "BLOCKED")
           \/ PersistError(o, "BLOCKED")
    PROVE  task[o].phase = "prepared"
<1>1. \A f : "BLOCKED" \in Reported(o, f) => f = "BLOCKED"
  BY DEF Reported
<1>2. task[o].reply # "BLOCKED"
  BY DEF TypeOK, Tasks, Replies, ProviderResults
<1> QED
  BY <1>1, <1>2 DEF PrepareFails, StartFails, AbortBeforeDispatch, CallFails, PersistError, Goroutine

LEMMA ReconcileFailureSettles ==
    ASSUME IInv, Course, Appending, NEW o \in Operation, NEW f, proc = "run",
           task[o].kind = "reconcile", task[o].phase \in Busy
    PROVE  Settles(journal, ReconcileFailure(o, f), o)
<1>1. AcceptedByRun(journal, "RECONCILE_RESULT") /\ journal \in JournalState
  BY GoroutineAccepted DEF AllowedAfterRunCancellation, IInv
<1>2. journal.ops[o].reconcileRequired /\ journal.ops[o].reconciling
  BY DEF Course, TaskSound, Appending, TaskMarked, Op
<1>3. "WAITING_EXTERNAL" \in ProviderResults
  BY DEF ProviderResults
<1> DEFINE retryable == IsRetryable(f) \/ Op(o).ambiguous
<1> HIDE DEF retryable
<1>4. Settles(journal, ReconcileResult(journal, o, journal.ops[o].attempt, "WAITING_EXTERNAL",
                                       retryable, FALSE), o)
  BY <1>1, <1>2, <1>3, ReconcileResultSettles
<1> QED
  BY <1>4 DEF ReconcileFailure, retryable, Op

LEMMA ApplyFailureSettles ==
    ASSUME IInv, Course, Appending, NEW o \in Operation, NEW f, proc = "run",
           task[o].kind = "apply", task[o].phase \in Busy,
           f = "BLOCKED" => task[o].phase = "prepared"
    PROVE  Settles(journal, ApplyFailure(o, f), o)
<1> DEFINE decision == Decision(Op(o).dispatched, o \in SideEffecting, f)
<1>1. /\ \A type : type # "RUN_STARTED" => AcceptedByRun(journal, type)
      /\ journal \in JournalState /\ journal.ops[o] \in OperationState
  BY GoroutineAccepted DEF IInv, Busy
<1>2. journal.ops[o].state = "RUNNING"
  BY DEF Course, TaskSound, Op
<1>3. journal.ops[o].reconciling => journal.ops[o].reconcileRequired
  BY DEF Appending, ReconcilingIsOwed, Op
<1>4. CASE decision = "reconcile"
  <2>1. o \in SideEffecting /\ journal.ops[o].dispatched
    BY <1>4 DEF Decision, Op
  <2>2. ApplyFailure(o, f) = OutcomeAmbiguous(journal, o, journal.ops[o].attempt)
    BY <1>4 DEF ApplyFailure, Op
  <2> QED
    BY <1>1, <1>2, <2>1, <2>2, OutcomeAmbiguousSettles
<1>5. CASE decision # "reconcile" /\ f = "CANCELLED"
  <2>1. ApplyFailure(o, f) = OperationResult(journal, o, journal.ops[o].attempt, "CANCELLED")
    BY <1>5 DEF ApplyFailure, Op
  <2> QED
    BY <1>1, <1>2, <2>1, ResultSettles
<1>6. CASE decision # "reconcile" /\ f = "BLOCKED"
  <2>1. ApplyFailure(o, f) = OperationResult(journal, o, journal.ops[o].attempt, "BLOCKED")
    BY <1>6 DEF ApplyFailure, Op
  <2>2. /\ ~journal.ops[o].providerStarted /\ ~journal.ops[o].dispatched
        /\ ~journal.ops[o].reconcileRequired
    BY <1>6 DEF IInv, Safety, OperationSafe, BeforeDispatch, Appending, TaskMarked, Op
  <2> QED
    BY <1>1, <1>2, <2>1, <2>2, ResultSettles
<1>7. CASE decision # "reconcile" /\ f \notin {"CANCELLED", "BLOCKED"}
  <2> DEFINE retryable == decision = "retry"
  <2>1. ApplyFailure(o, f)
          = OperationOutcome(journal, o, journal.ops[o].attempt, "FAILED", retryable)
    BY <1>7 DEF ApplyFailure, Op
  <2>2. "FAILED" \in Outcomes
    BY DEF Outcomes
  <2> HIDE DEF retryable
  <2> QED
    BY <1>1, <1>2, <1>3, <2>1, <2>2, OutcomeSettles
<1> QED
  BY <1>4, <1>5, <1>6, <1>7

LEMMA TaskFailureReplays ==
    ASSUME IInv, Course, Appending, NEW o \in Operation, NEW f \in Failures,
           \/ PrepareFails(o, f) \/ StartFails(o, f) \/ AbortBeforeDispatch(o, f)
           \/ CallFails(o, f) \/ PersistError(o, f)
    PROVE  Appending'
<1>1. proc = "run" /\ SettleFailure(o, f) /\ task[o].phase \in Busy /\ TypeOK
  BY DEF PrepareFails, StartFails, AbortBeforeDispatch, CallFails, PersistError, Goroutine, Busy,
         IInv
<1>2. f = "BLOCKED" => task[o].phase = "prepared"
  BY <1>1, BlockedIsEarly
<1>3. task[o].kind \in {"apply", "reconcile"}
  BY <1>1 DEF IInv, Safety, OperationSafe, KindKnown, TypeOK, Tasks, Busy
<1> DEFINE after == IF task[o].kind = "reconcile" THEN ReconcileFailure(o, f) ELSE ApplyFailure(o, f)
           defer == task[o].kind = "apply" /\ f = "BLOCKED"
<1>4. Settles(journal, after, o)
  BY <1>1, <1>2, <1>3, ReconcileFailureSettles, ApplyFailureSettles
<1>5. Settle(o, after, defer)
  BY <1>1 DEF SettleFailure
<1> HIDE DEF after, defer
<1> QED
  BY <1>1, <1>4, <1>5, SettledReplays

LEMMA PersistReplays ==
    ASSUME IInv, Course, Appending, NEW o \in Operation,
           \/ \E absent \in BOOLEAN : PersistResult(o, absent)
           \/ PersistInvalid(o) \/ ResultNotJournaled(o)
    PROVE  Appending'
<1>1. proc = "run" /\ task[o].phase = "responded" /\ TypeOK
  BY DEF PersistResult, PersistInvalid, ResultNotJournaled, Goroutine, IInv
<1>2. task[o].kind \in {"apply", "reconcile"} /\ task[o].phase \in Busy
  BY <1>1 DEF IInv, Safety, OperationSafe, KindKnown, TypeOK, Tasks, Busy
<1>3. PICK after, defer : Settle(o, after, defer) /\ Settles(journal, after, o)
  <2>1. /\ AcceptedByRun(journal, "RECONCILE_RESULT") /\ journal \in JournalState
        /\ journal.ops[o] \in OperationState
        /\ task[o].kind = "apply" =>
              /\ AcceptedByRun(journal, "OPERATION_OUTCOME")
              /\ AcceptedByRun(journal, "OUTCOME_AMBIGUOUS")
    BY <1>1, GoroutineAccepted DEF AllowedAfterRunCancellation
  <2>2. task[o].kind = "reconcile" =>
            journal.ops[o].reconcileRequired /\ journal.ops[o].reconciling
    BY <1>2 DEF Course, TaskSound, Appending, TaskMarked, Op
  <2>3. /\ task[o].kind = "apply" => journal.ops[o].state = "RUNNING"
        /\ Publishing(o) => journal.ops[o].dispatched
        /\ journal.ops[o].reconciling => journal.ops[o].reconcileRequired
    BY <1>1, <1>2 DEF Course, TaskSound, IInv, Safety, OperationSafe, AfterDispatch,
                      Appending, ReconcilingIsOwed, Op
  <2>4. ASSUME NEW absent \in BOOLEAN, PersistResult(o, absent)
        PROVE  \E after, defer : Settle(o, after, defer) /\ Settles(journal, after, o)
    <3>1. task[o].reply \in ProviderResults /\ task[o].reply \in Outcomes
      BY <2>4 DEF PersistResult, ProviderResults, Outcomes, Decided
    <3>2. CASE task[o].kind = "reconcile"
      <4> DEFINE after == ReconcileResult(journal, o, Op(o).attempt, task[o].reply, FALSE, absent)
      <4>1. Settle(o, after, FALSE)
        BY <2>4, <3>2 DEF PersistResult
      <4>2. Settles(journal, after, o)
        BY <2>1, <2>2, <3>1, <3>2, ReconcileResultSettles DEF Op
      <4> HIDE DEF after
      <4> QED
        BY <4>1, <4>2
    <3>3. CASE task[o].kind = "apply"
      <4> DEFINE after == OperationOutcome(journal, o, Op(o).attempt, task[o].reply, FALSE)
                 defer == task[o].reply = "WAITING_EXTERNAL"
      <4>1. Settle(o, after, defer)
        BY <2>4, <3>3 DEF PersistResult
      <4>2. Settles(journal, after, o)
        BY <2>1, <2>3, <3>1, <3>3, OutcomeSettles DEF Op, Publishing
      <4> HIDE DEF after, defer
      <4> QED
        BY <4>1, <4>2
    <3> QED
      BY <1>2, <3>2, <3>3
  <2>5. ASSUME PersistInvalid(o)
        PROVE  \E after, defer : Settle(o, after, defer) /\ Settles(journal, after, o)
    <3> DEFINE waiting   == ReconcileResult(journal, o, Op(o).attempt, "WAITING_EXTERNAL", FALSE, FALSE)
               ambiguous == OutcomeAmbiguous(journal, o, Op(o).attempt)
               failure   == OperationOutcome(journal, o, Op(o).attempt, "FAILED", FALSE)
               after     == IF task[o].kind = "reconcile" THEN waiting
                            ELSE IF Publishing(o) THEN ambiguous ELSE failure
    <3>1. Settle(o, after, FALSE)
      BY <2>5 DEF PersistInvalid
    <3>2. CASE task[o].kind = "reconcile"
      <4>1. "WAITING_EXTERNAL" \in ProviderResults
        BY DEF ProviderResults
      <4>2. Settles(journal, waiting, o)
        BY <2>1, <2>2, <3>2, <4>1, ReconcileResultSettles DEF Op
      <4> HIDE DEF waiting
      <4> QED
        BY <3>1, <3>2, <4>2
    <3>3. CASE Publishing(o)
      <4>1. Settles(journal, ambiguous, o)
        BY <2>1, <2>3, <3>3, OutcomeAmbiguousSettles DEF Op, Publishing
      <4> HIDE DEF ambiguous
      <4> QED
        BY <3>1, <3>3, <4>1 DEF Publishing
    <3>4. CASE task[o].kind = "apply" /\ ~Publishing(o)
      <4>1. "FAILED" \in Outcomes
        BY DEF Outcomes
      <4>2. Settles(journal, failure, o)
        BY <2>1, <2>3, <3>4, <4>1, OutcomeSettles DEF Op
      <4> HIDE DEF failure
      <4> QED
        BY <3>1, <3>4, <4>2
    <3> QED
      BY <1>2, <3>2, <3>3, <3>4
  <2>6. ASSUME ResultNotJournaled(o)
        PROVE  \E after, defer : Settle(o, after, defer) /\ Settles(journal, after, o)
    <3>1. Settle(o, journal, FALSE)
      BY <2>6 DEF ResultNotJournaled
    <3>2. Settles(journal, journal, o)
      BY <2>3 DEF Settles, Gives, Untouched
    <3> QED
      BY <3>1, <3>2
  <2> QED
    BY <2>4, <2>5, <2>6
<1> QED
  BY <1>1, <1>2, <1>3, SettledReplays

LEMMA RunTaskReplays ==
    ASSUME IInv, Course, Appending, NEW o \in Operation, RunTask(o) PROVE Appending'
BY PrepareSucceedsReplays, StartProviderReplays, DispatchReplays, ReleaseRequestReplays,
   RespondReplays, TaskFailureReplays, PersistReplays, RenewLeaseReplays, ReleaseLeaseReplays
DEF RunTask

-----------------------------------------------------------------------------
(* The loop. *)

\* Goroutines and journal stand still.
LEMMA StandingReplays ==
    ASSUME Appending, UNCHANGED <<journal, task>>, RunOpen', \A o \in Operation : VisitDue(o)'
    PROVE  Appending'
BY DEF Appending, ReconcilingIsOwed, TaskMarked, Op

\* Execute is left, or entered.
LEMMA IdleReplays ==
    ASSUME journal'.refused = "NONE", proc' \in {"down", "loop"},
           \A o \in Operation : task'[o].phase = "idle" /\ ReconcilingIsOwed(o)'
    PROVE  Appending'
BY DEF Appending, RunOpen, VisitDue, TaskMarked, Busy

LEMMA ReturnReplays ==
    ASSUME Appending, NEW result, Return(result), journal' = journal PROVE Appending'
<1>1. proc' = "down" /\ \A o \in Operation : task'[o].phase = "idle"
  BY DEF Return, NoTask
<1>2. journal'.refused = "NONE" /\ \A o \in Operation : ReconcilingIsOwed(o)'
  BY DEF Appending, ReconcilingIsOwed, Op
<1> QED
  BY <1>1, <1>2, IdleReplays

LEMMA CancelRunReplays ==
    ASSUME IInv, Appending, CancelRun PROVE Appending'
<1>1. journal \in JournalState /\ journal.status = "STARTED" /\ journal.refused = "NONE"
  BY DEF CancelRun, IInv, TypeOK
<1>2. journal' = [journal EXCEPT !.status = "CANCELLED", !.ops = CancelRemaining(journal.ops)]
  BY <1>1 DEF CancelRun, RunCancelled, AppendEvent, AcceptedByRun
<1>3. journal'.refused = "NONE" /\ journal'.ops = CancelRemaining(journal.ops)
  BY <1>1, <1>2 DEF JournalState
<1>4. ASSUME NEW o \in Operation PROVE ReconcilingIsOwed(o)'
  <2>1. Op(o) \in OperationState /\ ReconcilingIsOwed(o)
    BY <1>1 DEF JournalState, Op, Appending
  <2>2. Op(o)' = Op(o) \/ Op(o)' = Cancelled(Op(o))
    BY <1>3 DEF CancelRemaining, Op
  <2> QED
    BY <2>1, <2>2 DEF Cancelled, OperationState, ReconcilingIsOwed
<1>5. proc' = "down" /\ \A o \in Operation : task'[o].phase = "idle"
  BY DEF CancelRun, Return, NoTask
<1> QED
  BY <1>3, <1>4, <1>5, IdleReplays

\* A pass is begun with operations that can take its event.
LEMMA BeginPassReplays ==
    ASSUME IInv, Course, Appending, BeginPass PROVE Appending'
<1>1. /\ UNCHANGED <<journal, task, due>> /\ proc' = NextPass /\ NextPass # "none"
      /\ proc = "loop" /\ todo' = PassWork(NextPass) /\ journal.status # "COMPLETED"
  BY DEF BeginPass, AtTop
<1>2. journal.status \in {"STARTED", "CANCELLED"}
  BY <1>1 DEF Course, RunIsOn, IInv, TypeOK, JournalState
<1>3. NextPass = "expire" \/ journal.status = "STARTED"
  BY <1>1, <1>2 DEF NextPass
<1>4. RunOpen'
  BY <1>1, <1>2, <1>3 DEF RunOpen
<1>5. NextPass \in Passes
  BY <1>1 DEF NextPass, Passes
<1>6. ASSUME NEW o \in Operation PROVE VisitDue(o)'
  BY <1>1, <1>5 DEF VisitDue, PassWork, Passes, Op
<1> QED
  BY <1>1, <1>4, <1>6, StandingReplays

\* A batch is formed of operations that are not leased and may be attempted.
LEMMA FormBatchReplays ==
    ASSUME IInv, Course, Appending, FormBatch PROVE Appending'
<1>1. /\ UNCHANGED <<journal, task>> /\ proc = "loop" /\ proc' = "batch"
      /\ journal.status # "COMPLETED" /\ todo' \subseteq Candidates
  BY DEF FormBatch, AtTop, Batches
<1>2. RunOpen'
  BY <1>1 DEF RunOpen
<1>3. ASSUME NEW o \in Operation, o \in todo' PROVE VisitDue(o)'
  <2>1. task[o].phase = "idle"
    BY <1>1 DEF IInv, Safety, Quiet
  <2>2. ~Op(o).leaseActive
    BY <1>1, <1>3 DEF Candidates, ReconcileCandidates, ApplyCandidates
  <2>3. ~Op(o).reconcileRequired /\ Op(o).state = "FAILED" => Op(o).retryable
    BY <1>1, <1>3 DEF Candidates, ReconcileCandidates, ApplyCandidates, Exhausted
  <2> QED
    BY <1>1, <2>1, <2>2, <2>3 DEF VisitDue, Op
<1>4. \A o \in Operation : VisitDue(o)'
  BY <1>3 DEF VisitDue
<1> QED
  BY <1>1, <1>2, <1>4, StandingReplays

LEMMA CompleteRunReplays ==
    ASSUME IInv, Course, Appending, CompleteRun PROVE Appending'
<1>1. /\ journal \in JournalState /\ UNCHANGED task /\ proc = "loop" /\ proc' = "loop"
      /\ journal.status # "COMPLETED" /\ journal.status # "CANCELLED"
      /\ journal' = RunCompleted(journal) /\ ExecutorQuiescent
  BY DEF CompleteRun, NothingToRun, AtTop, IInv, TypeOK
<1>2. AcceptedByRun(journal, "RUN_COMPLETED")
  BY <1>1, StartedAccepts DEF Course, RunIsOn, JournalState
<1>3. AllQuiescent(journal.ops)
  BY <1>1 DEF ExecutorQuiescent, AllQuiescent, Exhausted, Op
<1>4. journal' = [journal EXCEPT !.status = "COMPLETED"]
  BY <1>1, <1>2, <1>3 DEF RunCompleted, AppendEvent
<1>5. journal'.refused = "NONE" /\ journal'.ops = journal.ops
  BY <1>1, <1>4 DEF JournalState, Appending
<1>6. \A o \in Operation : task'[o].phase = "idle" /\ ReconcilingIsOwed(o)'
  BY <1>1, <1>5 DEF IInv, Safety, Quiet, Appending, ReconcilingIsOwed, Op
<1> QED
  BY <1>1, <1>5, <1>6, IdleReplays

LEMMA LoopReplays ==
    ASSUME IInv, Course, Appending, Loop PROVE Appending'
<1>1. CASE ReturnUnreadable \/ ReturnCompleted \/ ReturnPending \/ (JoinBatch /\ failed)
  <2>1. journal' = journal /\ \E result : Return(result)
    BY <1>1 DEF ReturnUnreadable, ReturnCompleted, ReturnPending, JoinBatch
  <2> QED
    BY <2>1, ReturnReplays
<1>2. CASE RunBatch \/ (JoinBatch /\ ~failed)
  <2>1. /\ UNCHANGED <<journal, task>> /\ proc' \in {"run", "loop"} /\ proc \in {"batch", "run"}
    BY <1>2 DEF RunBatch, JoinBatch
  <2>2. RunOpen' /\ \A o \in Operation : VisitDue(o)'
    BY <2>1 DEF RunOpen, VisitDue, Appending
  <2> QED
    BY <2>1, <2>2, StandingReplays
<1> QED
  BY <1>1, <1>2, CancelRunReplays, BeginPassReplays, FormBatchReplays, CompleteRunReplays DEF Loop

(* The passes. *)

LEMMA PassReplays ==
    ASSUME IInv, Appending, NEW pass \in Passes, NEW o \in Operation, PassStep(pass, o),
           NEW op, Gives(journal, journal', o, op), ReconcilingIsOwed(o)',
           \A p \in Operation \ {o} : p \in due => p \in due'
    PROVE  Appending'
<1>1. /\ proc = pass /\ proc' \in {"loop", pass} /\ todo' = todo \ {o} /\ UNCHANGED task
      /\ TypeOK
  BY DEF PassStep, IInv
<1>2. journal'.refused = "NONE" /\ RunOpen'
  BY <1>1 DEF Appending, RunOpen, Gives, Passes
<1>3. \A p \in Operation : ReconcilingIsOwed(p)'
  BY <1>1, OtherStays DEF Appending, Gives
<1>4. \A p \in Operation : TaskMarked(p)'
  BY <1>1 DEF IInv, Safety, Quiet, TaskMarked, Busy, Passes
<1>5. ASSUME NEW p \in Operation PROVE VisitDue(p)'
  <2>1. CASE p = o \/ proc' = "loop"
    BY <1>1, <2>1 DEF VisitDue
  <2>2. CASE p # o /\ proc' = proc
    BY <1>1, <2>2, OtherVisit DEF Appending, Gives
  <2> QED
    BY <1>1, <2>1, <2>2
<1> QED
  BY <1>2, <1>3, <1>4, <1>5 DEF Appending

LEMMA PassesReplay ==
    ASSUME IInv, Course, Appending, NEW o \in Operation,
           \/ ExpireJournalLease(o) \/ JournalReadyOperation(o)
           \/ RecoverUndispatched(o) \/ CancelBlocked(o)
    PROVE  Appending'
<1>1. /\ journal \in JournalState /\ journal.ops[o] \in OperationState
      /\ ReconcilingIsOwed(o) /\ VisitDue(o)
  BY DEF IInv, TypeOK, JournalState, Appending
<1>2. CASE ExpireJournalLease(o)
  <2> DEFINE op == [journal.ops[o] EXCEPT !.leaseActive = FALSE]
  <2>1. /\ PassStep("expire", o) /\ proc = "expire" /\ o \in todo /\ due' = due \ {o}
        /\ journal' = LeaseExpired(journal, o, o \in due)
    BY <1>2 DEF ExpireJournalLease, PassStep
  <2>2. o \in due /\ journal.ops[o].leaseActive
    BY <1>1, <2>1 DEF VisitDue, Op
  <2>3. AcceptedByRun(journal, "LEASE_EXPIRED")
    BY <1>1, <2>1, OpenAccepts
    DEF Appending, RunOpen, Course, RunIsOn, JournalState, AllowedAfterRunCancellation
  <2>4. Gives(journal, journal', o, op)
    BY <1>1, <2>1, <2>2, <2>3, SetGives DEF LeaseExpired
  <2>5. ReconcilingIsOwed(o)'
    BY <1>1, <2>4 DEF Gives, ReconcilingIsOwed, Op, OperationState
  <2>6. "expire" \in Passes
    BY DEF Passes
  <2> HIDE DEF op
  <2> QED
    BY <2>1, <2>4, <2>5, <2>6, PassReplays
<1>3. CASE JournalReadyOperation(o)
  <2> DEFINE op == [journal.ops[o] EXCEPT !.readyJournaled = TRUE]
  <2>1. /\ PassStep("announce", o) /\ proc = "announce" /\ o \in todo /\ due' = due
        /\ journal' = OperationReady(journal, o)
    BY <1>3 DEF JournalReadyOperation, PassStep
  <2>2. journal.ops[o].state = "READY" /\ ~journal.ops[o].readyJournaled
    BY <1>1, <2>1 DEF VisitDue, Op
  <2>3. AcceptedByRun(journal, "OPERATION_READY")
    BY <2>1, StartedAccepts DEF Appending, RunOpen
  <2>4. Gives(journal, journal', o, op)
    BY <1>1, <2>1, <2>2, <2>3, SetGives DEF OperationReady
  <2>5. ReconcilingIsOwed(o)'
    BY <1>1, <2>4 DEF Gives, ReconcilingIsOwed, Op, OperationState
  <2>6. "announce" \in Passes
    BY DEF Passes
  <2> HIDE DEF op
  <2> QED
    BY <2>1, <2>4, <2>5, <2>6, PassReplays
<1>4. CASE RecoverUndispatched(o)
  <2>1. /\ PassStep("recover", o) /\ proc = "recover" /\ o \in todo /\ due' = due
        /\ journal' = OperationOutcome(journal, o, journal.ops[o].attempt, "FAILED", TRUE)
    BY <1>4 DEF RecoverUndispatched, PassStep, Op
  <2>2. journal.ops[o].state = "RUNNING"
    BY <2>1 DEF IInv, Safety, WorkIsCurrent, Op
  <2>3. AcceptedByRun(journal, "OPERATION_OUTCOME")
    BY <2>1, StartedAccepts DEF Appending, RunOpen
  <2>4. "FAILED" \in Outcomes
    BY DEF Outcomes
  <2>5. Settles(journal, journal', o)
    BY <1>1, <2>1, <2>2, <2>3, <2>4, OutcomeSettles DEF ReconcilingIsOwed, Op
  <2>6. Gives(journal, journal', o, journal'.ops[o]) /\ ReconcilingIsOwed(o)'
    BY <2>5 DEF Settles, ReconcilingIsOwed, Op
  <2>7. "recover" \in Passes
    BY DEF Passes
  <2> QED
    BY <2>1, <2>6, <2>7, PassReplays
<1>5. CASE CancelBlocked(o)
  <2> DEFINE op == Cancelled(journal.ops[o])
  <2>1. /\ PassStep("doom", o) /\ proc = "doom" /\ o \in todo /\ due' = due
        /\ journal' = OperationCancelled(journal, o)
    BY <1>5 DEF CancelBlocked, PassStep
  <2>2. journal.ops[o].state \in {"PLANNED", "READY"}
    BY <2>1 DEF IInv, Safety, WorkIsCurrent, Op
  <2>3. AcceptedByRun(journal, "OPERATION_CANCELLED")
    BY <2>1, StartedAccepts DEF Appending, RunOpen
  <2>4. /\ op.state = "CANCELLED"
        /\ op.reconciling => op.reconcileRequired
    BY <1>1 DEF Cancelled, OperationState, ReconcilingIsOwed, Op
  <2> HIDE DEF op
  <2>5. Gives(journal, journal', o, op)
    <3>1. journal' = AppendEvent(journal, "OPERATION_CANCELLED",
                                 journal.ops[o].state \in {"PLANNED", "READY"},
                                 SettleOperation(journal, o, op))
      BY <2>1 DEF OperationCancelled, op
    <3> QED
      BY <1>1, <2>2, <2>3, <2>4, <3>1, SettleGives
  <2>6. ReconcilingIsOwed(o)'
    BY <2>4, <2>5 DEF Gives, ReconcilingIsOwed, Op
  <2>7. "doom" \in Passes
    BY DEF Passes
  <2> QED
    BY <2>1, <2>5, <2>6, <2>7, PassReplays
<1> QED
  BY <1>2, <1>3, <1>4, <1>5

(* The batch. *)

\* A step of the batch for o, whose event is accepted.
LEMMA BatchReplays ==
    ASSUME IInv, Appending, NEW o \in Operation, NEW op, proc = "batch", proc' = "batch",
           Gives(journal, journal', o, op), todo' \subseteq todo,
           \A p \in Operation \ {o} : task'[p] = task[p] /\ (p \in due => p \in due'),
           ReconcilingIsOwed(o)', TaskMarked(o)', VisitDue(o)'
    PROVE  Appending'
<1>1. journal'.refused = "NONE" /\ RunOpen'
  BY DEF Appending, RunOpen, Gives
<1>2. \A p \in Operation \ {o} : ReconcilingIsOwed(p)' /\ TaskMarked(p)'
  BY OtherStays DEF Appending, Gives, IInv
<1>3. \A p \in Operation \ {o} : VisitDue(p)'
  BY OtherVisit DEF Appending, Gives, IInv
<1> QED
  BY <1>1, <1>2, <1>3 DEF Appending

LEMMA BatchStatus ==
    ASSUME IInv, Course, Appending, proc = "batch"
    PROVE  journal \in JournalState /\ journal.status \in {"STARTED", "CANCELLED"}
BY DEF IInv, TypeOK, Appending, RunOpen, Course, RunIsOn, JournalState

LEMMA AcquireLeaseReplays ==
    ASSUME IInv, Course, Appending, NEW o \in Operation, AcquireLease(o) PROVE Appending'
<1> DEFINE op == [journal.ops[o] EXCEPT !.leaseActive = TRUE]
<1>1. /\ proc = "batch" /\ proc' = "batch" /\ o \in todo /\ todo' = todo
      /\ task[o].phase # "leased" /\ due' = due \ {o}
      /\ journal' = LeaseAcquired(journal, o)
  BY DEF AcquireLease, NextCandidate
<1>2. task'[o].phase = "leased" /\ \A p \in Operation \ {o} : task'[p] = task[p]
  BY DEF AcquireLease, IInv, TypeOK
<1>3. journal \in JournalState /\ AcceptedByRun(journal, "LEASE_ACQUIRED")
  BY <1>1, BatchStatus, OpenAccepts DEF AllowedAfterRunCancellation
<1>4. VisitDue(o) /\ ReconcilingIsOwed(o)
  BY DEF Appending
<1>5. ~journal.ops[o].leaseActive
  BY <1>1, <1>4 DEF VisitDue, Op
<1>6. Retriable(journal.ops[o]) \/ journal.ops[o].reconcileRequired
  BY <1>1, <1>4 DEF VisitDue, Retriable, IInv, Safety, WorkIsCurrent, Op
<1>7. Gives(journal, journal', o, op)
  BY <1>1, <1>3, <1>5, <1>6, SetGives DEF LeaseAcquired
<1>8. ReconcilingIsOwed(o)' /\ TaskMarked(o)' /\ VisitDue(o)'
  <2>1. Op(o)' = op /\ Op(o) = journal.ops[o] /\ journal.ops[o] \in OperationState
    BY <1>3, <1>7 DEF Gives, Op, JournalState
  <2>2. /\ op.leaseActive /\ (op.reconciling => op.reconcileRequired)
        /\ ~op.reconcileRequired /\ op.state = "FAILED" => op.retryable
    BY <1>1, <1>4, <2>1 DEF OperationState, VisitDue, ReconcilingIsOwed
  <2> HIDE DEF op
  <2> QED
    BY <1>1, <1>2, <2>1, <2>2 DEF ReconcilingIsOwed, TaskMarked, VisitDue, Busy
<1> HIDE DEF op
<1> QED
  BY <1>1, <1>2, <1>7, <1>8, BatchReplays

LEMMA PrepareTaskReplays ==
    ASSUME IInv, Course, Appending, NEW o \in Operation, PrepareTask(o)
    PROVE  Appending' \/ journal'.refused = "RECONCILE_STARTED"
<1>1. /\ proc = "batch" /\ proc' = "batch" /\ task[o].phase = "leased" /\ todo' = todo \ {o}
      /\ due' = due /\ o \in todo
      /\ journal' = IF task[o].kind = "apply"
                    THEN AttemptStarted(journal, o, Op(o).attempt + 1)
                    ELSE ReconcileStarted(journal, o, Op(o).attempt)
  BY DEF PrepareTask, IInv, Safety, OperationSafe, LeasedIsNext
<1>2. /\ task'[o].phase = "prepared" /\ task'[o].kind = task[o].kind
      /\ \A p \in Operation \ {o} : task'[p] = task[p]
  BY DEF PrepareTask, IInv, TypeOK, Tasks
<1>3. /\ journal \in JournalState /\ journal.ops[o] \in OperationState
      /\ AcceptedByRun(journal, "RECONCILE_STARTED")
  <2>1. journal \in JournalState /\ AcceptedByRun(journal, "RECONCILE_STARTED")
    BY <1>1, BatchStatus, OpenAccepts DEF AllowedAfterRunCancellation
  <2> QED
    BY <2>1 DEF JournalState
<1>4. journal.ops[o].leaseActive /\ VisitDue(o)
  BY <1>1 DEF Appending, TaskMarked, Op
<1>5. VisitDue(o)'
  BY <1>1 DEF VisitDue
<1>6. CASE task[o].kind = "apply"
  <2> DEFINE op == [journal.ops[o] EXCEPT !.state = "RUNNING",
                                          !.attempt = Op(o).attempt + 1,
                                          !.dispatched = FALSE,
                                          !.reconciling = FALSE,
                                          !.providerStarted = FALSE,
                                          !.providerResponded = FALSE,
                                          !.reconcileRequired = FALSE,
                                          !.ambiguous = FALSE,
                                          !.retryable = FALSE,
                                          !.observedAbsent = FALSE]
  <2>1. AcceptedByRun(journal, "ATTEMPT_STARTED")
    BY <1>1, <1>6, StartedAccepts DEF Course, TaskSound
  <2>2. /\ ~journal.ops[o].reconcileRequired
        /\ journal.ops[o].state \in {"READY", "BLOCKED", "FAILED"}
    BY <1>1, <1>6 DEF IInv, Safety, OperationSafe, LeasedIsNext, WorkIsCurrent, Op
  <2>3. Retriable(journal.ops[o]) /\ DependenciesPublished(journal.ops, o)
    BY <1>1, <1>4, <2>2 DEF VisitDue, Retriable, Course, RecordSound, InOrder, Op
  <2>4. Gives(journal, journal', o, op)
    <3>1. journal' = AttemptStarted(journal, o, Op(o).attempt + 1)
      BY <1>1, <1>6
    <3> QED
      BY <1>3, <2>1, <2>2, <2>3, <3>1, SetGives DEF AttemptStarted, Op
  <2>5. op.leaseActive /\ ~op.reconciling /\ ~op.providerStarted
    BY <1>3, <1>4 DEF OperationState
  <2> HIDE DEF op
  <2>6. ReconcilingIsOwed(o)' /\ TaskMarked(o)'
    BY <1>2, <1>6, <2>4, <2>5 DEF Gives, ReconcilingIsOwed, TaskMarked, Op
  <2> QED
    BY <1>1, <1>2, <1>5, <2>4, <2>6, BatchReplays
<1>7. CASE task[o].kind # "apply" /\ ~journal.ops[o].reconciling
  <2> DEFINE op == [journal.ops[o] EXCEPT !.reconciling = TRUE,
                                          !.providerStarted = FALSE,
                                          !.providerResponded = FALSE]
  <2>1. task[o].kind = "reconcile"
    BY <1>1, <1>7 DEF IInv, Safety, OperationSafe, KindKnown, TypeOK, Tasks
  <2>2. journal.ops[o].reconcileRequired
    BY <1>1, <2>1 DEF Course, TaskSound, Op
  <2>3. Gives(journal, journal', o, op)
    <3>1. journal' = ReconcileStarted(journal, o, Op(o).attempt)
      BY <1>1, <1>7
    <3> QED
      BY <1>3, <1>7, <2>2, <3>1, SetGives DEF ReconcileStarted, Op
  <2>4. op.leaseActive /\ op.reconciling /\ op.reconcileRequired /\ ~op.providerStarted
    BY <1>3, <1>4, <2>2 DEF OperationState
  <2> HIDE DEF op
  <2>5. ReconcilingIsOwed(o)' /\ TaskMarked(o)'
    BY <1>2, <2>3, <2>4 DEF Gives, ReconcilingIsOwed, TaskMarked, Op
  <2> QED
    BY <1>1, <1>2, <1>5, <2>3, <2>5, BatchReplays
<1>8. CASE task[o].kind # "apply" /\ journal.ops[o].reconciling
  <2> DEFINE next == SetOperation(journal, o,
                         [journal.ops[o] EXCEPT !.reconciling = TRUE,
                                                !.providerStarted = FALSE,
                                                !.providerResponded = FALSE])
  <2>1. journal' = [next EXCEPT !.refused = "RECONCILE_STARTED"]
    BY <1>1, <1>8 DEF ReconcileStarted, AppendEvent, Appending
  <2> QED
    BY <1>3, <2>1 DEF SetOperation, JournalState
<1> QED
  BY <1>6, <1>7, <1>8

LEMMA LoopForReplays ==
    ASSUME IInv, Course, Appending, NEW o \in Operation, LoopFor(o)
    PROVE  Appending' \/ journal'.refused = "RECONCILE_STARTED"
<1>1. CASE BackoffInterrupted(o)
  <2>1. UNCHANGED <<journal, task, proc>> /\ todo' = {}
    BY <1>1 DEF BackoffInterrupted
  <2>2. RunOpen' /\ \A p \in Operation : VisitDue(p)'
    BY <2>1 DEF Appending, RunOpen, VisitDue
  <2> QED
    BY <2>1, <2>2, StandingReplays
<1>2. CASE AcquireInterrupted(o)
  BY <1>2, ReturnReplays DEF AcquireInterrupted
<1> QED
  BY <1>1, <1>2, PassesReplay, AcquireLeaseReplays, PrepareTaskReplays DEF LoopFor

-----------------------------------------------------------------------------
(* The surroundings. *)

LEMMA StartReplays ==
    ASSUME IInv, Appending, NEW m, Start(m) PROVE Appending'
<1>1. /\ proc' = "loop" /\ \A o \in Operation : task'[o].phase = "idle"
      /\ journal \in JournalState
  BY DEF Start, IInv, Safety, Quiet, TypeOK
<1>2. journal'.refused = "NONE" /\ \A o \in Operation : ReconcilingIsOwed(o)'
  <2>1. CASE journal.status = "EMPTY"
    <3>1. journal' = [journal EXCEPT !.status = "STARTED", !.ops = RefreshReady(journal.ops)]
      BY <2>1 DEF Start, RunStarted, AppendEvent, AcceptedByRun
    <3>2. journal'.refused = journal.refused /\ journal'.ops = RefreshReady(journal.ops)
      BY <1>1, <3>1 DEF JournalState
    <3>3. ASSUME NEW o \in Operation PROVE ReconcilingIsOwed(o)'
      <4>1. Op(o)' = Op(o) \/ Op(o)' = [Op(o) EXCEPT !.state = "READY"]
        BY <3>2 DEF RefreshReady, Op
      <4>2. Op(o) \in OperationState /\ ReconcilingIsOwed(o)
        BY <1>1 DEF JournalState, Op, Appending
      <4> QED
        BY <4>1, <4>2 DEF ReconcilingIsOwed, OperationState
    <3> QED
      BY <3>2, <3>3 DEF Appending
  <2>2. CASE journal.status # "EMPTY"
    BY <2>2 DEF Start, Appending, ReconcilingIsOwed, Op
  <2> QED
    BY <2>1, <2>2
<1> QED
  BY <1>1, <1>2, IdleReplays

LEMMA AuthorizeRetryReplays ==
    ASSUME IInv, Appending, NEW o \in Operation, AuthorizeRetry(o) PROVE Appending'
<1> DEFINE op == [journal.ops[o] EXCEPT !.observedAbsent = FALSE, !.state = "READY",
                      !.retryable = FALSE, !.reconcileRequired = FALSE, !.ambiguous = FALSE]
<1>1. /\ proc' = "down" /\ (\A p \in Operation : task'[p].phase = "idle")
      /\ journal \in JournalState /\ journal.ops[o] \in OperationState
      /\ journal' = RetryAuthorized(journal, o, journal.ops[o].attempt)
      /\ journal.refused = "NONE" /\ journal'.refused = "NONE"
  BY DEF AuthorizeRetry, IInv, Safety, Quiet, TypeOK, JournalState, Op
<1>2. /\ AcceptedByRun(journal, "RETRY_AUTHORIZED") /\ RetryAuthorizable(journal.ops[o], o)
  BY <1>1 DEF RetryAuthorized, AppendEvent, SetOperation, JournalState
<1>3. Gives(journal, journal', o, op)
  BY <1>1, <1>2, SetGives DEF RetryAuthorized
<1>4. op.reconciling => op.reconcileRequired
  BY <1>1, <1>2 DEF RetryAuthorizable, OperationState
<1> HIDE DEF op
<1>5. ASSUME NEW p \in Operation PROVE ReconcilingIsOwed(p)'
  <2>1. CASE p = o
    BY <1>3, <1>4, <2>1 DEF Gives, ReconcilingIsOwed, Op
  <2>2. CASE p # o
    <3>1. task'[p] = task[p] /\ ReconcilingIsOwed(p) /\ TaskMarked(p) /\ TypeOK
      BY DEF AuthorizeRetry, Appending, IInv
    <3> QED
      BY <1>3, <2>2, <3>1, OtherStays DEF Gives
  <2> QED
    BY <2>1, <2>2
<1> QED
  BY <1>1, <1>5, IdleReplays

LEMMA SurroundingsReplay ==
    ASSUME IInv, Appending, Surroundings PROVE Appending'
<1>1. CASE Crash
  BY <1>1, ReturnReplays DEF Crash
<1>2. CASE Signal \/ \E o \in Operation : LeaseDeadline(o)
                  \/ \E decision \in {"published", "rejected"} : DestinationActs(o, decision)
  <2>1. UNCHANGED <<journal, task, proc, todo>> /\ due \subseteq due'
    BY <1>2 DEF Signal, LeaseDeadline, DestinationActs
  <2>2. RunOpen' /\ \A o \in Operation : VisitDue(o)'
    BY <2>1 DEF Appending, RunOpen, VisitDue, Op
  <2> QED
    BY <2>1, <2>2, StandingReplays
<1> QED
  BY <1>1, <1>2, StartReplays, AuthorizeRetryReplays DEF Surroundings

-----------------------------------------------------------------------------
(* After a refusal. *)

\* Whatever is appended to a journal with a refused event, the first refusal stays.
LEMMA SetKeepsRefusal ==
    ASSUME NEW j \in JournalState, NEW o, NEW op
    PROVE  /\ SetOperation(j, o, op).refused = j.refused
           /\ SettleOperation(j, o, op).refused = j.refused
BY DEF SetOperation, SettleOperation, JournalState

LEMMA AmbiguousKeepsRefusal ==
    ASSUME NEW j \in JournalState, j.refused # "NONE", NEW o, NEW attempt
    PROVE  OutcomeAmbiguous(j, o, attempt).refused = j.refused
BY SetKeepsRefusal DEF OutcomeAmbiguous, AppendEvent

LEMMA OutcomeKeepsRefusal ==
    ASSUME NEW j \in JournalState, j.refused # "NONE", NEW o, NEW attempt, NEW state,
           NEW retryable
    PROVE  OperationOutcome(j, o, attempt, state, retryable).refused = j.refused
BY SetKeepsRefusal DEF OperationOutcome, AppendEvent

LEMMA ResultKeepsRefusal ==
    ASSUME NEW j \in JournalState, j.refused # "NONE", NEW o, NEW attempt, NEW state
    PROVE  OperationResult(j, o, attempt, state).refused = j.refused
BY SetKeepsRefusal DEF OperationResult, AppendEvent

LEMMA TaskKeepsRefusal ==
    ASSUME TypeOK, journal.refused # "NONE", NEW o \in Operation, RunTask(o)
    PROVE  journal'.refused = journal.refused
<1>1. journal \in JournalState
  BY DEF TypeOK
<1>2. CASE \E f \in Failures :
             PrepareFails(o, f) \/ StartFails(o, f) \/ AbortBeforeDispatch(o, f)
             \/ CallFails(o, f) \/ PersistError(o, f)
  <2>1. PICK f \in Failures : SettleFailure(o, f)
    BY <1>2 DEF PrepareFails, StartFails, AbortBeforeDispatch, CallFails, PersistError
  <2>2. journal' = ReconcileFailure(o, f) \/ journal' = ApplyFailure(o, f)
    BY <2>1 DEF SettleFailure, Settle
  <2>3. ReconcileFailure(o, f).refused = journal.refused
    BY <1>1, SetKeepsRefusal DEF ReconcileFailure, ReconcileResult, AppendEvent
  <2>4. ApplyFailure(o, f).refused = journal.refused
    BY <1>1, AmbiguousKeepsRefusal, OutcomeKeepsRefusal, ResultKeepsRefusal DEF ApplyFailure
  <2> QED
    BY <2>2, <2>3, <2>4
<1>3. CASE \/ \E absent \in BOOLEAN : PersistResult(o, absent)
           \/ PersistInvalid(o) \/ ResultNotJournaled(o)
  <2>1. CASE \E absent \in BOOLEAN : PersistResult(o, absent)
    <3>1. PICK absent \in BOOLEAN : PersistResult(o, absent)
      BY <2>1
    <3>2. CASE task[o].kind = "reconcile"
      <4> DEFINE after == ReconcileResult(journal, o, Op(o).attempt, task[o].reply, FALSE, absent)
      <4>1. journal' = after
        BY <3>1, <3>2 DEF PersistResult, Settle
      <4>2. after.refused = journal.refused
        BY <1>1, SetKeepsRefusal DEF ReconcileResult, AppendEvent
      <4> HIDE DEF after
      <4> QED
        BY <4>1, <4>2
    <3>3. CASE task[o].kind # "reconcile"
      <4> DEFINE after == OperationOutcome(journal, o, Op(o).attempt, task[o].reply, FALSE)
      <4>1. journal' = after
        BY <3>1, <3>3 DEF PersistResult, Settle
      <4>2. after.refused = journal.refused
        BY <1>1, SetKeepsRefusal DEF OperationOutcome, AppendEvent
      <4> HIDE DEF after
      <4> QED
        BY <4>1, <4>2
    <3> QED
      BY <3>2, <3>3
  <2>2. CASE PersistInvalid(o)
    <3>1. CASE task[o].kind = "reconcile"
      BY <1>1, <2>2, <3>1, SetKeepsRefusal
      DEF PersistInvalid, Settle, ReconcileResult, AppendEvent
    <3>2. CASE task[o].kind # "reconcile"
      <4> DEFINE marked == OutcomeAmbiguous(journal, o, Op(o).attempt)
                 failure == OperationOutcome(journal, o, Op(o).attempt, "FAILED", FALSE)
      <4>1. journal' \in {marked, failure}
        BY <2>2, <3>2 DEF PersistInvalid, Settle
      <4>2. marked.refused = journal.refused
        BY <1>1, SetKeepsRefusal DEF OutcomeAmbiguous, AppendEvent
      <4>3. failure.refused = journal.refused
        BY <1>1, SetKeepsRefusal DEF OperationOutcome, AppendEvent
      <4> HIDE DEF marked, failure
      <4> QED
        BY <4>1, <4>2, <4>3
    <3> QED
      BY <3>1, <3>2
  <2>3. CASE ResultNotJournaled(o)
    BY <2>3 DEF ResultNotJournaled, Settle
  <2> QED
    BY <1>3, <2>1, <2>2, <2>3
<1>4. CASE \/ PrepareSucceeds(o) \/ StartProvider(o) \/ Dispatch(o) \/ ReleaseRequest(o)
           \/ \E reply \in Replies : Respond(o, reply)
           \/ RenewLease(o) \/ ReleaseLease(o)
  BY <1>1, <1>4, SetKeepsRefusal
  DEF PrepareSucceeds, StartProvider, Dispatch, ReleaseRequest, Respond, RenewLease, ReleaseLease,
      CredentialResolved, ProviderProcessStarted, SideEffectDispatched, ProviderResponseReceived,
      LeaseRenewed, LeaseExpired, LeaseReleased, AppendEvent
<1> QED
  BY <1>2, <1>3, <1>4 DEF RunTask

\* With a refused event in the journal Execute only finishes its batch; nothing undoes it.
LEMMA RefusalStays ==
    ASSUME TypeOK, journal.refused # "NONE", [Next]_vars PROVE journal'.refused = journal.refused
<1>1. journal \in JournalState
  BY DEF TypeOK
<1>2. CASE Loop
  BY <1>2
  DEF Loop, ReturnUnreadable, ReturnCompleted, CancelRun, BeginPass, CompleteRun, ReturnPending,
      FormBatch, RunBatch, JoinBatch, NothingToRun, AtTop
<1>3. ASSUME NEW o \in Operation, LoopFor(o) PROVE journal'.refused = journal.refused
  <2>1. CASE ExpireJournalLease(o) \/ JournalReadyOperation(o) \/ AcquireLease(o)
    BY <1>1, <2>1, SetKeepsRefusal
    DEF ExpireJournalLease, JournalReadyOperation, AcquireLease, LeaseExpired, OperationReady,
        LeaseAcquired, AppendEvent
  <2>2. CASE RecoverUndispatched(o)
    BY <1>1, <2>2, SetKeepsRefusal DEF RecoverUndispatched, OperationOutcome, AppendEvent
  <2>3. CASE CancelBlocked(o)
    BY <1>1, <2>3, SetKeepsRefusal DEF CancelBlocked, OperationCancelled, AppendEvent
  <2>4. CASE PrepareTask(o)
    BY <1>1, <2>4, SetKeepsRefusal DEF PrepareTask, AttemptStarted, ReconcileStarted, AppendEvent
  <2>5. CASE BackoffInterrupted(o) \/ AcquireInterrupted(o)
    BY <2>5 DEF BackoffInterrupted, AcquireInterrupted
  <2> QED
    BY <1>3, <2>1, <2>2, <2>3, <2>4, <2>5 DEF LoopFor
<1>4. CASE Surroundings
  BY <1>4 DEF Surroundings, Start, Signal, Crash, LeaseDeadline, AuthorizeRetry, DestinationActs
<1>5. CASE UNCHANGED vars
  BY <1>5 DEF vars
<1> QED
  BY <1>2, <1>3, <1>4, <1>5, TaskKeepsRefusal DEF Next, Execute

-----------------------------------------------------------------------------
(* The theorem. *)

LEMMA NextReplays ==
    ASSUME IInv, Course, Replay, [Next]_vars PROVE Replay'
<1>1. CASE journal.refused = "RECONCILE_STARTED"
  BY <1>1, RefusalStays DEF Replay, IInv
<1>2. CASE Appending /\ Next
  BY <1>2, LoopReplays, LoopForReplays, RunTaskReplays, SurroundingsReplay
  DEF Replay, Next, Execute
<1>3. CASE Appending /\ UNCHANGED vars
  <2>1. UNCHANGED <<journal, task, proc, todo, due>>
    BY <1>3 DEF vars
  <2>2. RunOpen' /\ \A o \in Operation : VisitDue(o)'
    BY <1>3, <2>1 DEF Appending, RunOpen, VisitDue, Op
  <2> QED
    BY <1>3, <2>1, <2>2, StandingReplays DEF Replay
<1> QED
  BY <1>1, <1>2, <1>3 DEF Replay

LEMMA InitReplays == Init => Replay
<1> SUFFICES ASSUME Init PROVE Appending
  BY DEF Replay
<1>1. journal.refused = "NONE" /\ proc = "down"
  BY DEF Init, EmptyJournal
<1>2. ASSUME NEW o \in Operation PROVE ReconcilingIsOwed(o) /\ TaskMarked(o) /\ VisitDue(o)
  BY DEF Init, EmptyJournal, PlannedOperation, NoTask, Op, ReconcilingIsOwed, TaskMarked, VisitDue,
         Busy
<1> QED
  BY <1>1, <1>2 DEF Appending, RunOpen

\* Writer.Append asks nobody, yet of all events Execute appends, across goroutines, signals,
\* crashes and restarts, the first one the reducer refuses is a second RECONCILE_STARTED.
THEOREM OnlyReconciliationRefused == Spec => []OnlyReconciliationBreaksReplay
<1>1. Init => Replay
  BY InitReplays
<1>2. IInv /\ Course /\ Replay /\ [Next]_vars => Replay'
  BY NextReplays
<1>3. Replay => OnlyReconciliationBreaksReplay
  BY DEF Replay, Appending, OnlyReconciliationBreaksReplay
<1> QED
  BY <1>1, <1>2, <1>3, CourseHolds, PTL DEF Spec
=============================================================================
