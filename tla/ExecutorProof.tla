---------------------------- MODULE ExecutorProof ----------------------------
(***************************************************************************)
(* Theorems about Executor, for every plan and every value of the bounds:  *)
(* its type invariant, PublicationAccounted and NoDuplicatePublication.    *)
(*                                                                         *)
(* PublicationAccounted is not inductive: whether a failure may be settled *)
(* as FAILED depends on where the goroutine was when it happened, and on   *)
(* the record of the attempt still being what the goroutine left.  Safety  *)
(* adds, position by position, what Execute knows of the operations it is  *)
(* working on.                                                             *)
(***************************************************************************)
EXTENDS Executor, TLAPS

-----------------------------------------------------------------------------
(* What each event of RunJournal does to the parts of an operation's       *)
(* record on which the safety of publications rests: its state, whether it *)
(* must be reconciled, and whether its side effect was dispatched.         *)

\* k keeps of p what j says; a planned operation may have become ready.
Kept(j, k, p) ==
    /\ k.ops[p].reconcileRequired = j.ops[p].reconcileRequired
    /\ k.ops[p].dispatched = j.ops[p].dispatched
    /\ \/ k.ops[p].state = j.ops[p].state
       \/ j.ops[p].state = "PLANNED" /\ k.ops[p].state = "READY"

KeptAll(j, k) == \A p \in Operation : Kept(j, k, p)

KeptBut(j, k, o) == \A p \in Operation \ {o} : Kept(j, k, p)

-----------------------------------------------------------------------------
(* The building blocks. *)

\* What appending an event that leads to "next" can result in.
Appended(type, next) == {next, [next EXCEPT !.refused = type]}

\* A refused event changes nothing but the mark.
LEMMA AppendEffect ==
    ASSUME NEW type \in EventTypes, NEW next \in JournalState, NEW k \in Appended(type, next)
    PROVE  k \in JournalState /\ k.ops = next.ops
BY DEF Appended, JournalState

LEMMA SetOperationEffect ==
    ASSUME NEW j \in JournalState, NEW o \in Operation, NEW op \in OperationState
    PROVE  /\ SetOperation(j, o, op) \in JournalState
           /\ SetOperation(j, o, op).ops[o] = op
           /\ \A p \in Operation \ {o} : SetOperation(j, o, op).ops[p] = j.ops[p]
BY DEF SetOperation, JournalState

\* refreshReady changes only the state of planned operations.
LEMMA RefreshReadyEffect ==
    ASSUME NEW ops \in [Operation -> OperationState]
    PROVE  /\ RefreshReady(ops) \in [Operation -> OperationState]
           /\ \A p \in Operation :
                 /\ RefreshReady(ops)[p].reconcileRequired = ops[p].reconcileRequired
                 /\ RefreshReady(ops)[p].dispatched = ops[p].dispatched
                 /\ \/ RefreshReady(ops)[p].state = ops[p].state
                    \/ ops[p].state = "PLANNED" /\ RefreshReady(ops)[p].state = "READY"
<1>1. \A p \in Operation : [ops[p] EXCEPT !.state = "READY"] \in OperationState
  BY DEF OperationState, OperationStates
<1> QED
  BY <1>1 DEF RefreshReady, OperationState

LEMMA SettleOperationEffect ==
    ASSUME NEW j \in JournalState, NEW o \in Operation, NEW op \in OperationState,
           op.state # "PLANNED"
    PROVE  /\ SettleOperation(j, o, op) \in JournalState
           /\ SettleOperation(j, o, op).ops[o].state = op.state
           /\ SettleOperation(j, o, op).ops[o].reconcileRequired = op.reconcileRequired
           /\ SettleOperation(j, o, op).ops[o].dispatched = op.dispatched
           /\ KeptBut(j, SettleOperation(j, o, op), o)
<1> DEFINE ops == [j.ops EXCEPT ![o] = op]
<1>1. ops \in [Operation -> OperationState]
  BY DEF JournalState
<1>2. /\ SettleOperation(j, o, op) \in JournalState
      /\ SettleOperation(j, o, op).ops = RefreshReady(ops)
  BY <1>1, RefreshReadyEffect DEF SettleOperation, JournalState
<1>3. ops[o] = op /\ \A p \in Operation \ {o} : ops[p] = j.ops[p]
  BY DEF JournalState
<1> QED
  BY <1>1, <1>2, <1>3, RefreshReadyEffect DEF KeptBut, Kept

\* An operation is to be reconciled exactly if it was left waiting.
Waits(op, state) ==
    \/ state = "WAITING_EXTERNAL" /\ op.reconcileRequired = TRUE
    \/ state # "WAITING_EXTERNAL" /\ op.reconcileRequired = FALSE

LEMMA WaitingWaits ==
    ASSUME NEW op, NEW state, op.reconcileRequired = (state = "WAITING_EXTERNAL")
    PROVE  Waits(op, state)
<1>1. CASE state = "WAITING_EXTERNAL"
  BY <1>1 DEF Waits
<1>2. CASE state # "WAITING_EXTERNAL"
  BY <1>2 DEF Waits
<1> QED
  BY <1>1, <1>2

-----------------------------------------------------------------------------
(* The events that leave every operation's safety as it is. *)

LEMMA RunStartedEffect ==
    ASSUME NEW j \in JournalState
    PROVE  RunStarted(j) \in JournalState /\ KeptAll(j, RunStarted(j))
<1> DEFINE next == [j EXCEPT !.status = "STARTED", !.ops = RefreshReady(j.ops)]
<1>1. next \in JournalState /\ next.ops = RefreshReady(j.ops)
  BY RefreshReadyEffect DEF JournalState
<1>2. RunStarted(j) \in Appended("RUN_STARTED", next)
  BY DEF RunStarted, AppendEvent, Appended
<1> HIDE DEF next
<1>3. "RUN_STARTED" \in EventTypes
  BY DEF EventTypes
<1>4. RunStarted(j) \in JournalState /\ RunStarted(j).ops = RefreshReady(j.ops)
  BY <1>1, <1>2, <1>3, AppendEffect
<1> QED
  BY <1>4, RefreshReadyEffect DEF KeptAll, Kept, JournalState

LEMMA RunCompletedEffect ==
    ASSUME NEW j \in JournalState
    PROVE  RunCompleted(j) \in JournalState /\ KeptAll(j, RunCompleted(j))
<1> DEFINE next == [j EXCEPT !.status = "COMPLETED"]
<1>1. next \in JournalState /\ next.ops = j.ops
  BY DEF JournalState
<1>2. RunCompleted(j) \in Appended("RUN_COMPLETED", next)
  BY DEF RunCompleted, AppendEvent, Appended
<1> HIDE DEF next
<1>3. "RUN_COMPLETED" \in EventTypes
  BY DEF EventTypes
<1>4. RunCompleted(j) \in JournalState /\ RunCompleted(j).ops = j.ops
  BY <1>1, <1>2, <1>3, AppendEffect
<1> QED
  BY <1>4 DEF KeptAll, Kept

\* An event that sets a field of one operation outside its safety.
LEMMA BookkeepingEffect ==
    ASSUME NEW j \in JournalState, NEW o \in Operation, NEW type \in EventTypes,
           NEW op \in OperationState,
           op.state = j.ops[o].state,
           op.reconcileRequired = j.ops[o].reconcileRequired,
           op.dispatched = j.ops[o].dispatched,
           NEW k \in Appended(type, SetOperation(j, o, op))
    PROVE  k \in JournalState /\ KeptAll(j, k)
<1>1. SetOperation(j, o, op) \in JournalState /\ KeptAll(j, SetOperation(j, o, op))
  BY SetOperationEffect DEF KeptAll, Kept
<1> QED
  BY <1>1, AppendEffect DEF KeptAll, Kept

LEMMA OperationReadyEffect ==
    ASSUME NEW j \in JournalState, NEW o \in Operation
    PROVE  OperationReady(j, o) \in JournalState /\ KeptAll(j, OperationReady(j, o))
<1> DEFINE op == [j.ops[o] EXCEPT !.readyJournaled = TRUE]
<1>1. /\ op \in OperationState /\ op.state = j.ops[o].state
      /\ op.reconcileRequired = j.ops[o].reconcileRequired
      /\ op.dispatched = j.ops[o].dispatched
  <2>1. j.ops[o] \in OperationState
    BY DEF JournalState
  <2>2. op \in OperationState
    BY <2>1, ZenonT(60) DEF OperationState
  <2>3. /\ op.state = j.ops[o].state
        /\ op.reconcileRequired = j.ops[o].reconcileRequired
        /\ op.dispatched = j.ops[o].dispatched
    BY <2>1 DEF OperationState
  <2> QED
    BY <2>2, <2>3
<1>2. OperationReady(j, o) \in Appended("OPERATION_READY", SetOperation(j, o, op))
  BY DEF OperationReady, AppendEvent, Appended
<1>3. "OPERATION_READY" \in EventTypes
  BY DEF EventTypes
<1> HIDE DEF op
<1> QED
  BY <1>1, <1>2, <1>3, BookkeepingEffect

LEMMA LeaseEffect ==
    ASSUME NEW j \in JournalState, NEW o \in Operation, NEW elapsed \in BOOLEAN
    PROVE  /\ LeaseAcquired(j, o) \in JournalState /\ KeptAll(j, LeaseAcquired(j, o))
           /\ LeaseRenewed(j, o) \in JournalState /\ KeptAll(j, LeaseRenewed(j, o))
           /\ LeaseReleased(j, o) \in JournalState /\ KeptAll(j, LeaseReleased(j, o))
           /\ LeaseExpired(j, o, elapsed) \in JournalState
           /\ KeptAll(j, LeaseExpired(j, o, elapsed))
<1> DEFINE held == [j.ops[o] EXCEPT !.leaseActive = TRUE]
           free == [j.ops[o] EXCEPT !.leaseActive = FALSE]
<1>1. /\ held \in OperationState /\ held.state = j.ops[o].state
      /\ held.reconcileRequired = j.ops[o].reconcileRequired
      /\ held.dispatched = j.ops[o].dispatched
  <2>1. j.ops[o] \in OperationState
    BY DEF JournalState
  <2> QED
    BY <2>1 DEF OperationState
<1>2. /\ free \in OperationState /\ free.state = j.ops[o].state
      /\ free.reconcileRequired = j.ops[o].reconcileRequired
      /\ free.dispatched = j.ops[o].dispatched
  <2>1. j.ops[o] \in OperationState
    BY DEF JournalState
  <2> QED
    BY <2>1 DEF OperationState
<1>3. LeaseAcquired(j, o) \in Appended("LEASE_ACQUIRED", SetOperation(j, o, held))
  BY DEF LeaseAcquired, AppendEvent, Appended
<1>4. LeaseReleased(j, o) \in Appended("LEASE_RELEASED", SetOperation(j, o, free))
  BY DEF LeaseReleased, AppendEvent, Appended
<1>5. LeaseExpired(j, o, elapsed) \in Appended("LEASE_EXPIRED", SetOperation(j, o, free))
  BY DEF LeaseExpired, AppendEvent, Appended
<1>6. LeaseRenewed(j, o) \in Appended("LEASE_RENEWED", j)
  BY DEF LeaseRenewed, AppendEvent, Appended
<1>7. {"LEASE_ACQUIRED", "LEASE_RELEASED", "LEASE_EXPIRED", "LEASE_RENEWED"} \subseteq EventTypes
  BY DEF EventTypes
<1> HIDE DEF held, free
<1>8. LeaseAcquired(j, o) \in JournalState /\ KeptAll(j, LeaseAcquired(j, o))
  BY <1>1, <1>3, <1>7, BookkeepingEffect
<1>9. LeaseReleased(j, o) \in JournalState /\ KeptAll(j, LeaseReleased(j, o))
  BY <1>2, <1>4, <1>7, BookkeepingEffect
<1>10. /\ LeaseExpired(j, o, elapsed) \in JournalState
       /\ KeptAll(j, LeaseExpired(j, o, elapsed))
  BY <1>2, <1>5, <1>7, BookkeepingEffect
<1>11. LeaseRenewed(j, o) \in JournalState /\ KeptAll(j, LeaseRenewed(j, o))
  BY <1>6, <1>7, AppendEffect DEF KeptAll, Kept
<1> QED
  BY <1>8, <1>9, <1>10, <1>11

LEMMA CredentialResolvedEffect ==
    ASSUME NEW j \in JournalState, NEW o \in Operation, NEW attempt \in Nat
    PROVE  /\ CredentialResolved(j, o, attempt) \in JournalState
           /\ KeptAll(j, CredentialResolved(j, o, attempt))
<1>1. CredentialResolved(j, o, attempt) \in Appended("CREDENTIAL_RESOLVED", j)
  BY DEF CredentialResolved, AppendEvent, Appended
<1>2. "CREDENTIAL_RESOLVED" \in EventTypes
  BY DEF EventTypes
<1> QED
  BY <1>1, <1>2, AppendEffect DEF KeptAll, Kept

LEMMA ProviderProcessStartedEffect ==
    ASSUME NEW j \in JournalState, NEW o \in Operation, NEW attempt \in Nat
    PROVE  /\ ProviderProcessStarted(j, o, attempt) \in JournalState
           /\ KeptAll(j, ProviderProcessStarted(j, o, attempt))
<1> DEFINE op == [j.ops[o] EXCEPT !.providerStarted = TRUE, !.providerResponded = FALSE]
<1>1. /\ op \in OperationState /\ op.state = j.ops[o].state
      /\ op.reconcileRequired = j.ops[o].reconcileRequired
      /\ op.dispatched = j.ops[o].dispatched
  <2>1. j.ops[o] \in OperationState
    BY DEF JournalState
  <2>2. op \in OperationState
    BY <2>1, Zenon DEF OperationState
  <2>3. /\ op.state = j.ops[o].state
        /\ op.reconcileRequired = j.ops[o].reconcileRequired
        /\ op.dispatched = j.ops[o].dispatched
    BY <2>1 DEF OperationState
  <2> QED
    BY <2>2, <2>3
<1>2. ProviderProcessStarted(j, o, attempt)
        \in Appended("PROVIDER_PROCESS_STARTED", SetOperation(j, o, op))
  BY DEF ProviderProcessStarted, AppendEvent, Appended
<1>3. "PROVIDER_PROCESS_STARTED" \in EventTypes
  BY DEF EventTypes
<1> HIDE DEF op
<1> QED
  BY <1>1, <1>2, <1>3, BookkeepingEffect

LEMMA ProviderResponseReceivedEffect ==
    ASSUME NEW j \in JournalState, NEW o \in Operation, NEW attempt \in Nat
    PROVE  /\ ProviderResponseReceived(j, o, attempt) \in JournalState
           /\ KeptAll(j, ProviderResponseReceived(j, o, attempt))
<1> DEFINE op == [j.ops[o] EXCEPT !.providerResponded = TRUE]
<1>1. /\ op \in OperationState /\ op.state = j.ops[o].state
      /\ op.reconcileRequired = j.ops[o].reconcileRequired
      /\ op.dispatched = j.ops[o].dispatched
  <2>1. j.ops[o] \in OperationState
    BY DEF JournalState
  <2>2. op \in OperationState
    BY <2>1, Zenon DEF OperationState
  <2>3. /\ op.state = j.ops[o].state
        /\ op.reconcileRequired = j.ops[o].reconcileRequired
        /\ op.dispatched = j.ops[o].dispatched
    BY <2>1 DEF OperationState
  <2> QED
    BY <2>2, <2>3
<1>2. ProviderResponseReceived(j, o, attempt)
        \in Appended("PROVIDER_RESPONSE_RECEIVED", SetOperation(j, o, op))
  BY DEF ProviderResponseReceived, AppendEvent, Appended
<1>3. "PROVIDER_RESPONSE_RECEIVED" \in EventTypes
  BY DEF EventTypes
<1> HIDE DEF op
<1> QED
  BY <1>1, <1>2, <1>3, BookkeepingEffect

LEMMA ReconcileStartedEffect ==
    ASSUME NEW j \in JournalState, NEW o \in Operation, NEW attempt \in Nat
    PROVE  /\ ReconcileStarted(j, o, attempt) \in JournalState
           /\ KeptAll(j, ReconcileStarted(j, o, attempt))
<1> DEFINE op == [j.ops[o] EXCEPT !.reconciling = TRUE, !.providerStarted = FALSE,
                                  !.providerResponded = FALSE]
<1>1. /\ op \in OperationState /\ op.state = j.ops[o].state
      /\ op.reconcileRequired = j.ops[o].reconcileRequired
      /\ op.dispatched = j.ops[o].dispatched
  <2>1. j.ops[o] \in OperationState
    BY DEF JournalState
  <2>2. op \in OperationState
    BY <2>1, Zenon DEF OperationState
  <2>3. /\ op.state = j.ops[o].state
        /\ op.reconcileRequired = j.ops[o].reconcileRequired
        /\ op.dispatched = j.ops[o].dispatched
    BY <2>1 DEF OperationState
  <2> QED
    BY <2>2, <2>3
<1>2. ReconcileStarted(j, o, attempt)
        \in Appended("RECONCILE_STARTED", SetOperation(j, o, op))
  BY DEF ReconcileStarted, AppendEvent, Appended
<1>3. "RECONCILE_STARTED" \in EventTypes
  BY DEF EventTypes
<1> HIDE DEF op
<1> QED
  BY <1>1, <1>2, <1>3, BookkeepingEffect

-----------------------------------------------------------------------------
(* The events that change an operation's safety. *)

\* An event that settles an operation: its state is set, and others may become ready.
LEMMA SettlingEffect ==
    ASSUME NEW j \in JournalState, NEW o \in Operation, NEW type \in EventTypes,
           NEW op \in OperationState, op.state # "PLANNED",
           NEW k \in Appended(type, SettleOperation(j, o, op))
    PROVE  /\ k \in JournalState
           /\ k.ops[o].state = op.state
           /\ k.ops[o].reconcileRequired = op.reconcileRequired
           /\ k.ops[o].dispatched = op.dispatched
           /\ KeptBut(j, k, o)
<1> DEFINE next == SettleOperation(j, o, op)
<1>1. /\ next \in JournalState
      /\ next.ops[o].state = op.state
      /\ next.ops[o].reconcileRequired = op.reconcileRequired
      /\ next.ops[o].dispatched = op.dispatched
      /\ KeptBut(j, next, o)
  BY SettleOperationEffect
<1> HIDE DEF next
<1>2. k \in JournalState /\ k.ops = next.ops
  BY <1>1, AppendEffect DEF next
<1> QED
  BY <1>1, <1>2 DEF KeptBut, Kept

\* An event that sets the record of one operation and leaves the others alone.
LEMMA SettingEffect ==
    ASSUME NEW j \in JournalState, NEW o \in Operation, NEW type \in EventTypes,
           NEW op \in OperationState,
           NEW k \in Appended(type, SetOperation(j, o, op))
    PROVE  /\ k \in JournalState
           /\ k.ops[o] = op
           /\ KeptBut(j, k, o)
BY SetOperationEffect, AppendEffect DEF KeptBut, Kept

\* The record of a cancelled operation.
LEMMA CancelledRecord ==
    ASSUME NEW op \in OperationState
    PROVE  /\ Cancelled(op) \in OperationState
           /\ Cancelled(op).state = "CANCELLED"
           /\ Cancelled(op).reconcileRequired = op.reconcileRequired
           /\ Cancelled(op).dispatched = op.dispatched
<1>1. "CANCELLED" \in OperationStates
  BY DEF OperationStates
<1>2. Cancelled(op) \in OperationState
  BY <1>1, Zenon DEF Cancelled, OperationState
<1>3. /\ Cancelled(op).state = "CANCELLED"
      /\ Cancelled(op).reconcileRequired = op.reconcileRequired
      /\ Cancelled(op).dispatched = op.dispatched
  BY DEF Cancelled, OperationState
<1> QED
  BY <1>2, <1>3

\* Cancelling the run touches neither what must be reconciled nor what is decided.
LEMMA RunCancelledEffect ==
    ASSUME NEW j \in JournalState
    PROVE  LET k == RunCancelled(j)
           IN  /\ k \in JournalState
               /\ \A p \in Operation :
                     /\ k.ops[p].reconcileRequired = j.ops[p].reconcileRequired
                     /\ k.ops[p].dispatched = j.ops[p].dispatched
                     /\ \/ k.ops[p].state = j.ops[p].state
                        \/ ~j.ops[p].reconcileRequired
                           /\ j.ops[p].state \notin {"PUBLISHED", "REJECTED"}
<1> DEFINE next == [j EXCEPT !.status = "CANCELLED", !.ops = CancelRemaining(j.ops)]
<1>1. \A p \in Operation :
          /\ j.ops[p] \in OperationState
          /\ Cancelled(j.ops[p]) \in OperationState
          /\ Cancelled(j.ops[p]).reconcileRequired = j.ops[p].reconcileRequired
          /\ Cancelled(j.ops[p]).dispatched = j.ops[p].dispatched
  BY CancelledRecord DEF JournalState
<1>2. CancelRemaining(j.ops) \in [Operation -> OperationState]
  BY <1>1 DEF CancelRemaining, JournalState
<1>3. next \in JournalState /\ next.ops = CancelRemaining(j.ops)
  BY <1>2 DEF JournalState
<1>4. RunCancelled(j) \in Appended("RUN_CANCELLED", next)
  BY DEF RunCancelled, AppendEvent, Appended
<1>5. "RUN_CANCELLED" \in EventTypes
  BY DEF EventTypes
<1>6. \A p \in Operation :
          \/ CancelRemaining(j.ops)[p] = j.ops[p]
          \/ /\ CancelRemaining(j.ops)[p] = Cancelled(j.ops[p])
             /\ ~j.ops[p].reconcileRequired
             /\ j.ops[p].state \notin {"PUBLISHED", "REJECTED"}
  BY DEF CancelRemaining
<1> HIDE DEF next
<1>7. RunCancelled(j) \in JournalState /\ RunCancelled(j).ops = CancelRemaining(j.ops)
  BY <1>3, <1>4, <1>5, AppendEffect
<1> QED
  BY <1>1, <1>6, <1>7

LEMMA OperationCancelledEffect ==
    ASSUME NEW j \in JournalState, NEW o \in Operation
    PROVE  LET k == OperationCancelled(j, o)
           IN  /\ k \in JournalState
               /\ k.ops[o].state = "CANCELLED"
               /\ k.ops[o].reconcileRequired = j.ops[o].reconcileRequired
               /\ k.ops[o].dispatched = j.ops[o].dispatched
               /\ KeptBut(j, k, o)
<1> DEFINE op == Cancelled(j.ops[o])
<1>1. /\ op \in OperationState /\ op.state = "CANCELLED"
      /\ op.reconcileRequired = j.ops[o].reconcileRequired
      /\ op.dispatched = j.ops[o].dispatched
  <2>1. j.ops[o] \in OperationState
    BY DEF JournalState
  <2> QED
    BY <2>1, CancelledRecord
<1>2. OperationCancelled(j, o) \in Appended("OPERATION_CANCELLED", SettleOperation(j, o, op))
  BY DEF OperationCancelled, AppendEvent, Appended
<1>3. "OPERATION_CANCELLED" \in EventTypes
  BY DEF EventTypes
<1> HIDE DEF op
<1> DEFINE k == OperationCancelled(j, o)
<1> HIDE DEF k
<1>4. k \in Appended("OPERATION_CANCELLED", SettleOperation(j, o, op))
  BY <1>2 DEF k
<1>5. /\ k \in JournalState /\ KeptBut(j, k, o)
      /\ k.ops[o].state = op.state
      /\ k.ops[o].reconcileRequired = op.reconcileRequired
      /\ k.ops[o].dispatched = op.dispatched
  BY <1>1, <1>3, <1>4, SettlingEffect
<1> QED
  BY <1>1, <1>5 DEF k

LEMMA AttemptStartedEffect ==
    ASSUME NEW j \in JournalState, NEW o \in Operation, NEW attempt \in Nat
    PROVE  LET k == AttemptStarted(j, o, attempt)
           IN  /\ k \in JournalState
               /\ k.ops[o].state = "RUNNING"
               /\ k.ops[o].reconcileRequired = FALSE
               /\ k.ops[o].dispatched = FALSE
               /\ KeptBut(j, k, o)
<1> DEFINE op == [j.ops[o] EXCEPT !.state = "RUNNING", !.attempt = attempt,
                      !.dispatched = FALSE, !.reconciling = FALSE,
                      !.providerStarted = FALSE, !.providerResponded = FALSE,
                      !.reconcileRequired = FALSE, !.ambiguous = FALSE,
                      !.retryable = FALSE, !.observedAbsent = FALSE]
<1>1. /\ op \in OperationState /\ op.state = "RUNNING"
      /\ op.reconcileRequired = FALSE /\ op.dispatched = FALSE
  <2>1. j.ops[o] \in OperationState /\ "RUNNING" \in OperationStates
    BY DEF JournalState, OperationStates
  <2>2. op \in OperationState
    BY <2>1, Zenon DEF OperationState
  <2>3. op.state = "RUNNING" /\ op.reconcileRequired = FALSE /\ op.dispatched = FALSE
    BY <2>1 DEF OperationState
  <2> QED
    BY <2>2, <2>3
<1>2. AttemptStarted(j, o, attempt) \in Appended("ATTEMPT_STARTED", SetOperation(j, o, op))
  BY DEF AttemptStarted, AppendEvent, Appended
<1>3. "ATTEMPT_STARTED" \in EventTypes
  BY DEF EventTypes
<1> HIDE DEF op
<1> DEFINE k == AttemptStarted(j, o, attempt)
<1> HIDE DEF k
<1>4. k \in Appended("ATTEMPT_STARTED", SetOperation(j, o, op))
  BY <1>2 DEF k
<1>5. k \in JournalState /\ k.ops[o] = op /\ KeptBut(j, k, o)
  BY <1>1, <1>3, <1>4, SettingEffect
<1> QED
  BY <1>1, <1>5 DEF k

LEMMA SideEffectDispatchedEffect ==
    ASSUME NEW j \in JournalState, NEW o \in Operation, NEW attempt \in Nat
    PROVE  LET k == SideEffectDispatched(j, o, attempt)
           IN  /\ k \in JournalState
               /\ k.ops[o].state = j.ops[o].state
               /\ k.ops[o].reconcileRequired = TRUE
               /\ k.ops[o].dispatched = TRUE
               /\ KeptBut(j, k, o)
<1> DEFINE op == [j.ops[o] EXCEPT !.dispatched = TRUE, !.reconcileRequired = TRUE,
                                  !.ambiguous = TRUE]
<1>1. /\ op \in OperationState /\ op.state = j.ops[o].state
      /\ op.reconcileRequired = TRUE /\ op.dispatched = TRUE
  <2>1. j.ops[o] \in OperationState
    BY DEF JournalState
  <2>2. op \in OperationState
    BY <2>1, Zenon DEF OperationState
  <2>3. /\ op.state = j.ops[o].state
        /\ op.reconcileRequired = TRUE /\ op.dispatched = TRUE
    BY <2>1 DEF OperationState
  <2> QED
    BY <2>2, <2>3
<1>2. SideEffectDispatched(j, o, attempt)
        \in Appended("SIDE_EFFECT_DISPATCHED", SetOperation(j, o, op))
  BY DEF SideEffectDispatched, AppendEvent, Appended
<1>3. "SIDE_EFFECT_DISPATCHED" \in EventTypes
  BY DEF EventTypes
<1> HIDE DEF op
<1> DEFINE k == SideEffectDispatched(j, o, attempt)
<1> HIDE DEF k
<1>4. k \in Appended("SIDE_EFFECT_DISPATCHED", SetOperation(j, o, op))
  BY <1>2 DEF k
<1>5. k \in JournalState /\ k.ops[o] = op /\ KeptBut(j, k, o)
  BY <1>1, <1>3, <1>4, SettingEffect
<1> QED
  BY <1>1, <1>5 DEF k

LEMMA OutcomeAmbiguousEffect ==
    ASSUME NEW j \in JournalState, NEW o \in Operation, NEW attempt \in Nat
    PROVE  LET k == OutcomeAmbiguous(j, o, attempt)
           IN  /\ k \in JournalState
               /\ k.ops[o].state = j.ops[o].state
               /\ k.ops[o].reconcileRequired = TRUE
               /\ k.ops[o].dispatched = j.ops[o].dispatched
               /\ KeptBut(j, k, o)
<1> DEFINE op == [j.ops[o] EXCEPT !.reconcileRequired = TRUE, !.ambiguous = TRUE,
                                  !.retryable = FALSE]
<1>1. /\ op \in OperationState /\ op.state = j.ops[o].state
      /\ op.reconcileRequired = TRUE /\ op.dispatched = j.ops[o].dispatched
  <2>1. j.ops[o] \in OperationState
    BY DEF JournalState
  <2>2. op \in OperationState
    BY <2>1, Zenon DEF OperationState
  <2>3. /\ op.state = j.ops[o].state
        /\ op.reconcileRequired = TRUE /\ op.dispatched = j.ops[o].dispatched
    BY <2>1 DEF OperationState
  <2> QED
    BY <2>2, <2>3
<1>2. OutcomeAmbiguous(j, o, attempt)
        \in Appended("OUTCOME_AMBIGUOUS", SetOperation(j, o, op))
  BY DEF OutcomeAmbiguous, AppendEvent, Appended
<1>3. "OUTCOME_AMBIGUOUS" \in EventTypes
  BY DEF EventTypes
<1> HIDE DEF op
<1> DEFINE k == OutcomeAmbiguous(j, o, attempt)
<1> HIDE DEF k
<1>4. k \in Appended("OUTCOME_AMBIGUOUS", SetOperation(j, o, op))
  BY <1>2 DEF k
<1>5. k \in JournalState /\ k.ops[o] = op /\ KeptBut(j, k, o)
  BY <1>1, <1>3, <1>4, SettingEffect
<1> QED
  BY <1>1, <1>5 DEF k

LEMMA OperationOutcomeEffect ==
    ASSUME NEW j \in JournalState, NEW o \in Operation, NEW attempt \in Nat,
           NEW state \in OperationStates, state # "PLANNED", NEW retryable \in BOOLEAN
    PROVE  LET k == OperationOutcome(j, o, attempt, state, retryable)
           IN  /\ k \in JournalState
               /\ k.ops[o].state = state
               /\ Waits(k.ops[o], state)
               /\ k.ops[o].dispatched = FALSE
               /\ KeptBut(j, k, o)
<1> DEFINE before == j.ops[o]
           op == ApplyResult(before, state, retryable, before.reconciling)
<1>1. before \in OperationState
  BY DEF JournalState
<1>2. OperationOutcome(j, o, attempt, state, retryable)
        \in Appended("OPERATION_OUTCOME", SettleOperation(j, o, op))
  BY DEF OperationOutcome, AppendEvent, Appended
<1>3. "OPERATION_OUTCOME" \in EventTypes
  BY DEF EventTypes
<1> HIDE DEF before
<1>4. /\ op \in OperationState /\ op.state = state
      /\ op.reconcileRequired = (state = "WAITING_EXTERNAL")
      /\ op.dispatched = FALSE
  <2>1. op \in OperationState
    BY <1>1, ZenonT(60) DEF ApplyResult, OperationState
  <2>2. /\ op.state = state
        /\ op.reconcileRequired = (state = "WAITING_EXTERNAL")
        /\ op.dispatched = FALSE
    BY <1>1 DEF ApplyResult, OperationState
  <2> QED
    BY <2>1, <2>2
<1> HIDE DEF op
<1>5. Waits(op, state)
  BY <1>4, WaitingWaits
<1> DEFINE k == OperationOutcome(j, o, attempt, state, retryable)
<1> HIDE DEF k
<1>6. k \in Appended("OPERATION_OUTCOME", SettleOperation(j, o, op))
  BY <1>2 DEF k
<1>7. /\ k \in JournalState /\ KeptBut(j, k, o)
      /\ k.ops[o].state = op.state
      /\ k.ops[o].reconcileRequired = op.reconcileRequired
      /\ k.ops[o].dispatched = op.dispatched
  BY <1>4, <1>5, <1>3, <1>6, SettlingEffect
<1> QED
  BY <1>4, <1>5, <1>7 DEF k, Waits

LEMMA OperationResultEffect ==
    ASSUME NEW j \in JournalState, NEW o \in Operation, NEW attempt \in Nat,
           NEW state \in {"BLOCKED", "CANCELLED"}
    PROVE  LET k == OperationResult(j, o, attempt, state)
           IN  /\ k \in JournalState
               /\ k.ops[o].state = state
               /\ k.ops[o].reconcileRequired = FALSE
               /\ k.ops[o].dispatched = FALSE
               /\ KeptBut(j, k, o)
<1> DEFINE blocked == [j.ops[o] EXCEPT !.blockedAttempts = @ + 1]
           counted == IF state = "BLOCKED" THEN blocked ELSE j.ops[o]
           op      == ApplyResult(counted, state, FALSE, FALSE)
<1>1. j.ops[o] \in OperationState
  BY DEF JournalState
<1>2. blocked \in OperationState
  BY <1>1 DEF OperationState
<1>3. counted \in OperationState
  BY <1>1, <1>2
<1>4. OperationResult(j, o, attempt, state)
        \in Appended("OPERATION_RESULT", SettleOperation(j, o, op))
  BY DEF OperationResult, AppendEvent, Appended
<1>5. "OPERATION_RESULT" \in EventTypes
  BY DEF EventTypes
<1> HIDE DEF counted
<1>6. state \in OperationStates /\ state # "PLANNED" /\ state # "WAITING_EXTERNAL"
  BY DEF OperationStates
<1>7. /\ op \in OperationState /\ op.state = state
      /\ op.reconcileRequired = FALSE /\ op.dispatched = FALSE
  <2>1. op \in OperationState
    BY <1>3, <1>6, ZenonT(60) DEF ApplyResult, OperationState
  <2>2. op.state = state /\ op.reconcileRequired = FALSE /\ op.dispatched = FALSE
    BY <1>3, <1>6 DEF ApplyResult, OperationState
  <2> QED
    BY <2>1, <2>2
<1> HIDE DEF op
<1> DEFINE k == OperationResult(j, o, attempt, state)
<1> HIDE DEF k
<1>8. k \in Appended("OPERATION_RESULT", SettleOperation(j, o, op))
  BY <1>4 DEF k
<1>9. /\ k \in JournalState /\ KeptBut(j, k, o)
      /\ k.ops[o].state = op.state
      /\ k.ops[o].reconcileRequired = op.reconcileRequired
      /\ k.ops[o].dispatched = op.dispatched
  BY <1>6, <1>7, <1>5, <1>8, SettlingEffect
<1> QED
  BY <1>6, <1>7, <1>9 DEF k

\* A journal after a reconcile result is appended, whether or not a retry is worthwhile.
IsReconcileResult(k, j, o, attempt, state) ==
    \E retryable, absent \in BOOLEAN :
        k = ReconcileResult(j, o, attempt, state, retryable, absent)

\* Operation o of journal k is in the state the answer names, and its request is over.
Answered(k, o, state) ==
    k.ops[o].state = state /\ Waits(k.ops[o], state) /\ k.ops[o].dispatched = FALSE

LEMMA ReconcileResultEffect ==
    ASSUME NEW j \in JournalState, NEW o \in Operation, NEW attempt \in Nat,
           NEW state \in ProviderResults, NEW k, IsReconcileResult(k, j, o, attempt, state)
    PROVE  k \in JournalState /\ Answered(k, o, state) /\ KeptBut(j, k, o)
<1>0. PICK retryable \in BOOLEAN, absent \in BOOLEAN :
          k = ReconcileResult(j, o, attempt, state, retryable, absent)
  BY DEF IsReconcileResult
<1> DEFINE before == j.ops[o]
           result == ApplyResult(before, state, retryable, TRUE)
           op == [result EXCEPT !.observedAbsent = absent /\ state = "WAITING_EXTERNAL"]
<1>1. before \in OperationState
  BY DEF JournalState
<1>2. state \in OperationStates /\ state # "PLANNED"
  BY DEF OperationStates, ProviderResults
<1>3. ReconcileResult(j, o, attempt, state, retryable, absent)
        \in Appended("RECONCILE_RESULT", SettleOperation(j, o, op))
  BY DEF ReconcileResult, AppendEvent, Appended
<1>4. "RECONCILE_RESULT" \in EventTypes
  BY DEF EventTypes
<1> HIDE DEF before
<1>5. /\ result \in OperationState /\ result.state = state
      /\ result.reconcileRequired = (state = "WAITING_EXTERNAL")
      /\ result.dispatched = FALSE
  <2>1. result \in OperationState
    BY <1>1, <1>2, ZenonT(60) DEF ApplyResult, OperationState
  <2>2. /\ result.state = state
        /\ result.reconcileRequired = (state = "WAITING_EXTERNAL")
        /\ result.dispatched = FALSE
    BY <1>1, <1>2 DEF ApplyResult, OperationState
  <2> QED
    BY <2>1, <2>2
<1> HIDE DEF result
<1>6. /\ op \in OperationState /\ op.state = state
      /\ op.reconcileRequired = (state = "WAITING_EXTERNAL")
      /\ op.dispatched = FALSE
  BY <1>5 DEF OperationState
<1> HIDE DEF op
<1>7. Waits(op, state)
  BY <1>6, WaitingWaits
<1>8. k \in Appended("RECONCILE_RESULT", SettleOperation(j, o, op))
  BY <1>0, <1>3
<1>9. /\ k \in JournalState /\ KeptBut(j, k, o)
      /\ k.ops[o].state = op.state
      /\ k.ops[o].reconcileRequired = op.reconcileRequired
      /\ k.ops[o].dispatched = op.dispatched
  BY <1>2, <1>6, <1>7, <1>4, <1>8, SettlingEffect
<1> QED
  BY <1>2, <1>6, <1>7, <1>9 DEF Answered, Waits

LEMMA RetryAuthorizedEffect ==
    ASSUME NEW j \in JournalState, NEW o \in Operation, NEW attempt \in Nat
    PROVE  RetryAuthorized(j, o, attempt) \in JournalState
           /\ KeptBut(j, RetryAuthorized(j, o, attempt), o)
<1> DEFINE op == [j.ops[o] EXCEPT !.observedAbsent = FALSE, !.state = "READY",
                      !.retryable = FALSE, !.reconcileRequired = FALSE, !.ambiguous = FALSE]
<1>1. j.ops[o] \in OperationState /\ "READY" \in OperationStates
  BY DEF JournalState, OperationStates
<1>2. op \in OperationState
  BY <1>1 DEF OperationState
<1>3. RetryAuthorized(j, o, attempt) \in Appended("RETRY_AUTHORIZED", SetOperation(j, o, op))
  BY DEF RetryAuthorized, AppendEvent, Appended
<1>4. "RETRY_AUTHORIZED" \in EventTypes
  BY DEF EventTypes
<1> HIDE DEF op
<1> DEFINE k == RetryAuthorized(j, o, attempt)
<1> HIDE DEF k
<1>5. k \in Appended("RETRY_AUTHORIZED", SetOperation(j, o, op))
  BY <1>3 DEF k
<1>6. k \in JournalState /\ k.ops[o] = op /\ KeptBut(j, k, o)
  BY <1>2, <1>4, <1>5, SettingEffect
<1> QED
  BY <1>2, <1>6 DEF k

-----------------------------------------------------------------------------
(* What holds at each position of Execute.                                 *)

\* Goroutines exist only between FormBatch and JoinBatch, and start with RunBatch.
Quiet ==
    \A o \in Operation :
        /\ proc \notin {"batch", "run"} => task[o].phase = "idle"
        /\ proc = "batch" => task[o].phase \in {"idle", "leased", "prepared"}

\* What a pass or a batch has still to visit is as the loop found it.
WorkIsCurrent ==
    \A o \in todo :
        /\ proc = "batch" =>
              Op(o).reconcileRequired \/ Op(o).state \in {"READY", "BLOCKED", "FAILED"}
        /\ proc = "recover" => Op(o).state = "RUNNING" /\ ~Op(o).reconcileRequired
        /\ proc = "doom" => Op(o).state \in {"PLANNED", "READY"}

\* A goroutine either applies or reconciles.
KindKnown(o) == task[o].phase # "idle" => task[o].kind # "none"

\* A leased candidate is still to be prepared; it is applied if nothing is outstanding.
LeasedIsNext(o) ==
    task[o].phase = "leased" =>
        /\ proc = "batch"
        /\ o \in todo
        /\ task[o].kind = "apply" => ~Op(o).reconcileRequired

\* An attempt runs under a record that says so, and has not been dispatched ...
BeforeDispatch(o) ==
    task[o].kind = "apply" /\ task[o].phase \in {"prepared", "credentialed", "started"} =>
        /\ Op(o).state = "RUNNING"
        /\ ~Op(o).reconcileRequired
        /\ ~Op(o).dispatched

\* ... until SIDE_EFFECT_DISPATCHED, after which the record asks for reconciliation.
AfterDispatch(o) ==
    Publishing(o) /\ task[o].phase \in {"dispatched", "requested", "responded"} =>
        Op(o).reconcileRequired /\ Op(o).dispatched

\* Only a publication is dispatched, and no earlier request is out or has taken effect.
DispatchedIsFirst(o) ==
    task[o].phase = "dispatched" =>
        /\ Publishing(o)
        /\ Excused(o) \/ ~Exposed(o)

\* A response agrees with the destination.
ResponseIsTrue(o) ==
    task[o].phase = "responded" /\ o \in SideEffecting =>
        /\ task[o].reply = "PUBLISHED" => dest[o] = "published"
        /\ task[o].reply = "REJECTED" => dest[o] = "rejected"
        /\ task[o].kind = "apply" /\ task[o].reply \in {"RETRYABLE", "PERMANENT"} =>
              Excused(o) \/ ~Exposed(o)

\* A request is outstanding only as long as the destination has not decided.
OutstandingIsUndecided(o) == outstanding[o] => dest[o] = "absent"

\* PublicationAccounted, of one operation.
Accounted(o) ==
    o \in SideEffecting /\ Exposed(o) /\ ~Excused(o) => Recorded(o) \/ Op(o).reconcileRequired

OperationSafe(o) ==
    /\ KindKnown(o)
    /\ LeasedIsNext(o)
    /\ BeforeDispatch(o)
    /\ AfterDispatch(o)
    /\ DispatchedIsFirst(o)
    /\ ResponseIsTrue(o)
    /\ OutstandingIsUndecided(o)
    /\ Accounted(o)

Safety ==
    /\ Quiet
    /\ WorkIsCurrent
    /\ \A o \in Operation : OperationSafe(o)

IInv == TypeOK /\ Safety

-----------------------------------------------------------------------------
(* Typing. *)

LEMMA OpType ==
    ASSUME TypeOK, NEW o \in Operation
    PROVE  /\ Op(o) \in OperationState
           /\ Op(o).attempt \in Nat
           /\ Op(o).state \in OperationStates
           /\ Op(o).reconcileRequired \in BOOLEAN
           /\ Op(o).dispatched \in BOOLEAN
           /\ Op(o).ambiguous \in BOOLEAN
           /\ Key(o) \in Operation \X Nat
BY DEF TypeOK, JournalState, OperationState, Op, Key

LEMMA TaskType ==
    ASSUME TypeOK, NEW o \in Operation, NEW phase \in Phases
    PROVE  /\ task[o] \in Tasks
           /\ [task EXCEPT ![o].phase = phase] \in [Operation -> Tasks]
BY DEF TypeOK, Tasks

\* What a returning Execute leaves.
LEMMA ReturnType ==
    ASSUME TypeOK, NEW result \in {"ok", "error", "crash"}, Return(result),
           journal' \in JournalState, UNCHANGED <<mode, starts, due, dest, authorizations>>,
           outstanding' \in [Operation -> BOOLEAN], leaked' \subseteq Operation
    PROVE  TypeOK'
<1>1. NoTask \in Tasks
  BY DEF NoTask, Tasks, Phases
<1> QED
  BY <1>1 DEF TypeOK, Return, Positions

\* The journal after a failed call.
LEMMA FailureEffect ==
    ASSUME TypeOK, NEW o \in Operation, NEW f \in Failures, SettleFailure(o, f)
    PROVE  /\ journal' \in JournalState
           /\ KeptBut(journal, journal', o)
           /\ \/ journal'.ops[o].reconcileRequired = TRUE
              \/ /\ task[o].kind # "reconcile"
                 /\ Decision(Op(o).dispatched, o \in SideEffecting, f) # "reconcile"
<1> DEFINE attempt  == Op(o).attempt
           decision == Decision(Op(o).dispatched, o \in SideEffecting, f)
<1>1. journal \in JournalState /\ attempt \in Nat
  BY OpType DEF TypeOK
<1>2. CASE task[o].kind = "reconcile"
  <2> DEFINE retryable == IsRetryable(f) \/ Op(o).ambiguous
  <2>1. retryable \in BOOLEAN
    BY OpType DEF IsRetryable
  <2>2. journal' = ReconcileResult(journal, o, attempt, "WAITING_EXTERNAL", retryable, FALSE)
    BY <1>2 DEF SettleFailure, Settle, ReconcileFailure
  <2>3. "WAITING_EXTERNAL" \in ProviderResults
    BY DEF ProviderResults
  <2> HIDE DEF attempt, retryable
  <2>4. IsReconcileResult(journal', journal, o, attempt, "WAITING_EXTERNAL")
    BY <2>1, <2>2 DEF IsReconcileResult
  <2>5. /\ journal' \in JournalState /\ KeptBut(journal, journal', o)
        /\ Answered(journal', o, "WAITING_EXTERNAL")
    BY <1>1, <2>3, <2>4, ReconcileResultEffect
  <2> QED
    BY <2>5 DEF Answered, Waits
<1>3. CASE task[o].kind # "reconcile"
  <2>1. journal' = ApplyFailure(o, f)
    BY <1>3 DEF SettleFailure, Settle
  <2>2. CASE decision = "reconcile"
    <3>1. journal' = OutcomeAmbiguous(journal, o, attempt)
      BY <2>1, <2>2 DEF ApplyFailure
    <3> HIDE DEF attempt
    <3> QED
      BY <1>1, <3>1, OutcomeAmbiguousEffect
  <2>3. CASE decision # "reconcile" /\ f \in {"CANCELLED", "BLOCKED"}
    <3>1. journal' = OperationResult(journal, o, attempt, f)
      BY <2>1, <2>3 DEF ApplyFailure
    <3>2. f \in {"BLOCKED", "CANCELLED"}
      BY <2>3
    <3> HIDE DEF attempt
    <3> QED
      BY <1>1, <1>3, <2>3, <3>1, <3>2, OperationResultEffect
  <2>4. CASE decision # "reconcile" /\ f \notin {"CANCELLED", "BLOCKED"}
    <3> DEFINE retryable == decision = "retry"
    <3>1. journal' = OperationOutcome(journal, o, attempt, "FAILED", retryable)
      BY <2>1, <2>4 DEF ApplyFailure
    <3>2. retryable \in BOOLEAN /\ "FAILED" \in OperationStates
      BY DEF OperationStates
    <3> HIDE DEF attempt, retryable
    <3> QED
      BY <1>1, <1>3, <2>4, <3>1, <3>2, OperationOutcomeEffect
  <2> QED
    BY <2>2, <2>3, <2>4
<1> QED
  BY <1>2, <1>3

-----------------------------------------------------------------------------

LEMMA InitType == Init => TypeOK
<1> SUFFICES ASSUME Init PROVE TypeOK
  OBVIOUS
<1>1. NoTask \in Tasks
  BY DEF NoTask, Tasks, Phases
<1>2. PlannedOperation \in OperationState
  BY DEF PlannedOperation, OperationState, OperationStates
<1>3. journal \in JournalState
  BY <1>2 DEF Init, EmptyJournal, JournalState
<1> QED
  BY <1>1, <1>3 DEF Init, TypeOK, Positions

\* The loop: its returns, passes and batches.
LEMMA LoopType == ASSUME TypeOK, Loop PROVE TypeOK'
<1> journal \in JournalState
  BY DEF TypeOK
<1>1. CASE ReturnUnreadable \/ ReturnCompleted \/ CancelRun \/ ReturnPending
  <2>1. journal' \in JournalState
    BY <1>1, RunCancelledEffect
    DEF ReturnUnreadable, ReturnCompleted, CancelRun, ReturnPending
  <2>2. UNCHANGED <<mode, starts, due, dest, outstanding, leaked, authorizations>>
    BY <1>1 DEF ReturnUnreadable, ReturnCompleted, CancelRun, ReturnPending, invocation, world
  <2>3. Return("ok") \/ Return("error")
    BY <1>1 DEF ReturnUnreadable, ReturnCompleted, CancelRun, ReturnPending
  <2>4. outstanding' \in [Operation -> BOOLEAN] /\ leaked' \subseteq Operation
    BY <2>2 DEF TypeOK
  <2> QED
    BY <2>1, <2>2, <2>3, <2>4, ReturnType
<1>2. CASE BeginPass
  <2>1. NextPass # "none" => NextPass \in Passes
    BY DEF NextPass, Passes
  <2>2. proc' \in Positions
    BY <1>2, <2>1 DEF BeginPass, Positions
  <2>3. todo' \subseteq Operation
    <3>1. \A pass \in Passes : PassWork(pass) \subseteq Operation
      BY DEF PassWork, Passes, TypeOK
    <3> QED
      BY <1>2, <2>1, <3>1 DEF BeginPass
  <2> QED
    BY <1>2, <2>2, <2>3 DEF BeginPass, TypeOK, world
<1>3. CASE CompleteRun
  <2>1. journal' \in JournalState
    BY <1>3, RunCompletedEffect DEF CompleteRun
  <2> QED
    BY <1>3, <2>1 DEF CompleteRun, TypeOK, world
<1>4. CASE FormBatch
  <2>1. todo' \subseteq Operation
    BY <1>4 DEF FormBatch, Batches, Candidates, ReconcileCandidates, ApplyCandidates
  <2> QED
    BY <1>4, <2>1 DEF FormBatch, TypeOK, Positions, world
<1>5. CASE RunBatch
  BY <1>5 DEF RunBatch, TypeOK, Positions, world
<1>6. CASE JoinBatch
  <2>1. CASE failed
    <3>1. Return("error") /\ journal' \in JournalState
          /\ UNCHANGED <<mode, starts, due, dest, outstanding, leaked, authorizations>>
      BY <1>6, <2>1 DEF JoinBatch, invocation, world
    <3>2. outstanding' \in [Operation -> BOOLEAN] /\ leaked' \subseteq Operation
      BY <3>1 DEF TypeOK
    <3> QED
      BY <3>1, <3>2, ReturnType
  <2>2. CASE ~failed
    BY <1>6, <2>2 DEF JoinBatch, TypeOK, Positions, invocation, world
  <2> QED
    BY <2>1, <2>2
<1> QED
  BY <1>1, <1>2, <1>3, <1>4, <1>5, <1>6 DEF Loop

\* One step of a pass or of a batch.
LEMMA LoopForType == ASSUME TypeOK, NEW o \in Operation, LoopFor(o) PROVE TypeOK'
<1> DEFINE attempt == Op(o).attempt
<1> journal \in JournalState /\ attempt \in Nat
  BY OpType DEF TypeOK
<1>1. CASE \E pass \in Passes : PassStep(pass, o)
  <2>1. journal' \in JournalState /\ due' \subseteq Operation
    <3>1. CASE ExpireJournalLease(o)
      <4> DEFINE elapsed == o \in due
      <4>1. journal' = LeaseExpired(journal, o, elapsed) /\ elapsed \in BOOLEAN
        BY <3>1 DEF ExpireJournalLease
      <4>2. due' \subseteq Operation
        BY <3>1 DEF ExpireJournalLease, TypeOK
      <4> HIDE DEF elapsed
      <4> QED
        BY <4>1, <4>2, LeaseEffect
    <3>2. CASE JournalReadyOperation(o)
      BY <3>2, OperationReadyEffect DEF JournalReadyOperation, TypeOK
    <3>3. CASE RecoverUndispatched(o)
      <4>1. journal' = OperationOutcome(journal, o, attempt, "FAILED", TRUE)
        BY <3>3 DEF RecoverUndispatched
      <4>2. "FAILED" \in OperationStates /\ TRUE \in BOOLEAN
        BY DEF OperationStates
      <4> HIDE DEF attempt
      <4>3. journal' \in JournalState
        BY <4>1, <4>2, OperationOutcomeEffect
      <4> QED
        BY <3>3, <4>3 DEF RecoverUndispatched, TypeOK
    <3>4. CASE CancelBlocked(o)
      BY <3>4, OperationCancelledEffect DEF CancelBlocked, TypeOK
    <3>5. CASE AcquireLease(o) \/ BackoffInterrupted(o) \/ AcquireInterrupted(o)
               \/ PrepareTask(o)
      BY <1>1, <3>5
      DEF PassStep, Passes, AcquireLease, BackoffInterrupted, AcquireInterrupted, PrepareTask,
          NextCandidate
    <3> QED
      BY <3>1, <3>2, <3>3, <3>4, <3>5 DEF LoopFor
  <2> QED
    BY <1>1, <2>1 DEF PassStep, TypeOK, Passes, Positions, world
<1>2. CASE AcquireLease(o)
  <2>1. journal' \in JournalState
    BY <1>2, LeaseEffect DEF AcquireLease
  <2>2. task' \in [Operation -> Tasks]
    BY <1>2 DEF AcquireLease, TypeOK, Tasks, Phases
  <2> QED
    BY <1>2, <2>1, <2>2 DEF AcquireLease, TypeOK, world
<1>3. CASE BackoffInterrupted(o)
  BY <1>3 DEF BackoffInterrupted, TypeOK, world
<1>4. CASE AcquireInterrupted(o)
  <2>1. Return("error") /\ journal' \in JournalState
        /\ UNCHANGED <<mode, starts, due, dest, outstanding, leaked, authorizations>>
    BY <1>4 DEF AcquireInterrupted, invocation, world
  <2>2. outstanding' \in [Operation -> BOOLEAN] /\ leaked' \subseteq Operation
    BY <2>1 DEF TypeOK
  <2> QED
    BY <2>1, <2>2, ReturnType
<1>5. CASE PrepareTask(o)
  <2>1. journal' \in JournalState
    <3>1. attempt + 1 \in Nat
      OBVIOUS
    <3>2. \/ journal' = AttemptStarted(journal, o, attempt + 1)
          \/ journal' = ReconcileStarted(journal, o, attempt)
      BY <1>5 DEF PrepareTask
    <3> HIDE DEF attempt
    <3> QED
      BY <3>1, <3>2, AttemptStartedEffect, ReconcileStartedEffect
  <2>2. task' \in [Operation -> Tasks]
    BY <1>5, TaskType DEF PrepareTask, Phases
  <2> QED
    BY <1>5, <2>1, <2>2 DEF PrepareTask, TypeOK, world
<1> QED
  BY <1>1, <1>2, <1>3, <1>4, <1>5
  DEF LoopFor, ExpireJournalLease, JournalReadyOperation, RecoverUndispatched, CancelBlocked, Passes

\* One step of a goroutine.
LEMMA RunTaskType == ASSUME TypeOK, NEW o \in Operation, RunTask(o) PROVE TypeOK'
<1> DEFINE attempt == Op(o).attempt
<1> journal \in JournalState /\ attempt \in Nat
  BY OpType DEF TypeOK
<1>1. CASE PrepareSucceeds(o) \/ StartProvider(o) \/ Dispatch(o)
  <2>1. journal' \in JournalState
    <3>1. \/ journal' = CredentialResolved(journal, o, attempt)
          \/ journal' = ProviderProcessStarted(journal, o, attempt)
          \/ journal' = SideEffectDispatched(journal, o, attempt)
      BY <1>1 DEF PrepareSucceeds, StartProvider, Dispatch
    <3> HIDE DEF attempt
    <3> QED
      BY <3>1, CredentialResolvedEffect, ProviderProcessStartedEffect, SideEffectDispatchedEffect
  <2>2. task' \in [Operation -> Tasks]
    <3>1. \E phase \in Phases : task' = [task EXCEPT ![o].phase = phase]
      BY <1>1 DEF PrepareSucceeds, StartProvider, Dispatch, Enter, Phases
    <3> QED
      BY <3>1, TaskType
  <2>3. Internal
    BY <1>1 DEF PrepareSucceeds, StartProvider, Dispatch
  <2> QED
    BY <2>1, <2>2, <2>3 DEF Internal, TypeOK, world
<1>2. CASE ReleaseRequest(o)
  <2>1. task' \in [Operation -> Tasks]
    BY <1>2, TaskType DEF ReleaseRequest, Enter, Phases
  <2>2. outstanding' \in [Operation -> BOOLEAN]
    BY <1>2 DEF ReleaseRequest, TypeOK
  <2> QED
    BY <1>2, <2>1, <2>2 DEF ReleaseRequest, TypeOK
<1>3. ASSUME NEW reply \in Replies, Respond(o, reply) PROVE TypeOK'
  <2>1. journal' \in JournalState
    <3>1. journal' = ProviderResponseReceived(journal, o, attempt)
      BY <1>3 DEF Respond
    <3> HIDE DEF attempt
    <3> QED
      BY <3>1, ProviderResponseReceivedEffect, Zenon
  <2>2. task' \in [Operation -> Tasks]
    <3>1. /\ task \in [Operation -> Tasks]
          /\ task' = [task EXCEPT ![o].phase = "responded", ![o].reply = reply]
      BY <1>3 DEF Respond, TypeOK
    <3>2. "responded" \in Phases
      BY DEF Phases
    <3>3. [task[o] EXCEPT !.phase = "responded", !.reply = reply] \in Tasks
      BY <3>1, <3>2, Zenon DEF Tasks
    <3> QED
      BY <3>1, <3>3, Zenon
  <2>3. outstanding' \in [Operation -> BOOLEAN]
    BY <1>3 DEF Respond, TypeOK
  <2> QED
    BY <1>3, <2>1, <2>2, <2>3 DEF Respond, TypeOK
<1>4. ASSUME journal' \in JournalState, NEW defer \in BOOLEAN, Settle(o, journal', defer),
             failed' \in BOOLEAN, dest' = dest, outstanding' \in [Operation -> BOOLEAN],
             leaked' \subseteq Operation, authorizations' = authorizations
      PROVE  TypeOK'
  <2>1. task' \in [Operation -> Tasks]
    BY <1>4, TaskType DEF Settle, Enter, Phases
  <2>2. reconciled' \subseteq Operation \X Nat /\ deferred' \subseteq Operation \X Nat
    BY <1>4, OpType DEF Settle, TypeOK
  <2> QED
    BY <1>4, <2>1, <2>2 DEF Settle, TypeOK
<1>5. ASSUME NEW f \in Failures,
             \/ PrepareFails(o, f) \/ StartFails(o, f) \/ AbortBeforeDispatch(o, f)
             \/ CallFails(o, f) \/ PersistError(o, f)
      PROVE  TypeOK'
  <2>1. SettleFailure(o, f)
    BY <1>5 DEF PrepareFails, StartFails, AbortBeforeDispatch, CallFails, PersistError
  <2>2. journal' \in JournalState
    BY <2>1, FailureEffect
  <2>3. Settle(o, journal', task[o].kind = "apply" /\ f = "BLOCKED")
    BY <2>1 DEF SettleFailure, Settle
  <2>4. /\ failed' \in BOOLEAN /\ dest' = dest /\ outstanding' \in [Operation -> BOOLEAN]
        /\ leaked' \subseteq Operation /\ authorizations' = authorizations
    BY <1>5
    DEF PrepareFails, StartFails, AbortBeforeDispatch, CallFails, PersistError, Cleanup,
        TypeOK, world
  <2> QED
    BY <1>4, <2>2, <2>3, <2>4
<1>6. ASSUME NEW absent \in BOOLEAN, PersistResult(o, absent) PROVE TypeOK'
  <2> DEFINE reply == task[o].reply
             defer == task[o].kind # "reconcile" /\ reply = "WAITING_EXTERNAL"
  <2>1. reply \in ProviderResults /\ reply \in OperationStates /\ reply # "PLANNED"
    BY <1>6 DEF PersistResult, ProviderResults, OperationStates
  <2>2. \/ journal' = ReconcileResult(journal, o, attempt, reply, FALSE, absent)
        \/ journal' = OperationOutcome(journal, o, attempt, reply, FALSE)
    BY <1>6 DEF PersistResult, Settle
  <2>3. journal' \in JournalState
    <3> HIDE DEF attempt, reply
    <3>1. CASE journal' = ReconcileResult(journal, o, attempt, reply, FALSE, absent)
      <4>1. IsReconcileResult(journal', journal, o, attempt, reply)
        BY <3>1 DEF IsReconcileResult
      <4> QED
        BY <2>1, <4>1, ReconcileResultEffect
    <3>2. OperationOutcome(journal, o, attempt, reply, FALSE) \in JournalState
      BY <2>1, OperationOutcomeEffect
    <3> QED
      BY <2>2, <3>1, <3>2
  <2>4. Settle(o, journal', defer)
    BY <1>6 DEF PersistResult, Settle
  <2>5. /\ failed' \in BOOLEAN /\ dest' = dest /\ outstanding' \in [Operation -> BOOLEAN]
        /\ leaked' \subseteq Operation /\ authorizations' = authorizations
    BY <1>6 DEF PersistResult, TypeOK, world
  <2> QED
    BY <1>4, <2>3, <2>4, <2>5
<1>7. CASE PersistInvalid(o)
  <2>1. \/ journal' = ReconcileResult(journal, o, attempt, "WAITING_EXTERNAL", FALSE, FALSE)
        \/ journal' = OutcomeAmbiguous(journal, o, attempt)
        \/ journal' = OperationOutcome(journal, o, attempt, "FAILED", FALSE)
    BY <1>7 DEF PersistInvalid, Settle
  <2>2. journal' \in JournalState
    <3>1. "WAITING_EXTERNAL" \in ProviderResults /\ "FAILED" \in OperationStates
      BY DEF ProviderResults, OperationStates
    <3> HIDE DEF attempt
    <3>2. CASE journal' = ReconcileResult(journal, o, attempt, "WAITING_EXTERNAL", FALSE, FALSE)
      <4>1. IsReconcileResult(journal', journal, o, attempt, "WAITING_EXTERNAL")
        BY <3>2 DEF IsReconcileResult
      <4> QED
        BY <3>1, <4>1, ReconcileResultEffect
    <3>3. OperationOutcome(journal, o, attempt, "FAILED", FALSE) \in JournalState
      BY <3>1, OperationOutcomeEffect
    <3> QED
      BY <2>1, <3>2, <3>3, OutcomeAmbiguousEffect
  <2>3. Settle(o, journal', FALSE)
    BY <1>7 DEF PersistInvalid, Settle
  <2>4. /\ failed' \in BOOLEAN /\ dest' = dest /\ outstanding' \in [Operation -> BOOLEAN]
        /\ leaked' \subseteq Operation /\ authorizations' = authorizations
    BY <1>7 DEF PersistInvalid, TypeOK, world
  <2> QED
    BY <1>4, <2>2, <2>3, <2>4
<1>8. CASE ResultNotJournaled(o)
  <2>1. journal' \in JournalState /\ Settle(o, journal', FALSE)
    BY <1>8 DEF ResultNotJournaled, Settle
  <2>2. /\ failed' \in BOOLEAN /\ dest' = dest /\ outstanding' \in [Operation -> BOOLEAN]
        /\ leaked' \subseteq Operation /\ authorizations' = authorizations
    BY <1>8 DEF ResultNotJournaled, TypeOK, world
  <2> QED
    BY <1>4, <2>1, <2>2
<1>9. CASE ReleaseLease(o)
  <2>1. journal' = LeaseExpired(journal, o, TRUE) \/ journal' = LeaseReleased(journal, o)
    BY <1>9 DEF ReleaseLease
  <2>2. journal' \in JournalState
    BY <2>1, LeaseEffect
  <2>3. task' \in [Operation -> Tasks]
    BY <1>9 DEF ReleaseLease, TypeOK, NoTask, Tasks, Phases
  <2> QED
    BY <1>9, <2>2, <2>3 DEF ReleaseLease, TypeOK, world
<1>10. CASE RenewLease(o)
  <2>1. journal' \in JournalState
    BY <1>10, LeaseEffect DEF RenewLease
  <2> QED
    BY <1>10, <2>1 DEF RenewLease, Internal, TypeOK, world
<1> QED
  BY <1>1, <1>2, <1>3, <1>5, <1>6, <1>7, <1>8, <1>9, <1>10 DEF RunTask

LEMMA SurroundingsType == ASSUME TypeOK, Surroundings PROVE TypeOK'
<1> journal \in JournalState
  BY DEF TypeOK
<1>1. ASSUME NEW m \in {"apply", "reconcile"}, Start(m) PROVE TypeOK'
  <2>1. journal' \in JournalState
    BY <1>1, RunStartedEffect DEF Start
  <2> QED
    BY <1>1, <2>1 DEF Start, TypeOK, Positions, world
<1>2. CASE Signal
  BY <1>2 DEF Signal, TypeOK, world
<1>3. CASE Crash
  <2>1. /\ Return("crash") /\ journal' \in JournalState
        /\ UNCHANGED <<mode, starts, due, dest, authorizations>>
    BY <1>3 DEF Crash, invocation
  <2>2. outstanding' \in [Operation -> BOOLEAN] /\ leaked' \subseteq Operation
    BY <1>3 DEF Crash, TypeOK
  <2> QED
    BY <2>1, <2>2, ReturnType
<1>4. ASSUME NEW o \in Operation, LeaseDeadline(o) PROVE TypeOK'
  BY <1>4 DEF LeaseDeadline, TypeOK, world
<1>5. ASSUME NEW o \in Operation, AuthorizeRetry(o) PROVE TypeOK'
  <2>1. journal' \in JournalState
    BY <1>5, OpType, RetryAuthorizedEffect DEF AuthorizeRetry
  <2>2. authorizations' \in [Operation -> Nat]
    BY <1>5 DEF AuthorizeRetry, TypeOK
  <2> QED
    BY <1>5, <2>1, <2>2 DEF AuthorizeRetry, TypeOK
<1>6. ASSUME NEW o \in Operation, NEW decision \in {"published", "rejected"},
             DestinationActs(o, decision)
      PROVE  TypeOK'
  <2>1. /\ dest' \in [Operation -> {"absent", "published", "rejected"}]
        /\ outstanding' \in [Operation -> BOOLEAN]
    BY <1>6 DEF DestinationActs, TypeOK
  <2> QED
    BY <1>6, <2>1 DEF DestinationActs, TypeOK
<1> QED
  BY <1>1, <1>2, <1>3, <1>4, <1>5, <1>6 DEF Surroundings

\* Every variable keeps its type: the records of the journal and of the goroutines stay
\* records of theirs under every event and every step of Execute and its surroundings.
THEOREM TypeCorrect == Spec => []TypeOK
<1>1. Init => TypeOK
  BY InitType
<1>2. TypeOK /\ [Next]_vars => TypeOK'
  <2> SUFFICES ASSUME TypeOK, [Next]_vars PROVE TypeOK'
    OBVIOUS
  <2>1. CASE Next
    BY <2>1, LoopType, LoopForType, RunTaskType, SurroundingsType DEF Next, Execute
  <2>2. CASE UNCHANGED vars
    BY <2>2 DEF vars, TypeOK
  <2> QED
    BY <2>1, <2>2
<1> QED
  BY <1>1, <1>2, PTL DEF Spec

-----------------------------------------------------------------------------
(* Safety: what a step does to the operations it does not work on. *)

LEMMA InitSafety == Init => Safety
BY DEF Init, Safety, Quiet, WorkIsCurrent, OperationSafe, KindKnown, LeasedIsNext, BeforeDispatch,
       AfterDispatch, DispatchedIsFirst, ResponseIsTrue, OutstandingIsUndecided, Accounted,
       Exposed, NoTask

\* An operation stays accounted for while its record and the destination stay.
LEMMA AccountedKept ==
    ASSUME NEW p \in Operation, Accounted(p), Kept(journal, journal', p),
           dest'[p] = dest[p], outstanding'[p] = outstanding[p],
           Excused(p) => Excused(p)'
    PROVE  Accounted(p)'
BY DEF Accounted, Kept, Exposed, Recorded, Op

\* So does all of its safety while its goroutine stays as well.
LEMMA OperationKept ==
    ASSUME NEW p \in Operation, OperationSafe(p), Kept(journal, journal', p),
           task'[p] = task[p],
           task[p].phase = "leased" => proc' = proc /\ (p \in todo => p \in todo'),
           dest'[p] = dest[p], outstanding'[p] = outstanding[p],
           Excused(p) => Excused(p)'
    PROVE  OperationSafe(p)'
<1>1. KindKnown(p)' /\ LeasedIsNext(p)' /\ BeforeDispatch(p)' /\ AfterDispatch(p)'
  BY DEF OperationSafe, KindKnown, LeasedIsNext, BeforeDispatch, AfterDispatch, Publishing,
         Kept, Op
<1>2. DispatchedIsFirst(p)' /\ ResponseIsTrue(p)' /\ OutstandingIsUndecided(p)'
  BY DEF OperationSafe, DispatchedIsFirst, ResponseIsTrue, OutstandingIsUndecided, Publishing,
         Exposed
<1>3. Accounted(p)'
  BY AccountedKept DEF OperationSafe
<1> QED
  BY <1>1, <1>2, <1>3 DEF OperationSafe

\* Without a goroutine, or with one that is done, only these two clauses say anything.
LEMMA OperationAtRest ==
    ASSUME NEW p \in Operation, task'[p].phase \in {"idle", "settled"}, KindKnown(p)',
           OutstandingIsUndecided(p)', Accounted(p)'
    PROVE  OperationSafe(p)'
BY DEF OperationSafe, LeasedIsNext, BeforeDispatch, AfterDispatch, DispatchedIsFirst,
       ResponseIsTrue

\* Execute returns.
LEMMA ReturnSafe ==
    ASSUME TypeOK, Safety, NEW result, Return(result),
           \A p \in Operation : OutstandingIsUndecided(p)' /\ Accounted(p)'
    PROVE  Safety'
<1>1. \A p \in Operation : task'[p].phase = "idle"
  BY DEF Return, NoTask
<1>2. \A p \in Operation : OperationSafe(p)'
  BY <1>1, OperationAtRest DEF KindKnown
<1>3. Quiet' /\ WorkIsCurrent'
  BY <1>1 DEF Quiet, WorkIsCurrent, Return
<1> QED
  BY <1>2, <1>3 DEF Safety

\* A goroutine makes a step: what it has to keep is the safety of its own operation.
LEMMA GoroutineSafe ==
    ASSUME TypeOK, Safety, NEW o \in Operation, proc = "run", proc' = "run",
           KeptBut(journal, journal', o),
           \A p \in Operation \ {o} :
               /\ task'[p] = task[p] /\ dest'[p] = dest[p]
               /\ outstanding'[p] = outstanding[p]
               /\ p \in leaked => p \in leaked',
           authorizations' = authorizations,
           OperationSafe(o)'
    PROVE  Safety'
<1>1. ASSUME NEW p \in Operation \ {o} PROVE OperationSafe(p)'
  <2>1. OperationSafe(p) /\ Kept(journal, journal', p)
    BY DEF Safety, KeptBut
  <2>2. task[p].phase # "leased"
    BY <2>1 DEF OperationSafe, LeasedIsNext
  <2>3. Excused(p) => Excused(p)'
    BY DEF Excused
  <2> QED
    BY <2>1, <2>2, <2>3, OperationKept
<1>2. Quiet' /\ WorkIsCurrent'
  BY DEF Quiet, WorkIsCurrent
<1> QED
  BY <1>1, <1>2 DEF Safety

-----------------------------------------------------------------------------
(* Safety, action by action. *)

\* Nothing that safety speaks of changes, but perhaps the bookkeeping of the journal.
LEMMA StutterSafe ==
    ASSUME TypeOK, Safety, KeptAll(journal, journal'),
           UNCHANGED <<proc, todo, task, dest, outstanding, leaked, authorizations>>
    PROVE  Safety'
<1>1. ASSUME NEW p \in Operation PROVE OperationSafe(p)'
  BY OperationKept DEF Safety, KeptAll, Excused
<1>2. WorkIsCurrent'
  <2> SUFFICES ASSUME NEW p \in todo
               PROVE  /\ proc = "batch" => Op(p).reconcileRequired'
                                           \/ Op(p).state' \in {"READY", "BLOCKED", "FAILED"}
                      /\ proc = "recover" => Op(p).state' = "RUNNING"
                                             /\ ~Op(p).reconcileRequired'
                      /\ proc = "doom" => Op(p).state' \in {"PLANNED", "READY"}
    BY DEF WorkIsCurrent
  <2>1. p \in Operation /\ Kept(journal, journal', p)
    BY DEF TypeOK, KeptAll
  <2> QED
    BY <2>1 DEF Safety, WorkIsCurrent, Kept, Op
<1> QED
  BY <1>1, <1>2 DEF Safety, Quiet

LEMMA LoopSafe == ASSUME TypeOK, Safety, Loop PROVE Safety'
<1> journal \in JournalState
  BY DEF TypeOK
<1>1. CASE \/ ReturnUnreadable \/ ReturnCompleted \/ CancelRun \/ ReturnPending
           \/ (JoinBatch /\ failed)
  <2>1. PICK result \in {"ok", "error"} : Return(result)
    BY <1>1 DEF ReturnUnreadable, ReturnCompleted, CancelRun, ReturnPending, JoinBatch
  <2>2. UNCHANGED <<dest, outstanding, leaked, authorizations>>
    BY <1>1
    DEF ReturnUnreadable, ReturnCompleted, CancelRun, ReturnPending, JoinBatch, world
  <2>3. journal' = journal \/ journal' = RunCancelled(journal)
    BY <1>1 DEF ReturnUnreadable, ReturnCompleted, CancelRun, ReturnPending, JoinBatch
  <2>4. ASSUME NEW p \in Operation PROVE OutstandingIsUndecided(p)' /\ Accounted(p)'
    <3>1. OutstandingIsUndecided(p) /\ Accounted(p)
      BY DEF Safety, OperationSafe
    <3>2. /\ journal'.ops[p].reconcileRequired = journal.ops[p].reconcileRequired
          /\ \/ journal'.ops[p].state = journal.ops[p].state
             \/ journal.ops[p].state \notin {"PUBLISHED", "REJECTED"}
      BY <2>3, RunCancelledEffect
    <3> QED
      BY <2>2, <3>1, <3>2
      DEF OutstandingIsUndecided, Accounted, Exposed, Excused, Recorded, Op
  <2> QED
    BY <2>1, <2>4, ReturnSafe
<1>2. CASE BeginPass
  <2>1. /\ proc = "loop" /\ UNCHANGED <<journal, task, dest, outstanding, leaked, authorizations>>
        /\ proc' \in Passes /\ todo' = PassWork(proc')
    <3>1. NextPass # "none" => NextPass \in Passes
      BY DEF NextPass, Passes
    <3> QED
      BY <1>2, <3>1 DEF BeginPass, AtTop, world
  <2>2. ASSUME NEW p \in Operation PROVE OperationSafe(p)'
    <3>1. OperationSafe(p) /\ task[p].phase # "leased" /\ Kept(journal, journal', p)
      BY <2>1 DEF Safety, Quiet, Kept
    <3> QED
      BY <2>1, <3>1, OperationKept DEF Excused
  <2>3. WorkIsCurrent'
    BY <2>1 DEF WorkIsCurrent, PassWork, Passes, Op
  <2>4. Quiet'
    BY <2>1 DEF Safety, Quiet, Passes
  <2> QED
    BY <2>2, <2>3, <2>4 DEF Safety
<1>3. CASE CompleteRun
  <2>1. KeptAll(journal, journal')
    BY <1>3, RunCompletedEffect DEF CompleteRun
  <2> QED
    BY <1>3, <2>1, StutterSafe DEF CompleteRun, world
<1>4. CASE FormBatch
  <2>1. /\ proc = "loop" /\ proc' = "batch" /\ todo' \subseteq Candidates
        /\ UNCHANGED <<journal, task, dest, outstanding, leaked, authorizations>>
    BY <1>4 DEF FormBatch, AtTop, Batches, world
  <2>2. ASSUME NEW p \in Operation PROVE OperationSafe(p)'
    <3>1. OperationSafe(p) /\ task[p].phase # "leased" /\ Kept(journal, journal', p)
      BY <2>1 DEF Safety, Quiet, Kept
    <3> QED
      BY <2>1, <3>1, OperationKept DEF Excused
  <2>3. WorkIsCurrent'
    BY <2>1 DEF WorkIsCurrent, Candidates, ReconcileCandidates, ApplyCandidates, Op
  <2>4. Quiet'
    BY <2>1 DEF Safety, Quiet
  <2> QED
    BY <2>2, <2>3, <2>4 DEF Safety
<1>5. CASE RunBatch \/ (JoinBatch /\ ~failed)
  <2>1. /\ UNCHANGED <<journal, todo, task, dest, outstanding, leaked, authorizations>>
        /\ proc \in {"batch", "run"} /\ proc' \in {"run", "loop"}
    BY <1>5 DEF RunBatch, JoinBatch, invocation, world
  <2>2. \A p \in Operation : task[p].phase # "leased"
    BY <1>5 DEF RunBatch, JoinBatch, Safety, OperationSafe, LeasedIsNext
  <2>3. proc' = "loop" => \A p \in Operation : task[p].phase = "idle"
    <3>1. CASE RunBatch
      BY <3>1, <2>2 DEF RunBatch, Safety, Quiet
    <3>2. CASE JoinBatch
      BY <3>2 DEF JoinBatch
    <3> QED
      BY <1>5, <3>1, <3>2
  <2>4. ASSUME NEW p \in Operation PROVE OperationSafe(p)'
    <3>1. OperationSafe(p) /\ Kept(journal, journal', p)
      BY <2>1 DEF Safety, Kept
    <3> QED
      BY <2>1, <2>2, <3>1, OperationKept DEF Excused
  <2>5. Quiet' /\ WorkIsCurrent'
    BY <2>1, <2>3 DEF Quiet, WorkIsCurrent
  <2> QED
    BY <2>4, <2>5 DEF Safety
<1> QED
  BY <1>1, <1>2, <1>3, <1>4, <1>5 DEF Loop

\* An append of a maintenance pass, given that it leaves o accounted for.
LEMMA PassStepSafe ==
    ASSUME TypeOK, Safety, NEW pass \in Passes, NEW o \in Operation, PassStep(pass, o),
           KeptBut(journal, journal', o), Accounted(o)'
    PROVE  Safety'
<1>1. /\ proc \in Passes /\ proc' \in {"loop", proc} /\ todo' = todo \ {o}
      /\ UNCHANGED <<task, dest, outstanding, leaked, authorizations>>
  BY DEF PassStep, world
<1>2. \A p \in Operation : task[p].phase = "idle"
  BY <1>1 DEF Safety, Quiet, Passes
<1>3. ASSUME NEW p \in Operation PROVE OperationSafe(p)'
  <2>1. OperationSafe(p) /\ task[p].phase # "leased"
    BY <1>2 DEF Safety
  <2>2. CASE p # o
    BY <1>1, <2>1, <2>2, OperationKept DEF KeptBut, Excused
  <2>3. CASE p = o
    BY <1>1, <1>2, <2>1, <2>3, OperationAtRest
    DEF OperationSafe, KindKnown, OutstandingIsUndecided
  <2> QED
    BY <2>2, <2>3
<1>4. WorkIsCurrent'
  <2>1. ASSUME NEW p \in todo \ {o} PROVE p \in Operation /\ Kept(journal, journal', p)
    BY DEF TypeOK, KeptBut
  <2> QED
    BY <1>1, <2>1 DEF Safety, WorkIsCurrent, Kept, Op, Passes
<1> QED
  BY <1>1, <1>2, <1>3, <1>4 DEF Safety, Quiet, Passes

LEMMA PassSafe ==
    ASSUME TypeOK, Safety, NEW o \in Operation,
           \/ ExpireJournalLease(o) \/ JournalReadyOperation(o)
           \/ RecoverUndispatched(o) \/ CancelBlocked(o)
    PROVE  Safety'
<1> DEFINE attempt == Op(o).attempt
<1> journal \in JournalState /\ attempt \in Nat
  BY OpType DEF TypeOK
<1>1. OperationSafe(o)
  BY DEF Safety
<1>2. CASE ExpireJournalLease(o) \/ JournalReadyOperation(o)
  <2>1. PICK pass \in Passes : PassStep(pass, o)
    BY <1>2 DEF ExpireJournalLease, JournalReadyOperation, Passes
  <2>2. KeptAll(journal, journal')
    <3>1. CASE ExpireJournalLease(o)
      <4> DEFINE elapsed == o \in due
      <4>1. journal' = LeaseExpired(journal, o, elapsed) /\ elapsed \in BOOLEAN
        BY <3>1 DEF ExpireJournalLease
      <4> HIDE DEF elapsed
      <4> QED
        BY <4>1, LeaseEffect
    <3>2. CASE JournalReadyOperation(o)
      BY <3>2, OperationReadyEffect DEF JournalReadyOperation
    <3> QED
      BY <1>2, <3>1, <3>2
  <2>3. Accounted(o)'
    BY <1>1, <2>1, <2>2, AccountedKept DEF OperationSafe, KeptAll, PassStep, world, Excused
  <2> QED
    BY <2>1, <2>2, <2>3, PassStepSafe DEF KeptAll, KeptBut
<1>3. CASE RecoverUndispatched(o)
  <2>1. PassStep("recover", o) /\ "recover" \in Passes
    BY <1>3 DEF RecoverUndispatched, Passes
  <2>2. KeptBut(journal, journal', o)
    <3>1. journal' = OperationOutcome(journal, o, attempt, "FAILED", TRUE)
      BY <1>3 DEF RecoverUndispatched
    <3>2. "FAILED" \in OperationStates /\ TRUE \in BOOLEAN
      BY DEF OperationStates
    <3> HIDE DEF attempt
    <3> QED
      BY <3>1, <3>2, OperationOutcomeEffect
  <2>3. Op(o).state = "RUNNING" /\ ~Op(o).reconcileRequired
    BY <2>1 DEF PassStep, Safety, WorkIsCurrent
  <2>4. Accounted(o)'
    BY <1>1, <2>1, <2>3
    DEF OperationSafe, Accounted, Recorded, Exposed, Excused, PassStep, world
  <2> QED
    BY <2>1, <2>2, <2>4, PassStepSafe
<1>4. CASE CancelBlocked(o)
  <2>1. PassStep("doom", o) /\ "doom" \in Passes
    BY <1>4 DEF CancelBlocked, Passes
  <2>2. /\ KeptBut(journal, journal', o)
        /\ journal'.ops[o].reconcileRequired = journal.ops[o].reconcileRequired
    BY <1>4, OperationCancelledEffect DEF CancelBlocked
  <2>3. Op(o).state \in {"PLANNED", "READY"}
    BY <2>1 DEF PassStep, Safety, WorkIsCurrent
  <2>4. Accounted(o)'
    BY <1>1, <2>1, <2>2, <2>3
    DEF OperationSafe, Accounted, Recorded, Exposed, Excused, PassStep, world, Op
  <2> QED
    BY <2>1, <2>2, <2>4, PassStepSafe
<1> QED
  BY <1>2, <1>3, <1>4

LEMMA AcquireLeaseSafe ==
    ASSUME TypeOK, Safety, NEW o \in Operation, AcquireLease(o) PROVE Safety'
<1> DEFINE kind == IF Op(o).reconcileRequired THEN "reconcile" ELSE "apply"
<1>1. /\ proc = "batch" /\ o \in todo /\ KeptAll(journal, journal')
      /\ UNCHANGED <<proc, todo, dest, outstanding, leaked, authorizations>>
  BY LeaseEffect DEF AcquireLease, NextCandidate, TypeOK, world
<1>2. /\ task'[o] = [kind |-> kind, phase |-> "leased", reply |-> "none"]
      /\ \A p \in Operation \ {o} : task'[p] = task[p]
  BY DEF AcquireLease, TypeOK
<1>3. ASSUME NEW p \in Operation \ {o} PROVE OperationSafe(p)'
  BY <1>1, <1>2, OperationKept DEF Safety, KeptAll, Excused
<1>4. OperationSafe(o)'
  <2>1. OperationSafe(o) /\ Kept(journal, journal', o)
    BY <1>1 DEF Safety, KeptAll
  <2>2. Accounted(o)' /\ OutstandingIsUndecided(o)'
    BY <1>1, <2>1, AccountedKept DEF OperationSafe, Excused, OutstandingIsUndecided
  <2>3. LeasedIsNext(o)' /\ KindKnown(o)'
    BY <1>1, <1>2, <2>1 DEF LeasedIsNext, KindKnown, Kept, Op
  <2> QED
    BY <1>2, <2>2, <2>3
    DEF OperationSafe, BeforeDispatch, AfterDispatch, DispatchedIsFirst, ResponseIsTrue
<1>5. WorkIsCurrent'
  <2>1. \A p \in todo : p \in Operation /\ Kept(journal, journal', p)
    BY <1>1 DEF TypeOK, KeptAll
  <2> QED
    BY <1>1, <2>1 DEF Safety, WorkIsCurrent, Kept, Op
<1>6. Quiet'
  BY <1>1, <1>2 DEF Safety, Quiet
<1> QED
  BY <1>3, <1>4, <1>5, <1>6 DEF Safety

LEMMA PrepareTaskSafe ==
    ASSUME TypeOK, Safety, NEW o \in Operation, PrepareTask(o) PROVE Safety'
<1> DEFINE attempt == Op(o).attempt
<1> journal \in JournalState /\ attempt \in Nat /\ attempt + 1 \in Nat
  BY OpType DEF TypeOK
<1>1. /\ proc = "batch" /\ task[o].phase = "leased" /\ todo' = todo \ {o} /\ o \in todo
      /\ UNCHANGED <<proc, dest, outstanding, leaked, authorizations>>
      /\ OperationSafe(o)
  BY DEF PrepareTask, Safety, OperationSafe, LeasedIsNext, world
<1>2. /\ task'[o].phase = "prepared" /\ task'[o].kind = task[o].kind
      /\ \A p \in Operation \ {o} : task'[p] = task[p]
  BY DEF PrepareTask, TypeOK, Tasks
<1>3. /\ KeptBut(journal, journal', o)
      /\ \/ /\ task[o].kind = "apply"
            /\ journal'.ops[o].state = "RUNNING"
            /\ journal'.ops[o].reconcileRequired = FALSE
            /\ journal'.ops[o].dispatched = FALSE
         \/ task[o].kind # "apply" /\ Kept(journal, journal', o)
  <2>1. CASE task[o].kind = "apply"
    <3>1. journal' = AttemptStarted(journal, o, attempt + 1)
      BY <2>1 DEF PrepareTask
    <3> HIDE DEF attempt
    <3> QED
      BY <2>1, <3>1, AttemptStartedEffect
  <2>2. CASE task[o].kind # "apply"
    <3>1. journal' = ReconcileStarted(journal, o, attempt)
      BY <2>2 DEF PrepareTask
    <3> HIDE DEF attempt
    <3> QED
      BY <2>2, <3>1, ReconcileStartedEffect DEF KeptAll, KeptBut
  <2> QED
    BY <2>1, <2>2
<1>4. ASSUME NEW p \in Operation \ {o} PROVE OperationSafe(p)'
  BY <1>1, <1>2, <1>3, OperationKept DEF Safety, KeptBut, Excused
<1>5. Accounted(o)'
  <2>1. CASE task[o].kind = "apply"
    <3>1. ~Op(o).reconcileRequired /\ Op(o).state \in {"READY", "BLOCKED", "FAILED"}
      BY <1>1, <2>1 DEF OperationSafe, LeasedIsNext, Safety, WorkIsCurrent
    <3> QED
      BY <1>1, <3>1 DEF OperationSafe, Accounted, Recorded, Exposed, Excused
  <2>2. CASE task[o].kind # "apply"
    BY <1>1, <1>3, <2>2, AccountedKept DEF OperationSafe, Excused
  <2> QED
    BY <2>1, <2>2
<1>6. BeforeDispatch(o)' /\ KindKnown(o)' /\ OutstandingIsUndecided(o)'
  BY <1>1, <1>2, <1>3
  DEF BeforeDispatch, KindKnown, OperationSafe, OutstandingIsUndecided, Op
<1>7. OperationSafe(o)'
  BY <1>2, <1>5, <1>6
  DEF OperationSafe, LeasedIsNext, AfterDispatch, DispatchedIsFirst, ResponseIsTrue
<1>8. WorkIsCurrent'
  <2>1. \A p \in todo \ {o} : p \in Operation /\ Kept(journal, journal', p)
    BY <1>3 DEF TypeOK, KeptBut
  <2> QED
    BY <1>1, <2>1 DEF Safety, WorkIsCurrent, Kept, Op
<1>9. Quiet'
  BY <1>1, <1>2 DEF Safety, Quiet
<1> QED
  BY <1>4, <1>7, <1>8, <1>9 DEF Safety

LEMMA LoopForSafe == ASSUME TypeOK, Safety, NEW o \in Operation, LoopFor(o) PROVE Safety'
<1>1. CASE BackoffInterrupted(o)
  <2>1. /\ proc = "batch" /\ todo' = {} /\ \A p \in Operation : task[p].phase # "leased"
        /\ UNCHANGED <<journal, proc, task, dest, outstanding, leaked, authorizations>>
    BY <1>1 DEF BackoffInterrupted, NextCandidate, world
  <2>2. ASSUME NEW p \in Operation PROVE OperationSafe(p)'
    <3>1. OperationSafe(p) /\ Kept(journal, journal', p)
      BY <2>1 DEF Safety, Kept
    <3> QED
      BY <2>1, <3>1, OperationKept DEF Excused
  <2> QED
    BY <2>1, <2>2 DEF Safety, Quiet, WorkIsCurrent
<1>2. CASE AcquireInterrupted(o)
  <2>1. /\ Return("error")
        /\ UNCHANGED <<journal, dest, outstanding, leaked, authorizations>>
    BY <1>2 DEF AcquireInterrupted, world
  <2>2. ASSUME NEW p \in Operation PROVE OutstandingIsUndecided(p)' /\ Accounted(p)'
    BY <2>1
    DEF Safety, OperationSafe, OutstandingIsUndecided, Accounted, Exposed, Excused, Recorded, Op
  <2> QED
    BY <2>1, <2>2, ReturnSafe
<1> QED
  BY <1>1, <1>2, PassSafe, AcquireLeaseSafe, PrepareTaskSafe DEF LoopFor

\* The outcome of a task is journaled.
LEMMA SettledSafe ==
    ASSUME TypeOK, Safety, NEW o \in Operation, proc = "run", proc' = "run",
           Enter(o, "settled"), task[o].phase # "idle",
           KeptBut(journal, journal', o),
           UNCHANGED <<dest, authorizations>>, leaked \subseteq leaked',
           \A p \in Operation \ {o} : outstanding'[p] = outstanding[p],
           OutstandingIsUndecided(o)', Accounted(o)'
    PROVE  Safety'
<1>1. /\ task'[o].phase = "settled" /\ task'[o].kind = task[o].kind
      /\ \A p \in Operation \ {o} : task'[p] = task[p]
  BY DEF Enter, TypeOK, Tasks
<1>2. KindKnown(o)'
  BY <1>1 DEF KindKnown, Safety, OperationSafe
<1>3. OperationSafe(o)'
  BY <1>1, <1>2, OperationAtRest
<1> QED
  BY <1>1, <1>3, GoroutineSafe

\* A failed call: unless it is marked for reconciliation, nothing was published by it.
LEMMA FailureSafe ==
    ASSUME TypeOK, Safety, NEW o \in Operation, NEW f \in Failures, proc = "run",
           SettleFailure(o, f), task[o].phase # "idle",
           UNCHANGED <<dest, authorizations>>, leaked \subseteq leaked',
           \A p \in Operation \ {o} : outstanding'[p] = outstanding[p],
           OutstandingIsUndecided(o)',
           Publishing(o) /\ Decision(Op(o).dispatched, TRUE, f) # "reconcile"
              => Excused(o)' \/ ~Exposed(o)'
    PROVE  Safety'
<1>1. Enter(o, "settled") /\ proc' = "run"
  BY DEF SettleFailure, Settle
<1>2. /\ KeptBut(journal, journal', o)
      /\ \/ journal'.ops[o].reconcileRequired = TRUE
         \/ /\ task[o].kind # "reconcile"
            /\ Decision(Op(o).dispatched, o \in SideEffecting, f) # "reconcile"
  BY FailureEffect
<1>3. task[o].kind \in {"apply", "reconcile"}
  BY TaskType DEF Safety, OperationSafe, KindKnown, TypeOK, Tasks
<1>4. Accounted(o)'
  <2>1. CASE journal'.ops[o].reconcileRequired = TRUE
    BY <2>1 DEF Accounted, Op
  <2>2. CASE o \notin SideEffecting
    BY <2>2 DEF Accounted
  <2>3. CASE /\ task[o].kind # "reconcile" /\ o \in SideEffecting
             /\ Decision(Op(o).dispatched, o \in SideEffecting, f) # "reconcile"
    <3>1. Publishing(o)
      BY <1>3, <2>3 DEF Publishing
    <3>2. Decision(Op(o).dispatched, TRUE, f) # "reconcile"
      BY <2>3 DEF Decision
    <3> QED
      BY <3>1, <3>2 DEF Accounted
  <2> QED
    BY <1>2, <2>1, <2>2, <2>3
<1> QED
  BY <1>1, <1>2, <1>4, SettledSafe

\* Before its dispatch an attempt has published nothing.
LEMMA NothingYet ==
    ASSUME Safety, NEW o \in Operation, Publishing(o),
           task[o].phase \in {"prepared", "credentialed", "started"}
    PROVE  Excused(o) \/ ~Exposed(o)
BY DEF Safety, OperationSafe, BeforeDispatch, Accounted, Recorded, Publishing

\* A goroutine goes on to its next phase; its journal record may change on the way.
LEMMA AdvanceSafe ==
    ASSUME TypeOK, Safety, NEW o \in Operation, proc = "run", Internal,
           NEW phase \in Phases, Enter(o, phase), KindKnown(o)',
           KeptBut(journal, journal', o),
           phase \in {"credentialed", "started", "dispatched"},
           BeforeDispatch(o)', AfterDispatch(o)', DispatchedIsFirst(o)', Accounted(o)'
    PROVE  Safety'
<1>1. /\ task'[o].phase = phase
      /\ \A p \in Operation \ {o} : task'[p] = task[p]
  BY DEF Enter, TypeOK, Tasks
<1>2. proc' = "run" /\ UNCHANGED <<dest, outstanding, leaked, authorizations>>
  BY DEF Internal, world
<1>3. OutstandingIsUndecided(o)'
  BY <1>2 DEF Safety, OperationSafe, OutstandingIsUndecided
<1>4. OperationSafe(o)'
  BY <1>1, <1>3 DEF OperationSafe, LeasedIsNext, ResponseIsTrue
<1> QED
  BY <1>1, <1>2, <1>4, GoroutineSafe

LEMMA PrepareSafe ==
    ASSUME TypeOK, Safety, NEW o \in Operation, PrepareSucceeds(o) \/ StartProvider(o)
    PROVE  Safety'
<1> DEFINE attempt == Op(o).attempt
<1> journal \in JournalState /\ attempt \in Nat
  BY OpType DEF TypeOK
<1>1. /\ proc = "run" /\ Internal /\ task[o].phase \in {"prepared", "credentialed"}
      /\ OperationSafe(o)
  BY DEF PrepareSucceeds, StartProvider, Goroutine, Safety
<1>2. PICK phase \in {"credentialed", "started"} : Enter(o, phase)
  BY DEF PrepareSucceeds, StartProvider
<1>3. KeptAll(journal, journal')
  <2>1. \/ journal' = CredentialResolved(journal, o, attempt)
        \/ journal' = ProviderProcessStarted(journal, o, attempt)
    BY DEF PrepareSucceeds, StartProvider
  <2> HIDE DEF attempt
  <2> QED
    BY <2>1, CredentialResolvedEffect, ProviderProcessStartedEffect
<1>4. task'[o].phase = phase /\ task'[o].kind = task[o].kind
  BY <1>2 DEF Enter, TypeOK, Tasks
<1>5. Kept(journal, journal', o) /\ KeptBut(journal, journal', o)
  BY <1>3 DEF KeptAll, KeptBut
<1>6. KindKnown(o)' /\ BeforeDispatch(o)'
  BY <1>1, <1>4, <1>5 DEF OperationSafe, KindKnown, BeforeDispatch, Kept, Op
<1>7. Accounted(o)'
  BY <1>1, <1>5, AccountedKept DEF OperationSafe, Internal, world, Excused
<1>8. AfterDispatch(o)' /\ DispatchedIsFirst(o)' /\ phase \in Phases
  BY <1>4 DEF AfterDispatch, DispatchedIsFirst, Phases
<1> QED
  BY <1>1, <1>2, <1>5, <1>6, <1>7, <1>8, AdvanceSafe

LEMMA DispatchSafe == ASSUME TypeOK, Safety, NEW o \in Operation, Dispatch(o) PROVE Safety'
<1> DEFINE attempt == Op(o).attempt
<1> journal \in JournalState /\ attempt \in Nat
  BY OpType DEF TypeOK
<1>1. /\ proc = "run" /\ Internal /\ task[o].phase = "started" /\ Publishing(o)
      /\ Enter(o, "dispatched")
  BY DEF Dispatch, Goroutine
<1>2. /\ journal'.ops[o].reconcileRequired = TRUE
      /\ journal'.ops[o].dispatched = TRUE
      /\ KeptBut(journal, journal', o)
  <2>1. journal' = SideEffectDispatched(journal, o, attempt)
    BY DEF Dispatch
  <2> HIDE DEF attempt
  <2> QED
    BY <2>1, SideEffectDispatchedEffect
<1>3. task'[o].phase = "dispatched" /\ task'[o].kind = task[o].kind
  BY <1>1 DEF Enter, TypeOK, Tasks
<1>4. DispatchedIsFirst(o)'
  BY <1>1, <1>3, NothingYet
  DEF DispatchedIsFirst, Publishing, Excused, Exposed, Internal, world
<1>5. Accounted(o)' /\ AfterDispatch(o)' /\ BeforeDispatch(o)' /\ KindKnown(o)'
  BY <1>1, <1>2, <1>3 DEF Accounted, AfterDispatch, BeforeDispatch, KindKnown, Publishing, Op
<1>6. "dispatched" \in Phases
  BY DEF Phases
<1> QED
  BY <1>1, <1>2, <1>4, <1>5, <1>6, AdvanceSafe
LEMMA ReleaseRequestSafe ==
    ASSUME TypeOK, Safety, NEW o \in Operation, ReleaseRequest(o) PROVE Safety'
<1>1. /\ proc = "run" /\ proc' = "run" /\ OperationSafe(o)
      /\ task[o].phase = IF Publishing(o) THEN "dispatched" ELSE "started"
      /\ UNCHANGED <<journal, dest, leaked, authorizations>>
  BY DEF ReleaseRequest, Goroutine, Safety
<1>2. /\ task'[o].phase = "requested" /\ task'[o].kind = task[o].kind
      /\ \A p \in Operation \ {o} : task'[p] = task[p]
  BY DEF ReleaseRequest, Enter, TypeOK, Tasks
<1>3. /\ outstanding'[o] = outstanding[o] \/ (Publishing(o) /\ dest[o] = "absent")
      /\ \A p \in Operation \ {o} : outstanding'[p] = outstanding[p]
  BY DEF ReleaseRequest, TypeOK
<1>4. Publishing(o) => Op(o).reconcileRequired /\ Op(o).dispatched
  BY <1>1 DEF OperationSafe, AfterDispatch
<1>5. Accounted(o)' /\ OutstandingIsUndecided(o)'
  BY <1>1, <1>3, <1>4
  DEF OperationSafe, Accounted, OutstandingIsUndecided, Exposed, Excused, Recorded, Publishing, Op
<1>6. AfterDispatch(o)' /\ KindKnown(o)'
  BY <1>1, <1>2, <1>4 DEF OperationSafe, AfterDispatch, KindKnown, Publishing, Op
<1>7. OperationSafe(o)'
  BY <1>2, <1>5, <1>6
  DEF OperationSafe, LeasedIsNext, BeforeDispatch, DispatchedIsFirst, ResponseIsTrue
<1>8. KeptBut(journal, journal', o)
  BY <1>1 DEF KeptBut, Kept
<1> QED
  BY <1>1, <1>2, <1>3, <1>7, <1>8, GoroutineSafe

LEMMA RespondSafe ==
    ASSUME TypeOK, Safety, NEW o \in Operation, NEW reply \in Replies, Respond(o, reply)
    PROVE  Safety'
<1> DEFINE attempt == Op(o).attempt
<1> journal \in JournalState /\ attempt \in Nat
  BY OpType DEF TypeOK
<1>1. /\ proc = "run" /\ proc' = "run" /\ OperationSafe(o) /\ Truthful(o, reply)
      /\ task[o].phase = "requested"
      /\ UNCHANGED <<dest, leaked, authorizations>>
  BY DEF Respond, Goroutine, Safety
<1>2. /\ task'[o].phase = "responded" /\ task'[o].reply = reply
      /\ task'[o].kind = task[o].kind
      /\ \A p \in Operation \ {o} : task'[p] = task[p]
  BY DEF Respond, TypeOK, Tasks
<1>3. KeptAll(journal, journal')
  <2>1. journal' = ProviderResponseReceived(journal, o, attempt)
    BY DEF Respond
  <2> HIDE DEF attempt
  <2> QED
    BY <2>1, ProviderResponseReceivedEffect
<1>4. /\ IF Publishing(o) /\ reply \in {"RETRYABLE", "PERMANENT"} /\ ~Excused(o)
         THEN outstanding'[o] = FALSE
         ELSE outstanding'[o] = outstanding[o]
      /\ \A p \in Operation \ {o} : outstanding'[p] = outstanding[p]
  BY DEF Respond, TypeOK
<1>5. Kept(journal, journal', o) /\ KeptBut(journal, journal', o)
  BY <1>3 DEF KeptAll, KeptBut
<1>6. Accounted(o)' /\ OutstandingIsUndecided(o)'
  BY <1>1, <1>4, <1>5
  DEF OperationSafe, Accounted, OutstandingIsUndecided, Exposed, Excused, Recorded, Kept, Op
<1>7. AfterDispatch(o)' /\ KindKnown(o)'
  BY <1>1, <1>2, <1>5 DEF OperationSafe, AfterDispatch, KindKnown, Publishing, Kept, Op
<1>8. ResponseIsTrue(o)'
  BY <1>1, <1>2, <1>4 DEF ResponseIsTrue, Truthful, Publishing, Excused, Exposed
<1>9. OperationSafe(o)'
  BY <1>2, <1>6, <1>7, <1>8
  DEF OperationSafe, LeasedIsNext, BeforeDispatch, DispatchedIsFirst
<1> QED
  BY <1>1, <1>2, <1>4, <1>5, <1>9, GoroutineSafe

\* The failures of a task, by how far it had come.
LEMMA TaskFailureSafe ==
    ASSUME TypeOK, Safety, NEW o \in Operation, NEW f \in Failures,
           \/ PrepareFails(o, f) \/ StartFails(o, f) \/ AbortBeforeDispatch(o, f)
           \/ CallFails(o, f) \/ PersistError(o, f)
    PROVE  Safety'
<1>1. /\ proc = "run" /\ SettleFailure(o, f) /\ OperationSafe(o)
      /\ task[o].phase \in {"prepared", "credentialed", "started", "requested", "responded"}
      /\ UNCHANGED <<dest, authorizations>>
  BY DEF PrepareFails, StartFails, AbortBeforeDispatch, CallFails, PersistError, Goroutine,
         Safety, world
<1>2. CASE AbortBeforeDispatch(o, f) /\ UNCHANGED <<outstanding, leaked>>
  BY <1>1, <1>2, NothingYet, FailureSafe
  DEF AbortBeforeDispatch, Goroutine, OperationSafe, OutstandingIsUndecided, Exposed, Excused
<1>3. CASE AbortBeforeDispatch(o, f) /\ ~UNCHANGED <<outstanding, leaked>>
  <2>1. /\ leaked' = leaked \cup {o}
        /\ outstanding'[o] = (dest[o] = "absent")
        /\ \A p \in Operation \ {o} : outstanding'[p] = outstanding[p]
    BY <1>3 DEF AbortBeforeDispatch, Cleanup, TypeOK
  <2>2. Excused(o)' /\ OutstandingIsUndecided(o)'
    BY <1>1, <2>1 DEF Excused, OutstandingIsUndecided
  <2> QED
    BY <1>1, <2>1, <2>2, FailureSafe
<1>4. CASE PrepareFails(o, f) \/ StartFails(o, f)
  <2>1. /\ task[o].phase \in {"prepared", "credentialed"}
        /\ UNCHANGED <<outstanding, leaked>>
    BY <1>4 DEF PrepareFails, StartFails, Goroutine, world
  <2> QED
    BY <1>1, <2>1, NothingYet, FailureSafe
    DEF OperationSafe, OutstandingIsUndecided, Exposed, Excused
<1>5. CASE CallFails(o, f) \/ PersistError(o, f)
  <2>1. task[o].phase \in {"requested", "responded"} /\ UNCHANGED <<outstanding, leaked>>
    BY <1>5 DEF CallFails, PersistError, Goroutine, world
  <2>2. ASSUME Publishing(o), Decision(Op(o).dispatched, TRUE, f) # "reconcile"
        PROVE  Excused(o)' \/ ~Exposed(o)'
    <3>1. Op(o).dispatched
      BY <1>1, <2>1, <2>2 DEF OperationSafe, AfterDispatch
    <3>2. f \in {"RETRYABLE", "PERMANENT", "BLOCKED"}
      BY <2>2, <3>1 DEF Decision, IsAmbiguous, Failures
    <3>3. PersistError(o, f) /\ task[o].reply = f /\ task[o].reply \in {"RETRYABLE", "PERMANENT"}
      <4>1. PersistError(o, f)
        BY <1>5, <3>2 DEF CallFails, Reported
      <4>2. task[o].reply = f
        BY <3>2, <4>1 DEF PersistError, Reported
      <4>3. task[o].reply # "BLOCKED"
        BY TaskType DEF Tasks, Replies, ProviderResults, TypeOK
      <4> QED
        BY <3>2, <4>1, <4>2, <4>3
    <3> QED
      BY <1>1, <2>1, <2>2, <3>3
      DEF PersistError, Goroutine, OperationSafe, ResponseIsTrue, Publishing, Exposed, Excused
  <2>3. OutstandingIsUndecided(o)'
    BY <1>1, <2>1 DEF OperationSafe, OutstandingIsUndecided
  <2> QED
    BY <1>1, <2>1, <2>2, <2>3, FailureSafe
<1> QED
  BY <1>2, <1>3, <1>4, <1>5
LEMMA PersistResultSafe ==
    ASSUME TypeOK, Safety, NEW o \in Operation, NEW absent \in BOOLEAN, PersistResult(o, absent)
    PROVE  Safety'
<1> DEFINE attempt == Op(o).attempt
           reply   == task[o].reply
<1> journal \in JournalState /\ attempt \in Nat
  BY OpType DEF TypeOK
<1>1. /\ proc = "run" /\ proc' = "run" /\ Enter(o, "settled") /\ OperationSafe(o)
      /\ task[o].phase = "responded" /\ reply \in ProviderResults
      /\ UNCHANGED <<dest, outstanding, leaked, authorizations>>
  BY DEF PersistResult, Settle, Goroutine, Safety, world
<1>2. reply \in OperationStates /\ reply # "PLANNED"
  BY <1>1 DEF ProviderResults, OperationStates
<1>3. /\ KeptBut(journal, journal', o)
      /\ journal'.ops[o].state = reply
      /\ Waits(journal'.ops[o], reply)
  <2>1. \/ journal' = ReconcileResult(journal, o, attempt, reply, FALSE, absent)
        \/ journal' = OperationOutcome(journal, o, attempt, reply, FALSE)
    BY DEF PersistResult, Settle
  <2> HIDE DEF attempt, reply
  <2>2. CASE journal' = ReconcileResult(journal, o, attempt, reply, FALSE, absent)
    <3>1. reply \in ProviderResults
      BY <1>1
    <3>2. IsReconcileResult(journal', journal, o, attempt, reply)
      BY <2>2 DEF IsReconcileResult
    <3>3. KeptBut(journal, journal', o) /\ Answered(journal', o, reply)
      BY <3>1, <3>2, ReconcileResultEffect
    <3> QED
      BY <3>3 DEF Answered
  <2>3. CASE journal' = OperationOutcome(journal, o, attempt, reply, FALSE)
    BY <1>2, <2>3, OperationOutcomeEffect
  <2> QED
    BY <2>1, <2>2, <2>3
<1>4. Accounted(o)'
  <2>1. CASE reply = "WAITING_EXTERNAL"
    BY <1>3, <2>1 DEF Waits, Accounted, Op
  <2>2. CASE reply # "WAITING_EXTERNAL"
    <3>1. o \in SideEffecting =>
             \/ reply = "PUBLISHED" /\ dest[o] = "published"
             \/ reply = "REJECTED" /\ dest[o] = "rejected"
      BY <1>1, <2>2 DEF OperationSafe, ResponseIsTrue, ProviderResults
    <3> QED
      BY <1>1, <1>3, <3>1 DEF Accounted, Recorded, Op
  <2> QED
    BY <2>1, <2>2
<1>5. OutstandingIsUndecided(o)'
  BY <1>1 DEF OperationSafe, OutstandingIsUndecided
<1> QED
  BY <1>1, <1>3, <1>4, <1>5, SettledSafe

LEMMA PersistInvalidSafe ==
    ASSUME TypeOK, Safety, NEW o \in Operation, PersistInvalid(o)
    PROVE  Safety'
<1> DEFINE attempt == Op(o).attempt
<1> journal \in JournalState /\ attempt \in Nat
  BY OpType DEF TypeOK
<1>1. /\ proc = "run" /\ proc' = "run" /\ Enter(o, "settled") /\ OperationSafe(o)
      /\ task[o].phase = "responded"
      /\ UNCHANGED <<dest, outstanding, leaked, authorizations>>
  BY DEF PersistInvalid, Settle, Goroutine, Safety, world
<1>2. task[o].kind # "reconcile" => task[o].kind = "apply"
  BY <1>1, TaskType DEF OperationSafe, KindKnown, TypeOK, Tasks
<1>3. /\ KeptBut(journal, journal', o)
      /\ journal'.ops[o].reconcileRequired \/ o \notin SideEffecting
  <2>1. \/ journal' = ReconcileResult(journal, o, attempt, "WAITING_EXTERNAL", FALSE, FALSE)
        \/ journal' = OutcomeAmbiguous(journal, o, attempt)
        \/ /\ journal' = OperationOutcome(journal, o, attempt, "FAILED", FALSE)
           /\ o \notin SideEffecting
    BY <1>2 DEF PersistInvalid, Settle, Publishing
  <2>2. "WAITING_EXTERNAL" \in ProviderResults /\ "FAILED" \in OperationStates
    BY DEF ProviderResults, OperationStates
  <2> HIDE DEF attempt
  <2>3. CASE journal' = ReconcileResult(journal, o, attempt, "WAITING_EXTERNAL", FALSE, FALSE)
    <3>1. IsReconcileResult(journal', journal, o, attempt, "WAITING_EXTERNAL")
      BY <2>3 DEF IsReconcileResult
    <3>2. KeptBut(journal, journal', o) /\ Answered(journal', o, "WAITING_EXTERNAL")
      BY <2>2, <3>1, ReconcileResultEffect
    <3> QED
      BY <3>2 DEF Answered, Waits
  <2>4. CASE journal' = OutcomeAmbiguous(journal, o, attempt)
    BY <2>4, OutcomeAmbiguousEffect
  <2>5. CASE /\ journal' = OperationOutcome(journal, o, attempt, "FAILED", FALSE)
             /\ o \notin SideEffecting
    BY <2>2, <2>5, OperationOutcomeEffect
  <2> QED
    BY <2>1, <2>3, <2>4, <2>5
<1>4. Accounted(o)' /\ OutstandingIsUndecided(o)'
  BY <1>1, <1>3 DEF Accounted, OperationSafe, OutstandingIsUndecided, Op
<1> QED
  BY <1>1, <1>3, <1>4, SettledSafe

\* The result could not be journaled: the record still asks for reconciliation.
LEMMA ResultNotJournaledSafe ==
    ASSUME TypeOK, Safety, NEW o \in Operation, ResultNotJournaled(o)
    PROVE  Safety'
<1>1. /\ proc = "run" /\ proc' = "run" /\ Enter(o, "settled") /\ OperationSafe(o)
      /\ task[o].phase = "responded" /\ journal' = journal
      /\ UNCHANGED <<dest, outstanding, leaked, authorizations>>
  BY DEF ResultNotJournaled, Settle, Goroutine, Safety, world
<1>2. Kept(journal, journal', o) /\ KeptBut(journal, journal', o)
  BY <1>1 DEF KeptBut, Kept
<1>3. Accounted(o)' /\ OutstandingIsUndecided(o)'
  BY <1>1, <1>2, AccountedKept DEF OperationSafe, OutstandingIsUndecided, Excused
<1> QED
  BY <1>1, <1>2, <1>3, SettledSafe

LEMMA ReleaseLeaseSafe == ASSUME TypeOK, Safety, NEW o \in Operation, ReleaseLease(o) PROVE Safety'
<1>1. /\ proc = "run" /\ proc' = "run" /\ OperationSafe(o)
      /\ UNCHANGED <<dest, outstanding, leaked, authorizations>>
  BY DEF ReleaseLease, Goroutine, Safety, world
<1>2. /\ task'[o].phase = "idle"
      /\ \A p \in Operation \ {o} : task'[p] = task[p]
  BY DEF ReleaseLease, NoTask, TypeOK
<1>3. KeptAll(journal, journal')
  <2>1. journal' = LeaseExpired(journal, o, TRUE) \/ journal' = LeaseReleased(journal, o)
    BY DEF ReleaseLease
  <2> QED
    BY <2>1, LeaseEffect DEF TypeOK
<1>4. Kept(journal, journal', o) /\ KeptBut(journal, journal', o)
  BY <1>3 DEF KeptAll, KeptBut
<1>5. Accounted(o)' /\ OutstandingIsUndecided(o)' /\ KindKnown(o)'
  BY <1>1, <1>2, <1>4, AccountedKept DEF OperationSafe, OutstandingIsUndecided, Excused, KindKnown
<1>6. OperationSafe(o)'
  BY <1>2, <1>5, OperationAtRest
<1> QED
  BY <1>1, <1>2, <1>4, <1>6, GoroutineSafe

LEMMA RunTaskSafe == ASSUME TypeOK, Safety, NEW o \in Operation, RunTask(o) PROVE Safety'
<1>1. CASE PrepareSucceeds(o) \/ StartProvider(o) \/ Dispatch(o) \/ ReleaseRequest(o)
  BY <1>1, PrepareSafe, DispatchSafe, ReleaseRequestSafe
<1>2. CASE \E reply \in Replies : Respond(o, reply)
  BY <1>2, RespondSafe
<1>3. CASE \E f \in Failures : \/ PrepareFails(o, f) \/ StartFails(o, f)
                               \/ AbortBeforeDispatch(o, f) \/ CallFails(o, f)
                               \/ PersistError(o, f)
  BY <1>3, TaskFailureSafe
<1>4. CASE \/ \E absent \in BOOLEAN : PersistResult(o, absent)
           \/ PersistInvalid(o) \/ ResultNotJournaled(o) \/ ReleaseLease(o)
  BY <1>4, PersistResultSafe, PersistInvalidSafe, ResultNotJournaledSafe, ReleaseLeaseSafe
<1>5. CASE RenewLease(o)
  <2>1. KeptAll(journal, journal')
    BY <1>5, LeaseEffect DEF RenewLease, TypeOK
  <2> QED
    BY <1>5, <2>1, StutterSafe DEF RenewLease, Internal, world
<1> QED
  BY <1>1, <1>2, <1>3, <1>4, <1>5 DEF RunTask
\* Killed in whatever position: a request that leaves late was dispatched, or leaks.
LEMMA CrashSafe == ASSUME TypeOK, Safety, Crash PROVE Safety'
<1>1. PICK late \in SUBSET {o \in Operation : Goroutine(o, "dispatched")},
           leaks \in SUBSET Operation :
         /\ leaked' = leaked \cup leaks
         /\ outstanding' = [o \in Operation |->
               outstanding[o] \/ (o \in late \cup leaks /\ dest[o] = "absent")]
  BY DEF Crash
<1>2. Return("crash") /\ UNCHANGED <<journal, dest, authorizations>>
  BY DEF Crash
<1>3. ASSUME NEW p \in Operation PROVE OutstandingIsUndecided(p)' /\ Accounted(p)'
  <2>1. OperationSafe(p)
    BY DEF Safety
  <2>2. OutstandingIsUndecided(p)'
    BY <1>1, <1>2, <2>1 DEF OperationSafe, OutstandingIsUndecided
  <2>3. CASE p \in late
    <3>1. Op(p).reconcileRequired
      BY <2>1, <2>3 DEF Goroutine, OperationSafe, DispatchedIsFirst, AfterDispatch
    <3> QED
      BY <1>2, <2>2, <3>1 DEF Accounted, Op
  <2>4. CASE p \in leaks
    BY <1>1, <2>2, <2>4 DEF Accounted, Excused
  <2>5. CASE p \notin late \cup leaks
    <3>1. outstanding'[p] = outstanding[p]
      BY <1>1, <2>5 DEF TypeOK
    <3> QED
      BY <1>1, <1>2, <2>1, <2>2, <3>1, AccountedKept DEF OperationSafe, Kept, Excused
  <2> QED
    BY <2>2, <2>3, <2>4, <2>5
<1> QED
  BY <1>2, <1>3, ReturnSafe

\* Between invocations: every goroutine is gone, and stays so.
LEMMA RestingSafe ==
    ASSUME TypeOK, Safety, proc = "down", proc' \in {"down", "loop"}, task' = task,
           \A p \in Operation : OutstandingIsUndecided(p)' /\ Accounted(p)'
    PROVE  Safety'
<1>1. \A p \in Operation : task'[p].phase = "idle"
  BY DEF Safety, Quiet
<1>2. \A p \in Operation : OperationSafe(p)'
  BY <1>1, OperationAtRest DEF KindKnown
<1> QED
  BY <1>1, <1>2 DEF Safety, Quiet, WorkIsCurrent

LEMMA StartSafe ==
    ASSUME TypeOK, Safety, NEW m \in {"apply", "reconcile"}, Start(m) PROVE Safety'
<1>1. /\ proc = "down" /\ proc' = "loop"
      /\ UNCHANGED <<task, dest, outstanding, leaked, authorizations>>
  BY DEF Start, world
<1>2. KeptAll(journal, journal')
  BY RunStartedEffect DEF Start, TypeOK, KeptAll, Kept
<1>3. ASSUME NEW p \in Operation PROVE OutstandingIsUndecided(p)' /\ Accounted(p)'
  BY <1>1, <1>2, AccountedKept
  DEF Safety, OperationSafe, OutstandingIsUndecided, Excused, KeptAll
<1> QED
  BY <1>1, <1>3, RestingSafe

\* From then on the operator answers for what the earlier attempt may have done.
LEMMA AuthorizeRetrySafe ==
    ASSUME TypeOK, Safety, NEW o \in Operation, AuthorizeRetry(o) PROVE Safety'
<1>1. /\ proc = "down" /\ proc' = "down"
      /\ UNCHANGED <<task, dest, outstanding, leaked>>
  BY DEF AuthorizeRetry
<1>2. KeptBut(journal, journal', o)
  BY OpType, RetryAuthorizedEffect DEF AuthorizeRetry, TypeOK
<1>3. /\ authorizations'[o] > 0
      /\ \A p \in Operation \ {o} : authorizations'[p] = authorizations[p]
  BY DEF AuthorizeRetry, TypeOK
<1>4. ASSUME NEW p \in Operation PROVE OutstandingIsUndecided(p)' /\ Accounted(p)'
  <2>1. OutstandingIsUndecided(p)'
    BY <1>1 DEF Safety, OperationSafe, OutstandingIsUndecided
  <2>2. CASE p = o
    BY <1>3, <2>1, <2>2 DEF Accounted, Excused
  <2>3. CASE p # o
    <3>1. Kept(journal, journal', p) /\ (Excused(p) => Excused(p)') /\ Accounted(p)
      BY <1>1, <1>2, <1>3, <2>3 DEF KeptBut, Excused, Safety, OperationSafe
    <3> QED
      BY <1>1, <2>1, <3>1, AccountedKept
  <2> QED
    BY <2>2, <2>3
<1> QED
  BY <1>1, <1>4, RestingSafe

LEMMA DestinationActsSafe ==
    ASSUME TypeOK, Safety, NEW o \in Operation, NEW decision \in {"published", "rejected"},
           DestinationActs(o, decision)
    PROVE  Safety'
<1>1. /\ outstanding[o] /\ dest'[o] = decision /\ ~outstanding'[o]
      /\ \A p \in Operation \ {o} : dest'[p] = dest[p] /\ outstanding'[p] = outstanding[p]
      /\ UNCHANGED <<journal, proc, todo, task, leaked, authorizations>>
  BY DEF DestinationActs, TypeOK
<1>2. Exposed(o) /\ dest[o] = "absent" /\ OperationSafe(o)
  BY <1>1 DEF Safety, OperationSafe, OutstandingIsUndecided, Exposed
<1>3. OperationSafe(o)'
  <2>1. KindKnown(o)' /\ LeasedIsNext(o)' /\ BeforeDispatch(o)' /\ AfterDispatch(o)'
    BY <1>1, <1>2
    DEF OperationSafe, KindKnown, LeasedIsNext, BeforeDispatch, AfterDispatch, Publishing, Op
  <2>2. DispatchedIsFirst(o)' /\ ResponseIsTrue(o)'
    BY <1>1, <1>2 DEF OperationSafe, DispatchedIsFirst, ResponseIsTrue, Publishing, Excused
  <2>3. OutstandingIsUndecided(o)' /\ Accounted(o)'
    BY <1>1, <1>2
    DEF OperationSafe, OutstandingIsUndecided, Accounted, Recorded, Excused, Op
  <2> QED
    BY <2>1, <2>2, <2>3 DEF OperationSafe
<1>4. ASSUME NEW p \in Operation \ {o} PROVE OperationSafe(p)'
  BY <1>1, OperationKept DEF Safety, Kept, Excused
<1>5. Quiet' /\ WorkIsCurrent'
  BY <1>1 DEF Safety, Quiet, WorkIsCurrent, Op
<1> QED
  BY <1>3, <1>4, <1>5 DEF Safety

LEMMA SurroundingsSafe == ASSUME TypeOK, Safety, Surroundings PROVE Safety'
<1>1. CASE Signal \/ \E o \in Operation : LeaseDeadline(o)
  BY <1>1, StutterSafe DEF Signal, LeaseDeadline, KeptAll, Kept, world
<1> QED
  BY <1>1, CrashSafe, StartSafe, AuthorizeRetrySafe, DestinationActsSafe DEF Surroundings

-----------------------------------------------------------------------------
(* The theorems. *)

\* The invariant the other theorems rest on: where each goroutine is, what the journal says
\* of its operation, and what the destination may have done, always fit together.
THEOREM InvariantHolds == Spec => []IInv
<1>1. Init => IInv
  BY InitType, InitSafety DEF IInv
<1>2. IInv /\ [Next]_vars => IInv'
  <2> SUFFICES ASSUME TypeOK, Safety, [Next]_vars PROVE IInv'
    BY DEF IInv
  <2>1. CASE Next
    <3>1. TypeOK'
      BY <2>1, LoopType, LoopForType, RunTaskType, SurroundingsType DEF Next, Execute
    <3>2. Safety'
      BY <2>1, LoopSafe, LoopForSafe, RunTaskSafe, SurroundingsSafe DEF Next, Execute
    <3> QED
      BY <3>1, <3>2 DEF IInv
  <2>2. CASE UNCHANGED vars
    <3>1. Safety'
      BY <2>2, StutterSafe DEF vars, KeptAll, Kept
    <3>2. TypeOK'
      BY <2>2 DEF vars, TypeOK
    <3> QED
      BY <3>1, <3>2 DEF IInv
  <2> QED
    BY <2>1, <2>2
<1> QED
  BY <1>1, <1>2, PTL DEF Spec

\* Whatever plan is run, however often Execute is interrupted or killed: what may have been
\* published is recorded as decided, or marked in the journal for reconciliation.
THEOREM PublicationsAccounted == Spec => []PublicationAccounted
<1>1. IInv => PublicationAccounted
  <2> SUFFICES ASSUME IInv, NEW o \in SideEffecting, Exposed(o), ~Excused(o)
               PROVE  Recorded(o) \/ Op(o).reconcileRequired
    BY DEF PublicationAccounted
  <2>1. o \in Operation
    BY PlanAssumption
  <2> QED
    BY <2>1 DEF IInv, Safety, OperationSafe, Accounted
<1> QED
  BY <1>1, InvariantHolds, PTL

\* ReleaseRequest never sends a second publication while an earlier one took effect or
\* still can, but for the risks NoDuplicatePublication names.
THEOREM NoDuplicates == Spec => NoDuplicatePublication
<1>1. IInv => \A o \in Operation : Released(o) => Excused(o) \/ ~Exposed(o)
  BY DEF IInv, Safety, OperationSafe, DispatchedIsFirst, Released
<1>2. IInv /\ [Next]_vars => [\A o \in Operation : Released(o) => Excused(o) \/ ~Exposed(o)]_vars
  BY <1>1
<1> QED
  BY <1>2, InvariantHolds, PTL DEF Spec, NoDuplicatePublication
=============================================================================
