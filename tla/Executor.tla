------------------------------ MODULE Executor ------------------------------
(***************************************************************************)
(* Executor.Execute (internal/executor/executor.go) driving one run: a     *)
(* single-threaded loop that reduces the journal, repairs what an earlier  *)
(* invocation left behind, leases a batch of operations, and runs one      *)
(* goroutine per operation of the batch; each goroutine calls a provider   *)
(* process through providerhost and journals every boundary it crosses.    *)
(*                                                                         *)
(* Around it: invocations that are interrupted by a signal or killed and   *)
(* started again on the same journal, an operator who authorizes a second  *)
(* attempt, and the destination at which requests take effect, possibly    *)
(* long after the provider that carried them is gone.                      *)
(*                                                                         *)
(* Bounds that are not in the code: MaxInvocations, MaxAuthorizations.     *)
(***************************************************************************)
EXTENDS RunJournal, FiniteSets

CONSTANTS
    MaxConcurrency,     \* Options.MaxConcurrency
    MaxAttempts,        \* Options.MaxAttempts
    MaxInvocations,     \* bound: how often Execute is called
    MaxAuthorizations   \* bound: retry authorizations per operation

ASSUMPTION BoundsAssumption ==
    /\ MaxConcurrency \in Nat \ {0}
    /\ MaxAttempts \in Nat \ {0}
    /\ MaxInvocations \in Nat
    /\ MaxAuthorizations \in Nat

VARIABLES
    journal,        \* the durable journal, as derived by RunJournal
    proc,           \* where Execute is: see Positions
    todo,           \* operations the current pass or batch has still to visit
    task,           \* task[o]: the goroutine of o in the current batch
    mode,           \* "apply", or "reconcile" for Options.ReconcileOnly
    signalled,      \* the invocation's context is cancelled
    failed,         \* a task of the batch returned an infrastructure error
    reconciled,     \* Execute's map: <<operation, attempt>> already reconciled
    deferred,       \* Execute's map: <<operation, attempt>> left for a later invocation
    exit,           \* how the last invocation ended
    starts,         \* number of invocations so far (bounded)
    due,            \* operations whose journaled lease is past its deadline
    dest,           \* dest[o]: what the destination did with the release of o
    outstanding,    \* a publication request of o may still take effect
    leaked,         \* operations whose request left before its dispatch was durable
    authorizations  \* authorizations[o]: second attempts an operator accepted

invocation == <<mode, starts>>
world      == <<dest, outstanding, leaked, authorizations>>
vars == <<journal, proc, todo, task, mode, signalled, failed, reconciled, deferred,
          exit, starts, due, dest, outstanding, leaked, authorizations>>

Passes    == {"expire", "announce", "recover", "doom"}
Positions == {"down", "loop", "batch", "run"} \cup Passes
Phases    == {"idle", "leased", "prepared", "credentialed", "started", "dispatched",
              "requested", "responded", "settled"}

\* What a call can end in, other than a result (DriverError kinds and context errors).
Failures == {"RETRYABLE", "PERMANENT", "AMBIGUOUS", "UNKNOWN", "BLOCKED", "TIMEOUT", "CANCELLED"}

\* A response: a result, a result that does not validate, or an error.
Replies == ProviderResults \cup {"INVALID", "RETRYABLE", "PERMANENT", "AMBIGUOUS", "UNKNOWN"}

Tasks  == [kind : {"none", "apply", "reconcile"}, phase : Phases, reply : Replies \cup {"none"}]
NoTask == [kind |-> "none", phase |-> "idle", reply |-> "none"]

TypeOK ==
    /\ journal \in JournalState
    /\ proc \in Positions
    /\ todo \subseteq Operation
    /\ task \in [Operation -> Tasks]
    /\ mode \in {"apply", "reconcile"}
    /\ signalled \in BOOLEAN
    /\ failed \in BOOLEAN
    /\ reconciled \subseteq Operation \X Nat
    /\ deferred \subseteq Operation \X Nat
    /\ exit \in {"none", "ok", "error", "crash"}
    /\ starts \in Nat
    /\ due \subseteq Operation
    /\ dest \in [Operation -> {"absent", "published", "rejected"}]
    /\ outstanding \in [Operation -> BOOLEAN]
    /\ leaked \subseteq Operation
    /\ authorizations \in [Operation -> Nat]

Init ==
    /\ journal = EmptyJournal
    /\ proc = "down"
    /\ todo = {}
    /\ task = [o \in Operation |-> NoTask]
    /\ mode = "apply"
    /\ signalled = FALSE
    /\ failed = FALSE
    /\ reconciled = {}
    /\ deferred = {}
    /\ exit = "none"
    /\ starts = 0
    /\ due = {}
    /\ dest = [o \in Operation |-> "absent"]
    /\ outstanding = [o \in Operation |-> FALSE]
    /\ leaked = {}
    /\ authorizations = [o \in Operation |-> 0]

-----------------------------------------------------------------------------
(* What the executor computes from the derived state. *)

Op(o)      == journal.ops[o]
Key(o)     == <<o, Op(o).attempt>>
Spent(op)  == op.attempt - op.blockedAttempts

\* (Mutant: off by one.)
WrongExhausted(op) == op.state = "FAILED" /\ (~op.retryable \/ Spent(op) > MaxAttempts)

\* No further attempt is due: the failure was permanent, or the budget is spent.
Exhausted(op) == op.state = "FAILED" /\ (~op.retryable \/ Spent(op) >= MaxAttempts)

\* hasTerminalUnpublishedDependency
Doomed(o) ==
    \E d \in Dependencies[o] : Op(d).state \in {"REJECTED", "CANCELLED"} \/ Exhausted(Op(d))

\* The operations a maintenance pass of the loop appends an event for.
PassWork(pass) ==
    CASE pass = "expire"   -> {o \in due : Op(o).leaseActive}
      [] pass = "announce" -> {o \in Operation : Op(o).state = "READY" /\ ~Op(o).readyJournaled}
      [] pass = "recover"  -> {o \in Operation : /\ Op(o).state = "RUNNING"
                                                 /\ ~Op(o).reconcileRequired
                                                 /\ ~Op(o).leaseActive}
      [] pass = "doom"     -> {o \in Operation : Op(o).state \in {"PLANNED", "READY"} /\ Doomed(o)}

\* Each iteration runs the first pass that has work; a cancelled run only expires leases.
NextPass ==
    IF PassWork("expire") # {} THEN "expire"
    ELSE IF journal.status = "CANCELLED" THEN "none"
    ELSE IF PassWork("announce") # {} THEN "announce"
    ELSE IF PassWork("recover") # {} THEN "recover"
    ELSE IF PassWork("doom") # {} THEN "doom"
    ELSE "none"

\* (Mutant: only operations whose outcome is unknown, not those accepted and waiting.)
WrongReconcileOnlyAmbiguous ==
    {o \in Operation : /\ ~Op(o).leaseActive
                       /\ Op(o).reconcileRequired /\ Op(o).ambiguous
                       /\ Key(o) \notin reconciled \cup deferred}

\* (Mutant: an operation still leased by an interrupted invocation is taken.)
WrongReconcileLeased ==
    {o \in Operation : Op(o).reconcileRequired /\ Key(o) \notin reconciled \cup deferred}

\* (Mutant: an operation is put to its provider again and again by one invocation.)
WrongReconcileAgain == {o \in Operation : ~Op(o).leaseActive /\ Op(o).reconcileRequired}

\* Outstanding side effects this invocation has not yet put to their provider.
ReconcileCandidates ==
    {o \in Operation : /\ ~Op(o).leaseActive
                       /\ Op(o).reconcileRequired
                       /\ Key(o) \notin reconciled \cup deferred}

\* (Mutant: Options.ReconcileOnly is ignored.)
WrongApplyInReconcileMode ==
    {o \in Operation :
        /\ ~Op(o).leaseActive
        /\ ~Op(o).reconcileRequired
        /\ journal.status # "CANCELLED"
        /\ \/ Op(o).state = "READY"
           \/ Op(o).state = "BLOCKED" /\ Key(o) \notin deferred
           \/ Op(o).state = "FAILED" /\ ~Exhausted(Op(o))}

\* Operations that may start an attempt now.
ApplyCandidates ==
    {o \in Operation :
        /\ ~Op(o).leaseActive
        /\ ~Op(o).reconcileRequired
        /\ journal.status # "CANCELLED"
        /\ mode # "reconcile"
        /\ \/ Op(o).state = "READY"
           \/ Op(o).state = "BLOCKED" /\ Key(o) \notin deferred
           \/ Op(o).state = "FAILED" /\ ~Exhausted(Op(o))}

Candidates == ReconcileCandidates \cup ApplyCandidates

\* candidates sorts reconciliations first; Execute takes the first MaxConcurrency.
\* (Among equals the code goes by operation id, the model in any order.)
Batches ==
    {batch \in SUBSET Candidates :
        /\ batch # {}
        /\ Cardinality(batch) <= MaxConcurrency
        /\ Cardinality(batch) < MaxConcurrency => batch = Candidates
        /\ batch \cap ApplyCandidates # {} => ReconcileCandidates \subseteq batch}

ExecutorQuiescent ==
    \A o \in Operation :
        /\ ~Op(o).reconcileRequired
        /\ ~Op(o).leaseActive
        /\ Op(o).state \in {"PUBLISHED", "REJECTED", "CANCELLED"} \/ Exhausted(Op(o))

(* classifyCallError and decideFailure. *)

IsRetryable(f) == f \in {"RETRYABLE", "TIMEOUT"}
IsAmbiguous(f) == f \in {"AMBIGUOUS", "UNKNOWN", "TIMEOUT", "CANCELLED"}
IsTyped(f)     == f \in {"RETRYABLE", "PERMANENT", "AMBIGUOUS", "BLOCKED"}

\* What f is reported as, now that the call's context may have ended as well.
Reported(o, f) ==
    {"TIMEOUT"} \cup (IF signalled THEN {"CANCELLED"}
                      ELSE {f} \cup (IF o \in due THEN {"CANCELLED"} ELSE {}))

\* (Mutant: a timeout is retried even after the dispatch.)
WrongRetryTimeout(dispatched, sideEffecting, f) ==
    IF f = "CANCELLED"
    THEN IF dispatched /\ sideEffecting THEN "reconcile" ELSE "stop"
    ELSE IF IsRetryable(f) \/ (~dispatched /\ ~IsTyped(f)) THEN "retry"
    ELSE IF dispatched /\ sideEffecting /\ IsAmbiguous(f) THEN "reconcile"
    ELSE "stop"

Decision(dispatched, sideEffecting, f) ==
    IF f = "CANCELLED"
    THEN IF dispatched /\ sideEffecting THEN "reconcile" ELSE "stop"
    ELSE IF ~dispatched
    THEN IF IsRetryable(f) \/ ~IsTyped(f) THEN "retry" ELSE "stop"
    ELSE IF sideEffecting /\ IsAmbiguous(f) THEN "reconcile"
    ELSE IF IsRetryable(f) \/ (~sideEffecting /\ ~IsTyped(f)) THEN "retry"
    ELSE "stop"

-----------------------------------------------------------------------------
(* Entering and leaving Execute. *)

\* Execute returns: its local state is gone, the journal and the world stay.
\* What the maps held is kept after an orderly return, for CleanReturn to speak of.
Return(result) ==
    /\ proc' = "down"
    /\ exit' = result
    /\ todo' = {}
    /\ task' = [o \in Operation |-> NoTask]
    /\ signalled' = FALSE
    /\ failed' = FALSE
    /\ IF result = "ok" THEN UNCHANGED <<reconciled, deferred>>
                        ELSE reconciled' = {} /\ deferred' = {}

\* An invocation on a journal that reduces; a reconcile-only one needs a journal that
\* exists (commands.go:455).  Without those, the call fails and changes nothing.
Start(m) ==
    /\ proc = "down"
    /\ starts < MaxInvocations
    /\ journal.refused = "NONE"
    /\ journal.status # "COMPLETED"
    /\ m = "reconcile" => journal.status # "EMPTY"
    /\ journal' = IF journal.status = "EMPTY" THEN RunStarted(journal) ELSE journal
    /\ proc' = "loop"
    /\ mode' = m
    /\ starts' = starts + 1
    /\ exit' = "none"
    /\ reconciled' = {}
    /\ deferred' = {}
    /\ UNCHANGED <<todo, task, signalled, failed, due, world>>

\* The top of the loop reduced the journal to something it can go on with.
AtTop ==
    /\ proc = "loop"
    /\ journal.refused = "NONE"
    /\ journal.status # "COMPLETED"
    /\ signalled => journal.status = "CANCELLED"

ReturnUnreadable ==
    /\ proc = "loop"
    /\ journal.refused # "NONE"
    /\ Return("error")
    /\ UNCHANGED <<journal, invocation, due, world>>

ReturnCompleted ==
    /\ proc = "loop"
    /\ journal.status = "COMPLETED"
    /\ Return("ok")
    /\ UNCHANGED <<journal, invocation, due, world>>

CancelRun ==
    /\ proc = "loop"
    /\ journal.refused = "NONE"
    /\ journal.status = "STARTED"
    /\ signalled
    /\ journal' = RunCancelled(journal)
    /\ Return("error")
    /\ UNCHANGED <<invocation, due, world>>

(* The maintenance passes. *)

BeginPass ==
    /\ AtTop
    /\ NextPass # "none"
    /\ proc' = NextPass
    /\ todo' = PassWork(NextPass)
    /\ UNCHANGED <<journal, task, mode, signalled, failed, reconciled, deferred, exit,
                   starts, due, world>>

\* One append of the pass; after the last one the loop reduces again.
PassStep(pass, o) ==
    /\ proc = pass
    /\ o \in todo
    /\ todo' = todo \ {o}
    /\ proc' = IF todo' = {} THEN "loop" ELSE pass
    /\ UNCHANGED <<task, mode, signalled, failed, reconciled, deferred, exit, starts, world>>

ExpireJournalLease(o) ==
    /\ PassStep("expire", o)
    /\ journal' = LeaseExpired(journal, o, o \in due)
    /\ due' = due \ {o}

JournalReadyOperation(o) ==
    /\ PassStep("announce", o)
    /\ journal' = OperationReady(journal, o)
    /\ UNCHANGED due

RecoverUndispatched(o) ==
    /\ PassStep("recover", o)
    /\ journal' = OperationOutcome(journal, o, Op(o).attempt, "FAILED", TRUE)
    /\ UNCHANGED due

CancelBlocked(o) ==
    /\ PassStep("doom", o)
    /\ journal' = OperationCancelled(journal, o)
    /\ UNCHANGED due

(* Nothing to maintain: with no candidate, finish, wait for a lease, or return. *)

NothingToRun ==
    /\ AtTop
    /\ NextPass = "none"
    /\ Candidates = {}

CompleteRun ==
    /\ NothingToRun
    /\ journal.status # "CANCELLED"
    /\ ExecutorQuiescent
    /\ journal' = RunCompleted(journal)
    /\ UNCHANGED <<proc, todo, task, mode, signalled, failed, reconciled, deferred, exit,
                   starts, due, world>>

\* With a lease still running in the journal the loop waits for its deadline instead.
ReturnPending ==
    /\ NothingToRun
    /\ \/ journal.status = "CANCELLED"
       \/ ~ExecutorQuiescent /\ \A o \in Operation : ~Op(o).leaseActive
    /\ Return("ok")
    /\ UNCHANGED <<journal, invocation, due, world>>

-----------------------------------------------------------------------------
(* Forming a batch: lease and announce each candidate, one after the other. *)

FormBatch ==
    /\ AtTop
    /\ NextPass = "none"
    /\ todo' \in Batches
    /\ proc' = "batch"
    /\ UNCHANGED <<journal, task, mode, signalled, failed, reconciled, deferred, exit,
                   starts, due, world>>

\* o is the next candidate of the batch.
NextCandidate(o) ==
    /\ proc = "batch"
    /\ o \in todo
    /\ \A p \in Operation : task[p].phase # "leased"
    /\ Op(o).reconcileRequired \/ \A p \in todo : ~Op(p).reconcileRequired

AcquireLease(o) ==
    /\ NextCandidate(o)
    /\ ~signalled
    /\ journal' = LeaseAcquired(journal, o)
    /\ task' = [task EXCEPT ![o] =
                   [kind  |-> IF Op(o).reconcileRequired THEN "reconcile" ELSE "apply",
                    phase |-> "leased",
                    reply |-> "none"]]
    /\ due' = due \ {o}
    /\ UNCHANGED <<proc, todo, mode, signalled, failed, reconciled, deferred, exit, starts, world>>

\* The wait before a retry is interrupted: the rest of the batch is dropped.
BackoffInterrupted(o) ==
    /\ NextCandidate(o)
    /\ signalled
    /\ Op(o).state = "FAILED"
    /\ todo' = {}
    /\ UNCHANGED <<journal, proc, task, mode, signalled, failed, reconciled, deferred, exit,
                   starts, due, world>>

\* Acquire returns the context's error, and Execute returns at once: what the batch has
\* already leased and announced in the journal is left as it is, and never run.
AcquireInterrupted(o) ==
    /\ NextCandidate(o)
    /\ signalled
    /\ Return("error")
    /\ UNCHANGED <<journal, invocation, due, world>>

PrepareTask(o) ==
    /\ proc = "batch"
    /\ task[o].phase = "leased"
    /\ journal' = IF task[o].kind = "apply"
                  THEN AttemptStarted(journal, o, Op(o).attempt + 1)
                  ELSE ReconcileStarted(journal, o, Op(o).attempt)
    /\ task' = [task EXCEPT ![o].phase = "prepared"]
    /\ todo' = todo \ {o}
    /\ UNCHANGED <<proc, mode, signalled, failed, reconciled, deferred, exit, starts, due, world>>

RunBatch ==
    /\ proc = "batch"
    /\ todo = {}
    /\ proc' = IF \E o \in Operation : task[o].phase = "prepared" THEN "run" ELSE "loop"
    /\ UNCHANGED <<journal, todo, task, mode, signalled, failed, reconciled, deferred, exit,
                   starts, due, world>>

\* wg.Wait, and the outcomes folded; the maps were updated as each task settled.
JoinBatch ==
    /\ proc = "run"
    /\ \A o \in Operation : task[o].phase = "idle"
    /\ IF failed
       THEN Return("error")
       ELSE /\ proc' = "loop"
            /\ UNCHANGED <<todo, task, signalled, failed, reconciled, deferred, exit>>
    /\ UNCHANGED <<journal, invocation, due, world>>

-----------------------------------------------------------------------------
(* runTask: the goroutine of one operation. *)

Publishing(o) == task[o].kind = "apply" /\ o \in SideEffecting

Goroutine(o, phase) == proc = "run" /\ task[o].phase = phase

Enter(o, phase) == task' = [task EXCEPT ![o].phase = phase]

\* Nothing outside the journal and the task changes.
Internal == UNCHANGED <<proc, todo, mode, signalled, failed, reconciled, deferred, exit,
                        starts, due, world>>

\* The journal after persistReconcileOutcome was given an error.
ReconcileFailure(o, f) ==
    ReconcileResult(journal, o, Op(o).attempt, "WAITING_EXTERNAL",
                    IsRetryable(f) \/ Op(o).ambiguous, FALSE)

\* (Mutant: the error code is journaled where the state belongs.)
WrongFailureState(o, f) ==
    IF Decision(Op(o).dispatched, o \in SideEffecting, f) = "reconcile"
    THEN OutcomeAmbiguous(journal, o, Op(o).attempt)
    ELSE OperationOutcome(journal, o, Op(o).attempt, f, FALSE)

\* The journal after persistPreparationFailure (before the provider) or
\* persistApplyOutcome was given an error.
ApplyFailure(o, f) ==
    LET decision == Decision(Op(o).dispatched, o \in SideEffecting, f)
        attempt  == Op(o).attempt
    IN  IF decision = "reconcile" THEN OutcomeAmbiguous(journal, o, attempt)
        ELSE IF f = "CANCELLED" THEN OperationResult(journal, o, attempt, "CANCELLED")
        ELSE IF f = "BLOCKED" THEN OperationResult(journal, o, attempt, "BLOCKED")
        ELSE OperationOutcome(journal, o, attempt, "FAILED", decision = "retry")

\* The task's outcome is durable; what remains is to give the lease back.
Settle(o, journalAfter, defer) ==
    /\ journal' = journalAfter
    /\ Enter(o, "settled")
    /\ deferred' = IF defer THEN deferred \cup {Key(o)} ELSE deferred
    /\ reconciled' = IF task[o].kind = "reconcile" THEN reconciled \cup {Key(o)} ELSE reconciled
    /\ UNCHANGED <<proc, todo, mode, signalled, exit, starts, due>>

SettleFailure(o, f) ==
    Settle(o, IF task[o].kind = "reconcile" THEN ReconcileFailure(o, f) ELSE ApplyFailure(o, f),
           task[o].kind = "apply" /\ f = "BLOCKED")

\* Driver.Prepare: executable and protocol verified, credentials resolved and recorded.
PrepareSucceeds(o) ==
    /\ Goroutine(o, "prepared")
    /\ journal' = CredentialResolved(journal, o, Op(o).attempt)
    /\ Enter(o, "credentialed")
    /\ Internal

PrepareFails(o, f) ==
    /\ Goroutine(o, "prepared")
    /\ f \in UNION {Reported(o, g) : g \in {"BLOCKED", "PERMANENT", "RETRYABLE", "UNKNOWN"}}
    /\ SettleFailure(o, f)
    /\ UNCHANGED <<failed, world>>

\* The executable changed under the plan, or the process did not start.
StartFails(o, f) ==
    /\ Goroutine(o, "credentialed")
    /\ f \in UNION {Reported(o, g) : g \in {"PERMANENT", "UNKNOWN"}}
    /\ SettleFailure(o, f)
    /\ UNCHANGED <<failed, world>>

\* onStarted: the provider process runs, and blocks reading a request that is held back.
StartProvider(o) ==
    /\ Goroutine(o, "credentialed")
    /\ journal' = ProviderProcessStarted(journal, o, Op(o).attempt)
    /\ Enter(o, "started")
    /\ Internal

\* cleanup (client.go:245) opens the gate before it kills the provider: a publication
\* request may get out although its dispatch was not journaled.
Cleanup(o) ==
    \/ UNCHANGED <<outstanding, leaked>>
    \/ /\ Publishing(o)
       /\ outstanding' = [outstanding EXCEPT ![o] = dest[o] = "absent"]
       /\ leaked' = leaked \cup {o}

\* The context ended between the start of the provider and the dispatch.
AbortBeforeDispatch(o, f) ==
    /\ Goroutine(o, "started")
    /\ f \in {"TIMEOUT", "CANCELLED"} \cap Reported(o, "TIMEOUT")
    /\ SettleFailure(o, f)
    /\ Cleanup(o)
    /\ UNCHANGED <<failed, dest, authorizations>>

\* onDispatched
Dispatch(o) ==
    /\ Goroutine(o, "started")
    /\ Publishing(o)
    /\ journal' = SideEffectDispatched(journal, o, Op(o).attempt)
    /\ Enter(o, "dispatched")
    /\ Internal

\* releaseInput: the provider gets its request.
ReleaseRequest(o) ==
    /\ IF Publishing(o) THEN Goroutine(o, "dispatched") ELSE Goroutine(o, "started")
    /\ Enter(o, "requested")
    /\ outstanding' = IF Publishing(o) /\ dest[o] = "absent"
                      THEN [outstanding EXCEPT ![o] = TRUE]
                      ELSE outstanding
    /\ UNCHANGED <<journal, proc, todo, mode, signalled, failed, reconciled, deferred, exit,
                   starts, due, dest, leaked, authorizations>>

\* What a provider may truthfully say: a decision only if the destination made it, and a
\* definite error of a publication only if nothing happened.
Truthful(o, reply) ==
    o \in SideEffecting =>
        /\ reply = "PUBLISHED" => dest[o] = "published"
        /\ reply = "REJECTED" => dest[o] = "rejected"
        /\ task[o].kind = "apply" /\ reply \in {"RETRYABLE", "PERMANENT"} => dest[o] = "absent"

\* A second request, accepted by an operator or leaked, may be out at the same time.
Excused(o) == o \in leaked \/ authorizations[o] > 0

\* onResponse.  After a definite error this request is no longer outstanding.
Respond(o, reply) ==
    /\ Goroutine(o, "requested")
    /\ Truthful(o, reply)
    /\ journal' = ProviderResponseReceived(journal, o, Op(o).attempt)
    /\ task' = [task EXCEPT ![o].phase = "responded", ![o].reply = reply]
    /\ outstanding' = IF Publishing(o) /\ reply \in {"RETRYABLE", "PERMANENT"} /\ ~Excused(o)
                      THEN [outstanding EXCEPT ![o] = FALSE]
                      ELSE outstanding
    /\ UNCHANGED <<proc, todo, mode, signalled, failed, reconciled, deferred, exit,
                   starts, due, dest, leaked, authorizations>>

\* No response: the provider crashed or babbled, timed out, or was killed.
CallFails(o, f) ==
    /\ Goroutine(o, "requested")
    /\ f \in Reported(o, "UNKNOWN")
    /\ SettleFailure(o, f)
    /\ UNCHANGED <<failed, world>>

PersistResult(o, absent) ==
    /\ Goroutine(o, "responded")
    /\ task[o].reply \in ProviderResults
    /\ IF task[o].kind = "reconcile"
       THEN Settle(o, ReconcileResult(journal, o, Op(o).attempt, task[o].reply, FALSE, absent),
                   FALSE)
       ELSE /\ absent = FALSE
            /\ Settle(o, OperationOutcome(journal, o, Op(o).attempt, task[o].reply, FALSE),
                      task[o].reply = "WAITING_EXTERNAL")
    /\ UNCHANGED <<failed, world>>

\* A result that does not validate: recorded as a contract error, and Execute will fail.
PersistInvalid(o) ==
    /\ Goroutine(o, "responded")
    /\ task[o].reply = "INVALID"
    /\ LET attempt == Op(o).attempt
       IN  Settle(o, IF task[o].kind = "reconcile"
                     THEN ReconcileResult(journal, o, attempt, "WAITING_EXTERNAL", FALSE, FALSE)
                     ELSE IF Publishing(o)
                     THEN OutcomeAmbiguous(journal, o, attempt)
                     ELSE OperationOutcome(journal, o, attempt, "FAILED", FALSE),
                  FALSE)
    /\ failed' = TRUE
    /\ UNCHANGED world

PersistError(o, f) ==
    /\ Goroutine(o, "responded")
    /\ task[o].reply \in Failures
    /\ f \in Reported(o, task[o].reply)
    /\ SettleFailure(o, f)
    /\ UNCHANGED <<failed, world>>

\* The append of the result is refused: its evidence has a secret-bearing field
\* (event.go:389).  The journal is not poisoned, and keeps no outcome.
ResultNotJournaled(o) ==
    /\ Goroutine(o, "responded")
    /\ task[o].reply \in ProviderResults
    /\ Settle(o, journal, FALSE)
    /\ failed' = TRUE
    /\ UNCHANGED world

\* renewLease, which runs beside the task; once the deadline has passed it is too late.
RenewLease(o) ==
    /\ proc = "run"
    /\ task[o].phase # "idle"
    /\ o \notin due
    /\ journal' = LeaseRenewed(journal, o)
    /\ UNCHANGED task
    /\ Internal

\* releaseLease; an expired lease is an infrastructure error.
ReleaseLease(o) ==
    /\ Goroutine(o, "settled")
    /\ journal' = IF o \in due THEN LeaseExpired(journal, o, TRUE) ELSE LeaseReleased(journal, o)
    /\ failed' = (failed \/ o \in due)
    /\ due' = due \ {o}
    /\ task' = [task EXCEPT ![o] = NoTask]
    /\ UNCHANGED <<proc, todo, mode, signalled, reconciled, deferred, exit, starts, world>>

-----------------------------------------------------------------------------
(* The surroundings. *)

\* SIGINT or SIGTERM cancels the context of the invocation.
Signal ==
    /\ proc # "down"
    /\ ~signalled
    /\ signalled' = TRUE
    /\ UNCHANGED <<journal, proc, todo, task, mode, failed, reconciled, deferred, exit,
                   starts, due, world>>

\* The wall clock passes the deadline of a journaled lease: its holder is gone, or was
\* suspended for so long that renewLease came too late.
LeaseDeadline(o) ==
    /\ Op(o).leaseActive
    /\ due' = due \cup {o}
    /\ UNCHANGED <<journal, proc, todo, task, mode, signalled, failed, reconciled, deferred,
                   exit, starts, world>>

\* The process is killed; or an append fails, which poisons the writer, and nothing of
\* this invocation becomes durable any more while its goroutines run to their end: tasks
\* past their dispatch may still release the request, tasks before it go through cleanup.
Crash ==
    /\ proc # "down"
    /\ \E late \in SUBSET {o \in Operation : Goroutine(o, "dispatched")},
          leaks \in SUBSET {o \in Operation : /\ Publishing(o)
                                             /\ \/ Goroutine(o, "prepared")
                                                \/ Goroutine(o, "credentialed")
                                                \/ Goroutine(o, "started")} :
          /\ leaked' = leaked \cup leaks
          /\ outstanding' = [o \in Operation |->
                outstanding[o] \/ (o \in late \cup leaks /\ dest[o] = "absent")]
    /\ Return("crash")
    /\ UNCHANGED <<journal, invocation, due, dest, authorizations>>

\* AuthorizeAmbiguousRetry (journal/retry.go): appended only if Reduce accepts it.
AuthorizeRetry(o) ==
    /\ proc = "down"
    /\ authorizations[o] < MaxAuthorizations
    /\ journal.refused = "NONE"
    /\ RetryAuthorized(journal, o, Op(o).attempt).refused = "NONE"
    /\ journal' = RetryAuthorized(journal, o, Op(o).attempt)
    /\ authorizations' = [authorizations EXCEPT ![o] = @ + 1]
    /\ UNCHANGED <<proc, todo, task, mode, signalled, failed, reconciled, deferred, exit,
                   starts, due, dest, outstanding, leaked>>

\* An outstanding request takes effect.
DestinationActs(o, decision) ==
    /\ outstanding[o]
    /\ dest' = [dest EXCEPT ![o] = decision]
    /\ outstanding' = [outstanding EXCEPT ![o] = FALSE]
    /\ UNCHANGED <<journal, proc, todo, task, mode, signalled, failed, reconciled, deferred,
                   exit, starts, due, leaked, authorizations>>

-----------------------------------------------------------------------------

Loop ==
    \/ ReturnUnreadable \/ ReturnCompleted \/ CancelRun
    \/ BeginPass \/ CompleteRun \/ ReturnPending
    \/ FormBatch \/ RunBatch \/ JoinBatch

LoopFor(o) ==
    \/ ExpireJournalLease(o) \/ JournalReadyOperation(o)
    \/ RecoverUndispatched(o) \/ CancelBlocked(o)
    \/ AcquireLease(o) \/ BackoffInterrupted(o) \/ AcquireInterrupted(o) \/ PrepareTask(o)

RunTask(o) ==
    \/ PrepareSucceeds(o) \/ StartProvider(o) \/ Dispatch(o) \/ ReleaseRequest(o)
    \/ \E reply \in Replies : Respond(o, reply)
    \/ \E f \in Failures :
          PrepareFails(o, f) \/ StartFails(o, f) \/ AbortBeforeDispatch(o, f)
          \/ CallFails(o, f) \/ PersistError(o, f)
    \/ \E absent \in BOOLEAN : PersistResult(o, absent)
    \/ PersistInvalid(o) \/ ResultNotJournaled(o) \/ RenewLease(o) \/ ReleaseLease(o)

Execute == Loop \/ \E o \in Operation : LoopFor(o) \/ RunTask(o)

Surroundings ==
    \/ \E m \in {"apply", "reconcile"} : Start(m)
    \/ Signal
    \/ Crash
    \/ \E o \in Operation :
          \/ LeaseDeadline(o)
          \/ AuthorizeRetry(o)
          \/ \E decision \in {"published", "rejected"} : DestinationActs(o, decision)

Next == Execute \/ Surroundings

Spec == Init /\ [][Next]_vars

-----------------------------------------------------------------------------
(* Properties. *)

\* A publication of o happened or may still happen.
Exposed(o) == outstanding[o] \/ dest[o] # "absent"

\* The journal says of o what the destination did.
Recorded(o) ==
    \/ dest[o] = "published" /\ Op(o).state = "PUBLISHED"
    \/ dest[o] = "rejected" /\ Op(o).state = "REJECTED"

\* Whatever may have been published, by this invocation or one that was killed long ago, is
\* either recorded as decided or marked in the durable journal as in need of reconciliation
\* (the operator's accepted risk and requests that leaked from cleanup apart).
PublicationAccounted ==
    \A o \in SideEffecting : Exposed(o) /\ ~Excused(o) => Recorded(o) \/ Op(o).reconcileRequired

\* Appends are not checked by the reducer, yet across goroutines, signals, crashes and
\* restarts the events the executor appends are accepted by it; the only event ever refused
\* is a second RECONCILE_STARTED.
OnlyReconciliationBreaksReplay == journal.refused \in {"NONE", "RECONCILE_STARTED"}

\* No publication of an operation is requested before those it depends on are at the
\* destination, whatever was interrupted in between.
DependenciesFirst ==
    \A o \in Operation : Exposed(o) =>
        \A d \in Dependencies[o] \cap SideEffecting : dest[d] = "published"

\* Interruptions, timeouts and blocked preparations never buy an operation more than
\* MaxAttempts attempts that reached the provider stage, and one more per authorization.
AttemptBudget ==
    \A o \in Operation :
        /\ Op(o).blockedAttempts <= Op(o).attempt
        /\ Spent(Op(o)) <= MaxAttempts + authorizations[o]

\* An Execute that returns without an error has put every unresolved side effect to its
\* provider, or left it for later on purpose: none is forgotten because of the others.
\* (A cancelled run does not wait for the lease of an interrupted invocation.)
CleanReturn ==
    exit = "ok" /\ journal.status # "COMPLETED" /\ proc = "down" =>
        \A o \in Operation : Op(o).reconcileRequired =>
            \/ Key(o) \in reconciled \cup deferred
            \/ journal.status = "CANCELLED" /\ Op(o).leaseActive

\* A publication request leaves in this step.
Released(o) ==
    /\ Publishing(o)
    /\ task[o].phase = "dispatched"
    /\ task'[o].phase = "requested"

\* A request is released only when no earlier one of that operation took effect or still
\* can, unless an operator accepted that risk (or an earlier request leaked).
NoDuplicatePublication ==
    [][\A o \in Operation : Released(o) => Excused(o) \/ ~Exposed(o)]_vars

\* ReleaseRequest happens only in a run that is not cancelled, in an invocation that may
\* publish, and after the dispatch is durable.
PublishesOnlyWhenAllowed ==
    [][\A o \in Operation : Released(o) =>
          /\ mode = "apply"
          /\ journal.status = "STARTED"
          /\ Op(o).dispatched /\ Op(o).reconcileRequired]_vars

\* A decision of the destination that is once in the journal is never revised.
DecisionsAreFinal ==
    [][\A o \in Operation :
          Op(o).state \in {"PUBLISHED", "REJECTED"} => journal'.ops[o].state = Op(o).state]_vars

\* What the journal says of o to a reader who looks only at its state and its mark.
RecordOf(o) ==
    IF Op(o).state = "PUBLISHED" THEN "published"
    ELSE IF Op(o).state = "REJECTED" THEN "rejected"
    ELSE IF Op(o).reconcileRequired THEN "owed"
    ELSE "clear"

Promise == INSTANCE Publication WITH
    Operation   <- SideEffecting,
    record      <- [o \in SideEffecting |-> RecordOf(o)],
    outstanding <- [o \in SideEffecting |-> outstanding[o]],
    dest        <- [o \in SideEffecting |-> dest[o]],
    risky       <- [o \in SideEffecting |-> Excused(o)]

\* Refinement: whatever loop, goroutines, signals, crashes and restarts do, every publication
\* goes the way Publication promises, step by step.
KeepsPromise == Promise!Spec

\* Liveness: the goroutines and the loop are scheduled, and time passes.
Fairness == WF_vars(Execute) /\ WF_vars(\E o \in Operation : LeaseDeadline(o))

FairSpec == Spec /\ Fairness

\* Every Execute comes to an end: it neither waits for ever nor spins on operations that
\* are blocked, waiting at the destination, or leased by an invocation that is gone.
ExecuteReturns == (proc # "down") ~> (proc = "down")

(* A claim of the documents that the code does not keep. *)

\* architecture.md:3: an interrupted release goes on from its recorded state.
Replayable == journal.refused = "NONE"
=============================================================================
