# Distroplane in TLA+

Distroplane distributes a release to package registries: it computes an immutable plan of
operations, executes the plan through provider processes, and records what happens in a durable
journal, so that a release that was interrupted can be resumed without publishing anything twice.
This directory holds models of the parts that make this promise, the TLC runs that check them on
small instances, and TLAPS proofs of the most important results for all instances.

Paths below are relative to the repository's root. `PROJECT.json` lists the components, the runs,
the hazards with the properties that watch them, the lines each definition stands for, and the
disagreements found.

## 1. The system

### Components

| component | state | operations | what makes it correct |
|---|---|---|---|
| **run journal, reducer** `internal/journal/reducer.go`, `event.go`, `retry.go` | the events of a run; derived: run status and, per operation, state, attempt, lease, flags | one rule per event type, `Reduce`, `AuthorizeAmbiguousRetry` | every event appended is one the reducer accepts; a decision is never revised; a publication that may have happened stays marked |
| **run journal, file** `internal/journal/writer.go`, `frame.go`, `lock_*.go` | frames in a file, a lock file, a writer's count and `poisoned` flag | `OpenWriter`, `Append`, `Close`, `Read` | one writer; the file stays readable; what was acknowledged survives |
| **executor** `internal/executor/executor.go`, `types.go` | position in the loop, batch of tasks, `reconciled` and `deferred` maps | `Execute`: reduce, repair, lease, run a batch, join | no duplicate publication, nothing forgotten, order of the plan, attempt budget, termination |
| **lease manager** `internal/executor/lease.go` | leases by key, with deadline | acquire, renew, release | one holder per operation; an expired lease is not used |
| **provider host, one call** `internal/providerhost/client.go`, `process_unix.go` | the process, its pipes, the gate before its input | start, boundary callbacks, release, wait, decode, cleanup | the request leaves after its dispatch is journaled; only complete answers count; a call that is given up leaves nobody with the request; a cancelled call ends |
| **provider host, driver** `internal/providerhost/driver.go` | none | `Prepare`, `Apply`, `Reconcile` | failures are classified so that an uncertain outcome is never taken for a definite one |
| **run catalog** `internal/runstate/store.go` | registered plans, two copies of each claim | register, claim, inventory, select | one run and one journal per plan; claims are permanent |
| **commands** `cmd/distroplane/publish.go`, `commands.go`, `resume.go`, `retry.go` | none, they are processes | publish, apply, reconcile, resume, retry | whatever runs at the same time or is killed, the catalog and the journals stay consistent |
| **planner and plan store** `internal/planner` | plan files; per command, what a provider described, its digest, its operations | `Build` target by target, `Save` without replacing, `Load` | a plan says which executable computed it, whatever is upgraded meanwhile; a plan is never replaced; dependencies are acyclic |
| **provider retention** `internal/providerretention` | a copy of each provider executable by digest, and a receipt beside it | `Retain`, `Resolve` | what a saved plan names is there, and trusted only if it was installed |
| **evidence bundle** `internal/evidence` | none | build, verify | a bundle says what the journal says |
| **providers** `providers/npm`, `homebrew`, `winget`, `sdkman` | none of their own; the registry, tap, fork and pull request, vendor API at the destination | plan, apply, reconcile | an answer is true of the destination, at any point of a publication of several requests |
| **credentials** `internal/credentials` | none | select the source of each credential, resolve | ambient credentials only for installed providers |
| **protocol, domain, configuration** | none | encode, validate | data handling |
| **doctor, init, plugins, action, scripts** | none | | wrappers and read-only commands |

### How they interact

A command loads a plan, *claims* a run id and a journal path in the catalog, takes the lock of the
journal and opens it, and calls `Execute`. The executor *appends* to the journal before and after
everything it does, and *derives* what to do next from it. It acquires leases, and starts one
goroutine per operation of a batch. A goroutine *calls back* into the journal from within the
provider call: `onStarted`, `onDispatched`, `onResponse` are journaled by
`journalExecutionObserver`. The provider process is behind a gate: the request can be read only
after `onDispatched` returned. What the provider does at its destination is outside and may take
effect after the provider is gone.

Before that, `plan` and `publish` run each provider twice to make a plan (it describes itself, then
plans), hash its executable in between, keep a copy of it with a receipt, and save and register the
plan. `apply`, `reconcile` and the rest of `publish` resolve the copies through the receipts, and
choose the credentials by what the configuration says *then*.

### What is hard

* Processes die anywhere: between dispatch and answer, between two halves of a claim, in the middle
  of a frame. The next invocation has only the journal.
* Signals and timeouts compete with answers. The classification of the failure decides whether an
  operation is retried, and with it whether it is published twice.
* `Append` does not consult the reducer. An event that is appended although the state no longer
  allows it makes the run unreadable for ever; goroutines, renewals and the loop append to one
  journal in any order.
* Provider processes hang, fork, write half an answer, and are killed as a group; `os/exec` has
  goroutines of its own.
* Commands run at the same time on one project directory and share nothing but files; executables
  are upgraded, artifacts rebuilt and configurations edited while they run.
* A destination is changed by others, and a request takes effect late, or not at all, or after the
  provider that sent it was killed. What a provider reads is old when it answers.

## 2. The modules

| module | models | abstract specification or proof |
|---|---|---|
| `RunJournal` | the reducer: derived state, one operator per event | in `ExecutorProof`: what each event does to an operation |
| `Executor` (extends `RunJournal`) | `Execute`, its goroutines, crashes, operators and the destination | `Publication` (refined: `KeepsPromise`), `ExecutorProof`, `ExecutorCourseProof` |
| `Publication` | what the system promises of a publication, abstractly | |
| `ProviderCall` | one call, the provider's processes and the context | `ProviderCallProof` |
| `RunCatalog` | commands on the catalog, the plan files and the journals' locks | `RunCatalogProof` |
| `JournalFile` | the file under a journal: frames, lock, crashes, loss of power | `DurableLog` (refined: `KeepsLog`), `JournalFileProof` |
| `DurableLog` | what a journal's file promises, abstractly: a log with one appender at a time | |
| `ProviderCaller` | the executor, as a provider meets it: which call comes next | |
| `NpmProvider`, `HomebrewProvider`, `WingetProvider`, `SdkmanProvider` (extend `ProviderCaller`) | a provider with its destination | |
| `Providers` (an instance of each of the four) | the four under one executor; a behavior is of one of them | `RegistryProvidersProof`, `ProvidersProof` |
| `Texts`, `RepositoryPath` | what the providers' validation sees of texts and paths | |
| `PlanDocument` | plans, answers of providers and the choice of credentials, as operators | |
| `Planning` (extends `PlanDocument`) | commands from the configuration to the first provider call of an execution | `PlanningProof` |
| `MCExecutor`, `MCRunCatalog`, `MCPlanning` | small plans, executables, configurations and symmetry for TLC | |
| `MCProviders` | the configurations of the four providers, and which of them are executed | |

Definitions of the form `WrongX` are plausible errors in the code that `X` models. They are no part
of a specification; putting one in the place of `X` shows that a property notices.

### RunJournal

A journal is represented by the state `Reduce` derives from it (`JournalState`): the status of the
run, a record per operation with the fields of the Go `OperationState` that decide something, and
`refused`. Each event type is an operator `Event(j, o, ...)` built by `AppendEvent` from the two
halves of the reducer's case: when it accepts, and what it sets. A refused event is remembered in
`refused` and never forgotten, since every later `Reduce` of the file fails. Its effect is kept
because the invocation that wrote it goes on until its next `Reduce`. Trailing steps of a case,
such as `refreshReady` after an outcome, are part of the operator. Left out: identities, evidence,
provider states, error codes, and the lease's id and times ("elapsed" is an input).

### Executor

`proc` is the place in `Execute`'s loop: `loop` is its top, the passes `expire`, `announce`,
`recover`, `doom` are the four maintenance loops, `batch` the `for` over the chosen operations, `run`
the wait for its goroutines. `todo` holds what such a loop has still to visit, so that a signal or a
crash can come between any two of its appends. `task[o]` is the goroutine of `o` in the current
batch and its `phase` the last boundary it journaled or crossed. Each journal append is a step of
its own; goroutines interleave freely. `mode`, `reconciled`, `deferred` and `failed` are local
variables of `Execute`, `signalled` is its context.

Around it: `Start` (a new invocation, apply or reconcile), `Signal`, `Crash` (a kill, or an append
that fails and poisons the writer: from then on nothing is journaled, but goroutines that already
crossed their dispatch may or may not let the request go, which `Crash` leaves open),
`LeaseDeadline`, `AuthorizeRetry`, and `DestinationActs`: a request that left is
`outstanding` until the destination decides, before or after the answer, or the provider truthfully
reports that it came to nothing. `Truthful` is the assumption about providers: a definite answer, published
or failed, is true of the destination. The providers of this repository keep it except in the cases that
section 3 lists under *Providers*.

Two situations end the promise for an operation and are called excused: an operator authorized
another attempt, knowing the risk of a duplicate, and a request *leaked*, that is it left through
the cleanup of a call that was given up before its dispatch (the second disagreement below).

### Publication

The promise, without loop, leases or attempts: a record is `clear`, `owed` or decided; it is marked
before the one request leaves; it is cleared only when nothing is or will be at the destination; it
is settled by what is there. `Executor` maps its journal and destination to it (`RecordOf`), and
`KeepsPromise == Promise!Spec` is checked as a property. A step may move several publications, as a
crash does that leaves it open which requests left.

### ProviderCall

`pc` walks through `callWithOptions`. The provider is a `leader` and any number of `Descendants` in the
same process group, started by it or by each other; all act at any time. A descendant is `attached` when it
inherited the output pipes and `detached` when its output goes elsewhere, as that of the git children of
Homebrew and WinGet and of the helper's child in `process_tree_test.go:35` does; it may close the pipes it
has. `Wait` (`Reap`, `Drain`) waits for the leader and for who is attached, not for who is detached, and
after an ordinary exit nothing kills the group. `gate` is the `gatedReader`, `watched` says that `os/exec` still kills the group when the context ends: reaping the leader ends
that, and `WaitDelay` is zero in all callers. `log` holds the boundaries journaled, and an append may
fail at each of them.

### RunCatalog

`command[c]` is a process with the step it is at; each file operation of the commands is a step and
`End` (an error, a refusal, a kill) is possible at each of them. Catalog entries appear by `link`, so
an `Install` is atomic; a claim is two of them (`InstallBackup`, `InstallPrimary`). Of a journal only
its plan, run and stage are kept; `Executor` and `JournalFile` are what happens inside. The id
`resolveRunID` draws at random is the name of the command that draws it.

Coarser than the code: `Inventory` reads the plans in one step and the rest in a second
(`ListPlans`, `InventoryFails`), and saving a plan is one step. Left out: damaged entries, plans
saved in two places, directories that disappear, the `.catalog-required` marker.

### JournalFile

`file` is what processes see and `disk` what survives a loss of power; frames are complete or torn.
`OpenWriter` is six steps, the first of which takes the lock, `Append` is two writes and a sync, and `AppendFails`
poisons the writer at either. `Close` is also an error of `OpenWriter` and the death of the process:
the operating system drops the lock. The operating system is external: writes to a file
reach it in order, `Writeback` may persist any longer part of it at any time, and a directory entry
is durable once its directory was synced, which is all POSIX says. Left out: file systems that
report a failed sync once and then forget the data; damage from outside. `interrupted` is history:
the creator of the file was killed, or failed, before it had synced the directory.

`DurableLog` is what the layers above rely on (`RunJournal` and `Executor` take an append as one step):
a log of events with one appender at a time, who has seen all of it; a complete frame extends it, a sync
acknowledges it, a crash may take from its end what was not acknowledged. `KeepsLog` maps `log` to
`Events(file)`, `kept` to `acked`, `appender` to `lock`, `risky` to `interrupted`; torn frames, the cut,
writeback and the disk are stutters.

### ProviderCaller and the providers

`ProviderCaller` keeps of the executor what decides the next call: whether an apply, a reconciliation
or nothing is `owed`, and what was `said` last. `Kill` is a timeout, a signal or a crash; an
apply that was dispatched is from then on only reconciled, as `Executor` has it, and
`AuthorizeRetry` is the operator who allows another attempt (only npm's operations permit it).

Each provider's module has three parts. The first is what `Plan` makes of a configuration and what
`apply` and `reconcile` accept of a plan: one operator per validation function, over records with the
fields of the Go structs. A text is the set of its peculiarities that some check looks for (`Texts`), so
that "a name with a space" is one text for all such names; a path is the sequence of its
components and is cleaned as `path.Clean` does. The second is the calls, one action per request to the
destination and per local step that may fail between two requests; `at` is the place in a call
and `seen` what the call has learned, which may be stale. The third is the
destination (external): a request sent is in `flying` until the destination carries it out or
refuses it, before or after the answer, and also after the provider was killed; others publish,
push, review, merge, close, delete and rebuild.

* `NpmProvider`: a version is taken once and never replaced; the package is read from disk again in
  every call, and others may build it again. `publish` follows redirects, and Go repeats a PUT that is
  answered 301, 302 or 303 as a GET (`RegistryRedirects`): what is answered there may be taken for any
  answer to the upload (`Answered`). A registry that answers the upload itself is taken at its word.
* `HomebrewProvider`: in direct mode one push to the base branch; otherwise a push to the update branch
  and a pull request. A push that is not forced is a compare-and-swap of a branch.
* `WingetProvider`: the same through a fork, with three manifests, upstream checks and reviews,
  and the inspection of ZIP installers.
* `SdkmanProvider`: one release request, through either of two APIs, of which the older one is not
  looked at before. It is not told the distribution either; the destination is taken to know it. A release
  is accepted (`SdkmanAccepts`) before it is visible at its coordinate (`SdkmanExposes`), or it never
  becomes visible: an acceptance is no proof of availability, as `providers/sdkman/README.md:28` says, and the
  evidence of a result tells the one from the other (`Evidence`). The older API's request follows
  redirects as npm's does; the State API's does not (`noRedirectClient`).

`Providers` composes them: `provider` says whose behavior it is and never changes, as one operation of
a plan has one provider, and each property is the one of that provider's module. `MCProviders` adds
only the configurations and the variable `called`, which keeps most of them from being executed.

Left out: rendering of a formula or a manifest except the lines that depend on a choice; the encoding
of archives and of JSON; HTTP headers; wording. A response appears by what the code distinguishes.

### PlanDocument and Planning

`PlanDocument` has the rules as operators: which description and which plan response are accepted,
Kahn's algorithm on dependencies (`Processed`), what a plan is made of, what `NewPlan` requires of
it, what its identity covers, and `SelectSources`. An executable is the record of the
answers it gives and its digest is that record, since files with one digest give the same answers.

`Planning` runs commands over it. `command[c].pc` is the place in `plan` or `publish` (`describe`,
`hash`, `ask` for each target, `inventory`; then `Retain`: `check` for each target, `keep` and
`receipt` for each version; `save`, `register`) and in `apply` or `reconcile` (`open`, `bind`,
`execute`). A choice of the user appears where the code first depends on it: plan or
publish at the inventory, apply or reconcile when the plan is opened, the `--credential` flags when
providers are bound. `Upgrade`, `Rebuild` and `Edit` are others; they may come between any two steps.
`held` and `origins` are history variables: executables that were once beside the program, and how each
saved plan came about. From `execute` on, `MayRun` says for which targets the driver
lets an operation run. The catalog's claims and the journals are `RunCatalog`'s.

Coarser than the code: hashing a file and copying it are one step each, as is saving a plan. Nobody but the commands writes the retention directory.

## 3. The runs

| run | instance | what it asks |
|---|---|---|
| `exec_single` | one publication that an operator may authorize again once; 2 attempts, 3 invocations | all of `Executor`'s safety, the refinement of `Publication`, and `ExecuteReturns` with fairness |
| `exec_chain` | two publications, the second after the first; 2 attempts, 3 invocations, both may be in a batch | `DependenciesFirst`, and the refinement for two publications |
| `exec_pair` | a publication and an independent operation without side effect in one batch; 1 attempt, 2 invocations | the goroutines' appends interleave and replay |
| `exec_replayable` | as `exec_single`, no authorization | `Replayable`, violated |
| `call` | one call of each kind, with all failures; two descendants | safety of the call; `ContextEndsCall` with fairness |
| `call_release` | | `JournaledBeforeRelease`, violated |
| `call_cancel` | | `CancelledCallReturns`, violated |
| `catalog` | 2 plans of a release, 2 journal paths, 3 commands of any kind | one run per plan, claims, exclusion, what blocks the inventory |
| `catalog_release` | 2 plans of a release, 2 `publish` commands | `OnePlanPerRelease`, violated |
| `journal_file` | 2 processes, 3 events | the file stays readable, keeps what was acknowledged, and goes only in one way |
| `providers` | each provider: hundreds of configurations planned, nine of them executed; 4 calls (3 of a provider that pushes), 1 authorization | answers are true, repeats are safe, one submission, plans are sound |
| `planning` | 2 targets, 2 commands, 3 configurations, 6 executables, 2 changes by others | what is executed is what was planned, ambient credentials, saved plans can run |

**Bounds.** `MaxInvocations = 3` lets a run be interrupted, resumed in the wrong state, and resumed
again: the cases of interest (a crash after dispatch, a crash during reconciliation, and an
invocation that meets the result) need three. `MaxAttempts = 2` is the least at which a retry exists
and can also be exhausted. One authorization shows a second attempt beside an outstanding first one.
Two operations show every relation the code knows between operations (dependency, cancellation,
sharing a batch). Three commands are two that race and one that finds what they left; the catalog
compares at most two entries at a time. Four calls are an apply that is killed, a reconciliation that
is, an apply that an operator authorized, and one that meets what they left; configurations that differ from
an executed one in one field are planned only, since what a call does depends on a few fields, all of
which the executed ones vary. In `planning` one command makes a plan and the other executes it or
races for the same receipts; two upgrades are the least that could fool `Retain` (away and back), and
the three executables that no plan should be made with fail in three different places (a capability,
a cycle, credentials). Three events suffice for a torn frame after a complete one
that a third could follow. Plans, commands and processes are symmetric only where stated: `catalog`
and `planning` use the symmetry of commands (and contents); they check no liveness. Deadlock is not checked because the systems
stop: invocations, commands and events are bounded, and a call ends.

**Fairness.** `exec_single` assumes weak fairness of `Execute` (the loop and the goroutines are
scheduled by the Go runtime; a provider call ends because all four providers of this repository set a
timeout in their plans, see `ContextEndsCall` and its condition; `TimeoutMillis` is optional for other
providers, whose calls may hang until somebody interrupts them) and of the deadline of a lease (time passes). Nothing is assumed of signals,
crashes, operators or the destination. `call` assumes weak fairness of the client's own steps and
of the kernel's kill, and that what a provider leaves behind ends some time; without the last,
`call_cancel` shows that a call may never return. A provider may hang.

### What they show

* **Accounting** (`PublicationAccounted`): whatever is interrupted and resumed, a publication that
  may have happened is recorded as decided or marked for reconciliation. With
  `NoDuplicatePublication`, `DecisionsAreFinal` and `PublishesOnlyWhenAllowed` this is what
  "resumable" means; `KeepsPromise` states it as a protocol of its own.
* **Replay** (`OnlyReconciliationBreaksReplay`): although no append is checked against the reducer,
  the executor never appends what it refuses, with exactly one exception, the first disagreement.
* **Order and budget** (`DependenciesFirst`, `AttemptBudget`): hold at the destination and across
  invocations, not only in the journal of one.
* **Completeness** (`CleanReturn`, `ExecuteReturns`): `Execute` ends, and when it ends well no
  operation in need of reconciliation was passed over.
* **Calls** (`DispatchBeforeDelivery`, `AnswersAreComplete`, `LeftoversAreDispatched`,
  `ContextEndsCall`): apart from two disagreements, a call keeps the order of boundaries and takes
  nothing for an answer that is not one. It does not promise that nobody is left: a provider that ended by
  itself may leave detached processes, say a git that is still pushing, which go on after the call returned,
  and nothing kills them. `LeftoversAreDispatched` says how far that goes: never from a call that killed its
  provider, and never with a request whose dispatch is not durable; so whatever they do, the next
  invocation knows that it may have been done.
* **Catalog** (`OneRunPerPlan`, `JournalsAreClaimed`, `ExclusiveExecution`, `ClaimsArePermanent`,
  `InventoryBlockedOnlyBy`): racing and dying commands never give a plan two runs. The last names
  the three situations in which the whole project is blocked until somebody looks at it: an empty
  journal left by a kill before the first event, one that no longer reduces, and one path claimed
  for two plans.
* **File** (`AlwaysReadable`, `HistoryKept`): a torn frame is always the last and gone before the
  next is written, also when a writer continues what another wrote and never synced. The sync of a
  later append, or of the cut, makes the earlier frames durable too. One loss is left
  (`Vanish` in `KeepsLog`): a process that dies, or fails, between creating the file and syncing
  its directory leaves that sync to nobody, and events acknowledged by later writers go with the name
  when the power does.
* **Providers** (`PublishedIsTrue`, `RepeatsAreSafe`, `DefiniteFailuresAreOver`, `SubmittedOnce`,
  `RejectionsStand`, `ReconcileOnlyObserves`, `PlansAreSound`): what `Executor!Truthful` assumes of a
  provider. *Published* means that the planned content was, or is, at the destination, and *retryable* and a
  permanent failure mean that nothing is on its way, so that the apply which follows, or the end, is
  right. The properties name each case in which the code falls short of that, and show that there is no other:
  - SDKMAN's *published* may rest on an acceptance alone. The evidence then says `accepted`, and the release
    is visible or may still become so.
  - An upload to npm, or a release through SDKMAN's older API, that is redirected has what is
    answered at the other place taken for its outcome, be that published or failed.
  - Homebrew and WinGet answer a 201 they cannot decode with a permanent failure (`github.go:130` and
    `github.go:317`), and likewise what a redirect led to, although the pull request is open and a maintainer
    may merge it. `docs/reliability-validation.md:10` has a lost response reconciled; this one is not.
  - After an operator authorized another attempt at npm, a failure speaks of the last attempt only; a request
    of an earlier one may still be on its way.

  A submission is made once over all calls, or once more for each authorized attempt. A
  rejection stands, except in the cases each module names: a direct push that is outstanding, a branch
  that is someone else's, a pull request that was closed. What `Plan` accepts can be applied.
* **Planning** (`ExecutedAsPlanned`, `AmbientOnlyForInstalled`, `SavedPlansCanRun`): one upgrade
  during a command never mixes the operations of two executables, because the digest is taken before
  the plan request and again after it; two can (away and back), and the exemption in the property
  is exactly that. An upgrade between description and digest can mix what an executable says of itself with another one's digest. Such a plan is saved
  but never runs, since the copy does not describe itself as planned; its receipt is permanent and
  refuses correct plans for that digest afterwards. Likewise a receipt that was written
  for an executable found elsewhere makes it untrusted for good.

### Where code and documents disagree

1. **A second RECONCILE_STARTED** (`exec_replayable`). `prepareTask` appends it without looking
   whether the attempt has one; the reducer refuses it. An invocation that ends during a
   reconciliation makes the run unreadable at the next one.
2. **Cleanup opens the gate** (`call_release`). A call given up before its dispatch releases its
   input before it kills the provider, which can read the request.
3. **A cancelled call that waits** (`call_cancel`). A provider that exits and leaves a descendant on
   its output keeps `Wait` waiting; the context no longer matters.
4. **Two plans of one release** (`catalog_release`). `publish` checks the inventory and registers
   later; two at a time pass each other.

## 4. The proofs

TLAPS checks the following for every value of the constants that the named assumptions allow.

**From `PlanAssumption` and `BoundsAssumption`** (a plan's dependencies are operations of the plan,
the bounds are numbers; nothing about acyclicity is needed), in `ExecutorProof`:

* `TypeCorrect`: `Spec => []TypeOK`.
* `InvariantHolds`: `Spec => []IInv`, where `IInv == TypeOK /\ Safety`.
* `PublicationsAccounted`: `Spec => []PublicationAccounted`.
* `NoDuplicates`: `Spec => NoDuplicatePublication`.

`PublicationAccounted` is not inductive: that a crash leaves nothing unmarked depends on what each
goroutine knows of its operation. `Safety` adds what the loop and the goroutines know: goroutines
exist only in a batch; what a pass or a batch has still to visit is as the loop found it; an attempt
that has not been dispatched runs under a record that says so, one that has under a record that asks
for reconciliation; a dispatched publication is the first one; a response agrees with the
destination; a request is outstanding only until the destination decides. The proof has one lemma per action, and below them the
lemmas on the reducer, one per event: what it sets in the operation it is about, and that every
other operation is at most made ready or cancelled, neither of which removes a mark.

`ExecutorCourseProof` follows each record, from the same assumptions: `CourseHolds`, and from it
`BudgetKept` (`AttemptBudget`), `DependenciesComeFirst` (`DependenciesFirst`), `DecisionsStand`
(`DecisionsAreFinal`), `PublishesWhenAllowed` (`PublishesOnlyWhenAllowed`), `PromiseKept`
(`KeepsPromise`) and `ReturnsClean` (`CleanReturn`). `Safety` does not say that an attempt is counted
once, that a dependency stays published, or that a goroutine belongs to an invocation that may publish;
`Course` does. A step moves a record in one of six ways (`Legal`: untouched but for bookkeeping, marked,
begun, finished, blocked, dropped) or makes it ready; these keep the count (`CountSound`), and what was
begun was begun after its dependencies were published (`InOrder`) and a decision in the record is the
destination's (`DecisionTrue`), so a request, which leaves only from an attempt that runs, finds its
dependencies at the destination. `TaskSound` and `BatchSound` say what a goroutine, or a batch that
will start one, may rely on.

*The refinement.* A step of `Executor` changes the record of an operation, or its destination, but not
both (`RecordMoves`, `NextKeeps`). Where the destination stays, the change of the record is `Mark`,
`Clear` or `Settle`: that it may be cleared or settled is what `PublicationAccounted` and `DecisionTrue`
provide. A request that is released, or that was on its way at a crash, is `Request`, and needs that the
record is marked; a decision is `Decide`, a provider that fails for certain `Withdraw`. What leaks from cleanup, or follows an
authorization, is excused in `Publication` as it is here.

Its second part proves `OnlyReconciliationRefused` (`OnlyReconciliationBreaksReplay`). Whether the
reducer takes an event depends on marks of the record that nothing else reads (lease, readiness, provider
started and responded, reconciling); `Replay` says that as long as nothing was refused these are as the
loop's position and the goroutine's phase want them, and after a second RECONCILE_STARTED it asks nothing.

**From `CatalogAssumption`** in `RunCatalogProof`: `CatalogTypeCorrect`, `CatalogInvariantHolds`,
`PlansRunOnce`, `JournalsStayClaimed`, `ExecutionIsExclusive`, `InventoryFailsOnlyFor`,
`ClaimsStay`, that is every property of the run `catalog`, for any number of plans, journals and
commands. The properties speak of what is on disk, and what is on disk was decided by commands that
looked at it several steps earlier; so the invariant adds what a command knows at each of its steps:
between `PrepareClaim` and the installs its plan is registered, before the second install the first
copy is the claim it wants, past the claim (unless it is a retry, which claims nothing) so is the
second, and from opening the journal on it holds the lock and what it read there stays true. Of the
catalog it adds that the backup comes before the primary and the plan's entry before both, and of
the journals that every run executed is the one its journal names.

**From `FileAssumption`** in `JournalFileProof`: `FileInvariantHolds`, `FileTypeCorrect`,
`StaysReadable`, `HistoryStays`, `FileKeepsLog` (`KeepsLog`), that is every property of the run
`journal_file`, and `LossIsExcused`, for any number of processes and events. That the file can be read
is not inductive: it depends on the process with the lock having cut a torn frame before it appends, and on the disk being behind the file
by whole frames in order. So the invariant adds what the holder of the lock knows of the file at each
step of `OpenWriter` and `Append`, that the disk follows the file frame by frame, that acknowledged
frames are complete on both, and that the name is durable unless a creator was interrupted.
`FileKeepsLog` maps each action of the file to one of `DurableLog` or to a stutter: a torn frame is no
event, the cut of `OpenWriter` removes none, only the last byte of a frame extends the log, and only a
sync acknowledges. It needs two more facts (`Signed`): the frame under way is signed by the process with
the lock, and while a process has yet to sync the directory the name is not durable. `PowerLoss` is the
crash of the abstract log, since the events on the disk are a prefix of those in the file that has all
acknowledged ones; where it removes the name, it is `Vanish`.

**From `CallerAssumption`, `SiteAssumption` and `PathAssumption`** (bounds are numbers; a commit of
WinGet's destination says of each of its files that it is as planned, another one or missing, and one
that has all files as planned is possible; the components of a configured path are strings) in
`RegistryProvidersProof` and `ProvidersProof`: `ProvidersInvariantHolds`, `ProvidersTypeHolds`,
`ProvidersPublishedIsTrue`, `ProvidersRepeatsAreSafe`, `ProvidersDefiniteFailuresAreOver`,
`ProvidersSubmittedOnce`, `ProvidersRejectionsStand`, `ProvidersReconcileOnlyObserves` and
`ProvidersPlansAreSound`, that is every property of the run `providers`, for any configurations, calls,
authorizations and commits. The properties speak of answers, and an answer is given from what was read some steps before,
while others publish and old requests arrive. Each provider has an invariant of its own
(`NpmInv`, `SdkmanInv`, `HomebrewInv`, `WingetInv`), and one lemma for each of its actions; they share
what the executor's steps make of `Sound`, which relates what the executor is owed to the
requests that are outstanding: while an apply is owed, or under way, an outstanding request is that
apply's, and the call does not know its outcome. Under it the four differ in why this stays so.

* *npm* and *SDKMAN* may have to leave a request behind, and say `AMBIGUOUS` when they do. npm's
  invariant keeps what was read and cannot become false (a version that is taken stays taken) and to
  which call each request belongs, since an authorized attempt may be a second one (`NpmAlone`: without an
  authorization, whatever is outstanding is the last call's); SDKMAN's, that
  only the apply that is owed has sent nothing yet. That *published* is true, and that a failure is the end,
  are about the step that answers, which looks at the outcome of the call's own request, and hold for
  every outcome but the redirected one.
* *Homebrew* and *WinGet* push, ask what became of the push, and ask for a pull request. That two calls do not
  open two pull requests rests on the update branch: it exists only when no push to it is outstanding
  (`HomebrewSite`, `WingetSite`), and a call that found it missing, or pushed it, knows
  whether a request for a pull request is on its way (`HomebrewBranch`, `HomebrewSeen` and their
  counterparts). While an apply is owed, no pull request was opened but by the call that is just waiting for
  the answer, which is how a malformed answer comes to be the one exception of `FailureIsOver`. A push to a base branch is a compare-and-swap of the commit it was built on
  (`HomebrewCommits`); so a direct push that is found at a later commit was carried out.

`ProvidersPlansAreSound` needs an invariant of its own for Homebrew and WinGet (`ProvidersPlan`): until
Plan accepts it, the plan is a configuration; from then on, a payload that apply and reconcile accept.
The step that matters is Plan, and it is about paths of any length. Plan cleans a configured path and
accepts it if something is left and it does not leave the repository; apply and reconcile want a path
that cleaning does not change. `Clean` takes the components one by one, and `Cleaning` says how what is kept
grows. What is kept has no empty component and no ".", and no ".." unless it begins with one (`Upward`);
so what Plan accepts consists of names (`Names`), and cleaning names keeps them all
(`CleaningKeepsNames`). These are inductions over the number of components, and the prover can use no
theorem with an operator for a parameter: `Induction` is the least counterexample of a *set* of numbers,
which the library's `WFMin` provides. The directory of WinGet's manifests ends in the
version, and the one version that is no name, "..", takes away the component before it, of which there
is always one. Homebrew's formula has a stanza for Java exactly when it depends on a version of it.

**From no assumption** in `ProviderCallProof`: `CallInvariantHolds`, `CallTypeCorrect`, `DispatchComesFirst`
(`DispatchBeforeDelivery`), `AnswersComplete` (`AnswersAreComplete`) and `LeftoversDispatched`
(`LeftoversAreDispatched`), that is all safety of the run `call`, for any set of processes a provider may
start. The properties look at what a call returned, or at what was read. The invariant says of each place
in the call which boundaries are journaled (`Journaled`), that the gate is shut until the dispatch or
the cleanup (`Gated`), and who may still run (`Reaped`): past the second half of `Wait` nobody is attached to the output, nor can
anybody become so, so nobody can write behind what `CheckOutput` accepts (`Accepted`); who is detached
may go on, unless the group was killed (`Left`).

**From the five assumptions of `Planning`** (targets are ordered, versions are numbers, the two "none"
values are not what they stand for, a configuration names targets of the release and places, bounds
are numbers; a description, an answer, a capability or a credential is anything) in `PlanningProof`:
`PlanningInvariantHolds`, `PlanningIsTyped`, `OperationsAreExecutedAsPlanned`,
`AmbientCredentialsAreGuarded` and `SavedPlansStayRunnable`, that is every property of the run `planning`, for any number of commands,
targets, executables, configurations and changes by others. What is executed was settled while the
plan was made, by four reads of one file between which it may be replaced. So the invariant says what
the reads of a command still tell it: without an upgrade, that the file is still so (`Fresh`) and the
targets planned so far are described by their executables (`Described`); after one, that a target
whose operations another executable computed carries a digest that the file it will be retained from
no longer has (`Suspect`), whence `Retain` refuses it. That this is inductive needs a clause no
property mentions: after one upgrade, if what was hashed at the second place is no longer there, then
nothing is in the first place (or else `Resolve` would find it there the second time, with any digest).
The rest follows the plan: what is bound fits it (`FitsBinding`), what was kept has a receipt
that says the same (`Kept`), which no other command can replace, and a saved plan keeps what its
making left of it (`OriginSafe`), of which the identity of the plan covers all that counts
(`IdentityIsSound`).

**Only model-checked.** Liveness (`ExecuteReturns`, `ContextEndsCall`) and anything that rests on
`ENABLED`: beyond the prover. The violations are counterexamples and need no proof.

## 5. Not modelled

* `MemoryLeases` itself: within one process the keys of a run are distinct and the journal's lock
  excludes other processes, so its refusals are reached only by embedding the executor differently.
* Evidence bundles: made from a finished run and read by nobody here.
* Protocol encoding, parsing of the configuration, digests and JSON, archive formats and HTTP headers:
  data no modelled rule reads; their failures are steps (`PrepareFails`, `Decode`, `NoToken`).
* Damage from outside: to the journal, the catalog or the retention directory, which the code detects
  by digests and refuses. `--state-dir`, which moves them.
* Windows and other platforms' process trees and locks; wall clocks that step back.
* doctor, init, plugins, GitHub action, scripts: read-only or wrappers.

## 6. Plan

Done, in this order, the most important first: `RunJournal`; `Executor` with `Publication`;
`ProviderCall`; `RunCatalog`; `JournalFile`; the proofs of section 4; the four providers with
`ProviderCaller`; `Planning` with `PlanDocument`.

Next, models:

1. **LeaseManager**: `MemoryLeases` with a clock, goroutines that read the clock before they take the
   mutex, expiry and renewal, and the journal's recorded times.
2. **Evidence** and `status`: operators over a journal, checked against what `Publication` says.
3. The catalog's damaged entries and marker; the writer's failed syncs; a retention directory that
   others write.

Next, theorems, each from the invariants already proved where possible:

1. What `Executor` assumes of a provider (`Truthful`) as a refinement: `Providers` under an abstract
   destination that is asked, answers and forgets, which `Executor`'s provider also implements.
2. That `Executor` over `DurableLog`, with an append that extends the log before it is acknowledged,
   implements `Executor` as it is.
