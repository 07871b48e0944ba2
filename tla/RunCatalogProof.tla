-------------------------- MODULE RunCatalogProof --------------------------
(***************************************************************************)
(* Theorems about RunCatalog, for every set of plans, journals and         *)
(* commands.  None of its invariants is inductive: what makes a plan run   *)
(* once is what a command knows of the catalog, the lock and the journal   *)
(* at each of its steps, which IInv adds.                                  *)
(***************************************************************************)
EXTENDS RunCatalog, TLAPS

Holding   == {"open", "execute", "run"}
Executing == {"lock"} \cup Holding
Resolved  == {"claim", "backup", "primary"} \cup Executing

\* What a command carries along is there when a step needs it.
Carried(c) ==
    /\ command[c].verb \in {"plan", "publish"} => command[c].plan \in Plan
    /\ command[c].step \in {"save", "register"} => command[c].verb \in {"plan", "publish"}
    /\ command[c].step \in Resolved =>
          /\ command[c].plan \in Plan
          /\ command[c].journal \in Journal
          /\ command[c].run \in Command

\* How far a command is with its claim.
Claiming(c) ==
    /\ command[c].step \in {"backup", "primary"} => command[c].plan \in registered
    /\ command[c].step = "primary" => backup[command[c].plan] = Wanted(c)
    /\ (command[c].step \in Executing /\ command[c].verb # "retry") =>
          primary[command[c].plan] = Wanted(c)

\* The lock is held from reading the journal on, and what was read there stays true.
Writing(c) ==
    /\ command[c].step \in Holding => lock[command[c].journal] = c
    /\ At(c, "execute") =>
          /\ file[command[c].journal].stage # "absent"
          /\ file[command[c].journal].run \in {None, command[c].run}
    /\ At(c, "run") =>
          /\ command[c].verb # "retry"
          /\ file[command[c].journal].plan = command[c].plan
          /\ file[command[c].journal].run = command[c].run

CommandSafe(c) == Carried(c) /\ Claiming(c) /\ Writing(c)

\* The backup of a claim is there first, and the plan's entry before both.
Entries ==
    \A p \in Plan :
        /\ primary[p] # Unclaimed => primary[p] = backup[p]
        /\ backup[p] # Unclaimed => p \in registered /\ backup[p].journal \in Journal

\* A journal has an identity exactly if it has an event.
Identity ==
    \A j \in Journal :
        /\ file[j].stage \in {"absent", "empty"} <=> file[j].run = None
        /\ file[j].run = None <=> file[j].plan = None

\* A run that was executed is the one in its journal.
Recorded ==
    \A r \in ran : file[r.journal].plan = r.plan /\ file[r.journal].run = r.run

CatalogSafe == Entries /\ Identity /\ Recorded /\ JournalsAreClaimed

Safety == CatalogSafe /\ \A c \in Command : CommandSafe(c)

IInv == TypeOK /\ Safety

-----------------------------------------------------------------------------
(* Types. *)

LEMMA InitType == Init => TypeOK
  BY CatalogAssumption DEF Init, TypeOK, Unclaimed, Claims, NoFile, Files, NotInvoked, Processes, Steps

LEMMA GotoType ==
    ASSUME TypeOK, NEW c \in Command, NEW step \in Steps, Goto(c, step)
    PROVE  command' \in [Command -> Processes]
  BY DEF TypeOK, Goto, Processes


LEMMA WantedType == ASSUME TypeOK, NEW c \in Command PROVE Wanted(c) \in Claims
<1>1. command[c].run \in Command \cup {None} /\ command[c].journal \in Journal \cup {None}
  BY DEF TypeOK, Processes
<1> QED
  BY <1>1 DEF Wanted, Claims

LEMMA InvokeType ==
    ASSUME TypeOK, NEW c \in Command, NEW verb \in Verbs, NEW p \in Plan, Invoke(c, verb, p)
    PROVE  TypeOK'
<1> DEFINE step == CASE verb = "plan"                  -> "save"
                     [] verb \in {"publish", "resume"} -> "inventory"
                     [] OTHER                          -> "load"
           plan == IF verb \in {"plan", "publish"} THEN p ELSE None
<1>1. step \in Steps /\ plan \in Plan \cup {None}
  BY DEF Steps
<1>2. command' = [command EXCEPT ![c] = [@ EXCEPT !.step = step, !.verb = verb, !.plan = plan]]
  BY DEF Invoke
<1> HIDE DEF step, plan
<1>3. [command[c] EXCEPT !.step = step, !.verb = verb, !.plan = plan] \in Processes
  BY <1>1, Zenon DEF TypeOK, Processes
<1> QED
  BY <1>2, <1>3 DEF TypeOK, Invoke

LEMMA ListPlansType == ASSUME TypeOK, NEW c \in Command, ListPlans(c) PROVE TypeOK'
<1>1. [command[c] EXCEPT !.step = "listed", !.seen = registered] \in Processes
  <2>1. "listed" \in Steps
    BY DEF Steps
  <2> QED
    BY <2>1, Zenon DEF TypeOK, Processes
<1> QED
  BY <1>1 DEF TypeOK, ListPlans

LEMMA SelectRunType ==
    ASSUME TypeOK, NEW c \in Command, NEW p \in Plan, NEW release, NEW run,
           SelectRun(c, p, release, run)
    PROVE  TypeOK'
<1>1. ClaimOf(p).journal \in Journal \cup {None} /\ ClaimOf(p).run \in Command \cup {None}
  BY DEF TypeOK, ClaimOf, Claims
<1>2. "load" \in Steps
  BY DEF Steps
<1>3. [command[c] EXCEPT !.step = "load", !.plan = p, !.journal = ClaimOf(p).journal,
                         !.run = ClaimOf(p).run] \in Processes
  BY <1>1, <1>2, Zenon DEF TypeOK, Processes
<1> QED
  BY <1>3 DEF TypeOK, SelectRun

LEMMA RegisterPlanType ==
    ASSUME TypeOK, NEW c \in Command, Carried(c), RegisterPlan(c)
    PROVE  TypeOK'
<1>1. command[c].plan \in Plan
  BY DEF RegisterPlan, At, Carried
<1>2. "load" \in Steps /\ "done" \in Steps /\ DefaultJournal[command[c].plan] \in Journal
  BY <1>1, CatalogAssumption DEF Steps
<1>3. [command[c] EXCEPT !.step = "load", !.journal = DefaultJournal[command[c].plan]] \in Processes
  BY <1>2, Zenon DEF TypeOK, Processes
<1>4. command' \in [Command -> Processes]
  BY <1>2, <1>3, GotoType DEF RegisterPlan, TypeOK
<1> QED
  BY <1>1, <1>4 DEF TypeOK, RegisterPlan

LEMMA ResolveRunType ==
    ASSUME TypeOK, NEW c \in Command, NEW p \in Plan, NEW j \in Journal,
           NEW run \in Command \cup {None}, ResolveRun(c, p, j, run)
    PROVE  TypeOK'
<1> DEFINE step == IF command[c].verb = "retry" THEN "lock" ELSE "claim"
<1>1. step \in Steps
  BY DEF Steps
<1>2. RunFor(c, j, run) \in Command \cup {None}
  BY DEF RunFor, TypeOK, Files
<1>3. command' = [command EXCEPT ![c] = [@ EXCEPT
         !.step = step, !.plan = p, !.journal = j, !.run = RunFor(c, j, run)]]
  BY DEF ResolveRun
<1> HIDE DEF step
<1>4. [command[c] EXCEPT !.step = step, !.plan = p, !.journal = j, !.run = RunFor(c, j, run)]
         \in Processes
  BY <1>1, <1>2, Zenon DEF TypeOK, Processes
<1> QED
  BY <1>3, <1>4 DEF TypeOK, ResolveRun

LEMMA PrepareClaimType ==
    ASSUME TypeOK, NEW c \in Command, Carried(c), PrepareClaim(c)
    PROVE  TypeOK'
<1> DEFINE missing == JournalOf(command[c].plan, Wanted(c)) = "absent"
<1>1. "backup" \in Steps /\ missing \in BOOLEAN
  BY DEF Steps
<1>2. command' = [command EXCEPT ![c] = [@ EXCEPT !.step = "backup", !.missing = missing]]
  BY DEF PrepareClaim
<1> HIDE DEF missing
<1>3. [command[c] EXCEPT !.step = "backup", !.missing = missing] \in Processes
  BY <1>1, Zenon DEF TypeOK, Processes
<1>4. command[c].plan \in Plan
  BY DEF PrepareClaim, At, Carried, Resolved
<1> QED
  BY <1>2, <1>3, <1>4 DEF TypeOK, PrepareClaim

LEMMA InstallType ==
    ASSUME NEW entries \in [Plan -> Claims], NEW p \in Plan, NEW claim \in Claims
    PROVE  Install(entries, p, claim) \in [Plan -> Claims]
  BY DEF Install

LEMMA InstallBackupType ==
    ASSUME TypeOK, NEW c \in Command, Carried(c), InstallBackup(c)
    PROVE  TypeOK'
<1> DEFINE missing == command[c].missing /\ backup' = backup
<1>1. "primary" \in Steps /\ missing \in BOOLEAN
  BY DEF Steps
<1>2. command' = [command EXCEPT ![c] = [@ EXCEPT !.step = "primary", !.missing = missing]]
  BY DEF InstallBackup
<1> HIDE DEF missing
<1>3. [command[c] EXCEPT !.step = "primary", !.missing = missing] \in Processes
  BY <1>1, Zenon DEF TypeOK, Processes
<1>4. command[c].plan \in Plan
  BY DEF InstallBackup, At, Carried, Resolved
<1>5. backup' \in [Plan -> Claims]
  BY <1>4, WantedType, InstallType DEF InstallBackup, TypeOK
<1> QED
  BY <1>2, <1>3, <1>5 DEF TypeOK, InstallBackup

LEMMA InstallPrimaryType ==
    ASSUME TypeOK, NEW c \in Command, Carried(c), InstallPrimary(c)
    PROVE  TypeOK'
<1>1. command[c].plan \in Plan
  BY DEF InstallPrimary, At, Carried, Resolved
<1>2. primary' \in [Plan -> Claims]
  BY <1>1, WantedType, InstallType DEF InstallPrimary, TypeOK
<1>3. command' \in [Command -> Processes]
  BY GotoType DEF InstallPrimary, Steps
<1> QED
  BY <1>2, <1>3 DEF TypeOK, InstallPrimary

LEMMA OpenJournalType ==
    ASSUME TypeOK, NEW c \in Command, Carried(c), OpenJournal(c)
    PROVE  TypeOK'
<1>1. command[c].journal \in Journal
  BY DEF OpenJournal, At, Carried, Resolved, Executing, Holding
<1>2. file' \in [Journal -> Files]
  BY <1>1 DEF OpenJournal, TypeOK, Files
<1>3. command' \in [Command -> Processes]
  BY GotoType DEF OpenJournal, Steps
<1> QED
  BY <1>2, <1>3 DEF TypeOK, OpenJournal

LEMMA StartRunType ==
    ASSUME TypeOK, NEW c \in Command, Carried(c), StartRun(c)
    PROVE  TypeOK'
<1>1. /\ command[c].plan \in Plan
      /\ command[c].journal \in Journal
      /\ command[c].run \in Command
  BY DEF StartRun, At, Carried, Resolved, Executing, Holding
<1>2. Started(c) \in Files
  BY <1>1 DEF Started, Files
<1>3. file' \in [Journal -> Files]
  BY <1>1, <1>2 DEF StartRun, TypeOK
<1>4. [plan |-> command[c].plan, run |-> command[c].run, journal |-> command[c].journal] \in Runs
  BY <1>1 DEF Runs
<1>5. ran' \subseteq Runs
  BY <1>4 DEF StartRun, TypeOK
<1>6. command' \in [Command -> Processes]
  BY GotoType DEF StartRun, Steps
<1> QED
  BY <1>3, <1>5, <1>6 DEF TypeOK, StartRun

LEMMA UnlockType ==
    ASSUME TypeOK, NEW c \in Command, Unlock(c)
    PROVE  lock' \in [Journal -> Command \cup {None}]
  BY DEF Unlock, TypeOK

LEMMA FinishRunType ==
    ASSUME TypeOK, NEW c \in Command, Carried(c),
           NEW stage \in {"started", "completed", "refused"}, FinishRun(c, stage)
    PROVE  TypeOK'
<1>1. command[c].journal \in Journal
  BY DEF FinishRun, At, Carried, Resolved, Executing, Holding
<1>2. file' \in [Journal -> Files]
  BY <1>1 DEF FinishRun, TypeOK, Files
<1>3. command' \in [Command -> Processes]
  BY GotoType DEF FinishRun, Steps
<1> QED
  BY <1>2, <1>3, UnlockType DEF TypeOK, FinishRun

\* The steps that only go on, and perhaps take or drop the lock.
LEMMA OnlyGoOnType ==
    ASSUME TypeOK, NEW c \in Command, Carried(c),
           CheckRelease(c) \/ SavePlan(c) \/ AcquireLock(c) \/ AuthorizeRetry(c) \/ End(c)
    PROVE  TypeOK'
<1>1. CASE CheckRelease(c)
  BY <1>1, GotoType DEF CheckRelease, TypeOK, Steps
<1>2. CASE SavePlan(c)
  <2>1. command[c].plan \in Plan
    BY <1>2 DEF SavePlan, At, Carried
  <2> QED
    BY <1>2, <2>1, GotoType DEF SavePlan, TypeOK, Steps
<1>3. CASE AcquireLock(c)
  BY <1>3, GotoType DEF AcquireLock, TypeOK, Steps
<1>4. CASE AuthorizeRetry(c)
  BY <1>4, GotoType, UnlockType DEF AuthorizeRetry, TypeOK, Steps
<1>5. CASE End(c)
  BY <1>5, GotoType, UnlockType DEF End, TypeOK, Steps
<1> QED
  BY <1>1, <1>2, <1>3, <1>4, <1>5

LEMMA NextType == ASSUME TypeOK, Safety, [Next]_vars PROVE TypeOK'
<1>1. CASE UNCHANGED vars
  BY <1>1 DEF vars, TypeOK
<1>2. CASE Next
  BY <1>2, InvokeType, ListPlansType, SelectRunType, RegisterPlanType, ResolveRunType,
     PrepareClaimType, InstallBackupType, InstallPrimaryType, OpenJournalType, StartRunType,
     FinishRunType, OnlyGoOnType DEF Next, Step, Safety, CommandSafe
<1> QED
  BY <1>1, <1>2

-----------------------------------------------------------------------------
(* The invariant. *)

LEMMA InitSafety == Init => Safety
<1> SUFFICES ASSUME Init PROVE Safety
  OBVIOUS
<1>1. CatalogSafe
  BY DEF Init, CatalogSafe, Entries, Identity, Recorded, JournalsAreClaimed, NoFile
<1>2. ASSUME NEW c \in Command PROVE CommandSafe(c)
  BY DEF Init, CommandSafe, Carried, Claiming, Writing, At, NotInvoked, Resolved, Executing, Holding
<1> QED
  BY <1>1, <1>2 DEF Safety

\* What every step leaves to the commands that do not take it: claims are never replaced, and
\* only the holder of a journal's lock writes the journal or gives up the lock.
Untouched(c) ==
    /\ command' \in [Command -> Processes]
    /\ \A d \in Command \ {c} : command'[d] = command[d]
    /\ registered \subseteq registered'
    /\ \A p \in Plan : backup[p] # Unclaimed => backup'[p] = backup[p]
    /\ \A p \in Plan : primary[p] # Unclaimed => primary'[p] = primary[p]
    /\ \A j \in Journal : lock[j] \notin {None, c} => lock'[j] = lock[j] /\ file'[j] = file[j]

LEMMA OthersSafe ==
    ASSUME TypeOK, NEW c \in Command, Untouched(c),
           NEW d \in Command \ {c}, CommandSafe(d)
    PROVE  CommandSafe(d)'
<1>1. command'[d] = command[d]
  BY DEF Untouched
<1>2. Carried(d)'
  BY <1>1 DEF CommandSafe, Carried
<1>3. Claiming(d)'
  <2>1. command[d].step \in Resolved => Wanted(d) # Unclaimed /\ command[d].plan \in Plan
    BY CatalogAssumption DEF CommandSafe, Carried, Wanted, Unclaimed
  <2>2. Wanted(d)' = Wanted(d)
    BY <1>1 DEF Wanted
  <2> QED
    BY <1>1, <2>1, <2>2 DEF CommandSafe, Claiming, Untouched, Resolved, Executing
<1>4. Writing(d)'
  <2>1. command[d].step \in Holding => command[d].journal \in Journal /\ lock[command[d].journal] = d
    BY DEF CommandSafe, Carried, Writing, Resolved, Executing
  <2>2. d # None
    BY CatalogAssumption
  <2> QED
    BY <1>1, <2>1, <2>2 DEF CommandSafe, Writing, Untouched, At, Holding
<1> QED
  BY <1>2, <1>3, <1>4 DEF CommandSafe

LEMMA RecordsKept ==
    ASSUME CatalogSafe, registered \subseteq registered', UNCHANGED <<backup, primary, file, ran>>
    PROVE  CatalogSafe'
  BY DEF CatalogSafe, Entries, Identity, Recorded, JournalsAreClaimed

\* A step that writes no claim, journal or history is safe if its command is.
LEMMA PlainStep ==
    ASSUME TypeOK, Safety, NEW c \in Command, Untouched(c),
           UNCHANGED <<backup, primary, file, ran>>, CommandSafe(c)'
    PROVE  Safety'
<1>1. CatalogSafe'
  BY RecordsKept DEF Safety, Untouched
<1>2. ASSUME NEW d \in Command PROVE CommandSafe(d)'
  BY OthersSafe DEF Safety
<1> QED
  BY <1>1, <1>2 DEF Safety

LEMMA GotoEffect ==
    ASSUME TypeOK, NEW c \in Command, NEW step \in Steps, Goto(c, step)
    PROVE  /\ \A d \in Command \ {c} : command'[d] = command[d]
           /\ command'[c].step = step
           /\ command'[c].verb = command[c].verb
           /\ command'[c].plan = command[c].plan
           /\ command'[c].journal = command[c].journal
           /\ command'[c].run = command[c].run
           /\ Wanted(c)' = Wanted(c)
  BY DEF TypeOK, Goto, Processes, Wanted

LEMMA InvokeSafe ==
    ASSUME TypeOK, Safety, NEW c \in Command, NEW verb \in Verbs, NEW p \in Plan,
           Invoke(c, verb, p)
    PROVE  Safety'
<1>1. TypeOK'
  BY InvokeType
<1>2. Untouched(c)
  BY <1>1 DEF Untouched, Invoke, TypeOK
<1>3. /\ command'[c].step \in {"save", "inventory", "load"}
      /\ command'[c].step = "save" => command'[c].verb = "plan"
      /\ command'[c].verb \in {"plan", "publish"} => command'[c].plan = p
  BY DEF Invoke, TypeOK, Processes
<1>4. CommandSafe(c)'
  BY <1>3 DEF CommandSafe, Carried, Claiming, Writing, At, Resolved, Executing, Holding
<1> QED
  BY <1>2, <1>4, PlainStep DEF Invoke

LEMMA ListPlansSafe == ASSUME TypeOK, Safety, NEW c \in Command, ListPlans(c) PROVE Safety'
<1>1. TypeOK'
  BY ListPlansType
<1>2. Untouched(c)
  BY <1>1 DEF Untouched, ListPlans, TypeOK
<1>3. /\ command'[c].step = "listed"
      /\ command'[c].verb = command[c].verb
      /\ command'[c].plan = command[c].plan
  BY DEF ListPlans, TypeOK, Processes
<1>4. CommandSafe(c)'
  BY <1>3 DEF Safety, CommandSafe, Carried, Claiming, Writing, At, Resolved, Executing, Holding
<1> QED
  BY <1>2, <1>4, PlainStep DEF ListPlans

LEMMA SelectRunSafe ==
    ASSUME TypeOK, Safety, NEW c \in Command, NEW p \in Plan, NEW release, NEW run,
           SelectRun(c, p, release, run)
    PROVE  Safety'
<1>1. TypeOK'
  BY SelectRunType
<1>2. Untouched(c)
  BY <1>1 DEF Untouched, SelectRun, TypeOK
<1>3. command'[c].step = "load" /\ command'[c].plan = p
  BY DEF SelectRun, TypeOK, Processes
<1>4. CommandSafe(c)'
  BY <1>3 DEF CommandSafe, Carried, Claiming, Writing, At, Resolved, Executing, Holding
<1> QED
  BY <1>2, <1>4, PlainStep DEF SelectRun

LEMMA RegisterPlanSafe ==
    ASSUME TypeOK, Safety, NEW c \in Command, RegisterPlan(c)
    PROVE  Safety'
<1>1. TypeOK'
  BY RegisterPlanType DEF Safety, CommandSafe
<1>2. Untouched(c)
  BY <1>1, ZenonT(60) DEF Untouched, RegisterPlan, Goto, TypeOK
<1>3. command'[c].step \in {"done", "load"} /\ command'[c].plan = command[c].plan
  BY DEF RegisterPlan, Goto, TypeOK, Processes
<1>4. command[c].plan \in Plan
  BY DEF Safety, CommandSafe, Carried, RegisterPlan, At
<1>5. CommandSafe(c)'
  BY <1>3, <1>4 DEF CommandSafe, Carried, Claiming, Writing, At, Resolved, Executing, Holding
<1> QED
  BY <1>2, <1>5, PlainStep DEF RegisterPlan

LEMMA ResolveRunSafe ==
    ASSUME TypeOK, Safety, NEW c \in Command, NEW p \in Plan, NEW j \in Journal,
           NEW run \in Command \cup {None}, ResolveRun(c, p, j, run)
    PROVE  Safety'
<1>1. TypeOK'
  BY ResolveRunType
<1>2. Untouched(c)
  BY <1>1 DEF Untouched, ResolveRun, TypeOK
<1>3. /\ command'[c].step = IF command[c].verb = "retry" THEN "lock" ELSE "claim"
      /\ command'[c].verb = command[c].verb
      /\ command'[c].plan = p
      /\ command'[c].journal = j
      /\ command'[c].run = RunFor(c, j, run)
  BY DEF ResolveRun, TypeOK, Processes
<1>4. RunFor(c, j, run) \in Command
  BY DEF RunFor, Fresh, TypeOK, Files, Safety, CatalogSafe, Identity
<1>5. CommandSafe(c)'
  BY <1>3, <1>4 DEF CommandSafe, Carried, Claiming, Writing, At, Resolved, Executing, Holding
<1> QED
  BY <1>2, <1>5, PlainStep DEF ResolveRun

LEMMA PrepareClaimSafe ==
    ASSUME TypeOK, Safety, NEW c \in Command, PrepareClaim(c)
    PROVE  Safety'
<1>1. TypeOK'
  BY PrepareClaimType DEF Safety, CommandSafe
<1>2. Untouched(c)
  BY <1>1 DEF Untouched, PrepareClaim, TypeOK
<1>3. /\ command'[c].step = "backup"
      /\ command'[c].verb = command[c].verb
      /\ command'[c].plan = command[c].plan
      /\ command'[c].journal = command[c].journal
      /\ command'[c].run = command[c].run
  BY DEF PrepareClaim, TypeOK, Processes
<1>4. Carried(c) /\ command[c].step \in Resolved /\ command[c].plan \in registered'
  BY DEF Safety, CommandSafe, PrepareClaim, At, Resolved
<1>5. CommandSafe(c)'
  BY <1>3, <1>4 DEF CommandSafe, Carried, Claiming, Writing, At, Resolved, Executing, Holding
<1> QED
  BY <1>2, <1>5, PlainStep DEF PrepareClaim

\* The steps that only go on, and perhaps take or drop the lock.
LEMMA OnlyGoOnSafe ==
    ASSUME TypeOK, Safety, NEW c \in Command,
           CheckRelease(c) \/ SavePlan(c) \/ AcquireLock(c) \/ AuthorizeRetry(c) \/ End(c)
    PROVE  Safety'
<1>1. TypeOK'
  BY OnlyGoOnType DEF Safety, CommandSafe
<1>2. PICK step \in {"save", "register", "open", "done"} :
         /\ Goto(c, step)
         /\ step = "save" => command[c].verb = "publish"
         /\ step = "register" => At(c, "save")
         /\ step = "open" => At(c, "lock") /\ lock' = [lock EXCEPT ![command[c].journal] = c]
  BY DEF CheckRelease, SavePlan, AcquireLock, AuthorizeRetry, End
<1>3. step \in Steps
  BY DEF Steps
<1>4. UNCHANGED <<registered, backup, primary, file, ran>>
  BY DEF CheckRelease, SavePlan, AcquireLock, AuthorizeRetry, End
<1>5. \A j \in Journal : lock[j] \notin {None, c} => lock'[j] = lock[j]
  BY DEF CheckRelease, SavePlan, AcquireLock, AuthorizeRetry, End, Unlock, TypeOK
<1>6. Untouched(c)
  BY <1>1, <1>2, <1>3, <1>4, <1>5, GotoEffect DEF Untouched, TypeOK
<1>7. CommandSafe(c)'
  <2>1. CommandSafe(c)
    BY DEF Safety
  <2>2. /\ command'[c].step = step
        /\ command'[c].verb = command[c].verb
        /\ command'[c].plan = command[c].plan
        /\ command'[c].journal = command[c].journal
        /\ command'[c].run = command[c].run
        /\ Wanted(c)' = Wanted(c)
    BY <1>2, <1>3, GotoEffect
  <2>3. CASE step = "open"
    <3>1. /\ command[c].step \in Executing
          /\ command[c].journal \in Journal
      BY <1>2, <2>1, <2>3 DEF CommandSafe, Carried, At, Resolved, Executing
    <3>2. lock'[command[c].journal] = c
      BY <1>2, <2>3, <3>1 DEF TypeOK
    <3> QED
      BY <1>4, <2>1, <2>2, <2>3, <3>1, <3>2
      DEF CommandSafe, Carried, Claiming, Writing, At, Resolved, Executing, Holding
  <2>4. CASE step # "open"
    BY <1>2, <2>1, <2>2, <2>4
    DEF CommandSafe, Carried, Claiming, Writing, At, Resolved, Executing, Holding
  <2> QED
    BY <2>3, <2>4
<1> QED
  BY <1>4, <1>6, <1>7, PlainStep

\* Install keeps what is there; with ErrConflict otherwise, a claim is where it was wanted.
LEMMA InstallEffect ==
    ASSUME NEW entries \in [Plan -> Claims], NEW p \in Plan, NEW claim \in Claims
    PROVE  /\ \A q \in Plan : entries[q] # Unclaimed => Install(entries, p, claim)[q] = entries[q]
           /\ \A q \in Plan \ {p} : Install(entries, p, claim)[q] = entries[q]
  BY DEF Install

LEMMA InstallBackupSafe ==
    ASSUME TypeOK, Safety, NEW c \in Command, InstallBackup(c)
    PROVE  Safety'
<1> DEFINE p == command[c].plan
<1>1. TypeOK'
  BY InstallBackupType DEF Safety, CommandSafe
<1>2. Carried(c) /\ command[c].step \in Resolved /\ p \in Plan /\ p \in registered
  BY DEF Safety, CommandSafe, Carried, Claiming, InstallBackup, At, Resolved
<1>3. /\ \A q \in Plan : backup[q] # Unclaimed => backup'[q] = backup[q]
      /\ \A q \in Plan \ {p} : backup'[q] = backup[q]
      /\ backup'[p] = Wanted(c)
  BY <1>2, WantedType, InstallEffect DEF InstallBackup, TypeOK
<1>4. Untouched(c)
  BY <1>1, <1>3 DEF Untouched, InstallBackup, TypeOK
<1>5. /\ command'[c].step = "primary"
      /\ command'[c].verb = command[c].verb
      /\ command'[c].plan = command[c].plan
      /\ command'[c].journal = command[c].journal
      /\ command'[c].run = command[c].run
      /\ Wanted(c)' = Wanted(c)
  BY DEF InstallBackup, TypeOK, Processes, Wanted
<1>6. CommandSafe(c)'
  BY <1>2, <1>3, <1>5
  DEF InstallBackup, CommandSafe, Carried, Claiming, Writing, At, Resolved, Executing, Holding
<1>7. Entries'
  BY <1>2, <1>3 DEF InstallBackup, Safety, CatalogSafe, Entries, Carried, Wanted
<1>8. CatalogSafe'
  BY <1>7 DEF InstallBackup, Safety, CatalogSafe, Identity, Recorded, JournalsAreClaimed
<1>9. ASSUME NEW d \in Command PROVE CommandSafe(d)'
  BY <1>4, <1>6, OthersSafe DEF Safety
<1> QED
  BY <1>8, <1>9 DEF Safety

LEMMA InstallPrimarySafe ==
    ASSUME TypeOK, Safety, NEW c \in Command, InstallPrimary(c)
    PROVE  Safety'
<1> DEFINE p == command[c].plan
<1>1. TypeOK'
  BY InstallPrimaryType DEF Safety, CommandSafe
<1>2. /\ Carried(c)
      /\ command[c].step \in Resolved
      /\ p \in Plan
      /\ p \in registered
      /\ backup[p] = Wanted(c)
  BY DEF Safety, CommandSafe, Carried, Claiming, InstallPrimary, At, Resolved
<1>3. /\ \A q \in Plan : primary[q] # Unclaimed => primary'[q] = primary[q]
      /\ \A q \in Plan \ {p} : primary'[q] = primary[q]
      /\ primary'[p] = Wanted(c)
  BY <1>2, WantedType, InstallEffect DEF InstallPrimary, TypeOK
<1>4. PICK step \in {"done", "lock"} : Goto(c, step)
  BY DEF InstallPrimary
<1>5. /\ \A d \in Command \ {c} : command'[d] = command[d]
      /\ command'[c].step = step
      /\ command'[c].verb = command[c].verb
      /\ command'[c].plan = command[c].plan
      /\ command'[c].journal = command[c].journal
      /\ command'[c].run = command[c].run
      /\ Wanted(c)' = Wanted(c)
  <2>1. step \in Steps
    BY DEF Steps
  <2> QED
    BY <1>4, <2>1, GotoEffect
<1>6. Untouched(c)
  BY <1>1, <1>3, <1>5 DEF Untouched, InstallPrimary, TypeOK
<1>7. CommandSafe(c)'
  BY <1>2, <1>3, <1>5
  DEF InstallPrimary, CommandSafe, Carried, Claiming, Writing, At, Resolved, Executing, Holding
<1>8. Entries'
  BY <1>2, <1>3 DEF InstallPrimary, Safety, CatalogSafe, Entries
<1>9. JournalsAreClaimed'
  <2> SUFFICES ASSUME NEW j \in Journal, file[j].run # None
               PROVE  primary'[file[j].plan] = [run |-> file[j].run, journal |-> j]
    BY DEF JournalsAreClaimed, InstallPrimary
  <2>1. file[j].plan \in Plan
    BY DEF TypeOK, Files, Safety, CatalogSafe, Identity
  <2>2. primary[file[j].plan] = [run |-> file[j].run, journal |-> j]
    BY DEF Safety, CatalogSafe, JournalsAreClaimed
  <2>3. primary[file[j].plan] # Unclaimed
    BY <2>2 DEF Unclaimed
  <2> QED
    BY <1>3, <2>1, <2>2, <2>3
<1>10. CatalogSafe'
  BY <1>8, <1>9 DEF InstallPrimary, Safety, CatalogSafe, Identity, Recorded
<1>11. ASSUME NEW d \in Command PROVE CommandSafe(d)'
  BY <1>6, <1>7, OthersSafe DEF Safety
<1> QED
  BY <1>10, <1>11 DEF Safety

LEMMA OpenJournalSafe ==
    ASSUME TypeOK, Safety, NEW c \in Command, OpenJournal(c)
    PROVE  Safety'
<1> DEFINE j == command[c].journal
<1>1. TypeOK'
  BY OpenJournalType DEF Safety, CommandSafe
<1>2. /\ CommandSafe(c)
      /\ command[c].step \in Holding
      /\ j \in Journal
      /\ lock[j] = c
  BY DEF Safety, CommandSafe, Carried, Writing, OpenJournal, At, Resolved, Executing, Holding
<1>3. Goto(c, "execute") /\ "execute" \in Steps
  BY DEF OpenJournal, Steps
<1>4. /\ \A k \in Journal \ {j} : file'[k] = file[k]
      /\ \A k \in Journal : file'[k].run = file[k].run /\ file'[k].plan = file[k].plan
      /\ file'[j].stage = IF file[j].stage = "absent" THEN "empty" ELSE file[j].stage
  BY <1>2 DEF OpenJournal, TypeOK, Files
<1>5. Untouched(c)
  BY <1>1, <1>2, <1>3, <1>4, GotoEffect DEF Untouched, OpenJournal, TypeOK
<1>6. CommandSafe(c)'
  BY <1>2, <1>3, <1>4, GotoEffect
  DEF OpenJournal, CommandSafe, Carried, Claiming, Writing, At, Resolved, Executing, Holding
<1>7. Identity'
  BY <1>2, <1>4 DEF Safety, CatalogSafe, Identity
<1>8. Recorded'
  BY <1>4 DEF Safety, CatalogSafe, Recorded, OpenJournal, TypeOK, Runs
<1>9. CatalogSafe'
  BY <1>4, <1>7, <1>8 DEF OpenJournal, Safety, CatalogSafe, Entries, JournalsAreClaimed
<1>10. ASSUME NEW d \in Command PROVE CommandSafe(d)'
  BY <1>5, <1>6, OthersSafe DEF Safety
<1> QED
  BY <1>9, <1>10 DEF Safety

LEMMA StartRunSafe ==
    ASSUME TypeOK, Safety, NEW c \in Command, StartRun(c)
    PROVE  Safety'
<1> DEFINE p == command[c].plan
           j == command[c].journal
           r == command[c].run
<1>1. TypeOK'
  BY StartRunType DEF Safety, CommandSafe
<1>2. /\ CommandSafe(c)
      /\ command[c].step \in Holding
      /\ command[c].verb # "retry"
      /\ p \in Plan /\ j \in Journal /\ r \in Command
      /\ lock[j] = c
      /\ primary[p] = [run |-> r, journal |-> j]
      /\ file[j].run \in {None, r}
  BY DEF Safety, CommandSafe, Carried, Claiming, Writing, Wanted, StartRun, At,
         Resolved, Executing, Holding
<1>3. Goto(c, "run") /\ "run" \in Steps
  BY DEF StartRun, Steps
<1>4. /\ file[j].stage = "empty" => file[j].run = None
      /\ file[j].stage = "started" => file[j].run = r /\ file[j].plan = p
  BY <1>2 DEF StartRun, Safety, CatalogSafe, Identity
<1>5. /\ \A k \in Journal \ {j} : file'[k] = file[k]
      /\ file'[j] \in Files
      /\ file'[j].stage = "started"
      /\ file'[j].plan = p
      /\ file'[j].run = r
  BY <1>1, <1>2, <1>4 DEF StartRun, Started, TypeOK
<1>6. Untouched(c)
  BY <1>1, <1>2, <1>3, <1>5, GotoEffect DEF Untouched, StartRun, TypeOK
<1>7. CommandSafe(c)'
  BY <1>2, <1>3, <1>5, GotoEffect
  DEF StartRun, CommandSafe, Carried, Claiming, Writing, At, Resolved, Executing, Holding
<1>8. p # None /\ r # None
  BY <1>2, CatalogAssumption
<1>9. Identity'
  BY <1>5, <1>8 DEF Safety, CatalogSafe, Identity
<1>10. JournalsAreClaimed'
  BY <1>2, <1>5 DEF StartRun, Safety, CatalogSafe, JournalsAreClaimed
<1>11. Recorded'
  <2> SUFFICES ASSUME NEW s \in ran' PROVE file'[s.journal].plan = s.plan /\ file'[s.journal].run = s.run
    BY DEF Recorded
  <2>1. CASE s = [plan |-> p, run |-> r, journal |-> j]
    BY <1>5, <2>1
  <2>2. CASE s \in ran
    <3>1. file[s.journal].plan = s.plan /\ file[s.journal].run = s.run
      BY <2>2 DEF Safety, CatalogSafe, Recorded
    <3>2. s.journal \in Journal /\ s.run \in Command
      BY <2>2 DEF TypeOK, Runs
    <3>3. CASE s.journal = j
      BY <1>4, <1>5, <3>1, <3>2, <3>3, CatalogAssumption DEF StartRun
    <3> QED
      BY <1>5, <3>1, <3>2, <3>3
  <2> QED
    BY <2>1, <2>2 DEF StartRun
<1>12. CatalogSafe'
  BY <1>9, <1>10, <1>11 DEF StartRun, Safety, CatalogSafe, Entries
<1>13. ASSUME NEW d \in Command PROVE CommandSafe(d)'
  BY <1>6, <1>7, OthersSafe DEF Safety
<1> QED
  BY <1>12, <1>13 DEF Safety

LEMMA FinishRunSafe ==
    ASSUME TypeOK, Safety, NEW c \in Command,
           NEW stage \in {"started", "completed", "refused"}, FinishRun(c, stage)
    PROVE  Safety'
<1> DEFINE j == command[c].journal
<1>1. TypeOK'
  BY FinishRunType DEF Safety, CommandSafe
<1>2. /\ CommandSafe(c)
      /\ j \in Journal
      /\ lock[j] = c
      /\ file[j].run = command[c].run
      /\ command[c].run \in Command
  BY DEF Safety, CommandSafe, Carried, Writing, FinishRun, At, Resolved, Executing, Holding
<1>3. Goto(c, "done") /\ "done" \in Steps
  BY DEF FinishRun, Steps
<1>4. /\ \A k \in Journal \ {j} : file'[k] = file[k]
      /\ \A k \in Journal : file'[k].run = file[k].run /\ file'[k].plan = file[k].plan
      /\ file'[j].stage = stage
  BY <1>2 DEF FinishRun, TypeOK, Files
<1>5. \A k \in Journal : lock[k] \notin {None, c} => lock'[k] = lock[k]
  BY DEF FinishRun, Unlock
<1>6. Untouched(c)
  BY <1>1, <1>2, <1>3, <1>4, <1>5, GotoEffect DEF Untouched, FinishRun, TypeOK
<1>7. CommandSafe(c)'
  BY <1>2, <1>3, GotoEffect
  DEF CommandSafe, Carried, Claiming, Writing, At, Resolved, Executing, Holding
<1>8. file[j].run # None
  BY <1>2, CatalogAssumption
<1>9. Identity'
  BY <1>4, <1>8 DEF Safety, CatalogSafe, Identity
<1>10. Recorded'
  BY <1>4 DEF Safety, CatalogSafe, Recorded, FinishRun, TypeOK, Runs
<1>11. CatalogSafe'
  BY <1>4, <1>9, <1>10 DEF FinishRun, Safety, CatalogSafe, Entries, JournalsAreClaimed
<1>12. ASSUME NEW d \in Command PROVE CommandSafe(d)'
  BY <1>6, <1>7, OthersSafe DEF Safety
<1> QED
  BY <1>11, <1>12 DEF Safety

LEMMA StutterSafe == ASSUME Safety, UNCHANGED vars PROVE Safety'
<1>1. CatalogSafe'
  BY RecordsKept DEF Safety, vars
<1>2. ASSUME NEW c \in Command PROVE CommandSafe(c)'
  BY DEF Safety, CommandSafe, Carried, Claiming, Writing, Wanted, At, vars
<1> QED
  BY <1>1, <1>2 DEF Safety

-----------------------------------------------------------------------------
(* The theorems. *)

\* The invariant the other theorems rest on: what each command knows, at each of its steps, of
\* the catalog, the lock and the journal stays true whatever the others do.
THEOREM CatalogInvariantHolds == Spec => []IInv
<1>1. Init => IInv
  BY InitType, InitSafety DEF IInv
<1>2. IInv /\ [Next]_vars => IInv'
  <2> SUFFICES ASSUME TypeOK, Safety, [Next]_vars PROVE IInv'
    BY DEF IInv
  <2>1. TypeOK'
    BY NextType
  <2>2. CASE UNCHANGED vars
    BY <2>1, <2>2, StutterSafe DEF IInv
  <2>3. CASE Next
    <3>1. Safety'
      BY <2>3, InvokeSafe, ListPlansSafe, SelectRunSafe, RegisterPlanSafe, ResolveRunSafe,
         PrepareClaimSafe, InstallBackupSafe, InstallPrimarySafe, OpenJournalSafe,
         StartRunSafe, FinishRunSafe, OnlyGoOnSafe DEF Next, Step
    <3> QED
      BY <2>1, <3>1 DEF IInv
  <2> QED
    BY <2>2, <2>3
<1> QED
  BY <1>1, <1>2, PTL DEF Spec

THEOREM CatalogTypeCorrect == Spec => []TypeOK
<1>1. IInv => TypeOK
  BY DEF IInv
<1> QED
  BY <1>1, CatalogInvariantHolds, PTL

\* However many commands race and are killed, a plan is executed as one run with one journal,
\* and a journal belongs to one plan.
THEOREM PlansRunOnce == Spec => []OneRunPerPlan
<1>1. IInv => OneRunPerPlan
  <2> SUFFICES ASSUME IInv, NEW r \in ran, NEW s \in ran,
                      r.plan = s.plan \/ r.journal = s.journal
               PROVE  r = s
    BY DEF OneRunPerPlan
  <2>1. r \in Runs /\ s \in Runs
    BY DEF IInv, TypeOK
  <2>2. /\ file[r.journal].plan = r.plan /\ file[r.journal].run = r.run
        /\ file[s.journal].plan = s.plan /\ file[s.journal].run = s.run
    BY DEF IInv, Safety, CatalogSafe, Recorded
  <2>3. /\ primary[r.plan] = [run |-> r.run, journal |-> r.journal]
        /\ primary[s.plan] = [run |-> s.run, journal |-> s.journal]
    BY <2>1, <2>2, CatalogAssumption DEF IInv, Safety, CatalogSafe, JournalsAreClaimed, Runs
  <2>4. r.plan = s.plan /\ r.run = s.run /\ r.journal = s.journal
    BY <2>2, <2>3
  <2> QED
    BY <2>1, <2>4 DEF Runs
<1> QED
  BY <1>1, CatalogInvariantHolds, PTL

\* The run a journal records is the one the catalog has for its plan.
THEOREM JournalsStayClaimed == Spec => []JournalsAreClaimed
<1>1. IInv => JournalsAreClaimed
  BY DEF IInv, Safety, CatalogSafe
<1> QED
  BY <1>1, CatalogInvariantHolds, PTL

\* At most one command writes a journal, and at most one executes a plan.
THEOREM ExecutionIsExclusive == Spec => []ExclusiveExecution
<1>1. IInv => ExclusiveExecution
  <2> SUFFICES ASSUME IInv, NEW c \in Command, NEW d \in Command \ {c}
               PROVE  /\ (command[c].step \in {"execute", "run"} /\ command[d].step \in {"execute", "run"}) =>
                            command[c].journal # command[d].journal
                      /\ (At(c, "run") /\ At(d, "run")) => command[c].plan # command[d].plan
    BY DEF ExclusiveExecution
  <2>1. CommandSafe(c) /\ CommandSafe(d)
    BY DEF IInv, Safety
  <2>2. (command[c].step \in {"execute", "run"} /\ command[d].step \in {"execute", "run"}) =>
           command[c].journal # command[d].journal
    BY <2>1 DEF CommandSafe, Writing, Holding
  <2>3. ASSUME At(c, "run"), At(d, "run") PROVE command[c].plan # command[d].plan
    <3>1. primary[command[c].plan] = Wanted(c) /\ primary[command[d].plan] = Wanted(d)
      BY <2>1, <2>3 DEF CommandSafe, Claiming, Writing, At, Executing, Holding
    <3> QED
      BY <2>2, <2>3, <3>1 DEF Wanted, At
  <2> QED
    BY <2>2, <2>3
<1> QED
  BY <1>1, CatalogInvariantHolds, PTL

\* Only an eventless or irreducible journal, or a path claimed for two plans, makes the
\* inventory of the registered plans fail.
THEOREM InventoryFailsOnlyFor == Spec => []InventoryBlockedOnlyBy
<1>1. IInv => InventoryBlockedOnlyBy
  <2> SUFFICES ASSUME IInv, InventoryFails(registered),
                      ~\E p, q \in Plan : /\ p # q
                                          /\ ClaimOf(p) # Unclaimed
                                          /\ ClaimOf(p).journal = ClaimOf(q).journal
               PROVE  \E p \in Plan : /\ ClaimOf(p) # Unclaimed
                                      /\ file[ClaimOf(p).journal].stage \in {"empty", "refused"}
    BY DEF InventoryBlockedOnlyBy
  <2>1. Entries /\ JournalsAreClaimed /\ Identity /\ TypeOK
    BY DEF IInv, Safety, CatalogSafe
  <2>2. registered \subseteq Plan
    BY <2>1 DEF TypeOK
  <2>3. \A p \in Plan : ~CopiesDiffer(p) /\ (ClaimOf(p) # Unclaimed => p \in registered)
    BY <2>1 DEF Entries, CopiesDiffer, ClaimOf
  <2>4. PICK p \in registered :
           /\ ClaimOf(p) # Unclaimed
           /\ \/ JournalOf(p, ClaimOf(p)) = "rejected"
              \/ file[ClaimOf(p).journal].stage = "refused"
    BY <2>2, <2>3 DEF InventoryFails
  <2> DEFINE j == ClaimOf(p).journal
  <2>5. CASE file[j].stage \notin {"empty", "refused"}
    <3>1. file[j].stage # "absent" /\ (file[j].plan # p \/ file[j].run # ClaimOf(p).run)
      BY <2>4, <2>5 DEF JournalOf
    <3>2. j \in Journal
      BY <2>1, <2>2, <2>4 DEF Entries, ClaimOf
    <3>3. file[j].run # None /\ file[j].plan \in Plan
      BY <2>1, <2>5, <3>1, <3>2 DEF Identity, TypeOK, Files
    <3>4. primary[file[j].plan] = [run |-> file[j].run, journal |-> j]
      BY <2>1, <3>2, <3>3 DEF JournalsAreClaimed
    <3>5. ClaimOf(file[j].plan) = [run |-> file[j].run, journal |-> j]
      BY <3>3, <3>4 DEF ClaimOf, Unclaimed
    <3> QED
      BY <2>2, <2>4, <3>1, <3>3, <3>5
  <2> QED
    BY <2>2, <2>4, <2>5
<1> QED
  BY <1>1, CatalogInvariantHolds, PTL

\* No step of any command removes or replaces a claim.
THEOREM ClaimsStay == Spec => ClaimsArePermanent
<1>1. IInv /\ [Next]_vars =>
        [\A p \in Plan : /\ backup[p] # Unclaimed => backup'[p] = backup[p]
                         /\ primary[p] # Unclaimed => primary'[p] = primary[p]]_vars
  <2> SUFFICES ASSUME IInv, Next, NEW p \in Plan
               PROVE  /\ backup[p] # Unclaimed => backup'[p] = backup[p]
                      /\ primary[p] # Unclaimed => primary'[p] = primary[p]
    OBVIOUS
  <2>1. ASSUME NEW c \in Command, InstallBackup(c) \/ InstallPrimary(c)
        PROVE  command[c].plan \in Plan /\ Wanted(c) \in Claims
    BY <2>1, WantedType
    DEF IInv, Safety, CommandSafe, Carried, InstallBackup, InstallPrimary, At, Resolved
  <2>2. ASSUME NEW c \in Command, InstallBackup(c)
        PROVE  (backup[p] # Unclaimed => backup'[p] = backup[p]) /\ primary' = primary
    <3>1. backup' = Install(backup, command[c].plan, Wanted(c)) /\ primary' = primary
      BY <2>2 DEF InstallBackup
    <3> QED
      BY <2>1, <2>2, <3>1, InstallEffect DEF IInv, TypeOK
  <2>3. ASSUME NEW c \in Command, InstallPrimary(c)
        PROVE  (primary[p] # Unclaimed => primary'[p] = primary[p]) /\ backup' = backup
    <3>1. primary' = Install(primary, command[c].plan, Wanted(c)) /\ backup' = backup
      BY <2>3 DEF InstallPrimary
    <3> QED
      BY <2>1, <2>3, <3>1, InstallEffect DEF IInv, TypeOK
  <2>4. \/ \E c \in Command : InstallBackup(c) \/ InstallPrimary(c)
        \/ backup' = backup /\ primary' = primary
    <3> SUFFICES ASSUME NEW c \in Command, ~InstallBackup(c), ~InstallPrimary(c),
                        Step(c)
                 PROVE  backup' = backup /\ primary' = primary
      BY DEF Next
    <3>1. CASE \/ \E verb \in Verbs, q \in Plan : Invoke(c, verb, q)
               \/ \E q \in Plan, release \in Release \cup {None}, run \in Command \cup {None} :
                     SelectRun(c, q, release, run)
               \/ \E q \in Plan, j \in Journal, run \in Command \cup {None} :
                     ResolveRun(c, q, j, run)
               \/ \E stage \in {"started", "completed", "refused"} : FinishRun(c, stage)
      BY <3>1, Zenon DEF Invoke, SelectRun, ResolveRun, FinishRun
    <3>2. CASE ListPlans(c) \/ CheckRelease(c) \/ SavePlan(c) \/ RegisterPlan(c) \/ PrepareClaim(c)
      BY <3>2 DEF ListPlans, CheckRelease, SavePlan, RegisterPlan, PrepareClaim
    <3>3. CASE AcquireLock(c) \/ OpenJournal(c) \/ StartRun(c) \/ AuthorizeRetry(c) \/ End(c)
      BY <3>3 DEF AcquireLock, OpenJournal, StartRun, AuthorizeRetry, End
    <3> QED
      BY <3>1, <3>2, <3>3 DEF Step
  <2> QED
    BY <2>2, <2>3, <2>4
<1> QED
  BY <1>1, CatalogInvariantHolds, PTL DEF Spec, ClaimsArePermanent
=============================================================================
