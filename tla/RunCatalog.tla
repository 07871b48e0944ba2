----------------------------- MODULE RunCatalog -----------------------------
(***************************************************************************)
(* The run catalog (internal/runstate/store.go) as the commands use it:    *)
(* plan, publish, apply, reconcile, resume and retry, each a process of    *)
(* its own, running at the same time on one project directory and killed   *)
(* or failing between any two of their steps.                              *)
(*                                                                         *)
(* A catalog entry is linked into place complete or not at all, so an      *)
(* install is one step; a claim is two of them, the backup first.  Of a    *)
(* journal only its identity and how far its run is are kept.              *)
(*                                                                         *)
(* Left out: entries that something else damaged, plans saved in more than *)
(* one place, and directories that disappear.                              *)
(***************************************************************************)
EXTENDS FiniteSets

CONSTANTS
    Plan,           \* immutable plans, by id
    Release,        \* releases
    ReleaseOf,      \* the release a plan distributes
    Journal,        \* journal paths
    DefaultJournal, \* DefaultJournal[p]: .distroplane/runs/<plan id>.journal
    Command,        \* processes; the run id a command draws at random is its own name
    Verbs,          \* what commands may be invoked
    None

ASSUMPTION CatalogAssumption ==
    /\ ReleaseOf \in [Plan -> Release]
    /\ DefaultJournal \in [Plan -> Journal]
    /\ Verbs \subseteq {"plan", "publish", "apply", "reconcile", "resume", "retry"}
    /\ None \notin Plan \cup Journal \cup Command

VARIABLES
    saved,          \* plan files in .distroplane/plans
    registered,     \* entries in catalog/plans
    backup,         \* backup[p]: catalog/runs/<key of p>.backup
    primary,        \* primary[p]: catalog/runs/<key of p>
    file,           \* file[j]: the journal at path j
    lock,           \* lock[j]: the command that holds <j>.lock
    command,        \* command[c]: a process, see Processes
    ran             \* history: the runs whose operations may have been published

vars == <<saved, registered, backup, primary, file, lock, command, ran>>

Claims    == [run : Command \cup {None}, journal : Journal \cup {None}]
Unclaimed == [run |-> None, journal |-> None]

Files    == [stage : {"absent", "empty", "started", "completed", "refused"},
             plan  : Plan \cup {None},
             run   : Command \cup {None}]
NoFile   == [stage |-> "absent", plan |-> None, run |-> None]

Steps == {"idle", "inventory", "listed", "save", "register", "load", "claim", "backup",
          "primary", "lock", "open", "execute", "run", "done"}

Processes == [step    : Steps,
              verb    : Verbs \cup {"none"},
              plan    : Plan \cup {None},
              journal : Journal \cup {None},
              run     : Command \cup {None},  \* --run, and then the id it resolved to
              seen    : SUBSET Plan,          \* the plans Inventory listed
              missing : BOOLEAN]              \* reserved, but the journal was absent
NotInvoked == [step |-> "idle", verb |-> "none", plan |-> None, journal |-> None,
               run |-> None, seen |-> {}, missing |-> FALSE]

Runs == [plan : Plan, run : Command, journal : Journal]

TypeOK ==
    /\ saved \subseteq Plan
    /\ registered \subseteq Plan
    /\ backup \in [Plan -> Claims]
    /\ primary \in [Plan -> Claims]
    /\ file \in [Journal -> Files]
    /\ lock \in [Journal -> Command \cup {None}]
    /\ command \in [Command -> Processes]
    /\ ran \subseteq Runs

\* Plans may have been saved and registered before.
Init ==
    /\ saved \in SUBSET Plan
    /\ registered = saved
    /\ backup = [p \in Plan |-> Unclaimed]
    /\ primary = [p \in Plan |-> Unclaimed]
    /\ file = [j \in Journal |-> NoFile]
    /\ lock = [j \in Journal |-> None]
    /\ command = [c \in Command |-> NotInvoked]
    /\ ran = {}

-----------------------------------------------------------------------------
(* Reading the catalog. *)

\* claimEntry: either copy of a claim stands for it.
ClaimOf(p) == IF primary[p] # Unclaimed THEN primary[p] ELSE backup[p]

CopiesDiffer(p) == Unclaimed \notin {primary[p], backup[p]} /\ primary[p] # backup[p]

\* readJournal: what a claim of p finds at its journal's path.
JournalOf(p, claim) ==
    LET f == file[claim.journal]
    IN  IF f.stage = "absent" THEN "absent"
        ELSE IF f.stage = "empty" \/ f.plan # p \/ f.run # claim.run THEN "rejected"
        ELSE "readable"

\* Inventory fails as a whole when one record of it does.  It listed the plans before the
\* claims, so a run that appeared in between is an orphan to it.
InventoryFails(listed) ==
    \/ \E p \in listed : CopiesDiffer(p)
    \/ \E p \in Plan \ listed : ClaimOf(p) # Unclaimed
    \/ \E p \in listed :
          /\ ClaimOf(p) # Unclaimed
          /\ \/ JournalOf(p, ClaimOf(p)) = "rejected"
             \/ file[ClaimOf(p).journal].stage = "refused"

\* Select: the plans that match the release and the run that were asked for, if any were.
Matching(listed, release, run) ==
    {p \in listed : /\ release # None => ReleaseOf[p] = release
                    /\ run # None => ClaimOf(p).run = run}

-----------------------------------------------------------------------------
(* Steps of a command. *)

At(c, step) == command[c].step = step

Goto(c, step) == command' = [command EXCEPT ![c].step = step]

Invoke(c, verb, p) ==
    /\ At(c, "idle")
    /\ verb \in Verbs
    /\ command' = [command EXCEPT ![c] = [@ EXCEPT
          !.step = CASE verb = "plan"                  -> "save"
                     [] verb \in {"publish", "resume"} -> "inventory"
                     [] OTHER                          -> "load",
          !.verb = verb,
          !.plan = IF verb \in {"plan", "publish"} THEN p ELSE None]]
    /\ UNCHANGED <<saved, registered, backup, primary, file, lock, ran>>

\* Inventory, first half: the plans that are registered.
ListPlans(c) ==
    /\ At(c, "inventory")
    /\ command' = [command EXCEPT ![c] = [@ EXCEPT !.step = "listed", !.seen = registered]]
    /\ UNCHANGED <<saved, registered, backup, primary, file, lock, ran>>

\* publish goes on if no other plan of its release is known, and no run of its own.
CheckRelease(c) ==
    /\ At(c, "listed")
    /\ command[c].verb = "publish"
    /\ ~InventoryFails(command[c].seen)
    /\ \A p \in command[c].seen : ReleaseOf[p] = ReleaseOf[command[c].plan] =>
          p = command[c].plan /\ ClaimOf(p) = Unclaimed
    /\ Goto(c, "save")
    /\ UNCHANGED <<saved, registered, backup, primary, file, lock, ran>>

\* resume: exactly one record, with a run that has a journal and is not completed.
SelectRun(c, p, release, run) ==
    /\ At(c, "listed")
    /\ command[c].verb = "resume"
    /\ ~InventoryFails(command[c].seen)
    /\ Matching(command[c].seen, release, run) = {p}
    /\ ClaimOf(p) # Unclaimed
    /\ file[ClaimOf(p).journal].stage \notin {"absent", "completed"}
    /\ command' = [command EXCEPT ![c] = [@ EXCEPT
          !.step = "load", !.plan = p,
          !.journal = ClaimOf(p).journal, !.run = ClaimOf(p).run]]
    /\ UNCHANGED <<saved, registered, backup, primary, file, lock, ran>>

\* The plan is written once; an equal one may be there already.
SavePlan(c) ==
    /\ At(c, "save")
    /\ saved' = saved \cup {command[c].plan}
    /\ Goto(c, "register")
    /\ UNCHANGED <<registered, backup, primary, file, lock, ran>>

\* RegisterPlan; plan is finished, publish awaits the approval (or is a dry run) and goes on
\* with the plan's own journal.
RegisterPlan(c) ==
    /\ At(c, "register")
    /\ registered' = registered \cup {command[c].plan}
    /\ IF command[c].verb = "plan"
       THEN Goto(c, "done")
       ELSE command' = [command EXCEPT ![c] = [@ EXCEPT
               !.step = "load", !.journal = DefaultJournal[command[c].plan]]]
    /\ UNCHANGED <<saved, backup, primary, file, lock, ran>>

\* apply, reconcile and retry are given a plan and a journal, apply and reconcile perhaps a
\* run as well.
Arguments(c, p, j, run) ==
    IF command[c].verb \in {"publish", "resume"}
    THEN p = command[c].plan /\ j = command[c].journal /\ run = command[c].run
    ELSE p \in saved /\ (command[c].verb = "retry" => run = None)

\* No event was recorded at the path yet.
Fresh(j) == file[j].stage \in {"absent", "empty"}

\* (Mutant: no id is drawn when none was asked for.)
WrongRunFor(c, j, run) == IF Fresh(j) THEN run ELSE file[j].run

\* The run the journal belongs to; for a new one the requested id or a random one.
RunFor(c, j, run) == IF ~Fresh(j) THEN file[j].run ELSE IF run # None THEN run ELSE c

\* resolveRunID, after the plan's file and the artifacts were verified.
ResolveRun(c, p, j, run) ==
    /\ At(c, "load")
    /\ Arguments(c, p, j, run)
    /\ ~Fresh(j) => run \in {None, file[j].run}
    /\ Fresh(j) => command[c].verb \notin {"reconcile", "retry"}
    /\ command' = [command EXCEPT ![c] = [@ EXCEPT
          !.step = IF command[c].verb = "retry" THEN "lock" ELSE "claim",
          !.plan = p, !.journal = j, !.run = RunFor(c, j, run)]]
    /\ UNCHANGED <<saved, registered, backup, primary, file, lock, ran>>

-----------------------------------------------------------------------------
(* ClaimRun. *)

\* The claim a command wants for its plan.
Wanted(c) == [run |-> command[c].run, journal |-> command[c].journal]

\* (Mutant: ClaimRun relies on somebody having registered the plan.)
WrongPrepareClaim(c) ==
    /\ At(c, "claim")
    /\ JournalOf(command[c].plan, Wanted(c)) # "rejected"
    /\ command' = [command EXCEPT ![c] = [@ EXCEPT
          !.step = "backup",
          !.missing = JournalOf(command[c].plan, Wanted(c)) = "absent"]]
    /\ UNCHANGED <<saved, registered, backup, primary, file, lock, ran>>

\* The plan is registered once more, and a journal that is there must be this run's.
PrepareClaim(c) ==
    /\ At(c, "claim")
    /\ JournalOf(command[c].plan, Wanted(c)) # "rejected"
    /\ registered' = registered \cup {command[c].plan}
    /\ command' = [command EXCEPT ![c] = [@ EXCEPT
          !.step = "backup",
          !.missing = JournalOf(command[c].plan, Wanted(c)) = "absent"]]
    /\ UNCHANGED <<saved, backup, primary, file, lock, ran>>

\* (Mutant: entries are renamed into place, which replaces what is there.)
WrongInstall(entries, p, claim) == [entries EXCEPT ![p] = claim]

\* install: an entry is linked into place, never replaced ...
Install(entries, p, claim) ==
    IF entries[p] = Unclaimed THEN [entries EXCEPT ![p] = claim] ELSE entries

\* ... and one that was there before must be the same (if not, ErrConflict).
InstallBackup(c) ==
    /\ At(c, "backup")
    /\ backup' = Install(backup, command[c].plan, Wanted(c))
    /\ backup'[command[c].plan] = Wanted(c)
    /\ command' = [command EXCEPT ![c] = [@ EXCEPT
          !.step = "primary",
          !.missing = command[c].missing /\ backup' = backup]]
    /\ UNCHANGED <<saved, registered, primary, file, lock, ran>>

\* Reserved by an earlier command and yet without a journal: manual recovery.
InstallPrimary(c) ==
    /\ At(c, "primary")
    /\ primary' = Install(primary, command[c].plan, Wanted(c))
    /\ primary'[command[c].plan] = Wanted(c)
    /\ Goto(c, IF command[c].missing THEN "done" ELSE "lock")
    /\ UNCHANGED <<saved, registered, backup, file, lock, ran>>

-----------------------------------------------------------------------------
(* OpenWriter, and what Execute does to the journal. *)

\* (Mutant: the lock file of another command is taken over.)
WrongAcquireLock(c) ==
    /\ At(c, "lock")
    /\ lock' = [lock EXCEPT ![command[c].journal] = c]
    /\ Goto(c, "open")
    /\ UNCHANGED <<saved, registered, backup, primary, file, ran>>

AcquireLock(c) ==
    /\ At(c, "lock")
    /\ lock[command[c].journal] = None
    /\ lock' = [lock EXCEPT ![command[c].journal] = c]
    /\ Goto(c, "open")
    /\ UNCHANGED <<saved, registered, backup, primary, file, ran>>

\* The events are read under the lock, and the file is created if there is none.
OpenJournal(c) ==
    /\ At(c, "open")
    /\ LET j == command[c].journal
       IN  /\ file[j].run \in {None, command[c].run}
           /\ file' = [file EXCEPT ![j].stage = IF @ = "absent" THEN "empty" ELSE @]
    /\ Goto(c, "execute")
    /\ UNCHANGED <<saved, registered, backup, primary, lock, ran>>

\* (Mutant: RUN_STARTED names the run that was drawn, not the one that was resolved.)
WrongStarted(c) == [stage |-> "started", plan |-> command[c].plan, run |-> c]

\* The journal after RUN_STARTED.
Started(c) == [stage |-> "started", plan |-> command[c].plan, run |-> command[c].run]

\* Execute appends RUN_STARTED to an empty journal, and refuses one of another plan or one
\* that does not reduce.  From here on apply, publish and resume may publish.
StartRun(c) ==
    /\ At(c, "execute")
    /\ command[c].verb # "retry"
    /\ LET p == command[c].plan
           j == command[c].journal
       IN  /\ file[j].stage \in {"empty", "started"}
           /\ file[j].stage = "started" => file[j].plan = p
           /\ file' = [file EXCEPT ![j] = IF @.stage = "empty" THEN Started(c) ELSE @]
           /\ ran' = IF command[c].verb = "reconcile" THEN ran
                     ELSE ran \cup {[plan |-> p, run |-> command[c].run, journal |-> j]}
    /\ Goto(c, "run")
    /\ UNCHANGED <<saved, registered, backup, primary, lock>>

Unlock(c) == lock' = [j \in Journal |-> IF lock[j] = c THEN None ELSE lock[j]]

\* Execute returns; the run may be complete, or its journal no longer reduce.
FinishRun(c, stage) ==
    /\ At(c, "run")
    /\ file' = [file EXCEPT ![command[c].journal].stage = stage]
    /\ Unlock(c)
    /\ Goto(c, "done")
    /\ UNCHANGED <<saved, registered, backup, primary, ran>>

\* retry appends its authorization to a journal that reduces, and starts nothing.
AuthorizeRetry(c) ==
    /\ At(c, "execute")
    /\ command[c].verb = "retry"
    /\ file[command[c].journal].stage = "started"
    /\ file[command[c].journal].plan = command[c].plan
    /\ Unlock(c)
    /\ Goto(c, "done")
    /\ UNCHANGED <<saved, registered, backup, primary, file, ran>>

\* The command returns an error, is not approved, has nothing to do, or is killed.  The
\* operating system drops its lock.
End(c) ==
    /\ ~At(c, "idle") /\ ~At(c, "done")
    /\ Unlock(c)
    /\ Goto(c, "done")
    /\ UNCHANGED <<saved, registered, backup, primary, file, ran>>

-----------------------------------------------------------------------------

Step(c) ==
    \/ \E verb \in Verbs, p \in Plan : Invoke(c, verb, p)
    \/ ListPlans(c) \/ CheckRelease(c) \/ SavePlan(c) \/ RegisterPlan(c)
    \/ \E p \in Plan, release \in Release \cup {None}, run \in Command \cup {None} :
          SelectRun(c, p, release, run)
    \/ \E p \in Plan, j \in Journal, run \in Command \cup {None} : ResolveRun(c, p, j, run)
    \/ PrepareClaim(c) \/ InstallBackup(c) \/ InstallPrimary(c)
    \/ AcquireLock(c) \/ OpenJournal(c) \/ StartRun(c)
    \/ \E stage \in {"started", "completed", "refused"} : FinishRun(c, stage)
    \/ AuthorizeRetry(c)
    \/ End(c)

Next == \E c \in Command : Step(c)

Spec == Init /\ [][Next]_vars

-----------------------------------------------------------------------------
(* Properties. *)

\* However many commands race and die, a plan is only ever executed as one run with one
\* journal, and no two plans share a journal (store.go:362).
OneRunPerPlan ==
    \A r, s \in ran : r.plan = s.plan \/ r.journal = s.journal => r = s

\* A journal that has events belongs to the run which the catalog has for its plan: a later
\* command finds it through the catalog, or not at all.
JournalsAreClaimed ==
    \A j \in Journal : file[j].run # None =>
        primary[file[j].plan] = [run |-> file[j].run, journal |-> j]

\* Writing a journal excludes every other writer of it, and executing a plan every other
\* execution of that plan.
ExclusiveExecution ==
    \A c \in Command : \A d \in Command \ {c} :
        /\ (command[c].step \in {"execute", "run"} /\ command[d].step \in {"execute", "run"}) =>
              command[c].journal # command[d].journal
        /\ (At(c, "run") /\ At(d, "run")) => command[c].plan # command[d].plan

\* What makes Inventory, and with it publish and resume, fail for the whole project: a
\* journal that was created and got no event, one that no longer reduces, or one path
\* claimed for two plans.  Nothing else that the commands and their deaths leave behind.
InventoryBlockedOnlyBy ==
    InventoryFails(registered) =>
        \/ \E p \in Plan : /\ ClaimOf(p) # Unclaimed
                           /\ file[ClaimOf(p).journal].stage \in {"empty", "refused"}
        \/ \E p, q \in Plan : /\ p # q
                              /\ ClaimOf(p) # Unclaimed
                              /\ ClaimOf(p).journal = ClaimOf(q).journal

\* A claim, once it is there, is neither removed nor replaced.
ClaimsArePermanent ==
    [][\A p \in Plan :
          /\ backup[p] # Unclaimed => backup'[p] = backup[p]
          /\ primary[p] # Unclaimed => primary'[p] = primary[p]]_vars

(* A claim of the tests that the code does not keep when commands run at the same time. *)

\* TestPublishDifferentPlanForSameReleaseFailsClosed (publish_test.go:224): publish does not
\* execute two different plans of one release.
OnePlanPerRelease ==
    \A r, s \in ran : ReleaseOf[r.plan] = ReleaseOf[s.plan] => r.plan = s.plan
=============================================================================
