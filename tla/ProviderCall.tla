---------------------------- MODULE ProviderCall ----------------------------
(***************************************************************************)
(* One call of a provider process: Client.callWithOptions                  *)
(* (internal/providerhost/client.go:176) with the process it starts.       *)
(*                                                                         *)
(* The provider is started with its standard input behind a gate, so that  *)
(* the host can journal the start and the dispatch before the request is   *)
(* delivered.  The provider may start descendants, and they may start      *)
(* others; all stay in its process group and may outlive it.  Those that   *)
(* inherit its output pipes are attached; those whose output goes          *)
(* elsewhere, as that of the git children of homebrew and winget and of    *)
(* the helper's child in process_tree_test.go:35, are detached.            *)
(* Processes and os/exec are external; they are modelled as the client     *)
(* relies on them: a context that ends while the process is not yet reaped *)
(* kills its process group (command.Cancel); Wait first reaps the process, *)
(* which ends that watch, and then waits for the end of the output, with   *)
(* no limit because Options.WaitDelay is zero in every caller under cmd/.  *)
(* Detached processes do not delay it, and after an ordinary exit nothing  *)
(* kills the group.                                                        *)
(***************************************************************************)
CONSTANT
    Descendants \* the processes that a provider, or another of them, may start

VARIABLES
    kind,       \* "apply" of a publication, "reconcile", or "describe"
    pc,         \* where callWithOptions is
    ctx,        \* "live" or "done": the call's context
    gate,       \* the request may be read
    log,        \* the boundaries journaled for this call
    result,     \* what the call returns
    leader,     \* the provider process
    descendant, \* and those that it started, or that were started by these
    output,     \* what was written to standard output
    delivered,  \* the request was read from standard input
    watched     \* the context still kills the process group

vars == <<kind, pc, ctx, gate, log, result, leader, descendant, output, delivered, watched>>
provider == <<leader, descendant, output, delivered>>

Kinds      == {"apply", "reconcile", "describe"}
Boundaries == {"started", "dispatched", "responded"}
Steps      == {"start", "onStarted", "checkContext", "onDispatched", "release", "wait", "drain",
               "check", "onResponse", "decode", "cleanup", "kill", "reap", "returned"}
Results    == {"none", "answer", "providerError", "transport", "context", "journal"}
Outputs    == {"none", "answer", "error", "garbage", "oversized", "badPayload"}

TypeOK ==
    /\ kind \in Kinds
    /\ pc \in Steps
    /\ ctx \in {"live", "done"}
    /\ gate \in BOOLEAN
    /\ log \subseteq Boundaries
    /\ result \in Results
    /\ leader \in {"none", "running", "exited", "failed", "killed"}
    /\ descendant \in [Descendants -> {"none", "attached", "detached", "gone"}]
    /\ output \in Outputs
    /\ delivered \in BOOLEAN
    /\ watched \in BOOLEAN

Init ==
    /\ kind \in Kinds
    /\ pc = "start"
    /\ ctx = "live"
    /\ gate = FALSE
    /\ log = {}
    /\ result = "none"
    /\ leader = "none"
    /\ descendant = [d \in Descendants |-> "none"]
    /\ output = "none"
    /\ delivered = FALSE
    /\ watched = FALSE

Observed   == kind \in {"apply", "reconcile"}   \* onStarted and onResponse are set
Publishes  == kind = "apply"                    \* onDispatched is set
LeaderLive == leader = "running"
Attached   == {d \in Descendants : descendant[d] = "attached"}
Running    == {d \in Descendants : descendant[d] \in {"attached", "detached"}}
Writers    == LeaderLive \/ Attached # {}
GroupLive  == LeaderLive \/ Running # {}

-----------------------------------------------------------------------------
(* The client. *)

GoTo(step)    == pc' = step /\ UNCHANGED result
ReturnWith(r) == pc' = "returned" /\ result' = r
CleanUp(r)    == pc' = "cleanup" /\ result' = r

\* (Mutant: standard input is not gated.)
WrongStartUngated ==
    /\ pc = "start"
    /\ GoTo("onStarted")
    /\ leader' = "running"
    /\ watched' = TRUE
    /\ gate' = TRUE
    /\ UNCHANGED <<kind, ctx, log, descendant, output, delivered>>

\* The process runs; what it reads from standard input waits for the gate.
StartProcess ==
    /\ pc = "start"
    /\ GoTo("onStarted")
    /\ leader' = "running"
    /\ watched' = TRUE
    /\ UNCHANGED <<kind, ctx, gate, log, descendant, output, delivered>>

StartFails ==
    /\ pc = "start"
    /\ gate' = TRUE
    /\ ReturnWith("transport")
    /\ UNCHANGED <<kind, ctx, log, provider, watched>>

\* A callback of the observer: it journals a boundary, or its append fails.
Callback(step, boundary, set, next, onError) ==
    /\ pc = step
    /\ IF ~set
       THEN next /\ UNCHANGED log
       ELSE \/ next /\ log' = log \cup {boundary}
            \/ onError /\ UNCHANGED log
    /\ UNCHANGED <<kind, ctx, gate, provider, watched>>

OnStarted == Callback("onStarted", "started", Observed, GoTo("checkContext"), CleanUp("journal"))

CheckContext ==
    /\ pc = "checkContext"
    /\ IF ctx = "done" THEN CleanUp("context") ELSE GoTo("onDispatched")
    /\ UNCHANGED <<kind, ctx, gate, log, provider, watched>>

OnDispatched ==
    Callback("onDispatched", "dispatched", Publishes, GoTo("release"), CleanUp("journal"))

ReleaseInput ==
    /\ pc = "release"
    /\ gate' = TRUE
    /\ GoTo("wait")
    /\ UNCHANGED <<kind, ctx, log, provider, watched>>

\* command.Wait, first part: the process is reaped and the context no longer watched.
Reap(step, next) ==
    /\ pc = step
    /\ ~LeaderLive
    /\ watched' = FALSE
    /\ GoTo(next)
    /\ UNCHANGED <<kind, ctx, gate, log, provider>>

\* command.Wait, second part: nobody holds the output pipes any more.
Drain ==
    /\ pc = "drain"
    /\ Attached = {}
    /\ IF result = "none" THEN GoTo("check") ELSE ReturnWith(result)
    /\ UNCHANGED <<kind, ctx, gate, log, provider, watched>>

\* (Mutant: the exit status is not looked at.)
WrongIgnoreExit ==
    /\ pc = "check"
    /\ IF ctx = "done" THEN ReturnWith("context")
       ELSE IF output \in {"none", "garbage", "oversized"} THEN ReturnWith("transport")
       ELSE GoTo("onResponse")
    /\ UNCHANGED <<kind, ctx, gate, log, provider, watched>>

\* After Wait: the context, the output limit, the exit status, framing and correlation.
CheckOutput ==
    /\ pc = "check"
    /\ IF ctx = "done" THEN ReturnWith("context")
       ELSE IF leader # "exited" \/ output \in {"none", "garbage", "oversized"}
       THEN ReturnWith("transport")
       ELSE GoTo("onResponse")
    /\ UNCHANGED <<kind, ctx, gate, log, provider, watched>>

OnResponse ==
    Callback("onResponse", "responded", Observed, GoTo("decode"), ReturnWith("journal"))

\* (Mutant: the provider's status is returned as it is.)
WrongDecode ==
    /\ pc = "decode"
    /\ ReturnWith(output)
    /\ UNCHANGED <<kind, ctx, gate, log, provider, watched>>

\* The status of the response, and its payload.
Decode ==
    /\ pc = "decode"
    /\ ReturnWith(CASE output = "answer" -> "answer"
                    [] output = "error" -> "providerError"
                    [] OTHER -> "transport")
    /\ UNCHANGED <<kind, ctx, gate, log, provider, watched>>

\* cleanup: the gate is opened first (Wait would not return with a reader behind it) ...
CleanupRelease ==
    /\ pc = "cleanup"
    /\ gate' = TRUE
    /\ GoTo("kill")
    /\ UNCHANGED <<kind, ctx, log, provider, watched>>

\* (Mutant: only the process itself is killed.)
WrongKillLeader ==
    /\ leader' = IF LeaderLive THEN "killed" ELSE leader
    /\ UNCHANGED descendant

\* The process group gets SIGKILL.
KillGroup ==
    /\ leader' = IF LeaderLive THEN "killed" ELSE leader
    /\ descendant' = [d \in Descendants |-> IF d \in Running THEN "gone" ELSE descendant[d]]

\* ... then the group is killed, and the process awaited.
CleanupKill ==
    /\ pc = "kill"
    /\ KillGroup
    /\ GoTo("reap")
    /\ UNCHANGED <<kind, ctx, gate, log, output, delivered, watched>>

Client ==
    \/ StartProcess \/ StartFails \/ OnStarted \/ CheckContext \/ OnDispatched \/ ReleaseInput
    \/ Reap("wait", "drain") \/ Reap("reap", "drain") \/ Drain
    \/ CheckOutput \/ OnResponse \/ Decode \/ CleanupRelease \/ CleanupKill

-----------------------------------------------------------------------------
(* The context and the processes. *)

ContextEnds ==
    /\ pc # "returned"
    /\ ctx = "live"
    /\ ctx' = "done"
    /\ UNCHANGED <<kind, pc, gate, log, result, provider, watched>>

\* (Mutant: cancellation does not reach the process.)
WrongContextKills ==
    /\ watched
    /\ ctx = "done"
    /\ watched' = FALSE
    /\ UNCHANGED <<kind, pc, ctx, gate, log, result, provider>>

\* command.Cancel
ContextKills ==
    /\ watched
    /\ ctx = "done"
    /\ KillGroup
    /\ watched' = FALSE
    /\ UNCHANGED <<kind, pc, ctx, gate, log, result, output, delivered>>

\* Whoever has standard input reads it, once the gate is open.
ReadRequest ==
    /\ GroupLive
    /\ gate
    /\ ~delivered
    /\ delivered' = TRUE
    /\ UNCHANGED <<kind, pc, ctx, gate, log, result, leader, descendant, output, watched>>

\* Who holds the output pipes may pass them on.
StartDescendant(d) ==
    /\ descendant[d] = "none"
    /\ \/ /\ Writers
          /\ descendant' = [descendant EXCEPT ![d] = "attached"]
       \/ /\ GroupLive
          /\ descendant' = [descendant EXCEPT ![d] = "detached"]
    /\ UNCHANGED <<kind, pc, ctx, gate, log, result, leader, output, delivered, watched>>

\* There is a response only to a request that was read.
WriteOutput ==
    /\ Writers
    /\ output = "none"
    /\ output' \in IF delivered THEN Outputs \ {"none"} ELSE {"garbage", "oversized"}
    /\ UNCHANGED <<kind, pc, ctx, gate, log, result, leader, descendant, delivered, watched>>

LeaderExits ==
    /\ LeaderLive
    /\ leader' \in {"exited", "failed"}
    /\ UNCHANGED <<kind, pc, ctx, gate, log, result, descendant, output, delivered, watched>>

\* A descendant that closes its output is detached.
CloseOutput(d) ==
    /\ d \in Attached
    /\ descendant' = [descendant EXCEPT ![d] = "detached"]
    /\ UNCHANGED <<kind, pc, ctx, gate, log, result, leader, output, delivered, watched>>

DescendantExits(d) ==
    /\ d \in Running
    /\ descendant' = [descendant EXCEPT ![d] = "gone"]
    /\ UNCHANGED <<kind, pc, ctx, gate, log, result, leader, output, delivered, watched>>

Processes ==
    \/ ReadRequest \/ WriteOutput \/ LeaderExits
    \/ \E d \in Descendants : StartDescendant(d) \/ CloseOutput(d) \/ DescendantExits(d)

Next == Client \/ ContextEnds \/ ContextKills \/ Processes

Spec == Init /\ [][Next]_vars

\* The host runs, and the kernel delivers the kill; a provider may hang.
HostFairness == WF_vars(Client) /\ WF_vars(ContextKills)

HostSpec == Spec /\ HostFairness

\* As HostSpec, when whatever a provider leaves behind ends some time.
FairSpec == HostSpec /\ \A d \in Descendants : WF_vars(DescendantExits(d))

-----------------------------------------------------------------------------
(* Properties. *)

\* A publication request reaches the provider only after its dispatch is durable, except
\* through the cleanup of a call that was given up before it.
DispatchBeforeDelivery ==
    delivered /\ Publishes => "dispatched" \in log \/ result \in {"journal", "context"}

\* What is returned as the provider's word is the complete output (nobody is left to add to
\* it) of a process that ended by itself, with success, whose request was dispatched and
\* whose response is journaled.
AnswersAreComplete ==
    result \in {"answer", "providerError"} =>
        /\ leader = "exited"
        /\ Attached = {}
        /\ output = IF result = "answer" THEN "answer" ELSE "error"
        /\ delivered
        /\ Observed => {"started", "responded"} \subseteq log
        /\ Publishes => "dispatched" \in log

\* Processes may go on working on a request after its call has returned: those that a
\* provider which ended by itself left off its output.  But a call that killed its provider
\* leaves none, and so does one whose dispatch is not durable: what a restarted host takes
\* as never sent is in nobody's hands.
LeftoversAreDispatched ==
    pc = "returned" /\ GroupLive =>
        /\ leader \in {"exited", "failed"}
        /\ Attached = {}
        /\ Observed => "started" \in log
        /\ Publishes => "dispatched" \in log

\* Liveness: a call whose context ends comes to its end, also when the provider hangs.
ContextEndsCall == (ctx = "done") ~> (pc = "returned")

(* Claims of documents and tests that the code does not keep. *)

\* architecture.md:27: the dispatch is journaled before the request is released.
JournaledBeforeRelease == delivered /\ Publishes => "dispatched" \in log

\* process_tree_test.go:91: cancellation terminates the provider, and the call returns.
CancelledCallReturns == (ctx = "done") ~> (pc = "returned")
=============================================================================
