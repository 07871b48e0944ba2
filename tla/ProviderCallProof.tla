--------------------------- MODULE ProviderCallProof ---------------------------
(***************************************************************************)
(* Theorems about ProviderCall, for any processes that a provider may      *)
(* start.                                                                  *)
(*                                                                         *)
(* The properties look at what a call returned, or at what its provider    *)
(* has read.  Safety says, of each place in the call, what was journaled   *)
(* (Journaled), what may be read (Gated), who may be running (Reaped, and  *)
(* Left of those off the output) and what was accepted; that it is         *)
(* inductive rests on the order of Wait's halves, for nobody can write or  *)
(* be given the output once it has no holder, and on kills that reach the  *)
(* whole group, for nobody is left to start another.                       *)
(***************************************************************************)
EXTENDS ProviderCall, TLAPS

-----------------------------------------------------------------------------
(* The places of a call.                                                   *)

BeforeRelease == {"start", "onStarted", "checkContext", "onDispatched", "release", "cleanup"}
GivingUp      == {"cleanup", "kill", "reap"}
Waited        == {"check", "onResponse", "decode", "returned"}

\* A call that was not given up journaled its boundaries before it came here.
Journaled ==
    /\ pc \in {"start", "onStarted"} => log = {}
    /\ Observed /\ pc \in {"checkContext", "onDispatched", "release", "wait"} => "started" \in log
    /\ Publishes /\ pc \in {"release", "wait"} => "dispatched" \in log
    /\ pc \in {"drain", "check", "onResponse", "decode"} /\ result = "none" =>
          /\ Observed => "started" \in log
          /\ Publishes => "dispatched" \in log
    /\ Observed /\ pc = "decode" => "responded" \in log

\* Only a call that ends has a result, and one that is given up has a reason.
Resulting ==
    /\ pc \notin GivingUp \union {"drain", "returned"} => result = "none"
    /\ pc \in GivingUp => result \in {"journal", "context"}
    /\ pc = "drain" => result \in {"none", "journal", "context"}

\* Nothing is read before the gate opens, and it opens late.
Gated ==
    /\ delivered => gate
    /\ pc \in BeforeRelease => ~gate
    /\ gate /\ leader # "none" /\ Publishes => "dispatched" \in log \/ result \in {"journal", "context"}

\* What can be relied upon of the processes.
Reaped ==
    /\ pc = "start" \/ leader = "none" => /\ leader = "none" /\ ~delivered /\ output = "none" /\ Running = {}
    /\ leader = "none" => pc \in {"start", "returned"}
    /\ pc \in {"drain"} \union Waited => ~LeaderLive
    /\ pc \in Waited => Attached = {}
    /\ output \in {"answer", "error", "badPayload"} => delivered

\* What was accepted as a response.
Accepted ==
    pc \in {"onResponse", "decode"} => leader = "exited" /\ output \in {"answer", "error", "badPayload"}

\* A kill leaves nobody, and a call that is given up kills.
Left ==
    /\ leader = "killed" => Running = {}
    /\ pc = "reap" \/ (pc = "drain" /\ result # "none") => Running = {} /\ ~LeaderLive
    /\ LeftoversAreDispatched

Safety == Journaled /\ Resulting /\ Gated /\ Reaped /\ Left /\ Accepted /\ AnswersAreComplete

IInv == TypeOK /\ Safety

-----------------------------------------------------------------------------
(* The processes: who is running, and what a kill leaves of them.          *)

LEMMA KillLeavesNothing ==
    ASSUME TypeOK, KillGroup
    PROVE  /\ ~LeaderLive' /\ Running' = {} /\ Attached' = {} /\ ~GroupLive'
           /\ leader' \in {"none", "exited", "failed", "killed"}
           /\ leader' # leader => leader = "running" /\ leader' = "killed"
           /\ descendant' \in [Descendants -> {"none", "attached", "detached", "gone"}]
<1>1. /\ leader' = (IF leader = "running" THEN "killed" ELSE leader)
      /\ descendant' = [d \in Descendants |-> IF d \in Running THEN "gone" ELSE descendant[d]]
  BY DEF KillGroup, LeaderLive
<1>2. leader \in {"none", "running", "exited", "failed", "killed"}
  BY DEF TypeOK
<1>3. \A d \in Descendants : descendant'[d] \in {"none", "gone"}
  BY <1>1 DEF TypeOK, Running
<1>4. Running' = {} /\ Attached' = {}
  BY <1>3 DEF Running, Attached
<1>5. ~LeaderLive'
  BY <1>1 DEF LeaderLive
<1>6. descendant' \in [Descendants -> {"none", "attached", "detached", "gone"}]
  BY <1>1 DEF TypeOK, Running
<1> QED
  BY <1>1, <1>2, <1>4, <1>5, <1>6 DEF GroupLive

-----------------------------------------------------------------------------
(* The steps.                                                              *)

LEMMA InitSafe == Init => IInv
  BY DEF Init, IInv, TypeOK, Safety, Journaled, Resulting, Gated, Reaped, Left, Accepted,
         AnswersAreComplete, LeftoversAreDispatched, Kinds, Steps, Results, Outputs, Boundaries,
         BeforeRelease, GivingUp, Waited, LeaderLive, Running, Attached, GroupLive

LEMMA StartProcessSafe ==
    ASSUME IInv, StartProcess PROVE IInv'
  BY DEF StartProcess, GoTo, IInv, TypeOK, Safety, Journaled, Resulting, Gated, Reaped, Left, Accepted,
         AnswersAreComplete, LeftoversAreDispatched, Observed, Publishes, Steps, BeforeRelease,
         GivingUp, Waited, LeaderLive, Running, Attached, GroupLive

LEMMA StartFailsSafe ==
    ASSUME IInv, StartFails PROVE IInv'
  BY DEF StartFails, ReturnWith, provider, IInv, TypeOK, Safety, Journaled, Resulting, Gated, Reaped,
         Left, Accepted, AnswersAreComplete, LeftoversAreDispatched, Observed, Publishes, Steps,
         Results, BeforeRelease, GivingUp, Waited, LeaderLive, Running, Attached, GroupLive

LEMMA OnStartedSafe ==
    ASSUME IInv, OnStarted PROVE IInv'
  BY DEF OnStarted, Callback, GoTo, CleanUp, provider, IInv, TypeOK, Safety, Journaled, Resulting,
         Gated, Reaped, Left, Accepted, AnswersAreComplete, LeftoversAreDispatched, Observed, Publishes,
         Steps, Results, Boundaries, BeforeRelease, GivingUp, Waited, LeaderLive, Running, Attached,
         GroupLive

LEMMA CheckContextSafe ==
    ASSUME IInv, CheckContext PROVE IInv'
  BY DEF CheckContext, GoTo, CleanUp, provider, IInv, TypeOK, Safety, Journaled, Resulting, Gated,
         Reaped, Left, Accepted, AnswersAreComplete, LeftoversAreDispatched, Observed, Publishes, Steps,
         Results, BeforeRelease, GivingUp, Waited, LeaderLive, Running, Attached, GroupLive

LEMMA OnDispatchedSafe ==
    ASSUME IInv, OnDispatched PROVE IInv'
  BY DEF OnDispatched, Callback, GoTo, CleanUp, provider, IInv, TypeOK, Safety, Journaled, Resulting,
         Gated, Reaped, Left, Accepted, AnswersAreComplete, LeftoversAreDispatched, Observed, Publishes,
         Steps, Results, Boundaries, BeforeRelease, GivingUp, Waited, LeaderLive, Running, Attached,
         GroupLive

LEMMA ReleaseInputSafe ==
    ASSUME IInv, ReleaseInput PROVE IInv'
  BY DEF ReleaseInput, GoTo, provider, IInv, TypeOK, Safety, Journaled, Resulting, Gated, Reaped, Left,
         Accepted, AnswersAreComplete, LeftoversAreDispatched, Observed, Publishes, Steps,
         BeforeRelease, GivingUp, Waited, LeaderLive, Running, Attached, GroupLive

LEMMA ReapAfterRelease ==
    ASSUME IInv, Reap("wait", "drain") PROVE IInv'
  BY DEF Reap, GoTo, provider, IInv, TypeOK, Safety, Journaled, Resulting, Gated, Reaped, Left,
         Accepted, AnswersAreComplete, LeftoversAreDispatched, Observed, Publishes, Steps,
         BeforeRelease, GivingUp, Waited, LeaderLive, Running, Attached, GroupLive

LEMMA ReapAfterCleanup ==
    ASSUME IInv, Reap("reap", "drain") PROVE IInv'
  BY DEF Reap, GoTo, provider, IInv, TypeOK, Safety, Journaled, Resulting, Gated, Reaped, Left,
         Accepted, AnswersAreComplete, LeftoversAreDispatched, Observed, Publishes, Steps,
         BeforeRelease, GivingUp, Waited, LeaderLive, Running, Attached, GroupLive

LEMMA DrainSafe ==
    ASSUME IInv, Drain PROVE IInv'
  BY DEF Drain, GoTo, ReturnWith, provider, IInv, TypeOK, Safety, Journaled, Resulting, Gated, Reaped,
         Left, Accepted, AnswersAreComplete, LeftoversAreDispatched, Observed, Publishes, Steps,
         BeforeRelease, GivingUp, Waited, LeaderLive, Running, Attached, GroupLive

LEMMA CheckOutputSafe ==
    ASSUME IInv, CheckOutput PROVE IInv'
  BY DEF CheckOutput, GoTo, ReturnWith, provider, IInv, TypeOK, Safety, Journaled, Resulting, Gated,
         Reaped, Left, Accepted, AnswersAreComplete, LeftoversAreDispatched, Observed, Publishes, Steps,
         Results, Outputs, BeforeRelease, GivingUp, Waited, LeaderLive, Running, Attached, GroupLive

LEMMA OnResponseSafe ==
    ASSUME IInv, OnResponse PROVE IInv'
  BY DEF OnResponse, Callback, GoTo, ReturnWith, provider, IInv, TypeOK, Safety, Journaled, Resulting,
         Gated, Reaped, Left, Accepted, AnswersAreComplete, LeftoversAreDispatched, Observed, Publishes,
         Steps, Results, Boundaries, BeforeRelease, GivingUp, Waited, LeaderLive, Running, Attached,
         GroupLive

LEMMA DecodeSafe ==
    ASSUME IInv, Decode PROVE IInv'
  BY DEF Decode, ReturnWith, provider, IInv, TypeOK, Safety, Journaled, Resulting, Gated, Reaped, Left,
         Accepted, AnswersAreComplete, LeftoversAreDispatched, Observed, Publishes, Steps, Results,
         BeforeRelease, GivingUp, Waited, LeaderLive, Running, Attached, GroupLive

LEMMA CleanupReleaseSafe ==
    ASSUME IInv, CleanupRelease PROVE IInv'
  BY DEF CleanupRelease, GoTo, provider, IInv, TypeOK, Safety, Journaled, Resulting, Gated, Reaped,
         Left, Accepted, AnswersAreComplete, LeftoversAreDispatched, Observed, Publishes, Steps,
         BeforeRelease, GivingUp, Waited, LeaderLive, Running, Attached, GroupLive

LEMMA CleanupKillSafe ==
    ASSUME IInv, CleanupKill PROVE IInv'
<1>1. KillGroup /\ TypeOK
  BY DEF CleanupKill, IInv
<1>2. /\ ~LeaderLive' /\ Running' = {} /\ Attached' = {} /\ ~GroupLive'
      /\ leader' \in {"none", "exited", "failed", "killed"}
      /\ leader' # leader => leader = "running" /\ leader' = "killed"
      /\ descendant' \in [Descendants -> {"none", "attached", "detached", "gone"}]
  BY <1>1, KillLeavesNothing
<1>3. pc = "kill" /\ pc' = "reap" /\ UNCHANGED <<kind, ctx, gate, log, result, output, delivered, watched>>
  BY DEF CleanupKill, GoTo
<1>4. (TypeOK /\ Journaled /\ Resulting)'
  BY <1>2, <1>3 DEF IInv, TypeOK, Safety, Journaled, Resulting, Observed, Publishes, Steps, GivingUp
<1>5. leader' = "none" <=> leader = "none"
  BY <1>2
<1>6. (Gated /\ Reaped /\ Left /\ Accepted)'
  BY <1>2, <1>3, <1>5 DEF IInv, Safety, Gated, Reaped, Left, LeftoversAreDispatched, Accepted, Publishes,
         BeforeRelease, Waited
<1>7. AnswersAreComplete'
  BY <1>3 DEF IInv, Safety, Resulting, GivingUp, AnswersAreComplete
<1> QED
  BY <1>4, <1>6, <1>7 DEF IInv, Safety

LEMMA ContextKillsSafe ==
    ASSUME IInv, ContextKills PROVE IInv'
<1>1. KillGroup /\ TypeOK
  BY DEF ContextKills, IInv
<1>2. /\ ~LeaderLive' /\ Running' = {} /\ Attached' = {} /\ ~GroupLive'
      /\ leader' \in {"none", "exited", "failed", "killed"}
      /\ leader' # leader => leader = "running" /\ leader' = "killed"
      /\ descendant' \in [Descendants -> {"none", "attached", "detached", "gone"}]
  BY <1>1, KillLeavesNothing
<1>3. UNCHANGED <<kind, pc, ctx, gate, log, result, output, delivered>> /\ watched' = FALSE
  BY DEF ContextKills
<1>4. TypeOK'
  BY <1>1, <1>2, <1>3 DEF TypeOK
<1>5. (Journaled /\ Resulting)'
  BY <1>3 DEF IInv, Safety, Journaled, Resulting, Observed, Publishes
<1>6. leader' = "none" <=> leader = "none"
  BY <1>2
<1>7. Gated'
  BY <1>3, <1>6 DEF IInv, Safety, Gated, Publishes
<1>8. leader = "exited" => leader' = "exited"
  BY <1>2
<1>9. (Reaped /\ Left /\ Accepted /\ AnswersAreComplete)'
  BY <1>2, <1>3, <1>6, <1>8 DEF IInv, Safety, Reaped, Left, LeftoversAreDispatched, Accepted,
         AnswersAreComplete, Observed, Publishes
<1> QED
  BY <1>4, <1>5, <1>7, <1>9 DEF IInv, Safety

LEMMA ContextEndsSafe ==
    ASSUME IInv, ContextEnds PROVE IInv'
  BY DEF ContextEnds, provider, IInv, TypeOK, Safety, Journaled, Resulting, Gated, Reaped, Left,
         Accepted, AnswersAreComplete, LeftoversAreDispatched, Observed, Publishes, LeaderLive, Running,
         Attached, GroupLive

\* While a process of the group lives, its provider was started and not killed.
LEMMA GroupLivesUnkilled ==
    ASSUME IInv, GroupLive
    PROVE  /\ pc \notin {"start", "reap"} /\ (pc = "drain" => result = "none")
           /\ leader \notin {"none", "killed"} \/ LeaderLive
  BY DEF GroupLive, LeaderLive, IInv, Safety, Reaped, Left

\* While one that can write the output lives, the call still waits, or has not begun to.
LEMMA WritersLiveEarly ==
    ASSUME IInv, Writers
    PROVE  /\ GroupLive
           /\ pc \notin Waited \union {"start", "reap"}
           /\ leader \notin {"none", "killed"} \/ LeaderLive
           /\ result \notin {"answer", "providerError"}
<1>1. GroupLive
  BY DEF Writers, GroupLive, Attached, Running
<1>2. pc \notin Waited
  BY DEF Writers, IInv, Safety, Reaped, LeaderLive
<1>3. result \notin {"answer", "providerError"}
  BY <1>2 DEF IInv, Safety, Resulting, Waited, GivingUp
<1> QED
  BY <1>1, <1>2, <1>3, GroupLivesUnkilled

LEMMA ReadRequestSafe ==
    ASSUME IInv, ReadRequest PROVE IInv'
<1>1. pc # "start" /\ leader # "none"
  BY GroupLivesUnkilled DEF ReadRequest, LeaderLive
<1> QED
  BY <1>1 DEF ReadRequest, IInv, TypeOK, Safety, Journaled, Resulting, Gated, Reaped,
         Left, Accepted, AnswersAreComplete, LeftoversAreDispatched, Observed, Publishes,
         LeaderLive, Running, Attached, GroupLive

LEMMA StartDescendantSafe ==
    ASSUME IInv, NEW d \in Descendants, StartDescendant(d) PROVE IInv'
<1>1. UNCHANGED <<kind, pc, ctx, gate, log, result, leader, output, delivered, watched>>
  BY DEF StartDescendant
<1>2. GroupLive
  BY WritersLiveEarly DEF StartDescendant
<1>3. pc \notin {"start", "reap"} /\ (pc = "drain" => result = "none") /\ leader \notin {"none", "killed"}
  BY <1>2, GroupLivesUnkilled DEF LeaderLive
<1>4. TypeOK'
  BY <1>1 DEF StartDescendant, IInv, TypeOK
<1>5. pc \in Waited \/ pc = "returned" \/ result \in {"answer", "providerError"} => Attached' = Attached
  BY WritersLiveEarly DEF StartDescendant, IInv, TypeOK, Attached, Waited
<1>6. (Journaled /\ Resulting /\ Gated)'
  BY <1>1 DEF IInv, Safety, Journaled, Resulting, Gated, Observed, Publishes
<1>7. (Reaped /\ Accepted /\ AnswersAreComplete)'
  BY <1>1, <1>3, <1>5 DEF IInv, Safety, Reaped, Accepted, AnswersAreComplete, Observed, Publishes, LeaderLive
<1>8. pc = "returned" => leader \in {"exited", "failed"} /\ Attached = {}
                         /\ (Observed => "started" \in log) /\ (Publishes => "dispatched" \in log)
  BY <1>2 DEF IInv, Safety, Left, LeftoversAreDispatched
<1>9. LeftoversAreDispatched'
  BY <1>1, <1>5, <1>8 DEF LeftoversAreDispatched, Observed, Publishes
<1> QED
  BY <1>1, <1>3, <1>4, <1>6, <1>7, <1>9 DEF IInv, Safety, Left

LEMMA WriteOutputSafe ==
    ASSUME IInv, WriteOutput PROVE IInv'
<1>1. pc \notin Waited \union {"start"} /\ leader # "none" /\ result \notin {"answer", "providerError"}
  BY WritersLiveEarly DEF WriteOutput, LeaderLive
<1> QED
  BY <1>1 DEF WriteOutput, IInv, TypeOK, Safety, Journaled, Resulting, Gated, Reaped,
         Left, Accepted, AnswersAreComplete, LeftoversAreDispatched, Observed, Publishes,
         LeaderLive, Running, Attached, GroupLive, Waited, Outputs

LEMMA LeaderExitsSafe ==
    ASSUME IInv, LeaderExits PROVE IInv'
<1>1. Writers /\ LeaderLive
  BY DEF LeaderExits, Writers
<1>2. pc \notin Waited \union {"start"} /\ result \notin {"answer", "providerError"}
  BY <1>1, WritersLiveEarly
<1> QED
  BY <1>1, <1>2 DEF LeaderExits, IInv, TypeOK, Safety, Journaled, Resulting, Gated, Reaped,
         Left, Accepted, AnswersAreComplete, LeftoversAreDispatched, Observed, Publishes,
         LeaderLive, Running, Attached, GroupLive, Waited

\* With fewer running, and fewer of them attached, all is as before.
LEMMA FewerAreSafe ==
    ASSUME IInv, Running' \subseteq Running, Attached' \subseteq Attached,
           descendant' \in [Descendants -> {"none", "attached", "detached", "gone"}],
           UNCHANGED <<kind, pc, ctx, gate, log, result, leader, output, delivered, watched>>
    PROVE  IInv'
<1>1. (Running = {} => Running' = {}) /\ (Attached = {} => Attached' = {})
  OBVIOUS
<1>2. (TypeOK /\ Journaled /\ Resulting /\ Gated)'
  BY DEF IInv, TypeOK, Safety, Journaled, Resulting, Gated, Observed, Publishes
<1>3. (Reaped /\ Accepted /\ AnswersAreComplete)'
  BY <1>1 DEF IInv, Safety, Reaped, Accepted, AnswersAreComplete, Observed, Publishes, LeaderLive
<1>4. Left'
  BY <1>1 DEF IInv, Safety, Left, LeftoversAreDispatched, GroupLive, Observed, Publishes, LeaderLive
<1> QED
  BY <1>2, <1>3, <1>4 DEF IInv, Safety

LEMMA CloseOutputSafe ==
    ASSUME IInv, NEW d \in Descendants, CloseOutput(d) PROVE IInv'
<1>1. /\ Running' \subseteq Running /\ Attached' \subseteq Attached
      /\ descendant' \in [Descendants -> {"none", "attached", "detached", "gone"}]
  BY DEF CloseOutput, Running, Attached, IInv, TypeOK
<1> QED
  BY <1>1, FewerAreSafe DEF CloseOutput

LEMMA DescendantExitsSafe ==
    ASSUME IInv, NEW d \in Descendants, DescendantExits(d) PROVE IInv'
<1>1. /\ Running' \subseteq Running /\ Attached' \subseteq Attached
      /\ descendant' \in [Descendants -> {"none", "attached", "detached", "gone"}]
  BY DEF DescendantExits, Running, Attached, IInv, TypeOK
<1> QED
  BY <1>1, FewerAreSafe DEF DescendantExits

LEMMA NextSafe == IInv /\ [Next]_vars => IInv'
<1>1. ASSUME IInv, UNCHANGED vars PROVE IInv'
  BY <1>1 DEF vars, IInv, TypeOK, Safety, Journaled, Resulting, Gated, Reaped, Left, Accepted, AnswersAreComplete, LeftoversAreDispatched, Observed, Publishes, LeaderLive, Running, Attached, GroupLive
<1>2. ASSUME IInv, Client PROVE IInv'
  BY <1>2, StartProcessSafe, StartFailsSafe, OnStartedSafe, CheckContextSafe, OnDispatchedSafe, ReleaseInputSafe,
     ReapAfterRelease, ReapAfterCleanup, DrainSafe, CheckOutputSafe, OnResponseSafe, DecodeSafe, CleanupReleaseSafe, CleanupKillSafe
  DEF Client
<1>3. ASSUME IInv, Processes PROVE IInv'
  BY <1>3, ReadRequestSafe, StartDescendantSafe, WriteOutputSafe, LeaderExitsSafe, CloseOutputSafe, DescendantExitsSafe
  DEF Processes
<1> QED
  BY <1>1, <1>2, <1>3, ContextEndsSafe, ContextKillsSafe DEF Next

-----------------------------------------------------------------------------
(* The theorems.                                                           *)

(* At every place of a call it is as Safety has it: which boundaries are   *)
(* journaled, whether the request can be read, who is still running, what  *)
(* was accepted; whatever the provider starts and however it ends.         *)
THEOREM CallInvariantHolds == Spec => []IInv
  BY InitSafe, NextSafe, PTL DEF Spec

(* Every variable of a call has its type.                                  *)
THEOREM CallTypeCorrect == Spec => []TypeOK
<1>1. IInv => TypeOK
  BY DEF IInv
<1> QED
  BY <1>1, CallInvariantHolds, PTL

(* However many processes a provider starts, none of them reads the        *)
(* request of a publication before its dispatch is durable, except through *)
(* the cleanup of a call that was given up.                                *)
THEOREM DispatchComesFirst == Spec => []DispatchBeforeDelivery
<1>1. IInv => DispatchBeforeDelivery
  BY DEF IInv, Safety, Gated, Reaped, DispatchBeforeDelivery
<1> QED
  BY <1>1, CallInvariantHolds, PTL

(* What a call returns as the word of its provider is complete, and nobody *)
(* is left to add to it: the leader ended by itself, with success, after a *)
(* request that was dispatched and read, and every descendant that held    *)
(* the output is gone or let go of it.  Others may live.                   *)
THEOREM AnswersComplete == Spec => []AnswersAreComplete
<1>1. IInv => AnswersAreComplete
  BY DEF IInv, Safety
<1> QED
  BY <1>1, CallInvariantHolds, PTL

(* A process that outlives its call, of those that the provider started or *)
(* that were started by these, is off the output of a provider that ended  *)
(* by itself, and the call's dispatch is durable: no call that killed its  *)
(* provider, and none that was given up before the dispatch, leaves any.   *)
THEOREM LeftoversDispatched == Spec => []LeftoversAreDispatched
<1>1. IInv => LeftoversAreDispatched
  BY DEF IInv, Safety, Left
<1> QED
  BY <1>1, CallInvariantHolds, PTL
================================================================================
