----------------------------- MODULE DurableLog -----------------------------
(***************************************************************************)
(* What the file of a run journal promises to those who append to it and   *)
(* to those who read it, whatever happens to processes and to the host: a  *)
(* log that one process at a time extends by one event, of which what was  *)
(* acknowledged is never lost, while what was not may be, from its end.    *)
(*                                                                         *)
(* Only before the first event is acknowledged can the promise end: then   *)
(* the log may vanish as a whole at any later time, and begins anew.       *)
(***************************************************************************)
EXTENDS Naturals, SequencesExt

CONSTANTS Process, None

VARIABLES
    log,        \* the events that a reader is given
    kept,       \* those that were acknowledged, and all before them
    appender,   \* the process that may append, or None
    risky       \* the log may vanish as a whole

vars == <<log, kept, appender, risky>>

Init ==
    /\ log = <<>> /\ kept = <<>>
    /\ appender = None
    /\ risky = FALSE

Enter(p) ==
    /\ appender = None
    /\ appender' = p
    /\ UNCHANGED <<log, kept, risky>>

\* The appender has seen all of the log, whoever wrote it, and numbers its event accordingly.
Extend(p) ==
    /\ appender = p
    /\ log' # <<>> /\ Front(log') = log
    /\ Last(log').by = p /\ Last(log').sequence = Len(log')
    /\ UNCHANGED <<kept, appender, risky>>

Acknowledge(p) ==
    /\ appender = p
    /\ kept' = log
    /\ UNCHANGED <<log, appender, risky>>

\* Who leaves while nothing is acknowledged may leave the log at risk.
Leave(p) ==
    /\ appender = p
    /\ appender' = None
    /\ risky' \in {risky, risky \/ kept = <<>>}
    /\ UNCHANGED <<log, kept>>

\* The host fails, and with it the appender.
Crash ==
    /\ appender' = None
    /\ \E n \in Len(kept) .. Len(log) : log' = SubSeq(log, 1, n)
    /\ UNCHANGED <<kept, risky>>

Vanish ==
    /\ kept = <<>> \/ risky
    /\ log' = <<>> /\ kept' = <<>>
    /\ appender' = None
    /\ risky' = FALSE

Next ==
    \/ \E p \in Process : Enter(p) \/ Extend(p) \/ Acknowledge(p) \/ Leave(p)
    \/ Crash
    \/ Vanish

Spec == Init /\ [][Next]_vars
=============================================================================
