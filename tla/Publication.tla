---------------------------- MODULE Publication ----------------------------
(***************************************************************************)
(* What Distroplane promises of its publications to whoever reads the      *)
(* journal: the record is marked before the one request leaves, it is      *)
(* cleared only when nothing is or will be at the destination, and it is   *)
(* settled by what is there.                                               *)
(*                                                                         *)
(* The promise ends where a risk was taken: once an operator authorized a  *)
(* second attempt, or a request leaked.  Several publications may go on in *)
(* one step, as when a crash leaves it open which requests left.           *)
(***************************************************************************)

CONSTANT Operation  \* the operations that publish

VARIABLES
    record,         \* record[o]: "clear", "owed" (to be reconciled), or the decision
    outstanding,    \* outstanding[o]: a request of o may still take effect
    dest,           \* dest[o]: what the destination decided
    risky           \* risky[o]: the promise ended

vars == <<record, outstanding, dest, risky>>

Decisions == {"published", "rejected"}

TypeOK ==
    /\ record \in [Operation -> {"clear", "owed"} \cup Decisions]
    /\ outstanding \in [Operation -> BOOLEAN]
    /\ dest \in [Operation -> {"absent"} \cup Decisions]
    /\ risky \in [Operation -> BOOLEAN]

Init ==
    /\ record = [o \in Operation |-> "clear"]
    /\ outstanding = [o \in Operation |-> FALSE]
    /\ dest = [o \in Operation |-> "absent"]
    /\ risky = [o \in Operation |-> FALSE]

-----------------------------------------------------------------------------
(* What may become of one publication. *)

RecordKept(o)      == record'[o] = record[o]
DestinationKept(o) == outstanding'[o] = outstanding[o] /\ dest'[o] = dest[o]

Mark(o) ==
    /\ record[o] = "clear"
    /\ record'[o] = "owed"
    /\ DestinationKept(o)

Request(o) ==
    /\ record[o] = "owed"
    /\ ~outstanding[o] /\ dest[o] = "absent"
    /\ outstanding'[o] /\ dest'[o] = "absent"
    /\ RecordKept(o)

Decide(o) ==
    /\ outstanding[o]
    /\ ~outstanding'[o] /\ dest'[o] \in Decisions
    /\ RecordKept(o)

\* The provider answers that the request came to nothing.
Withdraw(o) ==
    /\ outstanding[o]
    /\ ~outstanding'[o] /\ dest'[o] = dest[o]
    /\ RecordKept(o)

Clear(o) ==
    /\ record[o] = "owed"
    /\ ~outstanding[o] /\ dest[o] = "absent"
    /\ record'[o] = "clear"
    /\ DestinationKept(o)

Settle(o) ==
    /\ record[o] = "owed"
    /\ dest[o] \in Decisions
    /\ record'[o] = dest[o]
    /\ DestinationKept(o)

Promised(o) ==
    /\ \/ Mark(o) \/ Request(o) \/ Decide(o) \/ Withdraw(o) \/ Clear(o) \/ Settle(o)
       \/ RecordKept(o) /\ DestinationKept(o)
    /\ ~risky[o] /\ ~risky'[o]

-----------------------------------------------------------------------------

Next == \A o \in Operation : risky'[o] \/ Promised(o)

Spec == Init /\ [][Next]_vars
=============================================================================
