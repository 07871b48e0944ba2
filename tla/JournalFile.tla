---------------------------- MODULE JournalFile ----------------------------
(***************************************************************************)
(* The file under a run journal (internal/journal/writer.go, frame.go):    *)
(* processes that open it one after the other, append frames to it, are    *)
(* killed between any two steps, and a host that loses power.              *)
(*                                                                         *)
(* A frame is complete or torn; of its event only the sequence number and  *)
(* who wrote it are kept.  Files and the operating system are external and *)
(* modelled as the writer relies on them: a file is written in order, Sync *)
(* makes it durable as it is, writeback may do so at any time for a part   *)
(* of it, and a name in a directory is durable once the directory was      *)
(* synced.                                                                 *)
(*                                                                         *)
(* Left out: a Sync that fails and lets later ones succeed without writing *)
(* the data, the creation of the directory, and damage from outside.       *)
(***************************************************************************)
EXTENDS Naturals, SequencesExt

CONSTANTS
    Process,    \* processes that open a writer
    MaxEvents,  \* bound: the length of the journal
    None

ASSUMPTION FileAssumption == None \notin Process /\ MaxEvents \in Nat

VARIABLES
    lock,       \* the process that holds <journal>.lock
    name,       \* the journal's directory entry: "none", "cached" or "durable"
    file,       \* the frames every process sees
    disk,       \* the frames that survive a loss of power
    writer,     \* writer[p]: the Writer of a process, see Writers
    acked,      \* history: the journal as of the last event that Append acknowledged
    interrupted \* history: the file's creator ended before it synced the directory

vars == <<lock, name, file, disk, writer, acked, interrupted>>

Frame  == [sequence : Nat \ {0}, by : Process, whole : BOOLEAN]
Frames == Seq(Frame)

Steps   == {"closed", "read", "create", "syncDir", "truncate", "syncTail", "ready",
            "writing", "syncing", "poisoned"}
Writers == [step : Steps, events : Frames]
Closed  == [step |-> "closed", events |-> <<>>]

TypeOK ==
    /\ lock \in Process \cup {None}
    /\ name \in {"none", "cached", "durable"}
    /\ file \in Frames
    /\ disk \in Frames
    /\ writer \in [Process -> Writers]
    /\ acked \in Frames
    /\ interrupted \in BOOLEAN

Init ==
    /\ lock = None
    /\ name = "none"
    /\ file = <<>>
    /\ disk = <<>>
    /\ writer = [p \in Process |-> Closed]
    /\ acked = <<>>
    /\ interrupted = FALSE

-----------------------------------------------------------------------------
(* Reading. *)

TornTail(s) == s # <<>> /\ ~Last(s).whole

\* The events Read returns; an incomplete final frame is not one of them.
Events(s) == IF TornTail(s) THEN Front(s) ELSE s

\* Read finds no damage: only the last frame may be torn, and the sequence has no gap.
Readable(s) ==
    \A n \in DOMAIN s :
        /\ n < Len(s) => s[n].whole
        /\ s[n].whole => s[n].sequence = n

-----------------------------------------------------------------------------
(* OpenWriter. *)

At(p, step) == writer[p].step = step

Goto(p, step) == writer' = [writer EXCEPT ![p].step = step]

\* (Mutant: the lock is taken only by those who find it free; others go on without.)
WrongAcquireLock(p) ==
    /\ At(p, "closed")
    /\ lock' = IF lock = None THEN p ELSE lock
    /\ Goto(p, "read")
    /\ UNCHANGED <<name, file, disk, acked, interrupted>>

AcquireLock(p) ==
    /\ At(p, "closed")
    /\ lock = None
    /\ lock' = p
    /\ Goto(p, "read")
    /\ UNCHANGED <<name, file, disk, acked, interrupted>>

\* A damaged journal is not opened.
ReadEvents(p) ==
    /\ At(p, "read")
    /\ Readable(file)
    /\ writer' = [writer EXCEPT ![p] = [step |-> "create", events |-> Events(file)]]
    /\ UNCHANGED <<lock, name, file, disk, acked, interrupted>>

\* What OpenWriter has still to do once the file is there.
AfterOpen == IF TornTail(file) THEN "truncate" ELSE "ready"

\* (Mutant: nobody syncs the directory.)
WrongOpenFile(p) ==
    /\ At(p, "create")
    /\ name' = IF name = "none" THEN "cached" ELSE name
    /\ Goto(p, AfterOpen)
    /\ UNCHANGED <<lock, file, disk, acked, interrupted>>

\* Only the process that created the file syncs the directory.
OpenFile(p) ==
    /\ At(p, "create")
    /\ name' = IF name = "none" THEN "cached" ELSE name
    /\ Goto(p, IF name = "none" THEN "syncDir" ELSE AfterOpen)
    /\ UNCHANGED <<lock, file, disk, acked, interrupted>>

SyncDirectory(p) ==
    /\ At(p, "syncDir")
    /\ name' = "durable"
    /\ Goto(p, AfterOpen)
    /\ UNCHANGED <<lock, file, disk, acked, interrupted>>

TruncateTail(p) ==
    /\ At(p, "truncate")
    /\ file' = SubSeq(file, 1, Len(writer[p].events))
    /\ Goto(p, "syncTail")
    /\ UNCHANGED <<lock, name, disk, acked, interrupted>>

SyncTail(p) ==
    /\ At(p, "syncTail")
    /\ disk' = file
    /\ Goto(p, "ready")
    /\ UNCHANGED <<lock, name, file, acked, interrupted>>

-----------------------------------------------------------------------------
(* Append. *)

\* (Mutant: the next number is the number of the last event.)
WrongNextFrame(p) == [sequence |-> Len(writer[p].events), by |-> p, whole |-> FALSE]

\* The frame of the next event, not yet complete.
NextFrame(p) == [sequence |-> Len(writer[p].events) + 1, by |-> p, whole |-> FALSE]

WriteSome(p) ==
    /\ At(p, "ready")
    /\ Len(writer[p].events) < MaxEvents
    /\ file' = Append(file, NextFrame(p))
    /\ Goto(p, "writing")
    /\ UNCHANGED <<lock, name, disk, acked, interrupted>>

WriteRest(p) ==
    /\ At(p, "writing")
    /\ file' = [file EXCEPT ![Len(file)].whole = TRUE]
    /\ Goto(p, "syncing")
    /\ UNCHANGED <<lock, name, disk, acked, interrupted>>

\* The event is counted; of two journals the history keeps the longer.
Acknowledge(p, events) ==
    /\ writer' = [writer EXCEPT ![p] = [step |-> "ready", events |-> events]]
    /\ acked' = IF Len(events) > Len(acked) THEN events ELSE acked

\* (Mutant: the event is acknowledged before it is synced.)
WrongSyncFrame(p) ==
    /\ At(p, "syncing")
    /\ Acknowledge(p, Append(writer[p].events, Last(file)))
    /\ UNCHANGED <<lock, name, file, disk, interrupted>>

\* Append returns once the event is durable.
SyncFrame(p) ==
    /\ At(p, "syncing")
    /\ disk' = file
    /\ Acknowledge(p, Append(writer[p].events, Last(file)))
    /\ UNCHANGED <<lock, name, file, interrupted>>

\* Every further Append fails.
AfterFailure == "poisoned"

\* The write or the Sync fails; a part or all of the frame stays in the file.
AppendFails(p) ==
    /\ At(p, "writing") \/ At(p, "syncing")
    /\ Goto(p, AfterFailure)
    /\ UNCHANGED <<lock, name, file, disk, acked, interrupted>>

\* Close, an error of OpenWriter, or the death of the process: the lock is free again.
Close(p) ==
    /\ ~At(p, "closed")
    /\ writer' = [writer EXCEPT ![p] = Closed]
    /\ lock' = IF lock = p THEN None ELSE lock
    /\ interrupted' = (interrupted \/ At(p, "syncDir"))
    /\ UNCHANGED <<name, file, disk, acked>>

-----------------------------------------------------------------------------
(* The operating system. *)

\* Some more of the file reaches the disk, in order; the last frame perhaps in part.
Writeback ==
    /\ \E n \in Len(Events(disk)) .. Len(file) :
          \/ disk' = SubSeq(file, 1, n)
          \/ /\ n > Len(Events(disk))
             /\ disk' = [SubSeq(file, 1, n) EXCEPT ![n].whole = FALSE]
    /\ UNCHANGED <<lock, name, file, writer, acked, interrupted>>

\* The host goes down; a name that was not synced may be gone, and the file with it.
PowerLoss ==
    /\ name # "none"
    /\ \/ name' = "durable" /\ file' = disk /\ UNCHANGED <<disk, acked, interrupted>>
       \/ /\ name = "cached"
          /\ name' = "none" /\ file' = <<>> /\ disk' = <<>>
          /\ acked' = <<>> /\ interrupted' = FALSE
    /\ writer' = [p \in Process |-> Closed]
    /\ lock' = None

-----------------------------------------------------------------------------

Next ==
    \/ \E p \in Process :
          \/ AcquireLock(p) \/ ReadEvents(p) \/ OpenFile(p) \/ SyncDirectory(p)
          \/ TruncateTail(p) \/ SyncTail(p)
          \/ WriteSome(p) \/ WriteRest(p) \/ SyncFrame(p) \/ AppendFails(p)
          \/ Close(p)
    \/ Writeback
    \/ PowerLoss

Spec == Init /\ [][Next]_vars

-----------------------------------------------------------------------------
(* Properties. *)

\* Whatever processes, failed writes and crashes leave behind, the file can be read: what is
\* torn stays the last frame and is gone before another one follows, and the numbers of the
\* frames that different processes wrote have no gap and no double.
AlwaysReadable == Readable(file) /\ Readable(disk)

\* An acknowledged event keeps its place, through every crash that leaves the file there, and
\* so does every event its writer had read before it, synced or not by those who wrote them.
HistoryKept == IsPrefix(acked, file) /\ IsPrefix(acked, disk)

\* Acknowledged events can go with the file's name only if whoever created the file was stopped
\* before it synced the directory: those who find the file there never do.
LossNeedsInterruptedCreation == (name = "cached" /\ acked # <<>>) => interrupted

\* Whatever happens to the file, its readable events are a log in the sense of DurableLog: a
\* process with the lock extends by one event what it and all others before it wrote, and what
\* was acknowledged goes only with a name that whoever created the file left to nobody.
Log == INSTANCE DurableLog WITH
    log <- Events(file), kept <- acked, appender <- lock, risky <- interrupted

KeepsLog == Log!Spec
=============================================================================
