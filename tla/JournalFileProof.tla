--------------------------- MODULE JournalFileProof ---------------------------
(***************************************************************************)
(* Theorems about JournalFile, for every set of processes and every length *)
(* of the journal.  IInv adds to its invariants what the process with the  *)
(* lock knows of the file at each of its steps, and how the disk follows   *)
(* the file.                                                               *)
(***************************************************************************)
EXTENDS JournalFile, SequenceTheorems, TLAPS

\* One sequence begins with the other, frame by frame.
Begins(s, t) ==
    /\ Len(s) <= Len(t)
    /\ \A n \in 1..Len(s) : s[n] = t[n]

AllWhole(s) == \A n \in 1..Len(s) : s[n].whole

Opened  == {"syncDir", "truncate", "syncTail", "ready", "writing", "syncing", "poisoned"}
Counted == {"create", "syncDir", "truncate", "syncTail", "ready", "writing"}

\* Whoever is at work has the lock.
Excluded == \A p \in Process : ~At(p, "closed") => lock = p

\* A writer's events are those of the file, and how the file ends.
Knows(p) ==
    /\ writer[p].step \in Opened => name # "none"
    /\ writer[p].step \in Counted => writer[p].events = Events(file)
    /\ writer[p].step \in {"syncTail", "ready"} => ~TornTail(file)
    /\ At(p, "writing") => TornTail(file) /\ file[Len(file)].sequence = Len(file)
    /\ At(p, "syncing") => /\ file # <<>>
                           /\ ~TornTail(file)
                           /\ writer[p].events = SubSeq(file, 1, Len(file) - 1)

\* The disk has, but for a frame that is torn there, a part of the file; the acknowledged part
\* is complete, on the disk and with it in the file.
Follows ==
    /\ Begins(Events(disk), file)
    /\ Begins(acked, Events(disk))
    /\ AllWhole(acked)

\* Until the name is durable nothing is acknowledged, unless its creator was interrupted.
Created ==
    ~interrupted =>
        /\ name # "durable" => acked = <<>>
        /\ name = "cached" => \E p \in Process : At(p, "syncDir")

IInv ==
    /\ TypeOK
    /\ AlwaysReadable
    /\ Excluded
    /\ \A p \in Process : Knows(p)
    /\ Follows
    /\ Created

-----------------------------------------------------------------------------
(* Sequences of frames. *)

\* The first frames of a sequence.
LEMMA FirstFrames ==
    ASSUME NEW s \in Frames, NEW k \in 0..Len(s)
    PROVE  /\ SubSeq(s, 1, k) \in Frames
           /\ Len(SubSeq(s, 1, k)) = k
           /\ \A n \in 1..k : SubSeq(s, 1, k)[n] = s[n]
  <1>1. Len(s) \in Nat /\ k \in Int /\ 1 \in Int
    BY LenProperties DEF Frames
  <1>2. \A n \in 1..k : s[n] \in Frame
    BY <1>1, ElementOfSeq DEF Frames
  <1>3. /\ SubSeq(s, 1, k) \in Seq(Frame)
        /\ Len(SubSeq(s, 1, k)) = IF 1 <= k THEN k - 1 + 1 ELSE 0
        /\ \A n \in 1..(k - 1 + 1) : SubSeq(s, 1, k)[n] = s[1 + n - 1]
    BY <1>1, <1>2, SubSeqProperties
  <1>4. \A n \in 1..k : n \in 1..(k - 1 + 1) /\ 1 + n - 1 = n
    BY <1>1
  <1>5. \A n \in 1..k : SubSeq(s, 1, k)[n] = s[n]
    BY <1>3, <1>4
  <1>6. Len(SubSeq(s, 1, k)) = k
    BY <1>1, <1>3
  <1> QED  BY <1>3, <1>5, <1>6 DEF Frames

\* The events of a sequence: all of its frames, or all but the last one.
LEMMA EventsOf ==
    ASSUME NEW s \in Frames
    PROVE  /\ Events(s) \in Frames
           /\ Len(Events(s)) = IF TornTail(s) THEN Len(s) - 1 ELSE Len(s)
           /\ Len(Events(s)) \in Nat /\ Len(s) \in Nat
           /\ \A n \in 1..Len(Events(s)) : Events(s)[n] = s[n]
           /\ s = <<>> => ~TornTail(s)
           /\ TornTail(s) => Len(s) > 0 /\ ~s[Len(s)].whole
           /\ (~TornTail(s) /\ Len(s) > 0) => s[Len(s)].whole
  <1>1. Len(s) \in Nat /\ (s = <<>> <=> Len(s) = 0)
    BY EmptySeq, LenProperties DEF Frames
  <1>2. CASE TornTail(s)
    <2>1. Events(s) = SubSeq(s, 1, Len(s) - 1) /\ Len(s) > 0 /\ ~s[Len(s)].whole
      BY <1>1, <1>2 DEF Events, TornTail, Front, Last
    <2>2. /\ SubSeq(s, 1, Len(s) - 1) \in Frames
          /\ Len(SubSeq(s, 1, Len(s) - 1)) = Len(s) - 1
          /\ \A n \in 1..(Len(s) - 1) : SubSeq(s, 1, Len(s) - 1)[n] = s[n]
      <3>1. Len(s) - 1 \in 0..Len(s)
        BY <1>1, <2>1
      <3> QED  BY <3>1, FirstFrames
    <2> QED  BY <1>1, <1>2, <2>1, <2>2
  <1>3. CASE ~TornTail(s)
    <2>1. Events(s) = s
      BY <1>3 DEF Events
    <2>2. Len(s) > 0 => s[Len(s)].whole
      BY <1>1, <1>3 DEF TornTail, Last
    <2> QED  BY <1>1, <1>3, <2>1, <2>2
  <1> QED  BY <1>2, <1>3

\* A torn frame is not among the events, and all others are.
LEMMA EventsOfTorn ==
    ASSUME NEW s \in Frames, TornTail(s)
    PROVE  /\ Events(s) \in Frames
           /\ Len(Events(s)) = Len(s) - 1
           /\ \A n \in 1..(Len(s) - 1) : Events(s)[n] = s[n]
  <1>1. Len(Events(s)) = Len(s) - 1
    BY EventsOf
  <1> QED  BY <1>1, EventsOf

LEMMA EventsOfWhole ==
    ASSUME NEW s \in Frames, ~TornTail(s)
    PROVE  Events(s) = s
  BY DEF Events

\* What a sequence that can be read looks like, index by index.
LEMMA ReadableFrames ==
    ASSUME NEW s \in Frames
    PROVE  Readable(s) <=>
             /\ \A n \in 1..Len(s) : n < Len(s) => s[n].whole
             /\ \A n \in 1..Len(s) : s[n].whole => s[n].sequence = n
  BY LenProperties DEF Readable, Frames

\* The events of a sequence that can be read are complete.
LEMMA EventsAreWhole ==
    ASSUME NEW s \in Frames, Readable(s)
    PROVE  AllWhole(Events(s))
  <1>1. /\ \A n \in 1..Len(s) : n < Len(s) => s[n].whole
        /\ Len(s) \in Nat
    BY ReadableFrames, LenProperties DEF Frames
  <1>2. /\ Len(Events(s)) = IF TornTail(s) THEN Len(s) - 1 ELSE Len(s)
        /\ \A n \in 1..Len(Events(s)) : Events(s)[n] = s[n]
        /\ (~TornTail(s) /\ Len(s) > 0) => s[Len(s)].whole
    BY EventsOf
  <1>3. \A n \in 1..Len(Events(s)) : s[n].whole
    BY <1>1, <1>2
  <1> QED  BY <1>2, <1>3 DEF AllWhole

\* A complete beginning of a sequence is one of its events.
LEMMA WholeBeginning ==
    ASSUME NEW s \in Frames, NEW t \in Frames, Begins(s, t), AllWhole(s)
    PROVE  Begins(s, Events(t))
  <1>1. Len(s) \in Nat /\ Len(t) \in Nat
    BY LenProperties DEF Frames
  <1>2. Len(s) <= Len(Events(t))
    <2>1. CASE TornTail(t)
      <3>1. Len(t) > 0 /\ ~t[Len(t)].whole
        BY <2>1, EventsOf
      <3>2. Len(s) # Len(t)
        BY <1>1, <3>1 DEF Begins, AllWhole
      <3> QED  BY <1>1, <2>1, <3>2, EventsOf DEF Begins
    <2>2. CASE ~TornTail(t)
      BY <1>1, <2>2, EventsOf DEF Begins
    <2> QED  BY <2>1, <2>2
  <1> QED  BY <1>1, <1>2, EventsOf DEF Begins

\* Begins is transitive.
LEMMA BeginsTransitive ==
    ASSUME NEW s \in Frames, NEW t \in Frames, NEW u \in Frames, Begins(s, t), Begins(t, u)
    PROVE  Begins(s, u)
  BY LenProperties DEF Begins, Frames

\* A sequence begins with its events.
LEMMA EventsBegin ==
    ASSUME NEW s \in Frames
    PROVE  Begins(Events(s), s)
  BY EventsOf DEF Begins

\* What is stated frame by frame is what IsPrefix says.
LEMMA BeginsIsPrefix ==
    ASSUME NEW s \in Frames, NEW t \in Frames, Begins(s, t)
    PROVE  IsPrefix(s, t)
  <1>1. Len(s) \in Nat /\ Len(t) \in Nat /\ Len(s) <= Len(t)
    BY LenProperties DEF Frames, Begins
  <1>2. /\ SubSeq(s, 1, Len(s)) \in Frames
        /\ Len(SubSeq(s, 1, Len(s))) = Len(s)
        /\ \A n \in 1..Len(s) : SubSeq(s, 1, Len(s))[n] = s[n]
    BY <1>1, FirstFrames
  <1>3. /\ SubSeq(t, 1, Len(s)) \in Frames
        /\ Len(SubSeq(t, 1, Len(s))) = Len(s)
        /\ \A n \in 1..Len(s) : SubSeq(t, 1, Len(s))[n] = t[n]
    BY <1>1, FirstFrames
  <1>4. \A n \in 1..Len(SubSeq(s, 1, Len(s))) : SubSeq(s, 1, Len(s))[n] = SubSeq(t, 1, Len(s))[n]
    BY <1>2, <1>3 DEF Begins
  <1>5. SubSeq(s, 1, Len(s)) = SubSeq(t, 1, Len(s))
    BY <1>2, <1>3, <1>4, SeqEqual DEF Frames
  <1> QED  BY <1>1, <1>5 DEF IsPrefix

\* The events of a readable sequence are a readable sequence without a torn frame.
LEMMA EventsReadable ==
    ASSUME NEW s \in Frames, Readable(s)
    PROVE  Readable(Events(s)) /\ ~TornTail(Events(s))
  <1>1. /\ Events(s) \in Frames /\ Len(Events(s)) \in Nat /\ Len(s) \in Nat
        /\ Len(Events(s)) <= Len(s)
        /\ \A n \in 1..Len(Events(s)) : Events(s)[n] = s[n]
    <2>1. CASE TornTail(s)
      <3>1. Len(s) \in Nat /\ Len(s) > 0
        BY <2>1, EventsOf
      <3> QED  BY <2>1, <3>1, EventsOfTorn
    <2>2. CASE ~TornTail(s)
      BY <2>2, EventsOfWhole, LenProperties DEF Frames
    <2> QED  BY <2>1, <2>2
  <1>2. AllWhole(Events(s))
    BY EventsAreWhole
  <1>3. \A n \in 1..Len(s) : s[n].whole => s[n].sequence = n
    BY ReadableFrames
  <1>4. \A n \in 1..Len(Events(s)) : Events(s)[n].whole /\ Events(s)[n].sequence = n
    BY <1>1, <1>2, <1>3 DEF AllWhole
  <1>5. Readable(Events(s))
    BY <1>1, <1>4, ReadableFrames
  <1>6. TornTail(Events(s)) => Len(Events(s)) > 0 /\ ~Events(s)[Len(Events(s))].whole
    BY <1>1, EventsOf
  <1> QED  BY <1>1, <1>4, <1>5, <1>6

\* Facts about the empty sequence.
LEMMA EmptyFrames ==
    /\ <<>> \in Frames
    /\ Len(<<>>) = 0
    /\ Events(<<>>) = <<>>
    /\ Readable(<<>>)
    /\ Begins(<<>>, <<>>)
    /\ AllWhole(<<>>)
  <1>1. <<>> \in Frames /\ Len(<<>>) = 0
    BY EmptySeq DEF Frames
  <1>2. Events(<<>>) = <<>>
    BY DEF Events, TornTail
  <1>3. Readable(<<>>)
    BY <1>1, ReadableFrames
  <1> QED  BY <1>1, <1>2, <1>3 DEF Begins, AllWhole

\* A torn frame after complete ones.
LEMMA AppendTorn ==
    ASSUME NEW s \in Frames, NEW f \in Frame, ~f.whole, Readable(s), ~TornTail(s)
    PROVE  /\ Append(s, f) \in Frames
           /\ Len(Append(s, f)) = Len(s) + 1
           /\ Append(s, f)[Len(s) + 1] = f
           /\ TornTail(Append(s, f))
           /\ Events(Append(s, f)) = s
           /\ Readable(Append(s, f))
           /\ Begins(s, Append(s, f))
  <1> DEFINE a == Append(s, f)
  <1>1. /\ Len(s) \in Nat
        /\ a \in Frames
        /\ Len(a) = Len(s) + 1
        /\ a[Len(s) + 1] = f
        /\ \A n \in 1..Len(s) : a[n] = s[n]
    BY AppendProperties, LenProperties DEF Frames
  <1> HIDE DEF a
  <1>2. a # <<>>
    BY <1>1, EmptyFrames
  <1>3. TornTail(a)
    BY <1>1, <1>2 DEF TornTail, Last
  <1>4. /\ Events(a) \in Frames
        /\ Len(Events(a)) = Len(s)
        /\ \A n \in 1..Len(s) : Events(a)[n] = a[n]
    BY <1>1, <1>3, EventsOfTorn
  <1>5. Events(a) = s
    BY <1>1, <1>4, SeqEqual DEF Frames
  <1>6. AllWhole(s)
    <2>1. Events(s) = s
      BY DEF Events
    <2> QED  BY <2>1, EventsAreWhole
  <1>7. \A n \in 1..Len(s) : s[n].whole /\ s[n].sequence = n
    BY <1>6, ReadableFrames DEF AllWhole
  <1>8. Readable(a)
    BY <1>1, <1>7, ReadableFrames
  <1> QED  BY <1>1, <1>3, <1>5, <1>8 DEF a, Begins

\* The torn frame is completed.
LEMMA CompleteTorn ==
    ASSUME NEW s \in Frames, Readable(s), TornTail(s), s[Len(s)].sequence = Len(s),
           NEW c, c = [s EXCEPT ![Len(s)].whole = TRUE]
    PROVE  /\ c \in Frames
           /\ c # <<>>
           /\ ~TornTail(c)
           /\ SubSeq(c, 1, Len(c) - 1) = Events(s)
           /\ Readable(c)
           /\ Begins(Events(s), c)
  <1>1. /\ Len(s) \in Nat /\ Len(s) > 0
        /\ Events(s) \in Frames
        /\ Len(Events(s)) = Len(s) - 1
        /\ \A n \in 1..(Len(s) - 1) : Events(s)[n] = s[n]
    BY EventsOf
  <1>2. s[Len(s)] \in Frame
    BY <1>1, ElementOfSeq DEF Frames
  <1> DEFINE f == [s[Len(s)] EXCEPT !.whole = TRUE]
  <1>3. f \in Frame /\ f.whole /\ f.sequence = Len(s)
    BY <1>2 DEF Frame
  <1>4. c = [s EXCEPT ![Len(s)] = f]
    BY <1>1
  <1> HIDE DEF f
  <1>5. /\ c \in Frames
        /\ Len(c) = Len(s)
        /\ \A n \in 1..Len(s) : c[n] = IF n = Len(s) THEN f ELSE s[n]
    <2>1. Len(s) \in 1..Len(s)
      BY <1>1
    <2>2. /\ [s EXCEPT ![Len(s)] = f] \in Frames
          /\ Len([s EXCEPT ![Len(s)] = f]) = Len(s)
          /\ \A n \in 1..Len(s) : [s EXCEPT ![Len(s)] = f][n] = IF n = Len(s) THEN f ELSE s[n]
      BY <1>3, <2>1, ExceptSeq DEF Frames
    <2> QED  BY <1>4, <2>2, Zenon
  <1>6. c # <<>> /\ c[Len(c)] = f
    BY <1>1, <1>5, EmptyFrames
  <1>7. ~TornTail(c)
    BY <1>3, <1>6 DEF TornTail, Last
  <1>8. /\ SubSeq(c, 1, Len(c) - 1) \in Frames
        /\ Len(SubSeq(c, 1, Len(c) - 1)) = Len(c) - 1
        /\ \A n \in 1..(Len(c) - 1) : SubSeq(c, 1, Len(c) - 1)[n] = c[n]
    <2>1. Len(c) - 1 \in 0..Len(c)
      BY <1>1, <1>5
    <2> QED  BY <1>5, <2>1, FirstFrames
  <1>9. \A n \in 1..(Len(s) - 1) : c[n] = s[n]
    BY <1>1, <1>5
  <1>10. SubSeq(c, 1, Len(c) - 1) = Events(s)
    BY <1>1, <1>5, <1>8, <1>9, SeqEqual DEF Frames
  <1>11. \A n \in 1..Len(s) : (n < Len(s) => s[n].whole) /\ (s[n].whole => s[n].sequence = n)
    BY ReadableFrames
  <1>12. Readable(c)
    <2>1. \A n \in 1..Len(c) : n < Len(c) => c[n].whole
      BY <1>1, <1>5, <1>9, <1>11
    <2>2. \A n \in 1..Len(c) : c[n].whole => c[n].sequence = n
      BY <1>1, <1>3, <1>5, <1>11
    <2> QED  BY <1>5, <2>1, <2>2, ReadableFrames
  <1>13. Begins(Events(s), c)
    BY <1>1, <1>5, <1>9 DEF Begins
  <1> QED  BY <1>5, <1>6, <1>7, <1>10, <1>12, <1>13

\* A sequence is what comes before its last frame, and that frame.
LEMMA FrontAndLast ==
    ASSUME NEW s \in Frames, s # <<>>
    PROVE  Append(SubSeq(s, 1, Len(s) - 1), Last(s)) = s
  <1>1. Len(s) \in Nat \ {0}
    BY EmptySeq DEF Frames
  <1>2. /\ SubSeq(s, 1, Len(s) - 1) \in Frames
        /\ Len(SubSeq(s, 1, Len(s) - 1)) = Len(s) - 1
        /\ \A n \in 1..(Len(s) - 1) : SubSeq(s, 1, Len(s) - 1)[n] = s[n]
    <2>1. Len(s) - 1 \in 0..Len(s)
      BY <1>1
    <2> QED  BY <2>1, FirstFrames
  <1> DEFINE r == SubSeq(s, 1, Len(s) - 1)
  <1>3. Last(s) \in Frame /\ Last(s) = s[Len(s)]
    BY <1>1, ElementOfSeq DEF Frames, Last
  <1>4. r \in Frames /\ Len(r) = Len(s) - 1 /\ \A n \in 1..(Len(s) - 1) : r[n] = s[n]
    BY <1>2
  <1> HIDE DEF r
  <1>5. /\ Append(r, Last(s)) \in Frames
        /\ Len(Append(r, Last(s))) = Len(s)
        /\ \A n \in 1..Len(r) : Append(r, Last(s))[n] = r[n]
        /\ Append(r, Last(s))[Len(r) + 1] = Last(s)
    BY <1>1, <1>3, <1>4, AppendProperties DEF Frames
  <1>6. \A n \in 1..Len(s) : Append(r, Last(s))[n] = s[n]
    <2>1. Append(r, Last(s))[Len(s)] = s[Len(s)]
      BY <1>1, <1>3, <1>4, <1>5
    <2>2. \A n \in 1..(Len(s) - 1) : Append(r, Last(s))[n] = s[n]
      BY <1>4, <1>5
    <2>3. \A n \in 1..Len(s) : n = Len(s) \/ n \in 1..(Len(s) - 1)
      BY <1>1
    <2> QED  BY <2>1, <2>2, <2>3, Zenon
  <1>7. Append(r, Last(s)) = s
    BY <1>5, <1>6, SeqEqual DEF Frames
  <1> QED  BY <1>7 DEF r

\* What is written back is a beginning of the file.
LEMMA WrittenBack ==
    ASSUME NEW s \in Frames, Readable(s), NEW k \in 0..Len(s)
    PROVE  /\ SubSeq(s, 1, k) \in Frames
           /\ Len(SubSeq(s, 1, k)) = k
           /\ Readable(SubSeq(s, 1, k))
           /\ Begins(SubSeq(s, 1, k), s)
           /\ Begins(Events(SubSeq(s, 1, k)), s)
  <1> DEFINE b == SubSeq(s, 1, k)
  <1>1. /\ b \in Frames
        /\ Len(b) = k /\ k \in Nat /\ Len(s) \in Nat /\ k <= Len(s)
        /\ \A n \in 1..k : b[n] = s[n]
    BY FirstFrames, LenProperties DEF Frames
  <1> HIDE DEF b
  <1>2. /\ \A n \in 1..Len(s) : n < Len(s) => s[n].whole
        /\ \A n \in 1..Len(s) : s[n].whole => s[n].sequence = n
    BY ReadableFrames
  <1>3. Begins(b, s)
    BY <1>1 DEF Begins
  <1>4. /\ \A n \in 1..Len(b) : n < Len(b) => b[n].whole
        /\ \A n \in 1..Len(b) : b[n].whole => b[n].sequence = n
    BY <1>1, <1>2
  <1>5. Readable(b)
    BY <1>1, <1>4, ReadableFrames
  <1>6. Begins(Events(b), s)
    BY <1>1, <1>3, EventsBegin, BeginsTransitive, EventsOf
  <1> QED  BY <1>1, <1>3, <1>5, <1>6 DEF b

\* The last frame of it may be torn.
TornAt(s, k) == [SubSeq(s, 1, k) EXCEPT ![k].whole = FALSE]

LEMMA WrittenBackTorn ==
    ASSUME NEW s \in Frames, Readable(s), NEW k \in 1..Len(s)
    PROVE  /\ TornAt(s, k) \in Frames
           /\ Readable(TornAt(s, k))
           /\ Begins(Events(TornAt(s, k)), s)
           /\ Len(Events(TornAt(s, k))) = k - 1
  <1> DEFINE d == TornAt(s, k)
  <1> DEFINE b == SubSeq(s, 1, k)
  <1>1. /\ b \in Frames
        /\ Len(b) = k /\ k \in Nat /\ k > 0 /\ Len(s) \in Nat /\ k <= Len(s)
        /\ \A n \in 1..k : b[n] = s[n]
    <2>1. k \in 0..Len(s)
      OBVIOUS
    <2> QED  BY <2>1, FirstFrames, LenProperties DEF Frames
  <1>2. d = [b EXCEPT ![k].whole = FALSE]
    BY DEF TornAt
  <1> HIDE DEF b, d
  <1>3. /\ \A n \in 1..Len(s) : n < Len(s) => s[n].whole
        /\ \A n \in 1..Len(s) : s[n].whole => s[n].sequence = n
    BY ReadableFrames
  <1> DEFINE f == [b[k] EXCEPT !.whole = FALSE]
  <1>4. b[k] \in Frame
    BY <1>1, ElementOfSeq DEF Frames
  <1>5. f \in Frame /\ ~f.whole
    BY <1>4 DEF Frame
  <1>6. d = [b EXCEPT ![k] = f]
    BY <1>2
  <1> HIDE DEF f
  <1>7. /\ d \in Frames
        /\ Len(d) = k
        /\ \A n \in 1..k : d[n] = IF n = k THEN f ELSE b[n]
    <2>1. k \in 1..Len(b)
      BY <1>1
    <2>2. /\ [b EXCEPT ![k] = f] \in Frames
          /\ Len([b EXCEPT ![k] = f]) = Len(b)
          /\ \A n \in 1..Len(b) : [b EXCEPT ![k] = f][n] = IF n = k THEN f ELSE b[n]
      BY <1>1, <1>5, <2>1, ExceptSeq DEF Frames
    <2> QED  BY <1>1, <1>6, <2>2, Zenon
  <1>8. ~d[k].whole /\ d # <<>>
    BY <1>1, <1>5, <1>7, EmptyFrames
  <1>9. TornTail(d)
    BY <1>7, <1>8 DEF TornTail, Last
  <1>10. /\ Len(Events(d)) = k - 1
         /\ \A n \in 1..(k - 1) : Events(d)[n] = d[n]
    BY <1>7, <1>9, EventsOf
  <1>11. \A n \in 1..(k - 1) : d[n] = s[n] /\ s[n].whole
    BY <1>1, <1>3, <1>7
  <1>12. /\ \A n \in 1..Len(d) : n < Len(d) => d[n].whole
         /\ \A n \in 1..Len(d) : d[n].whole => d[n].sequence = n
    BY <1>1, <1>3, <1>7, <1>8, <1>11
  <1>13. Readable(d)
    BY <1>7, <1>12, ReadableFrames
  <1>14. Begins(Events(d), s)
    BY <1>1, <1>10, <1>11 DEF Begins
  <1> QED  BY <1>7, <1>10, <1>13, <1>14 DEF d

-----------------------------------------------------------------------------
(* Processes. *)

\* While a process is at work all others are closed, and a closed one knows nothing.
LEMMA OthersAreClosed ==
    ASSUME Excluded, NEW p \in Process, ~At(p, "closed") \/ lock = None,
           FileAssumption
    PROVE  \A q \in Process \ {p} : At(q, "closed")
  BY DEF Excluded, FileAssumption

\* A closed writer is supposed to know nothing.
LEMMA ClosedKnowsNothing ==
    ASSUME NEW q \in Process, writer'[q].step = "closed"
    PROVE  Knows(q)'
  BY DEF Knows, At, Opened, Counted

\* A process that goes on leaves the others as they are.
LEMMA OneMoves ==
    ASSUME TypeOK, Excluded, FileAssumption,
           NEW p \in Process, ~At(p, "closed") \/ lock = None,
           NEW w \in Writers, writer' = [writer EXCEPT ![p] = w]
    PROVE  /\ writer' \in [Process -> Writers]
           /\ writer'[p] = w
           /\ \A q \in Process \ {p} : writer'[q].step = "closed" /\ Knows(q)'
  <1>1. writer \in [Process -> Writers]
    BY DEF TypeOK
  <1>2. /\ writer' \in [Process -> Writers]
        /\ writer'[p] = w
        /\ \A q \in Process \ {p} : writer'[q] = writer[q]
    BY <1>1
  <1>3. \A q \in Process \ {p} : writer'[q].step = "closed"
    BY <1>2, OthersAreClosed DEF At
  <1> QED  BY <1>2, <1>3, ClosedKnowsNothing

\* The same for a step that keeps the writer's events.
LEMMA GotoMoves ==
    ASSUME TypeOK, Excluded, FileAssumption,
           NEW p \in Process, ~At(p, "closed") \/ lock = None,
           NEW step \in Steps, Goto(p, step)
    PROVE  /\ writer' \in [Process -> Writers]
           /\ writer'[p].step = step
           /\ writer'[p].events = writer[p].events
           /\ \A q \in Process \ {p} : writer'[q].step = "closed" /\ Knows(q)'
  <1>1. writer[p] \in Writers
    BY DEF TypeOK
  <1> DEFINE w == [writer[p] EXCEPT !.step = step]
  <1>2. w \in Writers /\ w.step = step /\ w.events = writer[p].events
    BY <1>1 DEF Writers
  <1>3. writer' = [writer EXCEPT ![p] = w]
    BY DEF Goto
  <1> HIDE DEF w
  <1> QED  BY <1>2, <1>3, OneMoves

\* Who works on a file beyond its creation has a durable name for it, or an excuse.
LEMMA DurableOrInterrupted ==
    ASSUME IInv, FileAssumption, NEW p \in Process, name # "none",
           \/ ~At(p, "closed") /\ ~At(p, "syncDir")
           \/ lock = None
    PROVE  interrupted \/ name = "durable"
  <1>1. SUFFICES ASSUME ~interrupted, name = "cached" PROVE FALSE
    BY DEF IInv, TypeOK
  <1>2. PICK q \in Process : At(q, "syncDir")
    BY <1>1 DEF IInv, Created
  <1>3. lock = q /\ q # None
    BY <1>2 DEF IInv, Excluded, At, FileAssumption
  <1>4. ~At(p, "closed") => lock = p
    BY DEF IInv, Excluded
  <1> QED  BY <1>2, <1>3, <1>4 DEF At

\* What is acknowledged and what is on the disk, in the file.
LEMMA AckedInFile ==
    ASSUME IInv
    PROVE  /\ Begins(acked, file) /\ Begins(acked, disk)
           /\ Begins(acked, Events(file)) /\ Begins(Events(disk), Events(file))
           /\ acked \in Frames /\ file \in Frames /\ disk \in Frames
           /\ Readable(file) /\ Readable(disk)
           /\ AllWhole(acked) /\ AllWhole(Events(disk))
  <1>1. acked \in Frames /\ file \in Frames /\ disk \in Frames
    BY DEF IInv, TypeOK
  <1>2. Readable(file) /\ Readable(disk)
    BY DEF IInv, AlwaysReadable
  <1>3. Begins(Events(disk), file) /\ Begins(acked, Events(disk)) /\ AllWhole(acked)
    BY DEF IInv, Follows
  <1>4. Events(disk) \in Frames
    BY <1>1, EventsOf
  <1>5. Begins(acked, file)
    BY <1>1, <1>3, <1>4, BeginsTransitive
  <1>6. Begins(acked, disk)
    BY <1>1, <1>3, <1>4, EventsBegin, BeginsTransitive
  <1>7. AllWhole(Events(disk))
    BY <1>1, <1>2, EventsAreWhole
  <1>8. Begins(acked, Events(file)) /\ Begins(Events(disk), Events(file))
    BY <1>1, <1>3, <1>4, <1>5, <1>7, WholeBeginning
  <1> QED  BY <1>1, <1>2, <1>3, <1>5, <1>6, <1>7, <1>8

\* The parts of the invariant that speak of the file only.
LEMMA SameFile ==
    ASSUME IInv, UNCHANGED <<file, disk, acked>>
    PROVE  AlwaysReadable' /\ Follows'
  BY DEF IInv, AlwaysReadable, Readable, Follows, Begins, AllWhole, Events, TornTail

-----------------------------------------------------------------------------
(* One lemma per action. *)

LEMMA Initially == FileAssumption /\ Init => IInv
  <1> SUFFICES ASSUME FileAssumption, Init PROVE IInv
    OBVIOUS
  <1>1. TypeOK
    BY EmptyFrames DEF Init, TypeOK, Writers, Closed, Steps
  <1>2. AlwaysReadable /\ Follows
    BY EmptyFrames DEF Init, AlwaysReadable, Follows
  <1>3. Excluded /\ \A p \in Process : Knows(p)
    BY DEF Init, Excluded, Knows, At, Closed, Opened, Counted
  <1>4. Created
    BY DEF Init, Created
  <1> QED  BY <1>1, <1>2, <1>3, <1>4 DEF IInv

LEMMA AcquireLockStep ==
    ASSUME IInv, FileAssumption, NEW p \in Process, AcquireLock(p)
    PROVE  IInv'
  <1>1. /\ writer' \in [Process -> Writers]
        /\ writer'[p].step = "read"
        /\ \A q \in Process \ {p} : writer'[q].step = "closed" /\ Knows(q)'
    BY GotoMoves DEF AcquireLock, IInv, Steps
  <1>2. TypeOK'
    BY <1>1 DEF AcquireLock, IInv, TypeOK
  <1>3. AlwaysReadable' /\ Follows'
    BY SameFile DEF AcquireLock
  <1>4. Excluded'
    BY <1>1 DEF AcquireLock, Excluded, At
  <1>5. \A q \in Process : Knows(q)'
    BY <1>1 DEF Knows, At, Opened, Counted
  <1>6. Created'
    BY DurableOrInterrupted DEF AcquireLock, IInv, Created, TypeOK
  <1> QED  BY <1>2, <1>3, <1>4, <1>5, <1>6 DEF IInv

LEMMA ReadEventsStep ==
    ASSUME IInv, FileAssumption, NEW p \in Process, ReadEvents(p)
    PROVE  IInv'
  <1> DEFINE w == [step |-> "create", events |-> Events(file)]
  <1>1. w \in Writers
    BY EventsOf DEF IInv, TypeOK, Writers, Steps
  <1>2. ~At(p, "closed") /\ lock = p /\ writer' = [writer EXCEPT ![p] = w]
    BY DEF ReadEvents, At, IInv, Excluded
  <1>3. /\ writer' \in [Process -> Writers]
        /\ writer'[p] = w
        /\ \A q \in Process \ {p} : writer'[q].step = "closed" /\ Knows(q)'
    BY <1>1, <1>2, OneMoves DEF IInv
  <1>4. writer'[p].step = "create" /\ writer'[p].events = Events(file)
    BY <1>3
  <1>5. TypeOK'
    BY <1>3 DEF ReadEvents, IInv, TypeOK
  <1>6. AlwaysReadable' /\ Follows'
    BY SameFile DEF ReadEvents
  <1>7. Excluded'
    BY <1>2, <1>3 DEF ReadEvents, Excluded, At
  <1>8. Knows(p)'
    BY <1>4 DEF ReadEvents, Knows, At, Opened, Counted, Events, TornTail
  <1>9. Created'
    BY DurableOrInterrupted DEF ReadEvents, IInv, Created, TypeOK, At
  <1> QED  BY <1>3, <1>5, <1>6, <1>7, <1>8, <1>9 DEF IInv

LEMMA OpenFileStep ==
    ASSUME IInv, FileAssumption, NEW p \in Process, OpenFile(p)
    PROVE  IInv'
  <1> DEFINE step == IF name = "none" THEN "syncDir" ELSE AfterOpen
  <1>1. /\ step \in Steps /\ Goto(p, step) /\ At(p, "create") /\ ~At(p, "closed") /\ lock = p
        /\ step \in {"syncDir", "truncate", "ready"}
        /\ step = "ready" => ~TornTail(file)
        /\ name = "none" => step = "syncDir"
    BY DEF OpenFile, AfterOpen, Steps, At, IInv, Excluded
  <1> HIDE DEF step
  <1>2. /\ writer' \in [Process -> Writers]
        /\ writer'[p].step = step
        /\ writer'[p].events = writer[p].events
        /\ \A q \in Process \ {p} : writer'[q].step = "closed" /\ Knows(q)'
    BY <1>1, GotoMoves DEF IInv
  <1>3. name' \in {"cached", "durable"} /\ (name # "none" => name' = name)
        /\ (name = "none" => name' = "cached")
    BY DEF OpenFile, IInv, TypeOK
  <1>4. TypeOK'
    BY <1>2, <1>3 DEF OpenFile, IInv, TypeOK
  <1>5. AlwaysReadable' /\ Follows'
    BY SameFile DEF OpenFile
  <1>6. Excluded'
    BY <1>1, <1>2 DEF OpenFile, Excluded, At
  <1>7. Knows(p)'
    <2>1. writer[p].events = Events(file)
      BY <1>1 DEF IInv, Knows, At, Counted
    <2> QED  BY <1>1, <1>2, <1>3, <2>1 DEF OpenFile, Knows, At, Opened, Counted, Events, TornTail
  <1>8. Created'
    <2>1. CASE name = "none"
      BY <1>1, <1>2, <1>3, <2>1 DEF OpenFile, IInv, Created, At
    <2>2. CASE name # "none"
      BY <1>1, <1>3, <2>2, DurableOrInterrupted DEF OpenFile, At, Created
    <2> QED  BY <2>1, <2>2
  <1> QED  BY <1>2, <1>4, <1>5, <1>6, <1>7, <1>8 DEF IInv

LEMMA SyncDirectoryStep ==
    ASSUME IInv, FileAssumption, NEW p \in Process, SyncDirectory(p)
    PROVE  IInv'
  <1>1. /\ AfterOpen \in Steps /\ At(p, "syncDir") /\ ~At(p, "closed") /\ lock = p
        /\ AfterOpen \in {"truncate", "ready"} /\ Goto(p, AfterOpen)
        /\ AfterOpen = "ready" => ~TornTail(file)
    BY DEF SyncDirectory, AfterOpen, Steps, At, IInv, Excluded
  <1>2. /\ writer' \in [Process -> Writers]
        /\ writer'[p].step = AfterOpen
        /\ writer'[p].events = writer[p].events
        /\ \A q \in Process \ {p} : writer'[q].step = "closed" /\ Knows(q)'
    BY <1>1, GotoMoves DEF IInv
  <1>3. TypeOK'
    BY <1>2 DEF SyncDirectory, IInv, TypeOK
  <1>4. AlwaysReadable' /\ Follows'
    BY SameFile DEF SyncDirectory
  <1>5. Excluded'
    BY <1>1, <1>2 DEF SyncDirectory, Excluded, At
  <1>6. Knows(p)'
    <2>1. writer[p].events = Events(file)
      BY <1>1 DEF IInv, Knows, At, Counted
    <2> QED  BY <1>1, <1>2, <2>1 DEF SyncDirectory, Knows, At, Opened, Counted, Events, TornTail
  <1>7. Created'
    BY DEF SyncDirectory, Created
  <1> QED  BY <1>2, <1>3, <1>4, <1>5, <1>6, <1>7 DEF IInv

LEMMA TruncateTailStep ==
    ASSUME IInv, FileAssumption, NEW p \in Process, TruncateTail(p)
    PROVE  IInv'
  <1>1. /\ "syncTail" \in Steps /\ At(p, "truncate") /\ ~At(p, "closed") /\ ~At(p, "syncDir")
        /\ lock = p /\ Goto(p, "syncTail")
        /\ writer[p].events = Events(file) /\ name # "none"
    BY DEF TruncateTail, Steps, At, IInv, Excluded, Knows, Counted, Opened
  <1>2. /\ writer' \in [Process -> Writers]
        /\ writer'[p].step = "syncTail"
        /\ writer'[p].events = Events(file)
        /\ \A q \in Process \ {p} : writer'[q].step = "closed" /\ Knows(q)'
    BY <1>1, GotoMoves DEF IInv
  <1>3. file' = Events(file)
    <2>1. file' = SubSeq(file, 1, Len(Events(file)))
      BY <1>1 DEF TruncateTail
    <2>2. CASE TornTail(file)
      BY <2>1, <2>2, EventsOf DEF IInv, TypeOK, Events, Front
    <2>3. CASE ~TornTail(file)
      BY <2>1, <2>3, SubSeqFull DEF IInv, TypeOK, Events, Frames
    <2> QED  BY <2>2, <2>3
  <1>4. /\ file' \in Frames /\ Readable(file') /\ ~TornTail(file')
        /\ Begins(Events(disk), file')
    BY <1>3, AckedInFile, EventsReadable, EventsOf
  <1>5. Events(file') = file'
    BY <1>4 DEF Events
  <1>6. TypeOK'
    BY <1>2, <1>4 DEF TruncateTail, IInv, TypeOK
  <1>7. AlwaysReadable'
    BY <1>4 DEF TruncateTail, IInv, AlwaysReadable, Readable
  <1>8. Follows'
    BY <1>4 DEF TruncateTail, IInv, Follows, Begins, AllWhole, Events, TornTail
  <1>9. Excluded'
    BY <1>1, <1>2 DEF TruncateTail, Excluded, At
  <1>10. Knows(p)'
    BY <1>1, <1>2, <1>3, <1>4, <1>5 DEF TruncateTail, Knows, At, Opened, Counted, Events, TornTail
  <1>11. Created'
    BY <1>1, DurableOrInterrupted DEF TruncateTail, Created
  <1> QED  BY <1>2, <1>6, <1>7, <1>8, <1>9, <1>10, <1>11 DEF IInv

LEMMA SyncTailStep ==
    ASSUME IInv, FileAssumption, NEW p \in Process, SyncTail(p)
    PROVE  IInv'
  <1>1. /\ "ready" \in Steps /\ At(p, "syncTail") /\ ~At(p, "closed") /\ ~At(p, "syncDir")
        /\ lock = p /\ Goto(p, "ready")
        /\ writer[p].events = Events(file) /\ ~TornTail(file) /\ name # "none"
    BY DEF SyncTail, Steps, At, IInv, Excluded, Knows, Counted, Opened
  <1>2. /\ writer' \in [Process -> Writers]
        /\ writer'[p].step = "ready"
        /\ writer'[p].events = Events(file)
        /\ \A q \in Process \ {p} : writer'[q].step = "closed" /\ Knows(q)'
    BY <1>1, GotoMoves DEF IInv
  <1>3. TypeOK'
    BY <1>2 DEF SyncTail, IInv, TypeOK
  <1>4. AlwaysReadable'
    BY DEF SyncTail, IInv, AlwaysReadable, Readable
  <1>5. Begins(Events(file), file) /\ Begins(acked, Events(file)) /\ AllWhole(acked)
    BY AckedInFile, EventsBegin
  <1>6. Follows'
    BY <1>5 DEF SyncTail, Follows, Begins, AllWhole, Events, TornTail
  <1>7. Excluded'
    BY <1>1, <1>2 DEF SyncTail, Excluded, At
  <1>8. Knows(p)'
    BY <1>1, <1>2 DEF SyncTail, Knows, At, Opened, Counted, Events, TornTail
  <1>9. Created'
    BY <1>1, DurableOrInterrupted DEF SyncTail, Created
  <1> QED  BY <1>2, <1>3, <1>4, <1>6, <1>7, <1>8, <1>9 DEF IInv

LEMMA WriteSomeStep ==
    ASSUME IInv, FileAssumption, NEW p \in Process, WriteSome(p)
    PROVE  IInv'
  <1>1. /\ "writing" \in Steps /\ At(p, "ready") /\ ~At(p, "closed") /\ ~At(p, "syncDir")
        /\ lock = p /\ Goto(p, "writing")
        /\ writer[p].events = file /\ ~TornTail(file) /\ name # "none"
    BY DEF WriteSome, Steps, At, IInv, Excluded, Knows, Counted, Opened, Events
  <1>2. /\ writer' \in [Process -> Writers]
        /\ writer'[p].step = "writing"
        /\ writer'[p].events = file
        /\ \A q \in Process \ {p} : writer'[q].step = "closed" /\ Knows(q)'
    BY <1>1, GotoMoves DEF IInv
  <1> DEFINE f == NextFrame(p)
  <1>3. f \in Frame /\ ~f.whole /\ f.sequence = Len(file) + 1
    BY <1>1, EventsOf DEF NextFrame, Frame, IInv, TypeOK
  <1>4. file' = Append(file, f)
    BY DEF WriteSome
  <1> HIDE DEF f
  <1>5. /\ file' \in Frames /\ Len(file') = Len(file) + 1 /\ file'[Len(file) + 1] = f
        /\ TornTail(file') /\ Events(file') = file /\ Readable(file') /\ Begins(file, file')
    BY <1>1, <1>3, <1>4, AckedInFile, AppendTorn
  <1>6. TypeOK'
    BY <1>2, <1>5 DEF WriteSome, IInv, TypeOK
  <1>7. AlwaysReadable'
    BY <1>5 DEF WriteSome, IInv, AlwaysReadable, Readable
  <1>8. Begins(Events(disk), file')
    BY <1>5, AckedInFile, EventsOf, BeginsTransitive DEF IInv, Follows
  <1>9. Follows'
    BY <1>8 DEF WriteSome, IInv, Follows, Begins, AllWhole, Events, TornTail
  <1>10. Excluded'
    BY <1>1, <1>2 DEF WriteSome, Excluded, At
  <1>11. Knows(p)'
    <2>1. file'[Len(file')].sequence = Len(file')
      BY <1>3, <1>5
    <2>2. (Events(file))' = file /\ (TornTail(file))'
      BY <1>5 DEF Events, TornTail
    <2> QED  BY <1>1, <1>2, <2>1, <2>2 DEF WriteSome, Knows, At, Opened, Counted
  <1>12. Created'
    BY <1>1, DurableOrInterrupted DEF WriteSome, Created
  <1> QED  BY <1>2, <1>6, <1>7, <1>9, <1>10, <1>11, <1>12 DEF IInv

LEMMA WriteRestStep ==
    ASSUME IInv, FileAssumption, NEW p \in Process, WriteRest(p)
    PROVE  IInv'
  <1>1. /\ "syncing" \in Steps /\ At(p, "writing") /\ ~At(p, "closed") /\ ~At(p, "syncDir")
        /\ lock = p /\ Goto(p, "syncing")
        /\ writer[p].events = Events(file) /\ TornTail(file)
        /\ file[Len(file)].sequence = Len(file) /\ name # "none"
    BY DEF WriteRest, Steps, At, IInv, Excluded, Knows, Counted, Opened
  <1>2. /\ writer' \in [Process -> Writers]
        /\ writer'[p].step = "syncing"
        /\ writer'[p].events = Events(file)
        /\ \A q \in Process \ {p} : writer'[q].step = "closed" /\ Knows(q)'
    BY <1>1, GotoMoves DEF IInv
  <1>3. file' = [file EXCEPT ![Len(file)].whole = TRUE]
    BY DEF WriteRest
  <1>4. /\ file' \in Frames /\ file' # <<>> /\ ~TornTail(file')
        /\ SubSeq(file', 1, Len(file') - 1) = Events(file)
        /\ Readable(file') /\ Begins(Events(file), file')
    BY <1>1, <1>3, AckedInFile, CompleteTorn
  <1>5. TypeOK'
    BY <1>2, <1>4 DEF WriteRest, IInv, TypeOK
  <1>6. AlwaysReadable'
    BY <1>4 DEF WriteRest, IInv, AlwaysReadable, Readable
  <1>7. Begins(Events(disk), file')
    BY <1>4, AckedInFile, EventsOf, BeginsTransitive
  <1>8. Follows'
    BY <1>7 DEF WriteRest, IInv, Follows, Begins, AllWhole, Events, TornTail
  <1>9. Excluded'
    BY <1>1, <1>2 DEF WriteRest, Excluded, At
  <1>10. Knows(p)'
    <2>1. (~TornTail(file))'
      BY <1>4 DEF TornTail
    <2> QED  BY <1>1, <1>2, <1>4, <2>1 DEF WriteRest, Knows, At, Opened, Counted
  <1>11. Created'
    BY <1>1, DurableOrInterrupted DEF WriteRest, Created
  <1> QED  BY <1>2, <1>5, <1>6, <1>8, <1>9, <1>10, <1>11 DEF IInv

LEMMA SyncFrameStep ==
    ASSUME IInv, FileAssumption, NEW p \in Process, SyncFrame(p)
    PROVE  IInv'
  <1>1. /\ At(p, "syncing") /\ ~At(p, "closed") /\ ~At(p, "syncDir") /\ lock = p
        /\ file # <<>> /\ ~TornTail(file) /\ name # "none"
        /\ writer[p].events = SubSeq(file, 1, Len(file) - 1)
    BY DEF SyncFrame, At, IInv, Excluded, Knows, Opened
  <1>2. Append(writer[p].events, Last(file)) = file
    BY <1>1, FrontAndLast DEF IInv, TypeOK
  <1> DEFINE w == [step |-> "ready", events |-> file]
  <1>3. /\ writer' = [writer EXCEPT ![p] = w]
        /\ acked' = IF Len(file) > Len(acked) THEN file ELSE acked
    BY <1>2 DEF SyncFrame, Acknowledge
  <1>4. w \in Writers /\ w.step = "ready" /\ w.events = file
    BY DEF IInv, TypeOK, Writers, Steps
  <1> HIDE DEF w
  <1>5. /\ writer' \in [Process -> Writers]
        /\ writer'[p].step = "ready"
        /\ writer'[p].events = file
        /\ \A q \in Process \ {p} : writer'[q].step = "closed" /\ Knows(q)'
    BY <1>1, <1>3, <1>4, OneMoves DEF IInv
  <1>6. Events(file) = file
    BY <1>1 DEF Events
  <1>7. acked' \in Frames /\ Begins(acked', file) /\ AllWhole(acked')
    <2>1. Begins(file, file) /\ AllWhole(file)
      BY <1>6, AckedInFile, EventsAreWhole, EventsBegin
    <2> QED  BY <1>3, <2>1, AckedInFile
  <1>8. TypeOK'
    BY <1>5, <1>7 DEF SyncFrame, IInv, TypeOK
  <1>9. AlwaysReadable'
    BY DEF SyncFrame, IInv, AlwaysReadable, Readable
  <1>10. Follows'
    <2>1. disk' = file /\ file' = file /\ (Events(disk))' = file
      BY <1>1 DEF SyncFrame, Events, TornTail
    <2>2. Begins(file, file)
      BY <1>6, AckedInFile, EventsBegin
    <2> QED  BY <1>7, <2>1, <2>2 DEF Follows, Begins, AllWhole
  <1>11. Excluded'
    BY <1>1, <1>5 DEF SyncFrame, Excluded, At
  <1>12. Knows(p)'
    BY <1>1, <1>5, <1>6 DEF SyncFrame, Knows, At, Opened, Counted, Events, TornTail
  <1>13. Created'
    BY <1>1, DurableOrInterrupted DEF SyncFrame, Created
  <1> QED  BY <1>5, <1>8, <1>9, <1>10, <1>11, <1>12, <1>13 DEF IInv

LEMMA AppendFailsStep ==
    ASSUME IInv, FileAssumption, NEW p \in Process, AppendFails(p)
    PROVE  IInv'
  <1>1. /\ AfterFailure \in Steps /\ AfterFailure = "poisoned" /\ Goto(p, AfterFailure)
        /\ ~At(p, "closed") /\ ~At(p, "syncDir") /\ lock = p /\ name # "none"
    BY DEF AppendFails, AfterFailure, Steps, At, IInv, Excluded, Knows, Opened
  <1>2. /\ writer' \in [Process -> Writers]
        /\ writer'[p].step = "poisoned"
        /\ \A q \in Process \ {p} : writer'[q].step = "closed" /\ Knows(q)'
    BY <1>1, GotoMoves DEF IInv
  <1>3. TypeOK'
    BY <1>2 DEF AppendFails, IInv, TypeOK
  <1>4. AlwaysReadable' /\ Follows'
    BY SameFile DEF AppendFails
  <1>5. Excluded'
    BY <1>1, <1>2 DEF AppendFails, Excluded, At
  <1>6. Knows(p)'
    BY <1>1, <1>2 DEF AppendFails, Knows, At, Opened, Counted
  <1>7. Created'
    BY <1>1, DurableOrInterrupted DEF AppendFails, Created
  <1> QED  BY <1>2, <1>3, <1>4, <1>5, <1>6, <1>7 DEF IInv

LEMMA CloseStep ==
    ASSUME IInv, FileAssumption, NEW p \in Process, Close(p)
    PROVE  IInv'
  <1>1. ~At(p, "closed") /\ lock = p /\ lock' = None /\ Closed \in Writers /\ Closed.step = "closed"
    BY EmptyFrames DEF Close, At, IInv, Excluded, Closed, Writers, Steps
  <1>2. /\ writer' \in [Process -> Writers]
        /\ \A q \in Process : writer'[q].step = "closed"
    BY <1>1, OneMoves DEF Close, IInv
  <1>3. TypeOK'
    BY <1>1, <1>2 DEF Close, IInv, TypeOK
  <1>4. AlwaysReadable' /\ Follows'
    BY SameFile DEF Close
  <1>5. Excluded'
    BY <1>2 DEF Excluded, At
  <1>6. \A q \in Process : Knows(q)'
    BY <1>2, ClosedKnowsNothing
  <1>7. Created'
    BY <1>1, DurableOrInterrupted DEF Close, IInv, TypeOK, Created
  <1> QED  BY <1>3, <1>4, <1>5, <1>6, <1>7 DEF IInv

LEMMA WritebackStep ==
    ASSUME IInv, FileAssumption, Writeback
    PROVE  IInv'
  <1>1. PICK n \in Len(Events(disk)) .. Len(file) :
            \/ disk' = SubSeq(file, 1, n)
            \/ n > Len(Events(disk)) /\ disk' = TornAt(file, n)
    BY DEF Writeback, TornAt
  <1>2. /\ acked \in Frames /\ file \in Frames /\ disk \in Frames /\ Readable(file)
        /\ Len(Events(disk)) \in Nat /\ Len(file) \in Nat /\ Len(acked) \in Nat
        /\ Begins(acked, file) /\ Len(acked) <= Len(Events(disk)) /\ AllWhole(acked)
    BY AckedInFile, EventsOf, LenProperties DEF IInv, Follows, Begins, Frames
  <1> DEFINE Result ==
        disk' \in Frames /\ Readable(disk') /\ Begins(Events(disk'), file) /\ Begins(acked, Events(disk'))
  <1>3. ASSUME disk' = SubSeq(file, 1, n) PROVE Result
    <2>1. n \in 0..Len(file)
      BY <1>2
    <2>2. /\ disk' \in Frames /\ Readable(disk') /\ Len(disk') = n
          /\ Begins(disk', file) /\ Begins(Events(disk'), file)
      BY <1>2, <1>3, <2>1, WrittenBack
    <2>3. Begins(acked, disk')
      BY <1>2, <2>2 DEF Begins
    <2> QED  BY <1>2, <2>2, <2>3, WholeBeginning
  <1>4. ASSUME n > Len(Events(disk)), disk' = TornAt(file, n) PROVE Result
    <2>1. n \in 1..Len(file)
      BY <1>2, <1>4
    <2>2. /\ disk' \in Frames /\ Readable(disk')
          /\ Begins(Events(disk'), file) /\ Len(Events(disk')) = n - 1
      BY <1>2, <1>4, <2>1, WrittenBackTorn
    <2>3. Len(acked) <= Len(Events(disk')) /\ Len(Events(disk')) <= Len(file)
      BY <1>2, <1>4, <2>2 DEF Begins
    <2>4. Begins(acked, Events(disk'))
      BY <1>2, <2>1, <2>2, <2>3 DEF Begins
    <2> QED  BY <2>2, <2>4
  <1>5. Result
    BY <1>1, <1>3, <1>4
  <1>6. TypeOK'
    BY <1>5 DEF Writeback, IInv, TypeOK
  <1>7. AlwaysReadable'
    BY <1>2, <1>5 DEF Writeback, AlwaysReadable, Readable
  <1>8. Follows'
    BY <1>2, <1>5 DEF Writeback, Follows, Begins, AllWhole, Events, TornTail
  <1>9. Excluded'
    BY DEF Writeback, IInv, Excluded, At
  <1>10. \A q \in Process : Knows(q)'
    BY DEF Writeback, IInv, Knows, At, Events, TornTail
  <1>11. Created'
    BY DEF Writeback, IInv, Created, At
  <1> QED  BY <1>6, <1>7, <1>8, <1>9, <1>10, <1>11 DEF IInv

LEMMA PowerLossStep ==
    ASSUME IInv, FileAssumption, PowerLoss
    PROVE  IInv'
  <1>1. /\ writer' \in [Process -> Writers] /\ lock' = None
        /\ \A q \in Process : writer'[q].step = "closed"
    BY EmptyFrames DEF PowerLoss, Closed, Writers, Steps
  <1>2. CASE name' = "durable" /\ file' = disk /\ UNCHANGED <<disk, acked, interrupted>>
    <2>1. TypeOK'
      BY <1>1, <1>2 DEF IInv, TypeOK
    <2>2. AlwaysReadable'
      BY <1>2 DEF IInv, AlwaysReadable, Readable
    <2>3. Begins(Events(disk), disk)
      BY AckedInFile, EventsBegin
    <2>4. Follows'
      BY <1>2, <2>3 DEF IInv, Follows, Begins, AllWhole, Events, TornTail
    <2>5. Created'
      BY <1>2 DEF Created
    <2> QED  BY <1>1, <2>1, <2>2, <2>4, <2>5, ClosedKnowsNothing DEF IInv, Excluded, At
  <1>3. CASE name' = "none" /\ file' = <<>> /\ disk' = <<>> /\ acked' = <<>> /\ interrupted' = FALSE
    <2>1. TypeOK'
      BY <1>1, <1>3, EmptyFrames DEF TypeOK
    <2>2. AlwaysReadable' /\ Follows'
      BY <1>3, EmptyFrames DEF AlwaysReadable, Follows, Begins, AllWhole, Events, TornTail, Readable
    <2>3. Created'
      BY <1>3 DEF Created
    <2> QED  BY <1>1, <2>1, <2>2, <2>3, ClosedKnowsNothing DEF IInv, Excluded, At
  <1> QED  BY <1>2, <1>3 DEF PowerLoss

-----------------------------------------------------------------------------
(* Theorems. *)

\* Every step keeps the invariant.
LEMMA NextStep == FileAssumption /\ IInv /\ [Next]_vars => IInv'
  <1> SUFFICES ASSUME FileAssumption, IInv, [Next]_vars PROVE IInv'
    OBVIOUS
  <1>1. ASSUME NEW p \in Process, AcquireLock(p) PROVE IInv'
    BY <1>1, AcquireLockStep
  <1>2. ASSUME NEW p \in Process, ReadEvents(p) PROVE IInv'
    BY <1>2, ReadEventsStep
  <1>3. ASSUME NEW p \in Process, OpenFile(p) PROVE IInv'
    BY <1>3, OpenFileStep
  <1>4. ASSUME NEW p \in Process, SyncDirectory(p) PROVE IInv'
    BY <1>4, SyncDirectoryStep
  <1>5. ASSUME NEW p \in Process, TruncateTail(p) PROVE IInv'
    BY <1>5, TruncateTailStep
  <1>6. ASSUME NEW p \in Process, SyncTail(p) PROVE IInv'
    BY <1>6, SyncTailStep
  <1>7. ASSUME NEW p \in Process, WriteSome(p) PROVE IInv'
    BY <1>7, WriteSomeStep
  <1>8. ASSUME NEW p \in Process, WriteRest(p) PROVE IInv'
    BY <1>8, WriteRestStep
  <1>9. ASSUME NEW p \in Process, SyncFrame(p) PROVE IInv'
    BY <1>9, SyncFrameStep
  <1>10. ASSUME NEW p \in Process, AppendFails(p) PROVE IInv'
    BY <1>10, AppendFailsStep
  <1>11. ASSUME NEW p \in Process, Close(p) PROVE IInv'
    BY <1>11, CloseStep
  <1>12. CASE Writeback
    BY <1>12, WritebackStep
  <1>13. CASE PowerLoss
    BY <1>13, PowerLossStep
  <1>14. CASE UNCHANGED vars
    BY <1>14 DEF vars, IInv, TypeOK, AlwaysReadable, Readable, Excluded, Knows, Follows, Created,
                 Begins, AllWhole, Events, TornTail, At
  <1> QED  BY <1>1, <1>2, <1>3, <1>4, <1>5, <1>6, <1>7, <1>8, <1>9, <1>10, <1>11, <1>12, <1>13,
              <1>14 DEF Next

\* What the process with the lock knows of the file is true at every step of every process.
THEOREM FileInvariantHolds == Spec => []IInv
  <1>1. Init => IInv
    BY FileAssumption, Initially
  <1>2. IInv /\ [Next]_vars => IInv'
    BY FileAssumption, NextStep
  <1> QED  BY <1>1, <1>2, PTL DEF Spec

\* Every variable has its type.
THEOREM FileTypeCorrect == Spec => []TypeOK
  <1>1. IInv => TypeOK
    BY DEF IInv
  <1> QED  BY <1>1, FileInvariantHolds, PTL

\* Any number of processes that are killed, fail and lose power between any two steps of
\* OpenWriter and Append leave a file that Read accepts, and so does the disk.
THEOREM StaysReadable == Spec => []AlwaysReadable
  <1>1. IInv => AlwaysReadable
    BY DEF IInv
  <1> QED  BY <1>1, FileInvariantHolds, PTL

\* What Append acknowledged is at the beginning of the file and of what survives a loss of power.
THEOREM HistoryStays == Spec => []HistoryKept
  <1>1. IInv => HistoryKept
    BY AckedInFile, BeginsIsPrefix DEF HistoryKept
  <1> QED  BY <1>1, FileInvariantHolds, PTL

\* A journal with acknowledged events loses its name only after its creator was interrupted.
THEOREM LossIsExcused == Spec => []LossNeedsInterruptedCreation
  <1>1. IInv => LossNeedsInterruptedCreation
    BY DEF IInv, Created, LossNeedsInterruptedCreation
  <1> QED  BY <1>1, FileInvariantHolds, PTL

-----------------------------------------------------------------------------
(* JournalFile implements DurableLog.                                      *)

\* The frame that is being written is its writer's, and who is to sync the directory created the file.
Signed ==
    \A p \in Process :
        /\ At(p, "writing") => file[Len(file)].by = p
        /\ At(p, "syncDir") => name = "cached"

\* What a step keeps, and that the log takes a step or none.
LogStep == Signed' /\ [Log!Next]_Log!vars

LEMMA OthersStayClosed ==
    ASSUME IInv, FileAssumption, NEW p \in Process, ~At(p, "closed") \/ lock = None,
           \/ \E w : writer' = [writer EXCEPT ![p] = w]
           \/ \E step : Goto(p, step)
    PROVE  \A q \in Process \ {p} : writer'[q].step = "closed"
  <1>1. \A q \in Process \ {p} : writer'[q] = writer[q]
    BY DEF IInv, TypeOK, Goto
  <1> QED  BY <1>1, OthersAreClosed DEF IInv, At

\* A step that leaves the log as it is.
LEMMA SameLog ==
    ASSUME UNCHANGED <<file, acked, lock, interrupted>>
    PROVE  UNCHANGED Log!vars
  BY DEF Log!vars, Events, TornTail

LEMMA AcquireLockLogs ==
    ASSUME IInv, Signed, FileAssumption, NEW p \in Process, AcquireLock(p)
    PROVE  LogStep
  <1>1. lock = None /\ writer'[p].step = "read" /\ \A q \in Process \ {p} : writer'[q].step = "closed"
    BY OthersStayClosed DEF AcquireLock, Goto, IInv, TypeOK, Writers
  <1>2. Signed'
    BY <1>1 DEF Signed, At
  <1>3. Log!Enter(p)
    BY <1>1 DEF AcquireLock, Log!Enter, Events, TornTail
  <1> QED  BY <1>2, <1>3 DEF LogStep, Log!Next

LEMMA ReadEventsLogs ==
    ASSUME IInv, Signed, FileAssumption, NEW p \in Process, ReadEvents(p)
    PROVE  LogStep
  <1>1. writer'[p].step = "create" /\ \A q \in Process \ {p} : writer'[q].step = "closed"
    BY OthersStayClosed DEF ReadEvents, At, IInv, TypeOK
  <1>2. Signed'
    BY <1>1 DEF Signed, At
  <1> QED  BY <1>2, SameLog DEF LogStep, ReadEvents

LEMMA OpenFileLogs ==
    ASSUME IInv, Signed, FileAssumption, NEW p \in Process, OpenFile(p)
    PROVE  LogStep
  <1>1. /\ writer'[p].step \in {"syncDir", "truncate", "ready"}
        /\ writer'[p].step = "syncDir" => name' = "cached"
    BY DEF OpenFile, Goto, AfterOpen, IInv, TypeOK, Writers
  <1>2. \A q \in Process \ {p} : writer'[q].step = "closed"
    BY OthersStayClosed DEF OpenFile, At
  <1>3. Signed'
    BY <1>1, <1>2 DEF Signed, At
  <1> QED  BY <1>3, SameLog DEF LogStep, OpenFile

LEMMA SyncDirectoryLogs ==
    ASSUME IInv, Signed, FileAssumption, NEW p \in Process, SyncDirectory(p)
    PROVE  LogStep
  <1>1. writer'[p].step \in {"truncate", "ready"}
    BY DEF SyncDirectory, Goto, AfterOpen, IInv, TypeOK, Writers
  <1>2. \A q \in Process \ {p} : writer'[q].step = "closed"
    BY OthersStayClosed DEF SyncDirectory, At
  <1>3. Signed'
    BY <1>1, <1>2 DEF Signed, At
  <1> QED  BY <1>3, SameLog DEF LogStep, SyncDirectory

\* What is cut off was no event.
LEMMA TruncateTailLogs ==
    ASSUME IInv, Signed, FileAssumption, NEW p \in Process, TruncateTail(p)
    PROVE  LogStep
  <1>1. writer'[p].step = "syncTail" /\ \A q \in Process \ {p} : writer'[q].step = "closed"
    BY OthersStayClosed DEF TruncateTail, Goto, At, IInv, TypeOK, Writers
  <1>2. Signed'
    BY <1>1 DEF Signed, At
  <1>3. file \in Frames /\ Readable(file) /\ writer[p].events = Events(file)
    BY AckedInFile DEF TruncateTail, IInv, Knows, Counted, At
  <1>4. file' = Events(file)
    <2>1. file' = SubSeq(file, 1, Len(Events(file)))
      BY <1>3 DEF TruncateTail
    <2>2. CASE TornTail(file)
      BY <1>3, <2>1, <2>2, EventsOf DEF Events, Front
    <2>3. CASE ~TornTail(file)
      BY <1>3, <2>1, <2>3, SubSeqFull DEF Events, Frames
    <2> QED  BY <2>2, <2>3
  <1>5. Events(file') = Events(file)
    BY <1>3, <1>4, EventsReadable DEF Events
  <1>6. UNCHANGED Log!vars
    BY <1>5 DEF TruncateTail, Log!vars, Events, TornTail
  <1> QED  BY <1>2, <1>6 DEF LogStep

LEMMA SyncTailLogs ==
    ASSUME IInv, Signed, FileAssumption, NEW p \in Process, SyncTail(p)
    PROVE  LogStep
  <1>1. writer'[p].step = "ready" /\ \A q \in Process \ {p} : writer'[q].step = "closed"
    BY OthersStayClosed DEF SyncTail, Goto, At, IInv, TypeOK, Writers
  <1>2. Signed'
    BY <1>1 DEF Signed, At
  <1> QED  BY <1>2, SameLog DEF LogStep, SyncTail

\* A frame that is not complete is no event.
LEMMA WriteSomeLogs ==
    ASSUME IInv, Signed, FileAssumption, NEW p \in Process, WriteSome(p)
    PROVE  LogStep
  <1> DEFINE f == NextFrame(p)
  <1>1. /\ file \in Frames /\ Readable(file) /\ ~TornTail(file) /\ writer[p].events = file
    BY AckedInFile DEF WriteSome, At, IInv, Knows, Counted, Events
  <1>2. f \in Frame /\ ~f.whole /\ f.by = p
    BY <1>1, EventsOf DEF NextFrame, Frame
  <1>3. file' = Append(file, f)
    BY DEF WriteSome
  <1> HIDE DEF f
  <1>4. /\ Len(file') = Len(file) + 1 /\ file'[Len(file) + 1] = f
        /\ Events(file') = file
    BY <1>1, <1>2, <1>3, AppendTorn
  <1>5. writer'[p].step = "writing" /\ \A q \in Process \ {p} : writer'[q].step = "closed"
    BY OthersStayClosed DEF WriteSome, Goto, At, IInv, TypeOK, Writers
  <1>6. Signed'
    BY <1>2, <1>4, <1>5 DEF Signed, At
  <1>7. Events(file') = Events(file)
    BY <1>1, <1>4 DEF Events
  <1>8. UNCHANGED Log!vars
    BY <1>7 DEF WriteSome, Log!vars, Events, TornTail
  <1> QED  BY <1>6, <1>8 DEF LogStep

\* The frame becomes an event when it is complete.
LEMMA WriteRestLogs ==
    ASSUME IInv, Signed, FileAssumption, NEW p \in Process, WriteRest(p)
    PROVE  LogStep
  <1>1. /\ file \in Frames /\ Readable(file) /\ TornTail(file)
        /\ file[Len(file)].sequence = Len(file) /\ file[Len(file)].by = p /\ lock = p
    BY AckedInFile DEF WriteRest, At, IInv, Knows, Excluded, Signed
  <1>2. writer'[p].step = "syncing" /\ \A q \in Process \ {p} : writer'[q].step = "closed"
    BY OthersStayClosed DEF WriteRest, Goto, At, IInv, TypeOK, Writers
  <1>3. Signed'
    BY <1>2 DEF Signed, At
  <1>4. file' = [file EXCEPT ![Len(file)].whole = TRUE]
    BY DEF WriteRest
  <1>5. /\ file' \in Frames /\ file' # <<>> /\ ~TornTail(file')
        /\ SubSeq(file', 1, Len(file') - 1) = Events(file)
    BY <1>1, <1>4, CompleteTorn
  <1>6. Len(file) \in Nat /\ Len(file) > 0
    BY <1>1, EventsOf
  <1>7. Len(file') = Len(file)
    BY <1>1, <1>4, <1>6 DEF Frames
  <1>8. file'[Len(file')].by = p /\ file'[Len(file')].sequence = Len(file')
    <2>1. Len(file) \in 1..Len(file) /\ file[Len(file)] \in Frame
      BY <1>1, <1>6, ElementOfSeq DEF Frames
    <2>2. Len(file) \in DOMAIN file
      BY <1>1, <2>1 DEF Frames
    <2>3. file'[Len(file)] = [file[Len(file)] EXCEPT !.whole = TRUE]
      BY <1>4, <2>2
    <2> QED  BY <1>1, <1>7, <2>1, <2>3 DEF Frame
  <1>9. Events(file') = file'
    BY <1>5 DEF Events
  <1>10. Log!Extend(p)
    BY <1>1, <1>5, <1>8, <1>9 DEF WriteRest, Log!Extend, Log!Front, Log!Last, Events, TornTail, Front, Last
  <1> QED  BY <1>3, <1>10 DEF LogStep, Log!Next

\* What the history keeps is the log: it is never longer than what its writer has.
LEMMA SyncFrameLogs ==
    ASSUME IInv, Signed, FileAssumption, NEW p \in Process, SyncFrame(p)
    PROVE  LogStep
  <1>1. /\ file \in Frames /\ file # <<>> /\ ~TornTail(file) /\ lock = p
        /\ writer[p].events = SubSeq(file, 1, Len(file) - 1)
    BY AckedInFile DEF SyncFrame, At, IInv, Knows, Excluded
  <1>2. Append(writer[p].events, Last(file)) = file
    BY <1>1, FrontAndLast
  <1>3. writer'[p].step = "ready" /\ \A q \in Process \ {p} : writer'[q].step = "closed"
    BY OthersStayClosed DEF SyncFrame, Acknowledge, At, IInv, TypeOK
  <1>4. Signed'
    BY <1>3 DEF Signed, At
  <1>5. acked' = file
    <2>1. acked' = IF Len(file) > Len(acked) THEN file ELSE acked
      BY <1>2 DEF SyncFrame, Acknowledge
    <2>2. Begins(acked, file) /\ acked \in Frames /\ Len(acked) \in Nat /\ Len(file) \in Nat
      BY <1>1, AckedInFile, EventsOf
    <2>3. CASE Len(file) > Len(acked)
      BY <2>1, <2>3
    <2>4. CASE ~(Len(file) > Len(acked))
      <3>1. Len(acked) = Len(file) /\ \A n \in 1..Len(acked) : acked[n] = file[n]
        BY <2>2, <2>4 DEF Begins
      <3>2. acked = file
        BY <1>1, <2>2, <3>1, SeqEqual DEF Frames
      <3> QED  BY <2>1, <3>2
    <2> QED  BY <2>3, <2>4
  <1>6. Log!Acknowledge(p)
    BY <1>1, <1>5 DEF SyncFrame, Log!Acknowledge, Events, TornTail
  <1> QED  BY <1>4, <1>6 DEF LogStep, Log!Next

LEMMA AppendFailsLogs ==
    ASSUME IInv, Signed, FileAssumption, NEW p \in Process, AppendFails(p)
    PROVE  LogStep
  <1>1. writer'[p].step = "poisoned" /\ \A q \in Process \ {p} : writer'[q].step = "closed"
    BY OthersStayClosed DEF AppendFails, AfterFailure, Goto, At, IInv, TypeOK, Writers
  <1>2. Signed'
    BY <1>1 DEF Signed, At
  <1> QED  BY <1>2, SameLog DEF LogStep, AppendFails

\* Who leaves the name to nobody has acknowledged nothing, nor has anybody before.
LEMMA CloseLogs ==
    ASSUME IInv, Signed, FileAssumption, NEW p \in Process, Close(p)
    PROVE  LogStep
  <1>1. lock = p /\ lock' = None /\ writer'[p].step = "closed"
        /\ \A q \in Process \ {p} : writer'[q].step = "closed"
    BY OthersStayClosed DEF Close, Closed, At, IInv, Excluded, TypeOK
  <1>2. Signed'
    BY <1>1 DEF Signed, At
  <1>3. At(p, "syncDir") => interrupted \/ acked = <<>>
    BY DEF Signed, IInv, Created
  <1>4. interrupted' \in {interrupted, interrupted \/ acked = <<>>}
    <2>1. interrupted' = (interrupted \/ At(p, "syncDir")) /\ interrupted \in BOOLEAN
      BY DEF Close, IInv, TypeOK
    <2>2. CASE At(p, "syncDir") /\ ~interrupted
      BY <1>3, <2>1, <2>2
    <2>3. CASE ~At(p, "syncDir") \/ interrupted
      BY <2>1, <2>3
    <2> QED  BY <2>2, <2>3
  <1>5. Log!Leave(p)
    BY <1>1, <1>4 DEF Close, Log!Leave, Events, TornTail
  <1> QED  BY <1>2, <1>5 DEF LogStep, Log!Next

LEMMA WritebackLogs ==
    ASSUME IInv, Signed, FileAssumption, Writeback
    PROVE  LogStep
  BY SameLog DEF Writeback, LogStep, Signed, At

\* The disk has the events that were acknowledged, perhaps more, and no others than the file.
LEMMA PowerLossLogs ==
    ASSUME IInv, Signed, FileAssumption, PowerLoss
    PROVE  LogStep
  <1>1. lock' = None /\ \A q \in Process : writer'[q].step = "closed"
    BY DEF PowerLoss, Closed
  <1>2. Signed'
    BY <1>1 DEF Signed, At
  <1>3. CASE name' = "durable" /\ file' = disk /\ UNCHANGED <<disk, acked, interrupted>>
    <2>1. /\ Begins(acked, Events(disk)) /\ Begins(Events(disk), Events(file))
          /\ disk \in Frames /\ file \in Frames /\ acked \in Frames
      BY AckedInFile DEF IInv, Follows
    <2>2. /\ Events(disk) \in Frames /\ Events(file) \in Frames
          /\ Len(Events(disk)) \in Nat /\ Len(Events(file)) \in Nat /\ Len(acked) \in Nat
      BY <2>1, EventsOf
    <2> DEFINE n == Len(Events(disk))
    <2>3. n \in Len(acked) .. Len(Events(file)) /\ n \in 0 .. Len(Events(file))
      BY <2>1, <2>2 DEF Begins
    <2>4. SubSeq(Events(file), 1, n) = Events(disk)
      <3>1. /\ SubSeq(Events(file), 1, n) \in Frames
            /\ Len(SubSeq(Events(file), 1, n)) = n
            /\ \A k \in 1..n : SubSeq(Events(file), 1, n)[k] = Events(file)[k]
        BY <2>2, <2>3, FirstFrames
      <3>2. \A k \in 1..n : Events(disk)[k] = Events(file)[k]
        BY <2>1 DEF Begins
      <3> QED  BY <2>2, <3>1, <3>2, SeqEqual DEF Frames
    <2>5. Events(file') = SubSeq(Events(file), 1, n)
      BY <1>3, <2>4
    <2> HIDE DEF n
    <2>6. Log!Crash
      BY <1>1, <1>3, <2>3, <2>5 DEF Log!Crash
    <2> QED  BY <1>2, <2>6 DEF LogStep, Log!Next
  <1>4. CASE name = "cached" /\ file' = <<>> /\ acked' = <<>> /\ interrupted' = FALSE
    <2>1. acked = <<>> \/ interrupted
      BY <1>4 DEF IInv, Created
    <2>2. Events(file') = <<>>
      BY <1>4, EmptyFrames
    <2>3. Log!Vanish
      BY <1>1, <1>4, <2>1, <2>2 DEF Log!Vanish
    <2> QED  BY <1>2, <2>3 DEF LogStep, Log!Next
  <1> QED  BY <1>3, <1>4 DEF PowerLoss

LEMMA LogSteps ==
    ASSUME IInv, Signed, FileAssumption, [Next]_vars
    PROVE  LogStep
  <1>1. CASE UNCHANGED vars
    BY <1>1, SameLog DEF vars, LogStep, Signed, At
  <1>2. CASE Next
    BY <1>2, AcquireLockLogs, ReadEventsLogs, OpenFileLogs, SyncDirectoryLogs, TruncateTailLogs, SyncTailLogs,
       WriteSomeLogs, WriteRestLogs, SyncFrameLogs, AppendFailsLogs, CloseLogs, WritebackLogs, PowerLossLogs
    DEF Next
  <1> QED  BY <1>1, <1>2

\* The file of a journal, whatever happens to the processes that write it and to the host, is a
\* log that one process at a time extends and that never loses what Append acknowledged, except
\* with a name that the process which created the file did not get to sync.
THEOREM FileKeepsLog == Spec => KeepsLog
  <1>1. Init => Log!Init /\ Signed
    BY EmptyFrames DEF Init, Log!Init, Signed, At, Closed
  <1>2. IInv /\ Signed /\ [Next]_vars => LogStep
    BY LogSteps, FileAssumption
  <1>3. LogStep => Signed' /\ [Log!Next]_Log!vars
    BY DEF LogStep
  <1> QED  BY <1>1, <1>2, <1>3, FileInvariantHolds, PTL DEF Spec, KeepsLog, Log!Spec
=============================================================================
