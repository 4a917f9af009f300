------------------------- MODULE SnapshotMasterProofs -------------------------
(***************************************************************************)
(* The example master accepts no mixture of captures, for every number of  *)
(* controls and whatever the peripheral does.                              *)
(*                                                                         *)
(* The assembler alone does not ensure it: it takes every state packet that*)
(* fills an empty place.  The loop counter does.  A complete snapshot takes*)
(* as many turns as the loop has, so its BEGIN was the first packet of the *)
(* request and no later turn was spent on anything else; then the packets  *)
(* stood one behind the other in the queue, where snapshots stand whole.   *)
(* An assembly that has spent one turn more than it has places filled can  *)
(* no longer complete, and the proof follows the two cases: InStep and     *)
(* TooLate.                                                                *)
(*                                                                         *)
(* The log decoder has no count of turns, but it keeps at a BEGIN what it  *)
(* has seen.  Until a second BEGIN it holds what the assembler holds, and  *)
(* behind a second BEGIN the first place comes again, where it gives up:   *)
(* Together and Doubled.  So it completes nothing that the master does not.*)
(*                                                                         *)
(* How old a snapshot accepted may be follows from what is outstanding when*)
(* it is: the packets queued and the answers still due.  Backlog bounds    *)
(* them, as a request takes one frame more than an answer has packets, and *)
(* Aged says that an old snapshot has that many of them behind it.         *)
(***************************************************************************)
EXTENDS SnapshotMaster, SequenceTheorems, FiniteSetTheorems, TLAPS

N == ControlCount

CaptureNumbers == 0 .. Captures - 1

Candidates ==
  [active : BOOLEAN, sequence : Int, encoder : [Controls -> 0 .. Changed],
   buttons : 0 .. Changed]

PacketSet ==
  [type : {"Begin", "ParamState", "ButtonState", "End"}, index : Int,
   capture : 0 .. Changed, sequence : Int]

\* The constants are numbers, and NoCapture is none of the captures.
LEMMA Numbers ==
  /\ N \in Nat /\ N > 0
  /\ Captures \in Nat /\ Captures > 0
  /\ SequenceModulus \in Nat /\ SequenceModulus > 0
  /\ NoCapture \in 0 .. Changed /\ NoCapture = Captures /\ Changed = Captures + 1
  /\ MaxSnapshotPackets = N + 3
  /\ Controls = 0 .. N - 1
BY MasterAssumption DEF N, NoCapture, Changed, MaxSnapshotPackets, Controls

\* An assembler that was reset has a candidate's shape and is not active.
LEMMA ResetIsCandidate ==
  Reset \in Candidates /\ ~Reset.active
BY Numbers DEF Reset, Candidates

-----------------------------------------------------------------------------
(* Snapshots in the queue *)

\* Two sequences one behind the other, by the places of each.
LEMMA Concat ==
  ASSUME NEW s \in Seq(PacketSet), NEW t \in Seq(PacketSet)
  PROVE  /\ s \o t \in Seq(PacketSet)
         /\ Len(s) \in Nat /\ Len(t) \in Nat
         /\ Len(s \o t) = Len(s) + Len(t)
         /\ \A i \in 1 .. Len(s) : (s \o t)[i] = s[i]
         /\ \A i \in 1 .. Len(t) : (s \o t)[Len(s) + i] = t[i]
<1> DEFINE m == Len(s)
           n == Len(t)
<1>1. /\ s \o t \in Seq(PacketSet)
      /\ Len(s \o t) = m + n
      /\ \A i \in 1 .. m + n : (s \o t)[i] = IF i <= m THEN s[i] ELSE t[i - m]
  BY ConcatProperties
<1>2. m \in Nat /\ n \in Nat
  BY LenProperties
<1> HIDE DEF m, n
<1>3. ASSUME NEW i \in 1 .. n
      PROVE  (s \o t)[m + i] = t[i]
  <2>1. m + i \in 1 .. m + n /\ ~(m + i <= m) /\ (m + i) - m = i
    BY <1>2
  <2> QED
    BY <1>1, <2>1
<1>4. ASSUME NEW i \in 1 .. m
      PROVE  (s \o t)[i] = s[i]
  <2>1. i \in 1 .. m + n /\ i <= m
    BY <1>2
  <2> QED
    BY <1>1, <2>1
<1> QED
  BY <1>1, <1>2, <1>3, <1>4 DEF m, n

\* The packet at each place of a snapshot.
LEMMA SnapshotParts ==
  ASSUME NEW capture \in CaptureNumbers, NEW sequence \in Int
  PROVE  /\ SnapshotPackets(capture, sequence) \in Seq(PacketSet)
         /\ Len(SnapshotPackets(capture, sequence)) = N + 3
         /\ SnapshotPackets(capture, sequence)[1] = Packet("Begin", N, NoCapture, sequence)
         /\ \A c \in Controls :
              SnapshotPackets(capture, sequence)[c + 2] = Packet("ParamState", c, capture, sequence)
         /\ SnapshotPackets(capture, sequence)[N + 2] = Packet("ButtonState", 0, capture, sequence)
         /\ SnapshotPackets(capture, sequence)[N + 3] = Packet("End", N, NoCapture, sequence)
<1> DEFINE first  == <<Packet("Begin", N, NoCapture, sequence)>>
           middle == [n \in 1 .. N |-> Packet("ParamState", n - 1, capture, sequence)]
           last   == <<Packet("ButtonState", 0, capture, sequence),
                       Packet("End", N, NoCapture, sequence)>>
           head   == first \o middle
           whole  == head \o last
<1>1. capture \in 0 .. Changed /\ N \in Nat
  BY Numbers DEF CaptureNumbers
<1>2. /\ Packet("Begin", N, NoCapture, sequence) \in PacketSet
      /\ Packet("ButtonState", 0, capture, sequence) \in PacketSet
      /\ Packet("End", N, NoCapture, sequence) \in PacketSet
      /\ \A n \in 1 .. N : Packet("ParamState", n - 1, capture, sequence) \in PacketSet
  BY <1>1, Numbers DEF Packet, PacketSet
<1>3. first \in Seq(PacketSet) /\ Len(first) = 1
      /\ first[1] = Packet("Begin", N, NoCapture, sequence)
  BY <1>2
<1>4. last \in Seq(PacketSet) /\ Len(last) = 2
      /\ last[1] = Packet("ButtonState", 0, capture, sequence)
      /\ last[2] = Packet("End", N, NoCapture, sequence)
  BY <1>2
<1>5. middle \in Seq(PacketSet) /\ Len(middle) = N
      /\ \A n \in 1 .. N : middle[n] = Packet("ParamState", n - 1, capture, sequence)
  <2>1. middle \in [1 .. N -> PacketSet]
    BY <1>2
  <2> QED
    BY <2>1, Numbers, IsASeq, LenProperties
<1>6. whole = SnapshotPackets(capture, sequence)
  BY DEF SnapshotPackets, N
<1> HIDE DEF first, middle, last
<1>7. /\ head \in Seq(PacketSet) /\ Len(head) = N + 1
      /\ head[1] = first[1]
      /\ \A n \in 1 .. N : head[1 + n] = middle[n]
  <2>1. /\ head \in Seq(PacketSet) /\ Len(head) = Len(first) + Len(middle)
        /\ \A i \in 1 .. Len(first) : head[i] = first[i]
        /\ \A n \in 1 .. Len(middle) : head[Len(first) + n] = middle[n]
    BY <1>3, <1>5, Concat
  <2> QED
    BY <1>1, <1>3, <1>5, <2>1
<1> HIDE DEF head
<1>8. /\ whole \in Seq(PacketSet) /\ Len(whole) = N + 3
      /\ \A i \in 1 .. N + 1 : whole[i] = head[i]
      /\ whole[N + 2] = last[1] /\ whole[N + 3] = last[2]
  <2>1. /\ whole \in Seq(PacketSet) /\ Len(whole) = Len(head) + Len(last)
        /\ \A i \in 1 .. Len(head) : whole[i] = head[i]
        /\ \A i \in 1 .. Len(last) : whole[Len(head) + i] = last[i]
    BY <1>4, <1>7, Concat
  <2>2. (N + 1) + 2 = N + 3 /\ (N + 1) + 1 = N + 2 /\ 1 \in 1 .. 2 /\ 2 \in 1 .. 2
    BY <1>1
  <2> QED
    BY <1>4, <1>7, <2>1, <2>2
<1> HIDE DEF whole
<1>9. whole[1] = Packet("Begin", N, NoCapture, sequence)
  <2>1. 1 \in 1 .. N + 1
    BY <1>1
  <2> QED
    BY <1>3, <1>7, <1>8, <2>1
<1>10. ASSUME NEW c \in Controls
       PROVE  whole[c + 2] = Packet("ParamState", c, capture, sequence)
  <2>1. /\ c + 2 \in 1 .. N + 1 /\ c + 1 \in 1 .. N
        /\ 1 + (c + 1) = c + 2 /\ (c + 1) - 1 = c
    BY Numbers
  <2>2. whole[c + 2] = middle[c + 1]
    BY <1>7, <1>8, <2>1
  <2> QED
    BY <1>5, <2>1, <2>2
<1> QED
  BY <1>4, <1>6, <1>8, <1>9, <1>10

\* A packet of a snapshot is BEGIN only in the first place.
LEMMA BeginIsFirst ==
  ASSUME NEW capture \in CaptureNumbers, NEW sequence \in Int, NEW i \in 2 .. N + 3
  PROVE  SnapshotPackets(capture, sequence)[i].type # "Begin"
<1>1. CASE i <= N + 1
  <2>1. i - 2 \in Controls /\ (i - 2) + 2 = i
    BY <1>1, Numbers
  <2>2. SnapshotPackets(capture, sequence)[(i - 2) + 2] = Packet("ParamState", i - 2, capture, sequence)
    BY <2>1, SnapshotParts
  <2> QED
    BY <2>1, <2>2 DEF Packet
<1>2. CASE i = N + 2
  <2>1. SnapshotPackets(capture, sequence)[N + 2] = Packet("ButtonState", 0, capture, sequence)
    BY SnapshotParts
  <2> QED
    BY <1>2, <2>1 DEF Packet
<1>3. CASE i = N + 3
  <2>1. SnapshotPackets(capture, sequence)[N + 3] = Packet("End", N, NoCapture, sequence)
    BY SnapshotParts
  <2> QED
    BY <1>3, <2>1 DEF Packet
<1> QED
  BY <1>1, <1>2, <1>3, Numbers

\* queue continues, from its place "at" on, as a snapshot does from its place
\* "from" on.
Continues(queue, at, capture, sequence, from) ==
  \A i \in from .. N + 3 :
    /\ at + (i - from) <= Len(queue)
    /\ queue[at + (i - from)] = SnapshotPackets(capture, sequence)[i]

WholeAt(queue, at) ==
  \E capture \in CaptureNumbers, sequence \in Int :
    Continues(queue, at, capture, sequence, 1)

\* Behind every BEGIN stands the rest of its snapshot.
QueueOK(queue) ==
  /\ queue \in Seq(PacketSet)
  /\ \A at \in 1 .. Len(queue) : queue[at].type = "Begin" => WholeAt(queue, at)

\* What stays in place when packets come behind.
LEMMA ContinuesBehind ==
  ASSUME NEW q \in Seq(PacketSet), NEW r \in Seq(PacketSet), NEW at \in Nat \ {0},
         NEW capture \in CaptureNumbers, NEW sequence \in Int, NEW from \in 1 .. N + 3,
         Continues(q, at, capture, sequence, from)
  PROVE  Continues(q \o r, at, capture, sequence, from)
<1> SUFFICES ASSUME NEW i \in from .. N + 3
             PROVE  /\ at + (i - from) <= Len(q \o r)
                    /\ (q \o r)[at + (i - from)] = SnapshotPackets(capture, sequence)[i]
  BY DEF Continues
<1> DEFINE p == at + (i - from)
<1>1. p <= Len(q) /\ q[p] = SnapshotPackets(capture, sequence)[i]
  BY DEF Continues
<1>2. p \in Nat /\ p >= 1 /\ Len(q) \in Nat /\ Len(r) \in Nat
  BY Numbers, LenProperties
<1> HIDE DEF p
<1>3. p \in 1 .. Len(q) + Len(r)
  BY <1>1, <1>2
<1>4. Len(q \o r) = Len(q) + Len(r) /\ (q \o r)[p] = q[p]
  BY <1>1, <1>3, ConcatProperties
<1> QED
  BY <1>1, <1>2, <1>4 DEF p

\* A snapshot queued behind what was kept.
LEMMA QueueWithSnapshot ==
  ASSUME NEW q, QueueOK(q), NEW capture \in CaptureNumbers, NEW sequence \in Int
  PROVE  QueueOK(q \o SnapshotPackets(capture, sequence))
<1> DEFINE whole == SnapshotPackets(capture, sequence)
           both  == q \o whole
<1>1. /\ whole \in Seq(PacketSet) /\ Len(whole) = N + 3 /\ q \in Seq(PacketSet)
      /\ Len(q) \in Nat
  BY SnapshotParts, LenProperties DEF QueueOK
<1>2. /\ both \in Seq(PacketSet) /\ Len(both) = Len(q) + (N + 3)
      /\ \A i \in 1 .. Len(q) : both[i] = q[i]
      /\ \A i \in 1 .. N + 3 : both[Len(q) + i] = whole[i]
  <2>1. /\ both \in Seq(PacketSet) /\ Len(both) = Len(q) + Len(whole)
        /\ \A i \in 1 .. Len(q) : both[i] = q[i]
        /\ \A i \in 1 .. Len(whole) : both[Len(q) + i] = whole[i]
    BY <1>1, Concat
  <2> QED
    BY <1>1, <2>1
<1> HIDE DEF whole, both
<1>3. ASSUME NEW at \in 1 .. Len(both), both[at].type = "Begin"
      PROVE  WholeAt(both, at)
  <2>1. CASE at <= Len(q)
    <3>1. at \in 1 .. Len(q) /\ at \in Nat \ {0} /\ q[at].type = "Begin"
      BY <1>1, <1>2, <1>3, <2>1
    <3>2. PICK c \in CaptureNumbers, s \in Int : Continues(q, at, c, s, 1)
      BY <3>1 DEF QueueOK, WholeAt
    <3>3. Continues(q \o whole, at, c, s, 1)
      <4>1. 1 \in 1 .. N + 3
        BY Numbers
      <4> QED
        BY <1>1, <3>1, <3>2, <4>1, ContinuesBehind
    <3> QED
      BY <3>3 DEF WholeAt, both
  <2>2. CASE at > Len(q)
    <3>1. at - Len(q) \in 1 .. N + 3 /\ both[at] = whole[at - Len(q)]
      <4>1. at - Len(q) \in 1 .. N + 3 /\ Len(q) + (at - Len(q)) = at
        BY <1>1, <1>2, <2>2, Numbers
      <4> QED
        BY <1>2, <4>1
    <3>2. at - Len(q) = 1
      <4>1. at - Len(q) \notin 2 .. N + 3
        BY <1>3, <3>1, BeginIsFirst DEF whole
      <4> QED
        BY <3>1, <4>1, Numbers
    <3>3. ASSUME NEW i \in 1 .. N + 3
          PROVE  at + (i - 1) <= Len(both) /\ both[at + (i - 1)] = whole[i]
      <4>1. at + (i - 1) = Len(q) + i /\ Len(q) + i <= Len(q) + (N + 3)
        BY <1>1, <3>1, <3>2, Numbers
      <4> QED
        BY <1>2, <4>1
    <3> QED
      BY <3>3 DEF WholeAt, Continues, whole
  <2> QED
    BY <1>1, <1>2, <2>1, <2>2
<1> QED
  BY <1>2, <1>3 DEF QueueOK, both, whole

StartsWithBegin(queue) == Len(queue) >= 1 /\ queue[1].type = "Begin"

\* There is no BEGIN in an empty queue.
LEMMA EmptyQueueOK == QueueOK(<<>>)
<1>1. <<>> \in Seq(PacketSet) /\ Len(<<>>) = 0
  BY EmptySeq
<1> QED
  BY <1>1 DEF QueueOK

\* A snapshot alone.
LEMMA QueueOfSnapshot ==
  ASSUME NEW capture \in CaptureNumbers, NEW sequence \in Int
  PROVE  /\ QueueOK(<<>> \o SnapshotPackets(capture, sequence))
         /\ StartsWithBegin(<<>> \o SnapshotPackets(capture, sequence))
<1>1. QueueOK(<<>> \o SnapshotPackets(capture, sequence))
  BY EmptyQueueOK, QueueWithSnapshot
<1>2. <<>> \o SnapshotPackets(capture, sequence) = SnapshotPackets(capture, sequence)
  BY SnapshotParts, ConcatEmptySeq
<1>3. SnapshotPackets(capture, sequence)[1].type = "Begin"
  <2>1. SnapshotPackets(capture, sequence)[1] = Packet("Begin", N, NoCapture, sequence)
    BY SnapshotParts
  <2> QED
    BY <2>1 DEF Packet
<1> QED
  BY <1>1, <1>2, <1>3, SnapshotParts, Numbers DEF StartsWithBegin

\* A change reported behind the queue.
LEMMA QueueWithReport ==
  ASSUME NEW q, QueueOK(q), NEW packet \in PacketSet, packet.type # "Begin"
  PROVE  QueueOK(Append(q, packet))
<1> DEFINE longer == Append(q, packet)
<1>1. q \in Seq(PacketSet) /\ <<packet>> \in Seq(PacketSet) /\ Len(q) \in Nat
  BY LenProperties DEF QueueOK
<1>2. /\ longer \in Seq(PacketSet) /\ Len(longer) = Len(q) + 1
      /\ \A i \in 1 .. Len(q) : longer[i] = q[i]
      /\ longer[Len(q) + 1] = packet
      /\ longer = q \o <<packet>>
  BY <1>1, AppendProperties, AppendIsConcat
<1> HIDE DEF longer
<1>3. ASSUME NEW at \in 1 .. Len(longer), longer[at].type = "Begin"
      PROVE  WholeAt(longer, at)
  <2>1. at \in 1 .. Len(q) /\ at \in Nat \ {0} /\ q[at].type = "Begin"
    BY <1>1, <1>2, <1>3
  <2>2. PICK c \in CaptureNumbers, s \in Int : Continues(q, at, c, s, 1)
    BY <2>1 DEF QueueOK, WholeAt
  <2>3. 1 \in 1 .. N + 3
    BY Numbers
  <2>4. Continues(q \o <<packet>>, at, c, s, 1)
    BY <1>1, <2>1, <2>2, <2>3, ContinuesBehind
  <2>5. Continues(longer, at, c, s, 1)
    BY <1>2, <2>4
  <2> QED
    BY <2>5 DEF WholeAt
<1> QED
  BY <1>2, <1>3 DEF QueueOK, longer

\* What stays in place when the first packet is taken.
LEMMA ContinuesTail ==
  ASSUME NEW q \in Seq(PacketSet), q # <<>>, NEW at \in Nat \ {0},
         NEW capture \in CaptureNumbers, NEW sequence \in Int, NEW from \in Int,
         Continues(q, at + 1, capture, sequence, from), from >= 1
  PROVE  Continues(Tail(q), at, capture, sequence, from)
<1>1. /\ Len(Tail(q)) = Len(q) - 1 /\ Len(q) \in Nat
      /\ \A i \in 1 .. Len(Tail(q)) : Tail(q)[i] = q[i + 1]
  BY HeadTailProperties, LenProperties
<1> SUFFICES ASSUME NEW i \in from .. N + 3
             PROVE  /\ at + (i - from) <= Len(Tail(q))
                    /\ Tail(q)[at + (i - from)] = SnapshotPackets(capture, sequence)[i]
  BY DEF Continues
<1> DEFINE p == at + (i - from)
<1>2. (at + 1) + (i - from) = p + 1 /\ p \in Nat /\ p >= 1
  BY Numbers
<1>3. p + 1 <= Len(q) /\ q[p + 1] = SnapshotPackets(capture, sequence)[i]
  BY <1>2 DEF Continues
<1> HIDE DEF p
<1>4. p \in 1 .. Len(Tail(q))
  BY <1>1, <1>2, <1>3
<1> QED
  BY <1>1, <1>3, <1>4 DEF p

\* The queue without its first packet.
LEMMA QueueTail ==
  ASSUME NEW q, QueueOK(q), q # <<>>
  PROVE  QueueOK(Tail(q))
<1>1. /\ q \in Seq(PacketSet) /\ Tail(q) \in Seq(PacketSet)
      /\ Len(Tail(q)) = Len(q) - 1 /\ Len(q) \in Nat
      /\ \A i \in 1 .. Len(Tail(q)) : Tail(q)[i] = q[i + 1]
  BY HeadTailProperties, LenProperties DEF QueueOK
<1>2. ASSUME NEW at \in 1 .. Len(Tail(q)), Tail(q)[at].type = "Begin"
      PROVE  WholeAt(Tail(q), at)
  <2>1. at + 1 \in 1 .. Len(q) /\ at \in Nat \ {0} /\ q[at + 1].type = "Begin"
    BY <1>1, <1>2
  <2>2. PICK c \in CaptureNumbers, s \in Int : Continues(q, at + 1, c, s, 1)
    BY <2>1 DEF QueueOK, WholeAt
  <2>3. Continues(Tail(q), at, c, s, 1)
    <3>1. 1 \in Int /\ 1 >= 1
      OBVIOUS
    <3> QED
      BY <1>1, <2>1, <2>2, <3>1, ContinuesTail
  <2> QED
    BY <2>3 DEF WholeAt
<1> QED
  BY <1>1, <1>2 DEF QueueOK

\* A frame that takes a packet or none.
LEMMA PoppedOK ==
  ASSUME NEW q, QueueOK(q)
  PROVE  QueueOK(Popped(q))
BY EmptyQueueOK, QueueTail DEF Popped

-----------------------------------------------------------------------------
(* The assembly *)

\* The places filled: those of the encoders, and N for the buttons.
Filled(candidate) ==
  {c \in Controls : candidate.encoder[c] # NoCapture}
    \cup {n \in {N} : candidate.buttons # NoCapture}

\* More turns than the places explain: the loop ends before the snapshot does.
TooLate(candidate, turns) == Cardinality(Filled(candidate)) + 2 <= turns

\* BEGIN and the first k places of one capture, and nothing else was read.
HasFirst(candidate, k, capture) ==
  /\ \A c \in Controls : candidate.encoder[c] = IF c < k THEN capture ELSE NoCapture
  /\ candidate.buttons = IF k = N + 1 THEN capture ELSE NoCapture

\* The next packet is the next of that snapshot, unless the queue was thrown away
\* and begins anew.
InStep(candidate, turns, queue) ==
  \E capture \in CaptureNumbers, sequence \in Int, k \in 0 .. N + 1 :
    /\ turns = k + 1
    /\ HasFirst(candidate, k, capture)
    /\ Continues(queue, 1, capture, sequence, k + 2) \/ StartsWithBegin(queue)

AssemblyOK(candidate, turns, queue) ==
  candidate.active => TooLate(candidate, turns) \/ InStep(candidate, turns, queue)

\* The places are finitely many, and all of them are N + 1.
LEMMA FilledIsFinite ==
  ASSUME NEW candidate
  PROVE  /\ IsFiniteSet(Filled(candidate))
         /\ Cardinality(Filled(candidate)) \in Nat
         /\ AllSeen(candidate) => Cardinality(Filled(candidate)) = N + 1
<1>1. IsFiniteSet(0 .. N) /\ Cardinality(0 .. N) = N + 1
  BY FS_Interval, Numbers
<1>2. Filled(candidate) \in SUBSET (0 .. N)
  BY Numbers DEF Filled
<1>3. AllSeen(candidate) => Filled(candidate) = 0 .. N
  <2> SUFFICES ASSUME AllSeen(candidate), NEW n \in 0 .. N
               PROVE  n \in Filled(candidate)
    BY <1>2
  <2>1. n \in Controls \/ n = N
    BY Numbers
  <2> QED
    BY <2>1 DEF AllSeen, Filled
<1>4. IsFiniteSet(Filled(candidate))
  BY <1>1, <1>2, FS_Subset
<1> QED
  BY <1>1, <1>3, <1>4, FS_CardinalityType

\* One place more at the most, one turn more: too late stays too late.
LEMMA TooLateStays ==
  ASSUME NEW candidate, NEW next, NEW place, NEW turns \in Nat,
         TooLate(candidate, turns), Filled(next) \subseteq Filled(candidate) \cup {place}
  PROVE  TooLate(next, turns + 1)
<1> DEFINE before == Filled(candidate)
           more   == Filled(candidate) \cup {place}
<1>1. IsFiniteSet(before) /\ Cardinality(before) \in Nat /\ Cardinality(Filled(next)) \in Nat
  BY FilledIsFinite
<1>2. IsFiniteSet(more)
      /\ Cardinality(more) = IF place \in before THEN Cardinality(before) ELSE Cardinality(before) + 1
  BY <1>1, FS_AddElement
<1>3. Cardinality(Filled(next)) <= Cardinality(more)
  BY <1>2, FS_Subset
<1> QED
  BY <1>1, <1>2, <1>3 DEF TooLate

\* What a packet makes of the candidate.
LEMMA ConsumeIsCandidate ==
  ASSUME NEW candidate \in Candidates, NEW packet \in PacketSet \cup {Invalid}
  PROVE  Consume(candidate, packet) \in Candidates
<1>1. Reset \in Candidates
  BY ResetIsCandidate
<1>2. CASE packet = Invalid
  BY <1>1, <1>2 DEF Consume, Invalid, Packet
<1>3. CASE packet \in PacketSet
  <2>1. packet.index \in Int /\ packet.capture \in 0 .. Changed /\ packet.sequence \in Int
    BY <1>3 DEF PacketSet
  <2>2. Begun(packet) \in Candidates
    BY <1>1, <2>1 DEF Begun, Candidates
  <2>3. WithParam(candidate, packet) \in Candidates
    BY <1>1, <2>1 DEF WithParam, Candidates
  <2>4. WithButtons(candidate, packet) \in Candidates
    BY <1>1, <2>1 DEF WithButtons, Candidates
  <2>5. [candidate EXCEPT !.active = FALSE] \in Candidates
    BY DEF Candidates
  <2>6. packet.type \in {"Begin", "ParamState", "ButtonState", "End"}
    BY <1>3 DEF PacketSet
  <2> QED
    BY <1>1, <2>2, <2>3, <2>4, <2>5, <2>6 DEF Consume
<1> QED
  BY <1>2, <1>3

\* After a BEGIN every place is empty, whether the packet was taken or not.
LEMMA BeginEmpties ==
  ASSUME NEW candidate, NEW packet, packet.type = "Begin"
  PROVE  /\ \A c \in Controls : Consume(candidate, packet).encoder[c] = NoCapture
         /\ Consume(candidate, packet).buttons = NoCapture
<1>1. Consume(candidate, packet) = Reset \/ Consume(candidate, packet) = Begun(packet)
  BY DEF Consume
<1>2. /\ \A c \in Controls : Reset.encoder[c] = NoCapture
      /\ Reset.buttons = NoCapture
  BY DEF Reset
<1>3. Begun(packet).encoder = Reset.encoder /\ Begun(packet).buttons = Reset.buttons
  BY DEF Begun, Reset
<1> QED
  BY <1>1, <1>2, <1>3

\* Behind a BEGIN stands the rest of its snapshot.
LEMMA BehindBegin ==
  ASSUME NEW queue, QueueOK(queue), queue # <<>>, Head(queue).type = "Begin"
  PROVE  \E capture \in CaptureNumbers, sequence \in Int :
           /\ Head(queue) = Packet("Begin", N, NoCapture, sequence)
           /\ Continues(Tail(queue), 1, capture, sequence, 2)
<1>1. /\ queue \in Seq(PacketSet) /\ Len(queue) >= 1 /\ Head(queue) = queue[1]
      /\ 1 \in 1 .. Len(queue)
  BY EmptySeq, LenProperties DEF QueueOK
<1>2. PICK capture \in CaptureNumbers, sequence \in Int : Continues(queue, 1, capture, sequence, 1)
  BY <1>1 DEF QueueOK, WholeAt
<1>3. Continues(queue, 1 + 1, capture, sequence, 2)
  <2> SUFFICES ASSUME NEW i \in 2 .. N + 3
               PROVE  /\ 2 + (i - 2) <= Len(queue)
                      /\ queue[2 + (i - 2)] = SnapshotPackets(capture, sequence)[i]
    BY DEF Continues
  <2>1. i \in 1 .. N + 3 /\ 2 + (i - 2) = i /\ 1 + (i - 1) = i
    BY Numbers
  <2> QED
    BY <1>2, <2>1 DEF Continues
<1>4. Continues(Tail(queue), 1, capture, sequence, 2)
  <2>1. 1 \in Nat \ {0} /\ 2 \in Int /\ 2 >= 1
    OBVIOUS
  <2> QED
    BY <1>1, <1>3, <2>1, ContinuesTail
<1>5. Head(queue) = Packet("Begin", N, NoCapture, sequence)
  <2>1. 1 \in 1 .. N + 3 /\ 1 + (1 - 1) = 1
    BY Numbers
  <2>2. queue[1] = SnapshotPackets(capture, sequence)[1]
    BY <1>2, <2>1 DEF Continues
  <2> QED
    BY <1>1, <2>2, SnapshotParts
<1> QED
  BY <1>4, <1>5

\* The first packet of a request: a BEGIN is followed by its snapshot.
LEMMA FirstTurn ==
  ASSUME NEW candidate \in Candidates, NEW queue, QueueOK(queue), queue # <<>>,
         Head(queue).type = "Begin", Consume(candidate, Head(queue)).active
  PROVE  AssemblyOK(Consume(candidate, Head(queue)), 1, Tail(queue))
<1>1. PICK capture \in CaptureNumbers, sequence \in Int :
        Continues(Tail(queue), 1, capture, sequence, 2)
  BY BehindBegin
<1>2. HasFirst(Consume(candidate, Head(queue)), 0, capture)
  <2>1. 0 # N + 1 /\ \A c \in Controls : ~(c < 0)
    BY Numbers
  <2> QED
    BY <2>1, BeginEmpties DEF HasFirst
<1> QED
  <2>1. 0 \in 0 .. N + 1 /\ 1 = 0 + 1 /\ 0 + 2 = 2
    BY Numbers
  <2> QED
    BY <1>1, <1>2, <2>1 DEF AssemblyOK, InStep

\* A BEGIN that is not the first packet comes too late.
LEMMA LateBegin ==
  ASSUME NEW candidate, NEW packet, packet.type = "Begin", NEW turns \in Nat, turns > 0
  PROVE  TooLate(Consume(candidate, packet), turns + 1)
<1>1. Filled(Consume(candidate, packet)) = {}
  BY BeginEmpties DEF Filled
<1> QED
  BY <1>1, FS_EmptySet DEF TooLate


\* What a state packet or an END leaves of a candidate that is too late.
LEMMA LateTurn ==
  ASSUME NEW candidate \in Candidates, NEW packet \in PacketSet, packet.type # "Begin",
         NEW turns \in Nat, TooLate(candidate, turns)
  PROVE  AssemblyOK(Consume(candidate, packet), turns + 1, <<>>)
<1> DEFINE next == Consume(candidate, packet)
<1>1. packet.type \in {"ParamState", "ButtonState", "End"}
  BY DEF PacketSet
<1>2. ASSUME next.active
      PROVE  \E place : Filled(next) \subseteq Filled(candidate) \cup {place}
  <2>1. CASE packet.type = "ParamState"
    <3>1. next = [candidate EXCEPT !.encoder[packet.index] = packet.capture]
      BY <1>2, <2>1, ResetIsCandidate DEF Consume, WithParam
    <3>2. /\ next.buttons = candidate.buttons
          /\ \A c \in Controls : c # packet.index => next.encoder[c] = candidate.encoder[c]
      BY <3>1 DEF Candidates
    <3>3. Filled(next) \subseteq Filled(candidate) \cup {packet.index}
      BY <3>2 DEF Filled
    <3> QED
      BY <3>3
  <2>2. CASE packet.type = "ButtonState"
    <3>1. next = [candidate EXCEPT !.buttons = packet.capture]
      BY <1>2, <2>2, ResetIsCandidate DEF Consume, WithButtons
    <3>2. next.encoder = candidate.encoder
      BY <3>1 DEF Candidates
    <3>3. Filled(next) \subseteq Filled(candidate) \cup {N}
      BY <3>2 DEF Filled
    <3> QED
      BY <3>3
  <2>3. CASE packet.type = "End"
    BY <1>2, <2>3 DEF Consume, Candidates
  <2> QED
    BY <1>1, <2>1, <2>2, <2>3
<1> HIDE DEF next
<1>3. ASSUME next.active
      PROVE  TooLate(next, turns + 1)
  <2>1. PICK place : Filled(next) \subseteq Filled(candidate) \cup {place}
    BY <1>2, <1>3
  <2> QED
    BY <2>1, TooLateStays
<1> QED
  BY <1>3 DEF AssemblyOK, next

\* The next packet of a snapshot, and what stands behind it.
LEMMA NextPacket ==
  ASSUME NEW queue, QueueOK(queue), queue # <<>>,
         NEW capture \in CaptureNumbers, NEW sequence \in Int, NEW k \in 0 .. N + 1,
         Continues(queue, 1, capture, sequence, k + 2)
  PROVE  /\ Head(queue) = SnapshotPackets(capture, sequence)[k + 2]
         /\ Continues(Tail(queue), 1, capture, sequence, k + 3)
<1>1. queue \in Seq(PacketSet) /\ Head(queue) = queue[1]
  BY DEF QueueOK
<1>2. Head(queue) = SnapshotPackets(capture, sequence)[k + 2]
  <2>1. k + 2 \in k + 2 .. N + 3 /\ 1 + ((k + 2) - (k + 2)) = 1
    BY Numbers
  <2> QED
    BY <1>1, <2>1 DEF Continues
<1>3. Continues(queue, 1 + 1, capture, sequence, k + 3)
  <2> SUFFICES ASSUME NEW i \in k + 3 .. N + 3
               PROVE  /\ 2 + (i - (k + 3)) <= Len(queue)
                      /\ queue[2 + (i - (k + 3))] = SnapshotPackets(capture, sequence)[i]
    BY DEF Continues
  <2>1. i \in k + 2 .. N + 3 /\ 2 + (i - (k + 3)) = 1 + (i - (k + 2))
    BY Numbers
  <2> QED
    BY <2>1 DEF Continues
<1>4. 1 \in Nat \ {0} /\ k + 3 \in Int /\ k + 3 >= 1
  BY Numbers
<1> QED
  BY <1>1, <1>2, <1>3, <1>4, ContinuesTail

\* The packet at place k + 2 fills place k, or is the END and nothing is active.
LEMMA NextPlace ==
  ASSUME NEW candidate \in Candidates, NEW packet,
         NEW capture \in CaptureNumbers, NEW sequence \in Int, NEW k \in 0 .. N + 1,
         HasFirst(candidate, k, capture), packet = SnapshotPackets(capture, sequence)[k + 2],
         Consume(candidate, packet).active
  PROVE  /\ k + 1 \in 0 .. N + 1
         /\ HasFirst(Consume(candidate, packet), k + 1, capture)
<1> DEFINE next == Consume(candidate, packet)
<1> HIDE DEF next
<1>1. next.active
  BY DEF next
<1>2. CASE k < N
  <2>1. k \in Controls
    BY <1>2, Numbers
  <2>2. packet = Packet("ParamState", k, capture, sequence)
    BY <2>1, SnapshotParts
  <2>3. packet.type = "ParamState" /\ packet.index = k /\ packet.capture = capture
    BY <2>2 DEF Packet
  <2>4. next = [candidate EXCEPT !.encoder[k] = capture]
    BY <1>1, <2>3, ResetIsCandidate DEF next, Consume, WithParam
  <2>5. /\ next.buttons = candidate.buttons
        /\ \A c \in Controls : next.encoder[c] = IF c = k THEN capture ELSE candidate.encoder[c]
    BY <2>1, <2>4 DEF Candidates
  <2>6. k # N + 1 /\ k + 1 # N + 1 /\ k + 1 \in 0 .. N + 1
        /\ \A c \in Controls : (c < k + 1) <=> (c < k \/ c = k)
    BY <1>2, Numbers
  <2>7. HasFirst(next, k + 1, capture)
    BY <2>5, <2>6 DEF HasFirst
  <2> QED
    BY <2>6, <2>7 DEF next
<1>3. CASE k = N
  <2>1. packet = Packet("ButtonState", 0, capture, sequence)
    BY <1>3, SnapshotParts
  <2>2. packet.type = "ButtonState" /\ packet.capture = capture
    BY <2>1 DEF Packet
  <2>3. next = [candidate EXCEPT !.buttons = capture]
    BY <1>1, <2>2, ResetIsCandidate DEF next, Consume, WithButtons
  <2>4. next.encoder = candidate.encoder /\ next.buttons = capture
    BY <2>3 DEF Candidates
  <2>5. k + 1 = N + 1 /\ k + 1 \in 0 .. N + 1 /\ \A c \in Controls : c < k /\ c < k + 1
    BY <1>3, Numbers
  <2>6. HasFirst(next, k + 1, capture)
    BY <2>4, <2>5 DEF HasFirst
  <2> QED
    BY <2>5, <2>6 DEF next
<1>4. CASE k = N + 1
  <2>1. k + 2 = N + 3
    BY <1>4, Numbers
  <2>2. packet = Packet("End", N, NoCapture, sequence)
    BY <2>1, SnapshotParts
  <2>3. ~next.active
    BY <2>2 DEF next, Consume, Packet, Candidates
  <2> QED
    BY <1>1, <2>3
<1> QED
  BY <1>2, <1>3, <1>4, Numbers

\* The next packet of the snapshot keeps the assembly in step.
LEMMA NextTurn ==
  ASSUME NEW candidate \in Candidates, NEW queue, QueueOK(queue), queue # <<>>,
         NEW capture \in CaptureNumbers, NEW sequence \in Int, NEW k \in 0 .. N + 1,
         HasFirst(candidate, k, capture), Continues(queue, 1, capture, sequence, k + 2),
         Consume(candidate, Head(queue)).active
  PROVE  InStep(Consume(candidate, Head(queue)), k + 2, Tail(queue))
<1>1. /\ Head(queue) = SnapshotPackets(capture, sequence)[k + 2]
      /\ Continues(Tail(queue), 1, capture, sequence, k + 3)
  BY NextPacket
<1>2. k + 1 \in 0 .. N + 1 /\ HasFirst(Consume(candidate, Head(queue)), k + 1, capture)
  BY <1>1, NextPlace
<1>3. k + 2 = (k + 1) + 1 /\ (k + 1) + 2 = k + 3
  BY Numbers
<1> QED
  BY <1>1, <1>2, <1>3 DEF InStep

\* One turn of the loop, with the first packet of the queue or with nothing.
LEMMA TurnKeepsAssembly ==
  ASSUME NEW candidate \in Candidates, NEW queue, QueueOK(queue), NEW turns \in Nat,
         AssemblyOK(candidate, turns, queue), turns = 0 => ~candidate.active,
         NEW left, NEW packet,
         packet = Invalid \/ (queue # <<>> /\ packet = Head(queue) /\ left = Tail(queue))
  PROVE  AssemblyOK(Consume(candidate, packet), turns + 1, left)
<1>1. CASE packet = Invalid
  BY <1>1, ResetIsCandidate DEF AssemblyOK, Consume, Invalid, Packet
<1>2. CASE queue # <<>> /\ packet = Head(queue) /\ left = Tail(queue)
  <2> SUFFICES ASSUME Consume(candidate, packet).active
               PROVE  TooLate(Consume(candidate, packet), turns + 1)
                        \/ InStep(Consume(candidate, packet), turns + 1, left)
    BY DEF AssemblyOK
  <2>1. queue \in Seq(PacketSet) /\ packet \in PacketSet /\ packet = queue[1]
    BY <1>2, HeadTailProperties DEF QueueOK
  <2>2. CASE packet.type = "Begin" /\ turns = 0
    BY <1>2, <2>2, FirstTurn DEF AssemblyOK
  <2>3. CASE packet.type = "Begin" /\ turns # 0
    BY <2>3, LateBegin
  <2>4. CASE packet.type # "Begin"
    <3>1. candidate.active
      <4>1. packet.type \in {"ParamState", "ButtonState", "End"}
        BY <2>1, <2>4 DEF PacketSet
      <4> QED
        BY <4>1, ResetIsCandidate DEF Consume, WithParam, WithButtons, Candidates
    <3>2. CASE TooLate(candidate, turns)
      BY <2>1, <2>4, <3>2, LateTurn DEF AssemblyOK, InStep, Continues, StartsWithBegin
    <3>3. CASE InStep(candidate, turns, queue)
      <4>1. PICK capture \in CaptureNumbers, sequence \in Int, k \in 0 .. N + 1 :
              /\ turns = k + 1
              /\ HasFirst(candidate, k, capture)
              /\ Continues(queue, 1, capture, sequence, k + 2) \/ StartsWithBegin(queue)
        BY <3>3 DEF InStep
      <4>2. Continues(queue, 1, capture, sequence, k + 2)
        BY <2>1, <2>4, <4>1 DEF StartsWithBegin
      <4>3. InStep(Consume(candidate, packet), k + 2, left)
        BY <1>2, <4>1, <4>2, NextTurn
      <4>4. turns + 1 = k + 2
        BY <4>1, Numbers
      <4> QED
        BY <4>3, <4>4
    <3> QED
      BY <3>1, <3>2, <3>3 DEF AssemblyOK
  <2> QED
    BY <2>2, <2>3, <2>4
<1> QED
  BY <1>1, <1>2

\* What comes behind the queue disturbs no assembly.
LEMMA BehindKeepsAssembly ==
  ASSUME NEW candidate, NEW turns \in Nat, NEW queue \in Seq(PacketSet),
         NEW more \in Seq(PacketSet), AssemblyOK(candidate, turns, queue)
  PROVE  AssemblyOK(candidate, turns, queue \o more)
<1>1. ASSUME NEW capture \in CaptureNumbers, NEW sequence \in Int, NEW k \in 0 .. N + 1,
             Continues(queue, 1, capture, sequence, k + 2)
      PROVE  Continues(queue \o more, 1, capture, sequence, k + 2)
  <2>1. k + 2 \in 1 .. N + 3 /\ 1 \in Nat \ {0}
    BY Numbers
  <2> QED
    BY <1>1, <2>1, ContinuesBehind
<1>2. StartsWithBegin(queue) => StartsWithBegin(queue \o more)
  <2>1. /\ Len(queue \o more) = Len(queue) + Len(more)
        /\ Len(queue) \in Nat /\ Len(more) \in Nat
        /\ \A i \in 1 .. Len(queue) : (queue \o more)[i] = queue[i]
    BY Concat
  <2> QED
    BY <2>1 DEF StartsWithBegin
<1>3. InStep(candidate, turns, queue) => InStep(candidate, turns, queue \o more)
  BY <1>1, <1>2 DEF InStep
<1> QED
  BY <1>3 DEF AssemblyOK

\* Nor does a queue thrown away for a snapshot.
LEMMA NewQueueKeepsAssembly ==
  ASSUME NEW candidate, NEW turns, NEW queue, NEW fresh,
         AssemblyOK(candidate, turns, queue), StartsWithBegin(fresh)
  PROVE  AssemblyOK(candidate, turns, fresh)
BY DEF AssemblyOK, InStep

\* The loop ends before an assembly that is too late has every place filled; one
\* that is in step holds one capture then.
LEMMA CompleteIsOneCapture ==
  ASSUME NEW candidate \in Candidates, NEW turns \in Nat, turns < MaxSnapshotPackets,
         NEW queue, NEW packet,
         AssemblyOK(candidate, turns, queue), Completes(candidate, packet)
  PROVE  /\ candidate.buttons # NoCapture
         /\ \A c \in Controls : candidate.encoder[c] = candidate.buttons
<1>1. candidate.active /\ AllSeen(candidate)
  BY DEF Completes
<1>2. ~TooLate(candidate, turns)
  <2>1. Cardinality(Filled(candidate)) = N + 1
    BY <1>1, FilledIsFinite
  <2> QED
    BY <2>1, Numbers DEF TooLate
<1>3. PICK capture \in CaptureNumbers, k \in 0 .. N + 1 : HasFirst(candidate, k, capture)
  BY <1>1, <1>2 DEF AssemblyOK, InStep
<1>4. k = N + 1 /\ candidate.buttons = capture
  BY <1>1, <1>3 DEF HasFirst, AllSeen
<1>5. \A c \in Controls : c < N + 1
  BY Numbers
<1>6. \A c \in Controls : candidate.encoder[c] = capture
  BY <1>3, <1>4, <1>5 DEF HasFirst
<1> QED
  BY <1>1, <1>4, <1>6 DEF AllSeen

-----------------------------------------------------------------------------
(* The invariant *)

\* What the proof needs of the types.
Shape ==
  /\ phase \in {"Delay", "Wait", "Read"}
  /\ reads \in Nat
  /\ phase = "Read" => reads < MaxSnapshotPackets
  /\ assembler \in Candidates
  /\ peripheral \in [queue : Seq(PacketSet), capture : CaptureNumbers,
                     sequence : Int, pending : Int]

Assembling ==
  phase = "Read" =>
    /\ AssemblyOK(assembler, reads, peripheral.queue)
    /\ reads = 0 => ~assembler.active

Inv ==
  /\ Shape
  /\ QueueOK(peripheral.queue)
  /\ Assembling
  /\ AcceptedIsOneCapture

\* The invariant holds before the first request.
LEMMA InitInv == Init => Inv
<1> SUFFICES ASSUME Init
             PROVE  Inv
  OBVIOUS
<1>1. Shape
  BY ResetIsCandidate, EmptySeq, Numbers DEF Init, Shape, CaptureNumbers
<1>2. QueueOK(peripheral.queue)
  BY EmptyQueueOK DEF Init
<1> QED
  BY <1>1, <1>2 DEF Init, Inv, Assembling, AcceptedIsOneCapture

\* Captured keeps the queue in order, behind what is kept.
LEMMA CapturedKeeps ==
  ASSUME Inv, NEW kept, NEW sequence \in Int, NEW pending \in Int,
         kept \in {peripheral.queue, <<>>}, Captured(kept, sequence, pending),
         UNCHANGED <<phase, reads, assembler, latest>>
  PROVE  Inv'
<1> DEFINE whole == SnapshotPackets(NextCapture, sequence)
<1>1. NextCapture \in CaptureNumbers /\ (sequence + 1) % SequenceModulus \in Int
  BY Numbers DEF Inv, Shape, NextCapture, CaptureNumbers
<1>2. whole \in Seq(PacketSet)
  BY <1>1, SnapshotParts
<1>3. peripheral'.queue = kept \o whole
  BY DEF Captured
<1>4. QueueOK(kept)
  BY EmptyQueueOK DEF Inv
<1>5. QueueOK(kept \o whole)
  BY <1>1, <1>4, QueueWithSnapshot
<1>6. kept \o whole \in Seq(PacketSet)
  BY <1>5 DEF QueueOK
<1> HIDE DEF whole
<1>7. peripheral' \in [queue : Seq(PacketSet), capture : CaptureNumbers, sequence : Int, pending : Int]
  BY <1>1, <1>6 DEF Captured, whole
<1>8. Shape'
  BY <1>7 DEF Inv, Shape
<1>9. ASSUME phase = "Read"
      PROVE  AssemblyOK(assembler, reads, kept \o whole)
  <2>1. AssemblyOK(assembler, reads, peripheral.queue)
    BY <1>9 DEF Inv, Assembling
  <2>2. CASE kept = peripheral.queue
    BY <1>2, <2>1, <2>2, BehindKeepsAssembly DEF Inv, Shape, QueueOK
  <2>3. CASE kept = <<>>
    <3>1. StartsWithBegin(<<>> \o whole)
      BY <1>1, QueueOfSnapshot DEF whole
    <3> QED
      BY <2>1, <2>3, <3>1, NewQueueKeepsAssembly
  <2> QED
    BY <2>2, <2>3
<1>10. Assembling'
  BY <1>3, <1>9 DEF Inv, Assembling
<1>11. AcceptedIsOneCapture'
  BY DEF Inv, AcceptedIsOneCapture
<1> QED
  BY <1>3, <1>5, <1>8, <1>10, <1>11 DEF Inv


\* A change reported outside snapshots.
LEMMA ReportKeeps ==
  ASSUME Inv, NEW packet \in PacketSet, packet.type # "Begin", Report(packet)
  PROVE  Inv'
<1> DEFINE longer == Append(peripheral.queue, packet)
<1>1. peripheral.queue \in Seq(PacketSet) /\ <<packet>> \in Seq(PacketSet)
  BY DEF Inv, QueueOK
<1>2. longer \in Seq(PacketSet) /\ longer = peripheral.queue \o <<packet>>
  BY <1>1, AppendProperties, AppendIsConcat
<1>3. QueueOK(longer)
  BY QueueWithReport DEF Inv
<1> HIDE DEF longer
<1>4. peripheral' = [peripheral EXCEPT !.queue = longer]
  BY DEF Report, longer
<1>5. peripheral'.queue = longer
  BY <1>4 DEF Inv, Shape
<1>6. Shape'
  BY <1>2, <1>4 DEF Inv, Shape, Report
<1>7. ASSUME phase = "Read"
      PROVE  AssemblyOK(assembler, reads, longer)
  BY <1>1, <1>2, <1>7, BehindKeepsAssembly DEF Inv, Assembling, Shape
<1>8. Assembling'
  BY <1>5, <1>7 DEF Inv, Assembling, Report
<1>9. AcceptedIsOneCapture'
  BY DEF Inv, AcceptedIsOneCapture, Report
<1> QED
  BY <1>3, <1>5, <1>6, <1>8, <1>9 DEF Inv

\* A turn of the loop, whatever it read.
LEMMA TurnKeeps ==
  ASSUME Inv, NEW packet, NEW faults, NEW left, QueueOK(left),
         peripheral' = [peripheral EXCEPT !.queue = left],
         packet = Invalid
           \/ (peripheral.queue # <<>> /\ packet = Head(peripheral.queue)
               /\ left = Tail(peripheral.queue)),
         TurnsLoop(packet, faults)
  PROVE  Inv'
<1>1. /\ phase = "Read" /\ reads \in Nat /\ reads < MaxSnapshotPackets
      /\ assembler \in Candidates
      /\ reads' = reads + 1 /\ assembler' = Consume(assembler, packet)
  BY DEF Inv, Shape, TurnsLoop
<1>2. peripheral'.queue = left
  BY DEF Inv, Shape
<1>3. packet \in PacketSet \cup {Invalid}
  BY HeadTailProperties DEF Inv, Shape
<1>4. assembler' \in Candidates
  BY <1>1, <1>3, ConsumeIsCandidate
<1>5. AssemblyOK(assembler', reads', left)
  <2>1. AssemblyOK(assembler, reads, peripheral.queue) /\ (reads = 0 => ~assembler.active)
    BY <1>1 DEF Inv, Assembling
  <2> QED
    BY <1>1, <2>1, TurnKeepsAssembly DEF Inv
<1>6. phase' = "Delay" \/ (phase' = "Read" /\ LoopGoesOn)
  BY <1>1 DEF TurnsLoop, EndsRequest
<1>7. Shape'
  <2>1. left \in Seq(PacketSet)
    BY DEF QueueOK
  <2>2. peripheral' \in [queue : Seq(PacketSet), capture : CaptureNumbers,
                         sequence : Int, pending : Int]
    BY <2>1 DEF Inv, Shape
  <2> QED
    BY <1>1, <1>4, <1>6, <2>2 DEF Shape, LoopGoesOn
<1>8. Assembling'
  BY <1>1, <1>2, <1>5 DEF Assembling
<1>9. AcceptedIsOneCapture'
  <2>1. CASE Succeeds(packet)
    <3>1. latest'.snapshot = assembler
      BY <2>1 DEF Succeeds
    <3>2. /\ assembler.buttons # NoCapture
          /\ \A c \in Controls : assembler.encoder[c] = assembler.buttons
      BY <1>1, <2>1, CompleteIsOneCapture DEF Inv, Assembling, Succeeds
    <3> QED
      BY <3>1, <3>2 DEF AcceptedIsOneCapture
  <2>2. CASE Exhausts(packet)
    BY <2>2 DEF Exhausts, AcceptedIsOneCapture, Inv
  <2>3. CASE UNCHANGED latest
    BY <2>3 DEF AcceptedIsOneCapture, Inv
  <2> QED
    BY <2>1, <2>2, <2>3 DEF TurnsLoop
<1> QED
  BY <1>2, <1>7, <1>8, <1>9 DEF Inv

\* A change as ReportChange reports it is a packet of the queue, and no BEGIN.
LEMMA ReportedPacket ==
  ASSUME ReportChange
  PROVE  \E packet \in PacketSet :
           /\ packet.type # "Begin" /\ packet.sequence = 0 /\ packet.capture = Changed
           /\ Report(packet)
<1>1. /\ \A c \in Controls : Packet("ParamState", c, Changed, 0) \in PacketSet
      /\ Packet("ButtonState", 0, Changed, 0) \in PacketSet
  BY Numbers DEF Packet, PacketSet
<1> QED
  BY <1>1 DEF ReportChange, Packet

\* A frame reads the first packet or none.  Without a fault it takes the first one,
\* or there is none and no answer is due.
LEMMA ReadIsTurn ==
  ASSUME Inv, ReadPacket \/ ReadSpoilt
  PROVE  \E packet \in PacketSet \cup {Invalid}, faults \in {0, 1},
            left \in {peripheral.queue, Popped(peripheral.queue)} :
           /\ TurnsLoop(packet, faults)
           /\ QueueOK(left)
           /\ peripheral' = [peripheral EXCEPT !.queue = left]
           /\ packet = Invalid
                \/ (peripheral.queue # <<>> /\ packet = Head(peripheral.queue)
                    /\ left = Tail(peripheral.queue))
           /\ faults = 0 =>
                /\ left = Popped(peripheral.queue)
                /\ peripheral.queue = <<>> => peripheral.pending = 0
<1>1. QueueOK(peripheral.queue) /\ QueueOK(Popped(peripheral.queue))
  BY PoppedOK DEF Inv
<1>2. peripheral.queue # <<>> => Head(peripheral.queue) \in PacketSet
  BY HeadTailProperties DEF Inv, QueueOK
<1>3. CASE ReadPacket /\ IrqHigh
  BY <1>1, <1>2, <1>3 DEF ReadPacket, IrqHigh, Popped
<1>4. CASE ReadPacket /\ ~IrqHigh
  BY <1>1, <1>4 DEF ReadPacket, IrqHigh
<1>5. CASE ReadSpoilt
  BY <1>1, <1>5 DEF ReadSpoilt
<1> QED
  BY <1>3, <1>4, <1>5

\* Every step of master and peripheral keeps the invariant.
LEMMA NextInv == Inv /\ [Next]_vars => Inv'
<1> SUFFICES ASSUME Inv, [Next]_vars
             PROVE  Inv'
  OBVIOUS
<1> USE DEF Inv
<1>1. CASE SendCommand
  <2>1. QueueOK(Popped(peripheral.queue)) /\ Popped(peripheral.queue) \in Seq(PacketSet)
    BY PoppedOK DEF QueueOK
  <2>2. peripheral'.queue = Popped(peripheral.queue)
        /\ peripheral' \in [queue : Seq(PacketSet), capture : CaptureNumbers,
                            sequence : Int, pending : Int]
    <3>1. \/ peripheral' = [peripheral EXCEPT !.queue = Popped(@), !.pending = @ + 1]
          \/ peripheral' = [peripheral EXCEPT !.queue = Popped(@)]
      BY <1>1 DEF SendCommand
    <3> HIDE DEF Inv
    <3>2. peripheral \in [queue : Seq(PacketSet), capture : CaptureNumbers,
                          sequence : Int, pending : Int]
      BY DEF Inv, Shape
    <3>3. peripheral'.queue = Popped(peripheral.queue)
      BY <3>1, <3>2
    <3>4. peripheral' \in [queue : Seq(PacketSet), capture : CaptureNumbers,
                           sequence : Int, pending : Int]
      <4>1. peripheral.pending + 1 \in Int
        BY <3>2
      <4>2. CASE peripheral' = [peripheral EXCEPT !.queue = Popped(@), !.pending = @ + 1]
        BY <2>1, <3>2, <4>1, <4>2
      <4>3. CASE peripheral' = [peripheral EXCEPT !.queue = Popped(@)]
        BY <2>1, <3>2, <4>3
      <4> QED
        BY <3>1, <4>2, <4>3
    <3> QED
      BY <3>3, <3>4
  <2> QED
    BY <1>1, <2>1, <2>2 DEF SendCommand, Shape, Assembling, AcceptedIsOneCapture
<1>2. CASE SeesIrq
  BY <1>2, ResetIsCandidate, Numbers
  DEF SeesIrq, Shape, Assembling, AssemblyOK, AcceptedIsOneCapture
<1>3. CASE TimesOut
  BY <1>3 DEF TimesOut, EndsRequest, Shape, Assembling, AcceptedIsOneCapture
<1>4. CASE ReadPacket \/ ReadSpoilt
  <2> HIDE DEF Inv
  <2> QED
    BY <1>4, ReadIsTurn, TurnKeeps
<1>5. CASE Answer
  <2>1. PICK kept \in {peripheral.queue, <<>>} :
          Captured(kept, peripheral.sequence, peripheral.pending - 1)
    BY <1>5 DEF Answer
  <2>2. peripheral.sequence \in Int /\ peripheral.pending - 1 \in Int
    BY DEF Shape
  <2> HIDE DEF Inv
  <2> QED
    BY <1>5, <2>1, <2>2, CapturedKeeps DEF Answer
<1>6. CASE Recover
  <2>1. PICK sequence \in {0, peripheral.sequence} : Captured(<<>>, sequence, 0)
    BY <1>6 DEF Recover
  <2>2. sequence \in Int /\ 0 \in Int
    BY <2>1 DEF Shape
  <2> HIDE DEF Inv
  <2> QED
    BY <1>6, <2>1, <2>2, CapturedKeeps DEF Recover
<1>7. CASE ReportChange
  <2> HIDE DEF Inv
  <2> QED
    BY <1>7, ReportedPacket, ReportKeeps
<1>8. CASE UNCHANGED vars
  BY <1>8 DEF vars, Shape, Assembling, AcceptedIsOneCapture
<1> QED
  BY <1>1, <1>2, <1>3, <1>4, <1>5, <1>6, <1>7, <1>8 DEF Next

\* Whatever is lost, spoilt, late, recovered or reported between, the values of a
\* snapshot the example master accepts were all taken in one capture: the packets
\* of two answers are never put together (requestSnapshot with its
\* SnapshotAssembler).
THEOREM MasterAcceptsOneCapture == Spec => []AcceptedIsOneCapture
<1>1. Spec => []Inv
  BY InitInv, NextInv, PTL DEF Spec
<1>2. Inv => AcceptedIsOneCapture
  BY DEF Inv
<1> QED
  BY <1>1, <1>2, PTL

-----------------------------------------------------------------------------
(* The log decoder beside the assembler *)

\* Both hold the same, the first k places of one snapshot, and its next packet is
\* the next in the queue, unless the queue begins anew.
Together(candidate, seen, queue) ==
  /\ seen = candidate
  /\ \E capture \in CaptureNumbers, k \in 0 .. N + 1 :
       /\ HasFirst(seen, k, capture)
       /\ Continues(queue, 1, capture, seen.sequence, k + 2) \/ StartsWithBegin(queue)

\* A second BEGIN has come: the decoder has kept what the assembler dropped, and
\* the next packet that is not a BEGIN repeats its first place.
Doubled(seen, queue) ==
  /\ seen.encoder[0] # NoCapture
  /\ Len(queue) >= 1
  /\ queue[1].type = "Begin" \/ (queue[1].type = "ParamState" /\ queue[1].index = 0)

DecoderOK(candidate, seen, turns, queue) ==
  seen.active =>
    \/ turns = 0 /\ seen = NewDecoder
    \/ turns > 0 /\ (Together(candidate, seen, queue) \/ Doubled(seen, queue))

\* A candidate with a sequence, nothing seen, is what it is made of.
LEMMA EmptyCandidate ==
  ASSUME NEW sequence \in Int
  PROVE  /\ [Reset EXCEPT !.active = TRUE, !.sequence = sequence] \in Candidates
         /\ [Reset EXCEPT !.active = TRUE, !.sequence = sequence] =
              [active |-> TRUE, sequence |-> sequence,
               encoder |-> Reset.encoder, buttons |-> NoCapture]
<1> DEFINE begun == [Reset EXCEPT !.active = TRUE, !.sequence = sequence]
<1>1. begun \in Candidates
  BY ResetIsCandidate DEF Candidates
<1>2. Reset.buttons = NoCapture
  BY DEF Reset
<1>3. /\ begun.active = TRUE /\ begun.sequence = sequence
      /\ begun.encoder = Reset.encoder /\ begun.buttons = NoCapture
  BY <1>2, ResetIsCandidate DEF Candidates
<1> HIDE DEF begun
<1>4. begun = [active |-> TRUE, sequence |-> sequence,
               encoder |-> Reset.encoder, buttons |-> NoCapture]
  BY <1>1, <1>3 DEF Candidates
<1> QED
  BY <1>1, <1>4 DEF begun

\* A decoder at the start of a request: active, and nothing seen.  A BEGIN makes
\* the same of it as of the assembler.
LEMMA NewDecoderIsCandidate ==
  /\ NewDecoder \in Candidates
  /\ NewDecoder.sequence = NoSequence
  /\ \A sequence \in Int :
       [NewDecoder EXCEPT !.sequence = sequence] =
         [Reset EXCEPT !.active = TRUE, !.sequence = sequence]
<1>1. /\ NoSequence \in Int
      /\ NewDecoder = [Reset EXCEPT !.active = TRUE, !.sequence = NoSequence]
  BY DEF NoSequence, NewDecoder
<1>2. /\ NewDecoder \in Candidates
      /\ NewDecoder = [active |-> TRUE, sequence |-> NoSequence,
                       encoder |-> Reset.encoder, buttons |-> NoCapture]
  BY <1>1, EmptyCandidate
<1>3. ASSUME NEW sequence \in Int
      PROVE  [NewDecoder EXCEPT !.sequence = sequence] =
               [active |-> TRUE, sequence |-> sequence,
                encoder |-> Reset.encoder, buttons |-> NoCapture]
  <2> DEFINE begun == [NewDecoder EXCEPT !.sequence = sequence]
  <2>1. begun \in Candidates
    BY <1>2 DEF Candidates
  <2>2. /\ begun.active = TRUE /\ begun.sequence = sequence
        /\ begun.encoder = Reset.encoder /\ begun.buttons = NoCapture
    BY <1>2 DEF Candidates
  <2> HIDE DEF begun
  <2>3. begun = [active |-> TRUE, sequence |-> sequence,
                 encoder |-> Reset.encoder, buttons |-> NoCapture]
    BY <2>1, <2>2 DEF Candidates
  <2> QED
    BY <2>3 DEF begun
<1> QED
  BY <1>2, <1>3, EmptyCandidate

\* What a packet makes of the decoder.
LEMMA DecoderIsCandidate ==
  ASSUME NEW seen \in Candidates, NEW packet \in PacketSet \cup {Invalid}
  PROVE  DecoderConsumes(seen, packet) \in Candidates
<1>1. CASE ~DecoderAccepts(seen, packet)
  BY <1>1 DEF DecoderConsumes, Candidates
<1>2. CASE DecoderAccepts(seen, packet)
  <2>1. packet \in PacketSet
    BY <1>2 DEF DecoderAccepts, Invalid, Packet
  <2>2. /\ packet.capture \in 0 .. Changed /\ packet.sequence \in Int
        /\ packet.type \in {"Begin", "ParamState", "ButtonState", "End"}
    BY <2>1 DEF PacketSet
  <2>3. /\ [seen EXCEPT !.sequence = packet.sequence] \in Candidates
        /\ [seen EXCEPT !.encoder[packet.index] = packet.capture] \in Candidates
        /\ [seen EXCEPT !.buttons = packet.capture] \in Candidates
    BY <2>2 DEF Candidates
  <2> QED
    BY <1>2, <2>2, <2>3 DEF DecoderConsumes
<1> QED
  BY <1>1, <1>2

\* After a turn the decoder is active only if it accepted the packet.
LEMMA ActiveAccepts ==
  ASSUME NEW seen \in Candidates, NEW packet, DecoderConsumes(seen, packet).active
  PROVE  DecoderAccepts(seen, packet)
BY DEF DecoderConsumes, Candidates

NothingSeen(seen) ==
  seen.buttons = NoCapture /\ \A c \in Controls : seen.encoder[c] = NoCapture

\* Nothing is seen by a new decoder, nor with no place filled.
LEMMA NothingYet ==
  /\ NothingSeen(NewDecoder)
  /\ \A seen, capture : HasFirst(seen, 0, capture) <=> NothingSeen(seen)
<1>1. NothingSeen(NewDecoder)
  BY DEF NothingSeen, NewDecoder, Reset
<1>2. 0 # N + 1 /\ \A c \in Controls : ~(c < 0)
  BY Numbers
<1> QED
  BY <1>1, <1>2 DEF HasFirst, NothingSeen

\* With nothing seen, a BEGIN means the same to both.
LEMMA FirstBegin ==
  ASSUME NEW seen \in Candidates, NothingSeen(seen), NEW packet, packet.type = "Begin",
         packet.index = ControlCount, packet.sequence \in Int, DecoderAccepts(seen, packet)
  PROVE  /\ DecoderConsumes(seen, packet) = Consume(seen, packet)
         /\ DecoderConsumes(seen, packet).sequence = packet.sequence
         /\ NothingSeen(DecoderConsumes(seen, packet))
<1>1. DecoderConsumes(seen, packet) = [seen EXCEPT !.sequence = packet.sequence]
  BY DEF DecoderConsumes
<1>2. Consume(seen, packet) = Begun(packet)
  BY DEF Consume
<1>3. [seen EXCEPT !.sequence = packet.sequence] = Begun(packet)
  <2>1. seen.encoder = Reset.encoder
    BY DEF Candidates, Reset, NothingSeen
  <2>2. Begun(packet) = [active |-> TRUE, sequence |-> packet.sequence,
                         encoder |-> Reset.encoder, buttons |-> NoCapture]
    BY EmptyCandidate DEF Begun
  <2>3. [seen EXCEPT !.sequence = packet.sequence] =
          [active |-> seen.active, sequence |-> packet.sequence,
           encoder |-> seen.encoder, buttons |-> seen.buttons]
    BY DEF Candidates
  <2>4. seen.active = TRUE
    BY DEF Candidates, DecoderAccepts
  <2> QED
    BY <2>1, <2>2, <2>3, <2>4 DEF NothingSeen
<1>4. [seen EXCEPT !.sequence = packet.sequence].sequence = packet.sequence
  BY DEF Candidates
<1>5. NothingSeen([seen EXCEPT !.sequence = packet.sequence])
  BY DEF Candidates, NothingSeen
<1> QED
  BY <1>1, <1>2, <1>3, <1>4, <1>5

\* A second BEGIN behind a place filled.
LEMMA SecondBegin ==
  ASSUME NEW seen \in Candidates, NEW queue, QueueOK(queue), queue # <<>>,
         Head(queue).type = "Begin", seen.encoder[0] # NoCapture,
         DecoderAccepts(seen, Head(queue))
  PROVE  Doubled(DecoderConsumes(seen, Head(queue)), Tail(queue))
<1>1. DecoderConsumes(seen, Head(queue)).encoder[0] # NoCapture
  BY DEF DecoderConsumes, Candidates
<1>2. PICK capture \in CaptureNumbers, sequence \in Int :
        Continues(Tail(queue), 1, capture, sequence, 2)
  BY BehindBegin
<1>3. 2 \in 2 .. N + 3 /\ 1 + (2 - 2) = 1 /\ 0 + 2 = 2 /\ 0 \in Controls
  BY Numbers
<1>4. 1 <= Len(Tail(queue)) /\ Tail(queue)[1] = SnapshotPackets(capture, sequence)[2]
  BY <1>2, <1>3 DEF Continues
<1>5. Tail(queue)[1] = Packet("ParamState", 0, capture, sequence)
  BY <1>3, <1>4, SnapshotParts
<1>6. Len(Tail(queue)) \in Nat
  BY LenProperties, HeadTailProperties DEF QueueOK
<1> QED
  BY <1>1, <1>4, <1>5, <1>6 DEF Doubled, Packet

\* The next packet of the snapshot means the same to both; its END completes the
\* assembler's candidate, too.
LEMMA SamePlace ==
  ASSUME NEW seen \in Candidates, NEW packet, NEW capture \in CaptureNumbers,
         NEW k \in 0 .. N + 1,
         packet = SnapshotPackets(capture, seen.sequence)[k + 2],
         DecoderAccepts(seen, packet)
  PROVE  \/ k < N + 1 /\ packet.type # "End" /\ DecoderConsumes(seen, packet) = Consume(seen, packet)
                      /\ DecoderConsumes(seen, packet).active
                      /\ DecoderConsumes(seen, packet).sequence = seen.sequence
         \/ packet.type = "End" /\ Completes(seen, packet)
<1>1. seen.active /\ seen.sequence \in Int
  BY DEF DecoderAccepts, Candidates
<1>2. CASE k < N
  <2>1. k \in Controls
    BY <1>2, Numbers
  <2>2. packet = Packet("ParamState", k, capture, seen.sequence)
    BY <1>1, <2>1, SnapshotParts
  <2>3. packet.type = "ParamState" /\ packet.index = k
    BY <2>2 DEF Packet
  <2>4. seen.encoder[packet.index] = NoCapture
    BY <2>3 DEF DecoderAccepts
  <2>5. DecoderConsumes(seen, packet) = [seen EXCEPT !.encoder[packet.index] = packet.capture]
    BY <2>3 DEF DecoderConsumes
  <2>6. Consume(seen, packet) = [seen EXCEPT !.encoder[packet.index] = packet.capture]
    BY <1>1, <2>1, <2>3, <2>4 DEF Consume, WithParam
  <2>7. /\ DecoderConsumes(seen, packet).active
        /\ DecoderConsumes(seen, packet).sequence = seen.sequence
    BY <1>1, <2>5 DEF Candidates
  <2>8. k < N + 1
    BY <1>2, Numbers
  <2> QED
    BY <2>3, <2>5, <2>6, <2>7, <2>8
<1>3. CASE k = N
  <2>1. packet = Packet("ButtonState", 0, capture, seen.sequence)
    BY <1>1, <1>3, SnapshotParts
  <2>2. packet.type = "ButtonState" /\ packet.index = 0
    BY <2>1 DEF Packet
  <2>3. seen.buttons = NoCapture
    BY <2>2 DEF DecoderAccepts
  <2>4. DecoderConsumes(seen, packet) = [seen EXCEPT !.buttons = packet.capture]
    BY <2>2 DEF DecoderConsumes
  <2>5. Consume(seen, packet) = [seen EXCEPT !.buttons = packet.capture]
    BY <1>1, <2>2, <2>3 DEF Consume, WithButtons
  <2>6. /\ DecoderConsumes(seen, packet).active
        /\ DecoderConsumes(seen, packet).sequence = seen.sequence
    BY <1>1, <2>4 DEF Candidates
  <2>7. k < N + 1
    BY <1>3, Numbers
  <2> QED
    BY <2>2, <2>4, <2>5, <2>6, <2>7
<1>4. CASE k = N + 1
  <2>1. k + 2 = N + 3
    BY <1>4, Numbers
  <2>2. packet = Packet("End", N, NoCapture, seen.sequence)
    BY <1>1, <2>1, SnapshotParts
  <2>3. packet.type = "End" /\ packet.index = ControlCount /\ packet.sequence = seen.sequence
    BY <2>2 DEF Packet, N
  <2> QED
    BY <1>1, <2>3 DEF DecoderAccepts, Completes
<1> QED
  BY <1>2, <1>3, <1>4, Numbers

\* One turn of the loop: both keep in step, the decoder leaves, or the assembler
\* completes what the decoder holds.
LEMMA TurnKeepsDecoder ==
  ASSUME NEW candidate \in Candidates, NEW seen \in Candidates, NEW turns \in Nat,
         NEW queue, QueueOK(queue), queue # <<>>, DecoderOK(candidate, seen, turns, queue),
         DecoderConsumes(seen, Head(queue)).active
  PROVE  \/ /\ Head(queue).type = "End"
            /\ seen = candidate
            /\ Completes(candidate, Head(queue))
         \/ /\ Head(queue).type # "End"
            /\ \/ Together(Consume(candidate, Head(queue)),
                           DecoderConsumes(seen, Head(queue)), Tail(queue))
               \/ Doubled(DecoderConsumes(seen, Head(queue)), Tail(queue))
<1> DEFINE packet == Head(queue)
           left   == Tail(queue)
<1>1. DecoderAccepts(seen, packet)
  BY ActiveAccepts
<1>2. packet = Head(queue) /\ left = Tail(queue) /\ seen.active
  BY <1>1 DEF DecoderAccepts
<1>3. queue \in Seq(PacketSet) /\ packet = queue[1]
  BY DEF QueueOK
<1> HIDE DEF packet, left
<1>4. ASSUME packet.type = "Begin", NothingSeen(seen)
      PROVE  Together(Consume(candidate, packet), DecoderConsumes(seen, packet), left)
  <2>1. PICK capture \in CaptureNumbers, sequence \in Int :
          /\ packet = Packet("Begin", N, NoCapture, sequence)
          /\ Continues(left, 1, capture, sequence, 2)
    BY <1>2, <1>4, BehindBegin
  <2>2. packet.sequence = sequence /\ packet.index = ControlCount
    BY <2>1 DEF Packet, N
  <2>3. /\ DecoderConsumes(seen, packet) = Consume(seen, packet)
        /\ DecoderConsumes(seen, packet).sequence = sequence
        /\ NothingSeen(DecoderConsumes(seen, packet))
    BY <1>1, <1>4, <2>2, FirstBegin
  <2>4. Consume(seen, packet) = Consume(candidate, packet)
    BY <1>4, <2>2 DEF Consume
  <2>5. HasFirst(DecoderConsumes(seen, packet), 0, capture)
    BY <2>3, NothingYet
  <2>6. 0 \in 0 .. N + 1 /\ 0 + 2 = 2
    BY Numbers
  <2> QED
    BY <2>1, <2>3, <2>4, <2>5, <2>6 DEF Together
<1>5. CASE turns = 0 /\ seen = NewDecoder
  <2>1. packet.type = "Begin"
    BY <1>1, <1>5, NewDecoderIsCandidate DEF DecoderAccepts
  <2> QED
    BY <1>2, <1>4, <1>5, <2>1, NothingYet
<1>6. CASE Together(candidate, seen, queue)
  <2>1. PICK capture \in CaptureNumbers, k \in 0 .. N + 1 :
          /\ HasFirst(seen, k, capture)
          /\ Continues(queue, 1, capture, seen.sequence, k + 2) \/ StartsWithBegin(queue)
    BY <1>6 DEF Together
  <2>2. seen = candidate /\ seen.sequence \in Int
    BY <1>6 DEF Together, Candidates
  <2>3. CASE packet.type = "Begin" /\ k = 0
    BY <1>2, <1>4, <2>1, <2>3, NothingYet
  <2>4. CASE packet.type = "Begin" /\ k # 0
    <3>1. 0 \in Controls /\ 0 < k /\ NoCapture \notin CaptureNumbers
      BY <2>4, Numbers DEF CaptureNumbers
    <3>2. seen.encoder[0] # NoCapture
      BY <2>1, <3>1 DEF HasFirst
    <3> QED
      BY <1>1, <1>2, <2>4, <3>2, SecondBegin
  <2>5. CASE packet.type # "Begin"
    <3>1. Continues(queue, 1, capture, seen.sequence, k + 2)
      BY <1>3, <2>1, <2>5 DEF StartsWithBegin
    <3>2. /\ packet = SnapshotPackets(capture, seen.sequence)[k + 2]
          /\ Continues(left, 1, capture, seen.sequence, k + 3)
      BY <1>2, <2>2, <3>1, NextPacket
    <3>3. CASE packet.type = "End" /\ Completes(seen, packet)
      BY <1>2, <2>2, <3>3
    <3>4. CASE /\ k < N + 1 /\ packet.type # "End"
               /\ DecoderConsumes(seen, packet) = Consume(seen, packet)
               /\ DecoderConsumes(seen, packet).active
               /\ DecoderConsumes(seen, packet).sequence = seen.sequence
      <4>1. k + 1 \in 0 .. N + 1 /\ HasFirst(DecoderConsumes(seen, packet), k + 1, capture)
        BY <2>1, <2>2, <3>2, <3>4, NextPlace
      <4>2. (k + 1) + 2 = k + 3
        BY Numbers
      <4> QED
        BY <1>2, <2>2, <3>2, <3>4, <4>1, <4>2 DEF Together
    <3> QED
      BY <1>1, <3>2, <3>3, <3>4, SamePlace
  <2> QED
    BY <1>2, <2>3, <2>4, <2>5
<1>7. CASE Doubled(seen, queue)
  <2>1. packet.type = "Begin"
    BY <1>1, <1>3, <1>7 DEF Doubled, DecoderAccepts
  <2>2. Doubled(DecoderConsumes(seen, packet), left)
    BY <1>1, <1>2, <1>7, <2>1, SecondBegin DEF Doubled
  <2> QED
    BY <1>2, <2>1, <2>2
<1> QED
  BY <1>2, <1>5, <1>6, <1>7 DEF DecoderOK

\* What comes behind the queue disturbs neither.
LEMMA BehindKeepsDecoder ==
  ASSUME NEW candidate, NEW seen \in Candidates, NEW turns, NEW queue \in Seq(PacketSet),
         NEW more \in Seq(PacketSet), DecoderOK(candidate, seen, turns, queue)
  PROVE  DecoderOK(candidate, seen, turns, queue \o more)
<1>1. ASSUME NEW capture \in CaptureNumbers, NEW k \in 0 .. N + 1,
             Continues(queue, 1, capture, seen.sequence, k + 2)
      PROVE  Continues(queue \o more, 1, capture, seen.sequence, k + 2)
  <2>1. k + 2 \in 1 .. N + 3 /\ 1 \in Nat \ {0} /\ seen.sequence \in Int
    BY Numbers DEF Candidates
  <2> QED
    BY <1>1, <2>1, ContinuesBehind
<1>2. /\ Len(queue \o more) = Len(queue) + Len(more)
      /\ Len(queue) \in Nat /\ Len(more) \in Nat
      /\ \A i \in 1 .. Len(queue) : (queue \o more)[i] = queue[i]
  BY Concat
<1>3. Len(queue) >= 1 => Len(queue \o more) >= 1 /\ (queue \o more)[1] = queue[1]
  BY <1>2
<1>4. StartsWithBegin(queue) => StartsWithBegin(queue \o more)
  BY <1>3 DEF StartsWithBegin
<1>5. Together(candidate, seen, queue) => Together(candidate, seen, queue \o more)
  BY <1>1, <1>4 DEF Together
<1>6. Doubled(seen, queue) => Doubled(seen, queue \o more)
  BY <1>3 DEF Doubled
<1> QED
  BY <1>5, <1>6 DEF DecoderOK

\* Nor does a queue thrown away for a snapshot.
LEMMA NewQueueKeepsDecoder ==
  ASSUME NEW candidate, NEW seen, NEW turns, NEW queue, NEW fresh,
         DecoderOK(candidate, seen, turns, queue), StartsWithBegin(fresh)
  PROVE  DecoderOK(candidate, seen, turns, fresh)
BY DEF DecoderOK, Together, Doubled, StartsWithBegin

Decoding ==
  /\ decoder \in Candidates
  /\ phase = "Read" => DecoderOK(assembler, decoder, reads, peripheral.queue)

\* Both hold before the first request.
LEMMA InitDecoding == Init => Decoding
BY NewDecoderIsCandidate DEF Init, Decoding

\* The same turn as TurnKeeps: the decoder stays in step with the assembler, and
\* an END it accepts ends the request with its snapshot.
LEMMA TurnDecodes ==
  ASSUME Inv, Decoding, NEW packet, NEW faults, NEW left, QueueOK(left),
         peripheral' = [peripheral EXCEPT !.queue = left],
         packet = Invalid
           \/ (peripheral.queue # <<>> /\ packet = Head(peripheral.queue)
               /\ left = Tail(peripheral.queue)),
         TurnsLoop(packet, faults)
  PROVE  /\ Decoding'
         /\ decoder'.active => packet # Invalid
         /\ decoder'.active /\ packet.type = "End" =>
              latest'.ok /\ latest'.snapshot = decoder
<1>1. /\ phase = "Read" /\ reads \in Nat /\ assembler \in Candidates /\ decoder \in Candidates
      /\ reads' = reads + 1 /\ assembler' = Consume(assembler, packet)
      /\ decoder' = DecoderConsumes(decoder, packet)
      /\ QueueOK(peripheral.queue)
      /\ DecoderOK(assembler, decoder, reads, peripheral.queue)
  BY DEF Inv, Shape, Decoding, TurnsLoop
<1>2. peripheral'.queue = left
  BY DEF Inv, Shape
<1>3. packet \in PacketSet \cup {Invalid}
  BY HeadTailProperties DEF Inv, Shape
<1>4. decoder' \in Candidates
  BY <1>1, <1>3, DecoderIsCandidate
<1>5. decoder'.active =>
        \/ packet.type = "End" /\ decoder = assembler /\ Completes(assembler, packet)
        \/ packet.type # "End" /\ (Together(assembler', decoder', left) \/ Doubled(decoder', left))
  <2>1. CASE packet = Invalid
    BY <1>1, <2>1, ActiveAccepts DEF DecoderAccepts, Invalid, Packet
  <2>2. CASE /\ peripheral.queue # <<>> /\ packet = Head(peripheral.queue)
             /\ left = Tail(peripheral.queue)
    BY <1>1, <2>2, TurnKeepsDecoder
  <2> QED
    BY <2>1, <2>2
<1>6. Completes(assembler, packet) =>
        phase' = "Delay" /\ latest'.ok /\ latest'.snapshot = assembler
  BY DEF TurnsLoop, Succeeds, Exhausts, EndsRequest
<1>7. Decoding'
  <2>1. reads' > 0
    BY <1>1
  <2> QED
    BY <1>2, <1>4, <1>5, <1>6, <2>1 DEF Decoding, DecoderOK
<1>8. decoder'.active => packet # Invalid
  BY <1>1, ActiveAccepts DEF DecoderAccepts, Invalid, Packet
<1> QED
  BY <1>5, <1>6, <1>7, <1>8

\* Captured, as in CapturedKeeps.
LEMMA CapturedDecodes ==
  ASSUME Inv, Decoding, NEW kept, NEW sequence \in Int, NEW pending \in Int,
         kept \in {peripheral.queue, <<>>}, Captured(kept, sequence, pending),
         UNCHANGED <<phase, reads, assembler, decoder>>
  PROVE  Decoding'
<1> DEFINE whole == SnapshotPackets(NextCapture, sequence)
<1>1. NextCapture \in CaptureNumbers
  BY Numbers DEF Inv, Shape, NextCapture, CaptureNumbers
<1>2. whole \in Seq(PacketSet) /\ StartsWithBegin(<<>> \o whole)
  BY <1>1, SnapshotParts, QueueOfSnapshot
<1>3. peripheral'.queue = kept \o whole
  BY DEF Captured
<1>4. peripheral.queue \in Seq(PacketSet) /\ decoder \in Candidates
  BY DEF Inv, Shape, Decoding
<1> HIDE DEF whole
<1>5. ASSUME DecoderOK(assembler, decoder, reads, peripheral.queue)
      PROVE  DecoderOK(assembler, decoder, reads, kept \o whole)
  <2>1. CASE kept = peripheral.queue
    BY <1>2, <1>4, <1>5, <2>1, BehindKeepsDecoder
  <2>2. CASE kept = <<>>
    BY <1>2, <1>5, <2>2, NewQueueKeepsDecoder
  <2> QED
    BY <2>1, <2>2
<1> QED
  BY <1>3, <1>5 DEF Decoding

\* A change reported outside snapshots, as in ReportKeeps.
LEMMA ReportDecodes ==
  ASSUME Inv, Decoding, NEW packet \in PacketSet, Report(packet)
  PROVE  Decoding'
<1> DEFINE longer == Append(peripheral.queue, packet)
<1>1. peripheral.queue \in Seq(PacketSet) /\ <<packet>> \in Seq(PacketSet)
  BY DEF Inv, QueueOK
<1>2. longer = peripheral.queue \o <<packet>>
  BY <1>1, AppendIsConcat
<1> HIDE DEF longer
<1>3. peripheral' = [peripheral EXCEPT !.queue = longer]
  BY DEF Report, longer
<1>4. peripheral'.queue = longer
  BY <1>3 DEF Inv, Shape
<1>5. ASSUME phase = "Read"
      PROVE  DecoderOK(assembler, decoder, reads, longer)
  BY <1>1, <1>2, <1>5, BehindKeepsDecoder DEF Decoding
<1> QED
  BY <1>4, <1>5 DEF Report, Decoding

\* Every step keeps the decoder in step.
LEMMA NextDecoding == Inv /\ Decoding /\ [Next]_vars => Decoding'
<1> SUFFICES ASSUME Inv, Decoding, [Next]_vars
             PROVE  Decoding'
  OBVIOUS
<1>1. CASE SendCommand
  BY <1>1 DEF SendCommand, Decoding
<1>2. CASE SeesIrq
  BY <1>2, NewDecoderIsCandidate DEF SeesIrq, Decoding, DecoderOK
<1>3. CASE TimesOut
  BY <1>3 DEF TimesOut, EndsRequest, Decoding
<1>4. CASE ReadPacket \/ ReadSpoilt
  BY <1>4, ReadIsTurn, TurnDecodes
<1>5. CASE Answer
  <2>1. PICK kept \in {peripheral.queue, <<>>} :
          Captured(kept, peripheral.sequence, peripheral.pending - 1)
    BY <1>5 DEF Answer
  <2>2. peripheral.sequence \in Int /\ peripheral.pending - 1 \in Int
    BY DEF Inv, Shape
  <2> QED
    BY <1>5, <2>1, <2>2, CapturedDecodes DEF Answer
<1>6. CASE Recover
  <2>1. PICK sequence \in {0, peripheral.sequence} : Captured(<<>>, sequence, 0)
    BY <1>6 DEF Recover
  <2>2. sequence \in Int /\ 0 \in Int
    BY <2>1 DEF Inv, Shape
  <2> QED
    BY <1>6, <2>1, <2>2, CapturedDecodes DEF Recover
<1>7. CASE ReportChange
  BY <1>7, ReportedPacket, ReportDecodes
<1>8. CASE UNCHANGED vars
  BY <1>8 DEF vars, Decoding
<1> QED
  BY <1>1, <1>2, <1>3, <1>4, <1>5, <1>6, <1>7, <1>8 DEF Next

\* A turn in which the decoder takes an END is one in which the master succeeds.
LEMMA AgreesAtEnd ==
  ASSUME Inv, Decoding, [Next]_vars, reads' = reads + 1, decoder'.active,
         Head(peripheral.queue).type = "End"
  PROVE  latest'.ok /\ latest'.snapshot = decoder
<1>1. reads \in Nat
  BY DEF Inv, Shape
<1>2. ReadPacket \/ ReadSpoilt
  <2>1. reads' # reads
    BY <1>1
  <2>2. SeesIrq => reads' # reads + 1
    BY <1>1 DEF SeesIrq
  <2> QED
    BY <2>1, <2>2 DEF Next, vars, SendCommand, TimesOut, Answer, Recover, ReportChange, Report
<1>3. PICK packet \in PacketSet \cup {Invalid}, faults \in {0, 1},
           left \in {peripheral.queue, Popped(peripheral.queue)} :
        /\ TurnsLoop(packet, faults)
        /\ QueueOK(left)
        /\ peripheral' = [peripheral EXCEPT !.queue = left]
        /\ packet = Invalid
             \/ (peripheral.queue # <<>> /\ packet = Head(peripheral.queue)
                 /\ left = Tail(peripheral.queue))
  BY <1>2, ReadIsTurn
<1> QED
  BY <1>3, TurnDecodes

\* The log decoder, fed with the packets of a request, completes a snapshot only
\* in the turn in which the master accepts that very snapshot, though it keeps at
\* a BEGIN what the master drops (decode_snapshot.Snapshot.consume beside
\* SnapshotAssembler::consume).
THEOREM DecoderFollowsMaster == Spec => DecoderAgrees
<1>1. Spec => [](Inv /\ Decoding)
  BY InitInv, NextInv, InitDecoding, NextDecoding, PTL DEF Spec
<1>2. Inv /\ Decoding /\ [Next]_vars =>
        [(reads' = reads + 1 /\ decoder'.active /\ Head(peripheral.queue).type = "End") =>
           latest'.ok /\ latest'.snapshot = decoder]_vars
  BY AgreesAtEnd
<1> QED
  BY <1>1, <1>2, PTL DEF Spec, DecoderAgrees

-----------------------------------------------------------------------------
(* The types *)

SequenceNumbers == 0 .. SequenceModulus - 1

Typed(candidate) ==
  candidate \in Candidates /\ candidate.sequence \in SequenceNumbers \cup {NoSequence}

\* TypeOK needs that every packet queued has a sequence of its range.
Types ==
  /\ reads <= MaxSnapshotPackets
  /\ Typed(assembler) /\ Typed(latest.snapshot) /\ Typed(decoder)
  /\ latest \in [ok : BOOLEAN, snapshot : Candidates]
  /\ peripheral.sequence \in SequenceNumbers
  /\ \A i \in 1 .. Len(peripheral.queue) : peripheral.queue[i].sequence \in SequenceNumbers
  /\ budget \in [{"faults", "recoveries", "increments"} -> Nat]

\* Zero is a sequence, as what is reset and what is reported has it.
LEMMA ZeroSequence ==
  /\ 0 \in SequenceNumbers
  /\ Typed(Reset) /\ Typed(NewDecoder)
<1>1. 0 \in SequenceNumbers
  BY Numbers DEF SequenceNumbers
<1>2. Reset.sequence = 0
  BY DEF Reset
<1> QED
  BY <1>1, <1>2, ResetIsCandidate, NewDecoderIsCandidate DEF Typed

\* A packet with a sequence of the range leaves assembler and decoder one.
LEMMA ConsumeIsTyped ==
  ASSUME NEW packet \in PacketSet \cup {Invalid}, packet.sequence \in SequenceNumbers,
         NEW candidate, Typed(candidate)
  PROVE  Typed(Consume(candidate, packet)) /\ Typed(DecoderConsumes(candidate, packet))
<1>1. candidate \in Candidates
  BY DEF Typed
<1>2. /\ Consume(candidate, packet) \in Candidates
      /\ DecoderConsumes(candidate, packet) \in Candidates
  BY <1>1, ConsumeIsCandidate, DecoderIsCandidate
<1>3. Begun(packet).sequence = packet.sequence
  BY DEF Begun, Reset
<1>4. Reset.sequence \in SequenceNumbers
  BY ZeroSequence DEF Reset
<1>5. packet.type \in {"Invalid", "Begin", "ParamState", "ButtonState", "End"}
  BY DEF PacketSet, Invalid, Packet
<1>6. Consume(candidate, packet).sequence \in
        {candidate.sequence, packet.sequence, Reset.sequence}
  <2>1. /\ WithParam(candidate, packet).sequence \in {candidate.sequence, Reset.sequence}
        /\ WithButtons(candidate, packet).sequence \in {candidate.sequence, Reset.sequence}
        /\ [candidate EXCEPT !.active = FALSE].sequence = candidate.sequence
    BY <1>1 DEF WithParam, WithButtons, Candidates
  <2> QED
    BY <1>3, <1>5, <2>1 DEF Consume
<1>7. DecoderConsumes(candidate, packet).sequence \in {candidate.sequence, packet.sequence}
  BY <1>1, <1>5 DEF DecoderConsumes, Candidates
<1> QED
  BY <1>2, <1>4, <1>6, <1>7 DEF Typed

\* The packets of a snapshot have its sequence.
LEMMA SnapshotSequence ==
  ASSUME NEW capture \in CaptureNumbers, NEW sequence \in Int, NEW i \in 1 .. N + 3
  PROVE  SnapshotPackets(capture, sequence)[i].sequence = sequence
<1>1. CASE i \in 2 .. N + 1
  <2>1. i - 2 \in Controls /\ (i - 2) + 2 = i
    BY <1>1, Numbers
  <2>2. SnapshotPackets(capture, sequence)[(i - 2) + 2] = Packet("ParamState", i - 2, capture, sequence)
    BY <2>1, SnapshotParts
  <2> QED
    BY <2>1, <2>2 DEF Packet
<1>2. CASE i = 1
  <2>1. SnapshotPackets(capture, sequence)[1] = Packet("Begin", N, NoCapture, sequence)
    BY SnapshotParts
  <2> QED
    BY <1>2, <2>1 DEF Packet
<1>3. CASE i = N + 2
  <2>1. SnapshotPackets(capture, sequence)[N + 2] = Packet("ButtonState", 0, capture, sequence)
    BY SnapshotParts
  <2> QED
    BY <1>3, <2>1 DEF Packet
<1>4. CASE i = N + 3
  <2>1. SnapshotPackets(capture, sequence)[N + 3] = Packet("End", N, NoCapture, sequence)
    BY SnapshotParts
  <2> QED
    BY <1>4, <2>1 DEF Packet
<1> QED
  BY <1>1, <1>2, <1>3, <1>4, Numbers

\* What is paid leaves the budget a budget.
LEMMA SpendKeeps ==
  ASSUME budget \in [{"faults", "recoveries", "increments"} -> Nat],
         NEW fault \in {"faults", "recoveries", "increments"}, NEW count \in Nat,
         Spend(fault, count)
  PROVE  budget' \in [{"faults", "recoveries", "increments"} -> Nat]
<1>1. budget[fault] - count \in Nat
  BY DEF Spend
<1> QED
  BY <1>1 DEF Spend

\* The budget of a request that ends.
LEMMA EndKeepsBudget ==
  ASSUME budget \in [{"faults", "recoveries", "increments"} -> Nat],
         NEW faults \in {0, 1}, EndsRequest(faults)
  PROVE  budget' \in [{"faults", "recoveries", "increments"} -> Nat]
<1>1. faults \in Nat /\ faults + 1 \in Nat
  OBVIOUS
<1>2. CASE peripheral.pending > 0
  BY <1>1, <1>2, SpendKeeps DEF EndsRequest
<1>3. CASE ~(peripheral.pending > 0)
  BY <1>1, <1>3, SpendKeeps DEF EndsRequest
<1> QED
  BY <1>2, <1>3

\* Less in the queue is still in range.
LEMMA PoppedInRange ==
  ASSUME NEW q \in Seq(PacketSet), \A i \in 1 .. Len(q) : q[i].sequence \in SequenceNumbers
  PROVE  \A i \in 1 .. Len(Popped(q)) : Popped(q)[i].sequence \in SequenceNumbers
<1>1. CASE q = <<>>
  BY <1>1 DEF Popped
<1>2. CASE q # <<>>
  <2>1. /\ Len(Tail(q)) = Len(q) - 1 /\ Len(q) \in Nat
        /\ \A i \in 1 .. Len(Tail(q)) : Tail(q)[i] = q[i + 1]
    BY <1>2, HeadTailProperties, LenProperties
  <2>2. \A i \in 1 .. Len(Tail(q)) : i + 1 \in 1 .. Len(q)
    BY <2>1
  <2> QED
    BY <1>2, <2>1, <2>2 DEF Popped
<1> QED
  BY <1>1, <1>2

\* More in the queue is in range, if it is.
LEMMA LongerInRange ==
  ASSUME NEW q \in Seq(PacketSet), \A i \in 1 .. Len(q) : q[i].sequence \in SequenceNumbers,
         NEW r \in Seq(PacketSet), \A i \in 1 .. Len(r) : r[i].sequence \in SequenceNumbers
  PROVE  \A i \in 1 .. Len(q \o r) : (q \o r)[i].sequence \in SequenceNumbers
<1>1. /\ Len(q) \in Nat /\ Len(r) \in Nat /\ Len(q \o r) = Len(q) + Len(r)
      /\ \A i \in 1 .. Len(q) : (q \o r)[i] = q[i]
      /\ \A i \in 1 .. Len(r) : (q \o r)[Len(q) + i] = r[i]
  BY Concat
<1> SUFFICES ASSUME NEW i \in 1 .. Len(q \o r)
             PROVE  (q \o r)[i].sequence \in SequenceNumbers
  OBVIOUS
<1>2. CASE i <= Len(q)
  BY <1>1, <1>2
<1>3. CASE i > Len(q)
  <2>1. i - Len(q) \in 1 .. Len(r) /\ Len(q) + (i - Len(q)) = i
    BY <1>1, <1>3
  <2> QED
    BY <1>1, <2>1
<1> QED
  BY <1>1, <1>2, <1>3

\* A request that fails leaves the snapshot.
LEMMA LatestFails ==
  ASSUME Types, latest' = [latest EXCEPT !.ok = FALSE]
  PROVE  /\ latest' \in [ok : BOOLEAN, snapshot : Candidates]
         /\ Typed(latest'.snapshot)
BY DEF Types, Typed

\* The types hold before the first request.
LEMMA InitTypes == Init => Types
<1> SUFFICES ASSUME Init
             PROVE  Types
  OBVIOUS
<1>1. budget \in [{"faults", "recoveries", "increments"} -> Nat]
  BY MasterAssumption DEF Init
<1>2. Len(peripheral.queue) = 0 /\ 0 <= MaxSnapshotPackets
  BY EmptySeq, Numbers DEF Init
<1> QED
  BY <1>1, <1>2, ZeroSequence DEF Init, Types, Typed

\* A turn of the loop keeps the types.
LEMMA TurnIsTyped ==
  ASSUME Inv, Decoding, Types, NEW packet \in PacketSet \cup {Invalid}, NEW faults \in {0, 1},
         NEW left \in {peripheral.queue, Popped(peripheral.queue)},
         peripheral' = [peripheral EXCEPT !.queue = left],
         packet = Invalid
           \/ (peripheral.queue # <<>> /\ packet = Head(peripheral.queue)
               /\ left = Tail(peripheral.queue)),
         TurnsLoop(packet, faults)
  PROVE  Types'
<1>1. /\ phase = "Read" /\ reads \in Nat /\ reads < MaxSnapshotPackets
      /\ reads' = reads + 1 /\ assembler' = Consume(assembler, packet)
      /\ decoder' = DecoderConsumes(decoder, packet)
      /\ peripheral.queue \in Seq(PacketSet)
  BY DEF Inv, Shape, TurnsLoop
<1>2. packet.sequence \in SequenceNumbers
  <2>1. CASE packet = Invalid
    BY <2>1, ZeroSequence DEF Invalid, Packet
  <2>2. CASE peripheral.queue # <<>> /\ packet = Head(peripheral.queue)
    <3>1. packet = peripheral.queue[1] /\ 1 \in 1 .. Len(peripheral.queue)
      BY <1>1, <2>2, EmptySeq, LenProperties
    <3> QED
      BY <3>1 DEF Types
  <2> QED
    BY <2>1, <2>2
<1>3. Typed(assembler') /\ Typed(decoder')
  BY <1>1, <1>2, ConsumeIsTyped DEF Types
<1>4. latest' \in [ok : BOOLEAN, snapshot : Candidates] /\ Typed(latest'.snapshot)
  <2>1. \/ latest' = [ok |-> TRUE, snapshot |-> assembler]
        \/ latest' = latest
        \/ latest' = [latest EXCEPT !.ok = FALSE]
    BY DEF TurnsLoop, Succeeds, Exhausts
  <2>2. CASE latest' = [ok |-> TRUE, snapshot |-> assembler]
    BY <2>2 DEF Types, Typed
  <2>3. CASE latest' = latest
    BY <2>3 DEF Types
  <2> QED
    BY <2>1, <2>2, <2>3, LatestFails
<1>5. budget' \in [{"faults", "recoveries", "increments"} -> Nat]
  <2>1. CASE EndsRequest(faults)
    BY <2>1, EndKeepsBudget DEF Types
  <2>2. CASE Spend("faults", faults)
    BY <2>2, SpendKeeps DEF Types
  <2> QED
    BY <2>1, <2>2 DEF TurnsLoop
<1>6. /\ peripheral'.queue = left /\ peripheral'.sequence = peripheral.sequence
  BY DEF Inv, Shape
<1>7. \A i \in 1 .. Len(left) : left[i].sequence \in SequenceNumbers
  BY <1>1, PoppedInRange DEF Types
<1>8. reads' <= MaxSnapshotPackets
  BY <1>1, Numbers
<1> QED
  BY <1>3, <1>4, <1>5, <1>6, <1>7, <1>8 DEF Types

\* So does a capture of the peripheral.
LEMMA CapturedIsTyped ==
  ASSUME Inv, Types, NEW kept, NEW sequence \in SequenceNumbers, NEW pending \in Int,
         kept \in {peripheral.queue, <<>>}, Captured(kept, sequence, pending),
         UNCHANGED <<reads, assembler, latest, decoder>>,
         budget' \in [{"faults", "recoveries", "increments"} -> Nat]
  PROVE  Types'
<1> DEFINE whole == SnapshotPackets(NextCapture, sequence)
<1>1. NextCapture \in CaptureNumbers /\ sequence \in Int
  BY Numbers DEF Inv, Shape, NextCapture, CaptureNumbers, SequenceNumbers
<1>2. whole \in Seq(PacketSet) /\ Len(whole) = N + 3
  BY <1>1, SnapshotParts
<1>3. \A i \in 1 .. Len(whole) : whole[i].sequence \in SequenceNumbers
  BY <1>1, <1>2, SnapshotSequence
<1>4. /\ peripheral'.queue = kept \o whole
      /\ peripheral'.sequence = (sequence + 1) % SequenceModulus
  BY DEF Captured
<1>5. kept \in Seq(PacketSet) /\ \A i \in 1 .. Len(kept) : kept[i].sequence \in SequenceNumbers
  <2>1. CASE kept = peripheral.queue
    BY <2>1 DEF Types, Inv, Shape
  <2>2. CASE kept = <<>>
    BY <2>2, EmptySeq
  <2> QED
    BY <2>1, <2>2
<1> HIDE DEF whole
<1>6. \A i \in 1 .. Len(kept \o whole) : (kept \o whole)[i].sequence \in SequenceNumbers
  BY <1>2, <1>3, <1>5, LongerInRange
<1>7. (sequence + 1) % SequenceModulus \in SequenceNumbers
  BY Numbers DEF SequenceNumbers
<1> QED
  BY <1>4, <1>6, <1>7 DEF Types

\* Every step keeps the types.
LEMMA NextTypes == Inv /\ Decoding /\ Types /\ [Next]_vars => Types'
<1> SUFFICES ASSUME Inv, Decoding, Types, [Next]_vars
             PROVE  Types'
  OBVIOUS
<1>1. peripheral.queue \in Seq(PacketSet) /\ peripheral.sequence \in SequenceNumbers
  BY DEF Inv, Shape, Types
<1>2. CASE SendCommand
  <2>1. /\ peripheral'.queue = Popped(peripheral.queue)
        /\ peripheral'.sequence = peripheral.sequence
    <3>1. \/ peripheral' = [peripheral EXCEPT !.queue = Popped(@), !.pending = @ + 1]
          \/ peripheral' = [peripheral EXCEPT !.queue = Popped(@)]
      BY <1>2 DEF SendCommand
    <3> QED
      BY <3>1 DEF Inv, Shape
  <2>2. \A i \in 1 .. Len(Popped(peripheral.queue)) :
          Popped(peripheral.queue)[i].sequence \in SequenceNumbers
    BY <1>1, PoppedInRange DEF Types
  <2>3. budget' \in [{"faults", "recoveries", "increments"} -> Nat]
    <3>1. UNCHANGED budget \/ Spend("faults", 1)
      BY <1>2 DEF SendCommand
    <3> QED
      BY <3>1, SpendKeeps DEF Types
  <2>4. UNCHANGED <<reads, assembler, latest, decoder>>
    BY <1>2 DEF SendCommand
  <2> QED
    BY <2>1, <2>2, <2>3, <2>4 DEF Types
<1>3. CASE SeesIrq
  BY <1>3, ZeroSequence, Numbers DEF SeesIrq, Types
<1>4. CASE TimesOut
  <2>1. budget' \in [{"faults", "recoveries", "increments"} -> Nat]
    BY <1>4, EndKeepsBudget DEF TimesOut, Types
  <2>2. latest' \in [ok : BOOLEAN, snapshot : Candidates] /\ Typed(latest'.snapshot)
    BY <1>4, LatestFails DEF TimesOut
  <2>3. UNCHANGED <<reads, assembler, decoder, peripheral>>
    BY <1>4 DEF TimesOut
  <2> QED
    BY <2>1, <2>2, <2>3 DEF Types
<1>5. CASE ReadPacket \/ ReadSpoilt
  BY <1>5, ReadIsTurn, TurnIsTyped
<1>6. CASE Answer
  <2>1. PICK kept \in {peripheral.queue, <<>>} :
          Captured(kept, peripheral.sequence, peripheral.pending - 1)
    BY <1>6 DEF Answer
  <2>2. peripheral.pending - 1 \in Int
    BY DEF Inv, Shape
  <2>3. /\ UNCHANGED <<reads, assembler, latest, decoder>>
        /\ budget' \in [{"faults", "recoveries", "increments"} -> Nat]
    BY <1>6 DEF Answer, Types
  <2> QED
    BY <1>1, <2>1, <2>2, <2>3, CapturedIsTyped
<1>7. CASE Recover
  <2>1. PICK sequence \in {0, peripheral.sequence} : Captured(<<>>, sequence, 0)
    BY <1>7 DEF Recover
  <2>2. sequence \in SequenceNumbers /\ 0 \in Int
    BY <1>1, <2>1, ZeroSequence
  <2>3. budget' \in [{"faults", "recoveries", "increments"} -> Nat]
    BY <1>7, SpendKeeps DEF Recover, Types
  <2>4. UNCHANGED <<reads, assembler, latest, decoder>>
    BY <1>7 DEF Recover
  <2> QED
    BY <2>1, <2>2, <2>3, <2>4, CapturedIsTyped
<1>8. CASE ReportChange
  <2>1. PICK packet \in PacketSet : packet.sequence = 0 /\ Report(packet)
    BY <1>8, ReportedPacket
  <2>2. <<packet>> \in Seq(PacketSet) /\ Len(<<packet>>) = 1 /\ <<packet>>[1] = packet
    OBVIOUS
  <2>3. \A i \in 1 .. Len(<<packet>>) : <<packet>>[i].sequence \in SequenceNumbers
    BY <2>1, <2>2, ZeroSequence
  <2> DEFINE longer == peripheral.queue \o <<packet>>
  <2>4. \A i \in 1 .. Len(longer) : longer[i].sequence \in SequenceNumbers
    BY <1>1, <2>2, <2>3, LongerInRange DEF Types
  <2>5. Append(peripheral.queue, packet) = longer
    BY <1>1, AppendIsConcat
  <2> HIDE DEF longer
  <2>6. peripheral' = [peripheral EXCEPT !.queue = longer]
    BY <2>1, <2>5 DEF Report
  <2>7. peripheral'.queue = longer /\ peripheral'.sequence = peripheral.sequence
    BY <2>6 DEF Inv, Shape
  <2>8. budget' \in [{"faults", "recoveries", "increments"} -> Nat]
    BY <2>1, SpendKeeps DEF Report, Types
  <2>9. UNCHANGED <<reads, assembler, latest, decoder>>
    BY <2>1 DEF Report
  <2> QED
    BY <2>4, <2>7, <2>8, <2>9 DEF Types
<1>9. CASE UNCHANGED vars
  BY <1>9 DEF vars, Types
<1> QED
  BY <1>2, <1>3, <1>4, <1>5, <1>6, <1>7, <1>8, <1>9 DEF Next

\* The master reads no more frames than a snapshot has packets, and what
\* assembler, decoder and peripheral hold stays in the ranges declared for it.
THEOREM MasterTypeOK == Spec => []TypeOK
<1>1. Spec => [](Inv /\ Decoding /\ Types)
  BY InitInv, NextInv, InitDecoding, NextDecoding, InitTypes, NextTypes, PTL DEF Spec
<1>2. Inv /\ Decoding /\ Types => TypeOK
  <2> SUFFICES ASSUME Inv, Decoding, Types
               PROVE  TypeOK
    OBVIOUS
  <2>1. /\ phase \in {"Delay", "Wait", "Read"} /\ reads \in Nat
        /\ phase = "Read" => reads < MaxSnapshotPackets
        /\ peripheral.capture \in 0 .. Captures - 1
    BY DEF Inv, Shape, CaptureNumbers
  <2>2. reads \in 0 .. MaxSnapshotPackets
    BY <2>1, Numbers DEF Types
  <2>3. \A candidate \in {assembler, latest.snapshot, decoder} : Typed(candidate)
    BY DEF Types
  <2>4. \A fault \in DOMAIN budget : budget[fault] \in Nat
    BY DEF Types
  <2> QED
    BY <2>1, <2>2, <2>3, <2>4 DEF TypeOK, Typed, Candidates, SequenceNumbers
<1> QED
  BY <1>1, <1>2, PTL

-----------------------------------------------------------------------------
(* The age of what is accepted *)

\* How many captures the peripheral is past one.
Behind(now, capture) == (now - capture) % Captures

\* As many packets as n answers have.
Packets(n) == n * MaxSnapshotPackets

\* The arithmetic of answers.
LEMMA PacketsOfAnswers ==
  /\ Packets(0) = 0
  /\ \A n \in Int : Packets(n) \in Int /\ Packets(n + 1) = Packets(n) + (N + 3)
  /\ \A m, n \in Int : m <= n => Packets(m) <= Packets(n)
  /\ \A m, n \in Int : Packets(m - n) = Packets(m) - Packets(n)
<1> DEFINE p == N + 3
<1>1. p \in Nat /\ MaxSnapshotPackets = p
  BY Numbers
<1> HIDE DEF p
<1>2. \A n \in Int : n * p \in Int /\ (n + 1) * p = n * p + p
  BY <1>1
<1>3. ASSUME NEW m \in Int, NEW n \in Int
      PROVE  (m - n) * p = m * p - n * p
  BY <1>1, <1>3
<1>4. ASSUME NEW m \in Int, NEW n \in Int, m <= n
      PROVE  m * p <= n * p
  <2>1. n - m \in Nat
    BY <1>4
  <2>2. (n - m) * p >= 0
    BY <1>1, <2>1
  <2>3. (n - m) * p = n * p - m * p
    BY <1>3
  <2>4. n * p \in Int /\ m * p \in Int
    BY <1>2
  <2> QED
    BY <2>2, <2>3, <2>4
<1>5. 0 * p = 0
  BY <1>1
<1> QED
  BY <1>1, <1>2, <1>3, <1>4, <1>5 DEF Packets, p

\* One capture more is one more behind at the most, and none for its own.
LEMMA OneMoreBehind ==
  ASSUME NEW now \in CaptureNumbers
  PROVE  /\ (now + 1) % Captures \in CaptureNumbers
         /\ Behind((now + 1) % Captures, (now + 1) % Captures) = 0
         /\ \A capture \in CaptureNumbers :
              /\ Behind(now, capture) \in Nat
              /\ Behind((now + 1) % Captures, capture) \in Nat
              /\ Behind((now + 1) % Captures, capture) <= Behind(now, capture) + 1
<1> DEFINE next == (now + 1) % Captures
<1>1. Captures \in Nat /\ Captures > 0 /\ now \in 0 .. Captures - 1
  BY Numbers DEF CaptureNumbers
<1>2. next = IF now + 1 = Captures THEN 0 ELSE now + 1
  BY <1>1
<1> HIDE DEF next
<1>3. next \in 0 .. Captures - 1
  BY <1>1, <1>2
<1>4. ASSUME NEW a \in 0 .. Captures - 1, NEW b \in 0 .. Captures - 1
      PROVE  (a - b) % Captures = IF a >= b THEN a - b ELSE (a - b) + Captures
  <2>1. CASE a >= b
    <3>1. a - b \in 0 .. Captures - 1
      BY <1>1, <2>1
    <3> QED
      BY <1>1, <2>1, <3>1
  <2>2. CASE a < b
    <3> DEFINE d == a - b
    <3>1. d \in Int /\ -Captures < d /\ d < 0
      BY <1>1, <2>2
    <3> HIDE DEF d
    <3>2. d % Captures = d + Captures
      BY <1>1, <3>1
    <3> QED
      BY <1>1, <2>2, <3>2 DEF d
  <2> QED
    BY <1>1, <2>1, <2>2
<1>5. Behind(next, next) = 0
  BY <1>1, <1>3, <1>4 DEF Behind
<1>6. ASSUME NEW capture \in 0 .. Captures - 1
      PROVE  /\ Behind(now, capture) \in Nat
             /\ Behind(next, capture) \in Nat
             /\ Behind(next, capture) <= Behind(now, capture) + 1
  <2>1. /\ Behind(now, capture) = IF now >= capture THEN now - capture ELSE (now - capture) + Captures
        /\ Behind(next, capture) = IF next >= capture THEN next - capture ELSE (next - capture) + Captures
    BY <1>1, <1>3, <1>4 DEF Behind
  <2> QED
    BY <1>1, <1>2, <1>3, <2>1
<1> QED
  BY <1>3, <1>5, <1>6 DEF next, CaptureNumbers

\* The buttons queued have as many packets behind them as the answers since their
\* capture have, and the END of their own.
QueueAges(queue, now) ==
  \A i \in 1 .. Len(queue) :
    queue[i].type = "ButtonState" /\ queue[i].capture \in CaptureNumbers =>
      Packets(Behind(now, queue[i].capture)) <= Len(queue) - (i + 1)

\* So have the buttons assembled, if everything is seen, unless the queue begins
\* anew.
AssemblyAge(candidate, queue, now) ==
  candidate.active /\ AllSeen(candidate) =>
    \/ StartsWithBegin(queue)
    \/ Packets(Behind(now, candidate.buttons)) <= Len(queue) - 1

\* An assembly with everything seen within the loop holds a capture.
LEMMA SeenInTime ==
  ASSUME NEW candidate, NEW turns \in Nat, turns < MaxSnapshotPackets, NEW queue,
         AssemblyOK(candidate, turns, queue), candidate.active, AllSeen(candidate)
  PROVE  candidate.buttons \in CaptureNumbers /\ turns = N + 2
<1>1. ~TooLate(candidate, turns)
  <2>1. Cardinality(Filled(candidate)) = N + 1
    BY FilledIsFinite
  <2> QED
    BY <2>1, Numbers DEF TooLate
<1>2. PICK capture \in CaptureNumbers, k \in 0 .. N + 1 :
        turns = k + 1 /\ HasFirst(candidate, k, capture)
  BY <1>1 DEF AssemblyOK, InStep
<1> QED
  BY <1>2, Numbers DEF HasFirst, AllSeen

\* The first packet taken, or none.
LEMMA PoppedAges ==
  ASSUME NEW queue \in Seq(PacketSet), NEW now, QueueAges(queue, now)
  PROVE  QueueAges(Popped(queue), now)
<1>1. CASE queue = <<>>
  BY <1>1 DEF Popped
<1>2. CASE queue # <<>>
  <2>1. /\ Len(Tail(queue)) = Len(queue) - 1 /\ Len(queue) \in Nat
        /\ \A i \in 1 .. Len(Tail(queue)) : Tail(queue)[i] = queue[i + 1]
    BY <1>2, HeadTailProperties, LenProperties
  <2>2. ASSUME NEW i \in 1 .. Len(Tail(queue))
        PROVE  i + 1 \in 1 .. Len(queue) /\ Len(Tail(queue)) - (i + 1) = Len(queue) - ((i + 1) + 1)
    BY <2>1
  <2>3. QueueAges(Tail(queue), now)
    BY <2>1, <2>2 DEF QueueAges
  <2> QED
    BY <1>2, <2>3 DEF Popped
<1> QED
  BY <1>1, <1>2

\* A change reported behind the queue is of no capture.
LEMMA ReportAges ==
  ASSUME NEW queue \in Seq(PacketSet), NEW now \in CaptureNumbers, QueueAges(queue, now),
         NEW packet \in PacketSet, packet.capture = Changed
  PROVE  QueueAges(Append(queue, packet), now)
<1> DEFINE longer == Append(queue, packet)
<1>1. /\ Len(queue) \in Nat /\ Len(longer) = Len(queue) + 1
      /\ \A i \in 1 .. Len(queue) : longer[i] = queue[i]
      /\ longer[Len(queue) + 1] = packet
  BY AppendProperties, LenProperties
<1> HIDE DEF longer
<1>2. Changed \notin CaptureNumbers
  BY Numbers DEF CaptureNumbers
<1> SUFFICES ASSUME NEW i \in 1 .. Len(longer), longer[i].type = "ButtonState",
                    longer[i].capture \in CaptureNumbers
             PROVE  Packets(Behind(now, longer[i].capture)) <= Len(longer) - (i + 1)
  BY DEF QueueAges, longer
<1>3. i \in 1 .. Len(queue)
  BY <1>1, <1>2
<1>4. /\ queue[i] = longer[i]
      /\ Packets(Behind(now, queue[i].capture)) <= Len(queue) - (i + 1)
  BY <1>1, <1>3 DEF QueueAges
<1>5. Packets(Behind(now, queue[i].capture)) \in Int
  <2>1. Behind(now, queue[i].capture) \in Nat
    BY <1>4, OneMoreBehind
  <2>2. Behind(now, queue[i].capture) \in Int
    BY <2>1
  <2> QED
    BY <2>2, PacketsOfAnswers
<1> QED
  BY <1>1, <1>3, <1>4, <1>5

\* Behind the queue comes an answer of the next capture.
LEMMA AnswerAges ==
  ASSUME NEW queue \in Seq(PacketSet), NEW now \in CaptureNumbers, QueueAges(queue, now),
         NEW sequence \in Int
  PROVE  QueueAges(queue \o SnapshotPackets((now + 1) % Captures, sequence), (now + 1) % Captures)
<1> DEFINE next  == (now + 1) % Captures
           whole == SnapshotPackets(next, sequence)
           both  == queue \o whole
<1>1. next \in CaptureNumbers /\ Behind(next, next) = 0
  BY OneMoreBehind
<1>2. /\ whole \in Seq(PacketSet) /\ Len(whole) = N + 3
      /\ whole[1] = Packet("Begin", N, NoCapture, sequence)
      /\ \A c \in Controls : whole[c + 2] = Packet("ParamState", c, next, sequence)
      /\ whole[N + 2] = Packet("ButtonState", 0, next, sequence)
      /\ whole[N + 3] = Packet("End", N, NoCapture, sequence)
  BY <1>1, SnapshotParts
<1>3. \A capture \in CaptureNumbers :
        /\ Behind(now, capture) \in Nat
        /\ Behind(next, capture) \in Nat
        /\ Behind(next, capture) <= Behind(now, capture) + 1
  BY OneMoreBehind
<1> HIDE DEF next, whole
<1>4. /\ Len(queue) \in Nat /\ Len(both) = Len(queue) + (N + 3)
      /\ \A i \in 1 .. Len(queue) : both[i] = queue[i]
      /\ \A i \in 1 .. N + 3 : both[Len(queue) + i] = whole[i]
  <2>1. /\ Len(queue) \in Nat /\ Len(both) = Len(queue) + Len(whole)
        /\ \A i \in 1 .. Len(queue) : both[i] = queue[i]
        /\ \A i \in 1 .. Len(whole) : both[Len(queue) + i] = whole[i]
    BY <1>2, Concat
  <2> QED
    BY <1>2, <2>1
<1> HIDE DEF both
<1>5. ASSUME NEW i \in 1 .. N + 3, whole[i].type = "ButtonState"
      PROVE  i = N + 2
  <2>1. CASE i = 1 \/ i = N + 3
    BY <1>2, <1>5, <2>1 DEF Packet
  <2>2. CASE i \in 2 .. N + 1
    <3>1. i - 2 \in Controls /\ (i - 2) + 2 = i
      BY <2>2, Numbers
    <3>2. whole[(i - 2) + 2] = Packet("ParamState", i - 2, next, sequence)
      BY <1>2, <3>1
    <3> QED
      BY <1>5, <3>1, <3>2 DEF Packet
  <2> QED
    BY <2>1, <2>2, Numbers
<1> SUFFICES ASSUME NEW i \in 1 .. Len(both), both[i].type = "ButtonState",
                    both[i].capture \in CaptureNumbers
             PROVE  Packets(Behind(next, both[i].capture)) <= Len(both) - (i + 1)
  BY DEF QueueAges, both, whole, next
<1>6. CASE i <= Len(queue)
  <2>1. i \in 1 .. Len(queue) /\ both[i] = queue[i]
    BY <1>4, <1>6
  <2> DEFINE old == Behind(now, queue[i].capture)
             new == Behind(next, queue[i].capture)
  <2>2. Packets(old) <= Len(queue) - (i + 1)
    BY <2>1 DEF QueueAges
  <2>3. old \in Nat /\ new \in Nat /\ new <= old + 1
    BY <1>3, <2>1
  <2> HIDE DEF old, new
  <2>4. old + 1 \in Int /\ old \in Int /\ new \in Int
    BY <2>3
  <2>5. Packets(new) <= Packets(old + 1) /\ Packets(old + 1) = Packets(old) + (N + 3)
    BY <2>3, <2>4, PacketsOfAnswers
  <2>6. Packets(old) \in Int /\ Packets(new) \in Int
    BY <2>4, PacketsOfAnswers
  <2>7. Packets(new) <= Len(both) - (i + 1)
    BY <1>4, <2>2, <2>5, <2>6, Numbers
  <2> QED
    BY <2>1, <2>7 DEF new
<1>7. CASE i > Len(queue)
  <2>1. i - Len(queue) \in 1 .. N + 3 /\ Len(queue) + (i - Len(queue)) = i
    BY <1>4, <1>7, Numbers
  <2>2. both[i] = whole[i - Len(queue)]
    BY <1>4, <2>1
  <2>3. i - Len(queue) = N + 2
    BY <1>5, <2>1, <2>2
  <2>4. both[i].capture = next
    BY <1>2, <2>2, <2>3 DEF Packet
  <2> QED
    BY <1>1, <1>4, <2>3, <2>4, PacketsOfAnswers, Numbers
<1> QED
  BY <1>4, <1>6, <1>7

\* There is nothing in an empty queue.
LEMMA NoAges == \A now : QueueAges(<<>>, now)
<1>1. Len(<<>>) = 0
  BY EmptySeq
<1> QED
  BY <1>1 DEF QueueAges

\* What comes behind the queue leaves room for what is more behind.
LEMMA BehindAges ==
  ASSUME NEW candidate, NEW turns \in Nat, turns < MaxSnapshotPackets,
         NEW queue \in Seq(PacketSet), AssemblyOK(candidate, turns, queue),
         NEW now \in CaptureNumbers, AssemblyAge(candidate, queue, now),
         NEW more \in Seq(PacketSet)
  PROVE  /\ AssemblyAge(candidate, queue \o more, now)
         /\ Len(more) = N + 3 => AssemblyAge(candidate, queue \o more, (now + 1) % Captures)
<1> DEFINE next == (now + 1) % Captures
           both == queue \o more
<1>1. /\ Len(queue) \in Nat /\ Len(more) \in Nat /\ Len(both) = Len(queue) + Len(more)
      /\ \A i \in 1 .. Len(queue) : both[i] = queue[i]
  BY Concat
<1>2. \A capture \in CaptureNumbers :
        /\ Behind(now, capture) \in Nat
        /\ Behind(next, capture) \in Nat
        /\ Behind(next, capture) <= Behind(now, capture) + 1
  BY OneMoreBehind
<1> HIDE DEF next, both
<1>3. StartsWithBegin(queue) => StartsWithBegin(both)
  BY <1>1 DEF StartsWithBegin
<1>4. ASSUME candidate.active, AllSeen(candidate), ~StartsWithBegin(queue)
      PROVE  /\ Packets(Behind(now, candidate.buttons)) <= Len(both) - 1
             /\ Len(more) = N + 3 => Packets(Behind(next, candidate.buttons)) <= Len(both) - 1
  <2> DEFINE old == Behind(now, candidate.buttons)
             new == Behind(next, candidate.buttons)
  <2>1. Packets(old) <= Len(queue) - 1
    BY <1>4 DEF AssemblyAge
  <2>2. candidate.buttons \in CaptureNumbers
    BY <1>4, SeenInTime
  <2>3. old \in Nat /\ new \in Nat /\ new <= old + 1
    BY <1>2, <2>2
  <2> HIDE DEF old, new
  <2>4. old + 1 \in Int /\ old \in Int /\ new \in Int
    BY <2>3
  <2>5. Packets(new) <= Packets(old + 1) /\ Packets(old + 1) = Packets(old) + (N + 3)
    BY <2>3, <2>4, PacketsOfAnswers
  <2>6. Packets(old) \in Int /\ Packets(new) \in Int
    BY <2>4, PacketsOfAnswers
  <2>7. Packets(old) <= Len(both) - 1 /\ (Len(more) = N + 3 => Packets(new) <= Len(both) - 1)
    BY <1>1, <2>1, <2>5, <2>6, Numbers
  <2> QED
    BY <2>7 DEF old, new
<1> QED
  BY <1>3, <1>4 DEF AssemblyAge, next, both

\* One turn: what has just seen everything has taken the buttons with their age.
LEMMA TurnAges ==
  ASSUME NEW candidate \in Candidates, NEW turns \in Nat, turns + 1 < MaxSnapshotPackets,
         NEW queue, QueueOK(queue), queue # <<>>, AssemblyOK(candidate, turns, queue),
         turns = 0 => ~candidate.active, NEW now, QueueAges(queue, now)
  PROVE  AssemblyAge(Consume(candidate, Head(queue)), Tail(queue), now)
<1> DEFINE packet == Head(queue)
           next   == Consume(candidate, packet)
<1>1. /\ queue \in Seq(PacketSet) /\ packet \in PacketSet /\ packet = queue[1]
      /\ Len(Tail(queue)) = Len(queue) - 1 /\ Len(queue) \in Nat /\ Len(queue) >= 1
  BY HeadTailProperties, LenProperties, EmptySeq DEF QueueOK
<1> SUFFICES ASSUME next.active, AllSeen(next)
             PROVE  Packets(Behind(now, next.buttons)) <= Len(queue) - 2
  BY <1>1 DEF AssemblyAge
<1>2. packet.type # "Begin"
  <2>1. packet.type = "Begin" => next.buttons = NoCapture
    BY BeginEmpties
  <2> QED
    BY <2>1 DEF AllSeen
<1>3. candidate.active
  <2>1. packet.type \in {"ParamState", "ButtonState", "End"}
    BY <1>1, <1>2 DEF PacketSet
  <2> QED
    BY <2>1, ResetIsCandidate DEF Consume, WithParam, WithButtons, Candidates
<1>4. ~TooLate(candidate, turns)
  <2> SUFFICES ASSUME TooLate(candidate, turns)
               PROVE  FALSE
    OBVIOUS
  <2>1. AssemblyOK(next, turns + 1, <<>>)
    BY <1>1, <1>2, LateTurn
  <2>2. TooLate(next, turns + 1)
    BY <2>1, EmptySeq, Numbers DEF AssemblyOK, InStep, Continues, StartsWithBegin
  <2>3. Cardinality(Filled(next)) = N + 1
    BY FilledIsFinite
  <2> QED
    BY <2>2, <2>3, Numbers DEF TooLate
<1>5. PICK capture \in CaptureNumbers, sequence \in Int, k \in 0 .. N + 1 :
        /\ HasFirst(candidate, k, capture)
        /\ Continues(queue, 1, capture, sequence, k + 2)
  BY <1>1, <1>2, <1>3, <1>4 DEF AssemblyOK, InStep, StartsWithBegin
<1>6. packet = SnapshotPackets(capture, sequence)[k + 2]
  BY <1>5, NextPacket
<1>7. k + 1 \in 0 .. N + 1 /\ HasFirst(next, k + 1, capture)
  BY <1>5, <1>6, NextPlace
<1>8. k = N /\ next.buttons = capture
  BY <1>7, Numbers DEF HasFirst, AllSeen
<1>9. packet = Packet("ButtonState", 0, capture, sequence)
  BY <1>6, <1>8, SnapshotParts
<1>10. packet.type = "ButtonState" /\ packet.capture = capture
  BY <1>9 DEF Packet
<1>11. 1 \in 1 .. Len(queue) /\ Len(queue) - (1 + 1) = Len(queue) - 2
  BY <1>1
<1> QED
  BY <1>1, <1>8, <1>10, <1>11 DEF QueueAges

\* As many packets as may be outstanding after so many faults, and between two
\* requests: one answer, and one for every fault after the first.
Allowance(faults) == Packets(IF faults = 0 THEN 1 ELSE faults)

\* A fault allows more, and a fault after the first a whole answer more.
LEMMA FaultAllows ==
  ASSUME NEW faults \in Nat
  PROVE  /\ Allowance(faults) \in Int
         /\ Allowance(faults) >= N + 3
         /\ faults = 0 => Allowance(faults) = N + 3
         /\ \A more \in {1, 2} :
              /\ Allowance(faults + more) \in Int
              /\ faults = 0 => Allowance(faults + more) >= N + 3
              /\ faults > 0 => Allowance(faults + more) >= Allowance(faults) + (N + 3)
<1>1. N + 3 \in Nat
  BY Numbers
<1>2. Packets(0 + 1) = Packets(0) + (N + 3) /\ Packets(0) = 0 /\ 0 + 1 = 1
  BY PacketsOfAnswers
<1>3. Packets(1) = N + 3
  BY <1>1, <1>2
<1>4. ASSUME NEW n \in Nat, n > 0
      PROVE  Packets(n) \in Int /\ Packets(n) >= N + 3
  <2>1. n \in Int /\ 1 \in Int /\ 1 <= n
    BY <1>4
  <2> QED
    BY <1>3, <2>1, PacketsOfAnswers
<1>5. ASSUME NEW more \in {1, 2}, faults > 0
      PROVE  Packets(faults + more) >= Packets(faults) + (N + 3)
  <2>1. faults \in Int /\ faults + 1 \in Int /\ faults + more \in Int /\ faults + 1 <= faults + more
    OBVIOUS
  <2>2. /\ Packets(faults + 1) = Packets(faults) + (N + 3)
        /\ Packets(faults + 1) <= Packets(faults + more)
        /\ Packets(faults) \in Int /\ Packets(faults + more) \in Int
    BY <2>1, PacketsOfAnswers
  <2> QED
    BY <1>1, <2>2
<1>6. \A more \in {1, 2} : faults + more \in Nat /\ faults + more > 0
  OBVIOUS
<1>7. Allowance(faults) = IF faults = 0 THEN Packets(1) ELSE Packets(faults)
  BY DEF Allowance
<1>8. \A more \in {1, 2} : Allowance(faults + more) = Packets(faults + more)
  BY <1>6 DEF Allowance
<1>9. 1 \in Nat /\ 1 > 0
  OBVIOUS
<1> QED
  BY <1>1, <1>3, <1>4, <1>5, <1>6, <1>7, <1>8, <1>9

\* What is queued and what answers are due, while a request goes on with the turns
\* it has taken: the command may have added one answer more.
BacklogOK(place, queued, pending, turns, faults, reports) ==
  /\ queued \in Nat /\ pending \in Nat /\ turns \in Nat /\ faults \in Nat /\ reports \in Nat
  /\ place # "Read" => turns = 0
  /\ turns < N + 3
  /\ faults = 0 => pending <= IF place = "Delay" THEN 0 ELSE 1
  /\ queued + Packets(pending) + turns <=
       Allowance(faults) + reports
         + (IF place = "Delay" THEN 0 ELSE N + 3 - (IF faults = 0 THEN 1 ELSE 0))

\* The command is taken, or lost.
LEMMA SendBacklog ==
  ASSUME NEW queued, NEW pending, NEW faults, NEW reports,
         BacklogOK("Delay", queued, pending, 0, faults, reports),
         NEW left \in Nat, left = IF queued = 0 THEN 0 ELSE queued - 1
  PROVE  /\ BacklogOK("Wait", left, pending + 1, 0, faults, reports)
         /\ BacklogOK("Wait", left, pending, 0, faults + 1, reports)
<1>1. N \in Nat
  BY Numbers
<1>2. /\ queued \in Nat /\ pending \in Nat /\ faults \in Nat /\ reports \in Nat
      /\ faults = 0 => pending <= 0
      /\ queued + Packets(pending) + 0 <= Allowance(faults) + reports + 0
  BY DEF BacklogOK
<1>3. /\ Packets(pending) \in Int /\ Packets(pending + 1) = Packets(pending) + (N + 3)
      /\ pending = 0 => Packets(pending) = 0
  BY <1>2, PacketsOfAnswers
<1>4. /\ Allowance(faults) \in Int /\ Allowance(faults + 1) \in Int
      /\ Allowance(faults) >= N + 3
      /\ faults = 0 => Allowance(faults) = N + 3
      /\ faults = 0 => Allowance(faults + 1) >= N + 3
      /\ faults > 0 => Allowance(faults + 1) >= Allowance(faults) + (N + 3)
  BY <1>2, FaultAllows
<1>5. faults = 0 => pending = 0
  BY <1>2
<1>6. BacklogOK("Wait", left, pending + 1, 0, faults, reports)
  BY <1>1, <1>2, <1>3, <1>4, <1>5 DEF BacklogOK
<1>7. BacklogOK("Wait", left, pending, 0, faults + 1, reports)
  BY <1>1, <1>2, <1>3, <1>4, <1>5 DEF BacklogOK
<1> QED
  BY <1>6, <1>7

\* A request that saw no IRQ: an answer still due is a fault.
LEMMA TimeoutBacklog ==
  ASSUME NEW pending, NEW faults, NEW reports,
         BacklogOK("Wait", 0, pending, 0, faults, reports),
         NEW more \in Nat, more = IF pending > 0 THEN 1 ELSE 0
  PROVE  BacklogOK("Delay", 0, pending, 0, faults + more, reports)
<1>1. N \in Nat
  BY Numbers
<1>2. /\ pending \in Nat /\ faults \in Nat /\ reports \in Nat
      /\ faults = 0 => pending <= 1
      /\ 0 + Packets(pending) + 0 <= Allowance(faults) + reports
           + (N + 3 - (IF faults = 0 THEN 1 ELSE 0))
  BY DEF BacklogOK
<1>3. Packets(pending) \in Int /\ Packets(0) = 0 /\ Packets(0 + 1) = 0 + (N + 3)
  BY <1>2, PacketsOfAnswers
<1>4. /\ Allowance(faults) \in Int /\ Allowance(faults + 1) \in Int /\ Allowance(faults) >= N + 3
      /\ faults = 0 => Allowance(faults + 1) >= N + 3
      /\ faults > 0 => Allowance(faults + 1) >= Allowance(faults) + (N + 3)
  BY <1>2, FaultAllows
<1>5. CASE pending = 0
  <2>1. more = 0 /\ faults + more = faults
    BY <1>2, <1>5
  <2> QED
    BY <1>1, <1>2, <1>3, <1>4, <1>5, <2>1 DEF BacklogOK
<1>6. CASE pending > 0
  <2>1. more = 1 /\ (faults = 0 => pending = 0 + 1)
    BY <1>2, <1>6
  <2> QED
    BY <1>1, <1>2, <1>3, <1>4, <1>6, <2>1 DEF BacklogOK
<1> QED
  BY <1>2, <1>5, <1>6

\* A turn of the loop takes a packet, or there is nothing outstanding, or it is a
\* fault; the last turn gives the answer back that the command added.
LEMMA TurnBacklog ==
  ASSUME NEW queued, NEW pending, NEW turns, NEW faults, NEW reports,
         BacklogOK("Read", queued, pending, turns, faults, reports),
         NEW fault \in {0, 1}, NEW left \in Nat, left <= queued,
         fault = 0 => (queued = 0 /\ left = 0 /\ pending = 0) \/ left = queued - 1,
         NEW more \in Nat, more = IF pending > 0 THEN fault + 1 ELSE fault
  PROVE  /\ turns + 1 < N + 3 => BacklogOK("Read", left, pending, turns + 1, faults + fault, reports)
         /\ turns + 1 = N + 3 => BacklogOK("Delay", left, pending, 0, faults + more, reports)
<1>1. N \in Nat
  BY Numbers
<1>2. /\ queued \in Nat /\ pending \in Nat /\ turns \in Nat /\ faults \in Nat /\ reports \in Nat
      /\ faults = 0 => pending <= 1
      /\ queued + Packets(pending) + turns <= Allowance(faults) + reports
           + (N + 3 - (IF faults = 0 THEN 1 ELSE 0))
  BY DEF BacklogOK
<1>3. Packets(pending) \in Int /\ (pending = 0 => Packets(pending) = 0)
  BY <1>2, PacketsOfAnswers
<1>4. /\ Allowance(faults) \in Int /\ Allowance(faults + 1) \in Int /\ Allowance(faults + 2) \in Int
      /\ Allowance(faults) >= N + 3
      /\ faults = 0 => Allowance(faults) = N + 3
      /\ faults = 0 => Allowance(faults + 1) >= N + 3 /\ Allowance(faults + 2) >= N + 3
      /\ faults > 0 => /\ Allowance(faults + 1) >= Allowance(faults) + (N + 3)
                       /\ Allowance(faults + 2) >= Allowance(faults) + (N + 3)
  BY <1>2, FaultAllows
<1>5. ASSUME turns + 1 < N + 3
      PROVE  BacklogOK("Read", left, pending, turns + 1, faults + fault, reports)
  <2>1. CASE fault = 0
    <3>1. faults + fault = faults
      BY <1>2, <2>1
    <3>2. left + Packets(pending) + (turns + 1) <=
            Allowance(faults) + reports + (N + 3 - (IF faults = 0 THEN 1 ELSE 0))
      <4>1. CASE queued = 0 /\ left = 0 /\ pending = 0
        BY <1>1, <1>2, <1>3, <1>4, <1>5, <4>1
      <4>2. CASE left = queued - 1
        BY <1>1, <1>2, <1>3, <1>4, <4>2
      <4> QED
        BY <2>1, <4>1, <4>2
    <3> QED
      BY <1>2, <1>5, <3>1, <3>2 DEF BacklogOK
  <2>2. CASE fault = 1
    BY <1>1, <1>2, <1>3, <1>4, <1>5, <2>2 DEF BacklogOK
  <2> QED
    BY <2>1, <2>2
<1>6. ASSUME turns + 1 = N + 3
      PROVE  BacklogOK("Delay", left, pending, 0, faults + more, reports)
  <2>1. CASE more = 0
    <3>1. faults + more = faults /\ fault = 0 /\ pending = 0
      BY <1>2, <2>1
    <3> QED
      BY <1>1, <1>2, <1>3, <1>4, <1>6, <3>1 DEF BacklogOK
  <2>2. CASE more = 1
    BY <1>1, <1>2, <1>3, <1>4, <1>6, <2>2 DEF BacklogOK
  <2>3. CASE more = 2
    BY <1>1, <1>2, <1>3, <1>4, <1>6, <2>3 DEF BacklogOK
  <2> QED
    BY <1>2, <2>1, <2>2, <2>3
<1> QED
  BY <1>5, <1>6

\* An answer queued is one less due; a recovery leaves one, a report is counted.
LEMMA PeripheralBacklog ==
  ASSUME NEW place, NEW queued, NEW pending, NEW turns, NEW faults, NEW reports,
         BacklogOK(place, queued, pending, turns, faults, reports)
  PROVE  /\ \A kept \in {queued, 0} :
              pending > 0 => BacklogOK(place, kept + (N + 3), pending - 1, turns, faults, reports)
         /\ BacklogOK(place, N + 3, 0, turns, faults, reports)
         /\ BacklogOK(place, queued + 1, pending, turns, faults, reports + 1)
<1>1. N \in Nat
  BY Numbers
<1>2. /\ queued \in Nat /\ pending \in Nat /\ turns \in Nat /\ faults \in Nat /\ reports \in Nat
      /\ place # "Read" => turns = 0
      /\ turns < N + 3
      /\ faults = 0 => pending <= IF place = "Delay" THEN 0 ELSE 1
      /\ queued + Packets(pending) + turns <= Allowance(faults) + reports
           + (IF place = "Delay" THEN 0 ELSE N + 3 - (IF faults = 0 THEN 1 ELSE 0))
  BY DEF BacklogOK
<1>3. Packets(pending) \in Int /\ Packets(0) = 0
  BY <1>2, PacketsOfAnswers
<1>4. Allowance(faults) \in Int /\ Allowance(faults) >= N + 3
  BY <1>2, FaultAllows
<1>5. ASSUME NEW kept \in {queued, 0}, pending > 0
      PROVE  BacklogOK(place, kept + (N + 3), pending - 1, turns, faults, reports)
  <2>1. pending - 1 \in Int /\ (pending - 1) + 1 = pending
    BY <1>2
  <2>2. Packets(pending - 1) \in Int /\ Packets(pending) = Packets(pending - 1) + (N + 3)
    BY <2>1, PacketsOfAnswers
  <2>3. pending - 1 \in Nat
    BY <1>2, <1>5
  <2> QED
    BY <1>1, <1>2, <1>3, <1>4, <1>5, <2>2, <2>3 DEF BacklogOK
<1>6. BacklogOK(place, N + 3, 0, turns, faults, reports)
  BY <1>1, <1>2, <1>3, <1>4 DEF BacklogOK
<1>7. BacklogOK(place, queued + 1, pending, turns, faults, reports + 1)
  BY <1>1, <1>2, <1>3, <1>4 DEF BacklogOK
<1> QED
  BY <1>5, <1>6, <1>7

Backlog ==
  BacklogOK(phase, Len(peripheral.queue), peripheral.pending,
            IF phase = "Read" THEN reads ELSE 0,
            MaxFaults - budget.faults, MaxIncrements - budget.increments)

Aged ==
  /\ QueueAges(peripheral.queue, peripheral.capture)
  /\ phase = "Read" => AssemblyAge(assembler, peripheral.queue, peripheral.capture)

\* Nothing is queued, due, spent or seen before the first request.
LEMMA InitAged == Init => Backlog /\ Aged
<1> SUFFICES ASSUME Init
             PROVE  Backlog /\ Aged
  OBVIOUS
<1>1. /\ phase = "Delay" /\ peripheral.queue = <<>> /\ Len(<<>>) = 0 /\ peripheral.pending = 0
      /\ budget.faults = MaxFaults /\ budget.increments = MaxIncrements
  BY EmptySeq DEF Init
<1>2. MaxFaults \in Nat /\ MaxIncrements \in Nat
  BY MasterAssumption
<1>3. MaxFaults - MaxFaults = 0 /\ MaxIncrements - MaxIncrements = 0
  BY <1>2
<1>4. Packets(0) = 0 /\ Allowance(0) = N + 3 /\ N \in Nat
  BY PacketsOfAnswers, FaultAllows, Numbers
<1>5. BacklogOK("Delay", 0, 0, 0, 0, 0)
  BY <1>4 DEF BacklogOK
<1>6. Backlog
  BY <1>1, <1>3, <1>5 DEF Backlog
<1>7. Aged
  BY <1>1, NoAges DEF Aged
<1> QED
  BY <1>6, <1>7

\* What is spent is counted, and nothing else is.
LEMMA SpendCounts ==
  ASSUME Types, NEW count \in Nat
  PROVE  /\ MaxFaults - budget.faults \in Int /\ MaxIncrements - budget.increments \in Int
         /\ Spend("faults", count) =>
              /\ MaxFaults - budget'.faults = (MaxFaults - budget.faults) + count
              /\ budget'.increments = budget.increments
         /\ Spend("increments", count) =>
              /\ MaxIncrements - budget'.increments = (MaxIncrements - budget.increments) + count
              /\ budget'.faults = budget.faults
         /\ Spend("recoveries", count) =>
              budget'.increments = budget.increments /\ budget'.faults = budget.faults
<1>1. budget \in [{"faults", "recoveries", "increments"} -> Nat]
  BY DEF Types
<1>2. MaxFaults \in Nat /\ MaxIncrements \in Nat
  BY MasterAssumption
<1>3. ASSUME Spend("faults", count)
      PROVE  budget'.faults = budget.faults - count /\ budget'.increments = budget.increments
  BY <1>1, <1>3 DEF Spend
<1>4. ASSUME Spend("increments", count)
      PROVE  budget'.increments = budget.increments - count /\ budget'.faults = budget.faults
  BY <1>1, <1>4 DEF Spend
<1>5. ASSUME Spend("recoveries", count)
      PROVE  budget'.increments = budget.increments /\ budget'.faults = budget.faults
  BY <1>1, <1>5 DEF Spend
<1>6. budget.faults \in Nat /\ budget.increments \in Nat
  BY <1>1
<1> QED
  BY <1>2, <1>3, <1>4, <1>5, <1>6

\* The queue without its first packet, in numbers.
LEMMA PoppedLength ==
  ASSUME NEW queue \in Seq(PacketSet)
  PROVE  /\ Popped(queue) \in Seq(PacketSet)
         /\ Len(queue) \in Nat /\ Len(Popped(queue)) \in Nat
         /\ Len(Popped(queue)) = IF Len(queue) = 0 THEN 0 ELSE Len(queue) - 1
         /\ queue = <<>> <=> Len(queue) = 0
<1>1. Len(queue) \in Nat /\ (queue = <<>> <=> Len(queue) = 0)
  BY EmptySeq, LenProperties
<1>2. CASE queue = <<>>
  BY <1>1, <1>2, EmptySeq DEF Popped
<1>3. CASE queue # <<>>
  <2>1. Tail(queue) \in Seq(PacketSet) /\ Len(Tail(queue)) = Len(queue) - 1
    BY <1>3, HeadTailProperties
  <2>2. Popped(queue) = Tail(queue)
    BY <1>3 DEF Popped
  <2> QED
    BY <1>1, <1>3, <2>1, <2>2, LenProperties
<1> QED
  BY <1>2, <1>3

\* The command goes out.
LEMMA SendAges ==
  ASSUME Inv, Types, Backlog, Aged, SendCommand
  PROVE  Backlog' /\ Aged'
<1> DEFINE queued  == Len(peripheral.queue)
           pending == peripheral.pending
           faults  == MaxFaults - budget.faults
           reports == MaxIncrements - budget.increments
           left    == Len(Popped(peripheral.queue))
<1>1. phase = "Delay" /\ phase' = "Wait"
  BY DEF SendCommand
<1>2. peripheral.queue \in Seq(PacketSet) /\ peripheral.capture \in CaptureNumbers
  BY DEF Inv, Shape
<1>3. BacklogOK("Delay", queued, pending, 0, faults, reports)
  BY <1>1 DEF Backlog
<1>4. left \in Nat /\ left = IF queued = 0 THEN 0 ELSE queued - 1
  BY <1>2, PoppedLength
<1>5. /\ peripheral'.queue = Popped(peripheral.queue)
      /\ peripheral'.capture = peripheral.capture
      /\ \/ peripheral'.pending = pending + 1 /\ budget' = budget
         \/ peripheral'.pending = pending /\ Spend("faults", 1)
  <2>1. \/ /\ peripheral' = [peripheral EXCEPT !.queue = Popped(@), !.pending = @ + 1]
           /\ budget' = budget
        \/ /\ peripheral' = [peripheral EXCEPT !.queue = Popped(@)]
           /\ Spend("faults", 1)
    BY DEF SendCommand
  <2>2. peripheral \in [queue : Seq(PacketSet), capture : CaptureNumbers, sequence : Int, pending : Int]
    BY DEF Inv, Shape
  <2> QED
    BY <2>1, <2>2
<1>6. Spend("faults", 1) =>
        MaxFaults - budget'.faults = faults + 1 /\ budget'.increments = budget.increments
  BY SpendCounts
<1>7. Aged'
  BY <1>1, <1>2, <1>5, PoppedAges DEF Aged
<1> HIDE DEF queued, pending, faults, reports, left
<1>8. /\ BacklogOK("Wait", left, pending + 1, 0, faults, reports)
      /\ BacklogOK("Wait", left, pending, 0, faults + 1, reports)
  BY <1>3, <1>4, SendBacklog
<1>9. Backlog'
  <2>1. CASE peripheral'.pending = pending + 1 /\ budget' = budget
    BY <1>1, <1>5, <1>8, <2>1 DEF Backlog, left, faults, reports
  <2>2. CASE peripheral'.pending = pending /\ Spend("faults", 1)
    BY <1>1, <1>5, <1>6, <1>8, <2>2 DEF Backlog, left, reports
  <2> QED
    BY <1>5, <2>1, <2>2
<1> QED
  BY <1>7, <1>9

\* A request ends, and an answer still due is a fault.
LEMMA EndCounts ==
  ASSUME Types, Inv, NEW fault \in {0, 1}, EndsRequest(fault)
  PROVE  /\ phase' = "Delay" /\ budget'.increments = budget.increments
         /\ MaxFaults - budget'.faults =
              (MaxFaults - budget.faults) + (IF peripheral.pending > 0 THEN fault + 1 ELSE fault)
<1> DEFINE more == IF peripheral.pending > 0 THEN fault + 1 ELSE fault
<1>1. more \in Nat
  OBVIOUS
<1>2. phase' = "Delay" /\ Spend("faults", more)
  BY DEF EndsRequest
<1> HIDE DEF more
<1>3. /\ MaxFaults - budget'.faults = (MaxFaults - budget.faults) + more
      /\ budget'.increments = budget.increments
  BY <1>1, <1>2, SpendCounts
<1> QED
  BY <1>2, <1>3 DEF more

\* No IRQ in time.
LEMMA TimeoutAges ==
  ASSUME Inv, Types, Backlog, Aged, TimesOut
  PROVE  Backlog' /\ Aged'
<1> DEFINE pending == peripheral.pending
           faults  == MaxFaults - budget.faults
           reports == MaxIncrements - budget.increments
           more    == IF pending > 0 THEN 0 + 1 ELSE 0
<1>1. /\ phase = "Wait" /\ peripheral' = peripheral /\ peripheral.queue = <<>>
      /\ EndsRequest(0) /\ Len(<<>>) = 0
  BY EmptySeq DEF TimesOut, IrqHigh
<1>2. BacklogOK("Wait", 0, pending, 0, faults, reports)
  BY <1>1 DEF Backlog
<1>3. /\ phase' = "Delay" /\ MaxFaults - budget'.faults = faults + more
      /\ budget'.increments = budget.increments
  <2>1. 0 \in {0, 1}
    OBVIOUS
  <2> QED
    BY <1>1, <2>1, EndCounts
<1>4. more \in Nat /\ more = IF pending > 0 THEN 1 ELSE 0
  OBVIOUS
<1>5. Aged'
  BY <1>1, <1>3 DEF Aged
<1> HIDE DEF pending, faults, reports, more
<1>6. BacklogOK("Delay", 0, pending, 0, faults + more, reports)
  BY <1>2, <1>4, TimeoutBacklog
<1>7. Backlog'
  BY <1>1, <1>3, <1>6 DEF Backlog, pending, reports
<1> QED
  BY <1>5, <1>7

\* A request that succeeds or exhausts its turns has taken as many as a snapshot
\* has packets.
LEMMA EndIsLastTurn ==
  ASSUME Inv, phase = "Read", NEW packet, Succeeds(packet) \/ Exhausts(packet)
  PROVE  reads + 1 = N + 3
<1>1. reads \in Nat /\ reads < MaxSnapshotPackets /\ N \in Nat /\ MaxSnapshotPackets = N + 3
  BY Numbers DEF Inv, Shape
<1>2. CASE Succeeds(packet)
  <2>1. assembler.active /\ AllSeen(assembler)
    BY <1>2 DEF Succeeds, Completes
  <2>2. AssemblyOK(assembler, reads, peripheral.queue)
    BY DEF Inv, Assembling
  <2>3. reads = N + 2
    BY <1>1, <2>1, <2>2, SeenInTime
  <2> QED
    BY <1>1, <2>3
<1>3. CASE Exhausts(packet)
  BY <1>1, <1>3 DEF Exhausts, LoopGoesOn
<1> QED
  BY <1>2, <1>3

\* A turn of the loop.
LEMMA ReadAges ==
  ASSUME Inv, Types, Backlog, Aged, ReadPacket \/ ReadSpoilt
  PROVE  Backlog' /\ Aged'
<1>1. PICK packet \in PacketSet \cup {Invalid}, fault \in {0, 1},
           left \in {peripheral.queue, Popped(peripheral.queue)} :
        /\ TurnsLoop(packet, fault)
        /\ QueueOK(left)
        /\ peripheral' = [peripheral EXCEPT !.queue = left]
        /\ packet = Invalid
             \/ (peripheral.queue # <<>> /\ packet = Head(peripheral.queue)
                 /\ left = Tail(peripheral.queue))
        /\ fault = 0 =>
             /\ left = Popped(peripheral.queue)
             /\ peripheral.queue = <<>> => peripheral.pending = 0
  BY ReadIsTurn
<1> DEFINE queued  == Len(peripheral.queue)
           pending == peripheral.pending
           faults  == MaxFaults - budget.faults
           reports == MaxIncrements - budget.increments
           more    == IF pending > 0 THEN fault + 1 ELSE fault
<1>2. /\ phase = "Read" /\ reads \in Nat /\ reads < MaxSnapshotPackets /\ reads' = reads + 1
      /\ assembler \in Candidates /\ assembler' = Consume(assembler, packet)
      /\ peripheral.queue \in Seq(PacketSet) /\ QueueOK(peripheral.queue)
      /\ AssemblyOK(assembler, reads, peripheral.queue)
      /\ reads = 0 => ~assembler.active
  BY <1>1 DEF Inv, Shape, Assembling, TurnsLoop
<1>3. /\ peripheral'.queue = left /\ peripheral'.capture = peripheral.capture
      /\ peripheral'.pending = pending
  BY <1>1 DEF Inv, Shape
<1>4. BacklogOK("Read", queued, pending, reads, faults, reports)
  BY <1>2 DEF Backlog
<1>5. Len(left) \in Nat /\ Len(left) <= queued
  BY <1>2, PoppedLength
<1>6. fault = 0 => (queued = 0 /\ Len(left) = 0 /\ pending = 0) \/ Len(left) = queued - 1
  BY <1>1, <1>2, PoppedLength
<1>7. more \in Nat
  OBVIOUS
<1>8. \/ /\ phase' = "Read" /\ Spend("faults", fault) /\ reads + 1 < N + 3
      \/ /\ EndsRequest(fault) /\ reads + 1 = N + 3
  <2>1. CASE (Succeeds(packet) \/ Exhausts(packet)) /\ EndsRequest(fault)
    BY <1>2, <2>1, EndIsLastTurn
  <2>2. CASE LoopGoesOn /\ Spend("faults", fault) /\ UNCHANGED <<phase, latest>>
    BY <1>2, <2>2, Numbers DEF LoopGoesOn
  <2> QED
    BY <1>1, <2>1, <2>2 DEF TurnsLoop
<1>9. QueueAges(left, peripheral.capture)
  BY <1>2, PoppedAges DEF Aged
<1>10. ASSUME phase' = "Read", reads + 1 < N + 3
       PROVE  AssemblyAge(assembler', left, peripheral.capture)
  <2>1. CASE packet = Invalid
    BY <1>2, <2>1, ResetIsCandidate DEF AssemblyAge, Consume, Invalid, Packet
  <2>2. CASE peripheral.queue # <<>> /\ packet = Head(peripheral.queue)
               /\ left = Tail(peripheral.queue)
    <3>1. reads + 1 < MaxSnapshotPackets
      BY <1>10, Numbers
    <3>2. QueueAges(peripheral.queue, peripheral.capture)
      BY DEF Aged
    <3> QED
      BY <1>2, <2>2, <3>1, <3>2, TurnAges
  <2> QED
    BY <1>1, <2>1, <2>2
<1> HIDE DEF queued, pending, faults, reports
<1>11. /\ reads + 1 < N + 3 => BacklogOK("Read", Len(left), pending, reads + 1, faults + fault, reports)
       /\ reads + 1 = N + 3 => BacklogOK("Delay", Len(left), pending, 0, faults + more, reports)
  BY <1>4, <1>5, <1>6, <1>7, TurnBacklog
<1>12. CASE phase' = "Read" /\ Spend("faults", fault) /\ reads + 1 < N + 3
  <2>1. Aged'
    BY <1>3, <1>9, <1>10, <1>12 DEF Aged
  <2>2. fault \in Nat
    OBVIOUS
  <2>3. MaxFaults - budget'.faults = faults + fault /\ budget'.increments = budget.increments
    BY <1>12, <2>2, SpendCounts DEF faults
  <2>4. Backlog'
    BY <1>2, <1>3, <1>11, <1>12, <2>3 DEF Backlog, reports
  <2> QED
    BY <2>1, <2>4
<1>13. CASE EndsRequest(fault) /\ reads + 1 = N + 3
  <2>1. /\ phase' = "Delay" /\ budget'.increments = budget.increments
        /\ MaxFaults - budget'.faults = faults + more
    BY <1>13, EndCounts DEF faults, pending
  <2>2. Aged'
    BY <1>3, <1>9, <2>1 DEF Aged
  <2>3. Backlog'
    BY <1>3, <1>11, <1>13, <2>1 DEF Backlog, reports
  <2> QED
    BY <2>2, <2>3
<1> QED
  BY <1>8, <1>12, <1>13

\* The peripheral captures: behind what is queued, for a command it took, or alone.
LEMMA CapturedAges ==
  ASSUME Inv, Types, Backlog, Aged, NEW kept \in {peripheral.queue, <<>>}, NEW sequence \in Int,
         NEW pending \in Int, Captured(kept, sequence, pending),
         UNCHANGED <<phase, reads, assembler>>,
         MaxFaults - budget'.faults = MaxFaults - budget.faults,
         budget'.increments = budget.increments,
         \/ peripheral.pending > 0 /\ pending = peripheral.pending - 1
         \/ kept = <<>> /\ pending = 0
  PROVE  Backlog' /\ Aged'
<1> DEFINE whole   == SnapshotPackets(NextCapture, sequence)
           queued  == Len(peripheral.queue)
           turns   == IF phase = "Read" THEN reads ELSE 0
           faults  == MaxFaults - budget.faults
           reports == MaxIncrements - budget.increments
<1>1. /\ peripheral.capture \in CaptureNumbers /\ peripheral.queue \in Seq(PacketSet)
      /\ NextCapture = (peripheral.capture + 1) % Captures
  BY DEF Inv, Shape, NextCapture
<1>2. NextCapture \in CaptureNumbers
  BY <1>1, OneMoreBehind
<1>3. whole \in Seq(PacketSet) /\ Len(whole) = N + 3
  BY <1>2, SnapshotParts
<1>4. /\ peripheral'.queue = kept \o whole /\ peripheral'.capture = NextCapture
      /\ peripheral'.pending = pending
  BY DEF Captured
<1>5. kept \in Seq(PacketSet) /\ Len(kept) \in {queued, 0} /\ (kept = <<>> => Len(kept) = 0)
  BY <1>1, EmptySeq
<1>6. QueueAges(kept \o whole, NextCapture)
  <2>1. QueueAges(kept, peripheral.capture)
    BY NoAges DEF Aged
  <2> QED
    BY <1>1, <1>5, <2>1, AnswerAges
<1>7. ASSUME phase = "Read"
      PROVE  AssemblyAge(assembler, kept \o whole, NextCapture)
  <2>1. CASE kept = <<>>
    <3>1. StartsWithBegin(<<>> \o whole)
      BY <1>2, QueueOfSnapshot
    <3> QED
      BY <2>1, <3>1 DEF AssemblyAge
  <2>2. CASE kept = peripheral.queue
    <3>1. /\ reads \in Nat /\ reads < MaxSnapshotPackets
          /\ AssemblyOK(assembler, reads, peripheral.queue)
          /\ AssemblyAge(assembler, peripheral.queue, peripheral.capture)
      BY <1>7 DEF Inv, Shape, Assembling, Aged
    <3> HIDE DEF whole
    <3> QED
      BY <1>1, <1>3, <2>2, <3>1, BehindAges
  <2> QED
    BY <2>1, <2>2
<1> HIDE DEF whole
<1>8. Aged'
  BY <1>4, <1>6, <1>7 DEF Aged
<1>9. BacklogOK(phase, queued, peripheral.pending, turns, faults, reports)
  BY DEF Backlog
<1>10. Len(kept \o whole) = Len(kept) + (N + 3)
  BY <1>3, <1>5, Concat
<1> HIDE DEF queued, turns, faults, reports
<1>11. /\ \A n \in {queued, 0} : peripheral.pending > 0 =>
            BacklogOK(phase, n + (N + 3), peripheral.pending - 1, turns, faults, reports)
       /\ BacklogOK(phase, N + 3, 0, turns, faults, reports)
  BY <1>9, PeripheralBacklog
<1>12. BacklogOK(phase, Len(kept \o whole), pending, turns, faults, reports)
  <2>1. CASE peripheral.pending > 0 /\ pending = peripheral.pending - 1
    BY <1>5, <1>10, <1>11, <2>1
  <2>2. CASE kept = <<>> /\ pending = 0
    <3>1. Len(kept \o whole) = N + 3
      BY <1>5, <1>10, <2>2, Numbers
    <3> QED
      BY <1>11, <2>2, <3>1
  <2> QED
    BY <2>1, <2>2
<1>13. Backlog'
  BY <1>4, <1>12 DEF Backlog, turns, faults, reports
<1> QED
  BY <1>8, <1>13

\* A change is reported behind the queue.
LEMMA ReportAged ==
  ASSUME Inv, Types, Backlog, Aged, ReportChange
  PROVE  Backlog' /\ Aged'
<1>1. PICK packet \in PacketSet :
        packet.type # "Begin" /\ packet.sequence = 0 /\ packet.capture = Changed /\ Report(packet)
  BY ReportedPacket
<1> DEFINE longer  == Append(peripheral.queue, packet)
           queued  == Len(peripheral.queue)
           turns   == IF phase = "Read" THEN reads ELSE 0
           faults  == MaxFaults - budget.faults
           reports == MaxIncrements - budget.increments
<1>2. /\ peripheral.queue \in Seq(PacketSet) /\ peripheral.capture \in CaptureNumbers
      /\ <<packet>> \in Seq(PacketSet)
  BY DEF Inv, Shape
<1>3. longer = peripheral.queue \o <<packet>> /\ Len(longer) = queued + 1
  BY <1>2, AppendIsConcat, AppendProperties
<1>4. QueueAges(longer, peripheral.capture)
  BY <1>1, <1>2, ReportAges DEF Aged
<1>5. ASSUME phase = "Read"
      PROVE  AssemblyAge(assembler, longer, peripheral.capture)
  <2>1. /\ reads \in Nat /\ reads < MaxSnapshotPackets
        /\ AssemblyOK(assembler, reads, peripheral.queue)
        /\ AssemblyAge(assembler, peripheral.queue, peripheral.capture)
    BY <1>5 DEF Inv, Shape, Assembling, Aged
  <2> HIDE DEF longer
  <2> QED
    BY <1>2, <1>3, <2>1, BehindAges
<1> HIDE DEF longer
<1>6. peripheral' = [peripheral EXCEPT !.queue = longer]
  BY <1>1 DEF Report, longer
<1>7. /\ peripheral'.queue = longer /\ peripheral'.capture = peripheral.capture
      /\ peripheral'.pending = peripheral.pending
  BY <1>6 DEF Inv, Shape
<1>8. /\ Spend("increments", 1) /\ UNCHANGED <<phase, reads, assembler>>
  BY <1>1 DEF Report
<1>9. Aged'
  BY <1>4, <1>5, <1>7, <1>8 DEF Aged
<1>10. BacklogOK(phase, queued, peripheral.pending, turns, faults, reports)
  BY DEF Backlog
<1>11. MaxIncrements - budget'.increments = reports + 1 /\ budget'.faults = budget.faults
  BY <1>8, SpendCounts
<1> HIDE DEF queued, turns, faults, reports
<1>12. BacklogOK(phase, queued + 1, peripheral.pending, turns, faults, reports + 1)
  BY <1>10, PeripheralBacklog
<1>13. Backlog'
  BY <1>3, <1>7, <1>8, <1>11, <1>12 DEF Backlog, turns, faults
<1> QED
  BY <1>9, <1>13

\* Every step keeps backlog and ages.
LEMMA NextAged == Inv /\ Types /\ Backlog /\ Aged /\ [Next]_vars => Backlog' /\ Aged'
<1> SUFFICES ASSUME Inv, Types, Backlog, Aged, [Next]_vars
             PROVE  Backlog' /\ Aged'
  OBVIOUS
<1>1. CASE SendCommand
  BY <1>1, SendAges
<1>2. CASE SeesIrq
  <2>1. /\ phase = "Wait" /\ phase' = "Read" /\ reads' = 0 /\ assembler' = Reset
        /\ UNCHANGED <<peripheral, budget>>
    BY <1>2 DEF SeesIrq
  <2>2. Backlog'
    BY <2>1 DEF Backlog, BacklogOK
  <2>3. Aged'
    BY <2>1, ResetIsCandidate DEF Aged, AssemblyAge
  <2> QED
    BY <2>2, <2>3
<1>3. CASE TimesOut
  BY <1>3, TimeoutAges
<1>4. CASE ReadPacket \/ ReadSpoilt
  BY <1>4, ReadAges
<1>5. CASE Answer
  <2>1. PICK kept \in {peripheral.queue, <<>>} :
          Captured(kept, peripheral.sequence, peripheral.pending - 1)
    BY <1>5 DEF Answer
  <2>2. peripheral.sequence \in Int /\ peripheral.pending - 1 \in Int
    BY DEF Inv, Shape
  <2>3. peripheral.pending > 0 /\ UNCHANGED <<phase, reads, assembler, budget>>
    BY <1>5 DEF Answer
  <2> QED
    BY <2>1, <2>2, <2>3, CapturedAges
<1>6. CASE Recover
  <2>1. PICK sequence \in {0, peripheral.sequence} : Captured(<<>>, sequence, 0)
    BY <1>6 DEF Recover
  <2>2. sequence \in Int /\ 0 \in Int
    BY <2>1 DEF Inv, Shape
  <2>3. Spend("recoveries", 1) /\ UNCHANGED <<phase, reads, assembler>>
    BY <1>6 DEF Recover
  <2>4. budget'.increments = budget.increments /\ budget'.faults = budget.faults
    BY <2>3, SpendCounts
  <2> QED
    BY <2>1, <2>2, <2>3, <2>4, CapturedAges
<1>7. CASE ReportChange
  BY <1>7, ReportAged
<1>8. CASE UNCHANGED vars
  BY <1>8 DEF vars, Backlog, Aged
<1> QED
  BY <1>1, <1>2, <1>3, <1>4, <1>5, <1>6, <1>7, <1>8 DEF Next

\* What is accepted is no older than the packets still outstanding allow.
LEMMA AcceptedAge ==
  ASSUME Inv, Types, Backlog, Aged, Backlog', [Next]_vars, Accepts
  PROVE  LET behind  == (peripheral.capture - latest'.snapshot.buttons) % Captures
             faults  == MaxFaults - budget'.faults
             reports == MaxIncrements - budget'.increments
         IN  \E allowed \in {1, faults} :
               (behind - allowed) * MaxSnapshotPackets <= reports
<1>1. phase = "Read" /\ phase' = "Delay" /\ latest'.ok
  BY DEF Accepts
<1>2. ReadPacket \/ ReadSpoilt
  BY <1>1 DEF Next, vars, SendCommand, SeesIrq, TimesOut, Answer, Recover, ReportChange, Report
<1>3. PICK packet \in PacketSet \cup {Invalid}, fault \in {0, 1},
           left \in {peripheral.queue, Popped(peripheral.queue)} :
        /\ TurnsLoop(packet, fault)
        /\ peripheral' = [peripheral EXCEPT !.queue = left]
        /\ packet = Invalid
             \/ (peripheral.queue # <<>> /\ packet = Head(peripheral.queue)
                 /\ left = Tail(peripheral.queue))
  BY <1>2, ReadIsTurn
<1>4. Succeeds(packet)
  <2>1. ~Exhausts(packet)
    BY <1>1 DEF Exhausts, Types
  <2> QED
    BY <1>1, <1>3, <2>1 DEF TurnsLoop
<1>5. /\ packet.type = "End" /\ assembler.active /\ AllSeen(assembler)
      /\ latest'.snapshot = assembler
  BY <1>4 DEF Succeeds, Completes
<1>6. /\ peripheral.queue # <<>> /\ packet = Head(peripheral.queue)
      /\ left = Tail(peripheral.queue) /\ peripheral.queue \in Seq(PacketSet)
  BY <1>3, <1>5 DEF Invalid, Packet, Inv, Shape
<1>7. /\ Len(left) = Len(peripheral.queue) - 1 /\ Len(left) \in Nat
      /\ packet = peripheral.queue[1] /\ peripheral'.queue = left
  BY <1>3, <1>6, HeadTailProperties, LenProperties DEF Inv, Shape
<1> DEFINE behind  == Behind(peripheral.capture, assembler.buttons)
           faults  == MaxFaults - budget'.faults
           reports == MaxIncrements - budget'.increments
           allowed == IF faults = 0 THEN 1 ELSE faults
<1>8. Packets(behind) <= Len(left)
  <2>1. ~StartsWithBegin(peripheral.queue)
    BY <1>5, <1>7 DEF StartsWithBegin
  <2>2. AssemblyAge(assembler, peripheral.queue, peripheral.capture)
    BY <1>1 DEF Aged
  <2> QED
    BY <1>5, <1>7, <2>1, <2>2 DEF AssemblyAge
<1>9. behind \in Nat
  <2>1. /\ reads \in Nat /\ reads < MaxSnapshotPackets
        /\ AssemblyOK(assembler, reads, peripheral.queue)
        /\ peripheral.capture \in CaptureNumbers
    BY <1>1 DEF Inv, Shape, Assembling
  <2>2. assembler.buttons \in CaptureNumbers
    BY <1>5, <2>1, SeenInTime
  <2> QED
    BY <2>1, <2>2, OneMoreBehind
<1>10. /\ faults \in Nat /\ reports \in Nat /\ peripheral'.pending \in Nat
       /\ Len(left) + Packets(peripheral'.pending) + 0 <= Allowance(faults) + reports + 0
  BY <1>1, <1>7 DEF Backlog, BacklogOK
<1>11. Packets(peripheral'.pending) \in Int /\ Packets(peripheral'.pending) >= 0
  <2>1. peripheral'.pending \in Int /\ 0 \in Int /\ 0 <= peripheral'.pending
    BY <1>10
  <2> QED
    BY <2>1, PacketsOfAnswers
<1>12. Allowance(faults) = Packets(allowed)
  BY DEF Allowance
<1>13. allowed \in {1, faults} /\ allowed \in Int /\ behind \in Int
  BY <1>9, <1>10
<1> HIDE DEF behind, faults, reports, allowed
<1>14. Packets(behind) - Packets(allowed) <= reports
  <2>1. Packets(behind) \in Int /\ Packets(allowed) \in Int
    BY <1>13, PacketsOfAnswers
  <2> QED
    BY <1>7, <1>8, <1>10, <1>11, <1>12, <2>1
<1>15. (behind - allowed) * MaxSnapshotPackets <= reports
  <2>1. Packets(behind - allowed) = Packets(behind) - Packets(allowed)
    BY <1>13, PacketsOfAnswers
  <2> QED
    BY <1>14, <2>1 DEF Packets
<1>16. behind = (peripheral.capture - latest'.snapshot.buttons) % Captures
  BY <1>5 DEF behind, Behind
<1> QED
  BY <1>13, <1>15, <1>16 DEF faults, reports

\* What the master accepts, though earlier answers are read first, is older than
\* the capture last made by no more than the faults allow, or by one, and by the
\* answers that the reported changes have made room for: a request takes as many
\* packets out as its answer puts in, and one more with its command (the
\* transfers of requestSnapshot).
THEOREM StaleOnlyByFaults == Spec => StaleByFaults
<1>1. Spec => [](Inv /\ Decoding /\ Types /\ Backlog /\ Aged)
  BY InitInv, NextInv, InitDecoding, NextDecoding, InitTypes, NextTypes, InitAged, NextAged,
     PTL DEF Spec
<1>2. ASSUME Inv, Types, Backlog, Aged, Backlog', [Next]_vars
      PROVE  [Accepts =>
                LET behind  == (peripheral.capture - latest'.snapshot.buttons) % Captures
                    faults  == MaxFaults - budget'.faults
                    reports == MaxIncrements - budget'.increments
                IN  \E allowed \in {1, faults} :
                      (behind - allowed) * MaxSnapshotPackets <= reports]_vars
  BY <1>2, AcceptedAge
<1> QED
  BY <1>1, <1>2, PTL DEF Spec, StaleByFaults
=============================================================================
