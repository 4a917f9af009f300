------------------------ MODULE QueuedPublisherProofs ------------------------
(***************************************************************************)
(* The ring buffer implements the bounded FIFO for every capacity and in   *)
(* every order in which the publisher calls it, and the publisher with the *)
(* ring behaves as the one with a sequence, about which the other proofs   *)
(* speak.                                                                  *)
(***************************************************************************)
EXTENDS QueuedPublisher, SnapshotPublisherProofs

Depth == PublicationQueueDepth

\* What a slot may hold, and what a ring holds, oldest first.
Events == PublicationEvents \cup {BlankEvent}

Held(r) == [k \in 1 .. r.count |-> r.storage[(r.tail + k - 1) % Depth]]

\* head is where the next value goes.
Aligned(r) == r \in Queue!Rings /\ r.head = (r.tail + r.count) % Depth

\* The ring has at least one slot.
LEMMA DepthType == Depth \in Nat \ {0}
BY PublicationQueueAssumption, ControlCountAssumption DEF Depth

\* Indices of a ring wrap at most once, and different distances from the tail
\* are different slots.
LEMMA Wrapped ==
  ASSUME NEW N \in Nat \ {0}, NEW slot \in 0 .. N - 1, NEW count \in 0 .. N
  PROVE  (slot + count) % N = IF slot + count < N THEN slot + count ELSE slot + count - N
<1>1. CASE slot + count < N
  <2>1. slot + count \in 0 .. N - 1
    BY <1>1
  <2> QED
    BY <1>1, <2>1
<1>2. CASE slot + count >= N
  <2>1. slot + count \in N .. 2 * N - 1
    BY <1>2
  <2> QED
    BY <1>2, <2>1
<1> QED
  BY <1>1, <1>2

\* Two positions less than a whole ring apart are different slots.
LEMMA DifferentSlots ==
  ASSUME NEW N \in Nat \ {0}, NEW slot \in 0 .. N - 1,
         NEW i \in 0 .. N - 1, NEW j \in 0 .. N - 1, i # j
  PROVE  (slot + i) % N # (slot + j) % N
<1>1. i \in 0 .. N /\ j \in 0 .. N
  OBVIOUS
<1>2. (slot + i) % N = IF slot + i < N THEN slot + i ELSE slot + i - N
  BY <1>1, Wrapped
<1>3. (slot + j) % N = IF slot + j < N THEN slot + j ELSE slot + j - N
  BY <1>1, Wrapped
<1> QED
  BY <1>2, <1>3

\* The fields of a ring, and that what it holds is a sequence of its length.
LEMMA RingFields ==
  ASSUME NEW r \in Queue!Rings
  PROVE  /\ r.storage \in [0 .. Depth - 1 -> Events]
         /\ r.head \in 0 .. Depth - 1
         /\ r.tail \in 0 .. Depth - 1
         /\ r.count \in 0 .. Depth
         /\ \A k \in 1 .. r.count : (r.tail + k - 1) % Depth \in 0 .. Depth - 1
         /\ Held(r) \in Seq(Events)
         /\ Len(Held(r)) = r.count
         /\ \A k \in 1 .. r.count : Held(r)[k] = r.storage[(r.tail + k - 1) % Depth]
<1>1. /\ r.storage \in [0 .. Depth - 1 -> Events]
      /\ r.head \in 0 .. Depth - 1
      /\ r.tail \in 0 .. Depth - 1
      /\ r.count \in 0 .. Depth
  BY DEF Queue!Rings, Queue!Slots, Depth, Events
<1>2. ASSUME NEW k \in 1 .. r.count
      PROVE  (r.tail + k - 1) % Depth \in 0 .. Depth - 1
  BY <1>1, DepthType
<1>3. ASSUME NEW k \in 1 .. r.count
      PROVE  r.storage[(r.tail + k - 1) % Depth] \in Events
  BY <1>1, <1>2
<1>4. Held(r) \in Seq(Events) /\ Len(Held(r)) = r.count
  <2>1. r.count \in Nat
    BY <1>1, DepthType
  <2>2. Held(r) \in [1 .. r.count -> Events]
    BY <1>3 DEF Held
  <2>3. Held(r) \in Seq(Events)
    BY <2>1, <2>2, SeqDef
  <2> QED
    BY <2>1, <2>2, <2>3, LenProperties
<1> QED
  BY <1>1, <1>2, <1>4 DEF Held

\* push: one value behind what is held.
LEMMA Pushed ==
  ASSUME NEW r, Aligned(r), r.count < Depth, NEW event \in PublicationEvents
  PROVE  LET next == [r EXCEPT !.storage[r.head] = event,
                               !.head = Queue!NextSlot(@), !.count = @ + 1]
         IN  Aligned(next) /\ Held(next) = Append(Held(r), event)
<1> DEFINE next == [r EXCEPT !.storage[r.head] = event,
                             !.head = Queue!NextSlot(@), !.count = @ + 1]
<1>1. r \in Queue!Rings /\ event \in Events
  BY DEF Aligned, Events
<1>2. /\ next.storage = [r.storage EXCEPT ![r.head] = event]
      /\ next.head = (r.head + 1) % Depth
      /\ next.tail = r.tail
      /\ next.count = r.count + 1
  BY <1>1 DEF Queue!Rings, Queue!NextSlot, Depth
<1>3. next \in Queue!Rings
  <2>1. (r.head + 1) % Depth \in 0 .. Depth - 1
    BY <1>1, RingFields, DepthType
  <2>2. next.storage \in [0 .. Depth - 1 -> Events]
    BY <1>1, <1>2, RingFields
  <2>3. r.count + 1 \in 0 .. Depth
    BY <1>1, RingFields, DepthType
  <2> QED
    BY <1>1, <2>1, <2>2, <2>3 DEF Queue!Rings, Queue!Slots, Queue!NextSlot, Depth, Events
<1> HIDE DEF next
<1>4. next.head = (next.tail + next.count) % Depth
  <2>1. /\ r.tail \in 0 .. Depth - 1 /\ r.head \in 0 .. Depth - 1
        /\ r.count \in 0 .. Depth /\ r.count + 1 \in 0 .. Depth /\ 1 \in 0 .. Depth
        /\ r.head = (r.tail + r.count) % Depth
    BY <1>1, RingFields, DepthType DEF Aligned
  <2>2. r.head = IF r.tail + r.count < Depth THEN r.tail + r.count ELSE r.tail + r.count - Depth
    BY <2>1, Wrapped, DepthType
  <2>3. (r.head + 1) % Depth = IF r.head + 1 < Depth THEN r.head + 1 ELSE r.head + 1 - Depth
    BY <2>1, Wrapped, DepthType
  <2>4. (r.tail + (r.count + 1)) % Depth =
          IF r.tail + (r.count + 1) < Depth THEN r.tail + (r.count + 1)
                                            ELSE r.tail + (r.count + 1) - Depth
    BY <2>1, Wrapped, DepthType
  <2>5. (r.head + 1) % Depth = (r.tail + (r.count + 1)) % Depth
    BY <2>1, <2>2, <2>3, <2>4, DepthType
  <2> QED
    BY <1>2, <2>5
<1>5. Held(next) = Append(Held(r), event)
  <2>1. /\ Held(r) \in Seq(Events) /\ Len(Held(r)) = r.count
        /\ Held(next) \in Seq(Events) /\ Len(Held(next)) = r.count + 1
        /\ r.count \in 0 .. Depth
    BY <1>1, <1>2, <1>3, RingFields
  <2>2. /\ Append(Held(r), event) \in Seq(Events)
        /\ Len(Append(Held(r), event)) = r.count + 1
        /\ \A k \in 1 .. r.count : Append(Held(r), event)[k] = Held(r)[k]
        /\ Append(Held(r), event)[r.count + 1] = event
    BY <1>1, <2>1, AppendProperties
  <2>3. ASSUME NEW k \in 1 .. r.count
        PROVE  Held(next)[k] = Held(r)[k]
    <3>1. /\ k \in 1 .. next.count /\ k - 1 \in 0 .. Depth - 1 /\ r.count \in 0 .. Depth - 1
          /\ r.tail + k - 1 = r.tail + (k - 1)
          /\ r.tail \in 0 .. Depth - 1
          /\ k - 1 # r.count
      BY <1>1, <1>2, RingFields, DepthType
    <3>2. (r.tail + k - 1) % Depth # r.head
      BY <3>1, DifferentSlots, DepthType DEF Aligned
    <3>3. Held(next)[k] = next.storage[(next.tail + k - 1) % Depth]
      BY <1>3, <3>1, RingFields
    <3>4. Held(r)[k] = r.storage[(r.tail + k - 1) % Depth]
      BY <1>1, RingFields
    <3>5. (r.tail + k - 1) % Depth \in 0 .. Depth - 1
      BY <1>1, RingFields
    <3>6. next.storage[(r.tail + k - 1) % Depth] = r.storage[(r.tail + k - 1) % Depth]
      BY <1>1, <1>2, <3>2, <3>5, RingFields
    <3> QED
      BY <1>2, <3>3, <3>4, <3>6
  <2>4. Held(next)[r.count + 1] = event
    <3>1. /\ r.count + 1 \in 1 .. next.count
          /\ r.tail + (r.count + 1) - 1 = r.tail + r.count
      BY <1>1, <1>2, <2>1, RingFields, DepthType
    <3>2. Held(next)[r.count + 1] = next.storage[(next.tail + (r.count + 1) - 1) % Depth]
      BY <1>3, <3>1, RingFields
    <3>3. Held(next)[r.count + 1] = next.storage[r.head]
      BY <1>2, <3>1, <3>2 DEF Aligned
    <3> QED
      BY <1>1, <1>2, <3>3, RingFields
  <2>5. \A k \in 1 .. Len(Held(next)) : Held(next)[k] = Append(Held(r), event)[k]
    BY <2>1, <2>2, <2>3, <2>4, DepthType
  <2> QED
    BY <2>1, <2>2, <2>5, SeqEqual
<1> QED
  BY <1>3, <1>4, <1>5 DEF Aligned, next

\* pop: the value at tail, and what is behind it stays.
LEMMA Popped ==
  ASSUME NEW r, Aligned(r), r.count # 0
  PROVE  LET next == [r EXCEPT !.tail = Queue!NextSlot(@), !.count = @ - 1]
         IN  /\ Aligned(next)
             /\ Held(r) # <<>>
             /\ Head(Held(r)) = r.storage[r.tail]
             /\ Held(next) = Tail(Held(r))
<1> DEFINE next == [r EXCEPT !.tail = Queue!NextSlot(@), !.count = @ - 1]
<1>1. r \in Queue!Rings
  BY DEF Aligned
<1>2. /\ next.storage = r.storage
      /\ next.head = r.head
      /\ next.tail = (r.tail + 1) % Depth
      /\ next.count = r.count - 1
  BY <1>1 DEF Queue!Rings, Queue!NextSlot, Depth
<1>3. next \in Queue!Rings
  <2>1. (r.tail + 1) % Depth \in 0 .. Depth - 1 /\ r.count - 1 \in 0 .. Depth
    BY <1>1, RingFields, DepthType
  <2> QED
    BY <1>1, <2>1 DEF Queue!Rings, Queue!Slots, Queue!NextSlot, Depth
<1> HIDE DEF next
<1>4. ASSUME NEW k \in 0 .. r.count - 1
      PROVE  (next.tail + k) % Depth = (r.tail + (k + 1)) % Depth
  <2>1. /\ r.tail \in 0 .. Depth - 1 /\ next.tail \in 0 .. Depth - 1
        /\ k \in 0 .. Depth /\ k + 1 \in 0 .. Depth /\ 1 \in 0 .. Depth
    BY <1>1, <1>3, RingFields, DepthType
  <2>2. next.tail = IF r.tail + 1 < Depth THEN r.tail + 1 ELSE r.tail + 1 - Depth
    BY <1>2, <2>1, Wrapped, DepthType
  <2>3. (next.tail + k) % Depth =
          IF next.tail + k < Depth THEN next.tail + k ELSE next.tail + k - Depth
    BY <2>1, Wrapped, DepthType
  <2>4. (r.tail + (k + 1)) % Depth =
          IF r.tail + (k + 1) < Depth THEN r.tail + (k + 1) ELSE r.tail + (k + 1) - Depth
    BY <2>1, Wrapped, DepthType
  <2> QED
    BY <2>1, <2>2, <2>3, <2>4, DepthType
<1>5. next.head = (next.tail + next.count) % Depth
  <2>1. r.count - 1 \in 0 .. r.count - 1 /\ (r.count - 1) + 1 = r.count
    BY <1>1, RingFields, DepthType
  <2>2. (next.tail + (r.count - 1)) % Depth = (r.tail + r.count) % Depth
    BY <1>4, <2>1
  <2> QED
    BY <1>2, <2>2 DEF Aligned
<1>6. /\ Held(r) \in Seq(Events) /\ Len(Held(r)) = r.count
      /\ Held(next) \in Seq(Events) /\ Len(Held(next)) = r.count - 1
      /\ r.count \in 1 .. Depth
      /\ Held(r) # <<>>
  BY <1>1, <1>2, <1>3, RingFields, DepthType
<1>7. Head(Held(r)) = r.storage[r.tail]
  <2>1. Head(Held(r)) = Held(r)[1]
    BY <1>6
  <2>2. 1 \in 1 .. r.count /\ r.tail + 1 - 1 = r.tail + 0 /\ 0 \in 0 .. Depth
    BY <1>1, <1>6, RingFields, DepthType
  <2>3. r.tail \in 0 .. Depth - 1
    BY <1>1, RingFields
  <2>4. (r.tail + 0) % Depth = IF r.tail + 0 < Depth THEN r.tail + 0 ELSE r.tail + 0 - Depth
    BY <2>2, <2>3, Wrapped, DepthType
  <2>5. (r.tail + 0) % Depth = r.tail
    BY <2>3, <2>4, DepthType
  <2> QED
    BY <1>1, <2>1, <2>2, <2>5, RingFields
<1>8. Held(next) = Tail(Held(r))
  <2>1. /\ Tail(Held(r)) \in Seq(Events)
        /\ Len(Tail(Held(r))) = r.count - 1
        /\ \A k \in 1 .. r.count - 1 : Tail(Held(r))[k] = Held(r)[k + 1]
    BY <1>6, HeadTailProperties
  <2>2. ASSUME NEW k \in 1 .. r.count - 1
        PROVE  Held(next)[k] = Held(r)[k + 1]
    <3>1. /\ k - 1 \in 0 .. r.count - 1 /\ k \in 1 .. next.count /\ k + 1 \in 1 .. r.count
          /\ next.tail + k - 1 = next.tail + (k - 1)
          /\ r.tail + (k + 1) - 1 = r.tail + ((k - 1) + 1)
      BY <1>1, <1>2, <1>3, <1>6, RingFields, DepthType
    <3>2. Held(next)[k] = r.storage[(next.tail + (k - 1)) % Depth]
      BY <1>2, <1>3, <3>1, RingFields
    <3>3. Held(r)[k + 1] = r.storage[(r.tail + ((k - 1) + 1)) % Depth]
      BY <1>1, <3>1, RingFields
    <3> QED
      BY <1>4, <3>1, <3>2, <3>3
  <2>3. \A k \in 1 .. Len(Held(next)) : Held(next)[k] = Tail(Held(r))[k]
    BY <1>6, <2>1, <2>2
  <2> QED
    BY <1>6, <2>1, <2>3, SeqEqual
<1> QED
  BY <1>3, <1>5, <1>6, <1>7, <1>8 DEF Aligned, next

-----------------------------------------------------------------------------
(* Steps *)

\* The queue's own operators in the words of this module, before and after a step.
LEMMA RingInvariant ==
  /\ Queue!RingOK <=> Aligned(ring)
  /\ Queue!RingOK' <=> Aligned(ring')
  /\ Queue!Contents = Held(ring)
  /\ Queue!Contents' = Held(ring')
BY DEF Queue!RingOK, Queue!Contents, Queue!Rings, Queue!Slots, Aligned, Held, Depth

\* What a call of push, pop or clear does to ring and contents.
LEMMA PushStep ==
  ASSUME Aligned(ring), NEW event \in PublicationEvents, Queue!Push(event)
  PROVE  /\ Aligned(ring')
         /\ Queue!Fifo!FifoPush(event)
         /\ Held(ring') = IF Len(Held(ring)) < Depth THEN Append(Held(ring), event)
                                                     ELSE Held(ring)
<1>1. /\ ring \in Queue!Rings
      /\ Len(Held(ring)) = ring.count
      /\ ring.count \in 0 .. Depth
  BY RingFields DEF Aligned
<1>2. CASE ~Queue!Full
  <2>1. /\ ring.count < Depth
        /\ ring' = [ring EXCEPT !.storage[ring.head] = event,
                                !.head = Queue!NextSlot(@), !.count = @ + 1]
        /\ answer' = Queue!Accepted(<<>>)
    BY <1>1, <1>2, DepthType DEF Queue!Push, Queue!Full, Depth
  <2>2. Aligned(ring') /\ Held(ring') = Append(Held(ring), event)
    BY <2>1, Pushed
  <2> QED
    BY <1>1, <2>1, <2>2, RingInvariant
       DEF Queue!Fifo!FifoPush, Queue!Fifo!Accepted, Queue!Accepted, Depth
<1>3. CASE Queue!Full
  <2>1. ring' = ring /\ answer' = Queue!Refused /\ ring.count = Depth
    BY <1>1, <1>3, DepthType DEF Queue!Push, Queue!Full, Depth
  <2> QED
    BY <1>1, <2>1, DepthType, RingInvariant
       DEF Queue!Fifo!FifoPush, Queue!Fifo!Refused, Queue!Refused, Depth
<1> QED
  BY <1>2, <1>3

\* It takes the oldest event, or is refused.
LEMMA PopStep ==
  ASSUME Aligned(ring), Queue!Pop
  PROVE  /\ Aligned(ring')
         /\ Queue!Fifo!FifoPop
         /\ Held(ring') = IF Held(ring) # <<>> THEN Tail(Held(ring)) ELSE Held(ring)
<1>1. /\ ring \in Queue!Rings
      /\ Held(ring) \in Seq(Events)
      /\ Len(Held(ring)) = ring.count
  BY RingFields DEF Aligned
<1>2. CASE ring.count # 0
  <2>1. /\ ring' = [ring EXCEPT !.tail = Queue!NextSlot(@), !.count = @ - 1]
        /\ answer' = Queue!Accepted(<<ring.storage[ring.tail]>>)
    BY <1>2 DEF Queue!Pop
  <2>2. /\ Aligned(ring')
        /\ Held(ring) # <<>>
        /\ Head(Held(ring)) = ring.storage[ring.tail]
        /\ Held(ring') = Tail(Held(ring))
    BY <1>2, <2>1, Popped
  <2> QED
    BY <2>1, <2>2, RingInvariant DEF Queue!Fifo!FifoPop, Queue!Fifo!Accepted, Queue!Accepted
<1>3. CASE ring.count = 0
  <2>1. ring' = ring /\ answer' = Queue!Refused
    BY <1>3 DEF Queue!Pop
  <2>2. Held(ring) = <<>>
    BY <1>1, <1>3, EmptySeq
  <2> QED
    BY <2>1, <2>2, RingInvariant DEF Queue!Fifo!FifoPop, Queue!Fifo!Refused, Queue!Refused
<1> QED
  BY <1>2, <1>3

\* Clearing forgets all of them.
LEMMA ClearStep ==
  ASSUME Aligned(ring), Queue!Clear
  PROVE  Aligned(ring') /\ Queue!Fifo!FifoClear /\ Held(ring') = <<>>
<1>1. ring \in Queue!Rings
  BY DEF Aligned
<1>2. /\ ring'.storage = ring.storage
      /\ ring'.head = 0 /\ ring'.tail = 0 /\ ring'.count = 0
      /\ ring' \in Queue!Rings
  <2>1. 0 \in Queue!Slots /\ 0 \in 0 .. Depth
    BY DepthType DEF Queue!Slots, Depth
  <2>2. ring' = [ring EXCEPT !.head = 0, !.tail = 0, !.count = 0]
    BY DEF Queue!Clear
  <2> QED
    BY <1>1, <2>1, <2>2 DEF Queue!Rings, Depth
<1>3. Held(ring') = <<>>
  <2>1. Held(ring') \in Seq(Events) /\ Len(Held(ring')) = 0
    BY <1>2, RingFields
  <2> QED
    BY <2>1, EmptySeq
<1>4. (0 + 0) % Depth = 0
  BY DepthType
<1> QED
  BY <1>2, <1>3, <1>4, RingInvariant
     DEF Aligned, Queue!Clear, Queue!Fifo!FifoClear, Queue!Fifo!Accepted, Queue!Accepted

\* A step of the publisher with its ring is one of the publisher and one of the
\* FIFO, or leaves either as it is.
LEMMA QueuedStep ==
  ASSUME RingHoldsEvents, PublisherTypeOK, [QueuedNext]_queuedVars
  PROVE  /\ RingHoldsEvents'
         /\ [PublisherNext]_publisher
         /\ [Queue!Fifo!FifoNext]_(Queue!Fifo!fifoVars)
<1>1. /\ Aligned(ring)
      /\ Held(ring) = publisher.events
      /\ RingHoldsEvents' <=> Aligned(ring') /\ Held(ring') = publisher'.events
  BY RingInvariant DEF RingHoldsEvents
<1>2. publisher \in PublisherRecords /\ Len(publisher.events) <= PublicationQueueDepth
  BY DEF PublisherTypeOK, PublisherOK
<1>3. ASSUME NEW event \in PublicationEvents, QueueOrRefuse(event)
      PROVE  /\ Aligned(ring') /\ Held(ring') = publisher'.events
             /\ [PublisherNext]_publisher
             /\ Queue!Fifo!FifoNext
  <2>1. /\ Aligned(ring')
        /\ Queue!Fifo!FifoPush(event)
        /\ Held(ring') = IF Len(publisher.events) < Depth THEN Append(publisher.events, event)
                                                          ELSE publisher.events
    BY <1>1, <1>3, PushStep DEF QueueOrRefuse
  <2>2. Queue!Fifo!FifoNext
    BY <2>1 DEF Queue!Fifo!FifoNext
  <2>3. CASE event.type = "Encoder" /\ QueueEncoder(event.index, event.data)
    <3>1. /\ event.index \in Controls /\ event.data \in EncoderValues
          /\ EncoderEvent(event.index, event.data) = event
      BY <2>3 DEF PublicationEvents, EncoderEvent
    <3>2. publisher'.events = Append(publisher.events, event) /\ AcceptsEvent(publisher)
      BY <1>2, <2>3, <3>1 DEF QueueEncoder, QueueEvent, PublisherRecords
    <3> QED
      BY <2>1, <2>2, <2>3, <3>1, <3>2 DEF PublisherNext, AcceptsEvent, Depth
  <2>4. CASE event.type = "Buttons" /\ QueueButtons(event.data)
    <3>1. event.data \in ButtonPictures /\ ButtonsEvent(event.data) = event
      BY <2>4 DEF PublicationEvents, ButtonsEvent
    <3>2. publisher'.events = Append(publisher.events, event) /\ AcceptsEvent(publisher)
      BY <1>2, <2>4, <3>1 DEF QueueButtons, QueueEvent, PublisherRecords
    <3> QED
      BY <2>1, <2>2, <2>4, <3>1, <3>2 DEF PublisherNext, AcceptsEvent, Depth
  <2>5. CASE ~AcceptsEvent(publisher) /\ UNCHANGED publisher
    BY <2>1, <2>2, <2>5 DEF AcceptsEvent, Depth
  <2> QED
    BY <1>3, <2>3, <2>4, <2>5 DEF QueueOrRefuse
<1>4. ASSUME ServiceQueue
      PROVE  /\ Aligned(ring') /\ Held(ring') = publisher'.events
             /\ [PublisherNext]_publisher
             /\ Queue!Fifo!FifoNext \/ UNCHANGED Queue!Fifo!fifoVars
  <2>1. Service /\ publisher' = ServicePublisher(publisher)
    BY <1>4 DEF ServiceQueue, Service
  <2>2. PublisherNext
    BY <2>1 DEF PublisherNext
  <2>3. CASE publisher.packetReady \/ SnapshotDue(publisher)
    <3>1. ring' = ring /\ answer' = answer
      BY <1>4, <2>3 DEF ServiceQueue
    <3>2. publisher'.events = publisher.events
      BY <1>2, <2>1, <2>3
         DEF ServicePublisher, SnapshotDue, BuildSnapshotPacket, PublisherRecords
    <3>3. UNCHANGED Queue!Fifo!fifoVars
      BY <3>1, RingInvariant DEF Queue!Fifo!fifoVars
    <3> QED
      BY <1>1, <2>2, <3>1, <3>2, <3>3
  <2>4. CASE ~publisher.packetReady /\ ~SnapshotDue(publisher)
    <3>1. Queue!Pop
      BY <1>4, <2>4 DEF ServiceQueue
    <3>2. /\ Aligned(ring')
          /\ Queue!Fifo!FifoPop
          /\ Held(ring') = IF publisher.events # <<>> THEN Tail(publisher.events)
                                                      ELSE publisher.events
      BY <1>1, <3>1, PopStep
    <3>3. publisher'.events = IF publisher.events # <<>> THEN Tail(publisher.events)
                                                         ELSE publisher.events
      BY <1>2, <2>1, <2>4 DEF ServicePublisher, PublisherRecords
    <3> QED
      BY <2>2, <3>2, <3>3 DEF Queue!Fifo!FifoNext
  <2> QED
    BY <2>3, <2>4
<1>5. ASSUME Clear, Queue!Clear
      PROVE  /\ Aligned(ring') /\ Held(ring') = publisher'.events
             /\ [PublisherNext]_publisher
             /\ Queue!Fifo!FifoNext
  <2>1. publisher'.events = <<>>
    BY <1>5 DEF Clear, ClearPublisher, EmptyPublisher
  <2> QED
    BY <1>1, <1>5, <2>1, ClearStep DEF PublisherNext, Queue!Fifo!FifoNext
<1>6. ASSUME Consume \/ \E snapshot \in Snapshots : Request(snapshot), UNCHANGED <<ring, answer>>
      PROVE  /\ Aligned(ring') /\ Held(ring') = publisher'.events
             /\ [PublisherNext]_publisher
             /\ UNCHANGED Queue!Fifo!fifoVars
  <2>1. publisher'.events = publisher.events
    BY <1>2, <1>6 DEF Consume, ConsumePacket, Request, RequestSnapshot, PublisherRecords
  <2>2. PublisherNext
    BY <1>6 DEF PublisherNext
  <2>3. UNCHANGED Queue!Fifo!fifoVars
    BY <1>6, RingInvariant DEF Queue!Fifo!fifoVars
  <2> QED
    BY <1>1, <1>6, <2>1, <2>2, <2>3
<1>7. CASE UNCHANGED queuedVars
  <2>1. publisher' = publisher /\ ring' = ring /\ answer' = answer
    BY <1>7 DEF queuedVars
  <2> QED
    BY <1>1, <2>1, RingInvariant DEF Queue!Fifo!fifoVars
<1> QED
  BY <1>1, <1>3, <1>4, <1>5, <1>6, <1>7 DEF QueuedNext

\* The publisher's record and its ring start alike.
LEMMA QueuedStart ==
  ASSUME QueuedInit
  PROVE  RingHoldsEvents /\ PublisherTypeOK /\ Queue!Fifo!FifoInit
<1>1. /\ ring.head = 0 /\ ring.tail = 0 /\ ring.count = 0
      /\ ring \in Queue!Rings
      /\ answer = Queue!Refused
  BY DepthType DEF QueuedInit, Queue!Init, Queue!Rings, Queue!Slots, Depth
<1>2. Held(ring) = <<>>
  <2>1. Held(ring) \in Seq(Events) /\ Len(Held(ring)) = 0
    BY <1>1, RingFields
  <2> QED
    BY <2>1, EmptySeq
<1>3. (0 + 0) % Depth = 0
  BY DepthType
<1>4. Aligned(ring)
  BY <1>1, <1>3 DEF Aligned
<1>5. publisher.events = <<>> /\ PublisherTypeOK
  BY ClearedPublisher DEF QueuedInit, PublisherInit, EmptyPublisher, PublisherTypeOK
<1> QED
  BY <1>1, <1>2, <1>4, <1>5, RingInvariant
     DEF RingHoldsEvents, Queue!Fifo!FifoInit, Queue!Fifo!Refused, Queue!Refused

-----------------------------------------------------------------------------
(* Theorems *)

\* The publisher with its ring is the publisher with a sequence: what is proved
\* of PublisherSpec holds of what the firmware has.
THEOREM RingIsTransparent == QueuedSpec => PublisherSpec /\ []RingHoldsEvents
<1>1. QueuedInit => PublisherInit /\ RingHoldsEvents /\ PublisherTypeOK
  BY QueuedStart DEF QueuedInit
<1>2. RingHoldsEvents /\ PublisherTypeOK /\ [QueuedNext]_queuedVars
        => RingHoldsEvents' /\ [PublisherNext]_publisher
  BY QueuedStep
<1>3. PublisherTypeOK /\ [PublisherNext]_publisher => PublisherTypeOK'
  BY PublisherStep
<1> QED
  BY <1>1, <1>2, <1>3, PTL DEF QueuedSpec, PublisherSpec

\* For every capacity the ring loses, repeats and reorders nothing and refuses
\* exactly when it is full, under every order of calls of the publisher.
THEOREM RingImplementsFifo == QueuedSpec => ImplementsFifo
<1>1. QueuedInit => Queue!Fifo!FifoInit /\ RingHoldsEvents /\ PublisherTypeOK
  BY QueuedStart
<1>2. RingHoldsEvents /\ PublisherTypeOK /\ [QueuedNext]_queuedVars
        => /\ RingHoldsEvents' /\ [PublisherNext]_publisher
           /\ [Queue!Fifo!FifoNext]_(Queue!Fifo!fifoVars)
  BY QueuedStep
<1>3. PublisherTypeOK /\ [PublisherNext]_publisher => PublisherTypeOK'
  BY PublisherStep
<1> QED
  BY <1>1, <1>2, <1>3, PTL
     DEF QueuedSpec, ImplementsFifo, Queue!ImplementsFifo, Queue!Fifo!FifoSpec

\* With the ring it has, the publisher still does what the plan promises.
THEOREM QueuedImplementsPlan == QueuedSpec => ImplementsPlan
<1>1. QueuedSpec => PublisherSpec
  BY RingIsTransparent
<1> QED
  BY <1>1, PublisherImplementsPlan
=============================================================================
