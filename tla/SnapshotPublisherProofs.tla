----------------------- MODULE SnapshotPublisherProofs -----------------------
(***************************************************************************)
(* What the publisher's operations preserve, for every number of controls, *)
(* every queue depth the static_assert of HardwareConfig.h allows and      *)
(* every value domain; and that the publisher implements PublicationPlan:  *)
(* each call is one step of the plan or leaves the plan as it is.          *)
(***************************************************************************)
EXTENDS SnapshotPublisher, SequenceTheorems, TLAPS

\* The packets the firmware builds are packets: what goes into the index byte
\* is a control or the control count, and the payload is a number.
LEMMA MadePacketsType ==
  /\ \A c \in Controls, v \in EncoderValues : MakeEncoderState(c, v) \in Packets
  /\ \A b \in ButtonPictures : MakeButtonState(b) \in Packets
  /\ \A t \in {"SnapshotBegin", "SnapshotEnd"}, s \in Sequences :
       MakeSnapshotBoundary(t, s) \in Packets
  /\ \A e \in PublicationEvents : EventPacket(e) \in Packets
  /\ EmptyPacket \in Packets
<1>1. ControlCount \in 0 .. ControlCount /\ 0 \in 0 .. ControlCount
  BY ControlCountAssumption
<1>2. ASSUME NEW c \in Controls, NEW v \in EncoderValues
      PROVE  MakeEncoderState(c, v) \in Packets
  <2>1. ClampSigned24(v) \in Int
    BY DataAssumption, WireAssumption DEF ClampSigned24
  <2>2. c \in 0 .. ControlCount
    BY ControlCountAssumption DEF Controls
  <2> QED
    BY <2>1, <2>2 DEF MakeEncoderState, Packets, MessageTypes
<1>3. ASSUME NEW b \in ButtonPictures
      PROVE  MakeButtonState(b) \in Packets
  BY <1>1, DataAssumption DEF MakeButtonState, Packets, MessageTypes
<1>4. ASSUME NEW t \in {"SnapshotBegin", "SnapshotEnd"}, NEW s \in Sequences
      PROVE  MakeSnapshotBoundary(t, s) \in Packets
  BY <1>1 DEF MakeSnapshotBoundary, Packets, MessageTypes, Sequences
<1>5. ASSUME NEW e \in PublicationEvents
      PROVE  EventPacket(e) \in Packets
  BY <1>2, <1>3 DEF EventPacket, PublicationEvents
<1>6. EmptyPacket \in Packets
  BY <1>1 DEF EmptyPacket, Packets, MessageTypes
<1> QED
  BY <1>2, <1>3, <1>4, <1>5, <1>6

\* A cleared publisher is well formed and accepts a snapshot request: the
\* reason recoverPublicationIntegrity can always complete.
LEMMA ClearedPublisher ==
  /\ EmptySnapshot \in Snapshots
  /\ PublisherOK(EmptyPublisher)
  /\ AcceptsSnapshot(EmptyPublisher)
<1>1. 0 \in Sequences /\ 0 \in 0 .. ControlCount
  BY ControlCountAssumption, WireAssumption DEF Sequences
<1>2. EmptySnapshot \in Snapshots
  BY <1>1, DataAssumption DEF EmptySnapshot, Snapshots
<1>3. EmptyPublisher \in PublisherRecords
  BY <1>1, <1>2, MadePacketsType DEF EmptyPublisher, PublisherRecords, Phases
<1>4. Len(EmptyPublisher.events) <= PublicationQueueDepth
  BY PublicationQueueAssumption, ControlCountAssumption DEF EmptyPublisher
<1> QED
  BY <1>2, <1>3, <1>4 DEF EmptyPublisher, PublisherOK, AcceptsSnapshot

\* Queueing an event the queue has room for.
LEMMA QueueEventOK ==
  ASSUME NEW p, PublisherOK(p), AcceptsEvent(p), NEW event \in PublicationEvents
  PROVE  PublisherOK(QueueEvent(p, event))
<1>1. p.events \in Seq(PublicationEvents)
  BY DEF PublisherOK, PublisherRecords
<1>2. /\ Append(p.events, event) \in Seq(PublicationEvents)
      /\ Len(Append(p.events, event)) = Len(p.events) + 1
      /\ Len(p.events) \in Nat
  BY <1>1
<1>3. Len(p.events) + 1 <= PublicationQueueDepth
  BY <1>2, PublicationQueueAssumption DEF AcceptsEvent
<1> QED
  BY <1>2, <1>3 DEF PublisherOK, PublisherRecords, QueueEvent

\* The two kinds of event are events.
LEMMA EventsType ==
  /\ \A c \in Controls, v \in EncoderValues : EncoderEvent(c, v) \in PublicationEvents
  /\ \A b \in ButtonPictures : ButtonsEvent(b) \in PublicationEvents
BY DEF EncoderEvent, ButtonsEvent, PublicationEvents

\* Accepting a snapshot.
LEMMA RequestSnapshotOK ==
  ASSUME NEW p, PublisherOK(p), NEW snapshot \in Snapshots
  PROVE  PublisherOK(RequestSnapshot(p, snapshot))
<1>1. 0 \in 0 .. ControlCount /\ 0 < ControlCount
  BY ControlCountAssumption
<1>2. RequestSnapshot(p, snapshot) \in PublisherRecords
  BY <1>1 DEF PublisherOK, PublisherRecords, RequestSnapshot, Phases
<1>3. /\ RequestSnapshot(p, snapshot).events = p.events
      /\ RequestSnapshot(p, snapshot).phase = "Begin"
      /\ RequestSnapshot(p, snapshot).encoderIndex = 0
  BY DEF PublisherOK, PublisherRecords, RequestSnapshot
<1> QED
  BY <1>2, <1>3 DEF PublisherOK

\* Building the next packet of the frozen snapshot, in each phase: the encoder
\* index never leaves encoderValues.
LEMMA BuildSnapshotPacketOK ==
  ASSUME NEW p, PublisherOK(p), p.phase # "Idle"
  PROVE  PublisherOK(BuildSnapshotPacket(p))
<1> USE DEF PublisherOK, PublisherRecords
<1>1. /\ p.snapshot.sequence \in Sequences
      /\ p.snapshot.buttons \in ButtonPictures
      /\ \A c \in Controls : p.snapshot.encoderValues[c] \in EncoderValues
  BY DEF Snapshots
<1>2. CASE p.phase = "Begin"
  <2>1. MakeSnapshotBoundary("SnapshotBegin", p.snapshot.sequence) \in Packets
    BY <1>1, MadePacketsType
  <2>2. p.encoderIndex = 0 /\ 0 < ControlCount
    BY <1>2, ControlCountAssumption
  <2> QED
    BY <1>2, <2>1, <2>2 DEF BuildSnapshotPacket, Phases
<1>3. CASE p.phase = "Encoders"
  <2>1. p.encoderIndex \in Controls
    BY <1>3, ControlCountAssumption DEF Controls
  <2>2. MakeEncoderState(p.encoderIndex, p.snapshot.encoderValues[p.encoderIndex])
          \in Packets
    BY <1>1, <2>1, MadePacketsType
  <2>3. /\ p.encoderIndex + 1 \in 0 .. ControlCount
        /\ ~LastEncoder(p) => p.encoderIndex + 1 < ControlCount
    BY <2>1, ControlCountAssumption DEF Controls, LastEncoder
  <2> QED
    BY <1>3, <2>2, <2>3 DEF BuildSnapshotPacket, Phases
<1>4. CASE p.phase = "Buttons"
  <2>1. MakeButtonState(p.snapshot.buttons) \in Packets
    BY <1>1, MadePacketsType
  <2> QED
    BY <1>4, <2>1 DEF BuildSnapshotPacket, Phases
<1>5. CASE p.phase = "End"
  <2>1. MakeSnapshotBoundary("SnapshotEnd", p.snapshot.sequence) \in Packets
    BY <1>1, MadePacketsType
  <2> QED
    BY <1>5, <2>1 DEF BuildSnapshotPacket, Phases
<1> QED
  BY <1>2, <1>3, <1>4, <1>5 DEF Phases

\* service() in each of its four outcomes.
LEMMA ServicePublisherOK ==
  ASSUME NEW p, PublisherOK(p)
  PROVE  PublisherOK(ServicePublisher(p))
<1> DEFINE q == [p EXCEPT !.endReady = FALSE]
<1>1. PublisherOK(q) /\ q.phase = p.phase
  BY DEF PublisherOK, PublisherRecords
<1>2. CASE p.packetReady
  BY <1>2 DEF ServicePublisher
<1>3. CASE ~p.packetReady /\ SnapshotDue(p)
  <2>1. PublisherOK(BuildSnapshotPacket(q))
    BY <1>1, <1>3, BuildSnapshotPacketOK DEF SnapshotDue
  <2>2. ServicePublisher(p) = [BuildSnapshotPacket(q) EXCEPT !.packetReady = TRUE]
    BY <1>3 DEF ServicePublisher
  <2> QED
    BY <2>1, <2>2 DEF PublisherOK, PublisherRecords
<1>4. CASE ~p.packetReady /\ ~SnapshotDue(p) /\ p.events # <<>>
  <2>1. p.events \in Seq(PublicationEvents)
    BY DEF PublisherOK, PublisherRecords
  <2>2. /\ Head(p.events) \in PublicationEvents
        /\ Tail(p.events) \in Seq(PublicationEvents)
        /\ Len(Tail(p.events)) = Len(p.events) - 1
        /\ Len(p.events) \in Nat
    BY <1>4, <2>1
  <2>3. EventPacket(Head(p.events)) \in Packets
    BY <2>2, MadePacketsType
  <2>4. Len(Tail(p.events)) <= PublicationQueueDepth
    BY <2>2, PublicationQueueAssumption DEF PublisherOK
  <2> QED
    BY <1>4, <2>2, <2>3, <2>4 DEF ServicePublisher, PublisherOK, PublisherRecords
<1>5. CASE ~p.packetReady /\ ~SnapshotDue(p) /\ p.events = <<>>
  BY <1>1, <1>5 DEF ServicePublisher
<1> QED
  BY <1>2, <1>3, <1>4, <1>5

\* The packet is handed over.
LEMMA ConsumePacketOK ==
  ASSUME NEW p, PublisherOK(p)
  PROVE  PublisherOK(ConsumePacket(p))
BY DEF PublisherOK, PublisherRecords, ConsumePacket

\* Every call keeps the publisher well formed.
LEMMA PublisherStep == PublisherTypeOK /\ [PublisherNext]_publisher => PublisherTypeOK'
<1> SUFFICES ASSUME PublisherOK(publisher), [PublisherNext]_publisher
             PROVE  PublisherOK(publisher')
  BY DEF PublisherTypeOK
<1>1. CASE \E c \in Controls, v \in EncoderValues : QueueEncoder(c, v)
  BY <1>1, QueueEventOK, EventsType DEF QueueEncoder
<1>2. CASE \E b \in ButtonPictures : QueueButtons(b)
  BY <1>2, QueueEventOK, EventsType DEF QueueButtons
<1>3. CASE \E snapshot \in Snapshots : Request(snapshot)
  BY <1>3, RequestSnapshotOK DEF Request
<1>4. CASE Service
  BY <1>4, ServicePublisherOK DEF Service
<1>5. CASE Consume
  BY <1>5, ConsumePacketOK DEF Consume
<1>6. CASE Clear
  BY <1>6, ClearedPublisher DEF Clear, ClearPublisher
<1>7. CASE UNCHANGED publisher
  BY <1>7
<1> QED
  BY <1>1, <1>2, <1>3, <1>4, <1>5, <1>6, <1>7 DEF PublisherNext

\* The publisher stays well formed under any sequence of calls: no phase reads
\* encoderValues outside the array and the event queue never overflows.
THEOREM PublisherTypeCorrect == PublisherSpec => []PublisherTypeOK
<1>1. PublisherInit => PublisherTypeOK
  BY ClearedPublisher DEF PublisherInit, PublisherTypeOK
<1> QED
  BY <1>1, PublisherStep, PTL DEF PublisherSpec

-----------------------------------------------------------------------------
(* Sequences *)

\* What is left of a sequence of n packets when built of them are gone.
Rest(packets, n, built) == [k \in 1 .. n - built |-> packets[built + k]]

\* As long as something is left, its head is the next packet and its tail what
\* is left behind that one.
LEMMA RestOf ==
  ASSUME NEW n \in Nat, NEW packets \in [1 .. n -> Packets], NEW built \in 0 .. n
  PROVE  /\ Rest(packets, n, built) \in Seq(Packets)
         /\ Len(Rest(packets, n, built)) = n - built
         /\ built = n => Rest(packets, n, built) = <<>>
         /\ built = 0 => Rest(packets, n, built) = packets
         /\ built < n => /\ Rest(packets, n, built) # <<>>
                         /\ Head(Rest(packets, n, built)) = packets[built + 1]
                         /\ Tail(Rest(packets, n, built)) = Rest(packets, n, built + 1)
<1>1. ASSUME NEW b \in 0 .. n
      PROVE  Rest(packets, n, b) \in Seq(Packets) /\ Len(Rest(packets, n, b)) = n - b
  <2>1. n - b \in Nat
    OBVIOUS
  <2>2. Rest(packets, n, b) \in [1 .. n - b -> Packets]
    BY DEF Rest
  <2>3. Rest(packets, n, b) \in Seq(Packets)
    BY <2>1, <2>2, SeqDef
  <2> QED
    BY <2>1, <2>2, <2>3, LenProperties
<1>2. ASSUME built = n
      PROVE  Rest(packets, n, built) = <<>>
  BY <1>1, <1>2, EmptySeq
<1>3. ASSUME built = 0
      PROVE  Rest(packets, n, built) = packets
  BY <1>3 DEF Rest
<1>4. ASSUME built < n
      PROVE  /\ Rest(packets, n, built) # <<>>
             /\ Head(Rest(packets, n, built)) = packets[built + 1]
             /\ Tail(Rest(packets, n, built)) = Rest(packets, n, built + 1)
  <2>1. built + 1 \in 0 .. n /\ n - built # 0 /\ 1 \in 1 .. n - built
    BY <1>4
  <2>2. Rest(packets, n, built) # <<>>
    BY <1>1, <2>1, EmptySeq
  <2>3. Head(Rest(packets, n, built)) = packets[built + 1]
    BY <1>1, <2>1, <2>2 DEF Rest
  <2>4. /\ Tail(Rest(packets, n, built)) \in Seq(Packets)
        /\ Len(Tail(Rest(packets, n, built))) = n - (built + 1)
        /\ \A k \in 1 .. n - (built + 1) :
             Tail(Rest(packets, n, built))[k] = Rest(packets, n, built)[k + 1]
    BY <1>1, <2>1, <2>2, HeadTailProperties
  <2>5. ASSUME NEW k \in 1 .. n - (built + 1)
        PROVE  Rest(packets, n, built)[k + 1] = Rest(packets, n, built + 1)[k]
    <3>1. k + 1 \in 1 .. n - built /\ built + (k + 1) = (built + 1) + k
      OBVIOUS
    <3> QED
      BY <3>1 DEF Rest
  <2> QED
    BY <1>1, <2>1, <2>2, <2>3, <2>4, <2>5, SeqEqual
<1> QED
  BY <1>1, <1>2, <1>3, <1>4

\* A snapshot's packets, in wire order.
LEMMA SnapshotPacketsAre ==
  ASSUME NEW snapshot \in Snapshots
  PROVE  /\ SnapshotPacketCount \in Nat
         /\ SnapshotPackets(snapshot) \in [1 .. SnapshotPacketCount -> Packets]
         /\ SnapshotPackets(snapshot)[1] =
              MakeSnapshotBoundary("SnapshotBegin", snapshot.sequence)
         /\ \A c \in Controls : SnapshotPackets(snapshot)[c + 2] =
              MakeEncoderState(c, snapshot.encoderValues[c])
         /\ SnapshotPackets(snapshot)[ControlCount + 2] = MakeButtonState(snapshot.buttons)
         /\ SnapshotPackets(snapshot)[ControlCount + 3] =
              MakeSnapshotBoundary("SnapshotEnd", snapshot.sequence)
<1>1. ControlCount \in Nat /\ ControlCount > 0 /\ SnapshotPacketCount = ControlCount + 3
  BY ControlCountAssumption DEF SnapshotPacketCount
<1>2. /\ snapshot.sequence \in Sequences
      /\ snapshot.buttons \in ButtonPictures
      /\ \A c \in Controls : snapshot.encoderValues[c] \in EncoderValues
  BY DEF Snapshots
<1>3. SnapshotPackets(snapshot)[1] = MakeSnapshotBoundary("SnapshotBegin", snapshot.sequence)
  BY <1>1 DEF SnapshotPackets
<1>4. ASSUME NEW c \in Controls
      PROVE  SnapshotPackets(snapshot)[c + 2] = MakeEncoderState(c, snapshot.encoderValues[c])
  <2>1. /\ c + 2 \in 2 .. ControlCount + 1 /\ c + 2 # 1 /\ (c + 2) - 2 = c
        /\ c + 2 \in 1 .. SnapshotPacketCount
    BY <1>1 DEF Controls
  <2>2. SnapshotPackets(snapshot)[c + 2] =
          MakeEncoderState((c + 2) - 2, snapshot.encoderValues[(c + 2) - 2])
    BY <1>1, <2>1 DEF SnapshotPackets
  <2> QED
    BY <2>1, <2>2
<1>5. SnapshotPackets(snapshot)[ControlCount + 2] = MakeButtonState(snapshot.buttons)
  BY <1>1 DEF SnapshotPackets
<1>6. SnapshotPackets(snapshot)[ControlCount + 3] =
        MakeSnapshotBoundary("SnapshotEnd", snapshot.sequence)
  BY <1>1 DEF SnapshotPackets
<1>7. ASSUME NEW k \in 1 .. SnapshotPacketCount
      PROVE  SnapshotPackets(snapshot)[k] \in Packets
  <2>1. CASE k = 1
    BY <1>2, <1>3, <2>1, MadePacketsType
  <2>2. CASE k \in 2 .. ControlCount + 1
    <3>1. k - 2 \in Controls /\ (k - 2) + 2 = k
      BY <1>1, <2>2 DEF Controls
    <3> QED
      BY <1>2, <1>4, <3>1, MadePacketsType
  <2>3. CASE k = ControlCount + 2
    BY <1>2, <1>5, <2>3, MadePacketsType
  <2>4. CASE k = ControlCount + 3
    BY <1>2, <1>6, <2>4, MadePacketsType
  <2> QED
    BY <1>1, <2>1, <2>2, <2>3, <2>4
<1>8. SnapshotPackets(snapshot) \in [1 .. SnapshotPacketCount -> Packets]
  BY <1>7 DEF SnapshotPackets
<1> QED
  BY <1>1, <1>3, <1>4, <1>5, <1>6, <1>8

\* The plan's baseline is the rest of the snapshot's packets.
LEMMA BaselineIs ==
  ASSUME NEW p, PublisherOK(p)
  PROVE  /\ Built(p) \in 0 .. SnapshotPacketCount
         /\ BaselinePackets(p) = Rest(SnapshotPackets(p.snapshot), SnapshotPacketCount, Built(p))
         /\ p.phase = "Idle" => BaselinePackets(p) = <<>>
<1>1. /\ p.encoderIndex \in 0 .. ControlCount
      /\ p.snapshot \in Snapshots
      /\ p.phase = "Encoders" => p.encoderIndex < ControlCount
  BY DEF PublisherOK, PublisherRecords
<1>2. Built(p) \in 0 .. SnapshotPacketCount
  BY <1>1, ControlCountAssumption DEF Built, SnapshotPacketCount
<1>3. BaselinePackets(p) = Rest(SnapshotPackets(p.snapshot), SnapshotPacketCount, Built(p))
  BY DEF BaselinePackets, Rest
<1>4. ASSUME p.phase = "Idle"
      PROVE  BaselinePackets(p) = <<>>
  <2>1. Built(p) = SnapshotPacketCount
    BY <1>4 DEF Built
  <2> QED
    BY <1>1, <1>2, <1>3, <2>1, RestOf, SnapshotPacketsAre
<1> QED
  BY <1>2, <1>3, <1>4

\* The increments as a sequence, longer by one behind a queued event and
\* shorter by one behind a served one.
LEMMA EventPacketsAre ==
  ASSUME NEW p, NEW q, p.events \in Seq(PublicationEvents), q.events \in Seq(PublicationEvents)
  PROVE  /\ Len(EventPackets(p)) = Len(p.events)
         /\ \A event \in PublicationEvents :
              q.events = Append(p.events, event) =>
                EventPackets(q) = Append(EventPackets(p), EventPacket(event))
         /\ (p.events # <<>> /\ q.events = Tail(p.events)) =>
              /\ EventPackets(p) # <<>>
              /\ Head(EventPackets(p)) = EventPacket(Head(p.events))
              /\ EventPackets(q) = Tail(EventPackets(p))
         /\ q.events = <<>> => EventPackets(q) = <<>>
<1>1. ASSUME NEW r, r.events \in Seq(PublicationEvents)
      PROVE  /\ EventPackets(r) \in Seq(Packets)
             /\ Len(EventPackets(r)) = Len(r.events)
             /\ Len(r.events) \in Nat
  <2>1. Len(r.events) \in Nat
    BY <1>1, LenProperties
  <2>2. EventPackets(r) \in [1 .. Len(r.events) -> Packets]
    BY <1>1, <2>1, ElementOfSeq, MadePacketsType DEF EventPackets
  <2>3. EventPackets(r) \in Seq(Packets)
    BY <2>1, <2>2, SeqDef
  <2> QED
    BY <2>1, <2>2, <2>3, LenProperties
<1>2. ASSUME NEW event \in PublicationEvents, q.events = Append(p.events, event)
      PROVE  EventPackets(q) = Append(EventPackets(p), EventPacket(event))
  <2>1. EventPacket(event) \in Packets
    BY MadePacketsType
  <2>2. /\ Len(q.events) = Len(p.events) + 1
        /\ \A k \in 1 .. Len(p.events) : q.events[k] = p.events[k]
        /\ q.events[Len(p.events) + 1] = event
    BY <1>2, AppendProperties
  <2>3. /\ Append(EventPackets(p), EventPacket(event)) \in Seq(Packets)
        /\ Len(Append(EventPackets(p), EventPacket(event))) = Len(p.events) + 1
        /\ \A k \in 1 .. Len(p.events) :
             Append(EventPackets(p), EventPacket(event))[k] = EventPackets(p)[k]
        /\ Append(EventPackets(p), EventPacket(event))[Len(p.events) + 1] = EventPacket(event)
    BY <1>1, <2>1, AppendProperties
  <2>4. ASSUME NEW k \in 1 .. Len(p.events) + 1
        PROVE  EventPackets(q)[k] = Append(EventPackets(p), EventPacket(event))[k]
    <3>1. CASE k = Len(p.events) + 1
      BY <1>1, <2>2, <2>3, <3>1 DEF EventPackets
    <3>2. CASE k \in 1 .. Len(p.events)
      BY <1>1, <2>2, <2>3, <3>2 DEF EventPackets
    <3> QED
      BY <1>1, <3>1, <3>2
  <2> QED
    BY <1>1, <2>2, <2>3, <2>4, SeqEqual
<1>3. ASSUME p.events # <<>>, q.events = Tail(p.events)
      PROVE  /\ EventPackets(p) # <<>>
             /\ Head(EventPackets(p)) = EventPacket(Head(p.events))
             /\ EventPackets(q) = Tail(EventPackets(p))
  <2>1. Len(p.events) \in Nat \ {0}
    BY <1>3, EmptySeq
  <2>2. EventPackets(p) # <<>>
    BY <1>1, <2>1, EmptySeq
  <2>3. Head(EventPackets(p)) = EventPacket(Head(p.events))
    <3>1. Head(EventPackets(p)) = EventPackets(p)[1] /\ Head(p.events) = p.events[1]
      BY <1>1, <1>3, <2>2
    <3> QED
      BY <2>1, <3>1 DEF EventPackets
  <2>4. /\ Len(q.events) = Len(p.events) - 1
        /\ \A k \in 1 .. Len(p.events) - 1 : q.events[k] = p.events[k + 1]
    BY <1>3, HeadTailProperties
  <2>5. /\ Tail(EventPackets(p)) \in Seq(Packets)
        /\ Len(Tail(EventPackets(p))) = Len(p.events) - 1
        /\ \A k \in 1 .. Len(p.events) - 1 : Tail(EventPackets(p))[k] = EventPackets(p)[k + 1]
    BY <1>1, <2>2, HeadTailProperties
  <2>6. ASSUME NEW k \in 1 .. Len(p.events) - 1
        PROVE  EventPackets(q)[k] = Tail(EventPackets(p))[k]
    BY <2>1, <2>4, <2>5 DEF EventPackets
  <2> QED
    BY <1>1, <2>2, <2>3, <2>4, <2>5, <2>6, SeqEqual
<1>4. ASSUME q.events = <<>>
      PROVE  EventPackets(q) = <<>>
  BY <1>1, <1>4, EmptySeq
<1> QED
  BY <1>1, <1>2, <1>3, <1>4

-----------------------------------------------------------------------------
(* The calls *)

\* building one more packet of the snapshot moves it from the baseline.
LEMMA BuiltNext ==
  ASSUME NEW p, PublisherOK(p), p.phase # "Idle"
  PROVE  LET q == BuildSnapshotPacket(p)
         IN  /\ Built(p) < SnapshotPacketCount
             /\ Built(q) = Built(p) + 1
             /\ q.packet = SnapshotPackets(p.snapshot)[Built(p) + 1]
             /\ q.snapshot = p.snapshot
             /\ q.events = p.events
<1> DEFINE q == BuildSnapshotPacket(p)
<1> USE DEF PublisherOK, PublisherRecords
<1>1. /\ p.snapshot \in Snapshots
      /\ ControlCount \in Nat /\ ControlCount > 0
      /\ SnapshotPacketCount = ControlCount + 3
  BY ControlCountAssumption DEF SnapshotPacketCount
<1>2. q.snapshot = p.snapshot /\ q.events = p.events
  BY DEF BuildSnapshotPacket
<1>3. CASE p.phase = "Begin"
  <2>1. /\ q.phase = "Encoders" /\ q.encoderIndex = 0
        /\ q.packet = MakeSnapshotBoundary("SnapshotBegin", p.snapshot.sequence)
    BY <1>3 DEF BuildSnapshotPacket
  <2>2. Built(p) = 0 /\ Built(q) = 1
    BY <1>3, <2>1 DEF Built
  <2> QED
    BY <1>1, <1>2, <2>1, <2>2, SnapshotPacketsAre
<1>4. CASE p.phase = "Encoders"
  <2>1. p.encoderIndex \in Controls /\ p.encoderIndex \in 0 .. ControlCount - 1
    BY <1>1, <1>4 DEF Controls
  <2>2. /\ q.packet = MakeEncoderState(p.encoderIndex, p.snapshot.encoderValues[p.encoderIndex])
        /\ q.encoderIndex = p.encoderIndex + 1
        /\ q.phase = IF p.encoderIndex + 1 >= ControlCount THEN "Buttons" ELSE "Encoders"
    BY <1>4 DEF BuildSnapshotPacket, LastEncoder
  <2>3. Built(p) = p.encoderIndex + 1
    BY <1>4 DEF Built
  <2>4. Built(q) = p.encoderIndex + 2
    <3>1. CASE p.encoderIndex + 1 >= ControlCount
      BY <1>1, <2>1, <2>2, <3>1 DEF Built
    <3>2. CASE ~(p.encoderIndex + 1 >= ControlCount)
      BY <2>1, <2>2, <3>2 DEF Built
    <3> QED
      BY <3>1, <3>2
  <2>5. SnapshotPackets(p.snapshot)[p.encoderIndex + 2] = q.packet
    BY <1>1, <2>1, <2>2, SnapshotPacketsAre
  <2> QED
    BY <1>1, <1>2, <2>1, <2>3, <2>4, <2>5
<1>5. CASE p.phase = "Buttons"
  <2>1. q.phase = "End" /\ q.packet = MakeButtonState(p.snapshot.buttons)
    BY <1>5 DEF BuildSnapshotPacket
  <2>2. Built(p) = ControlCount + 1 /\ Built(q) = ControlCount + 2
    BY <1>5, <2>1 DEF Built
  <2>3. SnapshotPackets(p.snapshot)[ControlCount + 2] = q.packet
    BY <1>1, <2>1, SnapshotPacketsAre
  <2> QED
    BY <1>1, <1>2, <2>2, <2>3
<1>6. CASE p.phase = "End"
  <2>1. /\ q.phase = "Idle"
        /\ q.packet = MakeSnapshotBoundary("SnapshotEnd", p.snapshot.sequence)
    BY <1>6 DEF BuildSnapshotPacket
  <2>2. Built(p) = ControlCount + 2 /\ Built(q) = ControlCount + 3
    BY <1>1, <1>6, <2>1 DEF Built
  <2>3. SnapshotPackets(p.snapshot)[ControlCount + 3] = q.packet
    BY <1>1, <2>1, SnapshotPacketsAre
  <2> QED
    BY <1>1, <1>2, <2>2, <2>3
<1> QED
  BY <1>3, <1>4, <1>5, <1>6 DEF Phases

\* What the plan sees of two records that differ in flags only.
LEMMA SameBaseline ==
  ASSUME NEW p, NEW q, q.phase = p.phase, q.snapshot = p.snapshot,
         q.encoderIndex = p.encoderIndex
  PROVE  BaselinePackets(q) = BaselinePackets(p)
BY DEF BaselinePackets, Built

\* What is queued depends on the events alone.
LEMMA SameIncrements ==
  ASSUME NEW p, NEW q, q.events = p.events
  PROVE  EventPackets(q) = EventPackets(p)
BY DEF EventPackets

\* queueEncoder and queueButtons, with room.
LEMMA QueuedEvent ==
  ASSUME NEW p, PublisherOK(p), AcceptsEvent(p), NEW event \in PublicationEvents,
         NEW q, q = QueueEvent(p, event)
  PROVE  /\ Len(EventPackets(p)) < PublicationQueueDepth
         /\ EventPackets(q) = Append(EventPackets(p), EventPacket(event))
         /\ BaselinePackets(q) = BaselinePackets(p)
         /\ OfferedPacket(q) = OfferedPacket(p)
<1>1. /\ p.events \in Seq(PublicationEvents)
      /\ q = [p EXCEPT !.events = Append(@, event)]
      /\ q.events = Append(p.events, event)
      /\ q.phase = p.phase /\ q.snapshot = p.snapshot
      /\ q.encoderIndex = p.encoderIndex
      /\ q.packet = p.packet
      /\ q.packetReady = p.packetReady
  BY DEF PublisherOK, PublisherRecords, QueueEvent
<1>2. q.events \in Seq(PublicationEvents)
  BY <1>1, AppendProperties
<1>3. /\ Len(EventPackets(p)) < PublicationQueueDepth
      /\ EventPackets(q) = Append(EventPackets(p), EventPacket(event))
  BY <1>1, <1>2, EventPacketsAre DEF AcceptsEvent
<1>4. BaselinePackets(q) = BaselinePackets(p)
  BY <1>1, SameBaseline
<1>5. OfferedPacket(q) = OfferedPacket(p)
  BY <1>1 DEF OfferedPacket
<1> QED
  BY <1>3, <1>4, <1>5

\* requestSnapshot, accepted.
LEMMA RequestedSnapshot ==
  ASSUME NEW p, PublisherOK(p), AcceptsSnapshot(p), NEW snapshot \in Snapshots,
         NEW q, q = RequestSnapshot(p, snapshot)
  PROVE  /\ BaselinePackets(p) = <<>>
         /\ BaselinePackets(q) = SnapshotPackets(snapshot)
         /\ EventPackets(q) = EventPackets(p)
         /\ OfferedPacket(p) = <<>>
         /\ OfferedPacket(q) = <<>>
<1>1. /\ p.phase = "Idle" /\ ~p.packetReady
      /\ q.phase = "Begin" /\ q.snapshot = snapshot
      /\ q.packetReady = p.packetReady
      /\ q.packet = p.packet
      /\ q.events = p.events
  BY DEF AcceptsSnapshot, RequestSnapshot, PublisherOK, PublisherRecords
<1>2. PublisherOK(q)
  BY RequestSnapshotOK
<1>3. BaselinePackets(p) = <<>>
  BY <1>1, BaselineIs
<1>4. BaselinePackets(q) = SnapshotPackets(snapshot)
  <2>1. Built(q) = 0
    BY <1>1 DEF Built
  <2>2. 0 \in 0 .. SnapshotPacketCount
    BY SnapshotPacketsAre
  <2>3. BaselinePackets(q) = Rest(SnapshotPackets(snapshot), SnapshotPacketCount, 0)
    BY <1>1, <1>2, <2>1, BaselineIs
  <2> QED
    BY <2>2, <2>3, RestOf, SnapshotPacketsAre
<1>5. EventPackets(q) = EventPackets(p)
  BY <1>1, SameIncrements
<1>6. OfferedPacket(p) = <<>> /\ OfferedPacket(q) = <<>>
  BY <1>1 DEF OfferedPacket
<1> QED
  BY <1>3, <1>4, <1>5, <1>6

\* What service() may do to the plan.
OffersBaseline(p, q) ==
  /\ OfferedPacket(p) = <<>>
  /\ BaselinePackets(p) # <<>>
  /\ OfferedPacket(q) = <<Head(BaselinePackets(p))>>
  /\ BaselinePackets(q) = Tail(BaselinePackets(p))
  /\ EventPackets(q) = EventPackets(p)

OffersIncrement(p, q) ==
  /\ OfferedPacket(p) = <<>>
  /\ BaselinePackets(p) = <<>>
  /\ EventPackets(p) # <<>>
  /\ OfferedPacket(q) = <<Head(EventPackets(p))>>
  /\ EventPackets(q) = Tail(EventPackets(p))
  /\ BaselinePackets(q) = BaselinePackets(p)

OffersNothing(p, q) ==
  /\ OfferedPacket(q) = OfferedPacket(p)
  /\ BaselinePackets(q) = BaselinePackets(p)
  /\ EventPackets(q) = EventPackets(p)

\* service() in each of its four outcomes.
LEMMA ServedPacket ==
  ASSUME NEW p, PublisherOK(p), NEW served, served = ServicePublisher(p)
  PROVE  \/ OffersBaseline(p, served)
         \/ OffersIncrement(p, served)
         \/ OffersNothing(p, served)
<1> DEFINE flagged == [p EXCEPT !.endReady = FALSE]
<1>1. /\ p \in PublisherRecords
      /\ p.events \in Seq(PublicationEvents)
      /\ p.snapshot \in Snapshots
  BY DEF PublisherOK, PublisherRecords
<1>2. /\ PublisherOK(flagged)
      /\ flagged.phase = p.phase /\ flagged.snapshot = p.snapshot
      /\ flagged.encoderIndex = p.encoderIndex /\ flagged.events = p.events
      /\ flagged.packetReady = p.packetReady /\ flagged.packet = p.packet
  BY DEF PublisherOK, PublisherRecords
<1> HIDE DEF flagged
<1>3. CASE p.packetReady
  BY <1>1, <1>3 DEF ServicePublisher, OffersNothing
<1>4. CASE ~p.packetReady /\ SnapshotDue(p)
  <2> DEFINE q == BuildSnapshotPacket(flagged)
  <2>1. /\ Built(flagged) < SnapshotPacketCount
        /\ Built(q) = Built(flagged) + 1
        /\ q.packet = SnapshotPackets(p.snapshot)[Built(flagged) + 1]
        /\ q.snapshot = p.snapshot
        /\ q.events = p.events
        /\ PublisherOK(q)
    BY <1>2, <1>4, BuiltNext, BuildSnapshotPacketOK DEF SnapshotDue
  <2>2. /\ served = [q EXCEPT !.packetReady = TRUE]
        /\ q \in PublisherRecords
    BY <1>1, <1>4, <2>1 DEF ServicePublisher, flagged, PublisherOK
  <2> HIDE DEF q
  <2>3. /\ served.packetReady /\ served.packet = q.packet
        /\ served.phase = q.phase /\ served.snapshot = q.snapshot
        /\ served.encoderIndex = q.encoderIndex /\ served.events = q.events
    BY <2>2 DEF PublisherRecords
  <2>4. /\ BaselinePackets(p) =
             Rest(SnapshotPackets(p.snapshot), SnapshotPacketCount, Built(flagged))
        /\ BaselinePackets(served) =
             Rest(SnapshotPackets(p.snapshot), SnapshotPacketCount, Built(flagged) + 1)
    <3>1. BaselinePackets(p) = BaselinePackets(flagged)
      BY <1>2, SameBaseline
    <3>2. BaselinePackets(served) = BaselinePackets(q)
      BY <2>3, SameBaseline
    <3> QED
      BY <1>2, <2>1, <3>1, <3>2, BaselineIs
  <2>5. /\ BaselinePackets(p) # <<>>
        /\ Head(BaselinePackets(p)) = served.packet
        /\ Tail(BaselinePackets(p)) = BaselinePackets(served)
    <3>1. Built(flagged) \in 0 .. SnapshotPacketCount
      BY <1>2, BaselineIs
    <3> QED
      BY <1>1, <2>1, <2>3, <2>4, <3>1, RestOf, SnapshotPacketsAre
  <2>6. EventPackets(served) = EventPackets(p)
    BY <2>1, <2>3, SameIncrements
  <2>7. OfferedPacket(p) = <<>> /\ OfferedPacket(served) = <<served.packet>>
    BY <1>4, <2>3 DEF OfferedPacket
  <2> QED
    BY <2>5, <2>6, <2>7 DEF OffersBaseline
<1>5. CASE ~p.packetReady /\ ~SnapshotDue(p) /\ p.events # <<>>
  <2>1. /\ served.packetReady /\ served.packet = EventPacket(Head(p.events))
        /\ served.events = Tail(p.events)
        /\ served.phase = p.phase /\ served.snapshot = p.snapshot
        /\ served.encoderIndex = p.encoderIndex
    <3>1. served = [p EXCEPT !.packet = EventPacket(Head(p.events)), !.packetReady = TRUE,
                             !.events = Tail(@), !.endReady = FALSE]
      BY <1>5, Zenon DEF ServicePublisher
    <3> QED
      BY <1>1, <3>1 DEF PublisherRecords
  <2>2. served.events \in Seq(PublicationEvents)
    BY <1>1, <1>5, <2>1, HeadTailProperties
  <2>3. /\ EventPackets(p) # <<>>
        /\ Head(EventPackets(p)) = served.packet
        /\ EventPackets(served) = Tail(EventPackets(p))
    BY <1>1, <1>5, <2>1, <2>2, EventPacketsAre
  <2>4. BaselinePackets(p) = <<>> /\ BaselinePackets(served) = <<>>
    BY <1>5, <2>1, BaselineIs, SameBaseline DEF SnapshotDue
  <2>5. OfferedPacket(p) = <<>> /\ OfferedPacket(served) = <<served.packet>>
    BY <1>5, <2>1 DEF OfferedPacket
  <2> QED
    BY <2>3, <2>4, <2>5 DEF OffersIncrement
<1>6. CASE ~p.packetReady /\ ~SnapshotDue(p) /\ p.events = <<>>
  <2>1. served = flagged
    BY <1>1, <1>6 DEF ServicePublisher, flagged
  <2>2. /\ BaselinePackets(served) = BaselinePackets(p)
        /\ EventPackets(served) = EventPackets(p)
        /\ OfferedPacket(served) = OfferedPacket(p)
    BY <1>2, <2>1, SameBaseline, SameIncrements DEF OfferedPacket
  <2> QED
    BY <2>2 DEF OffersNothing
<1> QED
  BY <1>3, <1>4, <1>5, <1>6

\* consumePacket.
LEMMA ConsumeStep ==
  ASSUME PublisherOK(publisher), Consume
  PROVE  Plan!TakeOffered
<1>1. /\ publisher.packetReady /\ ~publisher'.packetReady
      /\ publisher'.phase = publisher.phase /\ publisher'.snapshot = publisher.snapshot
      /\ publisher'.encoderIndex = publisher.encoderIndex
      /\ publisher'.events = publisher.events
  BY DEF Consume, ConsumePacket, PublisherOK, PublisherRecords
<1>2. /\ BaselinePackets(publisher') = BaselinePackets(publisher)
      /\ EventPackets(publisher') = EventPackets(publisher)
  BY <1>1, SameBaseline, SameIncrements
<1>3. OfferedPacket(publisher) # <<>> /\ OfferedPacket(publisher') = <<>>
  BY <1>1 DEF OfferedPacket
<1> QED
  BY <1>2, <1>3 DEF Plan!TakeOffered

\* A publisher just built or cleared has nothing planned.
LEMMA NothingPlanned ==
  /\ BaselinePackets(EmptyPublisher) = <<>>
  /\ EventPackets(EmptyPublisher) = <<>>
  /\ OfferedPacket(EmptyPublisher) = <<>>
<1>1. /\ EmptyPublisher.phase = "Idle" /\ EmptyPublisher.events = <<>>
      /\ ~EmptyPublisher.packetReady
  BY DEF EmptyPublisher
<1>2. BaselinePackets(EmptyPublisher) = <<>>
  BY <1>1, BaselineIs, ClearedPublisher
<1>3. EventPackets(EmptyPublisher) = <<>>
  <2>1. EmptyPublisher.events \in Seq(PublicationEvents)
    BY <1>1, EmptySeq
  <2> QED
    BY <1>1, <2>1, EventPacketsAre
<1> QED
  BY <1>1, <1>2, <1>3 DEF OfferedPacket

\* Whatever the order of calls, a frozen snapshot comes out whole, in wire order
\* and uninterrupted, and increments behind it in the order queued.
THEOREM PublisherImplementsPlan == PublisherSpec => ImplementsPlan
<1>1. PublisherInit => Plan!PlanInit /\ PublisherTypeOK
  BY NothingPlanned, ClearedPublisher DEF PublisherInit, Plan!PlanInit, PublisherTypeOK
<1>2. PublisherTypeOK /\ [PublisherNext]_publisher => [Plan!PlanNext]_(Plan!planVars)
  <2> SUFFICES ASSUME PublisherOK(publisher), [PublisherNext]_publisher
               PROVE  [Plan!PlanNext]_(Plan!planVars)
    BY DEF PublisherTypeOK
  <2>1. ASSUME NEW c \in Controls, NEW v \in EncoderValues, QueueEncoder(c, v)
        PROVE  Plan!PlanNext
    <3>1. /\ EncoderEvent(c, v) \in PublicationEvents
          /\ EventPacket(EncoderEvent(c, v)) = MakeEncoderState(c, v)
      BY EventsType DEF EventPacket, EncoderEvent
    <3>2. Plan!PlanIncrement(MakeEncoderState(c, v))
      BY <2>1, <3>1, QueuedEvent DEF QueueEncoder, Plan!PlanIncrement
    <3> QED
      BY <3>2 DEF Plan!PlanNext, Plan!Controls, Controls, Plan!MakeEncoderState,
                  MakeEncoderState, Plan!ClampSigned24, ClampSigned24
  <2>2. ASSUME NEW b \in ButtonPictures, QueueButtons(b)
        PROVE  Plan!PlanNext
    <3>1. /\ ButtonsEvent(b) \in PublicationEvents
          /\ EventPacket(ButtonsEvent(b)) = MakeButtonState(b)
      BY EventsType DEF EventPacket, ButtonsEvent
    <3>2. Plan!PlanIncrement(MakeButtonState(b))
      BY <2>2, <3>1, QueuedEvent DEF QueueButtons, Plan!PlanIncrement
    <3> QED
      BY <3>2 DEF Plan!PlanNext, Plan!MakeButtonState, MakeButtonState
  <2>3. ASSUME NEW snapshot \in Snapshots, Request(snapshot)
        PROVE  Plan!PlanNext
    <3>1. Plan!SnapshotPackets(snapshot) = SnapshotPackets(snapshot)
      BY DEF Plan!SnapshotPackets, SnapshotPackets, Plan!SnapshotPacketCount,
             SnapshotPacketCount, Plan!MakeSnapshotBoundary, MakeSnapshotBoundary,
             Plan!MakeEncoderState, MakeEncoderState, Plan!ClampSigned24, ClampSigned24,
             Plan!MakeButtonState, MakeButtonState
    <3>2. Plan!PlanSnapshot(snapshot)
      BY <2>3, <3>1, RequestedSnapshot DEF Request, Plan!PlanSnapshot
    <3> QED
      BY <3>2 DEF Plan!PlanNext, Plan!Snapshots, Snapshots, Plan!Controls, Controls,
                  Plan!Sequences, Sequences
  <2>4. CASE Service
    BY <2>4, ServedPacket
       DEF Service, OffersBaseline, OffersIncrement, OffersNothing, Plan!PlanNext,
           Plan!OfferBaseline, Plan!OfferIncrement, Plan!planVars
  <2>5. CASE Consume
    BY <2>5, ConsumeStep DEF Plan!PlanNext
  <2>6. CASE Clear
    BY <2>6, NothingPlanned DEF Clear, ClearPublisher, Plan!PlanNext, Plan!Discard
  <2>7. CASE UNCHANGED publisher
    BY <2>7 DEF Plan!planVars
  <2> QED
    BY <2>1, <2>2, <2>3, <2>4, <2>5, <2>6, <2>7 DEF PublisherNext
<1> QED
  BY <1>1, <1>2, PublisherStep, PTL DEF PublisherSpec, ImplementsPlan, Plan!PlanSpec
=============================================================================
