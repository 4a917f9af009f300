-------------------------- MODULE SnapshotPublisher --------------------------
(***************************************************************************)
(* SnapshotPublisher: the queue of incremental events, the phase machine   *)
(* that serialises one frozen snapshot, and the single outgoing packet     *)
(* both of them fill.  Every operation is an operator on the publisher's   *)
(* record, so that McmApplication can call several in one step; the        *)
(* actions below call them one at a time, in any order.                    *)
(***************************************************************************)
EXTENDS McmPackets

CONSTANT PublicationQueueDepth   \* capacity of events_

ASSUME PublicationQueueAssumption ==
  /\ PublicationQueueDepth \in Nat
  /\ PublicationQueueDepth >= ControlCount + 1

VARIABLE publisher

-----------------------------------------------------------------------------
(* State *)

Phases == {"Idle", "Begin", "Encoders", "Buttons", "End"}

PublicationEvents ==
  [type : {"Encoder"}, index : Controls, data : EncoderValues] \cup
  [type : {"Buttons"}, index : {0}, data : ButtonPictures]

EmptyPublisher ==
  [events       |-> <<>>,
   snapshot     |-> EmptySnapshot,
   phase        |-> "Idle",
   encoderIndex |-> 0,
   packet       |-> EmptyPacket,
   packetReady  |-> FALSE,
   endReady     |-> FALSE]      \* packetReadySnapshotEnd_

-----------------------------------------------------------------------------
(* Operations on the record *)

EncoderEvent(control, value) ==
  [type |-> "Encoder", index |-> control, data |-> value]

ButtonsEvent(picture) == [type |-> "Buttons", index |-> 0, data |-> picture]

AcceptsEvent(p) == Len(p.events) < PublicationQueueDepth

\* Mutant of QueueEvent: a later event overtakes the ones that wait.
QueueEventAtFront(p, event) == [p EXCEPT !.events = <<event>> \o @]

QueueEvent(p, event) == [p EXCEPT !.events = Append(@, event)]

\* Mutant of AcceptsSnapshot: a request may replace a snapshot half sent.
AcceptsSnapshotMidway(p) == ~p.packetReady /\ ~p.endReady

AcceptsSnapshot(p) == p.phase = "Idle" /\ ~p.packetReady /\ ~p.endReady

RequestSnapshot(p, snapshot) ==
  [p EXCEPT !.snapshot = snapshot, !.encoderIndex = 0, !.phase = "Begin"]

EventPacket(event) ==
  IF event.type = "Encoder" THEN MakeEncoderState(event.index, event.data)
                            ELSE MakeButtonState(event.data)

\* Mutant of LastEncoder: the index runs past the array.
LastEncoderLate(p) == p.encoderIndex >= ControlCount

LastEncoder(p) == p.encoderIndex + 1 >= ControlCount

\* One packet of the frozen snapshot; service() calls it when phase # "Idle".
BuildSnapshotPacket(p) ==
  CASE p.phase = "Begin" ->
         [p EXCEPT !.packet = MakeSnapshotBoundary("SnapshotBegin", p.snapshot.sequence),
                   !.phase  = "Encoders"]
    [] p.phase = "Encoders" ->
         [p EXCEPT !.packet = MakeEncoderState(p.encoderIndex,
                                p.snapshot.encoderValues[p.encoderIndex]),
                   !.encoderIndex = @ + 1,
                   !.phase = IF LastEncoder(p) THEN "Buttons" ELSE "Encoders"]
    [] p.phase = "Buttons" ->
         [p EXCEPT !.packet = MakeButtonState(p.snapshot.buttons), !.phase = "End"]
    [] OTHER ->
         [p EXCEPT !.packet = MakeSnapshotBoundary("SnapshotEnd", p.snapshot.sequence),
                   !.phase = "Idle", !.endReady = TRUE]

\* Mutant of SnapshotDue: pending events go out before the snapshot.
SnapshotDueAfterEvents(p) == p.phase # "Idle" /\ p.events = <<>>

SnapshotDue(p) == p.phase # "Idle"

ServicePublisher(p) ==
  IF p.packetReady THEN p
  ELSE IF SnapshotDue(p)
       THEN [BuildSnapshotPacket([p EXCEPT !.endReady = FALSE])
               EXCEPT !.packetReady = TRUE]
  ELSE IF p.events # <<>>
       THEN [p EXCEPT !.packet = EventPacket(Head(p.events)), !.packetReady = TRUE,
                      !.events = Tail(@), !.endReady = FALSE]
  ELSE [p EXCEPT !.endReady = FALSE]

ConsumePacket(p) == [p EXCEPT !.packetReady = FALSE]

\* clear() resets every field.
ClearPublisher(p) == EmptyPublisher

PublisherIdle(p) ==
  /\ ~p.packetReady
  /\ ~p.endReady
  /\ p.phase = "Idle"
  /\ p.events = <<>>

-----------------------------------------------------------------------------
(* The publisher on its own: any caller, any order of calls *)

PublisherInit == publisher = EmptyPublisher

QueueEncoder(control, value) ==
  /\ AcceptsEvent(publisher)
  /\ publisher' = QueueEvent(publisher, EncoderEvent(control, value))

QueueButtons(picture) ==
  /\ AcceptsEvent(publisher)
  /\ publisher' = QueueEvent(publisher, ButtonsEvent(picture))

Request(snapshot) ==
  /\ AcceptsSnapshot(publisher)
  /\ publisher' = RequestSnapshot(publisher, snapshot)

Service == publisher' = ServicePublisher(publisher)

Consume ==
  /\ publisher.packetReady
  /\ publisher' = ConsumePacket(publisher)

Clear == publisher' = ClearPublisher(publisher)

PublisherNext ==
  \/ \E control \in Controls, value \in EncoderValues : QueueEncoder(control, value)
  \/ \E picture \in ButtonPictures : QueueButtons(picture)
  \/ \E snapshot \in Snapshots : Request(snapshot)
  \/ Service
  \/ Consume
  \/ Clear

PublisherSpec == PublisherInit /\ [][PublisherNext]_publisher

-----------------------------------------------------------------------------
(* Type and structure *)

PublisherRecords ==
  [events       : Seq(PublicationEvents),
   snapshot     : Snapshots,
   phase        : Phases,
   encoderIndex : 0 .. ControlCount,
   packet       : Packets,
   packetReady  : BOOLEAN,
   endReady     : BOOLEAN]

PublisherOK(p) ==
  /\ p \in PublisherRecords
  /\ Len(p.events) <= PublicationQueueDepth
  /\ p.phase = "Begin" => p.encoderIndex = 0
  /\ p.phase = "Encoders" => p.encoderIndex < ControlCount

\* Every field keeps its type, the queue stays inside its storage, and the
\* encoder index inside the array while buildSnapshotPacket reads with it.
PublisherTypeOK == PublisherOK(publisher)

-----------------------------------------------------------------------------
(* Refinement: the publisher implements the publication plan *)

\* How many packets of the frozen snapshot have been built.
Built(p) ==
  CASE p.phase = "Begin"    -> 0
    [] p.phase = "Encoders" -> p.encoderIndex + 1
    [] p.phase = "Buttons"  -> ControlCount + 1
    [] p.phase = "End"      -> ControlCount + 2
    [] OTHER                -> SnapshotPacketCount

\* The packets of the frozen snapshot that are still to be built.
BaselinePackets(p) ==
  [k \in 1 .. SnapshotPacketCount - Built(p) |->
     SnapshotPackets(p.snapshot)[Built(p) + k]]

EventPackets(p) == [k \in 1 .. Len(p.events) |-> EventPacket(p.events[k])]

OfferedPacket(p) == IF p.packetReady THEN <<p.packet>> ELSE <<>>

Plan == INSTANCE PublicationPlan WITH
          baseline   <- BaselinePackets(publisher),
          increments <- EventPackets(publisher),
          offered    <- OfferedPacket(publisher)

\* What callers rely on: a frozen snapshot comes out whole, in wire order and
\* uninterrupted, and increments come out afterwards in the order queued.
ImplementsPlan == Plan!PlanSpec
=============================================================================
