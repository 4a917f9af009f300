--------------------------- MODULE QueuedPublisher ---------------------------
(***************************************************************************)
(* SnapshotPublisher with the EventQueue it really holds: every call runs  *)
(* on the sequence publisher.events and on the ring buffer in lockstep,    *)
(* each with its own test for room.  It shows what the other modules rely  *)
(* on when they keep a queue as a sequence.                                *)
(***************************************************************************)
EXTENDS SnapshotPublisher

VARIABLES
  ring,     \* events_
  answer    \* what its last push, pop or clear returned

queuedVars == <<publisher, ring, answer>>

\* PublicationEvent{}.
BlankEvent == EncoderEvent(0, 0)

Queue == INSTANCE EventQueue WITH
           Capacity <- PublicationQueueDepth,
           Values   <- PublicationEvents,
           Blank    <- BlankEvent

QueuedInit == PublisherInit /\ Queue!Init

\* queueEncoder and queueButtons return what push does.
QueueOrRefuse(event) ==
  /\ Queue!Push(event)
  /\ \/ /\ event.type = "Encoder"
        /\ QueueEncoder(event.index, event.data)
     \/ /\ event.type = "Buttons"
        /\ QueueButtons(event.data)
     \/ /\ ~AcceptsEvent(publisher)
        /\ UNCHANGED publisher

\* service() calls pop only with nothing to send and no snapshot under way.
ServiceQueue ==
  /\ Service
  /\ IF publisher.packetReady \/ SnapshotDue(publisher)
     THEN UNCHANGED <<ring, answer>> ELSE Queue!Pop

QueuedNext ==
  \/ \E event \in PublicationEvents : QueueOrRefuse(event)
  \/ ServiceQueue
  \/ Clear /\ Queue!Clear
  \/ (Consume \/ \E snapshot \in Snapshots : Request(snapshot)) /\ UNCHANGED <<ring, answer>>

QueuedSpec == QueuedInit /\ [][QueuedNext]_queuedVars

-----------------------------------------------------------------------------

\* The three indices of the ring stay inside its storage and agree, and what
\* it holds between them is what the publisher's calls have left waiting.
RingHoldsEvents ==
  /\ Queue!RingOK
  /\ Queue!Contents = publisher.events

\* Every call does to the contents, and answers, what the bounded FIFO does:
\* nothing is lost, overwritten or handed out twice across the wrap.
ImplementsFifo == Queue!ImplementsFifo
=============================================================================
