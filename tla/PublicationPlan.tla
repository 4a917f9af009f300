--------------------------- MODULE PublicationPlan ---------------------------
(***************************************************************************)
(* What the publisher promises the application, without phases or flags:   *)
(* three sequences of packets.  The rest of the frozen snapshot always     *)
(* goes before the increments, increments leave in the order they were     *)
(* queued, and one packet at a time is offered to the transport.           *)
(***************************************************************************)
EXTENDS McmPackets

CONSTANT PublicationQueueDepth

VARIABLES
  baseline,     \* packets of the current snapshot not yet offered
  increments,   \* packets of the queued events
  offered       \* the packet the transport may take, at most one

planVars == <<baseline, increments, offered>>

PlanInit ==
  /\ baseline = <<>>
  /\ increments = <<>>
  /\ offered = <<>>

\* A whole snapshot is planned only when no earlier one is still going out.
PlanSnapshot(snapshot) ==
  /\ baseline = <<>>
  /\ offered = <<>>
  /\ baseline' = SnapshotPackets(snapshot)
  /\ UNCHANGED <<increments, offered>>

PlanIncrement(packet) ==
  /\ Len(increments) < PublicationQueueDepth
  /\ increments' = Append(increments, packet)
  /\ UNCHANGED <<baseline, offered>>

OfferBaseline ==
  /\ offered = <<>>
  /\ baseline # <<>>
  /\ offered' = <<Head(baseline)>>
  /\ baseline' = Tail(baseline)
  /\ UNCHANGED increments

OfferIncrement ==
  /\ offered = <<>>
  /\ baseline = <<>>
  /\ increments # <<>>
  /\ offered' = <<Head(increments)>>
  /\ increments' = Tail(increments)
  /\ UNCHANGED baseline

TakeOffered ==
  /\ offered # <<>>
  /\ offered' = <<>>
  /\ UNCHANGED <<baseline, increments>>

Discard ==
  /\ baseline' = <<>>
  /\ increments' = <<>>
  /\ offered' = <<>>

PlanNext ==
  \/ \E snapshot \in Snapshots : PlanSnapshot(snapshot)
  \/ \E control \in Controls, value \in EncoderValues :
       PlanIncrement(MakeEncoderState(control, value))
  \/ \E picture \in ButtonPictures : PlanIncrement(MakeButtonState(picture))
  \/ OfferBaseline
  \/ OfferIncrement
  \/ TakeOffered
  \/ Discard

PlanSpec == PlanInit /\ [][PlanNext]_planVars
=============================================================================
