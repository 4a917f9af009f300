---------------------------- MODULE SnapshotMaster ----------------------------
(***************************************************************************)
(* The example master of protocol package v1.1                             *)
(* (mcm_spi_snapshot_master.ino) against a peripheral that answers each    *)
(* GET_SNAPSHOT with one snapshot, and the package's log decoder           *)
(* (decode_snapshot.py) fed with the packets of one request.               *)
(*                                                                         *)
(* A value is abstracted to the capture it was taken in, so that a packet  *)
(* shows which snapshot it came from.  What the master relies on and the   *)
(* package does not contain, the peripheral, is external here: a queue of  *)
(* packets, IRQ high while it is not empty, one packet per frame.          *)
(***************************************************************************)
EXTENDS Integers, Sequences, FiniteSets

CONSTANTS
  ControlCount,     \* MCM_CONTROL_COUNT
  SequenceModulus,  \* of the sequence in BEGIN and END
  Captures,         \* captures are numbered modulo this
  MaxFaults,        \* bound: commands lost, packets spoilt, answers late
  MaxRecoveries,    \* bound: peripheral recoveries
  MaxIncrements     \* bound: changes reported outside snapshots

ASSUME MasterAssumption ==
  /\ ControlCount \in Nat \ {0}
  /\ SequenceModulus \in Nat \ {0}
  /\ Captures \in Nat \ {0}
  /\ {MaxFaults, MaxRecoveries, MaxIncrements} \subseteq Nat

VARIABLES
  phase,      \* where requestSnapshot is: "Delay" outside, "Wait" for IRQ, "Read"
  reads,      \* its loop counter
  assembler,  \* SnapshotAssembler
  latest,     \* latestSnapshot, and whether the last request succeeded
  decoder,    \* decode_snapshot.Snapshot over the packets of the request
  peripheral, \* queue, capture and sequence last used, commands pending
  budget      \* faults left

vars == <<phase, reads, assembler, latest, decoder, peripheral, budget>>

Controls == 0 .. ControlCount - 1

\* Mutant of MaxSnapshotPackets: one boundary forgotten.
MaxSnapshotPacketsShort == ControlCount + 2

\* MAX_SNAPSHOT_PACKETS: exactly one snapshot.
MaxSnapshotPackets == ControlCount + 3

-----------------------------------------------------------------------------
(* Packets *)

NoCapture == Captures
Changed == Captures + 1   \* marks a value reported outside snapshots

Packet(type, index, capture, sequence) ==
  [type |-> type, index |-> index, capture |-> capture, sequence |-> sequence]

\* A frame without a packet, or one that noise spoilt.
Invalid == Packet("Invalid", 0, NoCapture, 0)

SnapshotPackets(capture, sequence) ==
  <<Packet("Begin", ControlCount, NoCapture, sequence)>>
    \o [n \in 1 .. ControlCount |-> Packet("ParamState", n - 1, capture, sequence)]
    \o <<Packet("ButtonState", 0, capture, sequence),
         Packet("End", ControlCount, NoCapture, sequence)>>

-----------------------------------------------------------------------------
(* SnapshotAssembler *)

\* candidate with seenEncoderMask and seenButtons: the captures in their places,
\* NoCapture where nothing was seen.
Reset ==
  [active |-> FALSE, sequence |-> 0,
   encoder |-> [c \in Controls |-> NoCapture], buttons |-> NoCapture]

Begun(packet) == [Reset EXCEPT !.active = TRUE, !.sequence = packet.sequence]

AllSeen(candidate) ==
  /\ \A c \in Controls : candidate.encoder[c] # NoCapture
  /\ candidate.buttons # NoCapture

\* Mutant of Completes: END is believed on its sequence.
CompletesOnSequence(candidate, packet) ==
  /\ packet.type = "End"
  /\ packet.sequence = candidate.sequence

\* consume's return value.
Completes(candidate, packet) ==
  /\ packet.type = "End"
  /\ candidate.active
  /\ packet.index = ControlCount
  /\ packet.sequence = candidate.sequence
  /\ AllSeen(candidate)

\* The state packets, when they fit.
WithParam(candidate, packet) ==
  IF candidate.active /\ packet.index \in Controls /\ candidate.encoder[packet.index] = NoCapture
  THEN [candidate EXCEPT !.encoder[packet.index] = packet.capture]
  ELSE Reset

WithButtons(candidate, packet) ==
  IF candidate.active /\ packet.index = 0 /\ candidate.buttons = NoCapture
  THEN [candidate EXCEPT !.buttons = packet.capture]
  ELSE Reset

Consume(candidate, packet) ==
  CASE packet.type = "Invalid"     -> Reset
    [] packet.type = "Begin"       -> IF packet.index = ControlCount THEN Begun(packet) ELSE Reset
    [] packet.type = "ParamState"  -> WithParam(candidate, packet)
    [] packet.type = "ButtonState" -> WithButtons(candidate, packet)
    [] packet.type = "End"         -> [candidate EXCEPT !.active = FALSE]

-----------------------------------------------------------------------------
(* decode_snapshot.py: an exception ends it, a BEGIN keeps what was seen *)

NoSequence == -1

NewDecoder == [Reset EXCEPT !.active = TRUE, !.sequence = NoSequence]

\* Mutant of DecoderAccepts: complete without a BEGIN.
DecoderNeedsNoBegin(seen, packet) ==
  /\ seen.active
  /\ packet.type # "Invalid"
  /\ packet.type = "ParamState" => seen.encoder[packet.index] = NoCapture
  /\ packet.type = "ButtonState" => seen.buttons = NoCapture
  /\ packet.type = "End" => AllSeen(seen)

\* parse_packet and consume raise no exception.
DecoderAccepts(seen, packet) ==
  /\ seen.active
  /\ packet.type # "Invalid"
  /\ packet.type = "Begin" \/ seen.sequence # NoSequence
  /\ packet.type = "ParamState" => seen.encoder[packet.index] = NoCapture
  /\ packet.type = "ButtonState" => seen.buttons = NoCapture
  /\ packet.type = "End" => packet.sequence = seen.sequence /\ AllSeen(seen)

DecoderConsumes(seen, packet) ==
  IF ~DecoderAccepts(seen, packet) THEN [seen EXCEPT !.active = FALSE]
  ELSE CASE packet.type = "Begin"       -> [seen EXCEPT !.sequence = packet.sequence]
         [] packet.type = "ParamState"  -> [seen EXCEPT !.encoder[packet.index] = packet.capture]
         [] packet.type = "ButtonState" -> [seen EXCEPT !.buttons = packet.capture]
         [] packet.type \in {"End", "Invalid"} -> seen

-----------------------------------------------------------------------------
(* The two sides *)

Init ==
  /\ phase = "Delay"
  /\ reads = 0
  /\ assembler = Reset
  /\ latest = [ok |-> FALSE, snapshot |-> Reset]
  /\ decoder = NewDecoder
  /\ peripheral = [queue |-> <<>>, capture |-> 0, sequence |-> 0, pending |-> 0]
  /\ budget = [faults |-> MaxFaults, recoveries |-> MaxRecoveries, increments |-> MaxIncrements]

Spend(fault, count) ==
  /\ budget[fault] >= count
  /\ budget' = [budget EXCEPT ![fault] = @ - count]

IrqHigh == peripheral.queue # <<>>

Popped(queue) == IF queue = <<>> THEN <<>> ELSE Tail(queue)

\* Mutant of SendCommand: the command goes out twice.
SendCommandTwice ==
  /\ phase = "Delay"
  /\ phase' = "Wait"
  /\ peripheral' = [peripheral EXCEPT !.queue = Popped(Popped(@)), !.pending = @ + 2]
  /\ UNCHANGED <<reads, assembler, latest, decoder, budget>>

\* transferPacket(command, ignoredRx): the frame also takes the packet that was
\* loaded, which nobody looks at.
SendCommand ==
  /\ phase = "Delay"
  /\ phase' = "Wait"
  /\ \/ /\ peripheral' = [peripheral EXCEPT !.queue = Popped(@), !.pending = @ + 1]
        /\ UNCHANGED budget
     \/ /\ Spend("faults", 1)    \* the command is lost
        /\ peripheral' = [peripheral EXCEPT !.queue = Popped(@)]
  /\ UNCHANGED <<reads, assembler, latest, decoder>>

SeesIrq ==
  /\ phase = "Wait"
  /\ IrqHigh
  /\ phase' = "Read"
  /\ reads' = 0
  /\ assembler' = Reset
  /\ decoder' = NewDecoder
  /\ UNCHANGED <<latest, peripheral, budget>>

\* A request that ends while a command is unanswered: the answer is late.
EndsRequest(faults) ==
  /\ phase' = "Delay"
  /\ Spend("faults", IF peripheral.pending > 0 THEN faults + 1 ELSE faults)

TimesOut ==
  /\ phase = "Wait"
  /\ ~IrqHigh
  /\ EndsRequest(0)
  /\ latest' = [latest EXCEPT !.ok = FALSE]
  /\ UNCHANGED <<reads, assembler, decoder, peripheral>>

Succeeds(response) ==
  /\ Completes(assembler, response)
  /\ latest' = [ok |-> TRUE, snapshot |-> assembler]

\* Mutant of LoopGoesOn: compared before the increment.
LoopGoesOnOnceMore == reads < MaxSnapshotPackets

LoopGoesOn == reads + 1 < MaxSnapshotPackets

Exhausts(response) ==
  /\ ~Completes(assembler, response)
  /\ ~LoopGoesOn
  /\ latest' = [latest EXCEPT !.ok = FALSE]

\* One turn of the loop with what the frame delivered.
TurnsLoop(response, faults) ==
  /\ phase = "Read"
  /\ reads' = reads + 1
  /\ assembler' = Consume(assembler, response)
  /\ decoder' = DecoderConsumes(decoder, response)
  /\ \/ (Succeeds(response) \/ Exhausts(response)) /\ EndsRequest(faults)
     \/ /\ ~Completes(assembler, response)
        /\ LoopGoesOn
        /\ Spend("faults", faults)
        /\ UNCHANGED <<phase, latest>>

\* The loop reads on without another look at IRQ: filler once everything that
\* was answered is read.
ReadPacket ==
  /\ IrqHigh \/ peripheral.pending = 0
  /\ TurnsLoop(IF IrqHigh THEN Head(peripheral.queue) ELSE Invalid, 0)
  /\ peripheral' = [peripheral EXCEPT !.queue = Popped(@)]

\* Noise spoils the packet, or the frame comes before the next one is loaded (or
\* before the answer) and leaves it where it is.
ReadSpoilt ==
  /\ IrqHigh \/ peripheral.pending > 0
  /\ TurnsLoop(Invalid, 1)
  /\ \E queue \in {peripheral.queue, Popped(peripheral.queue)} :
       peripheral' = [peripheral EXCEPT !.queue = queue]

NextCapture == (peripheral.capture + 1) % Captures

\* The peripheral captures and queues a snapshot behind the packets kept.
Captured(kept, sequence, pending) ==
  peripheral' =
    [queue    |-> kept \o SnapshotPackets(NextCapture, sequence),
     capture  |-> NextCapture,
     sequence |-> (sequence + 1) % SequenceModulus,
     pending  |-> pending]

\* GET_SNAPSHOT is served behind what is still queued or, when that is a snapshot
\* whose packets are still being built, by a recovery (requestFreshSnapshot).
Answer ==
  /\ peripheral.pending > 0
  /\ \E kept \in {peripheral.queue, <<>>} : Captured(kept, peripheral.sequence, peripheral.pending - 1)
  /\ UNCHANGED <<phase, reads, assembler, latest, decoder, budget>>

\* A recovery of its own, or a restart, which also starts the sequence again.
Recover ==
  /\ Spend("recoveries", 1)
  /\ \E sequence \in {0, peripheral.sequence} : Captured(<<>>, sequence, 0)
  /\ UNCHANGED <<phase, reads, assembler, latest, decoder>>

\* Controls change between two snapshots and are reported one by one.
Report(packet) ==
  /\ Spend("increments", 1)
  /\ peripheral' = [peripheral EXCEPT !.queue = Append(@, packet)]
  /\ UNCHANGED <<phase, reads, assembler, latest, decoder>>

ReportChange ==
  \/ \E c \in Controls : Report(Packet("ParamState", c, Changed, 0))
  \/ Report(Packet("ButtonState", 0, Changed, 0))

Next ==
  \/ SendCommand
  \/ SeesIrq
  \/ TimesOut
  \/ ReadPacket
  \/ ReadSpoilt
  \/ Answer
  \/ Recover
  \/ ReportChange

Spec == Init /\ [][Next]_vars

\* loop() runs on, and the peripheral serves a command it took.
FairSpec ==
  /\ Spec
  /\ WF_vars(SendCommand \/ SeesIrq \/ TimesOut \/ ReadPacket)
  /\ WF_vars(Answer)

-----------------------------------------------------------------------------
(* Properties *)

\* Both sides stay within what they are declared for, the loop within its count.
TypeOK ==
  /\ phase \in {"Delay", "Wait", "Read"}
  /\ reads \in 0 .. MaxSnapshotPackets
  /\ phase = "Read" => reads < MaxSnapshotPackets
  /\ \A candidate \in {assembler, latest.snapshot, decoder} :
       /\ candidate.encoder \in [Controls -> 0 .. Changed]
       /\ candidate.buttons \in 0 .. Changed
       /\ candidate.active \in BOOLEAN
       /\ candidate.sequence \in 0 .. SequenceModulus - 1 \cup {NoSequence}
  /\ peripheral.capture \in 0 .. Captures - 1
  /\ \A fault \in DOMAIN budget : budget[fault] \in Nat

\* A snapshot accepted is one capture, whole: never values of two.
AcceptedIsOneCapture ==
  latest.ok =>
    /\ latest.snapshot.buttons # NoCapture
    /\ \A c \in Controls : latest.snapshot.encoder[c] = latest.snapshot.buttons

Accepts == phase = "Read" /\ phase' = "Delay" /\ latest'.ok

\* What the master accepts may be older than the capture its request caused, as
\* earlier answers are read first, but only by one or by the number of faults, and
\* by one more for as many reported changes as a snapshot has packets: the ten
\* frames of a request take more than the nine packets of an answer.
StaleByFaults ==
  [][Accepts =>
       LET behind  == (peripheral.capture - latest'.snapshot.buttons) % Captures
           faults  == MaxFaults - budget'.faults
           reports == MaxIncrements - budget'.increments
       IN  \E allowed \in {1, faults} :
             (behind - allowed) * MaxSnapshotPackets <= reports]_vars

\* The log decoder completes a snapshot from the packets of a request only where
\* the master accepts that very snapshot.
DecoderAgrees ==
  [][(reads' = reads + 1 /\ decoder'.active /\ Head(peripheral.queue).type = "End") =>
       latest'.ok /\ latest'.snapshot = decoder]_vars

\* Whatever came late, was lost or was read in the middle before, the master
\* gets complete snapshots again: its place in the stream finds back to BEGIN.
Converges == []<>latest.ok
=============================================================================
