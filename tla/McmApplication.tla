---------------------------- MODULE McmApplication ----------------------------
(***************************************************************************)
(* The firmware's main loop: McmApplication::begin, then service() over    *)
(* and over, with the SPI host that clocks frames between any two of its   *)
(* stages.  The publisher and the transport are the records of             *)
(* SnapshotPublisher and TransportFrames; the scanner is what its service  *)
(* leaves visible, one detent count per control and a button picture.      *)
(*                                                                         *)
(* Assumption on the wire, examined in TransportSPI.tla: the host starts a *)
(* frame only when the end marker of the previous one has been processed,  *)
(* and the firmware neither loads an idle transmitter nor clears it while  *)
(* a frame is being clocked.  A frame is then one step, taken at the       *)
(* moment CS rises.                                                        *)
(***************************************************************************)
EXTENDS SnapshotPublisher, CommandDispatcher

CONSTANTS
  ScannerBegins,   \* what ControlScanner::begin may return
  MaxChanges,      \* bound: scans that find something changed
  MaxCommands,     \* bound: frames with a command other than NOP
  MaxUnderruns     \* bound: frames the firmware feeds too slowly

ASSUME EnvironmentAssumption ==
  /\ ScannerBegins \subseteq BOOLEAN
  /\ ScannerBegins # {}
  /\ MaxChanges \in Nat
  /\ MaxCommands \in Nat
  /\ MaxUnderruns \in Nat

VARIABLES
  stage,              \* where service() is
  state,              \* state_
  snapshotSequence,   \* snapshotSequence_
  encoderValues,      \* scanner_.encoderValues_
  buttons,            \* scanner_'s bitmaps
  changes,            \* what publishChanges has not queued yet
  transport,          \* transport_
  frame,              \* the frame whose end marker is still in the RX FIFO
  host,               \* the SPI host's parser and its view of the controls
  supply              \* what the environment may still do, see the bounds

scanVars == <<encoderValues, buttons>>

vars == <<stage, state, snapshotSequence, encoderValues, buttons, changes,
          publisher, transport, frame, host, supply>>

-----------------------------------------------------------------------------
(* State *)

Stages == {"setup", "transport", "integrity", "command", "scan", "changes"}

States == {"Starting", "Running", "Resynchronizing", "Fault"}

NoChanges == [encoders |-> {}, buttons |-> FALSE]

\* The host: its view, whether a snapshot was ever committed to it, the
\* packets of the snapshot being received, and whether it saw a packet that
\* its parser rules reject.
EmptyHost ==
  [encoders  |-> [c \in Controls |-> 0],
   buttons   |-> 0,
   known     |-> FALSE,
   buffer    |-> <<>>,
   malformed |-> FALSE]

Init ==
  /\ stage = "setup"
  /\ state = "Starting"
  /\ snapshotSequence = 0
  /\ encoderValues = [c \in Controls |-> 0]
  /\ buttons = 0
  /\ changes = NoChanges
  /\ publisher = EmptyPublisher
  /\ transport = EmptyTransport
  /\ frame = NoCommand
  /\ host = EmptyHost
  /\ supply = [changes |-> MaxChanges, commands |-> MaxCommands,
               underruns |-> MaxUnderruns]

-----------------------------------------------------------------------------
(* Snapshots and recovery *)

NextSequence(sequence) == (sequence + 1) % SequenceModulus

CaptureSnapshot(values, picture, sequence) ==
  [encoderValues |-> values, buttons |-> picture, sequence |-> sequence]

\* Mutant of RecoverPublicationIntegrity: the publisher is not cleared, so the
\* snapshot request that follows may be refused.
RecoverWithoutClear(sequence, values, picture, t) ==
  LET snapshot == CaptureSnapshot(values, picture, NextSequence(sequence))
  IN  /\ snapshotSequence' = NextSequence(sequence)
      /\ transport' = ClearTxQueue(t)
      /\ frame' = NoCommand
      /\ IF AcceptsSnapshot(publisher)
         THEN /\ publisher' = RequestSnapshot(publisher, snapshot)
              /\ state' = "Resynchronizing"
         ELSE /\ publisher' = publisher
              /\ state' = "Fault"

\* recoverPublicationIntegrity outside Fault, on transport record t and with
\* the counts and picture it captures: everything outbound is dropped (and,
\* with the RX FIFO, an unprocessed frame) and one fresh snapshot requested.
RecoverPublicationIntegrity(sequence, values, picture, t) ==
  LET snapshot == CaptureSnapshot(values, picture, NextSequence(sequence))
      cleared  == ClearPublisher(publisher)
  IN  /\ snapshotSequence' = NextSequence(sequence)
      /\ transport' = ClearTxQueue(t)
      /\ frame' = NoCommand
      /\ IF AcceptsSnapshot(cleared)
         THEN /\ publisher' = RequestSnapshot(cleared, snapshot)
              /\ state' = "Resynchronizing"
         ELSE /\ publisher' = cleared
              /\ state' = "Fault"

\* In Fault both entry points return at once.
StayInFault(t) ==
  /\ transport' = t
  /\ UNCHANGED <<state, snapshotSequence, publisher, frame>>

\* Mutant of Recover: recoverPublicationIntegrity without its early return.
RecoverAlways(values, picture, t) ==
  RecoverPublicationIntegrity(snapshotSequence, values, picture, t)

Recover(values, picture, t) ==
  \/ state = "Fault" /\ StayInFault(t)
  \/ state # "Fault" /\ RecoverPublicationIntegrity(snapshotSequence, values, picture, t)

RequestFreshSnapshot(values, picture, t) ==
  LET sequence == NextSequence(snapshotSequence)
      snapshot == CaptureSnapshot(values, picture, sequence)
  IN  \/ /\ state = "Fault"
         /\ StayInFault(t)
      \/ /\ state # "Fault"
         /\ AcceptsSnapshot(publisher)
         /\ snapshotSequence' = sequence
         /\ publisher' = RequestSnapshot(publisher, snapshot)
         /\ state' = "Resynchronizing"
         /\ transport' = t
         /\ UNCHANGED frame
      \/ /\ state # "Fault"
         /\ ~AcceptsSnapshot(publisher)
         /\ RecoverPublicationIntegrity(sequence, values, picture, t)

-----------------------------------------------------------------------------
(* begin() *)

\* The pins are read once; a button held at power-up is already pressed.
Begin ==
  /\ stage = "setup"
  /\ \E ready \in ScannerBegins, picture \in ButtonPictures :
       /\ buttons' = picture
       /\ IF ready
          THEN RequestFreshSnapshot(encoderValues, picture, EmptyTransport)
          ELSE /\ state' = "Fault"
               /\ transport' = EmptyTransport
               /\ UNCHANGED <<snapshotSequence, publisher, frame>>
  /\ stage' = "transport"
  /\ UNCHANGED <<encoderValues, changes, host, supply>>

-----------------------------------------------------------------------------
(* service(): transport, integrity, command *)

\* Mutant of AfterCommand: a failed start goes on scanning and publishing.
AfterCommandAlways(s) == "scan"

AfterCommand(s) == IF s = "Fault" THEN "transport" ELSE "scan"

AfterIntegrity(t, s) == IF t.rxReady THEN "command" ELSE AfterCommand(s)

TransportService ==
  /\ stage = "transport"
  /\ transport' = IF frame = NoCommand THEN ServiceTxFifo(transport)
                  ELSE ServiceFrameEnd(transport, frame)
  /\ frame' = NoCommand
  /\ stage' = IF transport'.integrityLost THEN "integrity"
              ELSE AfterIntegrity(transport', state)
  /\ UNCHANGED <<state, snapshotSequence, scanVars, changes, publisher, host,
                 supply>>

RecoverIntegrity ==
  /\ stage = "integrity"
  /\ Recover(encoderValues, buttons, [transport EXCEPT !.integrityLost = FALSE])
  /\ stage' = AfterIntegrity(transport', state')
  /\ UNCHANGED <<scanVars, changes, host, supply>>

\* popRxPacket, dispatch and handleCommand, one action per ActionType.
Handles(action) ==
  /\ stage = "command"
  /\ Dispatch(transport.rxPacket) = action

CommandHandled ==
  /\ stage' = AfterCommand(state')
  /\ UNCHANGED <<buttons, changes, host, supply>>

HandleIgnored ==
  /\ \E action \in {"None", "Unsupported", "Invalid"} : Handles(action)
  /\ transport' = PopRxPacket(transport)
  /\ UNCHANGED <<state, snapshotSequence, encoderValues, publisher, frame>>
  /\ CommandHandled

HandleRequestSnapshot ==
  /\ Handles("RequestSnapshot")
  /\ RequestFreshSnapshot(encoderValues, buttons, PopRxPacket(transport))
  /\ UNCHANGED encoderValues
  /\ CommandHandled

\* resetControl, then the new count is queued like any other change.
HandleResetControl ==
  LET control == transport.rxPacket.index
      values  == [encoderValues EXCEPT ![control] = 0]
      popped  == PopRxPacket(transport)
  IN  /\ Handles("ResetControl")
      /\ \/ /\ control \notin Controls
            /\ transport' = popped
            /\ UNCHANGED <<state, snapshotSequence, encoderValues, publisher,
                           frame>>
         \/ /\ control \in Controls
            /\ AcceptsEvent(publisher)
            /\ encoderValues' = values
            /\ publisher' = QueueEvent(publisher, EncoderEvent(control, 0))
            /\ transport' = popped
            /\ UNCHANGED <<state, snapshotSequence, frame>>
         \/ /\ control \in Controls
            /\ ~AcceptsEvent(publisher)
            /\ encoderValues' = values
            /\ Recover(values, buttons, popped)
      /\ CommandHandled

HandleResetAll ==
  LET values == [c \in Controls |-> 0]
  IN  /\ Handles("ResetAll")
      /\ encoderValues' = values
      /\ RequestFreshSnapshot(values, buttons, PopRxPacket(transport))
      /\ CommandHandled

HandleResync ==
  /\ Handles("Resync")
  /\ Recover(encoderValues, buttons, PopRxPacket(transport))
  /\ UNCHANGED encoderValues
  /\ CommandHandled

-----------------------------------------------------------------------------
(* service(): scan, publishChanges, publish and transfer *)

\* ControlScanner::service: the counts and bitmaps the inputs have reached.
Scan ==
  /\ stage = "scan"
  /\ \E values \in [Controls -> EncoderValues], picture \in ButtonPictures :
       LET moved == {c \in Controls : values[c] # encoderValues[c]}
           found == [encoders |-> moved, buttons |-> picture # buttons]
       IN  /\ encoderValues' = values
           /\ buttons' = picture
           /\ changes' = found
           /\ \/ found = NoChanges /\ UNCHANGED supply
              \/ /\ found # NoChanges
                 /\ supply.changes > 0
                 /\ supply' = [supply EXCEPT !.changes = @ - 1]
  /\ stage' = "changes"
  /\ UNCHANGED <<state, snapshotSequence, publisher, transport, frame, host>>

\* One turn of publishChanges: the lowest changed control that is not queued
\* yet.  A full queue drops the rest of the scan and recovers, in Recover's
\* snapshot they are all included.
PublishEncoderChange ==
  /\ stage = "changes"
  /\ \E control \in changes.encoders :
       /\ \A other \in changes.encoders : control <= other
       /\ \/ /\ AcceptsEvent(publisher)
             /\ publisher' = QueueEvent(publisher,
                               EncoderEvent(control, encoderValues[control]))
             /\ changes' = [changes EXCEPT !.encoders = @ \ {control}]
             /\ UNCHANGED <<state, snapshotSequence, transport, frame>>
          \/ /\ ~AcceptsEvent(publisher)
             /\ changes' = NoChanges
             /\ Recover(encoderValues, buttons, transport)
  /\ UNCHANGED <<stage, scanVars, host, supply>>

PublishButtonChange ==
  /\ stage = "changes"
  /\ changes.encoders = {}
  /\ changes.buttons
  /\ \/ /\ AcceptsEvent(publisher)
        /\ publisher' = QueueEvent(publisher, ButtonsEvent(buttons))
        /\ UNCHANGED <<state, snapshotSequence, transport, frame>>
     \/ /\ ~AcceptsEvent(publisher)
        /\ Recover(encoderValues, buttons, transport)
  /\ changes' = NoChanges
  /\ UNCHANGED <<stage, scanVars, host, supply>>

\* Mutant of UpdatedState: Running once the publisher alone is idle.
UpdatedStateEarly(p, t) ==
  IF state = "Resynchronizing" /\ PublisherIdle(p) THEN "Running" ELSE state

UpdatedState(p, t) ==
  IF state = "Resynchronizing" /\ PublisherIdle(p) /\ TxIdle(t)
  THEN "Running" ELSE state

\* publisher_.service(), transferOnePublishedPacket, updateRecoveryState.
PublishAndTransfer ==
  LET served == ServicePublisher(publisher)
  IN  /\ stage = "changes"
      /\ changes = NoChanges
      /\ IF served.packetReady /\ AcceptsTxPacket(transport)
         THEN /\ transport' = EnqueueTxPacket(transport, served.packet)
              /\ publisher' = ConsumePacket(served)
         ELSE /\ transport' = transport
              /\ publisher' = served
      /\ state' = UpdatedState(publisher', transport')
      /\ stage' = "transport"
      /\ UNCHANGED <<snapshotSequence, scanVars, changes, frame, host, supply>>

-----------------------------------------------------------------------------
(* The SPI host, from docs/SPI_PROTOCOL.md and docs/MASTER_INTEGRATION.md *)

\* A snapshot is buffered from BEGIN on (a new BEGIN starts over), checked for
\* order and matching sequence bytes, and committed as a whole by END.
ExpectedNext(buffer, packet) ==
  LET position == Len(buffer) + 1
  IN  \/ /\ position \in 2 .. ControlCount + 1
         /\ packet.type = "EncoderState"
         /\ packet.index = position - 2
      \/ /\ position = ControlCount + 2
         /\ packet.type = "ButtonState"
      \/ /\ position = ControlCount + 3
         /\ packet.type = "SnapshotEnd"
         /\ packet.data = buffer[1].data

HostReceives(h, packet) ==
  CASE packet.type = "SnapshotBegin" -> [h EXCEPT !.buffer = <<packet>>]
    [] packet.type # "SnapshotBegin" /\ h.buffer # <<>> ->
         IF ~ExpectedNext(h.buffer, packet)
         THEN [h EXCEPT !.buffer = <<>>, !.malformed = TRUE]
         ELSE IF packet.type = "SnapshotEnd"
         THEN [h EXCEPT !.buffer = <<>>,
                        !.known = TRUE,
                        !.encoders = [c \in Controls |-> h.buffer[c + 2].data],
                        !.buttons = h.buffer[ControlCount + 2].data]
         ELSE [h EXCEPT !.buffer = Append(@, packet)]
    [] packet.type = "EncoderState" /\ h.buffer = <<>> ->
         [h EXCEPT !.encoders[packet.index] = packet.data]
    [] packet.type = "ButtonState" /\ h.buffer = <<>> ->
         [h EXCEPT !.buttons = packet.data]
    [] OTHER -> [h EXCEPT !.malformed = TRUE]

\* What the host may take a starved packet for, SpiWire.tla's StarvedKeepsItsKind:
\* the filler behind its first bytes can complete a CRC-8 over other data, and a
\* boundary keeps the sequence byte the host compares.
Readings(packet) ==
  {packet} \cup
  {[packet EXCEPT !.data = data] :
     data \in CASE packet.type = "EncoderState" -> Signed24Minimum .. Signed24Maximum
              [] packet.type = "ButtonState"  -> ButtonPictures
              [] OTHER                        -> {}}

\* One eight-byte frame: a command goes in, the loaded packet (or filler the
\* host ignores) comes out; without a command the host only reads while the
\* line is high.  fed is FALSE when the firmware did not keep the TX FIFO ahead
\* of the clock; the host then sees a bad CRC and ignores it, or misreads it.
HostFrame(command, fed) ==
  /\ stage # "setup"
  /\ frame = NoCommand
  /\ frame' = command
  /\ transport.loaded \/ fed
  /\ transport.irq \/ command # NopCommand
  /\ fed \/ supply.underruns > 0
  /\ command = NopCommand \/ supply.commands > 0
  /\ supply' = [supply EXCEPT
                  !.underruns = IF fed THEN @ ELSE @ - 1,
                  !.commands  = IF command = NopCommand THEN @ ELSE @ - 1]
  /\ transport' = [transport EXCEPT !.staged = transport.loaded /\ fed]
  /\ host' \in
       CASE ~transport.loaded        -> {host}
         [] transport.loaded /\ fed  -> {HostReceives(host, transport.current)}
         [] transport.loaded /\ ~fed ->
              {host} \cup {HostReceives(host, reading) : reading \in Readings(transport.current)}
  /\ UNCHANGED <<stage, state, snapshotSequence, scanVars, changes, publisher>>

-----------------------------------------------------------------------------
(* Specification *)

FirmwareStep ==
  \/ Begin
  \/ TransportService
  \/ RecoverIntegrity
  \/ HandleIgnored
  \/ HandleRequestSnapshot
  \/ HandleResetControl
  \/ HandleResetAll
  \/ HandleResync
  \/ Scan
  \/ PublishEncoderChange
  \/ PublishButtonChange
  \/ PublishAndTransfer

Next ==
  \/ FirmwareStep
  \/ \E command \in Commands, fed \in BOOLEAN : HostFrame(command, fed)

Spec == Init /\ [][Next]_vars

\* A host that keeps reading while SLAVE_IRQ is high.
HostReads == transport.irq /\ HostFrame(NopCommand, TRUE)

\* loop() runs for ever, and the host reads while the line asks it to.
Fairness == WF_vars(FirmwareStep) /\ WF_vars(HostReads)

FairSpec == Spec /\ Fairness

-----------------------------------------------------------------------------
(* Type invariant *)

Hosts ==
  [encoders  : [Controls -> Int],
   buttons   : Int,
   known     : BOOLEAN,
   buffer    : Seq(Packets),
   malformed : BOOLEAN]

Supplies == [changes : Nat, commands : Nat, underruns : Nat]

\* Every variable has its type and both queues stay inside their storage.
TypeOK ==
  /\ stage \in Stages
  /\ state \in States
  /\ snapshotSequence \in Sequences
  /\ encoderValues \in [Controls -> EncoderValues]
  /\ buttons \in ButtonPictures
  /\ changes \in [encoders : SUBSET Controls, buttons : BOOLEAN]
  /\ PublisherTypeOK
  /\ TransportOK(transport)
  /\ frame \in Commands \cup {NoCommand}
  /\ host \in Hosts
  /\ supply \in Supplies

-----------------------------------------------------------------------------
(* Safety *)

\* The level of SLAVE_IRQ (setIrq in enqueueTxPacket, retireTransmittedPacket
\* and clearTxQueue): high exactly while a packet is loaded for the next frame,
\* and nothing is ever left in the TX queue behind an idle transmitter.
IrqMeansPacketLoaded == IrqLevel(transport)

\* A received command is taken in the pass that received it, so the next frame
\* never meets rxReady_ and the overwrite branch of completeRxFrame is dead.
CommandTakenInItsPass ==
  transport.rxReady => stage \in {"integrity", "command"}

\* recoverPublicationIntegrity clears enough for its own snapshot request to be
\* accepted: Fault is entered by a failing begin() and in no other way.
FaultOnlyAtStartup ==
  [][state' = "Fault" => state \in {"Starting", "Fault"}]_vars

\* In Fault nothing is published, whatever the host sends.
FaultIsSilent ==
  state = "Fault" => /\ TxIdle(transport)
                     /\ ~transport.irq
                     /\ OfferedPacket(publisher) = <<>>
                     /\ host = EmptyHost

\* Fault is never left: no command, RESYNC included, starts the publication of
\* controls that were never initialised (DETERMINISM.md: "remains safe").
FaultIsFinal ==
  [][state = "Fault" => state' = "Fault"]_vars

\* The invariant the five above follow from, step by step.  It adds that the
\* publisher and the host are untouched before begin() and that Fault leaves
\* neither a packet nor a pending recovery behind.
SafetyInvariant ==
  /\ TypeOK
  /\ IrqMeansPacketLoaded
  /\ CommandTakenInItsPass
  /\ FaultIsSilent
  /\ stage = "setup" <=> state = "Starting"
  /\ stage = "setup" => host = EmptyHost /\ publisher = EmptyPublisher
  /\ state = "Fault" => /\ stage \in {"transport", "command"}
                        /\ publisher.phase = "Idle"
                        /\ ~transport.integrityLost

\* The packets on their way to the host, oldest first, up to the end of the
\* baseline; a staged packet has already been read.
Outbound ==
  (IF transport.loaded /\ ~transport.staged THEN <<transport.current>> ELSE <<>>)
    \o transport.queue
    \o OfferedPacket(publisher)
    \o BaselinePackets(publisher)

\* All of them: from the snapshot the host is receiving to the youngest event.
InFlight == host.buffer \o Outbound \o EventPackets(publisher)

\* A frame has ended that the transport is going to answer with a recovery.
RecoveryDue ==
  \/ transport.integrityLost
  \/ frame # NoCommand /\ transport.loaded /\ ~transport.staged

\* The last packet of the sequence about a control or the buttons, or what the
\* host already holds when there is none.
Newest(packets, type, index, held) ==
  LET about == {k \in DOMAIN packets : packets[k].type = type /\ packets[k].index = index}
  IN  IF about = {} THEN held
      ELSE packets[CHOOSE k \in about : \A j \in about : j <= k].data

\* The newest thing said about a control or the buttons anywhere between the
\* publisher and the host is the MCM's current value, except for changes this
\* scan has not queued yet: no reordering, overflow, underrun, recovery or
\* snapshot leaves an older value last.
NewestStatementIsCurrent ==
  (stage # "setup" /\ state # "Fault" /\ ~RecoveryDue) =>
    /\ \A c \in Controls \ changes.encoders :
         Newest(InFlight, "EncoderState", c, host.encoders[c])
           = ClampSigned24(encoderValues[c])
    /\ ~changes.buttons =>
         Newest(InFlight, "ButtonState", ControlCount, host.buttons) = buttons

\* The host's parser rules (MASTER_INTEGRATION.md) never reject what the MCM
\* sends: snapshots never overlap, interleave with increments or end with a
\* foreign sequence byte, recoveries in their middle included.
HostNeverRejects == ~host.malformed

\* The packet is one that a snapshot with this sequence byte has at this place.
InPlace(packet, place, sequence) ==
  \/ place = 1 /\ packet.type = "SnapshotBegin" /\ packet.data = sequence
  \/ place \in 2 .. ControlCount + 1 /\ packet.type = "EncoderState"
                                      /\ packet.index = place - 2
  \/ place = ControlCount + 2 /\ packet.type = "ButtonState"
                              /\ packet.index = ControlCount
  \/ place = ControlCount + 3 /\ packet.type = "SnapshotEnd" /\ packet.data = sequence

\* From "at" on the packets are those of a snapshot from "place" on.
SnapshotFrom(packets, at, place, sequence) ==
  \A k \in place .. SnapshotPacketCount :
    /\ at + (k - place) <= Len(packets)
    /\ InPlace(packets[at + (k - place)], k, sequence)

BeginsSnapshot(packets, at) ==
  at \in DOMAIN packets /\ packets[at].type = "SnapshotBegin"

\* What the host buffers is the first part of a snapshot, without its END.
PartOfSnapshot(buffer) ==
  /\ Len(buffer) < SnapshotPacketCount
  /\ \A k \in DOMAIN buffer : InPlace(buffer[k], k, buffer[1].data)

\* Behind every BEGIN stands the rest of its snapshot, every END has its BEGIN,
\* among the packets or in the buffer, and the snapshot in the buffer goes on
\* with the next packet unless a BEGIN abandons it.
Framed(packets, buffer) ==
  /\ \A at \in DOMAIN packets :
       LET packet == packets[at]
       IN  /\ packet.type # "NoMessage"
           /\ packet.type = "EncoderState" => packet.index \in Controls
           /\ packet.type = "ButtonState" => packet.index = ControlCount
           /\ packet.type = "SnapshotBegin" => SnapshotFrom(packets, at, 1, packet.data)
           /\ packet.type = "SnapshotEnd" =>
                \/ BeginsSnapshot(packets, at - (SnapshotPacketCount - 1))
                \/ buffer # <<>> /\ at = SnapshotPacketCount - Len(buffer)
  /\ buffer # <<>> =>
       \/ SnapshotFrom(packets, 1, Len(buffer) + 1, buffer[1].data)
       \/ BeginsSnapshot(packets, 1)

\* The invariant HostNeverRejects follows from.  It adds which stages may find
\* changes or a lost packet, and that a host without any snapshot has one coming.
DeliveryInvariant ==
  /\ SafetyInvariant
  /\ HostNeverRejects
  /\ changes # NoChanges => stage = "changes"
  /\ transport.integrityLost => stage = "integrity" /\ ~transport.loaded
  /\ transport.staged => transport.loaded /\ frame # NoCommand
  /\ PartOfSnapshot(host.buffer)
  /\ ~RecoveryDue =>
       /\ Framed(Outbound, host.buffer)
       /\ host.known \/ state \in {"Starting", "Fault"}
            \/ \E at \in DOMAIN Outbound : Outbound[at].type = "SnapshotEnd"

\* The host holds exactly what the MCM holds.
HostCurrent ==
  /\ host.known
  /\ \A c \in Controls : host.encoders[c] = ClampSigned24(encoderValues[c])
  /\ host.buttons = buttons

\* Resynchronizing ends only when the fresh snapshot, and every increment after
\* it, has reached the host (DETERMINISM.md: "fresh snapshot fully transmitted").
RunningMeansHostCurrent ==
  [][(state # "Running" /\ state' = "Running") => HostCurrent']_vars

-----------------------------------------------------------------------------
(* Liveness, under Fairness and with a finite supply of disturbances *)

\* No livelock of recoveries: every resynchronisation completes.
ResynchronizationEnds == state = "Resynchronizing" ~> state = "Running"

\* The host ends up with the MCM's values and keeps them, provided the scanner
\* started and no RESET_ALL left an older event behind its zeros.
HostConverges ==
  [](state # "Fault" /\ frame.type # "ResetAll") => <>[]HostCurrent

\* A reset the host sent takes effect (ADR-0004: "Reset commands mutate MCM
\* state and then report it").
ResetTakesEffect ==
  \A c \in Controls :
    frame = [type |-> "ResetControl", index |-> c] ~> encoderValues[c] = 0
=============================================================================
