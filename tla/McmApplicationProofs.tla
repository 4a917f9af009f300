------------------------- MODULE McmApplicationProofs -------------------------
(***************************************************************************)
(* The main loop's type correctness and the safety results that follow     *)
(* from SafetyInvariant, for every number of controls, every queue depth   *)
(* the static_asserts allow, every command set and every supply of         *)
(* disturbances.                                                           *)
(***************************************************************************)
EXTENDS McmApplication, SnapshotPublisherProofs

-----------------------------------------------------------------------------
(* What the frame-level transport operations preserve, for every queue     *)
(* depth and command set: the record stays well formed and the data-ready  *)
(* line keeps telling whether a packet is loaded.                          *)

\* Packet{} is a packet, and an empty queue a queue of packets.
LEMMA EmptyPacketType == EmptyPacket \in Packets /\ <<>> \in Seq(Packets)
BY ControlCountAssumption DEF EmptyPacket, Packets, MessageTypes

\* The transport after begin().
LEMMA EmptyTransportOK ==
  TransportOK(EmptyTransport) /\ IrqLevel(EmptyTransport)
BY EmptyPacketType, TransportAssumption
   DEF EmptyTransport, TransportOK, TransportRecords, IrqLevel

\* Loading the next packet keeps the record well formed and leaves no packet
\* behind an idle transmitter.
LEMMA ServiceTxFifoOK ==
  ASSUME NEW t, TransportOK(t)
  PROVE  /\ TransportOK(ServiceTxFifo(t))
         /\ ServiceTxFifo(t).irq <=> t.irq
         /\ ServiceTxFifo(t).rxReady <=> t.rxReady
         /\ ServiceTxFifo(t).staged <=> t.staged
         /\ ServiceTxFifo(t).integrityLost <=> t.integrityLost
         /\ ServiceTxFifo(t).loaded <=> (t.loaded \/ t.queue # <<>>)
         /\ ServiceTxFifo(t).queue # <<>> => ServiceTxFifo(t).loaded
         /\ (t.loaded \/ t.queue = <<>>) => ServiceTxFifo(t) = t
<1> USE DEF TransportOK, TransportRecords
<1>1. CASE ~t.loaded /\ t.queue # <<>>
  <2>1. /\ Head(t.queue) \in Packets
        /\ Tail(t.queue) \in Seq(Packets)
        /\ Len(Tail(t.queue)) = Len(t.queue) - 1
        /\ Len(t.queue) \in Nat
    BY <1>1
  <2>2. Len(Tail(t.queue)) <= SpiTxQueueDepth
    BY <2>1, TransportAssumption
  <2> QED
    BY <1>1, <2>1, <2>2 DEF ServiceTxFifo
<1>2. CASE t.loaded \/ t.queue = <<>>
  BY <1>2 DEF ServiceTxFifo
<1> QED
  BY <1>1, <1>2

\* A packet the queue has room for is loaded or queued, and the line goes up.
LEMMA EnqueueTxPacketOK ==
  ASSUME NEW t, TransportOK(t), IrqLevel(t), AcceptsTxPacket(t),
         NEW packet \in Packets
  PROVE  /\ TransportOK(EnqueueTxPacket(t, packet))
         /\ IrqLevel(EnqueueTxPacket(t, packet))
         /\ EnqueueTxPacket(t, packet).rxReady <=> t.rxReady
<1> DEFINE u == [t EXCEPT !.queue = Append(@, packet), !.irq = TRUE]
<1>1. /\ Append(t.queue, packet) \in Seq(Packets)
      /\ Len(Append(t.queue, packet)) = Len(t.queue) + 1
      /\ Len(t.queue) \in Nat
  BY DEF TransportOK, TransportRecords
<1>2. Len(Append(t.queue, packet)) <= SpiTxQueueDepth
  BY <1>1, TransportAssumption DEF AcceptsTxPacket
<1>3. /\ TransportOK(u)
      /\ u.irq
      /\ u.queue = Append(t.queue, packet)
      /\ u.rxReady <=> t.rxReady
  BY <1>1, <1>2 DEF TransportOK, TransportRecords
<1>4. EnqueueTxPacket(t, packet) = ServiceTxFifo(u)
  BY DEF EnqueueTxPacket
<1>5. u.queue # <<>>
  BY <1>1, <1>3
<1> HIDE DEF u
<1> QED
  BY <1>3, <1>4, <1>5, ServiceTxFifoOK DEF IrqLevel

\* Clearing leaves an idle transmitter and no command.
LEMMA ClearTxQueueOK ==
  ASSUME NEW t, TransportOK(t)
  PROVE  /\ TransportOK(ClearTxQueue(t))
         /\ IrqLevel(ClearTxQueue(t))
         /\ ~ClearTxQueue(t).rxReady
         /\ ~ClearTxQueue(t).integrityLost
<1>1. ClearTxQueue(t) \in TransportRecords
  BY EmptyPacketType DEF ClearTxQueue, TransportOK, TransportRecords
<1>2. /\ ClearTxQueue(t).queue = <<>>
      /\ ~ClearTxQueue(t).loaded
      /\ ~ClearTxQueue(t).irq
      /\ ~ClearTxQueue(t).rxReady
      /\ ~ClearTxQueue(t).integrityLost
  BY DEF ClearTxQueue, TransportOK, TransportRecords
<1> QED
  BY <1>1, <1>2, TransportAssumption DEF TransportOK, IrqLevel

\* Retiring at the end of a frame: after an underrun everything is dropped and
\* the line is low, otherwise the next packet is loaded at once if there is one.
LEMMA RetireTransmittedPacketOK ==
  ASSUME NEW t, TransportOK(t)
  PROVE  /\ TransportOK(RetireTransmittedPacket(t))
         /\ IrqLevel(RetireTransmittedPacket(t))
         /\ RetireTransmittedPacket(t).rxReady <=> t.rxReady
         /\ ~t.loaded => (RetireTransmittedPacket(t).integrityLost <=> t.integrityLost)
         /\ TxIdle(t) => TxIdle(RetireTransmittedPacket(t))
<1>1. CASE t.loaded /\ ~t.staged
  <2> DEFINE lost == [t EXCEPT !.queue = <<>>, !.current = EmptyPacket,
                               !.loaded = FALSE, !.integrityLost = TRUE, !.irq = FALSE]
  <2>1. RetireTransmittedPacket(t) = lost
    BY <1>1 DEF RetireTransmittedPacket
  <2>2. lost \in TransportRecords
    BY EmptyPacketType DEF TransportOK, TransportRecords
  <2>3. /\ lost.queue = <<>>
        /\ ~lost.loaded
        /\ ~lost.irq
        /\ lost.rxReady <=> t.rxReady
    BY DEF TransportOK, TransportRecords
  <2>4. ~TxIdle(t)
    BY <1>1 DEF TxIdle
  <2> HIDE DEF lost
  <2> QED
    BY <1>1, <2>1, <2>2, <2>3, <2>4, TransportAssumption DEF TransportOK, IrqLevel
<1>2. CASE ~(t.loaded /\ ~t.staged)
  <2> DEFINE u == [t EXCEPT !.current = EmptyPacket, !.loaded = FALSE, !.staged = FALSE]
             rest == ServiceTxFifo(u)
  <2>1. /\ TransportOK(u)
        /\ u.queue = t.queue
        /\ ~u.staged
        /\ ~u.loaded
        /\ u.rxReady <=> t.rxReady
        /\ u.integrityLost <=> t.integrityLost
    BY EmptyPacketType DEF TransportOK, TransportRecords
  <2>2. RetireTransmittedPacket(t) = [rest EXCEPT !.irq = ~TxIdle(rest)]
    BY <1>2 DEF RetireTransmittedPacket
  <2>3. /\ TransportOK(rest)
        /\ ~rest.staged
        /\ rest.rxReady <=> t.rxReady
        /\ rest.integrityLost <=> t.integrityLost
        /\ rest.queue # <<>> => rest.loaded
        /\ t.queue = <<>> => rest = u
    <3> HIDE DEF u
    <3> QED BY <2>1, ServiceTxFifoOK
  <2>4. ~TxIdle(rest) <=> rest.loaded
    BY <2>3 DEF TxIdle, TransportOK, TransportRecords
  <2> HIDE DEF rest
  <2>5. /\ TransportOK(RetireTransmittedPacket(t))
        /\ IrqLevel(RetireTransmittedPacket(t))
        /\ RetireTransmittedPacket(t).rxReady <=> t.rxReady
        /\ RetireTransmittedPacket(t).integrityLost <=> t.integrityLost
    BY <2>2, <2>3, <2>4 DEF TransportOK, TransportRecords, IrqLevel
  <2>6. TxIdle(t) => TxIdle(RetireTransmittedPacket(t))
    BY <2>1, <2>2, <2>3 DEF TxIdle, TransportOK, TransportRecords
  <2> QED
    BY <2>5, <2>6
<1> QED
  BY <1>1, <1>2

\* The whole of service() at a frame end.
LEMMA ServiceFrameEndOK ==
  ASSUME NEW t, TransportOK(t), NEW command \in Commands \cup {NoCommand}
  PROVE  /\ TransportOK(ServiceFrameEnd(t, command))
         /\ IrqLevel(ServiceFrameEnd(t, command))
         /\ TxIdle(t) => /\ TxIdle(ServiceFrameEnd(t, command))
                         /\ (ServiceFrameEnd(t, command).integrityLost <=> t.integrityLost)
<1> DEFINE received == CompleteRxFrame(t, command)
           retired  == RetireTransmittedPacket(received)
<1>1. /\ TransportOK(received)
      /\ TxIdle(t) => TxIdle(received) /\ ~received.loaded
      /\ received.integrityLost <=> t.integrityLost
  BY DEF CompleteRxFrame, TransportOK, TransportRecords, TxIdle
<1> HIDE DEF received
<1>2. /\ TransportOK(retired)
      /\ IrqLevel(retired)
      /\ TxIdle(t) => TxIdle(retired) /\ (retired.integrityLost <=> t.integrityLost)
  BY <1>1, RetireTransmittedPacketOK
<1>3. ServiceFrameEnd(t, command) = ServiceTxFifo(retired)
  BY DEF ServiceFrameEnd, received
<1> HIDE DEF retired
<1>4. retired.loaded \/ retired.queue = <<>>
  BY <1>2 DEF IrqLevel
<1>5. ServiceFrameEnd(t, command) = retired
  BY <1>2, <1>3, <1>4, ServiceTxFifoOK
<1> QED
  BY <1>2, <1>5

\* Taking the command leaves the transmit side alone.
LEMMA PopRxPacketOK ==
  ASSUME NEW t, TransportOK(t)
  PROVE  /\ TransportOK(PopRxPacket(t))
         /\ IrqLevel(t) => IrqLevel(PopRxPacket(t))
         /\ TxIdle(t) => TxIdle(PopRxPacket(t))
         /\ ~PopRxPacket(t).rxReady
         /\ PopRxPacket(t).irq <=> t.irq
         /\ PopRxPacket(t).integrityLost <=> t.integrityLost
BY DEF PopRxPacket, TransportOK, TransportRecords, IrqLevel, TxIdle

-----------------------------------------------------------------------------
(* The core of the application *)

\* The part of the state that snapshot requests and recoveries assign.
CoreOK ==
  /\ state \in States
  /\ snapshotSequence \in Sequences
  /\ PublisherOK(publisher)
  /\ TransportOK(transport)
  /\ frame \in Commands \cup {NoCommand}

\* Sequence bytes wrap, and a capture is a snapshot.
LEMMA CaptureType ==
  ASSUME NEW sequence \in Sequences,
         NEW values \in [Controls -> EncoderValues],
         NEW picture \in ButtonPictures
  PROVE  /\ NextSequence(sequence) \in Sequences
         /\ CaptureSnapshot(values, picture, NextSequence(sequence)) \in Snapshots
<1>1. NextSequence(sequence) \in Sequences
  BY WireAssumption DEF NextSequence, Sequences
<1> QED
  BY <1>1 DEF CaptureSnapshot, Snapshots

\* recoverPublicationIntegrity leaves a well-formed core, an idle transmitter
\* without a command, and never the Fault state: the cleared publisher takes
\* the snapshot.
LEMMA RecoveryOK ==
  ASSUME NEW sequence \in Sequences,
         NEW values \in [Controls -> EncoderValues],
         NEW picture \in ButtonPictures,
         NEW t, TransportOK(t),
         RecoverPublicationIntegrity(sequence, values, picture, t)
  PROVE  /\ CoreOK'
         /\ IrqLevel(transport')
         /\ ~transport'.rxReady
         /\ state' = "Resynchronizing"
<1> DEFINE snapshot == CaptureSnapshot(values, picture, NextSequence(sequence))
<1>1. NextSequence(sequence) \in Sequences /\ snapshot \in Snapshots
  BY CaptureType
<1>2. /\ state' = "Resynchronizing"
      /\ publisher' = RequestSnapshot(EmptyPublisher, snapshot)
  BY ClearedPublisher DEF RecoverPublicationIntegrity, ClearPublisher
<1>3. PublisherOK(publisher')
  BY <1>1, <1>2, ClearedPublisher, RequestSnapshotOK
<1>4. /\ snapshotSequence' = NextSequence(sequence)
      /\ transport' = ClearTxQueue(t)
      /\ frame' = NoCommand
  BY DEF RecoverPublicationIntegrity
<1> QED
  BY <1>1, <1>2, <1>3, <1>4, ClearTxQueueOK DEF CoreOK, States

\* The two entry points of the application into recovery and snapshots, on a
\* transport record whose line level is right: they keep it right, never leave
\* a command behind that was not there, and stay in or out of Fault.
LEMMA RecoverOK ==
  ASSUME CoreOK,
         NEW values \in [Controls -> EncoderValues],
         NEW picture \in ButtonPictures,
         NEW t, TransportOK(t), IrqLevel(t),
         Recover(values, picture, t)
  PROVE  /\ CoreOK'
         /\ IrqLevel(transport')
         /\ transport'.rxReady => t.rxReady
         /\ state = "Fault" => StayInFault(t)
         /\ state # "Fault" => state' = "Resynchronizing" /\ ~transport'.rxReady
<1>1. CASE state = "Fault" /\ StayInFault(t)
  BY <1>1 DEF StayInFault, CoreOK
<1>2. CASE /\ state # "Fault"
           /\ RecoverPublicationIntegrity(snapshotSequence, values, picture, t)
  <2>1. snapshotSequence \in Sequences
    BY DEF CoreOK
  <2> QED
    BY <1>2, <2>1, RecoveryOK
<1> QED
  BY <1>1, <1>2 DEF Recover

\* requestFreshSnapshot keeps the types and the data-ready line, and outside
\* Fault always ends in Resynchronizing, by itself or through a recovery.
LEMMA RequestFreshSnapshotOK ==
  ASSUME CoreOK,
         NEW values \in [Controls -> EncoderValues],
         NEW picture \in ButtonPictures,
         NEW t, TransportOK(t), IrqLevel(t),
         RequestFreshSnapshot(values, picture, t)
  PROVE  /\ CoreOK'
         /\ IrqLevel(transport')
         /\ transport'.rxReady => t.rxReady
         /\ state = "Fault" => StayInFault(t)
         /\ state # "Fault" => state' = "Resynchronizing"
<1> DEFINE sequence == NextSequence(snapshotSequence)
           snapshot == CaptureSnapshot(values, picture, sequence)
<1>1. snapshotSequence \in Sequences /\ PublisherOK(publisher)
  BY DEF CoreOK
<1>2. sequence \in Sequences /\ snapshot \in Snapshots
  BY <1>1, CaptureType
<1>3. CASE state = "Fault" /\ StayInFault(t)
  BY <1>3 DEF StayInFault, CoreOK
<1>4. CASE /\ state # "Fault"
           /\ snapshotSequence' = sequence
           /\ publisher' = RequestSnapshot(publisher, snapshot)
           /\ state' = "Resynchronizing"
           /\ transport' = t
           /\ UNCHANGED frame
  <2>1. PublisherOK(publisher')
    BY <1>1, <1>2, <1>4, RequestSnapshotOK
  <2> QED
    BY <1>2, <1>4, <2>1 DEF CoreOK, States
<1>5. CASE /\ state # "Fault"
           /\ RecoverPublicationIntegrity(sequence, values, picture, t)
  BY <1>2, <1>5, RecoveryOK
<1> QED
  BY <1>3, <1>4, <1>5 DEF RequestFreshSnapshot

-----------------------------------------------------------------------------

\* The rest of the state.
SurroundingsOK ==
  /\ stage \in Stages
  /\ encoderValues \in [Controls -> EncoderValues]
  /\ buttons \in ButtonPictures
  /\ changes \in [encoders : SUBSET Controls, buttons : BOOLEAN]
  /\ host \in Hosts
  /\ supply \in Supplies

\* TypeOK split along what a recovery touches and what it leaves alone.
LEMMA TypeParts == TypeOK <=> CoreOK /\ SurroundingsOK
BY DEF TypeOK, CoreOK, SurroundingsOK, PublisherTypeOK

\* What SafetyInvariant says beyond types, levels and commands.
FaultIsolated ==
  /\ FaultIsSilent
  /\ stage = "setup" <=> state = "Starting"
  /\ stage = "setup" => host = EmptyHost /\ publisher = EmptyPublisher
  /\ state = "Fault" => /\ stage \in {"transport", "command"}
                        /\ publisher.phase = "Idle"
                        /\ ~transport.integrityLost

\* SafetyInvariant in the five parts every action is proved to preserve.
LEMMA InvariantParts ==
  SafetyInvariant <=> /\ CoreOK
                      /\ SurroundingsOK
                      /\ IrqLevel(transport)
                      /\ CommandTakenInItsPass
                      /\ FaultIsolated
BY TypeParts DEF SafetyInvariant, FaultIsolated, IrqMeansPacketLoaded

\* The same five parts of the next state make up its SafetyInvariant.
LEMMA InvariantPartsNext ==
  /\ CoreOK'
  /\ SurroundingsOK'
  /\ IrqLevel(transport')
  /\ CommandTakenInItsPass'
  /\ FaultIsolated'
  => SafetyInvariant'
<1>1. CoreOK' /\ SurroundingsOK' => TypeOK'
  BY DEF TypeOK, CoreOK, SurroundingsOK, PublisherTypeOK
<1> QED
  BY <1>1 DEF SafetyInvariant, FaultIsolated, IrqMeansPacketLoaded

\* A packet the host parses keeps its record well formed: END is accepted only
\* behind a buffer that holds all the values it commits.
LEMMA HostReceivesOK ==
  ASSUME NEW h \in Hosts, NEW packet \in Packets
  PROVE  HostReceives(h, packet) \in Hosts
<1> USE DEF Hosts
<1>1. /\ packet.data \in Int
      /\ <<packet>> \in Seq(Packets)
      /\ <<>> \in Seq(Packets)
      /\ Append(h.buffer, packet) \in Seq(Packets)
  BY DEF Packets
<1>2. CASE packet.type = "SnapshotBegin"
  BY <1>1, <1>2 DEF HostReceives
<1>3. CASE packet.type # "SnapshotBegin" /\ h.buffer # <<>>
  <2>1. CASE ~ExpectedNext(h.buffer, packet)
    BY <1>1, <1>3, <2>1 DEF HostReceives
  <2>2. CASE ExpectedNext(h.buffer, packet) /\ packet.type = "SnapshotEnd"
    <3>1. Len(h.buffer) = ControlCount + 2
      BY <2>2, ControlCountAssumption DEF ExpectedNext
    <3>2. ASSUME NEW k \in 1 .. ControlCount + 2
          PROVE  h.buffer[k].data \in Int
      <4>1. h.buffer \in Seq(Packets) /\ k \in 1 .. Len(h.buffer)
        BY <3>1
      <4>2. h.buffer[k] \in Packets
        BY <4>1
      <4> QED
        BY <4>2 DEF Packets
    <3>3. /\ [c \in Controls |-> h.buffer[c + 2].data] \in [Controls -> Int]
          /\ h.buffer[ControlCount + 2].data \in Int
      BY <3>2, ControlCountAssumption DEF Controls
    <3>4. HostReceives(h, packet) =
            [h EXCEPT !.buffer = <<>>,
                      !.known = TRUE,
                      !.encoders = [c \in Controls |-> h.buffer[c + 2].data],
                      !.buttons = h.buffer[ControlCount + 2].data]
      BY <1>3, <2>2 DEF HostReceives
    <3> QED
      BY <1>1, <3>3, <3>4
  <2>3. CASE ExpectedNext(h.buffer, packet) /\ packet.type # "SnapshotEnd"
    BY <1>1, <1>3, <2>3 DEF HostReceives
  <2> QED
    BY <2>1, <2>2, <2>3
<1>4. CASE packet.type = "EncoderState" /\ h.buffer = <<>>
  <2>1. HostReceives(h, packet) = [h EXCEPT !.encoders[packet.index] = packet.data]
    BY <1>4 DEF HostReceives
  <2> QED
    BY <1>1, <2>1
<1>5. CASE packet.type = "ButtonState" /\ h.buffer = <<>>
  BY <1>1, <1>5 DEF HostReceives
<1>6. CASE /\ packet.type \notin {"SnapshotBegin", "EncoderState", "ButtonState"}
           /\ h.buffer = <<>>
  <2>1. HostReceives(h, packet) = [h EXCEPT !.malformed = TRUE]
    BY <1>6 DEF HostReceives
  <2> QED
    BY <2>1
<1> QED
  BY <1>2, <1>3, <1>4, <1>5, <1>6

-----------------------------------------------------------------------------
(* One lemma per action *)

\* begin(): either a first snapshot is requested or Fault is entered silent.
LEMMA BeginStep ==
  ASSUME SafetyInvariant, Begin
  PROVE  SafetyInvariant'
<1>1. /\ CoreOK
      /\ SurroundingsOK
      /\ stage = "setup"
      /\ state = "Starting"
      /\ host = EmptyHost
      /\ publisher = EmptyPublisher
  BY InvariantParts DEF Begin, FaultIsolated
<1>2. PICK ready \in ScannerBegins, picture \in ButtonPictures :
        /\ buttons' = picture
        /\ IF ready
           THEN RequestFreshSnapshot(encoderValues, picture, EmptyTransport)
           ELSE /\ state' = "Fault"
                /\ transport' = EmptyTransport
                /\ UNCHANGED <<snapshotSequence, publisher, frame>>
  BY DEF Begin
<1>3. stage' = "transport" /\ UNCHANGED <<encoderValues, changes, host, supply>>
  BY DEF Begin
<1>4. SurroundingsOK'
  BY <1>1, <1>2, <1>3 DEF SurroundingsOK, Stages
<1>5. encoderValues \in [Controls -> EncoderValues]
  BY <1>1 DEF SurroundingsOK
<1>6. /\ ~EmptyTransport.rxReady
      /\ ~EmptyTransport.irq
      /\ ~EmptyTransport.integrityLost
      /\ TxIdle(EmptyTransport)
  BY DEF EmptyTransport, TxIdle
<1>7. CASE ready
  <2>1. /\ CoreOK'
        /\ IrqLevel(transport')
        /\ ~transport'.rxReady
        /\ state' = "Resynchronizing"
    BY <1>1, <1>2, <1>5, <1>6, <1>7, EmptyTransportOK, RequestFreshSnapshotOK
  <2> QED
    BY <1>3, <1>4, <2>1, InvariantPartsNext
       DEF FaultIsolated, FaultIsSilent, CommandTakenInItsPass
<1>8. CASE ~ready
  <2>1. /\ state' = "Fault"
        /\ transport' = EmptyTransport
        /\ UNCHANGED <<snapshotSequence, publisher, frame>>
    BY <1>2, <1>8
  <2>2. CoreOK' /\ IrqLevel(transport')
    BY <1>1, <2>1, EmptyTransportOK DEF CoreOK, States
  <2>3. OfferedPacket(EmptyPublisher) = <<>> /\ EmptyPublisher.phase = "Idle"
    BY DEF OfferedPacket, EmptyPublisher
  <2>4. FaultIsolated'
    BY <1>1, <1>3, <1>6, <2>1, <2>3 DEF FaultIsolated, FaultIsSilent, OfferedPacket
  <2> QED
    BY <1>4, <1>6, <2>1, <2>2, <2>4, InvariantPartsNext DEF CommandTakenInItsPass
<1> QED
  BY <1>7, <1>8

\* transport_.service(): frame end, retirement and feeding.
LEMMA TransportServiceStep ==
  ASSUME SafetyInvariant, TransportService
  PROVE  SafetyInvariant'
<1>1. /\ CoreOK
      /\ SurroundingsOK
      /\ IrqLevel(transport)
      /\ CommandTakenInItsPass
      /\ FaultIsolated
      /\ stage = "transport"
  BY InvariantParts DEF TransportService
<1>2. /\ stage' = IF transport'.integrityLost THEN "integrity"
                  ELSE AfterIntegrity(transport', state)
      /\ frame' = NoCommand
      /\ UNCHANGED <<state, snapshotSequence, scanVars, changes, publisher, host, supply>>
  BY DEF TransportService
<1>3. TransportOK(transport) /\ frame \in Commands \cup {NoCommand} /\ state \in States
  BY <1>1 DEF CoreOK
<1>4. /\ TransportOK(transport')
      /\ IrqLevel(transport')
      /\ TxIdle(transport) =>
           /\ TxIdle(transport')
           /\ transport'.integrityLost <=> transport.integrityLost
  <2>1. CASE frame = NoCommand
    <3>1. transport' = ServiceTxFifo(transport)
      BY <2>1 DEF TransportService
    <3>2. transport.loaded \/ transport.queue = <<>>
      BY <1>1 DEF IrqLevel
    <3>3. transport' = transport
      BY <1>3, <3>1, <3>2, ServiceTxFifoOK
    <3> QED
      BY <1>1, <1>3, <3>3
  <2>2. CASE frame # NoCommand
    <3>1. transport' = ServiceFrameEnd(transport, frame)
      BY <2>2 DEF TransportService
    <3> QED
      BY <1>3, <3>1, ServiceFrameEndOK
  <2> QED
    BY <2>1, <2>2
<1>5. CoreOK'
  BY <1>1, <1>2, <1>4 DEF CoreOK
<1>6. stage' \in {"integrity", "command", "scan", "transport"}
  BY <1>2 DEF AfterIntegrity, AfterCommand
<1>7. SurroundingsOK'
  BY <1>1, <1>2, <1>6 DEF SurroundingsOK, Stages, scanVars
<1>8. CommandTakenInItsPass'
  BY <1>2 DEF CommandTakenInItsPass, AfterIntegrity
<1>9. FaultIsolated'
  <2>1. CASE state = "Fault"
    <3>1. /\ TxIdle(transport)
          /\ ~transport.integrityLost
          /\ OfferedPacket(publisher) = <<>>
          /\ host = EmptyHost
          /\ publisher.phase = "Idle"
      BY <1>1, <2>1 DEF FaultIsolated, FaultIsSilent
    <3>2. /\ TxIdle(transport')
          /\ ~transport'.integrityLost
          /\ ~transport'.irq
      BY <1>4, <3>1 DEF TxIdle, IrqLevel
    <3>3. stage' \in {"command", "transport"}
      BY <1>2, <2>1, <3>2 DEF AfterIntegrity, AfterCommand
    <3>4. OfferedPacket(publisher') = <<>>
      BY <1>2, <3>1 DEF OfferedPacket
    <3> QED
      BY <1>2, <2>1, <3>1, <3>2, <3>3, <3>4 DEF FaultIsolated, FaultIsSilent
  <2>2. CASE state # "Fault"
    <3>1. state # "Starting"
      BY <1>1 DEF FaultIsolated
    <3> QED
      BY <1>2, <1>6, <2>2, <3>1 DEF FaultIsolated, FaultIsSilent
  <2> QED
    BY <2>1, <2>2
<1> QED
  BY <1>4, <1>5, <1>7, <1>8, <1>9, InvariantPartsNext

\* Outside Fault and begin(), the isolation of Fault is not at stake.
LEMMA OrdinaryStep ==
  ASSUME CoreOK', SurroundingsOK', IrqLevel(transport'), CommandTakenInItsPass',
         state' \notin {"Fault", "Starting"}, stage' # "setup"
  PROVE  SafetyInvariant'
<1>1. FaultIsolated'
  BY DEF FaultIsolated, FaultIsSilent
<1> QED
  BY <1>1, InvariantPartsNext

\* In Fault, a command is consumed and nothing starts moving.
LEMMA FaultStep ==
  ASSUME SafetyInvariant, state = "Fault", CoreOK', SurroundingsOK',
         transport' = PopRxPacket(transport),
         UNCHANGED <<state, host>>,
         publisher'.phase = publisher.phase,
         OfferedPacket(publisher') = OfferedPacket(publisher),
         stage' = "transport"
  PROVE  SafetyInvariant'
<1>1. /\ TransportOK(transport)
      /\ IrqLevel(transport)
      /\ TxIdle(transport)
      /\ ~transport.irq
      /\ ~transport.integrityLost
      /\ OfferedPacket(publisher) = <<>>
      /\ host = EmptyHost
      /\ publisher.phase = "Idle"
  BY InvariantParts DEF CoreOK, FaultIsolated, FaultIsSilent
<1>2. /\ IrqLevel(transport')
      /\ TxIdle(transport')
      /\ ~transport'.irq
      /\ ~transport'.integrityLost
      /\ ~transport'.rxReady
  BY <1>1, PopRxPacketOK
<1>3. FaultIsolated'
  BY <1>1, <1>2 DEF FaultIsolated, FaultIsSilent
<1> QED
  BY <1>2, <1>3, InvariantPartsNext DEF CommandTakenInItsPass

\* What every command handler starts from.
LEMMA CommandStage ==
  ASSUME SafetyInvariant, stage = "command"
  PROVE  /\ CoreOK
         /\ SurroundingsOK
         /\ state \in {"Running", "Resynchronizing", "Fault"}
         /\ TransportOK(PopRxPacket(transport))
         /\ IrqLevel(PopRxPacket(transport))
         /\ ~PopRxPacket(transport).rxReady
<1>1. CoreOK /\ SurroundingsOK /\ IrqLevel(transport) /\ FaultIsolated
  BY InvariantParts
<1>2. state \in {"Running", "Resynchronizing", "Fault"}
  BY <1>1 DEF CoreOK, States, FaultIsolated
<1> QED
  BY <1>1, <1>2, PopRxPacketOK DEF CoreOK

\* The control's type after a handler: the stage follows the state.
LEMMA AfterCommandType ==
  ASSUME SurroundingsOK, CommandHandled,
         encoderValues' \in [Controls -> EncoderValues]
  PROVE  /\ SurroundingsOK'
         /\ stage' # "setup"
         /\ state' = "Fault" => stage' = "transport"
         /\ UNCHANGED host
BY DEF SurroundingsOK, CommandHandled, AfterCommand, Stages

\* A NOP, an unsupported or an invalid packet.
LEMMA HandleIgnoredStep ==
  ASSUME SafetyInvariant, HandleIgnored
  PROVE  SafetyInvariant'
<1>1. /\ stage = "command"
      /\ transport' = PopRxPacket(transport)
      /\ UNCHANGED <<state, snapshotSequence, encoderValues, publisher, frame>>
      /\ CommandHandled
  BY DEF HandleIgnored, Handles
<1>2. CoreOK'
  BY <1>1, CommandStage DEF CoreOK
<1>3. /\ SurroundingsOK'
      /\ stage' # "setup"
      /\ state' = "Fault" => stage' = "transport"
      /\ UNCHANGED host
  <2>1. encoderValues' \in [Controls -> EncoderValues]
    BY <1>1, CommandStage DEF SurroundingsOK
  <2> QED
    BY <1>1, <2>1, CommandStage, AfterCommandType
<1>4. CASE state = "Fault"
  BY <1>1, <1>2, <1>3, <1>4, FaultStep DEF OfferedPacket
<1>5. CASE state # "Fault"
  BY <1>1, <1>2, <1>3, <1>5, CommandStage, OrdinaryStep DEF CommandTakenInItsPass
<1> QED
  BY <1>4, <1>5

\* Both commands that ask for a snapshot, with the counts they capture.
LEMMA SnapshotCommandStep ==
  ASSUME SafetyInvariant, stage = "command", CommandHandled,
         NEW values \in [Controls -> EncoderValues], encoderValues' = values,
         RequestFreshSnapshot(values, buttons, PopRxPacket(transport))
  PROVE  SafetyInvariant'
<1>1. buttons \in ButtonPictures
  BY CommandStage DEF SurroundingsOK
<1>2. /\ CoreOK'
      /\ IrqLevel(transport')
      /\ ~transport'.rxReady
      /\ state = "Fault" => StayInFault(PopRxPacket(transport))
      /\ state # "Fault" => state' = "Resynchronizing"
  BY <1>1, CommandStage, RequestFreshSnapshotOK
<1>3. /\ SurroundingsOK'
      /\ stage' # "setup"
      /\ state' = "Fault" => stage' = "transport"
      /\ UNCHANGED host
  BY CommandStage, AfterCommandType
<1>4. CASE state = "Fault"
  BY <1>2, <1>3, <1>4, FaultStep DEF StayInFault, OfferedPacket
<1>5. CASE state # "Fault"
  BY <1>2, <1>3, <1>5, OrdinaryStep DEF CommandTakenInItsPass
<1> QED
  BY <1>4, <1>5

\* Both places where a command ends in recoverPublicationIntegrity.
LEMMA RecoveryCommandStep ==
  ASSUME SafetyInvariant, stage = "command", CommandHandled,
         NEW values \in [Controls -> EncoderValues], encoderValues' = values,
         Recover(values, buttons, PopRxPacket(transport))
  PROVE  SafetyInvariant'
<1>1. buttons \in ButtonPictures
  BY CommandStage DEF SurroundingsOK
<1>2. /\ CoreOK'
      /\ IrqLevel(transport')
      /\ ~transport'.rxReady
      /\ state = "Fault" => StayInFault(PopRxPacket(transport))
      /\ state # "Fault" => state' = "Resynchronizing"
  BY <1>1, CommandStage, RecoverOK
<1>3. /\ SurroundingsOK'
      /\ stage' # "setup"
      /\ state' = "Fault" => stage' = "transport"
      /\ UNCHANGED host
  BY CommandStage, AfterCommandType
<1>4. CASE state = "Fault"
  BY <1>2, <1>3, <1>4, FaultStep DEF StayInFault, OfferedPacket
<1>5. CASE state # "Fault"
  BY <1>2, <1>3, <1>5, OrdinaryStep DEF CommandTakenInItsPass
<1> QED
  BY <1>4, <1>5

\* RESET_CONTROL: ignored, queued, or recovered from a full queue.
LEMMA HandleResetControlStep ==
  ASSUME SafetyInvariant, HandleResetControl
  PROVE  SafetyInvariant'
<1> DEFINE control == transport.rxPacket.index
           values  == [encoderValues EXCEPT ![control] = 0]
           popped  == PopRxPacket(transport)
<1>1. stage = "command" /\ CommandHandled
  BY DEF HandleResetControl, Handles
<1>2. encoderValues \in [Controls -> EncoderValues]
  BY <1>1, CommandStage DEF SurroundingsOK
<1>3. values \in [Controls -> EncoderValues]
  BY <1>2, DataAssumption
<1>4. CASE /\ transport' = popped
           /\ UNCHANGED <<state, snapshotSequence, encoderValues, publisher, frame>>
  <2>1. CoreOK'
    BY <1>1, <1>4, CommandStage DEF CoreOK
  <2>2. /\ SurroundingsOK'
        /\ stage' # "setup"
        /\ state' = "Fault" => stage' = "transport"
        /\ UNCHANGED host
    BY <1>1, <1>2, <1>4, CommandStage, AfterCommandType
  <2>3. CASE state = "Fault"
    BY <1>4, <2>1, <2>2, <2>3, FaultStep DEF OfferedPacket
  <2>4. CASE state # "Fault"
    BY <1>1, <1>4, <2>1, <2>2, <2>4, CommandStage, OrdinaryStep
       DEF CommandTakenInItsPass
  <2> QED
    BY <2>3, <2>4
<1>5. CASE /\ control \in Controls
           /\ AcceptsEvent(publisher)
           /\ encoderValues' = values
           /\ publisher' = QueueEvent(publisher, EncoderEvent(control, 0))
           /\ transport' = popped
           /\ UNCHANGED <<state, snapshotSequence, frame>>
  <2>1. PublisherOK(publisher)
    BY <1>1, CommandStage DEF CoreOK
  <2>2. PublisherOK(publisher')
    BY <1>5, <2>1, EventsType, QueueEventOK, DataAssumption
  <2>3. CoreOK'
    BY <1>1, <1>5, <2>2, CommandStage DEF CoreOK
  <2>4. /\ SurroundingsOK'
        /\ stage' # "setup"
        /\ state' = "Fault" => stage' = "transport"
        /\ UNCHANGED host
    BY <1>1, <1>3, <1>5, CommandStage, AfterCommandType
  <2>5. CASE state = "Fault"
    <3>1. /\ publisher'.phase = publisher.phase
          /\ publisher'.packetReady <=> publisher.packetReady
          /\ publisher'.packet = publisher.packet
      BY <1>5, <2>1 DEF QueueEvent, PublisherOK, PublisherRecords
    <3>2. OfferedPacket(publisher') = OfferedPacket(publisher)
      BY <3>1 DEF OfferedPacket
    <3> QED
      BY <1>5, <2>3, <2>4, <2>5, <3>1, <3>2, FaultStep
  <2>6. CASE state # "Fault"
    BY <1>1, <1>5, <2>3, <2>4, <2>6, CommandStage, OrdinaryStep
       DEF CommandTakenInItsPass
  <2> QED
    BY <2>5, <2>6
<1>6. CASE /\ encoderValues' = values
           /\ Recover(values, buttons, popped)
  BY <1>1, <1>3, <1>6, RecoveryCommandStep
<1> QED
  BY <1>4, <1>5, <1>6 DEF HandleResetControl

\* GET_SNAPSHOT, RESET_ALL and RESYNC.
LEMMA SimpleCommandsStep ==
  ASSUME SafetyInvariant, HandleRequestSnapshot \/ HandleResetAll \/ HandleResync
  PROVE  SafetyInvariant'
<1>1. stage = "command" /\ CommandHandled
  BY DEF HandleRequestSnapshot, HandleResetAll, HandleResync, Handles
<1>2. encoderValues \in [Controls -> EncoderValues]
  BY <1>1, CommandStage DEF SurroundingsOK
<1>3. CASE HandleRequestSnapshot
  BY <1>1, <1>2, <1>3, SnapshotCommandStep DEF HandleRequestSnapshot
<1>4. CASE HandleResetAll
  <2>1. [c \in Controls |-> 0] \in [Controls -> EncoderValues]
    BY DataAssumption
  <2> QED
    BY <1>1, <1>4, <2>1, SnapshotCommandStep DEF HandleResetAll
<1>5. CASE HandleResync
  BY <1>1, <1>2, <1>5, RecoveryCommandStep DEF HandleResync
<1> QED
  BY <1>3, <1>4, <1>5

\* Where service() is outside Fault for certain.
LEMMA WorkingStage ==
  ASSUME SafetyInvariant, stage \in {"integrity", "scan", "changes"}
  PROVE  /\ CoreOK
         /\ SurroundingsOK
         /\ IrqLevel(transport)
         /\ TransportOK(transport)
         /\ state \in {"Running", "Resynchronizing"}
         /\ stage # "integrity" => ~transport.rxReady
<1>1. CoreOK /\ SurroundingsOK /\ IrqLevel(transport) /\ FaultIsolated
  BY InvariantParts
<1>2. state \in {"Running", "Resynchronizing"}
  BY <1>1 DEF CoreOK, States, FaultIsolated
<1>3. stage # "integrity" => ~transport.rxReady
  BY InvariantParts DEF CommandTakenInItsPass
<1> QED
  BY <1>1, <1>2, <1>3 DEF CoreOK

\* The recovery service() runs for an underrun.
LEMMA RecoverIntegrityStep ==
  ASSUME SafetyInvariant, RecoverIntegrity
  PROVE  SafetyInvariant'
<1> DEFINE t == [transport EXCEPT !.integrityLost = FALSE]
<1>1. /\ stage = "integrity"
      /\ Recover(encoderValues, buttons, t)
      /\ stage' = AfterIntegrity(transport', state')
      /\ UNCHANGED <<scanVars, changes, host, supply>>
  BY DEF RecoverIntegrity
<1>2. TransportOK(t) /\ IrqLevel(t)
  BY <1>1, WorkingStage DEF TransportOK, TransportRecords, IrqLevel
<1>3. /\ encoderValues \in [Controls -> EncoderValues]
      /\ buttons \in ButtonPictures
  BY <1>1, WorkingStage DEF SurroundingsOK
<1> HIDE DEF t
<1>4. /\ CoreOK'
      /\ IrqLevel(transport')
      /\ state' = "Resynchronizing"
      /\ ~transport'.rxReady
  BY <1>1, <1>2, <1>3, WorkingStage, RecoverOK
<1>5. stage' = "scan"
  BY <1>1, <1>4 DEF AfterIntegrity, AfterCommand
<1>6. SurroundingsOK'
  BY <1>1, <1>5, WorkingStage DEF SurroundingsOK, scanVars, Stages
<1> QED
  BY <1>4, <1>5, <1>6, OrdinaryStep DEF CommandTakenInItsPass

\* ControlScanner::service.
LEMMA ScanStep ==
  ASSUME SafetyInvariant, Scan
  PROVE  SafetyInvariant'
<1>1. PICK values \in [Controls -> EncoderValues], picture \in ButtonPictures :
        LET moved == {c \in Controls : values[c] # encoderValues[c]}
            found == [encoders |-> moved, buttons |-> picture # buttons]
        IN  /\ encoderValues' = values
            /\ buttons' = picture
            /\ changes' = found
            /\ \/ found = NoChanges /\ UNCHANGED supply
               \/ /\ found # NoChanges
                  /\ supply.changes > 0
                  /\ supply' = [supply EXCEPT !.changes = @ - 1]
  BY DEF Scan
<1>2. /\ stage = "scan"
      /\ stage' = "changes"
      /\ UNCHANGED <<state, snapshotSequence, publisher, transport, frame, host>>
  BY DEF Scan
<1>3. supply' \in Supplies
  BY <1>1, <1>2, WorkingStage DEF SurroundingsOK, Supplies
<1>4. changes' \in [encoders : SUBSET Controls, buttons : BOOLEAN]
  BY <1>1
<1>5. SurroundingsOK'
  BY <1>1, <1>2, <1>3, <1>4, WorkingStage DEF SurroundingsOK, Stages
<1>6. CoreOK'
  BY <1>2, WorkingStage DEF CoreOK
<1> QED
  BY <1>2, <1>5, <1>6, WorkingStage, OrdinaryStep DEF CommandTakenInItsPass

\* One change of the scan is queued, or the queue is full and the scan's rest
\* goes into a recovery.
LEMMA PublishChangeStep ==
  ASSUME SafetyInvariant, stage = "changes", NEW event \in PublicationEvents,
         changes' \in [encoders : SUBSET Controls, buttons : BOOLEAN],
         UNCHANGED <<stage, scanVars, host, supply>>,
         \/ /\ AcceptsEvent(publisher)
            /\ publisher' = QueueEvent(publisher, event)
            /\ UNCHANGED <<state, snapshotSequence, transport, frame>>
         \/ /\ ~AcceptsEvent(publisher)
            /\ Recover(encoderValues, buttons, transport)
  PROVE  SafetyInvariant'
<1>1. /\ encoderValues \in [Controls -> EncoderValues]
      /\ buttons \in ButtonPictures
  BY WorkingStage DEF SurroundingsOK
<1>2. SurroundingsOK'
  BY WorkingStage DEF SurroundingsOK, scanVars
<1>3. CASE /\ AcceptsEvent(publisher)
           /\ publisher' = QueueEvent(publisher, event)
           /\ UNCHANGED <<state, snapshotSequence, transport, frame>>
  <2>1. CoreOK'
    BY <1>3, WorkingStage, QueueEventOK DEF CoreOK
  <2> QED
    BY <1>2, <1>3, <2>1, WorkingStage, OrdinaryStep DEF CommandTakenInItsPass
<1>4. CASE Recover(encoderValues, buttons, transport)
  <2>1. /\ CoreOK'
        /\ IrqLevel(transport')
        /\ state' = "Resynchronizing"
        /\ ~transport'.rxReady
    BY <1>1, <1>4, WorkingStage, RecoverOK
  <2> QED
    BY <1>2, <2>1, OrdinaryStep DEF CommandTakenInItsPass
<1> QED
  BY <1>3, <1>4

\* One turn of publishChanges' loop.
LEMMA PublishEncoderChangeStep ==
  ASSUME SafetyInvariant, PublishEncoderChange
  PROVE  SafetyInvariant'
<1>1. stage = "changes" /\ UNCHANGED <<stage, scanVars, host, supply>>
  BY DEF PublishEncoderChange
<1>2. PICK control \in changes.encoders :
        \/ /\ AcceptsEvent(publisher)
           /\ publisher' = QueueEvent(publisher,
                             EncoderEvent(control, encoderValues[control]))
           /\ changes' = [changes EXCEPT !.encoders = @ \ {control}]
           /\ UNCHANGED <<state, snapshotSequence, transport, frame>>
        \/ /\ ~AcceptsEvent(publisher)
           /\ changes' = NoChanges
           /\ Recover(encoderValues, buttons, transport)
  BY DEF PublishEncoderChange
<1>3. /\ changes \in [encoders : SUBSET Controls, buttons : BOOLEAN]
      /\ encoderValues \in [Controls -> EncoderValues]
  BY <1>1, WorkingStage DEF SurroundingsOK
<1>4. control \in Controls
  BY <1>3
<1>5. EncoderEvent(control, encoderValues[control]) \in PublicationEvents
  BY <1>3, <1>4, EventsType
<1>6. changes' \in [encoders : SUBSET Controls, buttons : BOOLEAN]
  <2>1. [changes EXCEPT !.encoders = @ \ {control}]
          \in [encoders : SUBSET Controls, buttons : BOOLEAN]
    BY <1>3
  <2>2. NoChanges \in [encoders : SUBSET Controls, buttons : BOOLEAN]
    BY DEF NoChanges
  <2> QED
    BY <1>2, <2>1, <2>2
<1> QED
  BY <1>1, <1>2, <1>5, <1>6, PublishChangeStep

\* The button half of publishChanges.
LEMMA PublishButtonChangeStep ==
  ASSUME SafetyInvariant, PublishButtonChange
  PROVE  SafetyInvariant'
<1>1. /\ stage = "changes"
      /\ changes' = NoChanges
      /\ UNCHANGED <<stage, scanVars, host, supply>>
      /\ \/ /\ AcceptsEvent(publisher)
            /\ publisher' = QueueEvent(publisher, ButtonsEvent(buttons))
            /\ UNCHANGED <<state, snapshotSequence, transport, frame>>
         \/ /\ ~AcceptsEvent(publisher)
            /\ Recover(encoderValues, buttons, transport)
  BY DEF PublishButtonChange
<1>2. ButtonsEvent(buttons) \in PublicationEvents
  BY <1>1, WorkingStage, EventsType DEF SurroundingsOK
<1>3. changes' \in [encoders : SUBSET Controls, buttons : BOOLEAN]
  BY <1>1 DEF NoChanges
<1> QED
  BY <1>1, <1>2, <1>3, PublishChangeStep

\* publisher_.service(), the transfer of a packet and updateRecoveryState.
LEMMA PublishAndTransferStep ==
  ASSUME SafetyInvariant, PublishAndTransfer
  PROVE  SafetyInvariant'
<1> DEFINE served == ServicePublisher(publisher)
<1>1. /\ stage = "changes"
      /\ stage' = "transport"
      /\ UNCHANGED <<snapshotSequence, scanVars, changes, frame, host, supply>>
      /\ state' = UpdatedState(publisher', transport')
  BY DEF PublishAndTransfer
<1>2. PublisherOK(served) /\ served.packet \in Packets
  BY <1>1, WorkingStage, ServicePublisherOK DEF CoreOK, PublisherOK, PublisherRecords
<1>3. \/ /\ AcceptsTxPacket(transport)
         /\ transport' = EnqueueTxPacket(transport, served.packet)
         /\ publisher' = ConsumePacket(served)
      \/ /\ transport' = transport
         /\ publisher' = served
  BY DEF PublishAndTransfer
<1> HIDE DEF served
<1>4. /\ PublisherOK(publisher')
      /\ TransportOK(transport')
      /\ IrqLevel(transport')
      /\ ~transport'.rxReady
  BY <1>1, <1>2, <1>3, WorkingStage, ConsumePacketOK, EnqueueTxPacketOK
<1>5. state' \in {"Running", "Resynchronizing"}
  BY <1>1, WorkingStage DEF UpdatedState
<1>6. CoreOK'
  BY <1>1, <1>4, <1>5, WorkingStage DEF CoreOK, States
<1>7. SurroundingsOK'
  BY <1>1, WorkingStage DEF SurroundingsOK, scanVars, Stages
<1> QED
  BY <1>1, <1>4, <1>5, <1>6, <1>7, OrdinaryStep DEF CommandTakenInItsPass

\* What a starved packet is taken for is a packet all the same.
LEMMA ReadingsOK ==
  ASSUME NEW packet \in Packets
  PROVE  Readings(packet) \subseteq Packets
<1>1. ASSUME NEW data \in Int
      PROVE  [packet EXCEPT !.data = data] \in Packets
  BY <1>1 DEF Packets
<1>2. Signed24Minimum .. Signed24Maximum \subseteq Int /\ ButtonPictures \subseteq Int
  BY WireAssumption, DataAssumption
<1> QED
  BY <1>1, <1>2 DEF Readings

\* A frame changes what is staged and what the host has read, not the level.
LEMMA HostFrameStep ==
  ASSUME SafetyInvariant, NEW command \in Commands, NEW fed \in BOOLEAN,
         HostFrame(command, fed)
  PROVE  SafetyInvariant'
<1>1. /\ stage # "setup"
      /\ frame' = command
      /\ fed \/ supply.underruns > 0
      /\ command = NopCommand \/ supply.commands > 0
      /\ supply' = [supply EXCEPT
                      !.underruns = IF fed THEN @ ELSE @ - 1,
                      !.commands  = IF command = NopCommand THEN @ ELSE @ - 1]
      /\ transport' = [transport EXCEPT !.staged = transport.loaded /\ fed]
      /\ \/ host' = host
         \/ transport.loaded /\ \E reading \in {transport.current} \cup Readings(transport.current) :
              host' = HostReceives(host, reading)
      /\ UNCHANGED <<stage, state, snapshotSequence, scanVars, changes, publisher>>
  BY DEF HostFrame
<1>2. /\ CoreOK
      /\ SurroundingsOK
      /\ IrqLevel(transport)
      /\ CommandTakenInItsPass
      /\ FaultIsolated
  BY InvariantParts
<1>3. TransportOK(transport) /\ transport.current \in Packets
  BY <1>2 DEF CoreOK, TransportOK, TransportRecords
<1>4. /\ TransportOK(transport')
      /\ transport'.queue = transport.queue
      /\ transport'.loaded <=> transport.loaded
      /\ transport'.irq <=> transport.irq
      /\ transport'.rxReady <=> transport.rxReady
      /\ transport'.integrityLost <=> transport.integrityLost
      /\ transport'.staged <=> (transport.loaded /\ fed)
  BY <1>1, <1>3 DEF TransportOK, TransportRecords
<1>5. host' \in Hosts
  BY <1>1, <1>2, <1>3, HostReceivesOK, ReadingsOK DEF SurroundingsOK
<1>6. supply' \in Supplies
  <2> DEFINE underruns == IF fed THEN supply.underruns ELSE supply.underruns - 1
             commands  == IF command = NopCommand THEN supply.commands
                          ELSE supply.commands - 1
  <2>1. supply \in Supplies
    BY <1>2 DEF SurroundingsOK
  <2>2. underruns \in Nat /\ commands \in Nat
    BY <1>1, <2>1 DEF Supplies
  <2>3. supply' = [supply EXCEPT !.underruns = underruns, !.commands = commands]
    BY <1>1
  <2> QED
    BY <2>1, <2>2, <2>3 DEF Supplies
<1>7. CoreOK' /\ SurroundingsOK'
  BY <1>1, <1>2, <1>4, <1>5, <1>6 DEF CoreOK, SurroundingsOK, scanVars
<1>8. IrqLevel(transport') /\ CommandTakenInItsPass'
  BY <1>1, <1>2, <1>4 DEF IrqLevel, CommandTakenInItsPass
<1>9. FaultIsolated'
  <2>1. CASE state = "Fault"
    <3>1. /\ TxIdle(transport)
          /\ ~transport.loaded
      BY <1>2, <2>1 DEF FaultIsolated, FaultIsSilent, TxIdle
    <3>2. host' = host /\ TxIdle(transport')
      BY <1>1, <1>4, <3>1 DEF TxIdle
    <3> QED
      BY <1>1, <1>2, <1>4, <2>1, <3>2 DEF FaultIsolated, FaultIsSilent, OfferedPacket
  <2>2. CASE state # "Fault"
    BY <1>1, <1>2, <2>2 DEF FaultIsolated, FaultIsSilent
  <2> QED
    BY <2>1, <2>2
<1> QED
  BY <1>7, <1>8, <1>9, InvariantPartsNext

-----------------------------------------------------------------------------
(* Theorems *)

\* The members' initialisers satisfy the inductive invariant.
LEMMA InitInvariant == Init => SafetyInvariant
<1> SUFFICES ASSUME Init PROVE SafetyInvariant
  OBVIOUS
<1> USE DEF Init
<1>1. CoreOK
  BY EmptyTransportOK, ClearedPublisher, WireAssumption
     DEF CoreOK, States, Sequences
<1>2. supply \in Supplies
  BY EnvironmentAssumption DEF Supplies
<1>3. host \in Hosts
  BY EmptyPacketType DEF EmptyHost, Hosts
<1>4. SurroundingsOK
  BY <1>2, <1>3, DataAssumption DEF SurroundingsOK, Stages, NoChanges
<1>5. IrqLevel(transport)
  BY EmptyTransportOK
<1>6. CommandTakenInItsPass
  BY DEF CommandTakenInItsPass, EmptyTransport
<1>7. FaultIsolated
  BY DEF FaultIsolated, FaultIsSilent
<1> QED
  BY <1>1, <1>4, <1>5, <1>6, <1>7, InvariantParts

\* Every step preserves the inductive invariant.
LEMMA NextInvariant == SafetyInvariant /\ [Next]_vars => SafetyInvariant'
<1> SUFFICES ASSUME SafetyInvariant, [Next]_vars PROVE SafetyInvariant'
  OBVIOUS
<1>1. CASE Begin
  BY <1>1, BeginStep
<1>2. CASE TransportService
  BY <1>2, TransportServiceStep
<1>3. CASE RecoverIntegrity
  BY <1>3, RecoverIntegrityStep
<1>4. CASE HandleIgnored
  BY <1>4, HandleIgnoredStep
<1>5. CASE HandleRequestSnapshot \/ HandleResetAll \/ HandleResync
  BY <1>5, SimpleCommandsStep
<1>6. CASE HandleResetControl
  BY <1>6, HandleResetControlStep
<1>7. CASE Scan
  BY <1>7, ScanStep
<1>8. CASE PublishEncoderChange
  BY <1>8, PublishEncoderChangeStep
<1>9. CASE PublishButtonChange
  BY <1>9, PublishButtonChangeStep
<1>10. CASE PublishAndTransfer
  BY <1>10, PublishAndTransferStep
<1>11. CASE \E command \in Commands, fed \in BOOLEAN : HostFrame(command, fed)
  BY <1>11, HostFrameStep
<1>12. CASE UNCHANGED vars
  BY <1>12 DEF vars, SafetyInvariant, TypeOK, PublisherTypeOK, IrqMeansPacketLoaded,
               CommandTakenInItsPass, FaultIsSilent
<1> QED
  BY <1>1, <1>2, <1>3, <1>4, <1>5, <1>6, <1>7, <1>8, <1>9, <1>10, <1>11, <1>12
     DEF Next, FirmwareStep

\* The inductive invariant holds in every reachable state.
THEOREM SafetyInvariantHolds == Spec => []SafetyInvariant
BY InitInvariant, NextInvariant, PTL DEF Spec

\* Every variable keeps its type and both queues stay inside their storage,
\* through any interleaving of service() stages, frames and recoveries.
THEOREM TypeCorrect == Spec => []TypeOK
<1>1. SafetyInvariant => TypeOK
  BY DEF SafetyInvariant
<1> QED
  BY <1>1, SafetyInvariantHolds, PTL

\* SLAVE_IRQ is high exactly while a packet is loaded, and no queued packet
\* waits behind a low line.
THEOREM IrqLevelCorrect == Spec => []IrqMeansPacketLoaded
<1>1. SafetyInvariant => IrqMeansPacketLoaded
  BY DEF SafetyInvariant
<1> QED
  BY <1>1, SafetyInvariantHolds, PTL

\* A command is taken in the pass that received it: rxOverwrite cannot happen.
THEOREM CommandTaken == Spec => []CommandTakenInItsPass
<1>1. SafetyInvariant => CommandTakenInItsPass
  BY DEF SafetyInvariant
<1> QED
  BY <1>1, SafetyInvariantHolds, PTL

\* After a failed begin() nothing is published, whatever the host sends.
THEOREM FaultSilent == Spec => []FaultIsSilent
<1>1. SafetyInvariant => FaultIsSilent
  BY DEF SafetyInvariant
<1> QED
  BY <1>1, SafetyInvariantHolds, PTL

\* A recovery or a snapshot request outside Fault ends in Resynchronizing.
LEMMA RecoveriesSucceed ==
  ASSUME SafetyInvariant, state # "Fault",
         NEW values \in [Controls -> EncoderValues], NEW t, TransportOK(t), IrqLevel(t),
         Recover(values, buttons, t) \/ RequestFreshSnapshot(values, buttons, t)
  PROVE  state' = "Resynchronizing"
<1>1. CoreOK /\ buttons \in ButtonPictures
  BY InvariantParts DEF SurroundingsOK
<1> QED
  BY <1>1, RecoverOK, RequestFreshSnapshotOK

\* recoverPublicationIntegrity never fails: Fault is entered only by begin().
THEOREM FaultOnlyFromBegin == Spec => FaultOnlyAtStartup
<1>1. ASSUME SafetyInvariant, [Next]_vars, state \notin {"Starting", "Fault"}
      PROVE  state' # "Fault"
  <2>1. /\ encoderValues \in [Controls -> EncoderValues]
        /\ TransportOK(transport)
        /\ IrqLevel(transport)
    BY <1>1, InvariantParts DEF SurroundingsOK, CoreOK
  <2>2. TransportOK(PopRxPacket(transport)) /\ IrqLevel(PopRxPacket(transport))
    BY <2>1, PopRxPacketOK
  <2>3. CASE Begin
    BY <1>1, <2>3, InvariantParts DEF Begin, FaultIsolated
  <2>4. CASE RecoverIntegrity
    <3>1. /\ TransportOK([transport EXCEPT !.integrityLost = FALSE])
          /\ IrqLevel([transport EXCEPT !.integrityLost = FALSE])
      BY <2>1 DEF TransportOK, TransportRecords, IrqLevel
    <3> QED
      BY <1>1, <2>1, <2>4, <3>1, RecoveriesSucceed DEF RecoverIntegrity
  <2>5. CASE HandleRequestSnapshot \/ HandleResync
    BY <1>1, <2>1, <2>2, <2>5, RecoveriesSucceed
       DEF HandleRequestSnapshot, HandleResync
  <2>6. CASE HandleResetAll
    <3>1. [c \in Controls |-> 0] \in [Controls -> EncoderValues]
      BY DataAssumption
    <3> QED
      BY <1>1, <2>2, <2>6, <3>1, RecoveriesSucceed DEF HandleResetAll
  <2>7. CASE HandleResetControl
    <3> DEFINE values == [encoderValues EXCEPT ![transport.rxPacket.index] = 0]
    <3>1. values \in [Controls -> EncoderValues]
      BY <2>1, DataAssumption
    <3>2. UNCHANGED state \/ Recover(values, buttons, PopRxPacket(transport))
      BY <2>7 DEF HandleResetControl
    <3> QED
      BY <1>1, <2>2, <3>1, <3>2, RecoveriesSucceed
  <2>8. CASE PublishEncoderChange \/ PublishButtonChange
    <3>1. UNCHANGED state \/ Recover(encoderValues, buttons, transport)
      BY <2>8 DEF PublishEncoderChange, PublishButtonChange
    <3> QED
      BY <1>1, <2>1, <3>1, RecoveriesSucceed
  <2>9. CASE PublishAndTransfer
    BY <1>1, <2>9 DEF PublishAndTransfer, UpdatedState
  <2>10. CASE \/ TransportService
              \/ HandleIgnored
              \/ Scan
              \/ \E command \in Commands, fed \in BOOLEAN : HostFrame(command, fed)
              \/ UNCHANGED vars
    BY <1>1, <2>10 DEF TransportService, HandleIgnored, Scan, HostFrame, vars
  <2> QED
    BY <1>1, <2>3, <2>4, <2>5, <2>6, <2>7, <2>8, <2>9, <2>10 DEF Next, FirmwareStep
<1>2. SafetyInvariant /\ [Next]_vars
        => [state' = "Fault" => state \in {"Starting", "Fault"}]_vars
  BY <1>1
<1> QED
  BY <1>2, SafetyInvariantHolds, PTL DEF Spec, FaultOnlyAtStartup

\* In Fault service() never gets past the command it takes, and no command
\* leaves Fault.
LEMMA FaultKept ==
  ASSUME SafetyInvariant, [Next]_vars, state = "Fault"
  PROVE  state' = "Fault"
<1>1. stage \in {"transport", "command"}
  BY DEF SafetyInvariant
<1>2. CASE TransportService \/ HandleIgnored
  BY <1>2 DEF TransportService, HandleIgnored
<1>3. CASE HandleRequestSnapshot \/ HandleResetAll \/ HandleResync
  BY <1>3 DEF HandleRequestSnapshot, HandleResetAll, HandleResync,
                    RequestFreshSnapshot, Recover, StayInFault
<1>4. CASE HandleResetControl
  BY <1>4 DEF HandleResetControl, Recover, StayInFault
<1>5. CASE Begin \/ RecoverIntegrity \/ Scan \/ PublishEncoderChange
             \/ PublishButtonChange \/ PublishAndTransfer
  BY <1>1, <1>5 DEF Begin, RecoverIntegrity, Scan, PublishEncoderChange,
                    PublishButtonChange, PublishAndTransfer
<1>6. CASE \/ \E command \in Commands, fed \in BOOLEAN : HostFrame(command, fed)
           \/ UNCHANGED vars
  BY <1>6 DEF HostFrame, vars
<1> QED
  BY <1>2, <1>3, <1>4, <1>5, <1>6 DEF Next, FirmwareStep

\* A failed start stays failed.
THEOREM FaultStays == Spec => FaultIsFinal
<1>1. SafetyInvariant /\ [Next]_vars => [state = "Fault" => state' = "Fault"]_vars
  BY FaultKept
<1> QED
  BY <1>1, SafetyInvariantHolds, PTL DEF Spec, FaultIsFinal
=============================================================================
