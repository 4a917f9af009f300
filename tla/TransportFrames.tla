--------------------------- MODULE TransportFrames ---------------------------
(***************************************************************************)
(* TransportSPI seen one CS frame at a time.  Feeding the eight bytes of   *)
(* the loaded packet into the PIO FIFO while the host clocks them out is   *)
(* folded into the frame: "staged" says all of them got there in time.     *)
(* TransportSPI.tla opens that frame up into bytes and FIFO levels, and    *)
(* FrameDelivery.tla says what of it these operators stand for.            *)
(***************************************************************************)
EXTENDS Integers, Sequences

CONSTANTS
  SpiTxQueueDepth,   \* capacity of txQueue_
  Packets,           \* what the firmware sends
  EmptyPacket,       \* Packet{}
  Commands,          \* what the host may put on MOSI
  NoCommand          \* the value of an absent frame or command

-----------------------------------------------------------------------------
(* State *)

\* A staged packet has been clocked out by the host and only waits for its
\* frame-end marker.
EmptyTransport ==
  [queue         |-> <<>>,         \* txQueue_
   current       |-> EmptyPacket,  \* currentTxPacket_
   loaded        |-> FALSE,        \* txPacketLoaded_
   staged        |-> FALSE,        \* txPacketStaged_
   rxPacket      |-> NoCommand,
   rxReady       |-> FALSE,
   integrityLost |-> FALSE,
   irq           |-> FALSE]        \* the SLAVE_IRQ pin

TransportRecords ==
  [queue         : Seq(Packets),
   current       : Packets,
   loaded        : BOOLEAN,
   staged        : BOOLEAN,
   rxPacket      : Commands \cup {NoCommand},
   rxReady       : BOOLEAN,
   integrityLost : BOOLEAN,
   irq           : BOOLEAN]

TransportOK(t) == t \in TransportRecords /\ Len(t.queue) <= SpiTxQueueDepth

\* The data-ready line is high exactly while a packet is loaded, and nothing
\* waits behind an idle transmitter.
IrqLevel(t) ==
  /\ t.irq <=> t.loaded
  /\ t.queue # <<>> => t.loaded

TxIdle(t) == t.queue = <<>> /\ ~t.loaded /\ ~t.staged

-----------------------------------------------------------------------------
(* Transmit side *)

\* Loads the next packet when none is loaded.
ServiceTxFifo(t) ==
  IF ~t.loaded /\ t.queue # <<>>
  THEN [t EXCEPT !.queue = Tail(@), !.current = Head(t.queue), !.loaded = TRUE]
  ELSE t

AcceptsTxPacket(t) == Len(t.queue) < SpiTxQueueDepth

\* Mutant of EnqueueTxPacket: the data-ready line is not raised.
EnqueueTxPacketQuietly(t, packet) ==
  ServiceTxFifo([t EXCEPT !.queue = Append(@, packet)])

EnqueueTxPacket(t, packet) ==
  ServiceTxFifo([t EXCEPT !.queue = Append(@, packet), !.irq = TRUE])

\* Mutant of ClearTxQueue: the packet already loaded survives.
ClearTxQueueKeepLoaded(t) == [t EXCEPT !.queue = <<>>, !.rxReady = FALSE,
                                       !.integrityLost = FALSE]

\* clearTxQueue(): drops everything queued, loaded, received or assembled.
ClearTxQueue(t) ==
  [t EXCEPT !.queue = <<>>, !.current = EmptyPacket, !.loaded = FALSE,
            !.staged = FALSE, !.rxPacket = NoCommand, !.rxReady = FALSE,
            !.integrityLost = FALSE, !.irq = FALSE]

-----------------------------------------------------------------------------
(* Frame end *)

\* completeRxFrame for an eight-byte frame: an unread command is never
\* replaced, the new one is dropped (rxOverwrite).
CompleteRxFrame(t, command) ==
  IF t.rxReady THEN t ELSE [t EXCEPT !.rxPacket = command, !.rxReady = TRUE]

\* Mutant of RetireTransmittedPacket: an underrun only drops its packet.
RetireWithoutRecovery(t) ==
  LET rest == ServiceTxFifo([t EXCEPT !.current = EmptyPacket,
                                      !.loaded = FALSE, !.staged = FALSE])
  IN  [rest EXCEPT !.irq = ~TxIdle(rest)]

\* Mutant of RetireTransmittedPacket: the line drops while packets still wait.
RetireAndRelease(t) ==
  IF t.loaded /\ ~t.staged
  THEN [t EXCEPT !.queue = <<>>, !.current = EmptyPacket, !.loaded = FALSE,
                 !.integrityLost = TRUE, !.irq = FALSE]
  ELSE [ServiceTxFifo([t EXCEPT !.current = EmptyPacket, !.loaded = FALSE,
                                !.staged = FALSE]) EXCEPT !.irq = FALSE]

\* A loaded packet whose bytes were not all fed by the end of a frame is an
\* underrun and costs the whole queue; otherwise the packet is done.
RetireTransmittedPacket(t) ==
  IF t.loaded /\ ~t.staged
  THEN [t EXCEPT !.queue = <<>>, !.current = EmptyPacket, !.loaded = FALSE,
                 !.integrityLost = TRUE, !.irq = FALSE]
  ELSE LET rest == ServiceTxFifo([t EXCEPT !.current = EmptyPacket,
                                           !.loaded = FALSE, !.staged = FALSE])
       IN  [rest EXCEPT !.irq = ~TxIdle(rest)]

\* service() when the end marker of a frame carrying command has arrived.
ServiceFrameEnd(t, command) ==
  ServiceTxFifo(RetireTransmittedPacket(CompleteRxFrame(t, command)))

\* Mutant of PopRxPacket: rxReady_ is not reset.
PopRxPacketKeepingReady(t) == [t EXCEPT !.rxPacket = NoCommand]

\* The bytes stay behind in rxPacket_, but nothing reads them again.
PopRxPacket(t) == [t EXCEPT !.rxPacket = NoCommand, !.rxReady = FALSE]
=============================================================================
