----------------------------- MODULE TransportSPI -----------------------------
(***************************************************************************)
(* TransportSPI byte by byte: the C++ side that feeds and drains the FIFOs *)
(* of the RP2040 PIO block, the PIO program SpiSlaveM0.pio, and the host   *)
(* that drives CS and the clock, each running at its own pace.             *)
(*                                                                         *)
(* A packet is its number, counted from 1 in the order enqueued, and its   *)
(* bytes are <<packet, offset>>; the bytes the host sends are              *)
(* <<frame, offset>>.  The rest of the main loop is reduced to what it     *)
(* does to the transport: pop, clearTxQueue, enqueueTxPacket.              *)
(*                                                                         *)
(* The design leans on timing.  Each assumption can be dropped by putting  *)
(* its name into Liberties; with Liberties = {} all of them hold:          *)
(*   IdleFrame    the host also starts frames while SLAVE_IRQ is low       *)
(*   EarlyFrame   it starts one before the firmware has settled the last   *)
(*   LateRelease  CS rises after the PIO has tested it behind the last bit *)
(*   FastClock    the TX FIFO may run dry while bytes are still to be fed  *)
(*   ClearInFrame the firmware may clear the transport during a frame      *)
(***************************************************************************)
EXTENDS Integers, Sequences

CONSTANTS
  PacketLength,       \* bytes of a packet, 8
  FifoDepth,          \* words of each PIO FIFO, 4
  SpiTxQueueDepth,    \* capacity of txQueue_
  RxWordsPerService,  \* words service() takes at most, 16
  FrameLengths,       \* bytes the host may clock in one frame
  Liberties,          \* timing assumptions that do not hold
  MaxPackets,         \* bound: packets enqueued
  MaxFrames,          \* bound: frames the host starts
  MaxClears           \* bound: clearTxQueue calls without an underrun

ASSUME GeometryAssumption ==
  /\ PacketLength \in Nat \ {0}
  /\ FifoDepth \in Nat \ {0}
  /\ SpiTxQueueDepth \in Nat \ {0}
  /\ RxWordsPerService \in Nat \ {0}
  /\ FrameLengths \subseteq Nat \ {0}

ASSUME BoundAssumption ==
  /\ Liberties \subseteq
       {"IdleFrame", "EarlyFrame", "LateRelease", "FastClock", "ClearInFrame"}
  /\ MaxPackets \in Nat
  /\ MaxFrames \in Nat
  /\ MaxClears \in Nat

VARIABLES
  cpu,        \* where the C++ code is
  transport,  \* the members of TransportSPI and the SLAVE_IRQ pin
  pio,        \* the PIO state machine and its FIFOs
  host,       \* CS and what the host read in its last frame
  used        \* how much of the bounds is used up

vars == <<cpu, transport, pio, host, used>>

-----------------------------------------------------------------------------
(* State *)

\* What the OSR holds after a pull from an empty FIFO (scratch X), the
\* frame-end word, and an ISR emptied by pio_sm_restart.
Filler == <<0, 0>>
FrameEndMarker == <<0, 1>>
ClearedIsr == <<0, 2>>

BytesOf(number) == [offset \in 1 .. PacketLength |-> <<number, offset>>]

NoPacket == 0

EmptyTransport ==
  [queue         |-> <<>>,
   current       |-> NoPacket,
   feedIndex     |-> 0,
   loaded        |-> FALSE,
   staged        |-> FALSE,
   assembly      |-> <<>>,      \* rxAssembly_ up to rxIndex_
   overflow      |-> FALSE,     \* rxFrameState_
   rxPacket      |-> <<>>,
   rxReady       |-> FALSE,
   integrityLost |-> FALSE,
   irq           |-> FALSE]

\* "then" is what follows the serviceTxFifo call under way: the setIrq of
\* retireTransmittedPacket, the return of service() or of enqueueTxPacket.
Init ==
  /\ cpu = [at |-> "receive", words |-> 0, then |-> "service"]
  /\ transport = EmptyTransport
  /\ pio = [pc |-> "wait_cs_low", osr |-> Filler, isr |-> ClearedIsr,
            txFifo |-> <<>>, rxFifo |-> <<>>]
  /\ host = [cs |-> "high", length |-> PacketLength, read |-> <<>>, frames |-> 0]
  /\ used = [packets |-> 0, clears |-> 0]

\* A frame is under way until the transport has taken its last word.
FramePending ==
  host.cs = "low" \/ pio.pc # "wait_cs_low" \/ pio.rxFifo # <<>>

\* The firmware has done all it will do before the next frame.
Settled ==
  /\ ~FramePending
  /\ IF transport.loaded
     THEN transport.staged \/ Len(pio.txFifo) = FifoDepth
     ELSE ~transport.irq

-----------------------------------------------------------------------------
(* service(): receive *)

TxIdle(t) == t.queue = <<>> /\ ~t.loaded /\ ~t.staged

Unloaded(t) == [t EXCEPT !.current = NoPacket, !.feedIndex = 0,
                         !.loaded = FALSE, !.staged = FALSE]

\* Mutant of LoadPacket: the youngest packet goes first.
LoadYoungest(t) ==
  IF ~t.loaded /\ t.queue # <<>>
  THEN [t EXCEPT !.queue = SubSeq(@, 1, Len(@) - 1), !.current = t.queue[Len(t.queue)],
                 !.loaded = TRUE, !.feedIndex = 0]
  ELSE t

\* The head of serviceTxFifo; the loop behind it is FeedByte.
LoadPacket(t) ==
  IF ~t.loaded /\ t.queue # <<>>
  THEN [t EXCEPT !.queue = Tail(@), !.current = Head(t.queue), !.loaded = TRUE,
                 !.feedIndex = 0]
  ELSE t

\* Mutant of CompleteRxFrame: a short frame is accepted.
CompleteRxFrameAnyLength(t) ==
  LET next == [t EXCEPT !.assembly = <<>>, !.overflow = FALSE]
  IN  IF ~t.overflow /\ ~t.rxReady
      THEN [next EXCEPT !.rxPacket = t.assembly, !.rxReady = TRUE]
      ELSE next

\* A frame of any other length is dropped, and so is one that finds the last
\* packet unread.
CompleteRxFrame(t) ==
  LET accepted == ~t.overflow /\ Len(t.assembly) = PacketLength /\ ~t.rxReady
      next     == [t EXCEPT !.assembly = <<>>, !.overflow = FALSE]
  IN  IF accepted THEN [next EXCEPT !.rxPacket = t.assembly, !.rxReady = TRUE]
      ELSE next

\* Mutant of NothingToReceive: only a full FIFO is drained.
NothingUntilFull == Len(pio.rxFifo) < FifoDepth

NothingToReceive == pio.rxFifo = <<>> \/ cpu.words = RxWordsPerService

EndReceive ==
  /\ cpu.at = "receive"
  /\ NothingToReceive
  /\ cpu' = [at |-> "feed", words |-> 0, then |-> "service"]
  /\ transport' = LoadPacket(transport)
  /\ UNCHANGED <<pio, host, used>>

ReceiveByte ==
  /\ cpu.at = "receive"
  /\ ~NothingToReceive
  /\ Head(pio.rxFifo) # FrameEndMarker
  /\ pio' = [pio EXCEPT !.rxFifo = Tail(@)]
  /\ cpu' = [cpu EXCEPT !.words = @ + 1]
  /\ transport' = IF transport.overflow THEN transport
                  ELSE IF Len(transport.assembly) < PacketLength
                  THEN [transport EXCEPT !.assembly = Append(@, Head(pio.rxFifo))]
                  ELSE [transport EXCEPT !.overflow = TRUE]
  /\ UNCHANGED <<host, used>>

TakeMarker ==
  /\ cpu.at = "receive"
  /\ ~NothingToReceive
  /\ Head(pio.rxFifo) = FrameEndMarker
  /\ pio' = [pio EXCEPT !.rxFifo = Tail(@)]

\* Mutant of ReceiveMarkerUnderrun: only the packet that failed is dropped.
ReceiveMarkerUnderrunKeepQueue ==
  /\ TakeMarker
  /\ transport.loaded /\ ~transport.staged
  /\ transport' = [Unloaded(CompleteRxFrame(transport)) EXCEPT
                     !.integrityLost = TRUE, !.irq = FALSE]
  /\ cpu' = [cpu EXCEPT !.words = @ + 1]
  /\ UNCHANGED <<host, used>>

\* retireTransmittedPacket, underrun branch.
ReceiveMarkerUnderrun ==
  /\ TakeMarker
  /\ transport.loaded /\ ~transport.staged
  /\ transport' = [Unloaded(CompleteRxFrame(transport)) EXCEPT
                     !.queue = <<>>, !.integrityLost = TRUE, !.irq = FALSE]
  /\ cpu' = [cpu EXCEPT !.words = @ + 1]
  /\ UNCHANGED <<host, used>>

\* retireTransmittedPacket otherwise, up to its serviceTxFifo loop.
ReceiveMarker ==
  /\ TakeMarker
  /\ transport.staged \/ ~transport.loaded
  /\ transport' = LoadPacket(Unloaded(CompleteRxFrame(transport)))
  /\ cpu' = [at |-> "feed", words |-> cpu.words + 1, then |-> "retire"]
  /\ UNCHANGED <<host, used>>

-----------------------------------------------------------------------------
(* serviceTxFifo: one PIO FIFO write per step *)

\* Mutant of CanFeed: the FIFO level is not asked for.
CanFeedBlindly ==
  /\ transport.loaded
  /\ ~transport.staged
  /\ transport.feedIndex < PacketLength

CanFeed ==
  /\ transport.loaded
  /\ ~transport.staged
  /\ transport.feedIndex < PacketLength
  /\ Len(pio.txFifo) < FifoDepth

FeedByte ==
  /\ cpu.at = "feed"
  /\ CanFeed
  /\ pio' = [pio EXCEPT !.txFifo =
               Append(@, BytesOf(transport.current)[transport.feedIndex + 1])]
  /\ transport' = [transport EXCEPT !.feedIndex = @ + 1]
  /\ UNCHANGED <<cpu, host, used>>

\* Mutant of StagedAfterFeed: staged as soon as anything was fed.
StagedAfterAnyByte(t) == t.loaded /\ t.feedIndex > 0

StagedAfterFeed(t) == t.loaded /\ t.feedIndex = PacketLength

EndFeed ==
  LET fed == [transport EXCEPT !.staged = StagedAfterFeed(transport)]
  IN  /\ cpu.at = "feed"
      /\ ~CanFeed
      /\ \/ /\ cpu.then = "retire"
            /\ transport' = [fed EXCEPT !.irq = ~TxIdle(fed)]
            /\ cpu' = [cpu EXCEPT !.at = "receive"]
         \/ /\ cpu.then = "service"
            /\ transport' = fed
            /\ cpu' = [cpu EXCEPT !.at = "application"]
         \/ /\ cpu.then = "enqueue"
            /\ transport' = fed
            /\ cpu' = [at |-> "receive", words |-> 0, then |-> "service"]
      /\ UNCHANGED <<pio, host, used>>

-----------------------------------------------------------------------------
(* The rest of the main loop *)

Pop ==
  /\ cpu.at = "application"
  /\ ~transport.integrityLost
  /\ transport' = [transport EXCEPT !.rxPacket = <<>>, !.rxReady = FALSE]
  /\ cpu' = [cpu EXCEPT !.at = "publish"]
  /\ UNCHANGED <<pio, host, used>>

\* Mutant of EmptiedPio: pio_sm_clear_fifos is left out.
RestartedPio(p) == [p EXCEPT !.isr = ClearedIsr]

EmptiedPio(p) ==
  [p EXCEPT !.txFifo = <<>>, !.rxFifo = <<>>, !.isr = ClearedIsr]

\* recoverPublicationIntegrity: after an underrun, or for a reason of the
\* application's own.  The state machine keeps its program counter; its ISR
\* and both FIFOs are emptied.
ClearTxQueue ==
  /\ cpu.at = "application"
  /\ \/ transport.integrityLost /\ UNCHANGED used
     \/ /\ ~transport.integrityLost
        /\ used.clears < MaxClears
        /\ used' = [used EXCEPT !.clears = @ + 1]
  /\ \/ "ClearInFrame" \in Liberties
     \/ host.cs = "high" /\ pio.pc = "wait_cs_low"
  /\ transport' = EmptyTransport
  /\ pio' = EmptiedPio(pio)
  /\ cpu' = [cpu EXCEPT !.at = "publish"]
  /\ UNCHANGED host

\* SLAVE_IRQ rises before the first byte is in the FIFO.
EnqueueTxPacket ==
  /\ cpu.at = "publish"
  /\ used.packets < MaxPackets
  /\ Len(transport.queue) < SpiTxQueueDepth
  /\ transport' = LoadPacket([transport EXCEPT
                    !.queue = Append(@, used.packets + 1), !.irq = TRUE])
  /\ used' = [used EXCEPT !.packets = @ + 1]
  /\ cpu' = [cpu EXCEPT !.at = "feed", !.then = "enqueue"]
  /\ UNCHANGED <<pio, host>>

NothingToEnqueue ==
  /\ cpu.at = "publish"
  /\ cpu' = [at |-> "receive", words |-> 0, then |-> "service"]
  /\ UNCHANGED <<transport, pio, host, used>>

CpuStep ==
  \/ EndReceive
  \/ ReceiveByte
  \/ ReceiveMarkerUnderrun
  \/ ReceiveMarker
  \/ FeedByte
  \/ EndFeed
  \/ Pop
  \/ ClearTxQueue
  \/ EnqueueTxPacket
  \/ NothingToEnqueue

-----------------------------------------------------------------------------
(* SpiSlaveM0.pio *)

PioWaitCsLow ==
  /\ pio.pc = "wait_cs_low"
  /\ host.cs = "low"
  /\ pio' = [pio EXCEPT !.pc = "byte_loop"]
  /\ UNCHANGED <<cpu, transport, host, used>>

\* pull noblock.
PioByteLoop ==
  /\ pio.pc = "byte_loop"
  /\ \/ "FastClock" \in Liberties
     \/ pio.txFifo # <<>>
     \/ ~transport.loaded
     \/ transport.feedIndex = PacketLength
  /\ pio' = IF pio.txFifo = <<>>
            THEN [pio EXCEPT !.pc = "bit_loop", !.osr = Filler]
            ELSE [pio EXCEPT !.pc = "bit_loop", !.osr = Head(pio.txFifo),
                             !.txFifo = Tail(@)]
  /\ UNCHANGED <<cpu, transport, host, used>>

\* push block, then jmp pin: the only place where CS is looked at.
PioPush ==
  /\ pio.pc = "push"
  /\ Len(pio.rxFifo) < FifoDepth
  /\ \/ "LateRelease" \in Liberties
     \/ host.cs = "high"
     \/ Len(host.read) < host.length
  /\ pio' = IF host.cs = "high"
            THEN [pio EXCEPT !.rxFifo = Append(@, pio.isr), !.pc = "frame_end",
                             !.isr = FrameEndMarker]
            ELSE [pio EXCEPT !.rxFifo = Append(@, pio.isr), !.pc = "byte_loop"]
  /\ UNCHANGED <<cpu, transport, host, used>>

PioFrameEnd ==
  /\ pio.pc = "frame_end"
  /\ Len(pio.rxFifo) < FifoDepth
  /\ pio' = [pio EXCEPT !.rxFifo = Append(@, pio.isr), !.pc = "wait_cs_low"]
  /\ UNCHANGED <<cpu, transport, host, used>>

PioStep == PioWaitCsLow \/ PioByteLoop \/ PioPush \/ PioFrameEnd

-----------------------------------------------------------------------------
(* The SPI host *)

HostSelect ==
  /\ host.cs = "high"
  /\ host.frames < MaxFrames
  /\ transport.irq \/ "IdleFrame" \in Liberties
  /\ Settled \/ "EarlyFrame" \in Liberties
  /\ \E length \in FrameLengths :
       host' = [cs |-> "low", length |-> length, read |-> <<>>,
                frames |-> host.frames + 1]
  /\ UNCHANGED <<cpu, transport, pio, used>>

\* Eight clocks: bit_loop shifts one byte out and one in.
HostClock ==
  /\ host.cs = "low"
  /\ Len(host.read) < host.length
  /\ pio.pc = "bit_loop"
  /\ host' = [host EXCEPT !.read = Append(@, pio.osr)]
  /\ pio' = [pio EXCEPT !.isr = <<host.frames, Len(host.read) + 1>>,
                        !.pc = "push"]
  /\ UNCHANGED <<cpu, transport, used>>

HostRelease ==
  /\ host.cs = "low"
  /\ Len(host.read) = host.length
  /\ host' = [host EXCEPT !.cs = "high"]
  /\ UNCHANGED <<cpu, transport, pio, used>>

HostStep == HostSelect \/ HostClock \/ HostRelease

Next == CpuStep \/ PioStep \/ HostStep

Spec == Init /\ [][Next]_vars

\* loop() runs for ever, the PIO is clocked, and the host finishes the frame
\* it has begun.
Fairness ==
  WF_vars(CpuStep) /\ WF_vars(PioStep) /\ WF_vars(HostClock \/ HostRelease)

FairSpec == Spec /\ Fairness

-----------------------------------------------------------------------------
(* Properties *)

\* Every variable has its type, both queues and both FIFOs stay inside their
\* storage.
TypeOK ==
  /\ cpu \in [at    : {"receive", "feed", "application", "publish"},
              words : 0 .. RxWordsPerService,
              then  : {"service", "retire", "enqueue"}]
  /\ transport \in
       [queue : Seq(1 .. MaxPackets), current : 0 .. MaxPackets,
        feedIndex : 0 .. PacketLength, loaded : BOOLEAN, staged : BOOLEAN,
        assembly : Seq(Nat \X Nat), overflow : BOOLEAN,
        rxPacket : Seq(Nat \X Nat), rxReady : BOOLEAN,
        integrityLost : BOOLEAN, irq : BOOLEAN]
  /\ Len(transport.queue) <= SpiTxQueueDepth
  /\ Len(transport.assembly) <= PacketLength
  /\ pio \in [pc : {"wait_cs_low", "byte_loop", "bit_loop", "push", "frame_end"},
              osr : Nat \X Nat, isr : Nat \X Nat,
              txFifo : Seq(Nat \X Nat), rxFifo : Seq(Nat \X Nat)]
  /\ Len(pio.txFifo) <= FifoDepth
  /\ Len(pio.rxFifo) <= FifoDepth
  /\ host \in [cs : {"high", "low"}, length : Nat, read : Seq(Nat \X Nat),
               frames : 0 .. MaxFrames]
  /\ used \in [packets : 0 .. MaxPackets, clears : 0 .. MaxClears]

\* What the PIO has taken from the TX FIFO during the pending frame.
Taken ==
  IF ~FramePending THEN <<>>
  ELSE IF pio.pc = "bit_loop" THEN Append(host.read, pio.osr)
  ELSE host.read

\* Between C++, FIFO, shift register and host no byte of the loaded packet is
\* lost, repeated or moved: what the frame took, what the FIFO holds and what
\* is still to be fed are together its eight bytes, in order; and with nothing
\* loaded the FIFO holds no leftover that would shift every later packet.
PacketAligned ==
  ~transport.integrityLost =>
    IF transport.loaded
    THEN LET unfed == SubSeq(BytesOf(transport.current),
                             transport.feedIndex + 1, PacketLength)
             whole == Taken \o pio.txFifo \o unfed
         IN  /\ SubSeq(whole, 1, PacketLength) = BytesOf(transport.current)
             /\ Len(whole) > PacketLength => pio.txFifo \o unfed = <<>>
    ELSE pio.txFifo = <<>>

\* A packet is retired as sent only when the host has read exactly its bytes
\* in one frame (MASTER_INTEGRATION.md: the line stays asserted "until a staged
\* packet has completed a CS frame").
RetiredWasDelivered ==
  [][ReceiveMarker /\ transport.staged =>
       /\ Len(host.read) >= PacketLength
       /\ SubSeq(host.read, 1, PacketLength) = BytesOf(transport.current)]_vars

\* A received packet is one whole frame of exactly eight bytes, never a mix of
\* two, whatever lengths and clears came before it.
RxPacketIsOneFrame ==
  transport.rxReady =>
    \E number \in 1 .. host.frames : transport.rxPacket = BytesOf(number)

\* SLAVE_IRQ never drops with a response outstanding, except for a recovery
\* (ADR-0003), and between frames a low line means an empty transmitter.
IrqLowMeansNothingPending ==
  ~transport.irq => TxIdle(transport)

\* Every frame end reaches the transport: the marker is pushed and taken with
\* all the words before it (SpiSlaveM0.pio: "This lets C++ assemble frames
\* without polling CS quickly enough to see every edge").
FrameEndSeen == FramePending ~> ~FramePending

\* The transport as FrameDelivery.tla sees it.  A packet is staged there when
\* the host has read it; setIrq, which retireTransmittedPacket calls behind its
\* serviceTxFifo, belongs to the marker.
FrameEnded == FramePending /\ host.cs = "high"

PacketWasRead == Len(host.read) >= PacketLength

NoCommand == 0

FrameTransport ==
  [queue         |-> transport.queue,
   current       |-> transport.current,
   loaded        |-> transport.loaded,
   staged        |-> FrameEnded /\ PacketWasRead,
   rxPacket      |-> IF transport.rxReady THEN transport.rxPacket[1][1] ELSE NoCommand,
   rxReady       |-> transport.rxReady,
   integrityLost |-> transport.integrityLost,
   irq           |-> IF cpu.at = "feed" /\ cpu.then = "retire"
                     THEN ~TxIdle(transport) ELSE transport.irq]

\* The frame and, once it has ended, the command it carried.
WireFrame ==
  [phase   |-> IF host.cs = "low" THEN "open" ELSE IF FramePending THEN "ended" ELSE "none",
   command |-> IF FrameEnded /\ host.length = PacketLength THEN host.frames ELSE NoCommand]

\* The packet with these bytes; NoPacket if the host has read some mixture.
PacketOf(bytes) ==
  IF \E packet \in 1 .. MaxPackets : bytes = BytesOf(packet)
  THEN CHOOSE packet \in 1 .. MaxPackets : bytes = BytesOf(packet)
  ELSE NoPacket

\* The packet the host has read when CS is high again.
HostRead ==
  IF host.cs = "high" /\ PacketWasRead
  THEN PacketOf(SubSeq(host.read, 1, PacketLength))
  ELSE NoPacket

Frames == INSTANCE FrameDelivery WITH
  Packets <- 1 .. MaxPackets, EmptyPacket <- NoPacket, Commands <- 1 .. MaxFrames,
  transport <- FrameTransport, frame <- WireFrame, read <- HostRead

\* FIFO levels, partial feeding, markers and the order of the calls inside
\* service() add up to whole frames: packets are read in the order enqueued, each
\* by one frame and once, or are dropped together, and nothing but a frame, a
\* pop or a recovery changes the command received.  McmApplication.tla builds on
\* exactly these steps (TransportSPI.cpp, service to setIrq).
ImplementsFrames == Frames!Spec
=============================================================================
