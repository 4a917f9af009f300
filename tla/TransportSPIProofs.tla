-------------------------- MODULE TransportSPIProofs --------------------------
(***************************************************************************)
(* TransportSPI, for every packet length, FIFO and queue depth.            *)
(*                                                                         *)
(* With every liberty taken with the timing, nothing is written outside    *)
(* its storage, and the level of SLAVE_IRQ never hides a packet.  The two  *)
(* need each other: a packet is loaded, and the index that feeds it        *)
(* bounded, only as far as the transmitter's fields belong together.       *)
(*                                                                         *)
(* With frames kept apart, what is received is one whole frame: at every   *)
(* step the assembly buffer and the RX FIFO hold, one behind the other,    *)
(* the bytes the host has clocked so far and then the frame's end.         *)
(* With the rest of the timing, what the host has read and what the TX     *)
(* FIFO holds are, one behind the other, what was fed of the packet.       *)
(*                                                                         *)
(* Then the transport implements FrameDelivery.tla.  The proof shows of    *)
(* each operator of the code what the one of TransportFrames.tla does to   *)
(* the mapped record, of each step of PIO and feeding that the mapping     *)
(* does not see it, and puts both together action by action.               *)
(***************************************************************************)
EXTENDS TransportSPI, SequenceTheorems, TLAPS

Words == Nat \X Nat

TransportRecords ==
  [queue : Seq(1 .. MaxPackets), current : 0 .. MaxPackets,
   feedIndex : 0 .. PacketLength, loaded : BOOLEAN, staged : BOOLEAN,
   assembly : Seq(Words), overflow : BOOLEAN,
   rxPacket : Seq(Words), rxReady : BOOLEAN,
   integrityLost : BOOLEAN, irq : BOOLEAN]

\* The transport's part of the invariant; setIrq runs only at the ends of
\* enqueueTxPacket and retireTransmittedPacket, and the line holds in between.
TransportOK(t) ==
  /\ t \in TransportRecords
  /\ Len(t.queue) <= SpiTxQueueDepth
  /\ Len(t.assembly) <= PacketLength
  /\ ~t.irq => TxIdle(t)

\* The constants are numbers, and the three special words are words.
LEMMA Geometry ==
  /\ PacketLength \in Nat /\ PacketLength > 0
  /\ FifoDepth \in Nat /\ SpiTxQueueDepth \in Nat /\ RxWordsPerService \in Nat
  /\ FrameLengths \subseteq Nat
  /\ MaxPackets \in Nat /\ MaxFrames \in Nat /\ MaxClears \in Nat
  /\ Filler \in Words /\ FrameEndMarker \in Words /\ ClearedIsr \in Words
BY GeometryAssumption, BoundAssumption DEF Filler, FrameEndMarker, ClearedIsr, Words

\* A FIFO or a queue gains an element at its end.
LEMMA Appended ==
  ASSUME NEW S, NEW s \in Seq(S), NEW e \in S
  PROVE  Append(s, e) \in Seq(S) /\ Len(Append(s, e)) = Len(s) + 1
BY AppendProperties

\* One that is not empty loses its first element.
LEMMA Removed ==
  ASSUME NEW S, NEW s \in Seq(S), s # <<>>
  PROVE  Head(s) \in S /\ Tail(s) \in Seq(S) /\ Len(Tail(s)) = Len(s) - 1
BY HeadTailProperties

\* What pio_sm_clear_fifos and RxFrameState::reset leave.
LEMMA EmptyIsSequence == ASSUME NEW S PROVE <<>> \in Seq(S) /\ Len(<<>>) = 0
BY EmptySeq

\* begin() and clearTxQueue leave a transport in order.
LEMMA EmptyTransportOK == TransportOK(EmptyTransport)
<1>1. <<>> \in Seq(1 .. MaxPackets) /\ <<>> \in Seq(Words) /\ Len(<<>>) = 0
  BY EmptyIsSequence
<1>2. 0 \in 0 .. MaxPackets /\ 0 \in 0 .. PacketLength
  BY Geometry
<1> QED
  BY <1>1, <1>2, Geometry
  DEF EmptyTransport, TransportOK, TransportRecords, TxIdle, NoPacket

\* Loading a packet takes one from the queue and needs the line high already.
LEMMA LoadPacketOK ==
  ASSUME NEW t, TransportOK(t)
  PROVE  TransportOK(LoadPacket(t))
<1>1. CASE ~t.loaded /\ t.queue # <<>>
  <2>1. Head(t.queue) \in 1 .. MaxPackets /\ Tail(t.queue) \in Seq(1 .. MaxPackets)
        /\ Len(Tail(t.queue)) = Len(t.queue) - 1
    BY <1>1, Removed DEF TransportOK, TransportRecords
  <2>2. Len(t.queue) \in Nat
    BY LenProperties DEF TransportOK, TransportRecords
  <2>3. t.irq
    BY <1>1 DEF TransportOK, TxIdle
  <2> DEFINE q == Tail(t.queue)
             h == Head(t.queue)
             u == LoadPacket(t)
  <2>4. u = [t EXCEPT !.queue = q, !.current = h, !.loaded = TRUE, !.feedIndex = 0]
    BY <1>1 DEF LoadPacket
  <2>5. h \in 0 .. MaxPackets /\ 0 \in 0 .. PacketLength /\ t \in TransportRecords
    BY <2>1, Geometry DEF TransportOK
  <2>6. q \in Seq(1 .. MaxPackets) /\ Len(q) = Len(t.queue) - 1
    BY <2>1
  <2> HIDE DEF q, h, u
  <2>7. u \in TransportRecords /\ u.queue = q /\ u.assembly = t.assembly
        /\ u.irq = t.irq
    BY <2>4, <2>5, <2>6 DEF TransportRecords
  <2>8. TransportOK(u)
    BY <2>2, <2>3, <2>6, <2>7, Geometry DEF TransportOK
  <2> QED
    BY <2>8 DEF u
<1>2. CASE ~(~t.loaded /\ t.queue # <<>>)
  BY <1>2 DEF LoadPacket
<1> QED
  BY <1>1, <1>2

\* Dropping the packet leaves the transport in order.
LEMMA UnloadedOK ==
  ASSUME NEW t, TransportOK(t)
  PROVE  TransportOK(Unloaded(t))
<1>1. 0 \in 0 .. MaxPackets /\ 0 \in 0 .. PacketLength
  BY Geometry
<1> QED
  BY <1>1 DEF Unloaded, TransportOK, TransportRecords, TxIdle, NoPacket

\* completeRxFrame touches the receive side only.
LEMMA CompleteRxFrameOK ==
  ASSUME NEW t, TransportOK(t)
  PROVE  TransportOK(CompleteRxFrame(t))
<1>1. <<>> \in Seq(Words) /\ Len(<<>>) = 0
  BY EmptyIsSequence
<1>2. t \in TransportRecords
  BY DEF TransportOK
<1> DEFINE next == [t EXCEPT !.assembly = <<>>, !.overflow = FALSE]
<1>3. /\ next \in TransportRecords
      /\ next.assembly = <<>> /\ next.queue = t.queue /\ next.irq = t.irq
      /\ next.loaded = t.loaded /\ next.staged = t.staged
  BY <1>1, <1>2 DEF TransportRecords
<1> HIDE DEF next
<1>4. TransportOK(next)
  BY <1>1, <1>3, Geometry DEF TransportOK, TxIdle
<1>5. TransportOK([next EXCEPT !.rxPacket = t.assembly, !.rxReady = TRUE])
  <2> DEFINE last == [next EXCEPT !.rxPacket = t.assembly, !.rxReady = TRUE]
  <2>1. /\ last \in TransportRecords
        /\ last.assembly = <<>> /\ last.queue = t.queue /\ last.irq = t.irq
        /\ last.loaded = t.loaded /\ last.staged = t.staged
    BY <1>2, <1>3 DEF TransportRecords
  <2> HIDE DEF last
  <2>2. TransportOK(last)
    BY <1>1, <2>1, Geometry DEF TransportOK, TxIdle
  <2> QED
    BY <2>2 DEF last
<1> QED
  BY <1>4, <1>5 DEF next, CompleteRxFrame

-----------------------------------------------------------------------------
(* The steps *)

CpuRecords ==
  [at    : {"receive", "feed", "application", "publish"},
   words : 0 .. RxWordsPerService,
   then  : {"service", "retire", "enqueue"}]

PioRecords ==
  [pc : {"wait_cs_low", "byte_loop", "bit_loop", "push", "frame_end"},
   osr : Words, isr : Words, txFifo : Seq(Words), rxFifo : Seq(Words)]

PioOK(p) ==
  /\ p \in PioRecords
  /\ Len(p.txFifo) <= FifoDepth
  /\ Len(p.rxFifo) <= FifoDepth

HostRecords ==
  [cs : {"high", "low"}, length : Nat, read : Seq(Words), frames : 0 .. MaxFrames]

UsedRecords == [packets : 0 .. MaxPackets, clears : 0 .. MaxClears]

TransportInvariant ==
  /\ cpu \in CpuRecords
  /\ TransportOK(transport)
  /\ PioOK(pio)
  /\ host \in HostRecords
  /\ used \in UsedRecords

\* A FIFO replaced by a sequence that fits leaves the PIO well formed.
LEMMA FifosReplaced ==
  ASSUME NEW p, PioOK(p), NEW fifo \in Seq(Words), Len(fifo) <= FifoDepth
  PROVE  PioOK([p EXCEPT !.rxFifo = fifo]) /\ PioOK([p EXCEPT !.txFifo = fifo])
<1>1. p \in PioRecords /\ Len(p.txFifo) <= FifoDepth /\ Len(p.rxFifo) <= FifoDepth
  BY DEF PioOK
<1> DEFINE r == [p EXCEPT !.rxFifo = fifo]
           t == [p EXCEPT !.txFifo = fifo]
<1>2. r \in PioRecords /\ r.rxFifo = fifo /\ r.txFifo = p.txFifo
  BY <1>1 DEF PioRecords
<1>3. t \in PioRecords /\ t.txFifo = fifo /\ t.rxFifo = p.rxFifo
  BY <1>1 DEF PioRecords
<1> HIDE DEF r, t
<1>4. PioOK(r) /\ PioOK(t)
  BY <1>1, <1>2, <1>3 DEF PioOK
<1> QED
  BY <1>4 DEF r, t

\* A word taken from the RX FIFO.
LEMMA PioRxTaken ==
  ASSUME NEW p, PioOK(p), p.rxFifo # <<>>
  PROVE  /\ PioOK([p EXCEPT !.rxFifo = Tail(@)])
         /\ Head(p.rxFifo) \in Words
<1> DEFINE rest == Tail(p.rxFifo)
<1>1. /\ Head(p.rxFifo) \in Words /\ rest \in Seq(Words)
      /\ Len(rest) = Len(p.rxFifo) - 1 /\ Len(p.rxFifo) \in Nat
  BY Removed, LenProperties DEF PioOK, PioRecords
<1> HIDE DEF rest
<1>2. Len(rest) <= FifoDepth
  BY <1>1, Geometry DEF PioOK
<1>3. PioOK([p EXCEPT !.rxFifo = rest])
  BY <1>1, <1>2, FifosReplaced
<1> QED
  BY <1>1, <1>3 DEF rest

\* A word pushed into it, which "push block" does only where there is room.
LEMMA PioRxGiven ==
  ASSUME NEW p, PioOK(p), Len(p.rxFifo) < FifoDepth
  PROVE  PioOK([p EXCEPT !.rxFifo = Append(@, p.isr)])
<1> DEFINE more == Append(p.rxFifo, p.isr)
<1>1. more \in Seq(Words) /\ Len(more) = Len(p.rxFifo) + 1 /\ Len(p.rxFifo) \in Nat
  BY Appended, LenProperties DEF PioOK, PioRecords
<1> HIDE DEF more
<1>2. Len(more) <= FifoDepth
  BY <1>1, Geometry DEF PioOK
<1>3. PioOK([p EXCEPT !.rxFifo = more])
  BY <1>1, <1>2, FifosReplaced
<1> QED
  BY <1>3 DEF more

\* Every byte fed is a byte of the packet.
LEMMA PacketByte ==
  ASSUME NEW number \in Nat, NEW index \in 0 .. PacketLength, index < PacketLength
  PROVE  BytesOf(number)[index + 1] \in Words
<1>1. index + 1 \in 1 .. PacketLength /\ index + 1 \in Nat
  BY Geometry
<1> QED
  BY <1>1 DEF BytesOf, Words

\* Power-up.
LEMMA TransportInit == Init => TransportInvariant
<1> SUFFICES ASSUME Init PROVE TransportInvariant
  OBVIOUS
<1>1. <<>> \in Seq(Words) /\ Len(<<>>) = 0
  BY EmptyIsSequence
<1>2. TransportOK(transport)
  BY EmptyTransportOK DEF Init
<1>3. PioOK(pio)
  BY <1>1, Geometry DEF Init, PioOK, PioRecords
<1>4. cpu \in CpuRecords /\ host \in HostRecords /\ used \in UsedRecords
  BY <1>1, Geometry DEF Init, CpuRecords, HostRecords, UsedRecords
<1> QED
  BY <1>2, <1>3, <1>4 DEF TransportInvariant

\* serviceRxFifo, with completeRxFrame and retireTransmittedPacket.
LEMMA ReceiveKeeps ==
  ASSUME TransportInvariant,
         EndReceive \/ ReceiveByte \/ ReceiveMarkerUnderrun \/ ReceiveMarker
  PROVE  TransportInvariant'
<1> USE DEF TransportInvariant
<1>1. CASE EndReceive
  <2>1. TransportOK(transport')
    BY <1>1, LoadPacketOK DEF EndReceive
  <2>2. cpu' \in CpuRecords
    BY <1>1, Geometry DEF EndReceive, CpuRecords
  <2> QED
    BY <1>1, <2>1, <2>2 DEF EndReceive
<1>2. cpu.words # RxWordsPerService => cpu.words + 1 \in 0 .. RxWordsPerService
  BY Geometry DEF CpuRecords
<1>3. CASE ReceiveByte
  <2>1. pio.rxFifo # <<>> /\ cpu.words # RxWordsPerService
    BY <1>3 DEF ReceiveByte, NothingToReceive
  <2>2. PioOK(pio') /\ Head(pio.rxFifo) \in Words
    BY <1>3, <2>1, PioRxTaken DEF ReceiveByte
  <2>3. cpu' \in CpuRecords
    BY <1>2, <1>3, <2>1 DEF ReceiveByte, CpuRecords
  <2>4. TransportOK(transport')
    <3>1. CASE ~transport.overflow /\ Len(transport.assembly) < PacketLength
      <4> DEFINE more == Append(transport.assembly, Head(pio.rxFifo))
      <4>1. more \in Seq(Words) /\ Len(more) = Len(transport.assembly) + 1
            /\ Len(transport.assembly) \in Nat
        BY <2>2, Appended, LenProperties DEF TransportOK, TransportRecords
      <4>2. transport' = [transport EXCEPT !.assembly = more]
        BY <1>3, <3>1 DEF ReceiveByte
      <4> HIDE DEF more
      <4>3. /\ transport' \in TransportRecords
            /\ transport'.assembly = more /\ transport'.queue = transport.queue
            /\ transport'.irq = transport.irq /\ transport'.loaded = transport.loaded
            /\ transport'.staged = transport.staged
        BY <4>1, <4>2 DEF TransportOK, TransportRecords
      <4> QED
        BY <3>1, <4>1, <4>3, Geometry DEF TransportOK, TxIdle
    <3>2. CASE ~transport.overflow /\ ~(Len(transport.assembly) < PacketLength)
      BY <1>3, <3>2 DEF ReceiveByte, TransportOK, TransportRecords, TxIdle
    <3>3. CASE transport.overflow
      BY <1>3, <3>3 DEF ReceiveByte
    <3> QED
      BY <3>1, <3>2, <3>3
  <2> QED
    BY <1>3, <2>2, <2>3, <2>4 DEF ReceiveByte
<1>4. ASSUME TakeMarker
      PROVE  PioOK(pio') /\ cpu.words + 1 \in 0 .. RxWordsPerService
  <2>1. pio.rxFifo # <<>> /\ cpu.words # RxWordsPerService
    BY <1>4 DEF TakeMarker, NothingToReceive
  <2> QED
    BY <1>2, <1>4, <2>1, PioRxTaken DEF TakeMarker
<1>5. TransportOK(Unloaded(CompleteRxFrame(transport)))
  BY CompleteRxFrameOK, UnloadedOK
<1>6. CASE ReceiveMarkerUnderrun
  <2> DEFINE t == Unloaded(CompleteRxFrame(transport))
  <2>1. ~t.loaded /\ ~t.staged
    <3>1. CompleteRxFrame(transport) \in TransportRecords
      BY CompleteRxFrameOK DEF TransportOK
    <3> QED
      BY <3>1 DEF Unloaded, TransportRecords
  <2>2. <<>> \in Seq(1 .. MaxPackets) /\ Len(<<>>) = 0
    BY EmptyIsSequence
  <2>3. transport' = [t EXCEPT !.queue = <<>>, !.integrityLost = TRUE, !.irq = FALSE]
    BY <1>6 DEF ReceiveMarkerUnderrun
  <2>4. TransportOK(t)
    BY <1>5
  <2> HIDE DEF t
  <2>5. /\ transport' \in TransportRecords
        /\ transport'.assembly = t.assembly /\ transport'.queue = <<>>
        /\ transport'.loaded = t.loaded /\ transport'.staged = t.staged
    BY <2>2, <2>3, <2>4 DEF TransportOK, TransportRecords
  <2>6. TransportOK(transport')
    BY <2>1, <2>2, <2>4, <2>5, Geometry DEF TransportOK, TxIdle
  <2>7. TakeMarker /\ cpu' = [cpu EXCEPT !.words = @ + 1] /\ UNCHANGED <<host, used>>
    BY <1>6 DEF ReceiveMarkerUnderrun
  <2>8. PioOK(pio') /\ cpu' \in CpuRecords
    BY <1>4, <2>7 DEF CpuRecords
  <2> QED
    BY <2>6, <2>7, <2>8
<1>7. CASE ReceiveMarker
  <2>1. TransportOK(transport')
    BY <1>5, <1>7, LoadPacketOK DEF ReceiveMarker
  <2>2. /\ TakeMarker
        /\ cpu' = [at |-> "feed", words |-> cpu.words + 1, then |-> "retire"]
        /\ UNCHANGED <<host, used>>
    BY <1>7 DEF ReceiveMarker
  <2>3. PioOK(pio') /\ cpu' \in CpuRecords
    BY <1>4, <2>2 DEF CpuRecords
  <2> QED
    BY <2>1, <2>2, <2>3
<1> QED
  BY <1>1, <1>3, <1>6, <1>7

\* serviceTxFifo writes where there is room and what the packet has.
LEMMA FeedKeeps ==
  ASSUME TransportInvariant, FeedByte \/ EndFeed
  PROVE  TransportInvariant'
<1> USE DEF TransportInvariant
<1>1. CASE FeedByte
  <2> DEFINE byte == BytesOf(transport.current)[transport.feedIndex + 1]
             more == Append(pio.txFifo, byte)
  <2>1. /\ transport.current \in Nat
        /\ transport.feedIndex \in 0 .. PacketLength
        /\ transport.feedIndex < PacketLength
        /\ Len(pio.txFifo) < FifoDepth
    BY <1>1 DEF FeedByte, CanFeed, TransportOK, TransportRecords
  <2>2. byte \in Words /\ transport.feedIndex + 1 \in 0 .. PacketLength
    BY <2>1, PacketByte, Geometry
  <2> HIDE DEF byte
  <2>3. more \in Seq(Words) /\ Len(more) = Len(pio.txFifo) + 1 /\ Len(pio.txFifo) \in Nat
    BY <2>2, Appended, LenProperties DEF PioOK, PioRecords
  <2>4. pio' = [pio EXCEPT !.txFifo = more]
    BY <1>1 DEF FeedByte, byte
  <2> HIDE DEF more
  <2>5. Len(more) <= FifoDepth
    BY <2>1, <2>3, Geometry
  <2>6. PioOK(pio')
    BY <2>3, <2>4, <2>5, FifosReplaced
  <2>7. TransportOK(transport')
    BY <1>1, <2>2 DEF FeedByte, TransportOK, TransportRecords, TxIdle
  <2> QED
    BY <1>1, <2>6, <2>7 DEF FeedByte
<1>2. CASE EndFeed
  <2> DEFINE fed == [transport EXCEPT !.staged = StagedAfterFeed(transport)]
  <2>1. /\ fed \in TransportRecords
        /\ fed.queue = transport.queue /\ fed.assembly = transport.assembly
        /\ fed.irq = transport.irq /\ fed.loaded = transport.loaded
        /\ fed.staged => transport.loaded
    BY DEF StagedAfterFeed, TransportOK, TransportRecords
  <2>2. \/ transport' = fed
        \/ transport' = [fed EXCEPT !.irq = ~TxIdle(fed)]
    BY <1>2 DEF EndFeed
  <2> HIDE DEF fed
  <2>3. TransportOK(fed)
    BY <2>1 DEF TransportOK, TxIdle, TransportRecords
  <2>4. TransportOK([fed EXCEPT !.irq = ~TxIdle(fed)])
    BY <2>3 DEF TransportOK, TxIdle, TransportRecords
  <2>5. cpu' \in CpuRecords
    BY <1>2, Geometry DEF EndFeed, CpuRecords
  <2> QED
    BY <1>2, <2>2, <2>3, <2>4, <2>5 DEF EndFeed
<1> QED
  BY <1>1, <1>2

\* What the main loop asks of the transport.
LEMMA ApplicationKeeps ==
  ASSUME TransportInvariant, Pop \/ ClearTxQueue \/ EnqueueTxPacket \/ NothingToEnqueue
  PROVE  TransportInvariant'
<1> USE DEF TransportInvariant
<1>1. CASE Pop
  <2>1. <<>> \in Seq(Words)
    BY EmptyIsSequence
  <2>2. TransportOK(transport')
    BY <1>1, <2>1 DEF Pop, TransportOK, TransportRecords, TxIdle
  <2>3. cpu' \in CpuRecords
    BY <1>1 DEF Pop, CpuRecords
  <2> QED
    BY <1>1, <2>2, <2>3 DEF Pop
<1>2. CASE ClearTxQueue
  <2>1. <<>> \in Seq(Words) /\ Len(<<>>) = 0
    BY EmptyIsSequence
  <2>2. TransportOK(transport')
    BY <1>2, EmptyTransportOK DEF ClearTxQueue
  <2>3. pio' = EmptiedPio(pio)
    BY <1>2 DEF ClearTxQueue
  <2>4. /\ pio' \in PioRecords
        /\ pio'.txFifo = <<>> /\ pio'.rxFifo = <<>>
    BY <2>1, <2>3, Geometry DEF EmptiedPio, PioOK, PioRecords
  <2>5. PioOK(pio')
    BY <2>1, <2>4, Geometry DEF PioOK
  <2>6. cpu' \in CpuRecords /\ used' \in UsedRecords
    BY <1>2, Geometry DEF ClearTxQueue, CpuRecords, UsedRecords
  <2> QED
    BY <1>2, <2>2, <2>5, <2>6 DEF ClearTxQueue
<1>3. CASE EnqueueTxPacket
  <2> DEFINE more == Append(transport.queue, used.packets + 1)
             t    == [transport EXCEPT !.queue = more, !.irq = TRUE]
  <2>1. used.packets + 1 \in 1 .. MaxPackets /\ Len(transport.queue) < SpiTxQueueDepth
    BY <1>3, Geometry DEF EnqueueTxPacket, UsedRecords
  <2>2. more \in Seq(1 .. MaxPackets) /\ Len(more) = Len(transport.queue) + 1
        /\ Len(transport.queue) \in Nat
    BY <2>1, Appended, LenProperties DEF TransportOK, TransportRecords
  <2>3. transport' = LoadPacket(t)
    BY <1>3 DEF EnqueueTxPacket
  <2> HIDE DEF more
  <2>4. t \in TransportRecords /\ t.queue = more /\ t.assembly = transport.assembly /\ t.irq
    BY <2>2 DEF TransportOK, TransportRecords
  <2> HIDE DEF t
  <2>5. TransportOK(t)
    BY <2>1, <2>2, <2>4, Geometry DEF TransportOK
  <2>6. TransportOK(transport')
    BY <2>3, <2>5, LoadPacketOK
  <2>7. used' = [used EXCEPT !.packets = used.packets + 1]
        /\ cpu' = [cpu EXCEPT !.at = "feed", !.then = "enqueue"]
    BY <1>3 DEF EnqueueTxPacket
  <2>8. used.packets + 1 \in 0 .. MaxPackets
    BY <2>1, Geometry
  <2>9. cpu' \in CpuRecords /\ used' \in UsedRecords
    BY <2>7, <2>8 DEF CpuRecords, UsedRecords
  <2> QED
    BY <1>3, <2>6, <2>9 DEF EnqueueTxPacket
<1>4. CASE NothingToEnqueue
  BY <1>4, Geometry DEF NothingToEnqueue, CpuRecords
<1> QED
  BY <1>1, <1>2, <1>3, <1>4

\* The PIO program.
LEMMA PioKeeps ==
  ASSUME TransportInvariant, PioStep
  PROVE  TransportInvariant'
<1> USE DEF TransportInvariant
<1>1. CASE PioWaitCsLow
  BY <1>1 DEF PioWaitCsLow, PioOK, PioRecords
<1>2. CASE PioByteLoop
  <2>1. PioOK(pio')
    <3>1. CASE pio.txFifo = <<>>
      BY <1>2, <3>1, Geometry DEF PioByteLoop, PioOK, PioRecords
    <3>2. CASE pio.txFifo # <<>>
      <4> DEFINE byte == Head(pio.txFifo)
                 rest == Tail(pio.txFifo)
      <4>1. byte \in Words /\ rest \in Seq(Words)
            /\ Len(rest) = Len(pio.txFifo) - 1 /\ Len(pio.txFifo) \in Nat
        BY <3>2, Removed, LenProperties DEF PioOK, PioRecords
      <4>2. pio' = [pio EXCEPT !.pc = "bit_loop", !.osr = byte, !.txFifo = rest]
        BY <1>2, <3>2 DEF PioByteLoop
      <4> HIDE DEF byte, rest
      <4>3. /\ pio' \in PioRecords
            /\ pio'.txFifo = rest /\ pio'.rxFifo = pio.rxFifo
        BY <4>1, <4>2 DEF PioOK, PioRecords
      <4> QED
        BY <4>1, <4>3, Geometry DEF PioOK
    <3> QED
      BY <3>1, <3>2
  <2> QED
    BY <1>2, <2>1 DEF PioByteLoop
<1>3. CASE PioPush
  <2> DEFINE p == [pio EXCEPT !.rxFifo = Append(@, pio.isr)]
  <2>1. PioOK(p)
    BY <1>3, PioRxGiven DEF PioPush
  <2>2. \/ pio' = [p EXCEPT !.pc = "frame_end", !.isr = FrameEndMarker]
        \/ pio' = [p EXCEPT !.pc = "byte_loop"]
    BY <1>3 DEF PioPush, PioOK, PioRecords
  <2> HIDE DEF p
  <2>3. PioOK(pio')
    BY <2>1, <2>2, Geometry DEF PioOK, PioRecords
  <2> QED
    BY <1>3, <2>3 DEF PioPush
<1>4. CASE PioFrameEnd
  <2> DEFINE p == [pio EXCEPT !.rxFifo = Append(@, pio.isr)]
  <2>1. PioOK(p)
    BY <1>4, PioRxGiven DEF PioFrameEnd
  <2>2. pio' = [p EXCEPT !.pc = "wait_cs_low"]
    BY <1>4 DEF PioFrameEnd, PioOK, PioRecords
  <2> HIDE DEF p
  <2>3. PioOK(pio')
    BY <2>1, <2>2 DEF PioOK, PioRecords
  <2> QED
    BY <1>4, <2>3 DEF PioFrameEnd
<1> QED
  BY <1>1, <1>2, <1>3, <1>4 DEF PioStep

\* The host, with frames of every length.
LEMMA HostKeeps ==
  ASSUME TransportInvariant, HostStep
  PROVE  TransportInvariant'
<1> USE DEF TransportInvariant
<1>1. CASE HostSelect
  <2>1. <<>> \in Seq(Words)
    BY EmptyIsSequence
  <2>2. host' \in HostRecords
    BY <1>1, <2>1, Geometry DEF HostSelect, HostRecords
  <2> QED
    BY <1>1, <2>2 DEF HostSelect
<1>2. CASE HostClock
  <2> DEFINE more == Append(host.read, pio.osr)
             word == <<host.frames, Len(host.read) + 1>>
  <2>1. more \in Seq(Words) /\ Len(host.read) \in Nat
    BY Appended, LenProperties DEF PioOK, PioRecords, HostRecords
  <2>2. word \in Words
    BY <2>1, Geometry DEF HostRecords, Words
  <2>3. /\ host' = [host EXCEPT !.read = more]
        /\ pio' = [pio EXCEPT !.isr = word, !.pc = "push"]
    BY <1>2 DEF HostClock
  <2> HIDE DEF more, word
  <2>4. host' \in HostRecords /\ PioOK(pio')
    BY <2>1, <2>2, <2>3 DEF HostRecords, PioOK, PioRecords
  <2> QED
    BY <1>2, <2>4 DEF HostClock
<1>3. CASE HostRelease
  BY <1>3 DEF HostRelease, HostRecords
<1> QED
  BY <1>1, <1>2, <1>3 DEF HostStep

\* The invariant of every state.
LEMMA TransportInvariantHolds == Spec => []TransportInvariant
<1>1. TransportInvariant /\ [Next]_vars => TransportInvariant'
  <2> SUFFICES ASSUME TransportInvariant, [Next]_vars PROVE TransportInvariant'
    OBVIOUS
  <2>1. CASE UNCHANGED vars
    BY <2>1 DEF vars, TransportInvariant
  <2>2. CASE CpuStep
    BY <2>2, ReceiveKeeps, FeedKeeps, ApplicationKeeps DEF CpuStep
  <2> QED
    BY <2>1, <2>2, PioKeeps, HostKeeps DEF Next
<1> QED
  BY <1>1, TransportInit, PTL DEF Spec

\* No queue, FIFO, packet buffer or index leaves its storage, whatever the host
\* and the clock do.
THEOREM TransportTypeCorrect == Spec => []TypeOK
<1>1. TransportInvariant => TypeOK
  BY DEF TransportInvariant, TransportOK, TransportRecords, PioOK, PioRecords, CpuRecords,
         HostRecords, UsedRecords, Words, TypeOK
<1> QED
  BY <1>1, TransportInvariantHolds, PTL

\* The transport never holds a packet while SLAVE_IRQ is low, in no state
\* between two writes of the pin.
THEOREM IrqCoversPackets == Spec => []IrqLowMeansNothingPending
<1>1. TransportInvariant => IrqLowMeansNothingPending
  BY DEF TransportInvariant, TransportOK, IrqLowMeansNothingPending
<1> QED
  BY <1>1, TransportInvariantHolds, PTL
-----------------------------------------------------------------------------
(* Frames: what the RX FIFO and rxAssembly_ hold while one is pending *)

\* A byte of a packet or of a frame.
Byte(number, offset) == <<number, offset>>

\* The RX FIFO when the transport has taken "count" words of a frame of which
\* "pushed" bytes and "marked" frame ends (none or one) were pushed.
Holds(fifo, count, pushed, marked, frame) ==
  /\ Len(fifo) = (pushed + marked) - count
  /\ \A i \in 1 .. Len(fifo) :
       fifo[i] = IF count + i <= pushed THEN Byte(frame, count + i) ELSE FrameEndMarker

\* The assembly buffer when it was given "count" bytes.
Assembled(bytes, overflow, count, frame) ==
  /\ Len(bytes) = IF count <= PacketLength THEN count ELSE PacketLength
  /\ \A i \in 1 .. Len(bytes) : bytes[i] = Byte(frame, i)
  /\ overflow <=> count > PacketLength

\* Bytes and frame ends pushed for the pending frame.
Pushed == IF pio.pc = "push" THEN Len(host.read) - 1 ELSE Len(host.read)

Marked == IF pio.pc = "wait_cs_low" /\ host.cs = "high" THEN 1 ELSE 0

\* Where the PIO program may be while the host clocks, and the word it is
\* about to push.
FrameOK ==
  /\ pio.pc = "push" => /\ Len(host.read) >= 1
                        /\ pio.isr = Byte(host.frames, Len(host.read))
  /\ pio.pc = "frame_end" => host.cs = "high" /\ pio.isr = FrameEndMarker
  /\ pio.pc = "wait_cs_low" /\ host.cs = "low" => host.read = <<>>
  /\ FramePending => host.frames >= 1 /\ host.length \in FrameLengths
  /\ FramePending /\ host.cs = "high" => Len(host.read) = host.length

ReceiveOK ==
  IF FramePending
  THEN \E count \in Nat :
         /\ Holds(pio.rxFifo, count, Pushed, Marked, host.frames)
         /\ Assembled(transport.assembly, transport.overflow, count, host.frames)
  ELSE transport.assembly = <<>> /\ ~transport.overflow

FrameInvariant ==
  /\ TransportInvariant
  /\ FrameOK
  /\ ReceiveOK
  /\ RxPacketIsOneFrame

\* The host starts a frame after the firmware has settled the last, and the
\* firmware clears the transport between frames.
SeparateFrames == Liberties \cap {"EarlyFrame", "ClearInFrame"} = {}

\* The marker is no byte of a frame: frames are counted from 1.
LEMMA ByteIsNoMarker ==
  ASSUME NEW frame \in Nat, frame >= 1, NEW offset
  PROVE  Byte(frame, offset) # FrameEndMarker
BY DEF Byte, FrameEndMarker

\* A byte fits into a FIFO.
LEMMA ByteIsWord ==
  ASSUME NEW number \in Nat, NEW offset \in Nat
  PROVE  Byte(number, offset) \in Words
BY DEF Byte, Words

\* Eight bytes of one packet or frame, in order, are all of it.
LEMMA WholePacket ==
  ASSUME NEW number \in Nat, NEW bytes \in Seq(Words), Len(bytes) = PacketLength,
         \A i \in 1 .. PacketLength : bytes[i] = Byte(number, i)
  PROVE  bytes = BytesOf(number)
<1>1. bytes \in [1 .. PacketLength -> Words]
  BY LenProperties
<1> QED
  BY <1>1 DEF BytesOf, Byte

\* The elements of a FIFO that gained one.
LEMMA AppendedAt ==
  ASSUME NEW fifo \in Seq(Words), NEW word \in Words
  PROVE  /\ Append(fifo, word) \in Seq(Words)
         /\ Len(Append(fifo, word)) = Len(fifo) + 1 /\ Len(fifo) \in Nat
         /\ \A i \in 1 .. Len(fifo) + 1 :
              Append(fifo, word)[i] = IF i <= Len(fifo) THEN fifo[i] ELSE word
<1>1. Len(fifo) \in Nat
  BY LenProperties
<1> QED
  BY <1>1, AppendProperties

\* The elements of one that lost its first.
LEMMA RemovedAt ==
  ASSUME NEW fifo \in Seq(Words), fifo # <<>>
  PROVE  /\ Head(fifo) = fifo[1] /\ Head(fifo) \in Words /\ Tail(fifo) \in Seq(Words)
         /\ Len(Tail(fifo)) = Len(fifo) - 1 /\ Len(fifo) \in Nat \ {0}
         /\ \A i \in 1 .. Len(fifo) - 1 : Tail(fifo)[i] = fifo[i + 1]
BY HeadTailProperties, EmptySeq

\* The FIFO gains the frame's next byte.
LEMMA BytePushed ==
  ASSUME NEW fifo \in Seq(Words), NEW count \in Nat, NEW pushed \in Nat, NEW frame \in Nat,
         Holds(fifo, count, pushed, 0, frame)
  PROVE  Holds(Append(fifo, Byte(frame, pushed + 1)), count, pushed + 1, 0, frame)
<1> DEFINE word == Byte(frame, pushed + 1)
           more == Append(fifo, word)
<1>1. word \in Words
  BY ByteIsWord
<1> HIDE DEF word
<1>2. /\ Len(more) = Len(fifo) + 1 /\ Len(fifo) \in Nat
      /\ \A i \in 1 .. Len(fifo) + 1 : more[i] = IF i <= Len(fifo) THEN fifo[i] ELSE word
  BY <1>1, AppendedAt
<1>3. Len(fifo) = pushed - count
  BY DEF Holds
<1> HIDE DEF more
<1>4. \A i \in 1 .. Len(more) : more[i] = Byte(frame, count + i)
  <2> TAKE i \in 1 .. Len(more)
  <2>1. CASE i <= Len(fifo)
    BY <1>2, <1>3, <2>1 DEF Holds
  <2>2. CASE i > Len(fifo)
    <3>1. count + i = pushed + 1
      BY <1>2, <1>3, <2>2
    <3> QED
      BY <1>2, <2>2, <3>1 DEF word
  <2> QED
    BY <1>2, <2>1, <2>2
<1>5. \A i \in 1 .. Len(more) : count + i <= pushed + 1
  BY <1>2, <1>3
<1>6. Holds(more, count, pushed + 1, 0, frame)
  BY <1>2, <1>3, <1>4, <1>5 DEF Holds
<1> QED
  BY <1>6 DEF more, word

\* It gains the frame's end.
LEMMA MarkerPushed ==
  ASSUME NEW fifo \in Seq(Words), NEW count \in Nat, NEW pushed \in Nat, NEW frame \in Nat,
         Holds(fifo, count, pushed, 0, frame)
  PROVE  Holds(Append(fifo, FrameEndMarker), count, pushed, 1, frame)
<1> DEFINE more == Append(fifo, FrameEndMarker)
<1>1. /\ Len(more) = Len(fifo) + 1 /\ Len(fifo) \in Nat
      /\ \A i \in 1 .. Len(fifo) + 1 :
           more[i] = IF i <= Len(fifo) THEN fifo[i] ELSE FrameEndMarker
  BY Geometry, AppendedAt
<1>2. Len(fifo) = pushed - count
  BY DEF Holds
<1> HIDE DEF more
<1>3. \A i \in 1 .. Len(more) :
        more[i] = IF count + i <= pushed THEN Byte(frame, count + i) ELSE FrameEndMarker
  BY <1>1, <1>2 DEF Holds
<1>4. Holds(more, count, pushed, 1, frame)
  BY <1>1, <1>2, <1>3 DEF Holds
<1> QED
  BY <1>4 DEF more

\* The transport takes a byte: it is the frame's next.
LEMMA ByteTaken ==
  ASSUME NEW fifo \in Seq(Words), NEW count \in Nat, NEW pushed \in Nat, NEW frame \in Nat,
         NEW marked \in {0, 1}, Holds(fifo, count, pushed, marked, frame),
         fifo # <<>>, Head(fifo) # FrameEndMarker
  PROVE  /\ Head(fifo) = Byte(frame, count + 1)
         /\ count + 1 <= pushed
         /\ Holds(Tail(fifo), count + 1, pushed, marked, frame)
<1> DEFINE rest == Tail(fifo)
<1>1. /\ Head(fifo) = fifo[1] /\ Len(rest) = Len(fifo) - 1 /\ Len(fifo) \in Nat \ {0}
      /\ \A i \in 1 .. Len(fifo) - 1 : rest[i] = fifo[i + 1]
  BY RemovedAt
<1>2. Len(fifo) = (pushed + marked) - count
  BY DEF Holds
<1>3. Head(fifo) = Byte(frame, count + 1) /\ count + 1 <= pushed
  BY <1>1 DEF Holds
<1> HIDE DEF rest
<1>4. \A i \in 1 .. Len(rest) :
        rest[i] = IF (count + 1) + i <= pushed THEN Byte(frame, (count + 1) + i)
                  ELSE FrameEndMarker
  <2> TAKE i \in 1 .. Len(rest)
  <2>1. i + 1 \in 1 .. Len(fifo) /\ rest[i] = fifo[i + 1] /\ count + (i + 1) = (count + 1) + i
    BY <1>1
  <2> QED
    BY <2>1 DEF Holds
<1>5. Holds(rest, count + 1, pushed, marked, frame)
  BY <1>1, <1>2, <1>4 DEF Holds
<1> QED
  BY <1>3, <1>5 DEF rest

\* It takes the marker: all of the frame's bytes were taken before, and the
\* FIFO is empty behind it.
LEMMA MarkerTaken ==
  ASSUME NEW fifo \in Seq(Words), NEW count \in Nat, NEW pushed \in Nat, NEW frame \in Nat,
         NEW marked \in {0, 1}, Holds(fifo, count, pushed, marked, frame),
         fifo # <<>>, Head(fifo) = FrameEndMarker, frame >= 1
  PROVE  marked = 1 /\ count = pushed /\ Tail(fifo) = <<>>
<1>1. /\ Head(fifo) = fifo[1] /\ Len(Tail(fifo)) = Len(fifo) - 1 /\ Len(fifo) \in Nat \ {0}
      /\ Tail(fifo) \in Seq(Words)
  BY RemovedAt
<1>2. Len(fifo) = (pushed + marked) - count
  BY DEF Holds
<1>3. ~(count + 1 <= pushed)
  BY <1>1, ByteIsNoMarker DEF Holds
<1>4. marked = 1 /\ count = pushed /\ Len(fifo) = 1
  BY <1>1, <1>2, <1>3
<1>5. Tail(fifo) = <<>>
  <2> DEFINE rest == Tail(fifo)
  <2>1. rest \in Seq(Words) /\ Len(rest) = 0
    BY <1>1, <1>4
  <2> HIDE DEF rest
  <2>2. rest = <<>>
    BY <2>1, EmptySeq
  <2> QED
    BY <2>2 DEF rest
<1> QED
  BY <1>4, <1>5

\* A frame's first bytes are assembled; from the ninth on they are dropped and
\* the frame is marked as too long.
LEMMA ByteAssembled ==
  ASSUME NEW bytes \in Seq(Words), NEW overflow \in BOOLEAN, NEW count \in Nat,
         NEW frame \in Nat, Assembled(bytes, overflow, count, frame)
  PROVE  /\ overflow => Assembled(bytes, overflow, count + 1, frame)
         /\ ~overflow /\ Len(bytes) < PacketLength =>
              Assembled(Append(bytes, Byte(frame, count + 1)), overflow, count + 1, frame)
         /\ ~overflow /\ ~(Len(bytes) < PacketLength) =>
              Assembled(bytes, TRUE, count + 1, frame)
<1>1. CASE overflow
  BY <1>1, Geometry DEF Assembled
<1>2. CASE ~overflow /\ Len(bytes) < PacketLength
  <2> DEFINE word == Byte(frame, count + 1)
             more == Append(bytes, word)
  <2>1. word \in Words
    BY ByteIsWord
  <2>2. Len(bytes) = count /\ count + 1 <= PacketLength
    BY <1>2, Geometry DEF Assembled
  <2> HIDE DEF word
  <2>3. /\ Len(more) = count + 1
        /\ \A i \in 1 .. count + 1 : more[i] = IF i <= count THEN bytes[i] ELSE word
    BY <2>1, <2>2, AppendedAt
  <2> HIDE DEF more
  <2>4. \A i \in 1 .. count + 1 : more[i] = Byte(frame, i)
    <3> TAKE i \in 1 .. count + 1
    <3>1. CASE i <= count
      BY <2>2, <2>3, <3>1 DEF Assembled
    <3>2. CASE i > count
      <4>1. i = count + 1
        BY <3>2
      <4> QED
        BY <2>3, <4>1 DEF word
    <3> QED
      BY <3>1, <3>2
  <2>5. Assembled(more, overflow, count + 1, frame)
    BY <1>2, <2>2, <2>3, <2>4, Geometry DEF Assembled
  <2> QED
    BY <1>2, <2>5 DEF more, word
<1>3. CASE ~overflow /\ ~(Len(bytes) < PacketLength)
  BY <1>3, Geometry DEF Assembled
<1> QED
  BY <1>1, <1>2, <1>3

\* The types the frames are made of.
LEMMA FrameTypes ==
  ASSUME TransportInvariant, FrameOK
  PROVE  /\ pio.rxFifo \in Seq(Words) /\ pio.isr \in Words
         /\ transport \in TransportRecords
         /\ transport.assembly \in Seq(Words) /\ transport.overflow \in BOOLEAN
         /\ host.cs \in {"high", "low"}
         /\ host.read \in Seq(Words) /\ Len(host.read) \in Nat /\ host.frames \in Nat
         /\ host.frames + 1 \in Nat
         /\ Pushed \in Nat /\ Marked \in {0, 1}
<1>1. /\ pio \in PioRecords /\ transport \in TransportRecords /\ host \in HostRecords
      /\ Len(host.read) \in Nat
  BY LenProperties
  DEF TransportInvariant, PioOK, TransportOK, HostRecords
<1>2. Pushed \in Nat /\ Marked \in {0, 1}
  BY <1>1 DEF Pushed, Marked, FrameOK
<1> QED
  BY <1>1, <1>2, Geometry DEF PioRecords, TransportRecords, HostRecords

\* Power-up: no frame, and an empty assembly buffer.
LEMMA FrameInit == Init => FrameInvariant
<1> SUFFICES ASSUME Init PROVE FrameInvariant
  OBVIOUS
<1>1. TransportInvariant
  BY TransportInit
<1>2. /\ pio.pc = "wait_cs_low" /\ host.cs = "high" /\ ~FramePending
      /\ transport.assembly = <<>> /\ ~transport.overflow /\ ~transport.rxReady
  BY DEF Init, FramePending, EmptyTransport
<1> QED
  BY <1>1, <1>2 DEF FrameInvariant, FrameOK, ReceiveOK, RxPacketIsOneFrame

\* A step that leaves the receive side, the PIO program's place and the host
\* alone leaves the frame where it was.
LEMMA ReceiveSideKept ==
  ASSUME FrameInvariant, TransportInvariant', host' = host,
         pio'.pc = pio.pc, pio'.isr = pio.isr, pio'.rxFifo = pio.rxFifo,
         transport'.assembly = transport.assembly,
         transport'.overflow = transport.overflow,
         transport'.rxReady =>
           transport.rxReady /\ transport'.rxPacket = transport.rxPacket
  PROVE  FrameInvariant' /\ (FramePending' <=> FramePending)
<1>1. (FramePending' <=> FramePending) /\ Pushed' = Pushed /\ Marked' = Marked
  BY DEF FramePending, Pushed, Marked
<1>2. FrameOK'
  BY <1>1 DEF FrameInvariant, FrameOK
<1>3. ReceiveOK'
  BY <1>1 DEF FrameInvariant, ReceiveOK
<1>4. RxPacketIsOneFrame'
  BY DEF FrameInvariant, RxPacketIsOneFrame
<1> QED
  BY <1>1, <1>2, <1>3, <1>4 DEF FrameInvariant

\* Loading a packet leaves the receive side alone.
LEMMA LoadPacketFields ==
  ASSUME NEW t \in TransportRecords
  PROVE  /\ LoadPacket(t).assembly = t.assembly /\ LoadPacket(t).overflow = t.overflow
         /\ LoadPacket(t).rxPacket = t.rxPacket /\ LoadPacket(t).rxReady = t.rxReady
         /\ LoadPacket(t).integrityLost = t.integrityLost
         /\ LoadPacket(t).staged = t.staged
         /\ LoadPacket(t).irq = t.irq
         /\ \/ ~t.loaded /\ t.queue # <<>> /\ LoadPacket(t).loaded
               /\ LoadPacket(t).current = Head(t.queue)
               /\ LoadPacket(t).feedIndex = 0
            \/ ~(~t.loaded /\ t.queue # <<>>) /\ LoadPacket(t) = t
BY DEF LoadPacket, TransportRecords

\* So does dropping it.
LEMMA UnloadedFields ==
  ASSUME NEW t \in TransportRecords
  PROVE  /\ Unloaded(t).assembly = t.assembly /\ Unloaded(t).overflow = t.overflow
         /\ Unloaded(t).rxPacket = t.rxPacket /\ Unloaded(t).rxReady = t.rxReady
         /\ Unloaded(t).integrityLost = t.integrityLost
         /\ Unloaded(t).queue = t.queue /\ Unloaded(t).irq = t.irq
         /\ ~Unloaded(t).loaded /\ ~Unloaded(t).staged
         /\ Unloaded(t) \in TransportRecords
<1>1. 0 \in 0 .. MaxPackets /\ 0 \in 0 .. PacketLength
  BY Geometry
<1> QED
  BY <1>1 DEF Unloaded, NoPacket, TransportRecords

\* completeRxFrame empties the assembly buffer and leaves the transmitter alone.
LEMMA CompleteRxFrameFields ==
  ASSUME NEW t \in TransportRecords
  PROVE  /\ CompleteRxFrame(t) \in TransportRecords
         /\ CompleteRxFrame(t).assembly = <<>> /\ ~CompleteRxFrame(t).overflow
         /\ CompleteRxFrame(t).queue = t.queue
         /\ CompleteRxFrame(t).loaded = t.loaded
         /\ CompleteRxFrame(t).integrityLost = t.integrityLost
         /\ CompleteRxFrame(t).rxReady =>
              \/ t.rxReady /\ CompleteRxFrame(t).rxPacket = t.rxPacket
              \/ /\ ~t.overflow /\ Len(t.assembly) = PacketLength
                 /\ CompleteRxFrame(t).rxPacket = t.assembly
<1>1. <<>> \in Seq(Words)
  BY EmptyIsSequence
<1> DEFINE next == [t EXCEPT !.assembly = <<>>, !.overflow = FALSE]
           last == [next EXCEPT !.rxPacket = t.assembly, !.rxReady = TRUE]
<1>2. /\ next \in TransportRecords /\ next.assembly = <<>> /\ ~next.overflow
      /\ next.queue = t.queue /\ next.integrityLost = t.integrityLost
      /\ next.rxReady = t.rxReady /\ next.rxPacket = t.rxPacket
      /\ next.loaded = t.loaded
  BY <1>1 DEF TransportRecords
<1> HIDE DEF next
<1>3. /\ last \in TransportRecords /\ last.assembly = <<>> /\ ~last.overflow
      /\ last.queue = t.queue /\ last.integrityLost = t.integrityLost
      /\ last.rxPacket = t.assembly /\ last.loaded = t.loaded
  BY <1>2 DEF TransportRecords
<1>4. CompleteRxFrame(t) = IF ~t.overflow /\ Len(t.assembly) = PacketLength /\ ~t.rxReady
                           THEN last ELSE next
  BY DEF CompleteRxFrame, next
<1> HIDE DEF last
<1> QED
  BY <1>2, <1>3, <1>4

\* The C++ steps that receive nothing.
LEMMA CpuKeepsFrames ==
  ASSUME FrameInvariant, TransportInvariant',
         \/ EndReceive \/ FeedByte \/ EndFeed
         \/ Pop \/ EnqueueTxPacket \/ NothingToEnqueue
  PROVE  FrameInvariant' /\ (FramePending' <=> FramePending)
<1>1. transport \in TransportRecords /\ pio \in PioRecords
  BY DEF FrameInvariant, TransportInvariant, TransportOK, PioOK
<1>2. /\ host' = host
      /\ pio'.pc = pio.pc /\ pio'.isr = pio.isr /\ pio'.rxFifo = pio.rxFifo
  BY <1>1 DEF EndReceive, FeedByte, EndFeed, Pop, EnqueueTxPacket, NothingToEnqueue,
              PioRecords
<1>3. /\ transport'.assembly = transport.assembly
      /\ transport'.overflow = transport.overflow
      /\ transport'.rxReady =>
           transport.rxReady /\ transport'.rxPacket = transport.rxPacket
  <2>1. CASE EndReceive
    BY <1>1, <2>1, LoadPacketFields DEF EndReceive
  <2>2. CASE FeedByte \/ EndFeed \/ Pop \/ NothingToEnqueue
    BY <1>1, <2>2 DEF FeedByte, EndFeed, Pop, NothingToEnqueue, TransportRecords
  <2>3. CASE EnqueueTxPacket
    <3> DEFINE t == [transport EXCEPT !.queue = Append(@, used.packets + 1), !.irq = TRUE]
    <3>1. used.packets + 1 \in 1 .. MaxPackets
      BY <2>3, Geometry DEF FrameInvariant, TransportInvariant, EnqueueTxPacket, UsedRecords
    <3>2. Append(transport.queue, used.packets + 1) \in Seq(1 .. MaxPackets)
      BY <1>1, <3>1, Appended DEF TransportRecords
    <3>3. t \in TransportRecords
      BY <1>1, <3>2 DEF TransportRecords
    <3>4. /\ t.assembly = transport.assembly /\ t.overflow = transport.overflow
          /\ t.rxReady = transport.rxReady /\ t.rxPacket = transport.rxPacket
      BY <1>1 DEF TransportRecords
    <3>5. transport' = LoadPacket(t)
      BY <2>3 DEF EnqueueTxPacket
    <3> HIDE DEF t
    <3> QED
      BY <3>3, <3>4, <3>5, LoadPacketFields
  <2> QED
    BY <2>1, <2>2, <2>3
<1> QED
  BY <1>2, <1>3, ReceiveSideKept

\* A byte taken from the RX FIFO is the frame's next; the frame's end is still
\* to come.
LEMMA ReceiveByteKeepsFrames ==
  ASSUME FrameInvariant, TransportInvariant', ReceiveByte
  PROVE  FrameInvariant' /\ FramePending /\ FramePending'
<1>1. /\ pio.rxFifo # <<>> /\ Head(pio.rxFifo) # FrameEndMarker
      /\ pio' = [pio EXCEPT !.rxFifo = Tail(@)] /\ host' = host
  BY DEF ReceiveByte, NothingToReceive
<1>2. /\ pio'.pc = pio.pc /\ pio'.isr = pio.isr /\ pio'.rxFifo = Tail(pio.rxFifo)
  BY <1>1 DEF FrameInvariant, TransportInvariant, PioOK, PioRecords
<1>3. FramePending
  BY <1>1 DEF FramePending
<1>4. PICK count \in Nat :
        /\ Holds(pio.rxFifo, count, Pushed, Marked, host.frames)
        /\ Assembled(transport.assembly, transport.overflow, count, host.frames)
  BY <1>3 DEF FrameInvariant, ReceiveOK
<1>5. /\ Head(pio.rxFifo) = Byte(host.frames, count + 1)
      /\ count + 1 <= Pushed
      /\ Holds(Tail(pio.rxFifo), count + 1, Pushed, Marked, host.frames)
  BY <1>1, <1>4, FrameTypes, ByteTaken DEF FrameInvariant
<1>6. Pushed' = Pushed /\ Marked' = Marked
  BY <1>1, <1>2 DEF Pushed, Marked
<1>7. FramePending'
  <2>1. CASE pio.pc # "wait_cs_low" \/ host.cs = "low"
    BY <1>1, <1>2, <2>1 DEF FramePending
  <2>2. CASE pio.pc = "wait_cs_low" /\ host.cs # "low"
    <3>1. Marked = 1
      BY <2>2, FrameTypes DEF Marked, FrameInvariant
    <3>2. Len(Tail(pio.rxFifo)) = (Pushed + 1) - (count + 1)
      BY <1>5, <3>1 DEF Holds
    <3>3. Len(Tail(pio.rxFifo)) # 0
      <4>1. count + 1 <= Pushed /\ Pushed \in Nat
        BY <1>5, FrameTypes DEF FrameInvariant
      <4>2. \A pushed \in Nat : count + 1 <= pushed => (pushed + 1) - (count + 1) # 0
        OBVIOUS
      <4> QED
        BY <3>2, <4>1, <4>2
    <3> QED
      BY <1>2, <3>3, EmptySeq DEF FramePending
  <2> QED
    BY <2>1, <2>2
<1>8. Assembled(transport'.assembly, transport'.overflow, count + 1, host.frames)
  <2>1. transport' = IF transport.overflow THEN transport
                     ELSE IF Len(transport.assembly) < PacketLength
                     THEN [transport EXCEPT !.assembly =
                             Append(@, Byte(host.frames, count + 1))]
                     ELSE [transport EXCEPT !.overflow = TRUE]
    BY <1>5 DEF ReceiveByte
  <2>2. transport \in TransportRecords /\ transport.overflow \in BOOLEAN
    BY FrameTypes DEF FrameInvariant
  <2>3. /\ transport.overflow =>
             Assembled(transport.assembly, transport.overflow, count + 1, host.frames)
        /\ ~transport.overflow /\ Len(transport.assembly) < PacketLength =>
             Assembled(Append(transport.assembly, Byte(host.frames, count + 1)),
                       transport.overflow, count + 1, host.frames)
        /\ ~transport.overflow /\ ~(Len(transport.assembly) < PacketLength) =>
             Assembled(transport.assembly, TRUE, count + 1, host.frames)
    BY <1>4, FrameTypes, ByteAssembled DEF FrameInvariant
  <2>4. CASE transport.overflow
    BY <2>1, <2>3, <2>4
  <2>5. CASE ~transport.overflow /\ Len(transport.assembly) < PacketLength
    <3>1. /\ transport'.assembly = Append(transport.assembly, Byte(host.frames, count + 1))
          /\ transport'.overflow = transport.overflow
      BY <2>1, <2>2, <2>5 DEF TransportRecords
    <3> QED
      BY <2>3, <2>5, <3>1
  <2>6. CASE ~transport.overflow /\ ~(Len(transport.assembly) < PacketLength)
    <3>1. transport'.assembly = transport.assembly /\ transport'.overflow = TRUE
      BY <2>1, <2>2, <2>6 DEF TransportRecords
    <3> QED
      BY <2>3, <2>6, <3>1
  <2> QED
    BY <2>4, <2>5, <2>6
<1>9. ReceiveOK'
  BY <1>1, <1>2, <1>5, <1>6, <1>7, <1>8 DEF ReceiveOK
<1>10. FrameOK'
  BY <1>1, <1>2, <1>3 DEF FrameInvariant, FrameOK
<1>11. transport'.rxReady = transport.rxReady /\ transport'.rxPacket = transport.rxPacket
  BY FrameTypes DEF FrameInvariant, ReceiveByte, TransportRecords
<1>12. RxPacketIsOneFrame'
  BY <1>1, <1>11 DEF FrameInvariant, RxPacketIsOneFrame
<1> QED
  BY <1>3, <1>7, <1>9, <1>10, <1>12 DEF FrameInvariant

\* The marker taken: the frame is over, all its bytes were read, and what is
\* handed on is the frame if it had eight.
LEMMA MarkerKeepsFrames ==
  ASSUME FrameInvariant, TransportInvariant', ReceiveMarkerUnderrun \/ ReceiveMarker
  PROVE  /\ FrameInvariant' /\ FramePending /\ ~FramePending'
         /\ pio.pc = "wait_cs_low" /\ host.cs = "high"
         /\ pio'.txFifo = pio.txFifo
<1>1. /\ pio.rxFifo # <<>> /\ Head(pio.rxFifo) = FrameEndMarker
      /\ pio' = [pio EXCEPT !.rxFifo = Tail(@)] /\ host' = host
  BY DEF ReceiveMarkerUnderrun, ReceiveMarker, TakeMarker, NothingToReceive
<1>2. /\ pio'.pc = pio.pc /\ pio'.isr = pio.isr /\ pio'.rxFifo = Tail(pio.rxFifo)
      /\ pio'.txFifo = pio.txFifo
  BY <1>1 DEF FrameInvariant, TransportInvariant, PioOK, PioRecords
<1>3. FramePending /\ host.frames >= 1
  BY <1>1 DEF FramePending, FrameInvariant, FrameOK
<1>4. PICK count \in Nat :
        /\ Holds(pio.rxFifo, count, Pushed, Marked, host.frames)
        /\ Assembled(transport.assembly, transport.overflow, count, host.frames)
  BY <1>3 DEF FrameInvariant, ReceiveOK
<1>5. Marked = 1 /\ Tail(pio.rxFifo) = <<>>
  BY <1>1, <1>3, <1>4, FrameTypes, MarkerTaken DEF FrameInvariant
<1>6. pio.pc = "wait_cs_low" /\ host.cs = "high"
  BY <1>5 DEF Marked
<1>7. ~FramePending'
  BY <1>1, <1>2, <1>5, <1>6 DEF FramePending
<1>8. transport \in TransportRecords
  BY FrameTypes DEF FrameInvariant
<1> DEFINE received == CompleteRxFrame(transport)
           unloaded == Unloaded(received)
<1>9. /\ received \in TransportRecords
      /\ received.assembly = <<>> /\ ~received.overflow
      /\ received.rxReady =>
           \/ transport.rxReady /\ received.rxPacket = transport.rxPacket
           \/ /\ ~transport.overflow /\ Len(transport.assembly) = PacketLength
              /\ received.rxPacket = transport.assembly
  BY <1>8, CompleteRxFrameFields
<1>10. /\ unloaded \in TransportRecords
       /\ unloaded.assembly = received.assembly /\ unloaded.overflow = received.overflow
       /\ unloaded.rxReady = received.rxReady /\ unloaded.rxPacket = received.rxPacket
  BY <1>9, UnloadedFields
<1>11. \/ transport' = [unloaded EXCEPT !.queue = <<>>, !.integrityLost = TRUE, !.irq = FALSE]
       \/ transport' = LoadPacket(unloaded)
  BY DEF ReceiveMarkerUnderrun, ReceiveMarker
<1> HIDE DEF received, unloaded
<1>12. /\ transport'.assembly = received.assembly /\ transport'.overflow = received.overflow
       /\ transport'.rxReady = received.rxReady /\ transport'.rxPacket = received.rxPacket
  <2>1. CASE transport' = LoadPacket(unloaded)
    BY <1>10, <2>1, LoadPacketFields
  <2>2. CASE transport' = [unloaded EXCEPT !.queue = <<>>, !.integrityLost = TRUE,
                                           !.irq = FALSE]
    BY <1>10, <2>2 DEF TransportRecords
  <2> QED
    BY <1>11, <2>1, <2>2
<1>13. ReceiveOK'
  BY <1>7, <1>9, <1>12 DEF ReceiveOK
<1>14. FrameOK'
  BY <1>1, <1>2, <1>6, <1>7 DEF FrameOK
<1>15. RxPacketIsOneFrame'
  <2> SUFFICES ASSUME transport'.rxReady
               PROVE  \E number \in 1 .. host.frames : transport'.rxPacket = BytesOf(number)
    BY <1>1 DEF RxPacketIsOneFrame
  <2>1. CASE transport.rxReady /\ received.rxPacket = transport.rxPacket
    BY <1>12, <2>1 DEF FrameInvariant, RxPacketIsOneFrame
  <2>2. CASE /\ ~transport.overflow /\ Len(transport.assembly) = PacketLength
             /\ received.rxPacket = transport.assembly
    <3>1. transport.assembly \in Seq(Words) /\ host.frames \in Nat
      BY FrameTypes DEF FrameInvariant
    <3>2. \A i \in 1 .. PacketLength : transport.assembly[i] = Byte(host.frames, i)
      BY <1>4, <2>2 DEF Assembled
    <3>3. transport.assembly = BytesOf(host.frames)
      BY <2>2, <3>1, <3>2, WholePacket
    <3> QED
      BY <1>3, <1>12, <2>2, <3>1, <3>3
  <2> QED
    BY <1>9, <1>12, <2>1, <2>2
<1> QED
  BY <1>2, <1>3, <1>6, <1>7, <1>13, <1>14, <1>15 DEF FrameInvariant

\* clearTxQueue between frames empties both sides.
LEMMA ClearKeepsFrames ==
  ASSUME SeparateFrames, FrameInvariant, TransportInvariant', ClearTxQueue
  PROVE  FrameInvariant' /\ ~FramePending'
<1>1. /\ host.cs = "high" /\ pio.pc = "wait_cs_low"
      /\ host' = host /\ pio' = EmptiedPio(pio) /\ transport' = EmptyTransport
  BY DEF ClearTxQueue, SeparateFrames
<1>2. pio'.pc = "wait_cs_low" /\ pio'.rxFifo = <<>>
  BY <1>1 DEF EmptiedPio, FrameInvariant, TransportInvariant, PioOK, PioRecords
<1>3. ~FramePending'
  BY <1>1, <1>2 DEF FramePending
<1>4. transport'.assembly = <<>> /\ ~transport'.overflow /\ ~transport'.rxReady
  BY <1>1 DEF EmptyTransport
<1> QED
  BY <1>1, <1>2, <1>3, <1>4 DEF FrameInvariant, FrameOK, ReceiveOK, RxPacketIsOneFrame

\* The PIO program keeps the RX FIFO a prefix of the frame and its marker.
LEMMA PioKeepsFrames ==
  ASSUME SeparateFrames, FrameInvariant, TransportInvariant', PioStep
  PROVE  FrameInvariant' /\ FramePending /\ FramePending'
<1>1. /\ pio \in PioRecords /\ pio.isr \in Words /\ Len(host.read) \in Nat /\ host.frames \in Nat
      /\ pio.rxFifo \in Seq(Words) /\ host.cs \in {"high", "low"}
  BY FrameTypes DEF FrameInvariant, TransportInvariant, PioOK
<1>2. host' = host /\ transport' = transport
  BY DEF PioStep, PioWaitCsLow, PioByteLoop, PioPush, PioFrameEnd
<1>3. RxPacketIsOneFrame'
  BY <1>2 DEF FrameInvariant, RxPacketIsOneFrame
<1>4. FramePending
  BY DEF PioStep, PioWaitCsLow, PioByteLoop, PioPush, PioFrameEnd, FramePending
<1>5. PICK count \in Nat :
        /\ Holds(pio.rxFifo, count, Pushed, Marked, host.frames)
        /\ Assembled(transport.assembly, transport.overflow, count, host.frames)
  BY <1>4 DEF FrameInvariant, ReceiveOK
<1>6. CASE PioWaitCsLow \/ PioByteLoop
  <2>1. /\ pio'.rxFifo = pio.rxFifo
        /\ \/ pio.pc = "wait_cs_low" /\ host.cs = "low" /\ pio'.pc = "byte_loop"
           \/ pio.pc = "byte_loop" /\ pio'.pc = "bit_loop"
    BY <1>1, <1>6 DEF PioWaitCsLow, PioByteLoop, PioRecords
  <2>2. Pushed' = Pushed /\ Marked' = Marked /\ FramePending'
    BY <1>2, <2>1 DEF Pushed, Marked, FramePending
  <2>3. ReceiveOK'
    BY <1>2, <1>5, <2>1, <2>2 DEF ReceiveOK
  <2>4. FrameOK'
    BY <1>2, <1>4, <2>1 DEF FrameInvariant, FrameOK
  <2> QED
    BY <1>3, <1>4, <2>2, <2>3, <2>4 DEF FrameInvariant
<1>7. CASE PioPush
  <2>1. /\ pio.pc = "push" /\ pio'.rxFifo = Append(pio.rxFifo, pio.isr)
        /\ \/ host.cs = "high" /\ pio'.pc = "frame_end" /\ pio'.isr = FrameEndMarker
           \/ host.cs = "low" /\ pio'.pc = "byte_loop"
    BY <1>1, <1>7 DEF PioPush, PioRecords
  <2>2. /\ Pushed = Len(host.read) - 1 /\ Pushed' = Pushed + 1 /\ Pushed \in Nat
        /\ Marked = 0 /\ Marked' = 0 /\ FramePending'
        /\ pio.isr = Byte(host.frames, Pushed + 1)
    BY <1>1, <1>2, <2>1 DEF Pushed, Marked, FramePending, FrameInvariant, FrameOK
  <2>3. Holds(pio'.rxFifo, count, Pushed', Marked', host.frames)
    BY <1>1, <1>5, <2>1, <2>2, BytePushed
  <2>4. ReceiveOK'
    BY <1>2, <1>5, <2>2, <2>3 DEF ReceiveOK
  <2>5. FrameOK'
    BY <1>2, <1>4, <2>1 DEF FrameInvariant, FrameOK
  <2> QED
    BY <1>3, <1>4, <2>2, <2>4, <2>5 DEF FrameInvariant
<1>8. CASE PioFrameEnd
  <2>1. /\ pio.pc = "frame_end" /\ pio'.rxFifo = Append(pio.rxFifo, FrameEndMarker)
        /\ pio'.pc = "wait_cs_low" /\ host.cs = "high"
    BY <1>1, <1>8 DEF PioFrameEnd, PioRecords, FrameInvariant, FrameOK
  <2>2. /\ Pushed' = Pushed /\ Pushed \in Nat /\ Marked = 0 /\ Marked' = 1
    BY <1>1, <1>2, <2>1 DEF Pushed, Marked
  <2>3. FramePending'
    BY <1>1, <2>1, Geometry, AppendProperties DEF FramePending
  <2>4. Holds(pio'.rxFifo, count, Pushed', Marked', host.frames)
    BY <1>1, <1>5, <2>1, <2>2, MarkerPushed
  <2>5. ReceiveOK'
    BY <1>2, <1>5, <2>3, <2>4 DEF ReceiveOK
  <2>6. FrameOK'
    BY <1>2, <1>4, <2>1 DEF FrameInvariant, FrameOK
  <2> QED
    BY <1>3, <1>4, <2>3, <2>5, <2>6 DEF FrameInvariant
<1> QED
  BY <1>6, <1>7, <1>8 DEF PioStep

\* The host starts a frame after the last was taken, clocks it byte by byte and
\* ends it behind its last byte.
LEMMA HostKeepsFrames ==
  ASSUME SeparateFrames, FrameInvariant, TransportInvariant', HostStep
  PROVE  FrameInvariant' /\ FramePending' /\ (HostSelect => ~FramePending)
                         /\ (~HostSelect => FramePending)
<1>1. /\ pio \in PioRecords /\ Len(host.read) \in Nat /\ host.frames \in Nat
      /\ host.read \in Seq(Words) /\ host.cs \in {"high", "low"} /\ host \in HostRecords
  BY FrameTypes DEF FrameInvariant, TransportInvariant, PioOK
<1>2. transport' = transport
  BY DEF HostStep, HostSelect, HostClock, HostRelease
<1>3. CASE HostSelect
  <2>1. /\ ~FramePending /\ host.cs = "high" /\ pio' = pio
        /\ host'.cs = "low" /\ host'.length \in FrameLengths /\ host'.read = <<>>
        /\ host'.frames = host.frames + 1
    BY <1>3 DEF HostSelect, Settled, SeparateFrames
  <2>2. pio.pc = "wait_cs_low" /\ pio.rxFifo = <<>>
    BY <2>1 DEF FramePending
  <2>3. FramePending' /\ Pushed' = 0 /\ Marked' = 0
    BY <2>1, <2>2, EmptySeq DEF FramePending, Pushed, Marked
  <2>4. transport.assembly = <<>> /\ ~transport.overflow
    BY <2>1 DEF FrameInvariant, ReceiveOK
  <2>5. /\ Holds(<<>>, 0, 0, 0, host'.frames)
        /\ Assembled(<<>>, FALSE, 0, host'.frames)
    BY EmptySeq, Geometry DEF Holds, Assembled
  <2>6. ReceiveOK'
    <3>1. transport.overflow = FALSE
      BY <2>4, FrameTypes DEF FrameInvariant
    <3> QED
      BY <1>2, <2>1, <2>2, <2>3, <2>4, <2>5, <3>1 DEF ReceiveOK
  <2>7. FrameOK'
    BY <1>1, <2>1, <2>2 DEF FrameOK
  <2>8. RxPacketIsOneFrame'
    <3>1. \A number \in 1 .. host.frames : number \in 1 .. host'.frames
      BY <1>1, <2>1
    <3> QED
      BY <1>2, <3>1 DEF FrameInvariant, RxPacketIsOneFrame
  <2> QED
    BY <1>3, <2>1, <2>3, <2>6, <2>7, <2>8 DEF FrameInvariant
<1>4. CASE HostClock \/ HostRelease
  <2>1. host.cs = "low" /\ FramePending /\ ~HostSelect
    BY <1>4 DEF HostClock, HostRelease, FramePending, HostSelect
  <2>2. host'.frames = host.frames /\ host'.length = host.length /\ pio'.rxFifo = pio.rxFifo
    BY <1>1, <1>4 DEF HostClock, HostRelease, HostRecords, PioRecords
  <2>3. RxPacketIsOneFrame'
    BY <1>2, <2>2 DEF FrameInvariant, RxPacketIsOneFrame
  <2>4. Pushed' = Pushed /\ Marked' = Marked /\ FramePending' /\ FrameOK'
    <3>1. CASE HostClock
      <4> DEFINE more == Append(host.read, pio.osr)
                 word == Byte(host.frames, Len(host.read) + 1)
      <4>1. Len(more) = Len(host.read) + 1
        BY <1>1, AppendProperties DEF PioRecords
      <4>2. /\ pio.pc = "bit_loop" /\ Len(host.read) < host.length
            /\ host' = [host EXCEPT !.read = more]
            /\ pio' = [pio EXCEPT !.isr = word, !.pc = "push"]
        BY <3>1 DEF HostClock, Byte
      <4> HIDE DEF more, word
      <4>3. /\ host'.cs = "low" /\ host'.read = more
            /\ pio'.isr = word /\ pio'.pc = "push"
        BY <1>1, <2>1, <4>2 DEF HostRecords, PioRecords
      <4>4. Pushed' = Pushed /\ Marked' = Marked /\ FramePending'
        BY <1>1, <4>1, <4>2, <4>3 DEF Pushed, Marked, FramePending
      <4>5. FrameOK'
        BY <1>1, <2>1, <2>2, <4>1, <4>3 DEF FrameInvariant, FrameOK, word
      <4> QED
        BY <4>4, <4>5
    <3>2. CASE HostRelease
      <4>1. /\ Len(host.read) = host.length /\ pio' = pio
            /\ host'.cs = "high" /\ host'.read = host.read
        BY <1>1, <3>2 DEF HostRelease, HostRecords
      <4>2. pio.pc \notin {"wait_cs_low", "frame_end"}
        <5>1. host.length \in Nat \ {0}
          BY <2>1, GeometryAssumption DEF FrameInvariant, FrameOK
        <5> QED
          BY <1>1, <2>1, <4>1, <5>1, EmptySeq DEF FrameInvariant, FrameOK, PioRecords
      <4>3. Pushed' = Pushed /\ Marked' = Marked /\ FramePending'
        BY <4>1, <4>2 DEF Pushed, Marked, FramePending
      <4>4. FrameOK'
        BY <2>1, <2>2, <4>1, <4>2 DEF FrameInvariant, FrameOK
      <4> QED
        BY <4>3, <4>4
    <3> QED
      BY <1>4, <3>1, <3>2
  <2>5. ReceiveOK'
    BY <1>2, <2>1, <2>2, <2>4 DEF FrameInvariant, ReceiveOK
  <2> QED
    BY <2>1, <2>3, <2>4, <2>5 DEF FrameInvariant
<1> QED
  BY <1>3, <1>4 DEF HostStep

\* One step keeps what is typed, from the lemmas of each component.
LEMMA StepKeepsTypes ==
  ASSUME TransportInvariant, Next
  PROVE  TransportInvariant'
BY ReceiveKeeps, FeedKeeps, ApplicationKeeps, PioKeeps, HostKeeps DEF Next, CpuStep

\* FrameInvariant is inductive.
LEMMA StepKeepsFrames ==
  ASSUME SeparateFrames, FrameInvariant, Next
  PROVE  FrameInvariant'
<1>1. TransportInvariant'
  BY StepKeepsTypes DEF FrameInvariant
<1>2. CASE CpuStep
  BY <1>1, <1>2, CpuKeepsFrames, ReceiveByteKeepsFrames, MarkerKeepsFrames, ClearKeepsFrames
  DEF CpuStep
<1>3. CASE PioStep \/ HostStep
  BY <1>1, <1>3, PioKeepsFrames, HostKeepsFrames
<1> QED
  BY <1>2, <1>3 DEF Next

\* Where frames are separate and the transport is cleared only between them,
\* every packet taken from the transport is one whole frame of the host, of
\* exactly the packet's length: whatever lengths the frames before it had, and
\* however the PIO program, the FIFO and the main loop interleave.
THEOREM FramesStayWhole ==
  ASSUME SeparateFrames
  PROVE  Spec => []RxPacketIsOneFrame
<1>1. FrameInvariant /\ [Next]_vars => FrameInvariant'
  <2> SUFFICES ASSUME FrameInvariant, [Next]_vars PROVE FrameInvariant'
    OBVIOUS
  <2>1. CASE UNCHANGED vars
    BY <2>1, ReceiveSideKept DEF vars, FrameInvariant, TransportInvariant
  <2> QED
    BY <2>1, StepKeepsFrames
<1>2. FrameInvariant => RxPacketIsOneFrame
  BY DEF FrameInvariant
<1> QED
  BY <1>1, <1>2, FrameInit, PTL DEF Spec

-----------------------------------------------------------------------------
(* Packets: what was fed of one, and where its bytes are *)

\* The first bytes of packet "current" were taken by the frame, the next are in
\* the TX FIFO, and "index" counts them: past the packet's last byte a frame
\* takes filler, which no index counts.
Fed(taken, fifo, current, index) ==
  /\ \A i \in 1 .. Len(taken) : i <= PacketLength => taken[i] = Byte(current, i)
  /\ \A i \in 1 .. Len(fifo) : fifo[i] = Byte(current, Len(taken) + i)
  /\ index = Len(fifo) + IF Len(taken) <= PacketLength THEN Len(taken) ELSE PacketLength

\* The transmitter against what a pending frame took and the FIFO still holds:
\* a frame finds a packet loaded, a lost integrity leaves no packet, and no
\* packet leaves no byte behind in the FIFO.
Transmits(t, pending, taken, fifo) ==
  /\ pending => t.loaded
  /\ t.staged => t.loaded /\ t.feedIndex = PacketLength
  /\ t.integrityLost => ~t.loaded /\ t.queue = <<>>
  /\ ~t.loaded /\ ~t.integrityLost => fifo = <<>>
  /\ t.loaded => Fed(taken, fifo, t.current, t.feedIndex)

AlignedInvariant ==
  /\ FrameInvariant
  /\ Transmits(transport, FramePending, Taken, pio.txFifo)
  /\ transport.integrityLost => cpu.at # "publish"

\* The timing assumptions but one: a frame whose end the PIO program misses
\* never ends, and so disturbs no other.
TimingHolds == Liberties \subseteq {"LateRelease"}

\* Frames hold the whole packet or end before its last byte can be fed.
FullOrShort ==
  \A length \in FrameLengths :
    length >= PacketLength \/ length + FifoDepth < PacketLength

\* Alignment asks for more of the timing than whole frames do.
LEMMA TimingSeparatesFrames == TimingHolds => SeparateFrames
BY DEF TimingHolds, SeparateFrames

\* A packet just loaded.
LEMMA NothingFed ==
  ASSUME NEW current
  PROVE  Fed(<<>>, <<>>, current, 0)
BY EmptySeq, Geometry DEF Fed

\* serviceTxFifo feeds the next byte.
LEMMA NextByteFed ==
  ASSUME NEW taken \in Seq(Words), NEW fifo \in Seq(Words), NEW current \in Nat,
         NEW index \in Nat, index < PacketLength, Fed(taken, fifo, current, index)
  PROVE  Fed(taken, Append(fifo, BytesOf(current)[index + 1]), current, index + 1)
<1> DEFINE word == BytesOf(current)[index + 1]
           more == Append(fifo, word)
<1>1. index + 1 \in 1 .. PacketLength
  BY Geometry
<1>2. word = Byte(current, index + 1) /\ word \in Words
  BY <1>1, ByteIsWord DEF BytesOf, Byte
<1> HIDE DEF word
<1>3. /\ Len(more) = Len(fifo) + 1 /\ Len(fifo) \in Nat
      /\ \A i \in 1 .. Len(fifo) + 1 : more[i] = IF i <= Len(fifo) THEN fifo[i] ELSE word
  BY <1>2, AppendedAt
<1>4. Len(taken) \in Nat
  BY LenProperties
<1>5. index = Len(fifo) + Len(taken) /\ Len(taken) <= PacketLength
  BY <1>3, <1>4, Geometry DEF Fed
<1> HIDE DEF more
<1>6. \A i \in 1 .. Len(more) : more[i] = Byte(current, Len(taken) + i)
  <2> TAKE i \in 1 .. Len(more)
  <2>1. CASE i <= Len(fifo)
    BY <1>3, <2>1 DEF Fed
  <2>2. CASE i > Len(fifo)
    <3>1. Len(taken) + i = index + 1
      BY <1>3, <1>4, <1>5, <2>2
    <3> QED
      BY <1>2, <1>3, <2>2, <3>1
  <2> QED
    BY <1>3, <2>1, <2>2
<1>7. Fed(taken, more, current, index + 1)
  BY <1>3, <1>4, <1>5, <1>6 DEF Fed
<1> QED
  BY <1>7 DEF more, word

\* The PIO program pulls the next byte out of the FIFO.
LEMMA NextByteTaken ==
  ASSUME NEW taken \in Seq(Words), NEW fifo \in Seq(Words), NEW current \in Nat,
         NEW index \in 0 .. PacketLength, Fed(taken, fifo, current, index), fifo # <<>>
  PROVE  Fed(Append(taken, Head(fifo)), Tail(fifo), current, index)
<1> DEFINE rest == Tail(fifo)
           word == Head(fifo)
           more == Append(taken, word)
<1>1. /\ word = fifo[1] /\ word \in Words /\ Len(rest) = Len(fifo) - 1
      /\ Len(fifo) \in Nat \ {0}
      /\ \A i \in 1 .. Len(fifo) - 1 : rest[i] = fifo[i + 1]
  BY RemovedAt
<1> HIDE DEF rest, word
<1>2. /\ Len(more) = Len(taken) + 1 /\ Len(taken) \in Nat
      /\ \A i \in 1 .. Len(taken) + 1 : more[i] = IF i <= Len(taken) THEN taken[i] ELSE word
  BY <1>1, AppendedAt
<1> HIDE DEF more
<1>3. index = Len(fifo) + Len(taken) /\ Len(taken) + 1 <= PacketLength
  BY <1>1, <1>2, Geometry DEF Fed
<1>4. word = Byte(current, Len(taken) + 1)
  BY <1>1 DEF Fed
<1>5. \A i \in 1 .. Len(more) : i <= PacketLength => more[i] = Byte(current, i)
  <2> TAKE i \in 1 .. Len(more)
  <2>1. CASE i <= Len(taken)
    BY <1>2, <2>1 DEF Fed
  <2>2. CASE i > Len(taken)
    <3>1. i = Len(taken) + 1
      BY <1>2, <2>2
    <3> QED
      BY <1>2, <1>4, <3>1
  <2> QED
    BY <1>2, <2>1, <2>2
<1>6. \A i \in 1 .. Len(rest) : rest[i] = Byte(current, Len(more) + i)
  <2> TAKE i \in 1 .. Len(rest)
  <2>1. i + 1 \in 1 .. Len(fifo) /\ rest[i] = fifo[i + 1] /\ Len(taken) + (i + 1) = Len(more) + i
    BY <1>1, <1>2
  <2> QED
    BY <2>1 DEF Fed
<1>7. Fed(more, rest, current, index)
  BY <1>1, <1>2, <1>3, <1>5, <1>6 DEF Fed
<1> QED
  BY <1>7 DEF more, rest, word

\* It finds the FIFO empty, all of the packet being taken: the frame goes on
\* with filler.
LEMMA FillerTaken ==
  ASSUME NEW taken \in Seq(Words), NEW current, NEW word \in Words,
         Fed(taken, <<>>, current, PacketLength)
  PROVE  Fed(Append(taken, word), <<>>, current, PacketLength)
<1> DEFINE more == Append(taken, word)
<1>1. /\ Len(more) = Len(taken) + 1 /\ Len(taken) \in Nat
      /\ \A i \in 1 .. Len(taken) + 1 : more[i] = IF i <= Len(taken) THEN taken[i] ELSE word
  BY AppendedAt
<1> HIDE DEF more
<1>2. Len(<<>>) = 0
  BY EmptyIsSequence
<1>3. Len(taken) >= PacketLength
  BY <1>1, <1>2, Geometry DEF Fed
<1>4. \A i \in 1 .. Len(more) : i <= PacketLength => more[i] = Byte(current, i)
  <2> TAKE i \in 1 .. Len(more)
  <2> HAVE i <= PacketLength
  <2>1. i <= Len(taken) /\ i \in 1 .. Len(taken)
    BY <1>1, <1>3, Geometry
  <2> QED
    BY <1>1, <2>1 DEF Fed
<1>5. Fed(more, <<>>, current, PacketLength)
  BY <1>1, <1>2, <1>3, <1>4, Geometry DEF Fed
<1> QED
  BY <1>5 DEF more

\* A packet fed to its last byte when a frame ends was read by that frame:
\* shorter frames leave more than the FIFO can hold.
LEMMA FrameTookPacket ==
  ASSUME FullOrShort, NEW taken \in Seq(Words), NEW fifo \in Seq(Words),
         NEW current \in Nat, Len(fifo) <= FifoDepth, Len(taken) \in FrameLengths,
         Fed(taken, fifo, current, PacketLength)
  PROVE  /\ Len(taken) >= PacketLength
         /\ fifo = <<>>
         /\ SubSeq(taken, 1, PacketLength) = BytesOf(current)
<1>1. Len(taken) \in Nat /\ Len(fifo) \in Nat
  BY LenProperties
<1>2. Len(taken) >= PacketLength
  BY <1>1, Geometry DEF FullOrShort, Fed
<1>3. Len(fifo) = 0
  BY <1>1, <1>2, Geometry DEF Fed
<1>4. \A i \in 1 .. PacketLength : i \in 1 .. Len(taken) /\ taken[i] \in Words
  BY <1>1, <1>2, Geometry, ElementOfSeq
<1> DEFINE part == SubSeq(taken, 1, PacketLength)
<1>5. /\ part \in Seq(Words) /\ Len(part) = PacketLength
      /\ \A i \in 1 .. PacketLength : part[i] = taken[i]
  BY <1>4, Geometry, SubSeqProperties
<1> HIDE DEF part
<1>6. \A i \in 1 .. PacketLength : part[i] = Byte(current, i)
  BY <1>4, <1>5 DEF Fed
<1>7. part = BytesOf(current)
  BY <1>5, <1>6, WholePacket
<1> QED
  BY <1>2, <1>3, <1>7, EmptySeq DEF part

\* The bytes that serviceTxFifo has still to feed.
Unfed(current, index) == SubSeq(BytesOf(current), index + 1, PacketLength)

\* They are the packet's last.
LEMMA UnfedBytes ==
  ASSUME NEW current \in Nat, NEW index \in 0 .. PacketLength
  PROVE  /\ Unfed(current, index) \in Seq(Words)
         /\ Len(Unfed(current, index)) = PacketLength - index
         /\ \A i \in 1 .. PacketLength - index :
              Unfed(current, index)[i] = Byte(current, index + i)
<1> DEFINE all == BytesOf(current)
<1>1. \A i \in 1 .. PacketLength : all[i] = Byte(current, i) /\ Byte(current, i) \in Words
  BY ByteIsWord, Geometry DEF BytesOf, Byte
<1> HIDE DEF all
<1>2. index + 1 \in Int /\ PacketLength \in Int /\ index \in Nat
  BY Geometry
<1>3. \A i \in index + 1 .. PacketLength : i \in 1 .. PacketLength
  BY <1>2
<1>4. \A i \in index + 1 .. PacketLength : all[i] \in Words
  BY <1>1, <1>3
<1> DEFINE part == SubSeq(all, index + 1, PacketLength)
<1>5. /\ part \in Seq(Words)
      /\ Len(part) = IF index + 1 <= PacketLength THEN PacketLength - (index + 1) + 1 ELSE 0
      /\ \A i \in 1 .. PacketLength - (index + 1) + 1 : part[i] = all[(index + 1) + i - 1]
  BY <1>2, <1>4, SubSeqProperties
<1> HIDE DEF part
<1>6. Len(part) = PacketLength - index
  BY <1>2, <1>5
<1>7. \A i \in 1 .. PacketLength - index : part[i] = Byte(current, index + i)
  <2> TAKE i \in 1 .. PacketLength - index
  <2>1. /\ i \in 1 .. PacketLength - (index + 1) + 1
        /\ (index + 1) + i - 1 = index + i /\ index + i \in 1 .. PacketLength
    BY <1>2
  <2> QED
    BY <1>1, <1>5, <2>1
<1> QED
  BY <1>5, <1>6, <1>7 DEF part, all, Unfed

\* What was taken, what is in the FIFO and what is still to be fed make up the
\* packet; a frame that went on behind it has left nothing of it.
LEMMA PiecesMakePacket ==
  ASSUME NEW taken \in Seq(Words), NEW fifo \in Seq(Words), NEW current \in Nat,
         NEW index \in 0 .. PacketLength, Fed(taken, fifo, current, index)
  PROVE  LET whole == taken \o fifo \o Unfed(current, index)
         IN  /\ SubSeq(whole, 1, PacketLength) = BytesOf(current)
             /\ Len(whole) > PacketLength => fifo \o Unfed(current, index) = <<>>
<1> DEFINE unfed == Unfed(current, index)
           fed   == taken \o fifo
           whole == fed \o unfed
<1>1. /\ unfed \in Seq(Words) /\ Len(unfed) = PacketLength - index
      /\ \A i \in 1 .. PacketLength - index : unfed[i] = Byte(current, index + i)
  BY UnfedBytes
<1> HIDE DEF unfed
<1>2. Len(taken) \in Nat /\ Len(fifo) \in Nat /\ Len(unfed) \in Nat
  BY <1>1, LenProperties
<1>3. /\ fed \in Seq(Words) /\ Len(fed) = Len(taken) + Len(fifo)
      /\ \A i \in 1 .. Len(taken) + Len(fifo) :
           fed[i] = IF i <= Len(taken) THEN taken[i] ELSE fifo[i - Len(taken)]
  BY ConcatProperties
<1> HIDE DEF fed
<1>4. /\ whole \in Seq(Words) /\ Len(whole) = Len(fed) + Len(unfed)
      /\ \A i \in 1 .. Len(fed) + Len(unfed) :
           whole[i] = IF i <= Len(fed) THEN fed[i] ELSE unfed[i - Len(fed)]
  <2>1. fed \in Seq(Words) /\ unfed \in Seq(Words)
    BY <1>1, <1>3
  <2> QED
    BY <2>1, ConcatProperties
<1> HIDE DEF whole
<1>5. Len(whole) >= PacketLength
  BY <1>1, <1>2, <1>3, <1>4, Geometry DEF Fed
<1>6. \A i \in 1 .. PacketLength : whole[i] = Byte(current, i) /\ whole[i] \in Words
  <2> TAKE i \in 1 .. PacketLength
  <2>1. i \in Nat /\ i >= 1 /\ i <= PacketLength /\ i \in 1 .. Len(fed) + Len(unfed)
    BY <1>2, <1>3, <1>4, <1>5, Geometry
  <2>2. CASE i <= Len(taken)
    <3>1. i \in 1 .. Len(taken) /\ i \in 1 .. Len(taken) + Len(fifo) /\ i <= Len(fed)
      BY <1>2, <1>3, <2>1, <2>2
    <3>2. whole[i] = taken[i]
      BY <1>3, <1>4, <2>1, <3>1
    <3> QED
      BY <2>1, <3>1, <3>2, ByteIsWord DEF Fed
  <2>3. CASE Len(taken) < i /\ i <= Len(fed)
    <3>1. /\ i - Len(taken) \in 1 .. Len(fifo) /\ i \in 1 .. Len(taken) + Len(fifo)
          /\ Len(taken) + (i - Len(taken)) = i
      BY <1>2, <1>3, <2>1, <2>3
    <3>2. whole[i] = fifo[i - Len(taken)]
      BY <1>2, <1>3, <1>4, <2>1, <2>3, <3>1
    <3> QED
      BY <2>1, <3>1, <3>2, ByteIsWord DEF Fed
  <2>4. CASE Len(fed) < i
    <3>1. index = Len(fed)
      BY <1>2, <1>3, <2>1, <2>4, Geometry DEF Fed
    <3>2. /\ i - Len(fed) \in 1 .. PacketLength - index /\ index + (i - Len(fed)) = i
      BY <1>2, <1>3, <2>1, <2>4, <3>1, Geometry
    <3>3. whole[i] = unfed[i - Len(fed)]
      BY <1>2, <1>3, <1>4, <2>1, <2>4
    <3> QED
      BY <1>1, <2>1, <3>2, <3>3, ByteIsWord
  <2> QED
    BY <1>2, <1>3, <2>1, <2>2, <2>3, <2>4
<1> DEFINE part == SubSeq(whole, 1, PacketLength)
<1>7. part = BytesOf(current)
  <2>1. /\ part \in Seq(Words) /\ Len(part) = PacketLength
        /\ \A i \in 1 .. PacketLength : part[i] = whole[i]
    BY <1>6, Geometry, SubSeqProperties
  <2> HIDE DEF part
  <2> QED
    BY <1>6, <2>1, WholePacket
<1>8. ASSUME Len(whole) > PacketLength PROVE fifo \o unfed = <<>>
  <2>1. Len(whole) = (Len(taken) + Len(fifo)) + (PacketLength - index)
    BY <1>1, <1>3, <1>4
  <2>2. ~(Len(taken) <= PacketLength)
    <3> SUFFICES ASSUME Len(taken) <= PacketLength PROVE FALSE
      OBVIOUS
    <3>1. index = Len(fifo) + Len(taken)
      BY DEF Fed
    <3> QED
      BY <1>2, <1>8, <2>1, <3>1, Geometry
  <2>3. index = Len(fifo) + PacketLength
    BY <2>2 DEF Fed
  <2>4. Len(fifo) = 0 /\ Len(unfed) = 0
    BY <1>1, <1>2, <2>3, Geometry
  <2>5. fifo = <<>> /\ unfed = <<>>
    BY <1>1, <2>4, EmptySeq
  <2> QED
    BY <2>5, EmptySeq, ConcatEmptySeq
<1> QED
  BY <1>7, <1>8 DEF part, whole, fed, unfed

\* Loading the next packet of the queue.
LEMMA LoadTransmits ==
  ASSUME NEW t \in TransportRecords, NEW pending \in BOOLEAN, NEW taken, NEW fifo,
         Transmits(t, pending, taken, fifo), ~pending => taken = <<>>
  PROVE  Transmits(LoadPacket(t), pending, taken, fifo)
<1> DEFINE u == LoadPacket(t)
<1>1. /\ u.staged = t.staged /\ u.integrityLost = t.integrityLost
      /\ \/ /\ ~t.loaded /\ t.queue # <<>> /\ u.loaded
            /\ u.current = Head(t.queue) /\ u.feedIndex = 0
         \/ u = t
  BY LoadPacketFields
<1> HIDE DEF u
<1>2. CASE u = t
  BY <1>2 DEF u
<1>3. CASE /\ ~t.loaded /\ t.queue # <<>> /\ u.loaded
           /\ u.current = Head(t.queue) /\ u.feedIndex = 0
  <2>1. ~t.integrityLost /\ ~t.staged /\ ~pending /\ fifo = <<>> /\ taken = <<>>
    BY <1>3 DEF Transmits
  <2>2. Fed(taken, fifo, u.current, u.feedIndex)
    BY <1>3, <2>1, NothingFed
  <2>3. Transmits(u, pending, taken, fifo)
    BY <1>1, <1>3, <2>1, <2>2 DEF Transmits
  <2> QED
    BY <2>3 DEF u
<1> QED
  BY <1>1, <1>2, <1>3

\* Taken is empty between frames.
LEMMA TakenTypes ==
  ASSUME FrameInvariant
  PROVE  Taken \in Seq(Words) /\ (~FramePending => Taken = <<>>) /\ FramePending \in BOOLEAN
<1>1. pio.osr \in Words /\ host.read \in Seq(Words)
  BY DEF FrameInvariant, TransportInvariant, PioOK, PioRecords, HostRecords
<1> QED
  BY <1>1, AppendProperties, EmptySeq DEF Taken, FramePending

\* Power-up: an empty transmitter and an empty FIFO.
LEMMA AlignedInit == Init => AlignedInvariant
<1> SUFFICES ASSUME Init PROVE AlignedInvariant
  OBVIOUS
<1>1. ~FramePending /\ pio.txFifo = <<>>
  BY DEF Init, FramePending
<1>2. ~transport.loaded /\ ~transport.staged /\ ~transport.integrityLost
  BY DEF Init, EmptyTransport
<1> QED
  BY <1>1, <1>2, FrameInit DEF AlignedInvariant, Transmits

\* The C++ steps that receive nothing.
LEMMA CpuKeepsAligned ==
  ASSUME AlignedInvariant, FrameInvariant', FramePending' <=> FramePending,
         \/ EndReceive \/ FeedByte \/ EndFeed
         \/ Pop \/ EnqueueTxPacket \/ NothingToEnqueue
  PROVE  AlignedInvariant'
<1>1. /\ transport \in TransportRecords /\ pio \in PioRecords /\ cpu \in CpuRecords
      /\ used \in UsedRecords
  BY DEF AlignedInvariant, FrameInvariant, TransportInvariant, TransportOK, PioOK
<1>2. /\ Taken \in Seq(Words) /\ FramePending \in BOOLEAN
      /\ ~FramePending => Taken = <<>>
  BY TakenTypes DEF AlignedInvariant
<1>3. host' = host /\ pio'.pc = pio.pc /\ pio'.osr = pio.osr
  BY <1>1 DEF EndReceive, FeedByte, EndFeed, Pop, EnqueueTxPacket, NothingToEnqueue,
              PioRecords
<1>4. Taken' = Taken
  BY <1>3 DEF Taken
<1>5. Transmits(transport, FramePending, Taken, pio.txFifo)
      /\ (transport.integrityLost => cpu.at # "publish")
  BY DEF AlignedInvariant
<1> SUFFICES /\ Transmits(transport', FramePending, Taken, pio'.txFifo)
             /\ transport'.integrityLost => cpu'.at # "publish"
  BY <1>4 DEF AlignedInvariant
<1>6. CASE EndReceive
  BY <1>1, <1>2, <1>5, <1>6, LoadTransmits DEF EndReceive
<1>7. CASE FeedByte
  <2> DEFINE word == BytesOf(transport.current)[transport.feedIndex + 1]
             more == Append(pio.txFifo, word)
  <2>1. /\ transport.loaded /\ ~transport.staged /\ transport.feedIndex < PacketLength
        /\ transport.current \in Nat /\ transport.feedIndex \in Nat
        /\ pio.txFifo \in Seq(Words)
    BY <1>1, <1>7, Geometry DEF FeedByte, CanFeed, TransportRecords, PioRecords
  <2>2. Fed(Taken, more, transport.current, transport.feedIndex + 1)
    BY <1>2, <1>5, <2>1, NextByteFed DEF Transmits
  <2>3. /\ pio'.txFifo = more /\ transport' = [transport EXCEPT !.feedIndex = @ + 1]
        /\ cpu' = cpu
    BY <1>1, <1>7 DEF FeedByte, PioRecords
  <2> HIDE DEF more
  <2>4. /\ transport'.feedIndex = transport.feedIndex + 1
        /\ transport'.loaded /\ ~transport'.staged
        /\ transport'.current = transport.current
        /\ transport'.integrityLost = transport.integrityLost
    BY <1>1, <2>1, <2>3 DEF TransportRecords
  <2> QED
    BY <1>5, <2>1, <2>2, <2>3, <2>4 DEF Transmits
<1>8. CASE EndFeed
  <2>1. /\ transport'.staged => transport.loaded /\ transport.feedIndex = PacketLength
        /\ transport'.loaded = transport.loaded /\ transport'.current = transport.current
        /\ transport'.feedIndex = transport.feedIndex /\ transport'.queue = transport.queue
        /\ transport'.integrityLost = transport.integrityLost
    BY <1>1, <1>8 DEF EndFeed, StagedAfterFeed, TransportRecords
  <2>2. pio' = pio /\ cpu'.at # "publish"
    BY <1>1, <1>8 DEF EndFeed, CpuRecords
  <2> QED
    BY <1>5, <2>1, <2>2 DEF Transmits
<1>9. CASE Pop
  <2>1. /\ transport'.staged = transport.staged
        /\ transport'.loaded = transport.loaded /\ transport'.current = transport.current
        /\ transport'.feedIndex = transport.feedIndex /\ transport'.queue = transport.queue
        /\ transport'.integrityLost = transport.integrityLost
        /\ ~transport.integrityLost /\ pio' = pio
    BY <1>1, <1>9 DEF Pop, TransportRecords
  <2> QED
    BY <1>5, <2>1 DEF Transmits
<1>10. CASE EnqueueTxPacket
  <2> DEFINE more == Append(transport.queue, used.packets + 1)
             t    == [transport EXCEPT !.queue = more, !.irq = TRUE]
  <2>1. ~transport.integrityLost /\ pio' = pio /\ transport' = LoadPacket(t)
    BY <1>5, <1>10 DEF EnqueueTxPacket
  <2>2. more \in Seq(1 .. MaxPackets)
    <3>1. used.packets + 1 \in 1 .. MaxPackets
      BY <1>1, <1>10, Geometry DEF EnqueueTxPacket, UsedRecords
    <3> QED
      BY <1>1, <3>1, Appended DEF TransportRecords
  <2> HIDE DEF more
  <2>3. /\ t \in TransportRecords
        /\ t.staged = transport.staged /\ t.loaded = transport.loaded
        /\ t.current = transport.current /\ t.feedIndex = transport.feedIndex
        /\ t.integrityLost = transport.integrityLost
    BY <1>1, <2>2 DEF TransportRecords
  <2> HIDE DEF t
  <2>4. Transmits(t, FramePending, Taken, pio.txFifo)
    BY <1>5, <2>1, <2>3 DEF Transmits
  <2>5. transport'.integrityLost = transport.integrityLost
    BY <2>1, <2>3, LoadPacketFields
  <2> QED
    BY <1>2, <2>1, <2>3, <2>4, <2>5, LoadTransmits
<1>11. CASE NothingToEnqueue
  BY <1>5, <1>11 DEF NothingToEnqueue
<1> QED
  BY <1>6, <1>7, <1>8, <1>9, <1>10, <1>11

\* A packet that is retired as sent was read to its last byte by the frame that
\* ended, and the FIFO holds nothing of it.
LEMMA RetiredPacketWasRead ==
  ASSUME FullOrShort, AlignedInvariant, ReceiveMarker, transport.loaded
  PROVE  /\ pio.txFifo = <<>>
         /\ Len(host.read) >= PacketLength
         /\ SubSeq(host.read, 1, PacketLength) = BytesOf(transport.current)
<1>1. FramePending /\ transport.staged
  BY DEF ReceiveMarker, TakeMarker, NothingToReceive, FramePending
<1>2. PICK count \in Nat :
        Holds(pio.rxFifo, count, Pushed, Marked, host.frames)
  BY <1>1 DEF AlignedInvariant, FrameInvariant, ReceiveOK
<1>3. pio.rxFifo # <<>> /\ Head(pio.rxFifo) = FrameEndMarker /\ host.frames >= 1
  BY <1>1 DEF ReceiveMarker, TakeMarker, NothingToReceive,
              AlignedInvariant, FrameInvariant, FrameOK
<1>4. Marked = 1
  BY <1>2, <1>3, FrameTypes, MarkerTaken DEF AlignedInvariant, FrameInvariant
<1>5. pio.pc = "wait_cs_low" /\ host.cs = "high"
  BY <1>4 DEF Marked
<1>6. Taken = host.read /\ Len(host.read) \in FrameLengths
  BY <1>1, <1>5 DEF Taken, AlignedInvariant, FrameInvariant, FrameOK
<1>7. Fed(host.read, pio.txFifo, transport.current, PacketLength)
  BY <1>1, <1>6 DEF AlignedInvariant, Transmits
<1>8. /\ host.read \in Seq(Words) /\ pio.txFifo \in Seq(Words)
      /\ Len(pio.txFifo) <= FifoDepth /\ transport.current \in Nat
  BY Geometry
  DEF AlignedInvariant, FrameInvariant, TransportInvariant, PioOK, PioRecords, HostRecords,
      TransportOK, TransportRecords
<1> QED
  BY <1>6, <1>7, <1>8, FrameTookPacket

\* The C++ steps that receive.
LEMMA ReceiveKeepsAligned ==
  ASSUME FullOrShort, AlignedInvariant, FrameInvariant', TransportInvariant',
         ReceiveByte \/ ReceiveMarkerUnderrun \/ ReceiveMarker
  PROVE  AlignedInvariant'
<1>1. /\ transport \in TransportRecords /\ pio \in PioRecords /\ cpu \in CpuRecords
  BY DEF AlignedInvariant, FrameInvariant, TransportInvariant, TransportOK, PioOK
<1>2. Transmits(transport, FramePending, Taken, pio.txFifo)
  BY DEF AlignedInvariant
<1>3. cpu'.at # "publish" /\ host' = host
  BY <1>1 DEF ReceiveByte, ReceiveMarkerUnderrun, ReceiveMarker, TakeMarker, CpuRecords
<1>4. CASE ReceiveByte
  <2>1. FramePending /\ FramePending'
    BY <1>4, ReceiveByteKeepsFrames DEF AlignedInvariant
  <2>2. /\ pio'.pc = pio.pc /\ pio'.osr = pio.osr /\ pio'.txFifo = pio.txFifo
    BY <1>1, <1>4 DEF ReceiveByte, PioRecords
  <2>3. Taken' = Taken
    BY <1>3, <2>1, <2>2 DEF Taken
  <2>4. /\ transport'.staged = transport.staged
        /\ transport'.loaded = transport.loaded /\ transport'.current = transport.current
        /\ transport'.feedIndex = transport.feedIndex /\ transport'.queue = transport.queue
        /\ transport'.integrityLost = transport.integrityLost
    BY <1>1, <1>4 DEF ReceiveByte, TransportRecords
  <2> QED
    BY <1>2, <1>3, <2>1, <2>2, <2>3, <2>4 DEF AlignedInvariant, Transmits
<1>5. CASE ReceiveMarkerUnderrun \/ ReceiveMarker
  <2> DEFINE received == CompleteRxFrame(transport)
             unloaded == Unloaded(received)
  <2>1. FramePending /\ ~FramePending' /\ pio'.txFifo = pio.txFifo
    BY <1>5, MarkerKeepsFrames DEF AlignedInvariant
  <2>2. Taken' = <<>>
    BY <2>1 DEF Taken
  <2>3. transport.loaded /\ ~transport.integrityLost
    BY <1>2, <2>1 DEF Transmits
  <2>4. /\ received \in TransportRecords
        /\ received.integrityLost = transport.integrityLost
    BY <1>1, CompleteRxFrameFields
  <2>5. /\ unloaded \in TransportRecords /\ ~unloaded.loaded /\ ~unloaded.staged
        /\ unloaded.integrityLost = transport.integrityLost
    BY <2>4, UnloadedFields
  <2>6. \/ /\ ReceiveMarkerUnderrun
           /\ transport' = [unloaded EXCEPT !.queue = <<>>, !.integrityLost = TRUE,
                                            !.irq = FALSE]
        \/ ReceiveMarker /\ transport' = LoadPacket(unloaded)
    BY <1>5 DEF ReceiveMarkerUnderrun, ReceiveMarker
  <2> HIDE DEF received, unloaded
  <2>7. CASE /\ ReceiveMarkerUnderrun
             /\ transport' = [unloaded EXCEPT !.queue = <<>>, !.integrityLost = TRUE,
                                              !.irq = FALSE]
    <3>1. /\ ~transport'.loaded /\ ~transport'.staged /\ transport'.queue = <<>>
          /\ transport'.integrityLost
      BY <2>5, <2>7 DEF TransportRecords
    <3> QED
      BY <1>3, <2>1, <3>1 DEF AlignedInvariant, Transmits
  <2>8. CASE ReceiveMarker /\ transport' = LoadPacket(unloaded)
    <3>1. pio'.txFifo = <<>>
      BY <2>1, <2>3, <2>8, RetiredPacketWasRead
    <3>2. Transmits(unloaded, FALSE, <<>>, <<>>)
      BY <2>3, <2>5 DEF Transmits
    <3>3. Transmits(transport', FALSE, <<>>, <<>>)
      BY <2>5, <2>8, <3>2, LoadTransmits
    <3>4. Transmits(transport', FramePending', Taken', pio'.txFifo)
      BY <2>1, <2>2, <3>1, <3>3 DEF Transmits
    <3> QED
      BY <1>3, <3>4 DEF AlignedInvariant
  <2> QED
    BY <2>6, <2>7, <2>8
<1> QED
  BY <1>4, <1>5

\* clearTxQueue leaves an empty transmitter and an empty FIFO.
LEMMA ClearKeepsAligned ==
  ASSUME AlignedInvariant, FrameInvariant', ~FramePending', ClearTxQueue
  PROVE  AlignedInvariant'
<1>1. transport' = EmptyTransport /\ pio'.txFifo = <<>>
  BY DEF ClearTxQueue, EmptiedPio, AlignedInvariant, FrameInvariant, TransportInvariant,
         PioOK, PioRecords
<1>2. ~transport'.loaded /\ ~transport'.staged /\ ~transport'.integrityLost
  BY <1>1 DEF EmptyTransport
<1> QED
  BY <1>1, <1>2 DEF AlignedInvariant, Transmits

\* The PIO program moves the packet's next byte from the FIFO into its shift
\* register, and filler only behind the packet.
LEMMA PioKeepsAligned ==
  ASSUME TimingHolds, AlignedInvariant, FrameInvariant',
         FramePending, FramePending', PioStep
  PROVE  AlignedInvariant'
<1>1. /\ transport \in TransportRecords /\ pio \in PioRecords /\ host.read \in Seq(Words)
      /\ Filler \in Words
  BY Geometry
  DEF AlignedInvariant, FrameInvariant, TransportInvariant, TransportOK, PioOK, HostRecords
<1>2. host' = host /\ transport' = transport /\ cpu' = cpu
  BY DEF PioStep, PioWaitCsLow, PioByteLoop, PioPush, PioFrameEnd
<1>3. /\ Transmits(transport, FramePending, Taken, pio.txFifo)
      /\ transport.integrityLost => cpu.at # "publish"
  BY DEF AlignedInvariant
<1>4. CASE PioWaitCsLow \/ PioPush \/ PioFrameEnd
  <2>1. pio.pc # "bit_loop" /\ pio'.pc # "bit_loop" /\ pio'.txFifo = pio.txFifo
    BY <1>1, <1>4 DEF PioWaitCsLow, PioPush, PioFrameEnd, PioRecords
  <2>2. Taken' = Taken
    BY <1>2, <2>1 DEF Taken
  <2> QED
    BY <1>2, <1>3, <2>1, <2>2 DEF AlignedInvariant, Transmits
<1>5. CASE PioByteLoop
  <2>1. /\ transport.loaded /\ Taken = host.read
        /\ Fed(host.read, pio.txFifo, transport.current, transport.feedIndex)
    BY <1>3, <1>5 DEF Transmits, PioByteLoop, Taken
  <2>2. pio.txFifo # <<>> \/ transport.feedIndex = PacketLength
    BY <1>5, <2>1 DEF PioByteLoop, TimingHolds
  <2>3. pio'.pc = "bit_loop" /\ Taken' = Append(host.read, pio'.osr)
    BY <1>1, <1>2, <1>5 DEF PioByteLoop, PioRecords, Taken
  <2>4. Fed(Taken', pio'.txFifo, transport.current, transport.feedIndex)
    <3>1. CASE pio.txFifo = <<>>
      <4>1. pio'.osr = Filler /\ pio'.txFifo = <<>>
        BY <1>1, <1>5, <3>1 DEF PioByteLoop, PioRecords
      <4>2. Fed(host.read, <<>>, transport.current, PacketLength)
        BY <2>1, <2>2, <3>1
      <4>3. Fed(Append(host.read, Filler), <<>>, transport.current, PacketLength)
        BY <1>1, <4>2, FillerTaken
      <4> QED
        BY <2>2, <2>3, <3>1, <4>1, <4>3
    <3>2. CASE pio.txFifo # <<>>
      <4>1. pio'.osr = Head(pio.txFifo) /\ pio'.txFifo = Tail(pio.txFifo)
        BY <1>1, <1>5, <3>2 DEF PioByteLoop, PioRecords
      <4>2. /\ pio.txFifo \in Seq(Words) /\ transport.current \in Nat
            /\ transport.feedIndex \in 0 .. PacketLength
        BY <1>1, Geometry DEF PioRecords, TransportRecords
      <4>3. Fed(Append(host.read, Head(pio.txFifo)), Tail(pio.txFifo),
                transport.current, transport.feedIndex)
        BY <1>1, <2>1, <3>2, <4>2, NextByteTaken
      <4> QED
        BY <2>3, <4>1, <4>3
    <3> QED
      BY <3>1, <3>2
  <2> QED
    BY <1>2, <1>3, <2>1, <2>4 DEF AlignedInvariant, Transmits
<1> QED
  BY <1>4, <1>5 DEF PioStep

\* The host reads the byte in the shift register; a frame it starts finds a
\* packet loaded, because SLAVE_IRQ asked for it.
LEMMA HostKeepsAligned ==
  ASSUME TimingHolds, AlignedInvariant, FrameInvariant', FramePending',
         HostSelect => ~FramePending, ~HostSelect => FramePending, HostStep
  PROVE  AlignedInvariant'
<1>1. /\ pio \in PioRecords /\ host \in HostRecords
  BY DEF AlignedInvariant, FrameInvariant, TransportInvariant, PioOK
<1>2. transport' = transport /\ cpu' = cpu
  BY DEF HostStep, HostSelect, HostClock, HostRelease
<1>3. /\ Transmits(transport, FramePending, Taken, pio.txFifo)
      /\ transport.integrityLost => cpu.at # "publish"
  BY DEF AlignedInvariant
<1>4. CASE HostSelect
  <2>1. ~FramePending /\ transport.loaded /\ pio' = pio /\ host'.read = <<>>
    BY <1>4 DEF HostSelect, Settled, TimingHolds
  <2>2. Taken = <<>> /\ Taken' = <<>>
    BY <2>1 DEF Taken, FramePending
  <2> QED
    BY <1>2, <1>3, <2>1, <2>2 DEF AlignedInvariant, Transmits
<1>5. CASE HostClock
  <2>1. /\ FramePending /\ pio.pc = "bit_loop" /\ pio'.pc = "push"
        /\ pio'.txFifo = pio.txFifo /\ host'.read = Append(host.read, pio.osr)
    BY <1>1, <1>5 DEF HostClock, HostSelect, PioRecords, HostRecords
  <2>2. Taken' = Taken
    BY <2>1 DEF Taken
  <2> QED
    BY <1>2, <1>3, <2>1, <2>2 DEF AlignedInvariant, Transmits
<1>6. CASE HostRelease
  <2>1. FramePending /\ pio' = pio /\ host'.read = host.read
    BY <1>1, <1>6 DEF HostRelease, HostSelect, HostRecords
  <2>2. Taken' = Taken
    BY <2>1 DEF Taken
  <2> QED
    BY <1>2, <1>3, <2>1, <2>2 DEF AlignedInvariant, Transmits
<1> QED
  BY <1>4, <1>5, <1>6 DEF HostStep

\* AlignedInvariant is inductive.
LEMMA StepKeepsAligned ==
  ASSUME TimingHolds, FullOrShort, AlignedInvariant, Next
  PROVE  AlignedInvariant'
<1>1. SeparateFrames /\ FrameInvariant
  BY TimingSeparatesFrames DEF AlignedInvariant
<1>2. TransportInvariant' /\ FrameInvariant'
  BY <1>1, StepKeepsTypes, StepKeepsFrames DEF FrameInvariant
<1>3. CASE CpuStep
  <2>1. CASE ReceiveByte \/ ReceiveMarkerUnderrun \/ ReceiveMarker
    BY <1>2, <2>1, ReceiveKeepsAligned
  <2>2. CASE ClearTxQueue
    BY <1>1, <1>2, <2>2, ClearKeepsFrames, ClearKeepsAligned
  <2>3. CASE \/ EndReceive \/ FeedByte \/ EndFeed
             \/ Pop \/ EnqueueTxPacket \/ NothingToEnqueue
    BY <1>1, <1>2, <2>3, CpuKeepsFrames, CpuKeepsAligned
  <2> QED
    BY <1>3, <2>1, <2>2, <2>3 DEF CpuStep
<1>4. CASE PioStep
  BY <1>1, <1>2, <1>4, PioKeepsFrames, PioKeepsAligned
<1>5. CASE HostStep
  BY <1>1, <1>2, <1>5, HostKeepsFrames, HostKeepsAligned
<1> QED
  BY <1>3, <1>4, <1>5 DEF Next

\* The invariant of every state.
LEMMA AlignedInvariantHolds ==
  ASSUME TimingHolds, FullOrShort
  PROVE  Spec => []AlignedInvariant
<1>1. AlignedInvariant /\ [Next]_vars => AlignedInvariant'
  <2> SUFFICES ASSUME AlignedInvariant, [Next]_vars PROVE AlignedInvariant'
    OBVIOUS
  <2>1. CASE UNCHANGED vars
    <3>1. FrameInvariant'
      BY <2>1, ReceiveSideKept DEF vars, AlignedInvariant, FrameInvariant, TransportInvariant
    <3>2. /\ FramePending' = FramePending /\ Taken' = Taken
          /\ transport' = transport /\ pio' = pio /\ cpu' = cpu
      BY <2>1 DEF vars, FramePending, Taken
    <3> QED
      BY <3>1, <3>2 DEF AlignedInvariant
  <2> QED
    BY <2>1, StepKeepsAligned
<1> QED
  BY <1>1, AlignedInit, PTL DEF Spec

\* With the timing kept, and frames that hold a whole packet or stop short of
\* what the FIFO would let the firmware feed, the bytes taken, queued and still
\* to be fed are together the loaded packet, in order, whatever was sent,
\* cut short, cleared or lost before; nothing shifts the packets behind it.
THEOREM BytesStayAligned ==
  ASSUME TimingHolds, FullOrShort
  PROVE  Spec => []PacketAligned
<1>1. AlignedInvariant => PacketAligned
  <2> SUFFICES ASSUME AlignedInvariant PROVE PacketAligned
    OBVIOUS
  <2>1. /\ Taken \in Seq(Words) /\ pio.txFifo \in Seq(Words)
        /\ transport.current \in Nat /\ transport.feedIndex \in 0 .. PacketLength
    BY TakenTypes, Geometry
    DEF AlignedInvariant, FrameInvariant, TransportInvariant, TransportOK, TransportRecords,
        PioOK, PioRecords
  <2>2. transport.loaded =>
          Fed(Taken, pio.txFifo, transport.current, transport.feedIndex)
    BY DEF AlignedInvariant, Transmits
  <2>3. ~transport.loaded /\ ~transport.integrityLost => pio.txFifo = <<>>
    BY DEF AlignedInvariant, Transmits
  <2> QED
    BY <2>1, <2>2, <2>3, PiecesMakePacket DEF PacketAligned, Unfed
<1> QED
  BY <1>1, AlignedInvariantHolds, PTL

\* Under the same assumptions, a packet is retired as sent only when the host
\* has read all its bytes in one frame.
THEOREM RetiredAfterDelivery ==
  ASSUME TimingHolds, FullOrShort
  PROVE  Spec => RetiredWasDelivered
<1>1. AlignedInvariant /\ [Next]_vars =>
        [ReceiveMarker /\ transport.staged =>
           /\ Len(host.read) >= PacketLength
           /\ SubSeq(host.read, 1, PacketLength) = BytesOf(transport.current)]_vars
  <2> SUFFICES ASSUME AlignedInvariant, ReceiveMarker, transport.staged
               PROVE  /\ Len(host.read) >= PacketLength
                      /\ SubSeq(host.read, 1, PacketLength) = BytesOf(transport.current)
    OBVIOUS
  <2>1. transport.loaded
    BY DEF AlignedInvariant, Transmits
  <2> QED
    BY <2>1, RetiredPacketWasRead
<1> QED
  BY <1>1, AlignedInvariantHolds, PTL DEF Spec, RetiredWasDelivered

-----------------------------------------------------------------------------
(* Frames: the transport as FrameDelivery sees it *)

\* What a transport record becomes there, with "staged" and the line as
\* FrameTransport takes them from the host and from the call under way.
Mapped(t, staged, irq) ==
  [queue         |-> t.queue,
   current       |-> t.current,
   loaded        |-> t.loaded,
   staged        |-> staged,
   rxPacket      |-> IF t.rxReady THEN t.rxPacket[1][1] ELSE NoCommand,
   rxReady       |-> t.rxReady,
   integrityLost |-> t.integrityLost,
   irq           |-> irq]

\* Its values, with any set of commands.
MappedRecords(commands) ==
  [queue         : Seq(1 .. MaxPackets),
   current       : 0 .. MaxPackets,
   loaded        : BOOLEAN,
   staged        : BOOLEAN,
   rxPacket      : commands,
   rxReady       : BOOLEAN,
   integrityLost : BOOLEAN,
   irq           : BOOLEAN]

\* It has the types of the record of TransportFrames.tla.
LEMMA MappedType ==
  ASSUME NEW t \in TransportRecords, NEW staged \in BOOLEAN, NEW irq \in BOOLEAN,
         NEW commands, Mapped(t, staged, irq).rxPacket \in commands
  PROVE  Mapped(t, staged, irq) \in MappedRecords(commands)
<1> DEFINE m == Mapped(t, staged, irq)
<1>1. Mapped(t, staged, irq).rxPacket = IF t.rxReady THEN t.rxPacket[1][1] ELSE NoCommand
  BY DEF Mapped
<1> QED
  BY <1>1 DEF Mapped, MappedRecords, TransportRecords

\* Two records with the same fields are the same.
LEMMA SameFields ==
  ASSUME NEW commands, NEW m \in MappedRecords(commands), NEW n \in MappedRecords(commands),
         m.queue = n.queue, m.current = n.current, m.loaded = n.loaded,
         m.staged = n.staged, m.rxPacket = n.rxPacket, m.rxReady = n.rxReady,
         m.integrityLost = n.integrityLost, m.irq = n.irq
  PROVE  m = n
BY DEF MappedRecords

\* The fields of a transport seen as FrameDelivery.tla does.
LEMMA MappedHas ==
  ASSUME NEW t, NEW staged, NEW irq
  PROVE  LET m == Mapped(t, staged, irq)
         IN  /\ m.queue = t.queue /\ m.current = t.current /\ m.loaded = t.loaded
             /\ m.staged = staged /\ m.rxReady = t.rxReady
             /\ m.rxPacket = IF t.rxReady THEN t.rxPacket[1][1] ELSE NoCommand
             /\ m.integrityLost = t.integrityLost /\ m.irq = irq
BY DEF Mapped

\* It depends on these fields and no other.
LEMMA MappedFields ==
  ASSUME NEW t, NEW u, NEW staged, NEW irq,
         u.queue = t.queue, u.current = t.current, u.loaded = t.loaded,
         u.rxPacket = t.rxPacket, u.rxReady = t.rxReady, u.integrityLost = t.integrityLost
  PROVE  Mapped(u, staged, irq) = Mapped(t, staged, irq)
BY DEF Mapped

\* Loading a packet leaves a transport.
LEMMA LoadPacketType ==
  ASSUME NEW t \in TransportRecords
  PROVE  LoadPacket(t) \in TransportRecords
<1>1. CASE ~t.loaded /\ t.queue # <<>>
  <2>1. Head(t.queue) \in 1 .. MaxPackets /\ Tail(t.queue) \in Seq(1 .. MaxPackets)
    BY <1>1, Removed DEF TransportRecords
  <2>2. 0 \in 0 .. PacketLength /\ Head(t.queue) \in 0 .. MaxPackets
    BY <2>1, Geometry
  <2> DEFINE first == Head(t.queue)
             rest == Tail(t.queue)
  <2>3. LoadPacket(t) = [t EXCEPT !.queue = rest, !.current = first, !.loaded = TRUE,
                                  !.feedIndex = 0]
    BY <1>1 DEF LoadPacket
  <2> HIDE DEF first, rest
  <2>4. [t EXCEPT !.queue = rest, !.current = first, !.loaded = TRUE, !.feedIndex = 0]
          \in TransportRecords
    BY <2>1, <2>2 DEF TransportRecords, first, rest
  <2> QED
    BY <2>3, <2>4
<1>2. CASE ~(~t.loaded /\ t.queue # <<>>)
  BY <1>2 DEF LoadPacket
<1> QED
  BY <1>1, <1>2

\* serviceTxFifo loads the same packet.
LEMMA MappedLoad ==
  ASSUME NEW t \in TransportRecords, NEW staged, NEW irq
  PROVE  Mapped(LoadPacket(t), staged, irq) = Frames!ServiceTxFifo(Mapped(t, staged, irq))
<1>1. CASE ~t.loaded /\ t.queue # <<>>
  <2> DEFINE u == [t EXCEPT !.queue = Tail(@), !.current = Head(t.queue), !.loaded = TRUE,
                            !.feedIndex = 0]
  <2>1. LoadPacket(t) = u
    BY <1>1 DEF LoadPacket
  <2>2. /\ u.queue = Tail(t.queue) /\ u.current = Head(t.queue) /\ u.loaded = TRUE
        /\ u.rxPacket = t.rxPacket /\ u.rxReady = t.rxReady
        /\ u.integrityLost = t.integrityLost
    BY DEF TransportRecords
  <2> HIDE DEF u
  <2> QED
    BY <1>1, <2>1, <2>2 DEF Mapped, Frames!ServiceTxFifo
<1>2. CASE ~(~t.loaded /\ t.queue # <<>>)
  BY <1>2 DEF LoadPacket, Mapped, Frames!ServiceTxFifo
<1> QED
  BY <1>1, <1>2

\* enqueueTxPacket puts it behind the others and raises the line.
LEMMA MappedEnqueue ==
  ASSUME NEW t \in TransportRecords, NEW packet \in 1 .. MaxPackets,
         NEW staged \in BOOLEAN, NEW irq \in BOOLEAN
  PROVE  LET u == LoadPacket([t EXCEPT !.queue = Append(@, packet), !.irq = TRUE])
         IN  Mapped(u, staged, TRUE) = Frames!EnqueueTxPacket(Mapped(t, staged, irq), packet)
<1> DEFINE more == Append(t.queue, packet)
           v == [t EXCEPT !.queue = more, !.irq = TRUE]
           m == Mapped(t, staged, irq)
           n == Mapped(v, staged, TRUE)
           w == [m EXCEPT !.queue = more, !.irq = TRUE]
           commands == {m.rxPacket, n.rxPacket}
<1>1. more \in Seq(1 .. MaxPackets)
  BY Appended DEF TransportRecords
<1> HIDE DEF more
<1>2. /\ v \in TransportRecords /\ v.queue = more /\ v.current = t.current
      /\ v.loaded = t.loaded /\ v.rxPacket = t.rxPacket /\ v.rxReady = t.rxReady
      /\ v.integrityLost = t.integrityLost
  BY <1>1 DEF TransportRecords
<1> HIDE DEF v
<1>3. m \in MappedRecords(commands) /\ n \in MappedRecords(commands)
  BY <1>2, MappedType
<1>4. /\ n.queue = more /\ n.current = m.current /\ n.loaded = m.loaded
      /\ n.staged = m.staged /\ n.rxPacket = m.rxPacket /\ n.rxReady = m.rxReady
      /\ n.integrityLost = m.integrityLost /\ n.irq = TRUE
  BY <1>2 DEF Mapped
<1>5. m.queue = t.queue
  BY MappedHas
<1> HIDE DEF m, n, commands
<1>6. /\ w \in MappedRecords(commands)
      /\ w.queue = more /\ w.current = m.current /\ w.loaded = m.loaded
      /\ w.staged = m.staged /\ w.rxPacket = m.rxPacket /\ w.rxReady = m.rxReady
      /\ w.integrityLost = m.integrityLost /\ w.irq = TRUE
  BY <1>1, <1>3 DEF MappedRecords
<1>7. w = n
  <2> HIDE DEF w
  <2> QED
    BY <1>3, <1>4, <1>6, SameFields
<1>8. Frames!EnqueueTxPacket(m, packet) = Frames!ServiceTxFifo(w)
  BY <1>5 DEF Frames!EnqueueTxPacket, more
<1>9. Mapped(LoadPacket(v), staged, TRUE) = Frames!ServiceTxFifo(n)
  BY <1>2, MappedLoad DEF n
<1> QED
  BY <1>7, <1>8, <1>9 DEF v, m, more

\* clearTxQueue leaves what it leaves there.
LEMMA MappedClear ==
  ASSUME NEW t \in TransportRecords, NEW staged \in BOOLEAN, NEW irq \in BOOLEAN
  PROVE  Mapped(EmptyTransport, FALSE, FALSE) = Frames!ClearTxQueue(Mapped(t, staged, irq))
<1> DEFINE m == Mapped(t, staged, irq)
           n == Mapped(EmptyTransport, FALSE, FALSE)
           w == [m EXCEPT !.queue = <<>>, !.current = NoPacket, !.loaded = FALSE,
                          !.staged = FALSE, !.rxPacket = NoCommand, !.rxReady = FALSE,
                          !.integrityLost = FALSE, !.irq = FALSE]
           commands == {m.rxPacket, n.rxPacket, NoCommand}
<1>1. /\ EmptyTransport.queue = <<>> /\ EmptyTransport.current = NoPacket
      /\ EmptyTransport.loaded = FALSE /\ EmptyTransport.rxReady = FALSE
      /\ EmptyTransport.integrityLost = FALSE
  BY DEF EmptyTransport
<1>2. EmptyTransport \in TransportRecords
  BY EmptyTransportOK DEF TransportOK
<1>3. m \in MappedRecords(commands) /\ n \in MappedRecords(commands)
  BY <1>2, MappedType
<1>4. /\ n.queue = <<>> /\ n.current = NoPacket /\ n.loaded = FALSE /\ n.staged = FALSE
      /\ n.rxPacket = NoCommand /\ n.rxReady = FALSE /\ n.integrityLost = FALSE
      /\ n.irq = FALSE
  BY <1>1 DEF Mapped
<1>5. NoCommand \in commands
  OBVIOUS
<1> HIDE DEF m, n, commands
<1>6. <<>> \in Seq(1 .. MaxPackets) /\ NoPacket \in 0 .. MaxPackets
  BY EmptyIsSequence, BoundAssumption DEF NoPacket
<1>7. /\ w \in MappedRecords(commands)
      /\ w.queue = <<>> /\ w.current = NoPacket /\ w.loaded = FALSE /\ w.staged = FALSE
      /\ w.rxPacket = NoCommand /\ w.rxReady = FALSE /\ w.integrityLost = FALSE
      /\ w.irq = FALSE
  BY <1>3, <1>5, <1>6 DEF MappedRecords
<1>8. w = n
  <2> HIDE DEF w
  <2> QED
    BY <1>3, <1>4, <1>7, SameFields
<1> QED
  BY <1>8 DEF m, n, Frames!ClearTxQueue

\* popRxPacket.
LEMMA MappedPop ==
  ASSUME NEW t \in TransportRecords, NEW staged \in BOOLEAN, NEW irq \in BOOLEAN
  PROVE  LET u == [t EXCEPT !.rxPacket = <<>>, !.rxReady = FALSE]
         IN  Mapped(u, staged, irq) = Frames!PopRxPacket(Mapped(t, staged, irq))
<1> DEFINE u == [t EXCEPT !.rxPacket = <<>>, !.rxReady = FALSE]
           m == Mapped(t, staged, irq)
           n == Mapped(u, staged, irq)
           w == [m EXCEPT !.rxPacket = NoCommand, !.rxReady = FALSE]
           commands == {m.rxPacket, n.rxPacket, NoCommand}
<1>1. /\ u \in TransportRecords
      /\ u.queue = t.queue /\ u.current = t.current /\ u.loaded = t.loaded
      /\ u.rxReady = FALSE /\ u.integrityLost = t.integrityLost
  BY EmptyIsSequence DEF TransportRecords
<1> HIDE DEF u
<1>2. m \in MappedRecords(commands) /\ n \in MappedRecords(commands)
  BY <1>1, MappedType
<1>3. /\ n.queue = m.queue /\ n.current = m.current /\ n.loaded = m.loaded
      /\ n.staged = m.staged /\ n.rxPacket = NoCommand /\ n.rxReady = FALSE
      /\ n.integrityLost = m.integrityLost /\ n.irq = m.irq
  BY <1>1, MappedHas
<1>4. NoCommand \in commands
  OBVIOUS
<1> HIDE DEF m, n, commands
<1>5. /\ w \in MappedRecords(commands)
      /\ w.queue = m.queue /\ w.current = m.current /\ w.loaded = m.loaded
      /\ w.staged = m.staged /\ w.rxPacket = NoCommand /\ w.rxReady = FALSE
      /\ w.integrityLost = m.integrityLost /\ w.irq = m.irq
  BY <1>2, <1>4 DEF MappedRecords
<1>6. w = n
  <2> HIDE DEF w
  <2> QED
    BY <1>2, <1>3, <1>5, SameFields
<1> QED
  BY <1>6 DEF m, n, u, Frames!PopRxPacket

\* completeRxFrame, when the assembly holds the frame that carried "command".
LEMMA MappedReceive ==
  ASSUME NEW t \in TransportRecords, NEW staged \in BOOLEAN, NEW irq \in BOOLEAN,
         NEW command,
         ~t.overflow /\ Len(t.assembly) = PacketLength => t.assembly[1][1] = command
  PROVE  Mapped(CompleteRxFrame(t), staged, irq) =
           IF ~t.overflow /\ Len(t.assembly) = PacketLength
           THEN Frames!CompleteRxFrame(Mapped(t, staged, irq), command)
           ELSE Mapped(t, staged, irq)
<1> DEFINE whole == ~t.overflow /\ Len(t.assembly) = PacketLength
           next == [t EXCEPT !.assembly = <<>>, !.overflow = FALSE]
           last == [next EXCEPT !.rxPacket = t.assembly, !.rxReady = TRUE]
<1>1. <<>> \in Seq(Words)
  BY EmptyIsSequence
<1>2. /\ next \in TransportRecords
      /\ next.queue = t.queue /\ next.current = t.current /\ next.loaded = t.loaded
      /\ next.rxPacket = t.rxPacket /\ next.rxReady = t.rxReady
      /\ next.integrityLost = t.integrityLost
  BY <1>1 DEF TransportRecords
<1> HIDE DEF next
<1>3. /\ last \in TransportRecords
      /\ last.queue = t.queue /\ last.current = t.current /\ last.loaded = t.loaded
      /\ last.rxPacket = t.assembly /\ last.rxReady = TRUE
      /\ last.integrityLost = t.integrityLost
  BY <1>2 DEF TransportRecords
<1>4. CompleteRxFrame(t) = IF ~t.overflow /\ Len(t.assembly) = PacketLength /\ ~t.rxReady
                           THEN last ELSE next
  BY DEF CompleteRxFrame, next
<1> HIDE DEF last
<1>5. Mapped(next, staged, irq) = Mapped(t, staged, irq)
  BY <1>2, MappedFields
<1>6. CASE whole /\ ~t.rxReady
  <2> DEFINE m == Mapped(t, staged, irq)
             n == Mapped(last, staged, irq)
             w == [m EXCEPT !.rxPacket = command, !.rxReady = TRUE]
             commands == {m.rxPacket, n.rxPacket, command}
  <2>1. m \in MappedRecords(commands) /\ n \in MappedRecords(commands)
    BY <1>3, MappedType
  <2>2. /\ n.queue = m.queue /\ n.current = m.current /\ n.loaded = m.loaded
        /\ n.staged = m.staged /\ n.rxPacket = command /\ n.rxReady = TRUE
        /\ n.integrityLost = m.integrityLost /\ n.irq = m.irq
    BY <1>3, <1>6, MappedHas
  <2>3. ~m.rxReady
    BY <1>6, MappedHas
  <2>4. command \in commands
    OBVIOUS
  <2> HIDE DEF m, n, commands
  <2>5. /\ w \in MappedRecords(commands)
        /\ w.queue = m.queue /\ w.current = m.current /\ w.loaded = m.loaded
        /\ w.staged = m.staged /\ w.rxPacket = command /\ w.rxReady = TRUE
        /\ w.integrityLost = m.integrityLost /\ w.irq = m.irq
    BY <2>1, <2>4 DEF MappedRecords
  <2>6. w = n
    <3> HIDE DEF w
    <3> QED
      BY <2>1, <2>2, <2>5, SameFields
  <2> QED
    BY <1>4, <1>6, <2>3, <2>6 DEF m, n, Frames!CompleteRxFrame
<1>7. CASE whole /\ t.rxReady
  <2>1. Mapped(t, staged, irq).rxReady
    BY <1>7, MappedHas
  <2> QED
    BY <1>4, <1>5, <1>7, <2>1 DEF Frames!CompleteRxFrame
<1>8. CASE ~whole
  BY <1>4, <1>5, <1>8
<1> QED
  BY <1>6, <1>7, <1>8

\* retireTransmittedPacket of a packet that was not read whole.
LEMMA MappedUnderrun ==
  ASSUME NEW t \in TransportRecords, t.loaded, NEW irq \in BOOLEAN
  PROVE  LET u == [Unloaded(t) EXCEPT !.queue = <<>>, !.integrityLost = TRUE, !.irq = FALSE]
         IN  Mapped(u, FALSE, FALSE) =
               Frames!ServiceTxFifo(Frames!RetireTransmittedPacket(Mapped(t, FALSE, irq)))
<1> DEFINE u == [Unloaded(t) EXCEPT !.queue = <<>>, !.integrityLost = TRUE, !.irq = FALSE]
           m == Mapped(t, FALSE, irq)
           n == Mapped(u, FALSE, FALSE)
           w == [m EXCEPT !.queue = <<>>, !.current = NoPacket, !.loaded = FALSE,
                          !.integrityLost = TRUE, !.irq = FALSE]
           commands == {m.rxPacket, n.rxPacket}
<1>1. /\ Unloaded(t) \in TransportRecords /\ Unloaded(t).loaded = FALSE
      /\ Unloaded(t).rxPacket = t.rxPacket /\ Unloaded(t).rxReady = t.rxReady
      /\ Unloaded(t).current = NoPacket
  <2>1. Unloaded(t).loaded = FALSE /\ Unloaded(t).current = NoPacket
    BY DEF Unloaded, TransportRecords
  <2> QED
    BY <2>1, UnloadedFields
<1>2. <<>> \in Seq(1 .. MaxPackets) /\ NoPacket \in 0 .. MaxPackets
  BY EmptyIsSequence, BoundAssumption DEF NoPacket
<1>3. /\ u \in TransportRecords
      /\ u.queue = <<>> /\ u.current = NoPacket /\ u.loaded = FALSE
      /\ u.rxPacket = t.rxPacket /\ u.rxReady = t.rxReady /\ u.integrityLost = TRUE
  BY <1>1, <1>2 DEF TransportRecords
<1> HIDE DEF u
<1>4. m \in MappedRecords(commands) /\ n \in MappedRecords(commands)
  BY <1>3, MappedType
<1>5. /\ n.queue = <<>> /\ n.current = NoPacket /\ n.loaded = FALSE /\ n.staged = m.staged
      /\ n.rxPacket = m.rxPacket /\ n.rxReady = m.rxReady /\ n.integrityLost = TRUE
      /\ n.irq = FALSE
  BY <1>3 DEF Mapped
<1>6. m.loaded /\ ~m.staged
  BY DEF Mapped
<1> HIDE DEF m, n, commands
<1>7. /\ w \in MappedRecords(commands)
      /\ w.queue = <<>> /\ w.current = NoPacket /\ w.loaded = FALSE /\ w.staged = m.staged
      /\ w.rxPacket = m.rxPacket /\ w.rxReady = m.rxReady /\ w.integrityLost = TRUE
      /\ w.irq = FALSE
  BY <1>2, <1>4 DEF MappedRecords
<1>8. w = n
  <2> HIDE DEF w
  <2> QED
    BY <1>4, <1>5, <1>7, SameFields
<1>9. Frames!RetireTransmittedPacket(m) = w
  BY <1>6 DEF Frames!RetireTransmittedPacket
<1> HIDE DEF w
<1>10. Frames!ServiceTxFifo(w) = w
  BY <1>7 DEF Frames!ServiceTxFifo
<1> QED
  BY <1>8, <1>9, <1>10 DEF m, n, u

\* retireTransmittedPacket of one that was; the line follows what is left.
LEMMA MappedRetire ==
  ASSUME NEW t \in TransportRecords, NEW irq \in BOOLEAN, NEW staged \in BOOLEAN,
         t.loaded => staged
  PROVE  LET u == LoadPacket(Unloaded(t))
         IN  Mapped(u, FALSE, ~TxIdle(u)) =
               Frames!ServiceTxFifo(Frames!RetireTransmittedPacket(Mapped(t, staged, irq)))
<1> DEFINE unloaded == Unloaded(t)
           u == LoadPacket(unloaded)
           m == Mapped(t, staged, irq)
           n == Mapped(unloaded, FALSE, irq)
           w == [m EXCEPT !.current = NoPacket, !.loaded = FALSE, !.staged = FALSE]
           rest == Mapped(u, FALSE, irq)
           last == Mapped(u, FALSE, ~TxIdle(u))
           lowered == [rest EXCEPT !.irq = ~TxIdle(u)]
           commands == {m.rxPacket, n.rxPacket, rest.rxPacket, last.rxPacket}
<1>1. /\ unloaded \in TransportRecords /\ ~unloaded.loaded /\ ~unloaded.staged
      /\ unloaded.queue = t.queue /\ unloaded.current = NoPacket
      /\ unloaded.rxPacket = t.rxPacket /\ unloaded.rxReady = t.rxReady
      /\ unloaded.integrityLost = t.integrityLost
  <2>1. unloaded.current = NoPacket
    BY DEF Unloaded, TransportRecords
  <2> QED
    BY <2>1, UnloadedFields
<1>2. unloaded.loaded = FALSE
  BY <1>1 DEF TransportRecords
<1> HIDE DEF unloaded
<1>3. NoPacket \in 0 .. MaxPackets
  BY BoundAssumption DEF NoPacket
<1>4. /\ u \in TransportRecords /\ ~u.staged
      /\ u.loaded \/ (u = unloaded /\ u.queue = <<>>)
  BY <1>1, LoadPacketFields, LoadPacketType
<1>5. TxIdle(u) \in BOOLEAN
  BY DEF TxIdle
<1>6. rest = Frames!ServiceTxFifo(n)
  BY <1>1, MappedLoad
<1> HIDE DEF u
<1>7. /\ m \in MappedRecords(commands) /\ n \in MappedRecords(commands)
      /\ rest \in MappedRecords(commands) /\ last \in MappedRecords(commands)
  BY <1>1, <1>4, <1>5, MappedType
<1>8. /\ n.queue = m.queue /\ n.current = NoPacket /\ n.loaded = FALSE /\ n.staged = FALSE
      /\ n.rxPacket = m.rxPacket /\ n.rxReady = m.rxReady
      /\ n.integrityLost = m.integrityLost /\ n.irq = m.irq
  BY <1>1, <1>2 DEF Mapped
<1>9. /\ last.queue = rest.queue /\ last.current = rest.current /\ last.loaded = rest.loaded
      /\ last.staged = rest.staged /\ last.rxPacket = rest.rxPacket
      /\ last.rxReady = rest.rxReady /\ last.integrityLost = rest.integrityLost
      /\ last.irq = ~TxIdle(u)
  BY DEF Mapped
<1>10. /\ m.loaded => m.staged
       /\ rest.queue = u.queue /\ rest.loaded = u.loaded /\ ~rest.staged
  BY DEF Mapped
<1> HIDE DEF m, n, rest, last, commands
<1>11. w = n
  <2>1. /\ w \in MappedRecords(commands)
        /\ w.queue = m.queue /\ w.current = NoPacket /\ w.loaded = FALSE /\ w.staged = FALSE
        /\ w.rxPacket = m.rxPacket /\ w.rxReady = m.rxReady
        /\ w.integrityLost = m.integrityLost /\ w.irq = m.irq
    BY <1>3, <1>7 DEF MappedRecords
  <2> HIDE DEF w
  <2> QED
    BY <1>7, <1>8, <2>1, SameFields
<1>12. lowered = last
  <2>1. /\ lowered \in MappedRecords(commands)
        /\ lowered.queue = rest.queue /\ lowered.current = rest.current
        /\ lowered.loaded = rest.loaded /\ lowered.staged = rest.staged
        /\ lowered.rxPacket = rest.rxPacket /\ lowered.rxReady = rest.rxReady
        /\ lowered.integrityLost = rest.integrityLost /\ lowered.irq = ~TxIdle(u)
    BY <1>5, <1>7 DEF MappedRecords
  <2> HIDE DEF lowered
  <2> QED
    BY <1>7, <1>9, <2>1, SameFields
<1>13. Frames!TxIdle(rest) = TxIdle(u)
  BY <1>4, <1>10 DEF Frames!TxIdle, TxIdle
<1>14. Frames!RetireTransmittedPacket(m) = [Frames!ServiceTxFifo(w) EXCEPT
                                              !.irq = ~Frames!TxIdle(Frames!ServiceTxFifo(w))]
  BY <1>10 DEF Frames!RetireTransmittedPacket
<1>15. Frames!RetireTransmittedPacket(m) = last
  BY <1>6, <1>11, <1>12, <1>13, <1>14
<1>16. Frames!ServiceTxFifo(last) = last
  BY <1>4, <1>9, <1>10 DEF Frames!ServiceTxFifo
<1> QED
  BY <1>15, <1>16 DEF m, last, u, unloaded

\* How far the line is ahead where its setIrq is still to come.
Line ==
  IF cpu.at = "feed" /\ cpu.then = "retire" THEN ~TxIdle(transport) ELSE transport.irq

\* Outside serviceTxFifo a packet fed to its last byte is staged, and what is
\* loaded is a packet.
RefinementInvariant ==
  /\ AlignedInvariant
  /\ cpu.at # "feed" /\ transport.loaded /\ transport.feedIndex = PacketLength =>
       transport.staged
  /\ transport.loaded => transport.current # NoPacket

\* The refinement mapping before and after a step.
LEMMA FrameTransportMapped ==
  /\ FrameTransport = Mapped(transport, FrameEnded /\ PacketWasRead, Line)
  /\ FrameTransport' = Mapped(transport', FrameEnded' /\ PacketWasRead', Line')
BY DEF FrameTransport, Mapped, Line

\* The types of a transport seen so.
LEMMA DeliveryTypes ==
  ASSUME RefinementInvariant
  PROVE  /\ transport \in TransportRecords /\ cpu \in CpuRecords /\ host \in HostRecords
         /\ pio \in PioRecords /\ used \in UsedRecords
         /\ FrameEnded \in BOOLEAN /\ PacketWasRead \in BOOLEAN /\ Line \in BOOLEAN
         /\ FramePending \in BOOLEAN
<1>1. /\ transport \in TransportRecords /\ cpu \in CpuRecords /\ host \in HostRecords
      /\ pio \in PioRecords /\ used \in UsedRecords
  BY DEF RefinementInvariant, AlignedInvariant, FrameInvariant, TransportInvariant,
         TransportOK, PioOK
<1>2. FrameEnded \in BOOLEAN /\ FramePending \in BOOLEAN /\ PacketWasRead \in BOOLEAN
  BY DEF FrameEnded, FramePending, PacketWasRead
<1>3. Line \in BOOLEAN
  BY <1>1 DEF Line, TxIdle, TransportRecords
<1> QED
  BY <1>1, <1>2, <1>3

\* A step of the firmware that leaves the frame where it was.
LEMMA SameFrame ==
  ASSUME host' = host, FramePending' <=> FramePending
  PROVE  /\ WireFrame' = WireFrame /\ HostRead' = HostRead
         /\ (FrameEnded' <=> FrameEnded) /\ (PacketWasRead' <=> PacketWasRead)
<1>1. (FrameEnded' <=> FrameEnded) /\ (PacketWasRead' <=> PacketWasRead)
  BY DEF FrameEnded, PacketWasRead
<1>2. HostRead' = HostRead
  BY <1>1 DEF HostRead
<1>3. WireFrame' = WireFrame
  BY <1>1 DEF WireFrame
<1> QED
  BY <1>1, <1>2, <1>3

\* The bytes of a packet name it.
LEMMA PacketOfBytes ==
  ASSUME NEW packet \in 1 .. MaxPackets
  PROVE  PacketOf(BytesOf(packet)) = packet
<1>1. \A other : BytesOf(packet) = BytesOf(other) => packet = other
  <2> TAKE other
  <2> HAVE BytesOf(packet) = BytesOf(other)
  <2>1. BytesOf(packet)[1] = <<packet, 1>> /\ BytesOf(other)[1] = <<other, 1>>
    <3>1. 1 \in 1 .. PacketLength
      BY Geometry
    <3> QED
      BY <3>1 DEF BytesOf
  <2>2. <<packet, 1>> = <<other, 1>>
    BY <2>1
  <2> QED
    BY <2>2
<1> DEFINE bytes == BytesOf(packet)
           S == 1 .. MaxPackets
<1>2. \E other \in S : bytes = BytesOf(other)
  OBVIOUS
<1>3. bytes = BytesOf(PacketOf(bytes))
  <2> HIDE DEF bytes
  <2> QED
    BY <1>2 DEF PacketOf
<1> QED
  BY <1>1, <1>3

\* The firmware's steps between two calls, and inside serviceTxFifo's loop, are
\* not seen.
LEMMA FeedingUnseen ==
  ASSUME RefinementInvariant, FramePending' <=> FramePending,
         FeedByte \/ EndFeed \/ NothingToEnqueue \/ ReceiveByte
  PROVE  UNCHANGED <<FrameTransport, WireFrame, HostRead>>
<1>1. transport \in TransportRecords /\ cpu \in CpuRecords
  BY DeliveryTypes
<1>2. host' = host
  BY DEF FeedByte, EndFeed, NothingToEnqueue, ReceiveByte
<1>3. /\ WireFrame' = WireFrame /\ HostRead' = HostRead
      /\ (FrameEnded' <=> FrameEnded) /\ (PacketWasRead' <=> PacketWasRead)
  BY <1>2, SameFrame
<1>4. /\ transport'.queue = transport.queue /\ transport'.current = transport.current
      /\ transport'.loaded = transport.loaded /\ transport'.rxPacket = transport.rxPacket
      /\ transport'.rxReady = transport.rxReady
      /\ transport'.integrityLost = transport.integrityLost
  BY <1>1 DEF FeedByte, EndFeed, NothingToEnqueue, ReceiveByte, TransportRecords
<1>5. Line' = Line
  <2>1. CASE FeedByte
    <3>1. cpu' = cpu /\ transport'.staged = transport.staged /\ transport'.irq = transport.irq
      BY <1>1, <2>1 DEF FeedByte, TransportRecords
    <3> QED
      BY <1>4, <3>1 DEF Line, TxIdle
  <2>2. CASE NothingToEnqueue \/ ReceiveByte
    <3>1. cpu.at # "feed" /\ cpu'.at # "feed" /\ transport'.irq = transport.irq
      BY <1>1, <2>2 DEF NothingToEnqueue, ReceiveByte, TransportRecords, CpuRecords
    <3> QED
      BY <3>1 DEF Line
  <2>3. CASE EndFeed
    <3> DEFINE fed == [transport EXCEPT !.staged = StagedAfterFeed(transport)]
    <3>1. cpu.at = "feed" /\ cpu'.at # "feed"
      BY <1>1, <2>3 DEF EndFeed, CpuRecords
    <3>2. transport.staged => transport.loaded
      BY DEF RefinementInvariant, AlignedInvariant, Transmits
    <3>3. /\ fed.queue = transport.queue /\ fed.loaded = transport.loaded
          /\ fed.irq = transport.irq /\ (fed.staged => transport.loaded)
          /\ fed \in TransportRecords
      BY <1>1 DEF TransportRecords, StagedAfterFeed
    <3>4. \/ cpu.then = "retire" /\ transport' = [fed EXCEPT !.irq = ~TxIdle(fed)]
          \/ cpu.then # "retire" /\ transport' = fed
      BY <2>3 DEF EndFeed
    <3> HIDE DEF fed
    <3>5. TxIdle(fed) <=> TxIdle(transport)
      BY <3>2, <3>3 DEF TxIdle
    <3>6. CASE cpu.then = "retire" /\ transport' = [fed EXCEPT !.irq = ~TxIdle(fed)]
      <4>1. transport'.irq = ~TxIdle(fed)
        BY <3>3, <3>6 DEF TransportRecords
      <4> QED
        BY <3>1, <3>5, <3>6, <4>1 DEF Line
    <3>7. CASE cpu.then # "retire" /\ transport' = fed
      BY <3>1, <3>3, <3>7 DEF Line
    <3> QED
      BY <3>4, <3>6, <3>7
  <2> QED
    BY <2>1, <2>2, <2>3
<1>6. (FrameEnded' /\ PacketWasRead') = (FrameEnded /\ PacketWasRead)
  BY <1>3
<1>7. FrameTransport' = FrameTransport
  BY <1>4, <1>5, <1>6, FrameTransportMapped, MappedFields
<1> QED
  BY <1>3, <1>7

\* Nor are the PIO program's, nor a byte clocked.
LEMMA WireUnseen ==
  ASSUME RefinementInvariant, FramePending, FramePending', PioStep \/ HostClock
  PROVE  UNCHANGED <<FrameTransport, WireFrame, HostRead>>
<1>1. transport' = transport /\ cpu' = cpu /\ host \in HostRecords
  BY DeliveryTypes
  DEF PioStep, PioWaitCsLow, PioByteLoop, PioPush, PioFrameEnd, HostClock
<1>2. Line' = Line
  BY <1>1 DEF Line, TxIdle
<1>3. CASE PioStep
  <2>1. host' = host
    BY <1>3 DEF PioStep, PioWaitCsLow, PioByteLoop, PioPush, PioFrameEnd
  <2>2. /\ WireFrame' = WireFrame /\ HostRead' = HostRead
        /\ (FrameEnded' <=> FrameEnded) /\ (PacketWasRead' <=> PacketWasRead)
    BY <2>1, SameFrame
  <2>3. (FrameEnded' /\ PacketWasRead') = (FrameEnded /\ PacketWasRead)
    BY <2>2
  <2>4. FrameTransport' = FrameTransport
    BY <1>1, <1>2, <2>3, FrameTransportMapped
  <2> QED
    BY <2>2, <2>4
<1>4. CASE HostClock
  <2>1. host.cs = "low" /\ host'.cs = "low"
    BY <1>1, <1>4 DEF HostClock, HostRecords
  <2>2. ~FrameEnded /\ ~FrameEnded' /\ HostRead' = HostRead
    BY <2>1 DEF FrameEnded, HostRead
  <2>3. WireFrame' = WireFrame
    BY <2>1, <2>2 DEF WireFrame
  <2>4. (FrameEnded' /\ PacketWasRead') = (FrameEnded /\ PacketWasRead)
    BY <2>2
  <2>5. FrameTransport' = FrameTransport
    BY <1>1, <1>2, <2>4, FrameTransportMapped
  <2> QED
    BY <2>2, <2>3, <2>5
<1> QED
  BY <1>3, <1>4

\* service() without a frame's end.
LEMMA EndReceiveServes ==
  ASSUME RefinementInvariant, FramePending' <=> FramePending, EndReceive
  PROVE  Frames!Service \/ UNCHANGED <<FrameTransport, WireFrame, HostRead>>
<1>1. transport \in TransportRecords /\ cpu \in CpuRecords
  BY DeliveryTypes
<1>2. /\ host' = host /\ cpu.at = "receive" /\ cpu'.at = "feed" /\ cpu'.then = "service"
      /\ transport' = LoadPacket(transport)
  BY DEF EndReceive
<1>3. /\ WireFrame' = WireFrame /\ HostRead' = HostRead
      /\ (FrameEnded' <=> FrameEnded) /\ (PacketWasRead' <=> PacketWasRead)
  BY <1>2, SameFrame
<1>4. Line' = Line
  BY <1>1, <1>2, LoadPacketFields DEF Line
<1>5. (FrameEnded' /\ PacketWasRead') = (FrameEnded /\ PacketWasRead)
  BY <1>3
<1>6. FrameTransport' = Frames!ServiceTxFifo(FrameTransport)
  <2> DEFINE staged == FrameEnded /\ PacketWasRead
  <2>1. FrameTransport' = Mapped(LoadPacket(transport), staged, Line)
    BY <1>2, <1>4, <1>5, FrameTransportMapped
  <2>2. FrameTransport = Mapped(transport, staged, Line)
    BY FrameTransportMapped
  <2> HIDE DEF staged
  <2> QED
    BY <1>1, <2>1, <2>2, MappedLoad
<1>7. CASE FrameEnded
  <2>1. transport.loaded
    BY <1>7 DEF FrameEnded, RefinementInvariant, AlignedInvariant, Transmits
  <2>2. LoadPacket(transport) = transport
    BY <2>1 DEF LoadPacket
  <2>3. FrameTransport' = FrameTransport
    BY <1>2, <1>4, <1>5, <2>2, FrameTransportMapped
  <2> QED
    BY <1>3, <2>3
<1>8. CASE ~FrameEnded
  <2>1. host.cs \in {"high", "low"}
    BY DeliveryTypes DEF HostRecords
  <2>2. WireFrame.phase # "ended"
    BY <1>8, <2>1 DEF WireFrame, FrameEnded
  <2> QED
    BY <1>3, <1>6, <2>2 DEF Frames!Service
<1> QED
  BY <1>7, <1>8

\* The end marker finds the frame ended, and the assembly with its bytes.
LEMMA MarkerEndsFrame ==
  ASSUME RefinementInvariant, TransportInvariant', ReceiveMarkerUnderrun \/ ReceiveMarker
  PROVE  /\ FrameEnded /\ ~FramePending' /\ ~FrameEnded' /\ host' = host
         /\ transport.loaded /\ cpu.at = "receive"
         /\ host.frames \in Nat /\ host.frames # NoCommand
         /\ Taken = host.read
         /\ host.length = PacketLength <=>
              ~transport.overflow /\ Len(transport.assembly) = PacketLength
         /\ host.length = PacketLength => transport.assembly[1][1] = host.frames
<1>1. FrameInvariant
  BY DEF RefinementInvariant, AlignedInvariant
<1>2. /\ FramePending /\ ~FramePending' /\ pio.pc = "wait_cs_low" /\ host.cs = "high"
  BY <1>1, MarkerKeepsFrames
<1>3. /\ pio.rxFifo # <<>> /\ Head(pio.rxFifo) = FrameEndMarker /\ host' = host
      /\ cpu.at = "receive"
  BY DEF ReceiveMarkerUnderrun, ReceiveMarker, TakeMarker, NothingToReceive
<1>4. FrameEnded /\ ~FrameEnded'
  BY <1>2 DEF FrameEnded
<1>5. transport.loaded
  BY <1>2 DEF RefinementInvariant, AlignedInvariant, Transmits
<1>6. /\ host.frames >= 1 /\ Len(host.read) = host.length
  BY <1>1, <1>2 DEF FrameInvariant, FrameOK
<1>7. PICK count \in Nat :
        /\ Holds(pio.rxFifo, count, Pushed, Marked, host.frames)
        /\ Assembled(transport.assembly, transport.overflow, count, host.frames)
  BY <1>1, <1>2 DEF FrameInvariant, ReceiveOK
<1>8. count = Pushed
  BY <1>1, <1>3, <1>6, <1>7, FrameTypes, MarkerTaken DEF FrameInvariant
<1>9. count = host.length
  BY <1>2, <1>6, <1>8 DEF Pushed
<1>10. host.frames \in Nat /\ host.frames # NoCommand
  BY <1>1, <1>6, FrameTypes DEF NoCommand, FrameInvariant
<1>11. host.length = PacketLength <=>
         ~transport.overflow /\ Len(transport.assembly) = PacketLength
  BY <1>7, <1>9, Geometry DEF Assembled
<1>12. host.length = PacketLength => transport.assembly[1][1] = host.frames
  <2> HAVE host.length = PacketLength
  <2>1. 1 \in 1 .. Len(transport.assembly)
    BY <1>11, Geometry
  <2>2. transport.assembly[1] = <<host.frames, 1>>
    BY <1>7, <2>1 DEF Assembled, Byte
  <2> QED
    BY <2>2
<1>13. Taken = host.read
  BY <1>2 DEF Taken
<1> QED
  BY <1>2, <1>3, <1>4, <1>5, <1>10, <1>11, <1>12, <1>13

\* What is left to show of service() at an end marker: the fields.
LEMMA MarkerServes ==
  ASSUME RefinementInvariant, TransportInvariant', ReceiveMarkerUnderrun \/ ReceiveMarker,
         Mapped(transport', FALSE, Line') =
           Frames!ServiceTxFifo(Frames!RetireTransmittedPacket(
             Mapped(CompleteRxFrame(transport), PacketWasRead, transport.irq)))
  PROVE  Frames!Service
<1> DEFINE whole == host.length = PacketLength
           before == Mapped(transport, PacketWasRead, transport.irq)
           received == Mapped(CompleteRxFrame(transport), PacketWasRead, transport.irq)
<1>1. /\ FrameEnded /\ ~FramePending' /\ ~FrameEnded' /\ host' = host
      /\ cpu.at = "receive" /\ host.frames # NoCommand
      /\ whole <=> ~transport.overflow /\ Len(transport.assembly) = PacketLength
      /\ whole => transport.assembly[1][1] = host.frames
  BY MarkerEndsFrame
<1>2. transport \in TransportRecords /\ PacketWasRead \in BOOLEAN
      /\ transport.irq \in BOOLEAN
  BY DeliveryTypes DEF TransportRecords
<1>3. FrameTransport = before
  <2>1. (FrameEnded /\ PacketWasRead) = PacketWasRead /\ Line = transport.irq
    BY <1>1, <1>2 DEF Line
  <2> QED
    BY <2>1, FrameTransportMapped
<1>4. FrameTransport' = Mapped(transport', FALSE, Line')
  <2>1. (FrameEnded' /\ PacketWasRead') = FALSE
    BY <1>1
  <2> QED
    BY <2>1, FrameTransportMapped
<1>5. host.cs = "high" /\ FramePending
  BY <1>1 DEF FrameEnded
<1>6. WireFrame.phase = "ended" /\ WireFrame.command = IF whole THEN host.frames ELSE NoCommand
  BY <1>1, <1>5 DEF WireFrame
<1>7. WireFrame' = Frames!NoFrame
  BY <1>1, <1>5 DEF WireFrame, Frames!NoFrame
<1>8. HostRead' = HostRead
  BY <1>1 DEF HostRead, PacketWasRead
<1>9. received = IF whole THEN Frames!CompleteRxFrame(before, host.frames) ELSE before
  BY <1>1, <1>2, MappedReceive
<1>10. FrameTransport' = Frames!ServiceTxFifo(Frames!RetireTransmittedPacket(received))
  BY <1>4
<1> HIDE DEF received, before, whole
<1>11. CASE whole
  <2>1. FrameTransport' = Frames!ServiceFrameEnd(FrameTransport, WireFrame.command)
    BY <1>3, <1>6, <1>9, <1>10, <1>11 DEF Frames!ServiceFrameEnd
  <2> QED
    BY <1>1, <1>6, <1>7, <1>8, <1>11, <2>1 DEF Frames!Service
<1>12. CASE ~whole
  <2>1. FrameTransport' =
          Frames!ServiceTxFifo(Frames!RetireTransmittedPacket(FrameTransport))
    BY <1>3, <1>9, <1>10, <1>12
  <2> QED
    BY <1>6, <1>7, <1>8, <1>12, <2>1 DEF Frames!Service
<1> QED
  BY <1>11, <1>12

\* An end marker that finds the packet staged: the host has read it.
LEMMA MarkerRetires ==
  ASSUME FullOrShort, RefinementInvariant, TransportInvariant', ReceiveMarker
  PROVE  Frames!Service
<1> DEFINE received == CompleteRxFrame(transport)
           u == LoadPacket(Unloaded(received))
<1>1. transport.loaded
  BY MarkerEndsFrame
<1>2. PacketWasRead
  BY <1>1, RetiredPacketWasRead DEF PacketWasRead, RefinementInvariant
<1>3. received \in TransportRecords /\ transport.irq \in BOOLEAN /\ PacketWasRead \in BOOLEAN
  BY DeliveryTypes, CompleteRxFrameFields DEF TransportRecords
<1>4. transport' = u /\ cpu'.at = "feed" /\ cpu'.then = "retire"
  BY DEF ReceiveMarker
<1> HIDE DEF received
<1>5. Mapped(u, FALSE, ~TxIdle(u)) =
        Frames!ServiceTxFifo(Frames!RetireTransmittedPacket(
          Mapped(received, PacketWasRead, transport.irq)))
  BY <1>2, <1>3, MappedRetire
<1> HIDE DEF u
<1>6. Line' = ~TxIdle(u)
  BY <1>4 DEF Line, TxIdle
<1> QED
  BY <1>4, <1>5, <1>6, MarkerServes DEF received

\* One that finds it not staged: the frame ended before its last byte.
LEMMA MarkerUnderruns ==
  ASSUME RefinementInvariant, TransportInvariant', ReceiveMarkerUnderrun
  PROVE  Frames!Service
<1> DEFINE received == CompleteRxFrame(transport)
           u == [Unloaded(received) EXCEPT !.queue = <<>>, !.integrityLost = TRUE, !.irq = FALSE]
<1>1. /\ transport.loaded /\ cpu.at = "receive" /\ FrameEnded /\ Taken = host.read
  BY MarkerEndsFrame
<1>2. /\ transport \in TransportRecords /\ cpu \in CpuRecords /\ transport.irq \in BOOLEAN
      /\ host.read \in Seq(Words) /\ pio.txFifo \in Seq(Words) /\ PacketWasRead \in BOOLEAN
  BY DeliveryTypes DEF TransportRecords, HostRecords, PioRecords
<1>3. PacketWasRead = FALSE
  <2> SUFFICES ASSUME PacketWasRead PROVE FALSE
    BY <1>2
  <2>1. Fed(host.read, pio.txFifo, transport.current, transport.feedIndex)
    BY <1>1 DEF RefinementInvariant, AlignedInvariant, Transmits
  <2>2. Len(host.read) \in Nat /\ Len(pio.txFifo) \in Nat
        /\ transport.feedIndex \in 0 .. PacketLength
    BY <1>2, LenProperties DEF TransportRecords
  <2>3. transport.feedIndex = PacketLength
    <3>1. transport.feedIndex = Len(pio.txFifo) + IF Len(host.read) <= PacketLength
                                                  THEN Len(host.read) ELSE PacketLength
      BY <2>1 DEF Fed
    <3>2. Len(host.read) >= PacketLength
      BY DEF PacketWasRead
    <3>3. \A read, left, index \in Nat :
            /\ read >= PacketLength /\ index <= PacketLength
            /\ index = left + IF read <= PacketLength THEN read ELSE PacketLength
            => index = PacketLength
      BY Geometry
    <3>4. transport.feedIndex \in Nat /\ transport.feedIndex <= PacketLength
      BY <2>2, Geometry
    <3> QED
      BY <2>2, <3>1, <3>2, <3>3, <3>4
  <2>4. ~transport.staged
    BY DEF ReceiveMarkerUnderrun
  <2> QED
    BY <1>1, <2>3, <2>4 DEF RefinementInvariant
<1>4. received \in TransportRecords /\ received.loaded
  BY <1>1, <1>2, CompleteRxFrameFields
<1>5. transport' = u /\ cpu'.at = "receive"
  BY <1>1, <1>2 DEF ReceiveMarkerUnderrun, CpuRecords
<1> HIDE DEF received
<1>6. Mapped(u, FALSE, FALSE) =
        Frames!ServiceTxFifo(Frames!RetireTransmittedPacket(
          Mapped(received, FALSE, transport.irq)))
  BY <1>2, <1>4, MappedUnderrun, Zenon
<1>7. u.irq = FALSE
  BY <1>4, UnloadedFields DEF TransportRecords
<1> HIDE DEF u
<1>8. Line' = FALSE
  BY <1>5, <1>7 DEF Line
<1> QED
  BY <1>3, <1>5, <1>6, <1>8, MarkerServes DEF received

\* popRxPacket.
LEMMA PopIsPop ==
  ASSUME RefinementInvariant, FramePending' <=> FramePending, Pop
  PROVE  Frames!Pop
<1> DEFINE u == [transport EXCEPT !.rxPacket = <<>>, !.rxReady = FALSE]
           staged == FrameEnded /\ PacketWasRead
<1>1. transport \in TransportRecords /\ cpu \in CpuRecords /\ Line \in BOOLEAN
      /\ staged \in BOOLEAN
  BY DeliveryTypes
<1>2. host' = host /\ cpu.at # "feed" /\ cpu'.at # "feed" /\ transport' = u
  BY <1>1 DEF Pop, CpuRecords
<1>3. /\ WireFrame' = WireFrame /\ HostRead' = HostRead
      /\ (FrameEnded' <=> FrameEnded) /\ (PacketWasRead' <=> PacketWasRead)
  BY <1>2, SameFrame
<1>4. u.irq = transport.irq
  BY <1>1 DEF TransportRecords
<1>5. Line' = Line
  BY <1>2, <1>4 DEF Line
<1>6. (FrameEnded' /\ PacketWasRead') = staged
  BY <1>3
<1>7. FrameTransport = Mapped(transport, staged, Line)
      /\ FrameTransport' = Mapped(u, staged, Line)
  BY <1>2, <1>5, <1>6, FrameTransportMapped
<1> HIDE DEF staged
<1>8. FrameTransport' = Frames!PopRxPacket(FrameTransport)
  BY <1>1, <1>7, MappedPop, Zenon
<1> QED
  BY <1>3, <1>8 DEF Frames!Pop

\* clearTxQueue drops the transport, and a frame whose marker waits.
LEMMA ClearIsClear ==
  ASSUME SeparateFrames, RefinementInvariant, ~FramePending', ClearTxQueue
  PROVE  Frames!Clear
<1> DEFINE staged == FrameEnded /\ PacketWasRead
<1>1. transport \in TransportRecords /\ cpu \in CpuRecords /\ Line \in BOOLEAN
      /\ staged \in BOOLEAN
  BY DeliveryTypes
<1>2. /\ host' = host /\ host.cs = "high" /\ transport' = EmptyTransport
      /\ cpu'.at = "publish"
  BY <1>1 DEF ClearTxQueue, SeparateFrames, CpuRecords
<1>3. Line' = FALSE
  BY <1>2 DEF Line, EmptyTransport
<1>4. (FrameEnded' /\ PacketWasRead') = FALSE
  BY DEF FrameEnded
<1>5. FrameTransport = Mapped(transport, staged, Line)
      /\ FrameTransport' = Mapped(EmptyTransport, FALSE, FALSE)
  BY <1>2, <1>3, <1>4, FrameTransportMapped
<1> HIDE DEF staged
<1>6. FrameTransport' = Frames!ClearTxQueue(FrameTransport)
  BY <1>1, <1>5, MappedClear
<1>7. WireFrame # Frames!OpenFrame
  <2>1. WireFrame.phase # "open"
    BY <1>2 DEF WireFrame
  <2> QED
    BY <2>1 DEF Frames!OpenFrame
<1>8. WireFrame' = Frames!NoFrame
  BY <1>2 DEF WireFrame, FrameEnded, Frames!NoFrame
<1>9. HostRead' = HostRead
  BY <1>2 DEF HostRead, PacketWasRead
<1> QED
  BY <1>6, <1>7, <1>8, <1>9 DEF Frames!Clear

\* enqueueTxPacket up to its serviceTxFifo loop.
LEMMA EnqueueIsEnqueue ==
  ASSUME RefinementInvariant, FramePending' <=> FramePending, EnqueueTxPacket
  PROVE  Frames!Enqueue
<1> DEFINE packet == used.packets + 1
           more == Append(transport.queue, packet)
           v == [transport EXCEPT !.queue = more, !.irq = TRUE]
           staged == FrameEnded /\ PacketWasRead
<1>1. transport \in TransportRecords /\ cpu \in CpuRecords /\ Line \in BOOLEAN
      /\ staged \in BOOLEAN
  BY DeliveryTypes
<1>2. packet \in 1 .. MaxPackets
  BY DeliveryTypes, Geometry DEF EnqueueTxPacket, UsedRecords
<1>3. /\ host' = host /\ cpu.at # "feed" /\ cpu'.then = "enqueue"
      /\ transport' = LoadPacket(v) /\ Len(transport.queue) < SpiTxQueueDepth
  BY <1>1 DEF EnqueueTxPacket, CpuRecords
<1> HIDE DEF packet
<1>4. /\ WireFrame' = WireFrame /\ HostRead' = HostRead
      /\ (FrameEnded' <=> FrameEnded) /\ (PacketWasRead' <=> PacketWasRead)
  BY <1>3, SameFrame
<1>5. more \in Seq(1 .. MaxPackets)
  BY <1>1, <1>2, Appended DEF TransportRecords
<1>6. v \in TransportRecords /\ v.irq = TRUE
  <2> HIDE DEF more
  <2> QED
    BY <1>1, <1>5 DEF TransportRecords
<1>7. LoadPacket(v).irq = TRUE
  <2> HIDE DEF v
  <2> QED
    BY <1>6, LoadPacketFields
<1>8. Line' = TRUE
  <2> HIDE DEF v
  <2> QED
    BY <1>3, <1>7 DEF Line
<1>9. (FrameEnded' /\ PacketWasRead') = staged
  BY <1>4
<1>10. FrameTransport = Mapped(transport, staged, Line)
       /\ FrameTransport' = Mapped(LoadPacket(v), staged, TRUE)
  BY <1>3, <1>8, <1>9, FrameTransportMapped
<1> HIDE DEF staged
<1>11. FrameTransport' = Frames!EnqueueTxPacket(FrameTransport, packet)
  BY <1>1, <1>2, <1>10, MappedEnqueue, Zenon
<1>12. Frames!AcceptsTxPacket(FrameTransport)
  BY <1>3, <1>10 DEF Mapped, Frames!AcceptsTxPacket
<1> QED
  BY <1>2, <1>4, <1>11, <1>12 DEF Frames!Enqueue

\* CS falls with the line high and no frame under way.
LEMMA SelectBegins ==
  ASSUME TimingHolds, RefinementInvariant, HostSelect
  PROVE  Frames!BeginFrame
<1>1. transport \in TransportRecords /\ host \in HostRecords
  BY DeliveryTypes
<1>2. /\ transport' = transport /\ cpu' = cpu /\ host.cs = "high" /\ host'.cs = "low"
      /\ ~FramePending /\ transport.irq /\ transport.loaded
  BY DEF HostSelect, Settled, TimingHolds
<1>3. Line' = Line /\ Line = TRUE
  BY <1>1, <1>2 DEF Line, TxIdle, TransportRecords
<1>4. ~FrameEnded /\ ~FrameEnded'
  BY <1>2 DEF FrameEnded
<1>5. (FrameEnded' /\ PacketWasRead') = (FrameEnded /\ PacketWasRead)
  BY <1>4
<1>6. FrameTransport' = FrameTransport
  BY <1>2, <1>3, <1>5, FrameTransportMapped
<1>7. FrameTransport.irq
  BY <1>3, FrameTransportMapped DEF Mapped
<1>8. WireFrame = Frames!NoFrame /\ WireFrame' = Frames!OpenFrame
  BY <1>2, <1>4 DEF WireFrame, Frames!NoFrame, Frames!OpenFrame
<1>9. HostRead' = NoPacket
  BY <1>2 DEF HostRead
<1> QED
  BY <1>6, <1>7, <1>8, <1>9 DEF Frames!BeginFrame

\* CS rises: the host has the packet, or not all of it and sent no command.
LEMMA ReleaseEnds ==
  ASSUME RefinementInvariant, FramePending', HostRelease
  PROVE  Frames!EndFrame
<1>1. transport \in TransportRecords /\ host \in HostRecords /\ pio \in PioRecords
      /\ Line \in BOOLEAN
  BY DeliveryTypes
<1>2. /\ transport' = transport /\ cpu' = cpu /\ pio' = pio
      /\ host.cs = "low" /\ host'.cs = "high" /\ host'.read = host.read
      /\ host'.length = host.length /\ host'.frames = host.frames
      /\ Len(host.read) = host.length /\ FramePending
  BY <1>1 DEF HostRelease, HostRecords, FramePending
<1>3. Line' = Line
  BY <1>2 DEF Line, TxIdle
<1>4. ~FrameEnded /\ FrameEnded' /\ (PacketWasRead' <=> PacketWasRead)
  BY <1>2 DEF FrameEnded, PacketWasRead
<1>5. WireFrame = Frames!OpenFrame /\ HostRead = NoPacket
  BY <1>2, <1>4 DEF WireFrame, Frames!OpenFrame, HostRead
<1>6. WireFrame' = Frames!EndedFrame(IF host.length = PacketLength THEN host.frames
                                     ELSE NoCommand)
  BY <1>2, <1>4 DEF WireFrame, Frames!EndedFrame
<1>7. FrameTransport = Mapped(transport, FALSE, Line)
  <2> DEFINE staged == FrameEnded /\ PacketWasRead
  <2>1. staged = FALSE
    BY <1>4
  <2>2. FrameTransport = Mapped(transport, staged, Line)
    BY FrameTransportMapped
  <2> HIDE DEF staged
  <2> QED
    BY <2>1, <2>2, Zenon
<1>8. CASE PacketWasRead
  <2>1. FrameTransport' = Mapped(transport, TRUE, Line)
    <3>1. (FrameEnded' /\ PacketWasRead') = TRUE
      BY <1>4, <1>8
    <3> QED
      BY <1>2, <1>3, <3>1, FrameTransportMapped
  <2>2. FrameTransport' = [FrameTransport EXCEPT !.staged = TRUE]
    <3> DEFINE m == Mapped(transport, FALSE, Line)
               n == Mapped(transport, TRUE, Line)
               commands == {m.rxPacket, n.rxPacket}
    <3>1. m \in MappedRecords(commands) /\ n \in MappedRecords(commands)
      BY <1>1, MappedType
    <3>2. /\ n.queue = m.queue /\ n.current = m.current /\ n.loaded = m.loaded
          /\ n.staged = TRUE /\ n.rxPacket = m.rxPacket /\ n.rxReady = m.rxReady
          /\ n.integrityLost = m.integrityLost /\ n.irq = m.irq
      BY DEF Mapped
    <3> HIDE DEF m, n, commands
    <3> DEFINE w == [m EXCEPT !.staged = TRUE]
    <3>3. /\ w \in MappedRecords(commands)
          /\ w.queue = m.queue /\ w.current = m.current /\ w.loaded = m.loaded
          /\ w.staged = TRUE /\ w.rxPacket = m.rxPacket /\ w.rxReady = m.rxReady
          /\ w.integrityLost = m.integrityLost /\ w.irq = m.irq
      BY <3>1 DEF MappedRecords
    <3>4. w = n
      <4> HIDE DEF w
      <4> QED
        BY <3>1, <3>2, <3>3, SameFields
    <3> QED
      BY <1>7, <2>1, <3>4 DEF m, n
  <2>3. transport.loaded /\ transport.current \in 1 .. MaxPackets
    <3>1. transport.loaded
      BY <1>2 DEF RefinementInvariant, AlignedInvariant, Transmits
    <3> QED
      BY <1>1, <3>1, Geometry DEF RefinementInvariant, TransportRecords, NoPacket
  <2>4. Fed(Taken, pio.txFifo, transport.current, transport.feedIndex)
    BY <2>3 DEF RefinementInvariant, AlignedInvariant, Transmits
  <2>5. SubSeq(host.read, 1, PacketLength) = BytesOf(transport.current)
    <3>1. Len(host.read) \in Nat /\ Len(host.read) >= PacketLength
          /\ host.read \in Seq(Words) /\ pio.osr \in Words
      BY <1>1, <1>8, LenProperties DEF PacketWasRead, HostRecords, PioRecords
    <3>2. \A i \in 1 .. PacketLength : i \in 1 .. Len(host.read) /\ host.read[i] \in Words
      BY <3>1, Geometry, ElementOfSeq
    <3>3. \A i \in 1 .. PacketLength : i \in 1 .. Len(Taken) /\ Taken[i] = host.read[i]
      <4>1. CASE Taken = host.read
        BY <3>2, <4>1
      <4>2. CASE Taken = Append(host.read, pio.osr)
        BY <3>1, <3>2, <4>2, AppendedAt
      <4> QED
        BY <1>2, <4>1, <4>2 DEF Taken
    <3>4. \A i \in 1 .. PacketLength : host.read[i] = Byte(transport.current, i)
      BY <2>4, <3>3, Geometry DEF Fed
    <3> DEFINE part == SubSeq(host.read, 1, PacketLength)
    <3>5. /\ part \in Seq(Words) /\ Len(part) = PacketLength
          /\ \A i \in 1 .. PacketLength : part[i] = host.read[i]
      BY <3>1, <3>2, Geometry, SubSeqProperties
    <3> HIDE DEF part
    <3>6. \A i \in 1 .. PacketLength : part[i] = Byte(transport.current, i)
      BY <3>4, <3>5
    <3>7. part = BytesOf(transport.current)
      BY <2>3, <3>5, <3>6, WholePacket
    <3> QED
      BY <3>7 DEF part
  <2>6. HostRead' = FrameTransport.current
    <3>1. HostRead' = PacketOf(SubSeq(host.read, 1, PacketLength))
      BY <1>2, <1>4, <1>8 DEF HostRead
    <3>2. FrameTransport.current = transport.current
      BY <1>7 DEF Mapped
    <3> QED
      BY <2>3, <2>5, <3>1, <3>2, PacketOfBytes
  <2>7. (IF host.length = PacketLength THEN host.frames ELSE NoCommand)
          \in 1 .. MaxFrames \cup {NoCommand}
    <3>1. host.frames \in 1 .. MaxFrames
      BY <1>1, <1>2, Geometry
      DEF RefinementInvariant, AlignedInvariant, FrameInvariant, FrameOK, HostRecords
    <3> QED
      BY <3>1
  <2> QED
    BY <1>5, <1>6, <2>2, <2>6, <2>7 DEF Frames!EndFrame
<1>9. CASE ~PacketWasRead
  <2>1. host.length # PacketLength
    BY <1>2, <1>9, Geometry DEF PacketWasRead
  <2>2. HostRead' = HostRead
    BY <1>4, <1>5, <1>9 DEF HostRead
  <2>3. FrameTransport' = FrameTransport
    <3>1. (FrameEnded' /\ PacketWasRead') = FALSE
      BY <1>4, <1>9
    <3> QED
      BY <1>2, <1>3, <1>7, <3>1, FrameTransportMapped
  <2>4. WireFrame' = Frames!EndedFrame(NoCommand)
    BY <1>6, <2>1
  <2> QED
    BY <1>5, <2>2, <2>3, <2>4 DEF Frames!EndFrame
<1> QED
  BY <1>8, <1>9

\* Power-up, for both sides.
LEMMA DeliveryInit == Init => RefinementInvariant /\ Frames!Init
<1> SUFFICES ASSUME Init PROVE RefinementInvariant /\ Frames!Init
  OBVIOUS
<1>1. AlignedInvariant
  BY AlignedInit
<1>2. /\ transport = EmptyTransport /\ host.cs = "high" /\ cpu.at = "receive"
      /\ ~FramePending /\ ~FrameEnded /\ host.read = <<>>
  BY DEF Init, FramePending, FrameEnded
<1>3. /\ transport.queue = <<>> /\ transport.current = NoPacket /\ transport.loaded = FALSE
      /\ transport.rxReady = FALSE /\ transport.integrityLost = FALSE /\ transport.irq = FALSE
  BY <1>2 DEF EmptyTransport
<1>4. RefinementInvariant
  BY <1>1, <1>3 DEF RefinementInvariant
<1>5. FrameTransport = Frames!EmptyTransport
  <2>1. (FrameEnded /\ PacketWasRead) = FALSE
    BY <1>2
  <2> QED
    BY <1>2, <1>3, <2>1 DEF FrameTransport, Frames!EmptyTransport
<1>6. WireFrame = Frames!NoFrame
  BY <1>2 DEF WireFrame, Frames!NoFrame
<1>7. HostRead = NoPacket
  <2>1. ~PacketWasRead
    BY <1>2, EmptyIsSequence, Geometry DEF PacketWasRead
  <2> QED
    BY <2>1 DEF HostRead
<1> QED
  BY <1>4, <1>5, <1>6, <1>7 DEF Frames!Init

\* RefinementInvariant is inductive.
LEMMA StepKeepsDelivery ==
  ASSUME TimingHolds, FullOrShort, RefinementInvariant, Next
  PROVE  RefinementInvariant'
<1>1. AlignedInvariant'
  BY StepKeepsAligned DEF RefinementInvariant
<1>2. transport \in TransportRecords /\ cpu \in CpuRecords /\ used \in UsedRecords
  BY DeliveryTypes
<1>3. CASE EndReceive \/ ReceiveMarker \/ EnqueueTxPacket
  <2>1. cpu'.at = "feed"
    <3>1. CASE EndReceive \/ ReceiveMarker
      BY <3>1 DEF EndReceive, ReceiveMarker
    <3>2. CASE EnqueueTxPacket
      BY <1>2, <3>2 DEF EnqueueTxPacket, CpuRecords
    <3> QED
      BY <1>3, <3>1, <3>2
  <2>2. PICK t \in TransportRecords : /\ transport' = LoadPacket(t)
                                      /\ t.loaded => t.current # NoPacket
    <3>1. CASE EndReceive
      BY <1>2, <3>1 DEF EndReceive, RefinementInvariant
    <3>2. CASE ReceiveMarker
      <4>1. CompleteRxFrame(transport) \in TransportRecords
        BY <1>2, CompleteRxFrameFields
      <4> DEFINE t == Unloaded(CompleteRxFrame(transport))
      <4>2. t \in TransportRecords /\ ~t.loaded
        BY <4>1, UnloadedFields
      <4>3. transport' = LoadPacket(t)
        BY <3>2 DEF ReceiveMarker
      <4> HIDE DEF t
      <4> QED
        BY <4>2, <4>3
    <3>3. CASE EnqueueTxPacket
      <4> DEFINE more == Append(transport.queue, used.packets + 1)
                 t == [transport EXCEPT !.queue = more, !.irq = TRUE]
      <4>1. used.packets + 1 \in 1 .. MaxPackets
        BY <1>2, <3>3, Geometry DEF EnqueueTxPacket, UsedRecords
      <4>2. more \in Seq(1 .. MaxPackets)
        BY <1>2, <4>1, Appended DEF TransportRecords
      <4>3. transport' = LoadPacket(t)
        BY <3>3 DEF EnqueueTxPacket
      <4> HIDE DEF more
      <4>4. /\ t \in TransportRecords
            /\ t.loaded = transport.loaded /\ t.current = transport.current
        BY <1>2, <4>2 DEF TransportRecords
      <4> HIDE DEF t
      <4> QED
        BY <4>3, <4>4 DEF RefinementInvariant
    <3> QED
      BY <1>3, <3>1, <3>2, <3>3
  <2>3. transport'.loaded => transport'.current # NoPacket
    <3>1. CASE ~t.loaded /\ t.queue # <<>>
      <4>1. Head(t.queue) \in 1 .. MaxPackets
        BY <3>1, Removed DEF TransportRecords
      <4>2. transport'.current = Head(t.queue)
        BY <2>2, <3>1, LoadPacketFields
      <4> QED
        BY <4>1, <4>2, Geometry DEF NoPacket
    <3>2. CASE ~(~t.loaded /\ t.queue # <<>>)
      BY <2>2, <3>2 DEF LoadPacket
    <3> QED
      BY <3>1, <3>2
  <2> QED
    BY <1>1, <2>1, <2>3 DEF RefinementInvariant
<1>4. CASE ReceiveMarkerUnderrun
  <2>1. CompleteRxFrame(transport) \in TransportRecords
    BY <1>2, CompleteRxFrameFields
  <2> DEFINE t == Unloaded(CompleteRxFrame(transport))
  <2>2. t \in TransportRecords /\ ~t.loaded
    BY <2>1, UnloadedFields
  <2>3. transport' = [t EXCEPT !.queue = <<>>, !.integrityLost = TRUE, !.irq = FALSE]
    BY <1>4 DEF ReceiveMarkerUnderrun
  <2> HIDE DEF t
  <2>4. ~transport'.loaded
    BY <2>2, <2>3 DEF TransportRecords
  <2> QED
    BY <1>1, <2>4 DEF RefinementInvariant
<1>5. CASE ClearTxQueue
  <2>1. ~transport'.loaded
    BY <1>5 DEF ClearTxQueue, EmptyTransport
  <2> QED
    BY <1>1, <2>1 DEF RefinementInvariant
<1>6. CASE EndFeed
  <2>1. /\ transport'.loaded = transport.loaded /\ transport'.current = transport.current
        /\ transport'.feedIndex = transport.feedIndex
        /\ transport'.staged = StagedAfterFeed(transport)
    BY <1>2, <1>6 DEF EndFeed, TransportRecords
  <2> QED
    BY <1>1, <2>1 DEF RefinementInvariant, StagedAfterFeed
<1>7. CASE FeedByte
  <2>1. /\ transport'.loaded = transport.loaded /\ transport'.current = transport.current
        /\ cpu'.at = "feed"
    BY <1>2, <1>7 DEF FeedByte, TransportRecords
  <2> QED
    BY <1>1, <2>1 DEF RefinementInvariant
<1>8. CASE ReceiveByte \/ Pop \/ NothingToEnqueue \/ PioStep \/ HostStep
  <2>1. /\ transport'.loaded = transport.loaded /\ transport'.current = transport.current
        /\ transport'.feedIndex = transport.feedIndex /\ transport'.staged = transport.staged
    BY <1>2, <1>8
    DEF ReceiveByte, Pop, NothingToEnqueue, TransportRecords,
        PioStep, PioWaitCsLow, PioByteLoop, PioPush, PioFrameEnd,
        HostStep, HostSelect, HostClock, HostRelease
  <2>2. cpu'.at # "feed" => cpu.at # "feed"
    BY <1>2, <1>8
    DEF ReceiveByte, Pop, NothingToEnqueue, CpuRecords,
        PioStep, PioWaitCsLow, PioByteLoop, PioPush, PioFrameEnd,
        HostStep, HostSelect, HostClock, HostRelease
  <2> QED
    BY <1>1, <2>1, <2>2 DEF RefinementInvariant
<1> QED
  BY <1>3, <1>4, <1>5, <1>6, <1>7, <1>8 DEF Next, CpuStep

\* Every step is a step of FrameDelivery or is not seen there.
LEMMA StepIsFrames ==
  ASSUME TimingHolds, FullOrShort, RefinementInvariant, Next
  PROVE  Frames!Next \/ UNCHANGED <<FrameTransport, WireFrame, HostRead>>
<1>1. SeparateFrames /\ FrameInvariant
  BY TimingSeparatesFrames DEF RefinementInvariant, AlignedInvariant
<1>2. TransportInvariant'
  BY <1>1, StepKeepsTypes DEF FrameInvariant
<1>3. CASE \/ EndReceive \/ FeedByte \/ EndFeed
           \/ Pop \/ EnqueueTxPacket \/ NothingToEnqueue
  <2>1. FramePending' <=> FramePending
    BY <1>1, <1>2, <1>3, CpuKeepsFrames
  <2>2. CASE EndReceive
    BY <2>1, <2>2, EndReceiveServes DEF Frames!Next
  <2>3. CASE FeedByte \/ EndFeed \/ NothingToEnqueue
    BY <2>1, <2>3, FeedingUnseen
  <2>4. CASE Pop
    BY <2>1, <2>4, PopIsPop DEF Frames!Next
  <2>5. CASE EnqueueTxPacket
    BY <2>1, <2>5, EnqueueIsEnqueue DEF Frames!Next
  <2> QED
    BY <1>3, <2>2, <2>3, <2>4, <2>5
<1>4. CASE ReceiveByte
  BY <1>1, <1>2, <1>4, ReceiveByteKeepsFrames, FeedingUnseen
<1>5. CASE ReceiveMarkerUnderrun
  BY <1>2, <1>5, MarkerUnderruns DEF Frames!Next
<1>6. CASE ReceiveMarker
  BY <1>2, <1>6, MarkerRetires DEF Frames!Next
<1>7. CASE ClearTxQueue
  BY <1>1, <1>2, <1>7, ClearKeepsFrames, ClearIsClear DEF Frames!Next
<1>8. CASE PioStep
  BY <1>1, <1>2, <1>8, PioKeepsFrames, WireUnseen
<1>9. CASE HostStep
  <2>1. FramePending' /\ (~HostSelect => FramePending)
    BY <1>1, <1>2, <1>9, HostKeepsFrames
  <2>2. CASE HostSelect
    BY <2>2, SelectBegins DEF Frames!Next
  <2>3. CASE HostClock
    <3>1. ~HostSelect
      BY <2>3 DEF HostClock, HostSelect
    <3> QED
      BY <2>1, <2>3, <3>1, WireUnseen
  <2>4. CASE HostRelease
    BY <2>1, <2>4, ReleaseEnds DEF Frames!Next
  <2> QED
    BY <1>9, <2>2, <2>3, <2>4 DEF HostStep
<1> QED
  BY <1>3, <1>4, <1>5, <1>6, <1>7, <1>8, <1>9 DEF Next, CpuStep

\* With the timing kept, and frames that hold a whole packet or stop short of
\* what the FIFO would let the firmware feed, the transport is the one of
\* whole frames: feeding, FIFO levels, the words of a frame and the order of the
\* calls in service() change nothing that its callers or the host could see.
THEOREM TransportImplementsFrames ==
  ASSUME TimingHolds, FullOrShort
  PROVE  Spec => ImplementsFrames
<1>1. RefinementInvariant /\ [Next]_vars => RefinementInvariant' /\ [Frames!Next]_(Frames!vars)
  <2> SUFFICES ASSUME RefinementInvariant, [Next]_vars
               PROVE  RefinementInvariant' /\ [Frames!Next]_(Frames!vars)
    OBVIOUS
  <2>1. CASE Next
    BY <2>1, StepKeepsDelivery, StepIsFrames DEF Frames!vars
  <2>2. CASE UNCHANGED vars
    <3>1. /\ cpu' = cpu /\ transport' = transport /\ pio' = pio /\ host' = host
          /\ used' = used
      BY <2>2 DEF vars
    <3>2. AlignedInvariant'
      <4>1. FrameInvariant'
        BY <3>1, ReceiveSideKept
        DEF RefinementInvariant, AlignedInvariant, FrameInvariant, TransportInvariant
      <4>2. FramePending' = FramePending /\ Taken' = Taken
        BY <3>1 DEF FramePending, Taken
      <4> QED
        BY <3>1, <4>1, <4>2 DEF RefinementInvariant, AlignedInvariant
    <3>3. RefinementInvariant'
      BY <3>1, <3>2 DEF RefinementInvariant
    <3>4. FramePending' <=> FramePending
      BY <3>1 DEF FramePending
    <3>5. /\ WireFrame' = WireFrame /\ HostRead' = HostRead
          /\ (FrameEnded' <=> FrameEnded) /\ (PacketWasRead' <=> PacketWasRead)
      BY <3>1, <3>4, SameFrame
    <3>6. (FrameEnded' /\ PacketWasRead') = (FrameEnded /\ PacketWasRead) /\ Line' = Line
      BY <3>1, <3>5 DEF Line, TxIdle
    <3>7. FrameTransport' = FrameTransport
      BY <3>1, <3>6, FrameTransportMapped
    <3> QED
      BY <3>3, <3>5, <3>7 DEF Frames!vars
  <2> QED
    BY <2>1, <2>2
<1> QED
  BY <1>1, DeliveryInit, PTL DEF Spec, ImplementsFrames, Frames!Spec
=============================================================================
