------------------------------- MODULE SpiWire -------------------------------
(***************************************************************************)
(* A frame bit by bit: the registers of SpiSlaveM0.pio as TransportSPI.cpp *)
(* configures them, the master's MSB-first shifter at the other end, and   *)
(* noise on MISO.  One step is one byte, eight turns of bit_loop.  What    *)
(* happens between frames and to the FIFOs is TransportSPI.tla's.          *)
(*                                                                         *)
(* A register is the sequence of its 32 bits, bit 31 first.                *)
(***************************************************************************)
EXTENDS ProtocolBytes, FiniteSets

CONSTANTS
  Responses,   \* what the firmware may answer with, see Built
  Requests,    \* packets the master may send
  FedBytes,    \* how many bytes of its packet the firmware feeds in time
  MaxFlips     \* bound: MISO bits that noise inverts in one frame

ASSUME WireAssumption ==
  /\ Responses \subseteq
       [type : {"EncoderState"}, index : Byte, value : Int] \cup
       [type : {"ButtonState"}, value : Byte, longHeld : Byte] \cup
       [type : {"SnapshotBegin", "SnapshotEnd"}, value : Byte]
  /\ Requests \subseteq [1 .. PacketLength -> Byte]
  /\ FedBytes \subseteq 1 .. PacketLength
  /\ MaxFlips \in Nat

VARIABLES
  frame,      \* what both sides put into this frame, NoFrame with CS high
  x,          \* scratch register X between two bytes
  received,   \* bytes processRxWord has taken in the frame
  read,       \* bytes the master has read in the frame
  flips       \* bits inverted in the frame

vars == <<frame, x, received, read, flips>>

-----------------------------------------------------------------------------
(* Bits and registers *)

Bit == {0, 1}
WordLength == 32

Zeros(n) == [k \in 1 .. n |-> 0]
Ones(n) == [k \in 1 .. n |-> 1]

\* putTxByte: the byte in bits 31 to 24.
PutWord(byte) == Bits(byte) \o Zeros(WordLength - 8)

\* processRxWord: word >> 24.
ReceivedByte(word) == ByteOf(SubSeq(word, 1, 8))

\* Mutant of ShiftedIn: the other end of the register.
ShiftedInLow(isr, bit) == Append(Tail(isr), bit)

\* in pins, 1 with the ISR shifting right; out pins, 1 with the OSR shifting
\* left.
ShiftedIn(isr, bit) == <<bit>> \o SubSeq(isr, 1, WordLength - 1)
ShiftedOut(osr) == Tail(osr) \o <<0>>

\* One turn of bit_loop: the master samples what the last "out" presented.
BitLoop(turn, mosi) ==
  [osr  |-> ShiftedOut(turn.osr),
   isr  |-> ShiftedIn(turn.isr, mosi),
   miso |-> Append(turn.miso, Head(turn.osr))]

ByteLoop(osr, mosi) ==
  LET turn[bit \in 0 .. 8] ==
        IF bit = 0 THEN [osr |-> osr, isr |-> Zeros(WordLength), miso |-> <<>>]
        ELSE BitLoop(turn[bit - 1], Bits(mosi)[bit])
  IN  turn[8]

-----------------------------------------------------------------------------
(* Frames *)

\* The packet for a response record.
Built(response) ==
  CASE response.type = "EncoderState" -> MakeEncoderState(response.index, response.value)
    [] response.type = "ButtonState"  -> MakeButtonState(response.value, response.longHeld)
    [] OTHER                          -> MakeSnapshotBoundary(response.type, response.value)

\* The master's request against what the firmware feeds: nothing at all when no
\* packet is loaded, or the first bytes of its packet.
Idle == [type |-> "Idle"]

Frames ==
  [response : {Idle}, fed : {<<>>}, request : Requests] \cup
  {[response |-> response, fed |-> SubSeq(Built(response), 1, count), request |-> request] :
     response \in Responses, count \in FedBytes, request \in Requests}

NoFrame == [response |-> Idle, fed |-> <<>>, request |-> <<>>]

Init ==
  /\ frame = NoFrame
  /\ x = Zeros(WordLength)
  /\ received = <<>>
  /\ read = <<>>
  /\ flips = 0

Select ==
  /\ frame = NoFrame
  /\ frame' \in Frames
  /\ UNCHANGED <<x, received, read, flips>>

\* pull noblock takes the next byte fed or, from an empty FIFO, X, which every
\* run of bit_loop leaves at its maximum.
Pulled(offset) ==
  IF offset <= Len(frame.fed) THEN PutWord(frame.fed[offset]) ELSE x

\* The packet ran dry in the FIFO before its last byte.
Starved == Len(frame.fed) \in 1 .. PacketLength - 1

\* The sets of at most n inverted bits of a byte; a frame meets one fault, so
\* none in a starved one.
Noises == [n \in 0 .. MaxFlips |-> {bits \in SUBSET (1 .. 8) : Cardinality(bits) <= n}]

ClockByte ==
  LET offset == Len(read) + 1
      byte   == ByteLoop(Pulled(offset), frame.request[offset])
  IN  /\ frame # NoFrame
      /\ offset <= PacketLength
      /\ received' = Append(received, ReceivedByte(byte.isr))
      /\ x' = Ones(WordLength)
      /\ \E noise \in Noises[IF Starved THEN 0 ELSE MaxFlips - flips] :
           /\ flips' = flips + Cardinality(noise)
           /\ read' = Append(read, ByteOf([k \in 1 .. 8 |->
                        IF k \in noise THEN 1 - byte.miso[k] ELSE byte.miso[k]]))
      /\ UNCHANGED frame

\* Mutant of Deselect: rxIndex_ is not reset behind the frame.
DeselectKeepingIndex ==
  /\ Len(read) = PacketLength
  /\ frame' = NoFrame
  /\ read' = <<>>
  /\ flips' = 0
  /\ UNCHANGED <<x, received>>

\* Both sides take what they have and start afresh (completeRxFrame).
Deselect ==
  /\ Len(read) = PacketLength
  /\ frame' = NoFrame
  /\ received' = <<>>
  /\ read' = <<>>
  /\ flips' = 0
  /\ UNCHANGED x

Next ==
  \/ Select
  \/ ClockByte
  \/ Deselect

Spec == Init /\ [][Next]_vars

-----------------------------------------------------------------------------
(* Properties *)

FrameDone == Len(read) = PacketLength

\* Registers are registers and what leaves them are bytes.
TypeOK ==
  /\ frame.fed \in Seq(Byte)
  /\ x \in {Zeros(WordLength), Ones(WordLength)}
  /\ received \in Seq(Byte)
  /\ read \in Seq(Byte)
  /\ Len(read) = Len(received)
  /\ Len(read) <= PacketLength
  /\ flips \in 0 .. MaxFlips

\* The representable count nearest to a detent count.
Nearest(count, value) ==
  /\ count \in Signed24Minimum .. Signed24Maximum
  /\ \/ count = value
     \/ value < Signed24Minimum /\ count = Signed24Minimum
     \/ value > Signed24Maximum /\ count = Signed24Maximum

\* What a packet read by the master means to it is what the firmware stated.
Understood(response, packet) ==
  /\ packet[3] = TypeByte[response.type]
  /\ CASE response.type = "EncoderState" ->
            /\ packet[4] = response.index
            /\ Nearest(McmSpiParamStateValue(packet), response.value)
            /\ ReadSigned24(packet) = McmSpiParamStateValue(packet)
            /\ response.value \in Signed24Minimum .. Signed24Maximum =>
                 packet = McmSpiMakeParamState(response.index, response.value)
       [] response.type = "ButtonState" ->
            /\ \A c \in 0 .. ControlCount - 1 :
                 /\ Bits(packet[5])[8 - c] = Bits(response.value)[8 - c]
                 /\ Bits(packet[6])[8 - c] = Bits(response.longHeld)[8 - c]
            /\ packet[7] = ControlCount
       [] OTHER ->
            /\ packet[4] = ControlCount
            /\ McmSpiSnapshotSequence(packet) = response.value
            /\ packet = McmSpiMakeSnapshotBoundary(response.type, response.value, 0)

\* A response fed in time crosses the wire: FIFO word, shift registers and
\* bit order put every bit where both parsers of the repository look for it,
\* and a count beyond 24 bits arrives as the limit, never wrapped to the other
\* sign (TransportProtocol.h against mcm_spi_snapshot_protocol.h).
ResponseReadsBack ==
  FrameDone /\ Len(frame.fed) = PacketLength /\ flips = 0 =>
    /\ McmSpiPacketIsValid(read)
    /\ Understood(frame.response, read)

\* What passes the master's checks is what the firmware sent: neither noise of
\* up to MaxFlips bits nor the filler of an idle frame looks like a packet.
ValidMeansSent ==
  FrameDone /\ ~Starved /\ McmSpiPacketIsValid(read) => read = frame.fed

\* The filler behind a starved packet can complete a valid CRC-8, but what is
\* read then still has the type and index that were sent, and a boundary read
\* with other data pairs with no boundary the firmware builds (sequence of one
\* byte, status 0): the master reads wrong data or drops the snapshot, and
\* never closes a snapshot that was not sent.
StarvedKeepsItsKind ==
  FrameDone /\ Starved /\ McmSpiPacketIsValid(read) =>
    LET sent == Built(frame.response)
    IN  /\ SubSeq(read, 3, 4) = SubSeq(sent, 3, 4)
        /\ frame.response.type \in {"SnapshotBegin", "SnapshotEnd"} /\ read # sent =>
             \/ McmSpiSnapshotSequence(read) \notin Byte
             \/ read[7] # 0

\* What becomes of a command instead, whichever it is: A5 reads the same from
\* both ends, the version does not, and the firmware drops the packet before it
\* looks at its CRC or its type.
EveryCommandIsBadVersion ==
  FrameDone /\ McmSpiPacketIsValid(frame.request) => Validate(received) = "BadVersion"

\* A command the master sends is one the firmware's validate accepts
\* (PIO_IMPLEMENTATION.md: "MSB-first bit transfer").
CommandArrives ==
  FrameDone /\ McmSpiPacketIsValid(frame.request) =>
    /\ received = frame.request
    /\ Validate(received) = "Valid"
=============================================================================
