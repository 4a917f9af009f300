---------------------------- MODULE ProtocolBytes ----------------------------
(***************************************************************************)
(* The eight bytes of a packet, written twice in the repository: by the    *)
(* firmware (TransportProtocol.h) and by the portable header for masters   *)
(* (mcm_spi_snapshot_protocol.h, the operators that begin with McmSpi).    *)
(* Bytes are numbers, packets are sequences: offset 0 of the code is       *)
(* position 1 here.                                                        *)
(***************************************************************************)
EXTENDS Integers, Sequences

PacketLength == 8
SyncByte == 165          \* 0xA5
Version == 1
ControlCount == 6
ValidControlMask == 63   \* 0x3F

Byte == 0 .. 255

TypeByte ==
  [EncoderState |-> 1, ButtonState |-> 2, SnapshotBegin |-> 16, SnapshotEnd |-> 17,
   Nop |-> 128, GetSnapshot |-> 129, ResetControl |-> 130, ResetAll |-> 131,
   Resync |-> 134]

\* Bits 8 * n to 8 * n + 7 of a number in two's complement.
ByteAt(number, n) == (number \div <<1, 256, 65536>>[n + 1]) % 256

(* The bits of a byte, bit 7 first, and the operators of C on them. *)
BitWeight == <<128, 64, 32, 16, 8, 4, 2, 1>>

Bits(byte) == [k \in 1 .. 8 |-> (byte \div BitWeight[k]) % 2]

ByteOf(bits) ==
  128 * bits[1] + 64 * bits[2] + 32 * bits[3] + 16 * bits[4]
    + 8 * bits[5] + 4 * bits[6] + 2 * bits[7] + bits[8]

Xor(a, b) == ByteOf([k \in 1 .. 8 |-> IF Bits(a)[k] = Bits(b)[k] THEN 0 ELSE 1])
And(a, b) == ByteOf([k \in 1 .. 8 |-> Bits(a)[k] * Bits(b)[k]])

-----------------------------------------------------------------------------
(* CRC-8 *)

\* Mutant of CrcShift: the polynomial is never applied.
CrcShiftPlain(crc) == (2 * crc) % 256

\* One turn of the bit loop: polynomial 0x07 behind a one that falls out.
CrcShift(crc) == IF crc >= 128 THEN Xor((2 * crc) % 256, 7) ELSE 2 * crc

CrcOfByte ==
  [byte \in Byte |->
     LET crc[bit \in 0 .. 8] == IF bit = 0 THEN byte ELSE CrcShift(crc[bit - 1])
     IN  crc[8]]

Crc8(bytes) ==
  LET crc[n \in 0 .. Len(bytes)] ==
        IF n = 0 THEN 0 ELSE CrcOfByte[Xor(crc[n - 1], bytes[n])]
  IN  crc[Len(bytes)]

PacketCrc(packet) == Crc8(SubSeq(packet, 1, PacketLength - 1))

McmSpiCrc8(bytes) ==
  LET crc[n \in 0 .. Len(bytes)] ==
        IF n = 0 THEN 0 ELSE CrcOfByte[Xor(crc[n - 1], bytes[n])]
  IN  crc[Len(bytes)]

-----------------------------------------------------------------------------
(* TransportProtocol.h *)

Signed24Minimum == -8388608
Signed24Maximum == 8388607

\* Mutant of ClampSigned24: left to the truncation of writeSigned24.
Signed24Unclamped(value) == value

ClampSigned24(value) ==
  IF value < Signed24Minimum THEN Signed24Minimum
  ELSE IF value > Signed24Maximum THEN Signed24Maximum
  ELSE value

WriteSigned24(value) == [n \in 1 .. 3 |-> ByteAt(ClampSigned24(value), n - 1)]

\* Every builder: envelope, three data bytes, CRC over the seven before it.
MakePacket(type, index, data) ==
  LET head == <<SyncByte, Version, TypeByte[type], index>> \o data
  IN  Append(head, Crc8(head))

MakeEncoderState(index, value) == MakePacket("EncoderState", index, WriteSigned24(value))

MakeButtonState(pressed, longHeld) ==
  MakePacket("ButtonState", ControlCount,
             <<And(pressed, ValidControlMask), And(longHeld, ValidControlMask), ControlCount>>)

MakeSnapshotBoundary(type, sequence) ==
  MakePacket(type, ControlCount, <<sequence, 0, 0>>)

MakeCommand(type, index) == MakePacket(type, index, <<0, 0, 0>>)

\* The sign is bit 23.
ReadSigned24(packet) ==
  LET encoded == packet[5] + 256 * packet[6] + 65536 * packet[7]
  IN  IF encoded >= 8388608 THEN encoded - 16777216 ELSE encoded

Validate(packet) ==
  CASE packet[1] # SyncByte -> "BadSync"
    [] packet[1] = SyncByte /\ packet[2] # Version -> "BadVersion"
    [] packet[1] = SyncByte /\ packet[2] = Version /\ packet[8] # PacketCrc(packet) -> "BadCrc"
    [] OTHER -> "Valid"

-----------------------------------------------------------------------------
(* mcm_spi_snapshot_protocol.h *)

McmSpiInitPacket(type, index, data) ==
  LET head == <<SyncByte, Version, TypeByte[type], index>> \o data
  IN  Append(head, McmSpiCrc8(head))

McmSpiMakeGetSnapshot == McmSpiInitPacket("GetSnapshot", 0, <<0, 0, 0>>)

McmSpiMakeSnapshotBoundary(type, sequence, status) ==
  McmSpiInitPacket(type, ControlCount, <<ByteAt(sequence, 0), ByteAt(sequence, 1), status>>)

\* No clamp: whatever does not fit into 24 bits is cut off.
McmSpiEncodeI24(value) == [n \in 1 .. 3 |-> ByteAt(value, n - 1)]

\* Mutant of McmSpiDecodeI24: no sign extension.
McmSpiDecodeU24(data) == data[1] + 256 * data[2] + 65536 * data[3]

McmSpiDecodeI24(data) ==
  LET raw == data[1] + 256 * data[2] + 65536 * data[3]
  IN  IF raw >= 8388608 THEN raw - 16777216 ELSE raw

McmSpiMakeParamState(index, value) ==
  McmSpiInitPacket("EncoderState", index, McmSpiEncodeI24(value))

McmSpiMakeButtonState(pressed, longHeld) ==
  McmSpiInitPacket("ButtonState", 0,
                   <<And(pressed, ValidControlMask), And(longHeld, ValidControlMask), ControlCount>>)

\* Mutant of McmSpiPacketIsValid: the CRC is not compared.
McmSpiHeaderIsValid(packet) ==
  /\ packet[1] = SyncByte
  /\ packet[2] = Version

McmSpiPacketIsValid(packet) ==
  /\ packet[1] = SyncByte
  /\ packet[2] = Version
  /\ packet[8] = McmSpiCrc8(SubSeq(packet, 1, 7))

McmSpiParamStateValue(packet) == McmSpiDecodeI24(SubSeq(packet, 5, 7))

McmSpiSnapshotSequence(packet) == packet[5] + 256 * packet[6]
=============================================================================
