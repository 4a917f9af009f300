----------------------------- MODULE McmPackets -----------------------------
(***************************************************************************)
(* The data every MCM component exchanges: controls, what is published     *)
(* about them, and the packets of TransportProtocol.h.  A packet is kept   *)
(* as the record of what its eight bytes say (type, index, data); sync,    *)
(* version and CRC are constant in everything the firmware builds and are  *)
(* left to the byte-level modules.  The pressed and long-held bitmaps of a *)
(* scan always travel together and are one value, a button picture.        *)
(***************************************************************************)
EXTENDS Integers, Sequences

CONSTANTS
  ControlCount,      \* number of encoder/button pairs
  EncoderValues,     \* detent counts a control may take (int32 in the code)
  ButtonPictures,    \* (pressed, long-held) bitmap pairs, as numbers
  Signed24Minimum,   \* limits of the wire encoding of a detent count
  Signed24Maximum,
  SequenceModulus    \* 256: snapshotSequence_ is a Byte

ASSUME ControlCountAssumption == ControlCount \in Nat \ {0}

ASSUME DataAssumption ==
  /\ EncoderValues \subseteq Int
  /\ 0 \in EncoderValues
  /\ ButtonPictures \subseteq Int
  /\ 0 \in ButtonPictures

ASSUME WireAssumption ==
  /\ Signed24Minimum \in Int
  /\ Signed24Maximum \in Int
  /\ Signed24Minimum <= 0
  /\ 0 <= Signed24Maximum
  /\ SequenceModulus \in Nat \ {0}

-----------------------------------------------------------------------------

Controls == 0 .. ControlCount - 1

Sequences == 0 .. SequenceModulus - 1

\* The publication-visible copy captureSnapshot returns.
Snapshots == [encoderValues : [Controls -> EncoderValues],
              buttons       : ButtonPictures,
              sequence      : Sequences]

EmptySnapshot == [encoderValues |-> [c \in Controls |-> 0],
                  buttons       |-> 0,
                  sequence      |-> 0]

\* The packet types the firmware sends; NoMessage is the type byte of Packet{}.
MessageTypes ==
  {"EncoderState", "ButtonState", "SnapshotBegin", "SnapshotEnd", "NoMessage"}

Packets == [type : MessageTypes, index : 0 .. ControlCount, data : Int]

EmptyPacket == [type |-> "NoMessage", index |-> 0, data |-> 0]

ClampSigned24(value) ==
  IF value < Signed24Minimum THEN Signed24Minimum
  ELSE IF value > Signed24Maximum THEN Signed24Maximum
  ELSE value

MakeEncoderState(control, value) ==
  [type |-> "EncoderState", index |-> control, data |-> ClampSigned24(value)]

MakeButtonState(picture) ==
  [type |-> "ButtonState", index |-> ControlCount, data |-> picture]

MakeSnapshotBoundary(type, sequence) ==
  [type |-> type, index |-> ControlCount, data |-> sequence]

\* The packets of one framed snapshot in their wire order: BEGIN, one
\* ENCODER_STATE per control, BUTTON_STATE, END.
SnapshotPacketCount == ControlCount + 3

SnapshotPackets(snapshot) ==
  [k \in 1 .. SnapshotPacketCount |->
     CASE k = 1 -> MakeSnapshotBoundary("SnapshotBegin", snapshot.sequence)
       [] k \in 2 .. ControlCount + 1 ->
            MakeEncoderState(k - 2, snapshot.encoderValues[k - 2])
       [] k = ControlCount + 2 -> MakeButtonState(snapshot.buttons)
       [] k = ControlCount + 3 ->
            MakeSnapshotBoundary("SnapshotEnd", snapshot.sequence)]
=============================================================================
