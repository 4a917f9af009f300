------------------------------ MODULE MCSpiWire ------------------------------
(* Packets of the runs of SpiWire. *)
EXTENDS SpiWire

(* Counts at and beyond the limits, and responses whose bytes make starved frames
   with a valid CRC: control 3 with any count, control 0 with 190, buttons 42
   and 38, boundaries 166, 238, 179 and 251. *)
Counts == {-8388609, 190, 8388608}

SampleResponses ==
  [type : {"EncoderState"}, index : {0, 3}, value : Counts] \cup
  [type : {"ButtonState"}, value : {42}, longHeld : {38}] \cup
  [type : {"SnapshotBegin"}, value : {166, 238}] \cup
  [type : {"SnapshotEnd"}, value : {179, 251}]

\* mcm_spi_make_get_snapshot, makeCommand and the eight zero bytes a master
\* reads with.
SampleRequests ==
  {McmSpiMakeGetSnapshot, MakeCommand("ResetControl", 3), Zeros(PacketLength)}

FirstRequest == {McmSpiMakeGetSnapshot}
FirstResponse == {[type |-> "SnapshotBegin", value |-> 0]}
=============================================================================
