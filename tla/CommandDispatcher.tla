-------------------------- MODULE CommandDispatcher --------------------------
(***************************************************************************)
(* The commands of the host, CommandDispatcher, which maps each to an      *)
(* action, and the transport that receives them and sends the packets of   *)
(* McmPackets.                                                             *)
(***************************************************************************)
EXTENDS McmPackets

CONSTANTS
  SpiTxQueueDepth,   \* capacity of txQueue_
  Commands           \* what the host may put on MOSI

\* Corrupt stands for a bad sync, version or CRC; SetLed for every reserved or
\* unknown type.
CommandTypes == {"Nop", "GetSnapshot", "ResetControl", "ResetAll", "Resync",
                 "SetLed", "Corrupt"}

NopCommand == [type |-> "Nop", index |-> 0]

\* The value of an absent frame or command.
NoCommand == [type |-> "NoCommand", index |-> 0]

ASSUME TransportAssumption ==
  /\ SpiTxQueueDepth \in Nat
  /\ SpiTxQueueDepth >= SnapshotPacketCount
  /\ Commands \subseteq [type : CommandTypes, index : Nat]
  /\ NopCommand \in Commands

INSTANCE TransportFrames

-----------------------------------------------------------------------------
ActionTypes == {"None", "RequestSnapshot", "ResetControl", "ResetAll",
                "Resync", "Unsupported", "Invalid"}

Dispatch(command) ==
  CASE command.type = "Corrupt"      -> "Invalid"
    [] command.type = "Nop"          -> "None"
    [] command.type = "GetSnapshot"  -> "RequestSnapshot"
    [] command.type = "ResetControl" -> "ResetControl"
    [] command.type = "ResetAll"     -> "ResetAll"
    [] command.type = "Resync"       -> "Resync"
    [] OTHER                         -> "Unsupported"
=============================================================================
