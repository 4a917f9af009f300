---------------------------- MODULE FrameDelivery ----------------------------
(***************************************************************************)
(* What TransportSPI promises at the level of frames: packets leave in the *)
(* order enqueued, each read whole by exactly one frame before the next is *)
(* loaded, or all of them are dropped together; a received command is kept *)
(* until it is popped.  The transport is the record of TransportFrames.tla *)
(* and changes by its operators only, the ones McmApplication.tla uses.    *)
(***************************************************************************)
EXTENDS TransportFrames

VARIABLES
  transport,  \* the members of TransportSPI and the SLAVE_IRQ pin
  frame,      \* the frame under way or waiting for its end marker
  read        \* the packet the host read in its last frame

vars == <<transport, frame, read>>

NoFrame == [phase |-> "none", command |-> NoCommand]
OpenFrame == [phase |-> "open", command |-> NoCommand]
EndedFrame(command) == [phase |-> "ended", command |-> command]

Init ==
  /\ transport = EmptyTransport
  /\ frame = NoFrame
  /\ read = EmptyPacket

Enqueue ==
  /\ AcceptsTxPacket(transport)
  /\ \E packet \in Packets : transport' = EnqueueTxPacket(transport, packet)
  /\ UNCHANGED <<frame, read>>

\* With the FIFOs it also drops a frame whose marker was not processed.
Clear ==
  /\ frame # OpenFrame
  /\ transport' = ClearTxQueue(transport)
  /\ frame' = NoFrame
  /\ UNCHANGED read

Pop ==
  /\ transport' = PopRxPacket(transport)
  /\ UNCHANGED <<frame, read>>

BeginFrame ==
  /\ frame = NoFrame
  /\ transport.irq
  /\ frame' = OpenFrame
  /\ read' = EmptyPacket
  /\ UNCHANGED transport

\* The host reads the whole packet, or stops before its end, and then has sent
\* no whole command either.
EndFrame ==
  /\ frame = OpenFrame
  /\ \/ /\ \E command \in Commands \cup {NoCommand} : frame' = EndedFrame(command)
        /\ transport' = [transport EXCEPT !.staged = TRUE]
        /\ read' = transport.current
     \/ /\ frame' = EndedFrame(NoCommand)
        /\ UNCHANGED <<transport, read>>

\* service(), with the end marker of a frame or without.
Service ==
  /\ IF frame.phase = "ended"
     THEN /\ transport' = IF frame.command = NoCommand
                          THEN ServiceTxFifo(RetireTransmittedPacket(transport))
                          ELSE ServiceFrameEnd(transport, frame.command)
          /\ frame' = NoFrame
     ELSE /\ transport' = ServiceTxFifo(transport)
          /\ UNCHANGED frame
  /\ UNCHANGED read

Next == Enqueue \/ Clear \/ Pop \/ BeginFrame \/ EndFrame \/ Service

Spec == Init /\ [][Next]_vars
=============================================================================
