----------------------------- MODULE BoundedFifo -----------------------------
(***************************************************************************)
(* What EventQueue promises and every other module relies on when it keeps *)
(* a queue as a sequence: a first-in first-out queue of at most Capacity   *)
(* values whose operations report whether they happened.                   *)
(***************************************************************************)
EXTENDS Naturals, Sequences

CONSTANTS Capacity, Values

VARIABLES
  items,    \* what is queued, oldest first
  answer    \* what the last operation returned

fifoVars == <<items, answer>>

Refused == [accepted |-> FALSE, out |-> <<>>]
Accepted(out) == [accepted |-> TRUE, out |-> out]

FifoInit == items = <<>> /\ answer = Refused

FifoPush(value) ==
  \/ /\ Len(items) < Capacity
     /\ items' = Append(items, value)
     /\ answer' = Accepted(<<>>)
  \/ /\ Len(items) = Capacity
     /\ answer' = Refused
     /\ UNCHANGED items

FifoPop ==
  \/ /\ items # <<>>
     /\ items' = Tail(items)
     /\ answer' = Accepted(<<Head(items)>>)
  \/ /\ items = <<>>
     /\ answer' = Refused
     /\ UNCHANGED items

FifoClear == items' = <<>> /\ answer' = Accepted(<<>>)

FifoNext == (\E value \in Values : FifoPush(value)) \/ FifoPop \/ FifoClear

FifoSpec == FifoInit /\ [][FifoNext]_fifoVars
=============================================================================
