----------------------------- MODULE EventQueue -----------------------------
(***************************************************************************)
(* EventQueue<T, Capacity>, Capacity a positive number: the ring buffer    *)
(* behind txQueue_ and events_.  It implements BoundedFifo, which lets the *)
(* other modules use sequences.                                            *)
(***************************************************************************)
EXTENDS Integers, Sequences

CONSTANTS Capacity, Values, Blank   \* Blank: what T{} leaves in a fresh slot

VARIABLES
  ring,     \* storage_, head_, tail_ and count_
  answer    \* what the last call returned

queueVars == <<ring, answer>>

Slots == 0 .. Capacity - 1

Refused == [accepted |-> FALSE, out |-> <<>>]
Accepted(out) == [accepted |-> TRUE, out |-> out]

Init ==
  /\ ring = [storage |-> [slot \in Slots |-> Blank],
             head |-> 0, tail |-> 0, count |-> 0]
  /\ answer = Refused

\* Mutant of NextSlot: the index wraps one slot late.
NextSlotLate(slot) == (slot + 1) % (Capacity + 1)

NextSlot(slot) == (slot + 1) % Capacity

\* Mutant of Full: one value more than there are slots.
FullLate == ring.count > Capacity

Full == ring.count >= Capacity

Push(value) ==
  \/ /\ ~Full
     /\ ring' = [ring EXCEPT !.storage[ring.head] = value,
                             !.head = NextSlot(@), !.count = @ + 1]
     /\ answer' = Accepted(<<>>)
  \/ /\ Full
     /\ answer' = Refused
     /\ UNCHANGED ring

Pop ==
  \/ /\ ring.count # 0
     /\ ring' = [ring EXCEPT !.tail = NextSlot(@), !.count = @ - 1]
     /\ answer' = Accepted(<<ring.storage[ring.tail]>>)
  \/ /\ ring.count = 0
     /\ answer' = Refused
     /\ UNCHANGED ring

\* The slots keep their values.
Clear ==
  /\ ring' = [ring EXCEPT !.head = 0, !.tail = 0, !.count = 0]
  /\ answer' = Accepted(<<>>)

Next == (\E value \in Values : Push(value)) \/ Pop \/ Clear

Spec == Init /\ [][Next]_queueVars

-----------------------------------------------------------------------------

Rings ==
  [storage : [Slots -> Values \cup {Blank}], head : Slots, tail : Slots,
   count : 0 .. Capacity]

\* The three indices stay inside the storage and agree with one another: head
\* is count slots after tail, wrapped, whatever mix of calls came before.
RingOK ==
  /\ ring \in Rings
  /\ ring.head = (ring.tail + ring.count) % Capacity

\* The queued values, oldest first.
Contents ==
  [k \in 1 .. ring.count |-> ring.storage[(ring.tail + k - 1) % Capacity]]

Fifo == INSTANCE BoundedFifo WITH items <- Contents

\* Every call does to the contents, and answers, what the bounded FIFO does:
\* nothing is lost, overwritten or handed out twice across the wrap.
ImplementsFifo == Fifo!FifoSpec
=============================================================================
