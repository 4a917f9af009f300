----------------------------- MODULE EncoderPIO -----------------------------
(***************************************************************************)
(* EncoderPIO: one encoder's decoder in C++ and the PIO program that       *)
(* samples its two pins, as operators on their records.  A pin state is    *)
(* the number the code makes of it, A + 2 * B once canonical.              *)
(***************************************************************************)
EXTENDS Integers, Sequences

CONSTANTS
  EncoderTransitionsPerDetent,   \* 4
  MaxEncoderSamplesPerService,   \* 8
  EncoderFifoDepth,              \* 4, words of the PIO RX FIFO
  CountMinimum,                  \* limits of EncoderValue, an int32
  CountMaximum

ASSUME EncoderAssumption ==
  /\ EncoderTransitionsPerDetent \in Nat \ {0}
  /\ MaxEncoderSamplesPerService \in Nat \ {0}
  /\ EncoderFifoDepth \in Nat \ {0}
  /\ CountMinimum \in Int /\ CountMinimum <= 0
  /\ CountMaximum \in Nat

-----------------------------------------------------------------------------
(* Pins *)

PinStates == 0 .. 3

\* The Gray code a knob shows at a position counted in transitions.
PhaseAt(position) == <<0, 1, 3, 2>>[(position % 4) + 1]

\* The two pins exchanged, for encoders whose A is the higher pin.
Exchanged(phase) == <<0, 2, 1, 3>>[phase + 1]

\* canonicalize; its inverse is the same exchange.
Canonicalize(raw, exchanged) == IF exchanged THEN Exchanged(raw) ELSE raw

-----------------------------------------------------------------------------
(* The sampler, encoder_state_stream *)

\* x is the last state seen, isr the word that waits in "push block".
StartedSampler(raw) == [pc |-> "sample", x |-> raw, isr |-> 0, fifo |-> <<>>]

SeesChange(sampler, raw) == sampler.pc = "sample" /\ sampler.x # raw

TakeSample(sampler, raw) ==
  [sampler EXCEPT !.pc = "push", !.x = raw, !.isr = raw]

CanPush(sampler) ==
  sampler.pc = "push" /\ Len(sampler.fifo) < EncoderFifoDepth

PushSample(sampler) ==
  [sampler EXCEPT !.pc = "sample", !.fifo = Append(@, sampler.isr)]

-----------------------------------------------------------------------------
(* The decoder *)

StoppedEncoder == [count |-> 0, previous |-> 0, started |-> FALSE]

BeginEncoder(phase) == [count |-> 0, previous |-> phase, started |-> TRUE]

\* Row by row for the previous state 0 .. 3.
QuadratureDelta == <<0, 1, -1, 0,  -1, 0, 0, 1,  1, 0, 0, -1,  0, -1, 1, 0>>

\* Mutant of Saturated: the limits are tested with <= and >=.
SaturatedLate(count) ==
  IF count > CountMaximum + 1 THEN CountMaximum + 1
  ELSE IF count < CountMinimum - 1 THEN CountMinimum - 1
  ELSE count

Saturated(count) ==
  IF count > CountMaximum THEN CountMaximum
  ELSE IF count < CountMinimum THEN CountMinimum
  ELSE count

\* Mutant of ApplyTransition: the previous state is kept unless the count rises.
ApplyTransitionStuck(encoder, phase) ==
  LET delta == QuadratureDelta[encoder.previous * 4 + phase + 1]
  IN  [encoder EXCEPT !.count = Saturated(@ + delta),
                      !.previous = IF delta > 0 THEN phase ELSE @]

ApplyTransition(encoder, phase) ==
  [encoder EXCEPT
     !.count    = Saturated(@ + QuadratureDelta[encoder.previous * 4 + phase + 1]),
     !.previous = phase]

ApplySamples(encoder, words, exchanged) ==
  LET after[n \in 0 .. Len(words)] ==
        IF n = 0 THEN encoder
        ELSE ApplyTransition(after[n - 1], Canonicalize(words[n], exchanged))
  IN  after[Len(words)]

\* How many of the waiting words one service() takes.
WordsTaken(encoder, sampler) ==
  IF ~encoder.started THEN 0
  ELSE IF Len(sampler.fifo) < MaxEncoderSamplesPerService
  THEN Len(sampler.fifo) ELSE MaxEncoderSamplesPerService

\* C++ division truncates towards zero.
Quotient(dividend, divisor) ==
  IF dividend < 0 THEN -((-dividend) \div divisor) ELSE dividend \div divisor

DetentCount(encoder) == Quotient(encoder.count, EncoderTransitionsPerDetent)

SetDetentCount(encoder, detents) ==
  LET maximum == Quotient(CountMaximum, EncoderTransitionsPerDetent)
      minimum == Quotient(CountMinimum, EncoderTransitionsPerDetent)
      bounded == IF detents > maximum THEN maximum
                 ELSE IF detents < minimum THEN minimum ELSE detents
  IN  [count    |-> bounded * EncoderTransitionsPerDetent,
       previous |-> encoder.previous,
       started  |-> encoder.started]
=============================================================================
