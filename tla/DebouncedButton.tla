--------------------------- MODULE DebouncedButton ---------------------------
(***************************************************************************)
(* DebouncedButton: one button's six-state machine, as operators on its    *)
(* record.  Time is millis(), an unsigned counter that wraps.              *)
(***************************************************************************)
EXTENDS Integers

CONSTANTS
  TimeModulus,         \* 2^32
  ButtonDebounceMs,
  ButtonLongPressMs

ASSUME ButtonAssumption ==
  /\ TimeModulus \in Nat \ {0}
  /\ ButtonDebounceMs \in 1 .. TimeModulus - 1
  /\ ButtonLongPressMs \in 0 .. TimeModulus - 1

-----------------------------------------------------------------------------

Times == 0 .. TimeModulus - 1

ButtonStates == {"Released", "DebouncingPress", "Pressed", "LongHeld",
                 "DebouncingReleasePressed", "DebouncingReleaseLong"}

ButtonRecords ==
  [state : ButtonStates, transitionStarted : Times, pressStarted : Times]

\* Mutant of Elapsed: signed subtraction, which the wrap of millis() breaks.
ElapsedSigned(now, then) == now - then

Elapsed(now, then) == (now - then) % TimeModulus

BeginButton(pressed, now) ==
  [state             |-> IF pressed THEN "Pressed" ELSE "Released",
   transitionStarted |-> now,
   pressStarted      |-> now]

\* Mutant of Debounced: two samples in a row will do, however close.
DebouncedAtOnce(button, now) == TRUE

Debounced(button, now) ==
  Elapsed(now, button.transitionStarted) >= ButtonDebounceMs

\* Mutant of HeldLong: measured from the first contact, bounce included.
HeldLongSinceContact(button, now) ==
  Elapsed(now, button.transitionStarted) >= ButtonLongPressMs

HeldLong(button, now) ==
  Elapsed(now, button.pressStarted) >= ButtonLongPressMs

\* serviceRaw, by the level sampled and the state it finds.
ServiceButton(button, pressed, now) ==
  LET Enter(state) == [button EXCEPT !.state = state]
      Start(state) == [button EXCEPT !.state = state, !.transitionStarted = now]
      state        == button.state
  IN  IF pressed
      THEN CASE state = "Released" -> Start("DebouncingPress")
             [] state = "DebouncingPress" /\ Debounced(button, now) ->
                  [Enter("Pressed") EXCEPT !.pressStarted = now]
             [] state = "Pressed" /\ HeldLong(button, now) -> Enter("LongHeld")
             [] state = "DebouncingReleasePressed" -> Enter("Pressed")
             [] state = "DebouncingReleaseLong" -> Enter("LongHeld")
             [] OTHER -> button
      ELSE CASE state = "DebouncingPress" -> Enter("Released")
             [] state = "Pressed" -> Start("DebouncingReleasePressed")
             [] state = "LongHeld" -> Start("DebouncingReleaseLong")
             [] /\ state \in {"DebouncingReleasePressed", "DebouncingReleaseLong"}
                /\ Debounced(button, now) -> Enter("Released")
             [] OTHER -> button

\* Whether serviceRaw sets one of the three edges of its ButtonUpdate.
EdgeReported(before, after) ==
  \/ before.state = "DebouncingPress" /\ after.state = "Pressed"
  \/ before.state = "Pressed" /\ after.state = "LongHeld"
  \/ /\ before.state \in {"DebouncingReleasePressed", "DebouncingReleaseLong"}
     /\ after.state = "Released"

IsPressed(button) == button.state \notin {"Released", "DebouncingPress"}

IsLongHeld(button) == button.state \in {"LongHeld", "DebouncingReleaseLong"}
=============================================================================
