------------------------ MODULE ControlScannerProofs ------------------------
(***************************************************************************)
(* What ControlScanner promises its caller about counts and buttons, for   *)
(* every set of controls and users, every width of the millisecond counter *)
(* and every debounce and long-press time that fits into it together with  *)
(* the longest gap between two scans, every FIFO depth, service limit and  *)
(* range of the count.                                                     *)
(*                                                                         *)
(* A button's own record cannot be the whole invariant: it remembers when  *)
(* a transition began but not what was sampled since.  FollowsContact ties *)
(* it to the history in contact: in a debouncing state the level has been  *)
(* steady exactly since transitionStarted, in a steady state the level is  *)
(* the one reported, and while a press is reported the time held is the    *)
(* time since pressStarted until it passes the long-press time.            *)
(*                                                                         *)
(* For the counts, Drained is the decoder once the words under way are     *)
(* decoded.  Sampling changes it by the transition just seen; pushing a    *)
(* word, and a service that takes some of them, do not change it.  Where   *)
(* the sampler has seen the knob's position, Drained has it too            *)
(* (KnobInvariant), so the knob's next transition is a step of one.  That  *)
(* words may be decoded in portions (ApplyConcat) is an induction over the *)
(* words: SetInduction, from the well-foundedness of < on Nat.             *)
(***************************************************************************)
EXTENDS ControlScanner, SequenceTheorems, WellFoundedInduction, TLAPS

-----------------------------------------------------------------------------
(* The millisecond counter *)

\* An unsigned difference of two readings, without the remainder.
LEMMA ElapsedValue ==
  ASSUME NEW a \in Times, NEW b \in Times
  PROVE  /\ Elapsed(a, b) = IF a >= b THEN a - b ELSE a - b + TimeModulus
         /\ Elapsed(a, b) \in Times
<1>1. a \in Int /\ b \in Int /\ 0 <= a /\ a < TimeModulus /\ 0 <= b /\ b < TimeModulus
      /\ TimeModulus \in Nat /\ TimeModulus > 0
  BY ButtonAssumption DEF Times
<1>2. (a - b) % TimeModulus = IF a >= b THEN a - b ELSE a - b + TimeModulus
  BY <1>1
<1> QED
  BY <1>1, <1>2 DEF Elapsed, Times

\* The reading one gap later, on both sides of the wrap.
LEMMA LaterReading ==
  ASSUME NEW a \in Times, NEW gap \in 0 .. MaxGap
  PROVE  /\ (a + gap) % TimeModulus =
              IF a + gap < TimeModulus THEN a + gap ELSE a + gap - TimeModulus
         /\ (a + gap) % TimeModulus \in Times
<1>1. a \in Int /\ 0 <= a /\ a < TimeModulus /\ TimeModulus \in Nat /\ TimeModulus > 0
  BY ButtonAssumption DEF Times
<1>2. gap \in Int /\ 0 <= gap /\ gap < TimeModulus
  BY ButtonAssumption, ScannerAssumption
<1>3. (a + gap) % TimeModulus =
        IF a + gap < TimeModulus THEN a + gap ELSE a + gap - TimeModulus
  BY <1>1, <1>2
<1> QED
  BY <1>1, <1>2, <1>3 DEF Times

\* A time that has not wrapped grows by the gap.
LEMMA ElapsedGrows ==
  ASSUME NEW a \in Times, NEW b \in Times, NEW gap \in 0 .. MaxGap,
         Elapsed(a, b) + gap < TimeModulus
  PROVE  Elapsed((a + gap) % TimeModulus, b) = Elapsed(a, b) + gap
<1> DEFINE later == (a + gap) % TimeModulus
<1>1. later \in Times
      /\ later = IF a + gap < TimeModulus THEN a + gap ELSE a + gap - TimeModulus
  BY LaterReading
<1>2. Elapsed(later, b) = IF later >= b THEN later - b ELSE later - b + TimeModulus
  BY <1>1, ElapsedValue
<1>3. Elapsed(a, b) = IF a >= b THEN a - b ELSE a - b + TimeModulus
  BY ElapsedValue
<1>4. a \in Int /\ b \in Int /\ 0 <= a /\ a < TimeModulus /\ 0 <= b /\ b < TimeModulus
      /\ TimeModulus \in Nat /\ gap \in Int /\ 0 <= gap /\ gap < TimeModulus
  BY ButtonAssumption, ScannerAssumption DEF Times
<1> HIDE DEF later
<1> QED
  BY <1>1, <1>2, <1>3, <1>4 DEF later

\* No time has passed since the reading itself.
LEMMA ElapsedZero ==
  ASSUME NEW a \in Times
  PROVE  Elapsed(a, a) = 0
<1>1. a \in Int
  BY ButtonAssumption DEF Times
<1> QED
  BY <1>1, ElapsedValue

\* The time between two scans is at most MaxGap, also where it stands still.
LEMMA GapsBounded == Gaps \subseteq 0 .. MaxGap
  BY ScannerAssumption DEF Gaps

-----------------------------------------------------------------------------
(* One button *)

Debouncing == {"DebouncingPress", "DebouncingReleasePressed", "DebouncingReleaseLong"}

ContactRecords ==
  [level : BOOLEAN, steady : 0 .. ButtonDebounceMs, held : 0 .. ButtonLongPressMs]

FollowsContact(button, history, time) ==
  /\ button \in ButtonRecords
  /\ history \in ContactRecords
  /\ history.level <=> button.state \in {"DebouncingPress", "Pressed", "LongHeld"}
  /\ button.state \in Debouncing =>
       /\ history.steady < ButtonDebounceMs
       /\ history.steady = Elapsed(time, button.transitionStarted)
  /\ button.state \in {"Pressed", "DebouncingReleasePressed"} =>
       \/ history.held = ButtonLongPressMs
       \/ history.held = Elapsed(time, button.pressStarted)

\* A button that has just begun follows the contact it was begun with.
LEMMA BegunFollows ==
  ASSUME NEW pressed \in BOOLEAN, NEW time \in Times
  PROVE  FollowsContact(BeginButton(pressed, time),
                        [level |-> pressed, steady |-> 0, held |-> 0], time)
<1>1. 0 \in 0 .. ButtonDebounceMs /\ 0 \in 0 .. ButtonLongPressMs
  BY ButtonAssumption
<1>2. Elapsed(time, time) = 0
  BY ElapsedZero
<1> QED
  BY <1>1, <1>2 DEF FollowsContact, BeginButton, ButtonRecords, ButtonStates,
                    ContactRecords, Debouncing

\* What serviceRaw does from each state, by the level it is given.
LEMMA ServiceByState ==
  ASSUME NEW button \in ButtonRecords, NEW pressed \in BOOLEAN, NEW time \in Times
  PROVE  LET next == ServiceButton(button, pressed, time)
         IN  /\ next \in ButtonRecords
             /\ next.transitionStarted =
                  IF \/ pressed /\ button.state = "Released"
                     \/ ~pressed /\ button.state \in {"Pressed", "LongHeld"}
                  THEN time ELSE button.transitionStarted
             /\ next.pressStarted =
                  IF pressed /\ button.state = "DebouncingPress"
                     /\ Debounced(button, time)
                  THEN time ELSE button.pressStarted
             /\ button.state = "Released" =>
                  next.state = IF pressed THEN "DebouncingPress" ELSE "Released"
             /\ button.state = "DebouncingPress" =>
                  next.state = IF ~pressed THEN "Released"
                               ELSE IF Debounced(button, time) THEN "Pressed"
                               ELSE "DebouncingPress"
             /\ button.state = "Pressed" =>
                  next.state = IF ~pressed THEN "DebouncingReleasePressed"
                               ELSE IF HeldLong(button, time) THEN "LongHeld"
                               ELSE "Pressed"
             /\ button.state = "LongHeld" =>
                  next.state = IF pressed THEN "LongHeld" ELSE "DebouncingReleaseLong"
             /\ button.state = "DebouncingReleasePressed" =>
                  next.state = IF pressed THEN "Pressed"
                               ELSE IF Debounced(button, time) THEN "Released"
                               ELSE "DebouncingReleasePressed"
             /\ button.state = "DebouncingReleaseLong" =>
                  next.state = IF pressed THEN "LongHeld"
                               ELSE IF Debounced(button, time) THEN "Released"
                               ELSE "DebouncingReleaseLong"
<1>1. CASE button.state = "Released"
  BY <1>1 DEF ServiceButton, ButtonRecords, ButtonStates
<1>2. CASE button.state = "DebouncingPress"
  BY <1>2 DEF ServiceButton, ButtonRecords, ButtonStates
<1>3. CASE button.state = "Pressed"
  BY <1>3 DEF ServiceButton, ButtonRecords, ButtonStates
<1>4. CASE button.state = "LongHeld"
  BY <1>4 DEF ServiceButton, ButtonRecords, ButtonStates
<1>5. CASE button.state = "DebouncingReleasePressed"
  BY <1>5 DEF ServiceButton, ButtonRecords, ButtonStates
<1>6. CASE button.state = "DebouncingReleaseLong"
  BY <1>6 DEF ServiceButton, ButtonRecords, ButtonStates
<1> QED
  BY <1>1, <1>2, <1>3, <1>4, <1>5, <1>6 DEF ButtonRecords, ButtonStates

\* What one sample does to the history, while the level lasts and when it changes.
LEMMA ContactByLevel ==
  ASSUME NEW history \in ContactRecords, NEW pressed \in BOOLEAN,
         NEW gap \in 0 .. MaxGap, NEW before, NEW after
  PROVE  LET next == NextContact(history, pressed, gap, before, after)
         IN  /\ next \in ContactRecords
             /\ next.level <=> pressed
             /\ (history.level <=> pressed) =>
                  \/ /\ next.steady = ButtonDebounceMs
                     /\ history.steady + gap >= ButtonDebounceMs
                  \/ /\ next.steady = history.steady + gap
                     /\ next.steady < ButtonDebounceMs
             /\ (history.level <=> ~pressed) => next.steady = 0
             /\ ~IsPressed(before) \/ ~IsPressed(after) => next.held = 0
             /\ IsPressed(before) /\ IsPressed(after) =>
                  \/ next.held = ButtonLongPressMs
                  \/ /\ next.held = history.held + gap
                     /\ next.held < ButtonLongPressMs
<1>1. /\ history.steady \in Nat /\ history.steady <= ButtonDebounceMs
      /\ history.held \in Nat /\ history.held <= ButtonLongPressMs
      /\ gap \in Nat /\ ButtonDebounceMs \in Nat /\ ButtonLongPressMs \in Nat
  BY ButtonAssumption, ScannerAssumption DEF ContactRecords
<1>2. /\ Least(history.steady + gap, ButtonDebounceMs) \in 0 .. ButtonDebounceMs
      /\ \/ /\ Least(history.steady + gap, ButtonDebounceMs) = ButtonDebounceMs
            /\ history.steady + gap >= ButtonDebounceMs
         \/ /\ Least(history.steady + gap, ButtonDebounceMs) = history.steady + gap
            /\ Least(history.steady + gap, ButtonDebounceMs) < ButtonDebounceMs
  BY <1>1 DEF Least
<1>3. /\ Least(history.held + gap, ButtonLongPressMs) \in 0 .. ButtonLongPressMs
      /\ \/ Least(history.held + gap, ButtonLongPressMs) = ButtonLongPressMs
         \/ /\ Least(history.held + gap, ButtonLongPressMs) = history.held + gap
            /\ Least(history.held + gap, ButtonLongPressMs) < ButtonLongPressMs
  BY <1>1 DEF Least
<1>4. 0 \in 0 .. ButtonDebounceMs /\ 0 \in 0 .. ButtonLongPressMs
  BY <1>1
<1>5. history.level \in BOOLEAN
  BY DEF ContactRecords
<1> QED
  BY <1>2, <1>3, <1>4, <1>5 DEF NextContact, ContactRecords

\* One service of a button that follows its contact: it still does, and what it
\* reports it has waited for.
LEMMA ServiceFollows ==
  ASSUME NEW button, NEW history, NEW time \in Times, NEW gap \in 0 .. MaxGap,
         NEW pressed \in BOOLEAN, FollowsContact(button, history, time)
  PROVE  LET later == (time + gap) % TimeModulus
             next  == ServiceButton(button, pressed, later)
             after == NextContact(history, pressed, gap, button, next)
         IN  /\ FollowsContact(next, after, later)
             /\ (IsPressed(button) <=> ~IsPressed(next)) =>
                  after.steady >= ButtonDebounceMs
             /\ ~IsLongHeld(button) /\ IsLongHeld(next) =>
                  after.held >= ButtonLongPressMs
<1> DEFINE later == (time + gap) % TimeModulus
           next  == ServiceButton(button, pressed, later)
           after == NextContact(history, pressed, gap, button, next)
<1> SUFFICES
      /\ FollowsContact(next, after, later)
      /\ (IsPressed(button) <=> ~IsPressed(next)) => after.steady >= ButtonDebounceMs
      /\ ~IsLongHeld(button) /\ IsLongHeld(next) => after.held >= ButtonLongPressMs
  OBVIOUS
<1>1. /\ button \in ButtonRecords /\ history \in ContactRecords
      /\ history.level <=> button.state \in {"DebouncingPress", "Pressed", "LongHeld"}
  BY DEF FollowsContact
<1>2. later \in Times
  BY LaterReading
<1>3. Elapsed(later, later) = 0
  BY <1>2, ElapsedZero
<1>4. Elapsed(later, button.transitionStarted) \in Nat
      /\ Elapsed(later, button.pressStarted) \in Nat
  BY <1>1, <1>2, ElapsedValue DEF ButtonRecords, Times
<1>5. /\ history.steady \in Nat /\ history.held \in Nat /\ gap \in Nat
      /\ history.held <= ButtonLongPressMs /\ history.steady <= ButtonDebounceMs
      /\ ButtonDebounceMs \in Nat /\ ButtonLongPressMs \in Nat /\ ButtonDebounceMs > 0
      /\ MaxGap \in Nat /\ TimeModulus \in Nat
  BY <1>1, ButtonAssumption, ScannerAssumption DEF ContactRecords
<1>6. button.state \in Debouncing =>
        Elapsed(later, button.transitionStarted) = history.steady + gap
  <2> SUFFICES ASSUME button.state \in Debouncing
               PROVE  Elapsed(later, button.transitionStarted) = history.steady + gap
    OBVIOUS
  <2>1. /\ history.steady < ButtonDebounceMs
        /\ history.steady = Elapsed(time, button.transitionStarted)
    BY DEF FollowsContact
  <2>2. Elapsed(time, button.transitionStarted) + gap < TimeModulus
    BY <2>1, <1>5, ScannerAssumption
  <2> QED
    BY <1>1, <2>1, <2>2, ElapsedGrows DEF ButtonRecords
<1>7. button.state \in {"Pressed", "DebouncingReleasePressed"} =>
        \/ history.held = ButtonLongPressMs
        \/ Elapsed(later, button.pressStarted) = history.held + gap
  <2> SUFFICES ASSUME button.state \in {"Pressed", "DebouncingReleasePressed"},
                      history.held # ButtonLongPressMs
               PROVE  Elapsed(later, button.pressStarted) = history.held + gap
    OBVIOUS
  <2>1. history.held = Elapsed(time, button.pressStarted)
    BY DEF FollowsContact
  <2>2. Elapsed(time, button.pressStarted) + gap < TimeModulus
    BY <2>1, <1>5, ScannerAssumption
  <2> QED
    BY <1>1, <2>1, <2>2, ElapsedGrows DEF ButtonRecords
<1>8. /\ next \in ButtonRecords
      /\ after \in ContactRecords
      /\ after.level <=> pressed
  BY <1>1, <1>2, ServiceByState, ContactByLevel
<1>9. Debounced(button, later) <=>
        Elapsed(later, button.transitionStarted) >= ButtonDebounceMs
  BY DEF Debounced
<1>10. HeldLong(button, later) <=>
         Elapsed(later, button.pressStarted) >= ButtonLongPressMs
  BY DEF HeldLong
<1>11. /\ (history.level <=> pressed) =>
            \/ /\ after.steady = ButtonDebounceMs
               /\ history.steady + gap >= ButtonDebounceMs
            \/ /\ after.steady = history.steady + gap
               /\ after.steady < ButtonDebounceMs
       /\ (history.level <=> ~pressed) => after.steady = 0
       /\ ~IsPressed(button) \/ ~IsPressed(next) => after.held = 0
       /\ IsPressed(button) /\ IsPressed(next) =>
            \/ after.held = ButtonLongPressMs
            \/ /\ after.held = history.held + gap
               /\ after.held < ButtonLongPressMs
  BY <1>1, ContactByLevel
<1>12. history.level \in BOOLEAN
  BY <1>1 DEF ContactRecords
<1>13. CASE button.state = "Released"
  <2>1. /\ next.state = IF pressed THEN "DebouncingPress" ELSE "Released"
        /\ pressed => next.transitionStarted = later
    BY <1>13, <1>1, <1>2, ServiceByState
  <2> HIDE DEF later, next, after
  <2> QED
    BY <2>1, <1>1, <1>3, <1>5, <1>8, <1>11, <1>12, <1>13
    DEF FollowsContact, Debouncing, IsPressed, IsLongHeld
<1>14. CASE button.state = "DebouncingPress"
  <2>1. /\ next.state = IF ~pressed THEN "Released"
                        ELSE IF Debounced(button, later) THEN "Pressed"
                        ELSE "DebouncingPress"
        /\ next.transitionStarted = button.transitionStarted
        /\ pressed /\ Debounced(button, later) => next.pressStarted = later
    BY <1>14, <1>1, <1>2, ServiceByState
  <2>2. Elapsed(later, button.transitionStarted) = history.steady + gap
    BY <1>6, <1>14 DEF Debouncing
  <2> HIDE DEF later, next, after
  <2> QED
    BY <2>1, <2>2, <1>1, <1>3, <1>5, <1>8, <1>9, <1>11, <1>12, <1>14
    DEF FollowsContact, Debouncing, IsPressed, IsLongHeld
<1>15. CASE button.state = "Pressed"
  <2>1. /\ next.state = IF ~pressed THEN "DebouncingReleasePressed"
                        ELSE IF HeldLong(button, later) THEN "LongHeld"
                        ELSE "Pressed"
        /\ ~pressed => next.transitionStarted = later
        /\ next.pressStarted = button.pressStarted
    BY <1>15, <1>1, <1>2, ServiceByState
  <2> HIDE DEF later, next, after
  <2> QED
    BY <2>1, <1>1, <1>3, <1>4, <1>5, <1>7, <1>8, <1>10, <1>11, <1>12, <1>15
    DEF FollowsContact, Debouncing, IsPressed, IsLongHeld
<1>16. CASE button.state = "LongHeld"
  <2>1. /\ next.state = IF pressed THEN "LongHeld" ELSE "DebouncingReleaseLong"
        /\ ~pressed => next.transitionStarted = later
    BY <1>16, <1>1, <1>2, ServiceByState
  <2> HIDE DEF later, next, after
  <2> QED
    BY <2>1, <1>1, <1>3, <1>5, <1>8, <1>11, <1>12, <1>16
    DEF FollowsContact, Debouncing, IsPressed, IsLongHeld
<1>17. CASE button.state = "DebouncingReleasePressed"
  <2>1. /\ next.state = IF pressed THEN "Pressed"
                        ELSE IF Debounced(button, later) THEN "Released"
                        ELSE "DebouncingReleasePressed"
        /\ next.transitionStarted = button.transitionStarted
        /\ next.pressStarted = button.pressStarted
    BY <1>17, <1>1, <1>2, ServiceByState
  <2>2. Elapsed(later, button.transitionStarted) = history.steady + gap
    BY <1>6, <1>17 DEF Debouncing
  <2> HIDE DEF later, next, after
  <2> QED
    BY <2>1, <2>2, <1>1, <1>5, <1>7, <1>8, <1>9, <1>11, <1>12, <1>17
    DEF FollowsContact, Debouncing, IsPressed, IsLongHeld
<1>18. CASE button.state = "DebouncingReleaseLong"
  <2>1. /\ next.state = IF pressed THEN "LongHeld"
                        ELSE IF Debounced(button, later) THEN "Released"
                        ELSE "DebouncingReleaseLong"
        /\ next.transitionStarted = button.transitionStarted
    BY <1>18, <1>1, <1>2, ServiceByState
  <2>2. Elapsed(later, button.transitionStarted) = history.steady + gap
    BY <1>6, <1>18 DEF Debouncing
  <2> HIDE DEF later, next, after
  <2> QED
    BY <2>1, <2>2, <1>1, <1>5, <1>8, <1>9, <1>11, <1>12, <1>18
    DEF FollowsContact, Debouncing, IsPressed, IsLongHeld
<1>19. \/ button.state = "Released" \/ button.state = "DebouncingPress"
       \/ button.state = "Pressed" \/ button.state = "LongHeld"
       \/ button.state = "DebouncingReleasePressed"
       \/ button.state = "DebouncingReleaseLong"
  BY <1>1 DEF ButtonRecords, ButtonStates
<1> QED
  BY <1>13, <1>14, <1>15, <1>16, <1>17, <1>18, <1>19

\* An edge is reported exactly when the button changes in a bitmap.
LEMMA EdgeMeansChange ==
  ASSUME NEW button \in ButtonRecords, NEW pressed \in BOOLEAN, NEW time \in Times
  PROVE  LET next == ServiceButton(button, pressed, time)
         IN  EdgeReported(button, next) <=>
               \/ IsPressed(button) <=> ~IsPressed(next)
               \/ IsLongHeld(button) <=> ~IsLongHeld(next)
<1> DEFINE next == ServiceButton(button, pressed, time)
<1>1. button.state \in ButtonStates
  BY DEF ButtonRecords
<1>2. /\ button.state = "Released" => next.state \in {"Released", "DebouncingPress"}
      /\ button.state = "DebouncingPress" =>
           next.state \in {"Released", "DebouncingPress", "Pressed"}
      /\ button.state = "Pressed" =>
           next.state \in {"Pressed", "LongHeld", "DebouncingReleasePressed"}
      /\ button.state = "LongHeld" =>
           next.state \in {"LongHeld", "DebouncingReleaseLong"}
      /\ button.state = "DebouncingReleasePressed" =>
           next.state \in {"Pressed", "Released", "DebouncingReleasePressed"}
      /\ button.state = "DebouncingReleaseLong" =>
           next.state \in {"LongHeld", "Released", "DebouncingReleaseLong"}
  <2>1. /\ button.state = "Released" =>
             next.state = IF pressed THEN "DebouncingPress" ELSE "Released"
        /\ button.state = "DebouncingPress" =>
             next.state = IF ~pressed THEN "Released"
                          ELSE IF Debounced(button, time) THEN "Pressed"
                          ELSE "DebouncingPress"
        /\ button.state = "Pressed" =>
             next.state = IF ~pressed THEN "DebouncingReleasePressed"
                          ELSE IF HeldLong(button, time) THEN "LongHeld"
                          ELSE "Pressed"
        /\ button.state = "LongHeld" =>
             next.state = IF pressed THEN "LongHeld" ELSE "DebouncingReleaseLong"
        /\ button.state = "DebouncingReleasePressed" =>
             next.state = IF pressed THEN "Pressed"
                          ELSE IF Debounced(button, time) THEN "Released"
                          ELSE "DebouncingReleasePressed"
        /\ button.state = "DebouncingReleaseLong" =>
             next.state = IF pressed THEN "LongHeld"
                          ELSE IF Debounced(button, time) THEN "Released"
                          ELSE "DebouncingReleaseLong"
    BY ServiceByState
  <2> HIDE DEF next
  <2> QED
    BY <2>1
<1> HIDE DEF next
<1>3. EdgeReported(button, next) <=>
        \/ IsPressed(button) <=> ~IsPressed(next)
        \/ IsLongHeld(button) <=> ~IsLongHeld(next)
  BY <1>1, <1>2 DEF EdgeReported, IsPressed, IsLongHeld, ButtonStates
<1> QED
  BY <1>3 DEF next

-----------------------------------------------------------------------------
(* One encoder *)

\* Division of a count by a detent keeps zero and does not change sides.
LEMMA QuotientSign ==
  ASSUME NEW n \in Int, NEW d \in Nat \ {0}
  PROVE  /\ Quotient(n, d) \in Int
         /\ n = 0 => Quotient(n, d) = 0
         /\ n >= 0 => Quotient(n, d) >= 0
         /\ n <= 0 => Quotient(n, d) <= 0
<1>1. ASSUME NEW m \in Nat
      PROVE  m \div d \in Nat /\ (m = 0 => m \div d = 0)
  OBVIOUS
<1>2. CASE n >= 0
  <2>1. n \div d \in Nat /\ (n = 0 => n \div d = 0)
    BY <1>1, <1>2
  <2> QED
    BY <2>1, <1>2 DEF Quotient
<1>3. CASE n < 0
  <2>1. (-n) \div d \in Nat
    BY <1>1, <1>3
  <2> QED
    BY <2>1, <1>3 DEF Quotient
<1> QED
  BY <1>2, <1>3

\* A reset encoder holds 0 and reads 0, whatever it held and however narrow the
\* counter.
LEMMA ResetReadsZero ==
  /\ \A encoder : /\ SetDetentCount(encoder, 0).count = 0
                  /\ DetentCount(SetDetentCount(encoder, 0)) = 0
  /\ DetentCount(StoppedEncoder) = 0
<1> DEFINE T == EncoderTransitionsPerDetent
<1>1. T \in Nat \ {0} /\ CountMinimum \in Int /\ CountMinimum <= 0 /\ CountMaximum \in Nat
  BY EncoderAssumption
<1>2. Quotient(CountMaximum, T) >= 0 /\ Quotient(CountMaximum, T) \in Int
  BY <1>1, QuotientSign
<1>3. Quotient(CountMinimum, T) <= 0 /\ Quotient(CountMinimum, T) \in Int
  BY <1>1, QuotientSign
<1>4. Quotient(0, T) = 0
  BY <1>1, QuotientSign
<1>5. ASSUME NEW encoder
      PROVE  SetDetentCount(encoder, 0).count = 0
  <2>1. SetDetentCount(encoder, 0).count = 0 * T
    BY <1>2, <1>3 DEF SetDetentCount
  <2> QED
    BY <2>1, <1>1
<1> QED
  BY <1>4, <1>5 DEF DetentCount, StoppedEncoder

-----------------------------------------------------------------------------
(* Buttons and cache *)

ScannerInvariant ==
  /\ now \in Times
  /\ \A c \in Controls : FollowsContact(buttons[c], contact[c], now)
  /\ bitmaps = RefreshedBitmaps(buttons)
  /\ CacheIsCurrent

\* What a scan reports of buttons, as an action.
ReportsAreEarned ==
  /\ \A c \in Controls :
       begun = "ok" /\ (c \in bitmaps.pressed <=> c \notin bitmaps'.pressed) =>
         contact'[c].steady >= ButtonDebounceMs
  /\ \A c \in Controls :
       c \notin bitmaps.longHeld /\ c \in bitmaps'.longHeld =>
         contact'[c].held >= ButtonLongPressMs
  /\ begun = "ok" =>
       ((\E c \in Controls : EdgeReported(buttons[c], buttons'[c]))
          <=> bitmaps' # bitmaps)

\* What a pin reads is pressed or not.
LEMMA LevelsAreBoolean ==
  ASSUME NEW levels \in Levels, NEW c \in Controls
  PROVE  levels[c] \in BOOLEAN
<1>1. PICK down \in SUBSET user.pressing : levels = [d \in Controls |-> d \in down]
  BY DEF Levels
<1>2. levels \in [Controls -> BOOLEAN]
  BY <1>1, SMT
<1> QED
  BY <1>2

\* At power-up the buttons are released and nothing is counted.
LEMMA InitHolds == Init => ScannerInvariant
<1> SUFFICES ASSUME Init PROVE ScannerInvariant
  OBVIOUS
<1>1. now \in Times
  BY ButtonAssumption DEF Init, Times
<1>2. ASSUME NEW c \in Controls
      PROVE  FollowsContact(buttons[c], contact[c], now)
  <2>1. buttons[c] = BeginButton(FALSE, 0)
        /\ contact[c] = [level |-> FALSE, steady |-> 0, held |-> 0]
    BY DEF Init
  <2>2. 0 \in Times /\ 0 \in 0 .. ButtonDebounceMs /\ 0 \in 0 .. ButtonLongPressMs
    BY ButtonAssumption DEF Times
  <2> QED
    BY <2>1, <2>2 DEF FollowsContact, BeginButton, ButtonRecords, ButtonStates,
                      ContactRecords, Debouncing
<1>3. bitmaps = RefreshedBitmaps(buttons)
  BY DEF Init, RefreshedBitmaps, BeginButton, IsPressed, IsLongHeld
<1>4. CacheIsCurrent
  BY ResetReadsZero DEF Init, CacheIsCurrent
<1> QED
  BY <1>1, <1>2, <1>3, <1>4 DEF ScannerInvariant

\* A step that leaves buttons and history alone and keeps the cache in step.
LEMMA ButtonsUntouched ==
  ASSUME ScannerInvariant, CacheIsCurrent',
         UNCHANGED <<buttons, bitmaps, now, contact>>
  PROVE  ScannerInvariant' /\ ReportsAreEarned
<1>1. ScannerInvariant'
  BY DEF ScannerInvariant, RefreshedBitmaps
<1>2. ASSUME NEW c \in Controls
      PROVE  ~EdgeReported(buttons[c], buttons[c])
  BY DEF EdgeReported
<1> QED
  BY <1>1, <1>2 DEF ReportsAreEarned

\* begin() takes the levels it finds as the state of the buttons.
LEMMA BeginHolds ==
  ASSUME ScannerInvariant, Begin
  PROVE  ScannerInvariant' /\ ReportsAreEarned
<1>1. PICK levels \in Levels :
        /\ buttons' = [c \in Controls |-> BeginButton(levels[c], now)]
        /\ cached' = [c \in Controls |-> DetentCount(encoders'[c])]
        /\ contact' = [c \in Controls |->
             [level |-> levels[c], steady |-> 0, held |-> 0]]
  BY DEF Begin
<1>2. now \in Times /\ now' = now /\ begun = "no"
      /\ bitmaps' = RefreshedBitmaps(buttons')
  BY DEF ScannerInvariant, Begin
<1>3. ASSUME NEW c \in Controls
      PROVE  /\ FollowsContact(buttons'[c], contact'[c], now')
             /\ c \notin bitmaps'.longHeld
  <2>1. levels[c] \in BOOLEAN
    BY <1>1, LevelsAreBoolean
  <2>2. FollowsContact(BeginButton(levels[c], now),
                       [level |-> levels[c], steady |-> 0, held |-> 0], now)
    BY <2>1, <1>2, BegunFollows
  <2>3. ~IsLongHeld(buttons'[c])
    BY <1>1 DEF BeginButton, IsLongHeld
  <2> QED
    BY <1>1, <1>2, <2>2, <2>3 DEF RefreshedBitmaps
<1>4. CacheIsCurrent'
  BY <1>1 DEF CacheIsCurrent
<1>5. (bitmaps = RefreshedBitmaps(buttons))'
  BY <1>2 DEF RefreshedBitmaps
<1> QED
  BY <1>2, <1>3, <1>4, <1>5 DEF ScannerInvariant, ReportsAreEarned

\* service(): every button by ServiceFollows, and the bitmaps from all of them.
LEMMA ScanHolds ==
  ASSUME ScannerInvariant, NEW gap \in Gaps, NEW levels \in Levels, Scan(gap, levels)
  PROVE  ScannerInvariant' /\ ReportsAreEarned
<1>1. /\ now' = (now + gap) % TimeModulus
      /\ cached' = [c \in Controls |-> DetentCount(encoders'[c])]
      /\ buttons' = [c \in Controls |->
           ServiceButton(buttons[c], levels[c], (now + gap) % TimeModulus)]
      /\ bitmaps' = RefreshedBitmaps(buttons')
      /\ contact' = [c \in Controls |->
           NextContact(contact[c], levels[c], gap, buttons[c], buttons'[c])]
  BY DEF Scan
<1>2. gap \in 0 .. MaxGap
  BY GapsBounded
<1>3. now \in Times /\ now' \in Times
  BY <1>1, <1>2, LaterReading DEF ScannerInvariant
<1>4. ASSUME NEW c \in Controls
      PROVE  /\ FollowsContact(buttons[c], contact[c], now)
             /\ FollowsContact(buttons'[c], contact'[c], now')
             /\ (IsPressed(buttons[c]) <=> ~IsPressed(buttons'[c])) =>
                  contact'[c].steady >= ButtonDebounceMs
             /\ ~IsLongHeld(buttons[c]) /\ IsLongHeld(buttons'[c]) =>
                  contact'[c].held >= ButtonLongPressMs
             /\ EdgeReported(buttons[c], buttons'[c]) <=>
                  \/ IsPressed(buttons[c]) <=> ~IsPressed(buttons'[c])
                  \/ IsLongHeld(buttons[c]) <=> ~IsLongHeld(buttons'[c])
  <2>1. levels[c] \in BOOLEAN
    BY LevelsAreBoolean
  <2>2. FollowsContact(buttons[c], contact[c], now)
    BY DEF ScannerInvariant
  <2>3. buttons[c] \in ButtonRecords
    BY <2>2 DEF FollowsContact
  <2>4. /\ buttons'[c] = ServiceButton(buttons[c], levels[c], now')
        /\ contact'[c] = NextContact(contact[c], levels[c], gap, buttons[c], buttons'[c])
    BY <1>1
  <2>5. EdgeReported(buttons[c], buttons'[c]) <=>
          \/ IsPressed(buttons[c]) <=> ~IsPressed(buttons'[c])
          \/ IsLongHeld(buttons[c]) <=> ~IsLongHeld(buttons'[c])
    BY <1>3, <2>1, <2>3, <2>4, EdgeMeansChange
  <2>6. /\ FollowsContact(buttons'[c], contact'[c], now')
        /\ (IsPressed(buttons[c]) <=> ~IsPressed(buttons'[c])) =>
             contact'[c].steady >= ButtonDebounceMs
        /\ ~IsLongHeld(buttons[c]) /\ IsLongHeld(buttons'[c]) =>
             contact'[c].held >= ButtonLongPressMs
    BY <1>1, <1>2, <1>3, <2>1, <2>2, <2>4, ServiceFollows
  <2> QED
    BY <2>2, <2>5, <2>6
<1>5. /\ bitmaps.pressed = {c \in Controls : IsPressed(buttons[c])}
      /\ bitmaps.longHeld = {c \in Controls : IsLongHeld(buttons[c])}
      /\ bitmaps'.pressed = {c \in Controls : IsPressed(buttons'[c])}
      /\ bitmaps'.longHeld = {c \in Controls : IsLongHeld(buttons'[c])}
      /\ bitmaps' # bitmaps <=>
           \/ bitmaps'.pressed # bitmaps.pressed
           \/ bitmaps'.longHeld # bitmaps.longHeld
  BY <1>1 DEF ScannerInvariant, RefreshedBitmaps
<1>6. bitmaps' # bitmaps <=>
        \E c \in Controls : EdgeReported(buttons[c], buttons'[c])
  <2>1. bitmaps' # bitmaps <=>
          \E c \in Controls : \/ IsPressed(buttons[c]) <=> ~IsPressed(buttons'[c])
                              \/ IsLongHeld(buttons[c]) <=> ~IsLongHeld(buttons'[c])
    BY <1>5
  <2> QED
    BY <2>1, <1>4
<1>7. CacheIsCurrent'
  BY <1>1 DEF CacheIsCurrent
<1>8. (bitmaps = RefreshedBitmaps(buttons))'
  BY <1>1 DEF RefreshedBitmaps
<1>9. ScannerInvariant'
  BY <1>3, <1>4, <1>7, <1>8 DEF ScannerInvariant
<1>10. ReportsAreEarned
  BY <1>4, <1>5, <1>6 DEF ReportsAreEarned
<1> QED
  BY <1>9, <1>10

\* The resets write the encoder and the cached count in one step.
LEMMA ResetHolds ==
  ASSUME ScannerInvariant, NEW indices, Reset(indices)
  PROVE  ScannerInvariant' /\ ReportsAreEarned
<1>1. CacheIsCurrent'
  BY ResetReadsZero DEF ScannerInvariant, CacheIsCurrent, Reset
<1>2. UNCHANGED <<buttons, bitmaps, now, contact>>
  BY DEF Reset
<1> QED
  BY <1>1, <1>2, ButtonsUntouched

\* Every operation of the scanner, and every step of knobs and samplers.
LEMMA ScannerStep ==
  ASSUME ScannerInvariant, [Next]_vars
  PROVE  ScannerInvariant' /\ ReportsAreEarned
<1>1. CASE Begin
  BY <1>1, BeginHolds
<1>2. ASSUME NEW control \in Controls, NEW direction \in {-1, 1},
             Turn(control, direction)
      PROVE  ScannerInvariant' /\ ReportsAreEarned
  <2>1. CacheIsCurrent' /\ UNCHANGED <<buttons, bitmaps, now, contact>>
    BY <1>2 DEF Turn, ScannerInvariant, CacheIsCurrent
  <2> QED
    BY <2>1, ButtonsUntouched
<1>3. ASSUME NEW control \in Controls, Sample(control)
      PROVE  ScannerInvariant' /\ ReportsAreEarned
  <2>1. CacheIsCurrent' /\ UNCHANGED <<buttons, bitmaps, now, contact>>
    BY <1>3 DEF Sample, ScannerInvariant, CacheIsCurrent
  <2> QED
    BY <2>1, ButtonsUntouched
<1>4. ASSUME NEW gap \in Gaps, NEW levels \in Levels, Scan(gap, levels)
      PROVE  ScannerInvariant' /\ ReportsAreEarned
  BY <1>4, ScanHolds
<1>5. ASSUME NEW indices, Reset(indices)
      PROVE  ScannerInvariant' /\ ReportsAreEarned
  BY <1>5, ResetHolds
<1>6. CASE UNCHANGED vars
  <2>1. CacheIsCurrent' /\ UNCHANGED <<buttons, bitmaps, now, contact>>
    BY <1>6 DEF vars, ScannerInvariant, CacheIsCurrent
  <2> QED
    BY <2>1, ButtonsUntouched
<1> QED
  BY <1>1, <1>2, <1>3, <1>4, <1>5, <1>6 DEF Next, ResetControl, ResetAll

-----------------------------------------------------------------------------

\* The invariant of every state.
LEMMA ScannerInvariantHolds == Spec => []ScannerInvariant
<1>1. ScannerInvariant /\ [Next]_vars => ScannerInvariant'
  BY ScannerStep
<1> QED
  BY <1>1, InitHolds, PTL DEF Spec

\* encoderValues_ is what the encoder objects hold after every operation of the
\* scanner, a reset between two scans included.
THEOREM CacheFollowsEncoders == Spec => []CacheIsCurrent
<1>1. ScannerInvariant => CacheIsCurrent
  BY DEF ScannerInvariant
<1> QED
  BY <1>1, ScannerInvariantHolds, PTL

\* A level that has lasted for the debounce time is the one pressedBitmap_ shows.
THEOREM LastingLevelIsShown == Spec => []SteadyLevelIsSeen
<1>1. ScannerInvariant => SteadyLevelIsSeen
  <2> SUFFICES ASSUME ScannerInvariant, NEW c \in Controls,
                      contact[c].steady >= ButtonDebounceMs
               PROVE  c \in bitmaps.pressed <=> contact[c].level
    BY DEF SteadyLevelIsSeen
  <2>1. FollowsContact(buttons[c], contact[c], now)
    BY DEF ScannerInvariant
  <2>2. c \in bitmaps.pressed <=> IsPressed(buttons[c])
    BY DEF ScannerInvariant, RefreshedBitmaps
  <2>3. contact[c].steady \in Int /\ ButtonDebounceMs \in Int
    BY <2>1, ButtonAssumption DEF FollowsContact, ContactRecords
  <2>4. /\ buttons[c].state \in ButtonStates
        /\ buttons[c].state \notin Debouncing
        /\ contact[c].level <=> buttons[c].state \in {"DebouncingPress", "Pressed", "LongHeld"}
    BY <2>1, <2>3 DEF FollowsContact, ButtonRecords
  <2> QED
    BY <2>2, <2>4 DEF IsPressed, ButtonStates, Debouncing
<1> QED
  BY <1>1, ScannerInvariantHolds, PTL

\* And of every report.
LEMMA ReportsHold == Spec => [][ReportsAreEarned]_vars
<1>1. ScannerInvariant /\ [Next]_vars => [ReportsAreEarned]_vars
  BY ScannerStep
<1> QED
  BY <1>1, ScannerInvariantHolds, PTL DEF Spec

\* No press and no release is reported on less than the debounce time of equal
\* samples, on either side of the wrap of millis().
THEOREM ReportsAreDebounced == Spec => ChangeNeedsSteadyLevel
<1>1. ReportsAreEarned =>
        \A c \in Controls :
          (begun = "ok" /\ (c \in bitmaps.pressed <=> c \notin bitmaps'.pressed)) =>
            contact'[c].steady >= ButtonDebounceMs
  BY DEF ReportsAreEarned
<1> QED
  BY <1>1, ReportsHold, PTL DEF ChangeNeedsSteadyLevel

\* No long hold is reported on less than the long-press time of a reported press.
THEOREM LongHoldsAreLong == Spec => LongHoldIsLong
<1>1. ReportsAreEarned =>
        \A c \in Controls :
          (c \notin bitmaps.longHeld /\ c \in bitmaps'.longHeld) =>
            contact'[c].held >= ButtonLongPressMs
  BY DEF ReportsAreEarned
<1> QED
  BY <1>1, ReportsHold, PTL DEF LongHoldIsLong

\* The edges serviceRaw returns and the bitmaps refreshButtonBitmaps builds agree
\* in every scan on whether anything changed.
THEOREM EdgesAreChanges == Spec => EdgesMatchBitmaps
<1>1. ReportsAreEarned =>
        (begun = "ok" =>
           ((\E c \in Controls : EdgeReported(buttons[c], buttons'[c]))
              <=> bitmaps' # bitmaps))
  BY DEF ReportsAreEarned
<1> QED
  BY <1>1, ReportsHold, PTL DEF EdgesMatchBitmaps

-----------------------------------------------------------------------------
(* Induction over the words of a FIFO *)

\* A nonempty set of numbers has a least one.
LEMMA LeastElement ==
  ASSUME NEW S \in SUBSET Nat, S # {}
  PROVE  \E least \in S : \A n \in S : least <= n
<1> DEFINE Less == {pair \in Nat \X Nat : pair[1] < pair[2]}
<1>1. IsWellFoundedOn(Less, Nat)
  BY NatLessThanWellFounded DEF OpToRel
<1> HIDE DEF Less
<1>2. PICK least \in S : \A n \in S : <<n, least>> \notin Less
  BY <1>1, WFMin
<1>3. \A n \in S : ~(n < least)
  BY <1>2 DEF Less
<1> QED
  BY <1>3

\* Induction on a set of numbers in the place of a predicate.
LEMMA SetInduction ==
  ASSUME NEW S \in SUBSET Nat, 0 \in S, \A n \in S : n + 1 \in S
  PROVE  S = Nat
<1> SUFFICES ASSUME Nat \ S # {}
             PROVE  FALSE
  OBVIOUS
<1>1. Nat \ S \in SUBSET Nat
  OBVIOUS
<1>2. PICK least \in Nat \ S : \A n \in Nat \ S : least <= n
  BY <1>1, LeastElement
<1>3. least - 1 \in Nat /\ least - 1 \notin Nat \ S
  BY <1>2
<1> QED
  BY <1>2, <1>3

-----------------------------------------------------------------------------
(* The words of a FIFO, one after the other *)

\* The decoder after each of the words.
IsRun(run, encoder, words, exchanged, length) ==
  /\ run[0] = encoder
  /\ \A n \in 1 .. length :
       run[n] = ApplyTransition(run[n - 1], Canonicalize(words[n], exchanged))

\* What the function in ApplySamples is defined by.
Recurs(run, encoder, words, exchanged, length) ==
  run = [n \in 0 .. length |->
           IF n = 0 THEN encoder
           ELSE ApplyTransition(run[n - 1], Canonicalize(words[n], exchanged))]

\* There is such a function over any number of words.
LEMMA RunExists ==
  ASSUME NEW encoder, NEW words, NEW exchanged, NEW length \in Nat
  PROVE  \E run : Recurs(run, encoder, words, exchanged, length)
<1> DEFINE Step(e, n) == ApplyTransition(e, Canonicalize(words[n], exchanged))
           Run(run, k) == run = [n \in 0 .. k |-> IF n = 0 THEN encoder ELSE Step(run[n - 1], n)]
           S == {k \in Nat : \E run : Recurs(run, encoder, words, exchanged, k)}
<1>0. \A run, k : Recurs(run, encoder, words, exchanged, k) <=> Run(run, k)
  BY DEF Recurs
<1> HIDE DEF Step
<1>1. 0 \in S
  <2>1. Run([n \in 0 .. 0 |-> encoder], 0)
    OBVIOUS
  <2> HIDE DEF Run
  <2> QED
    BY <1>0, <2>1
<1>2. ASSUME NEW k \in S
      PROVE  k + 1 \in S
  <2>1. PICK run : Run(run, k)
    <3> HIDE DEF Run
    <3> QED
      BY <1>0
  <2> DEFINE next == [n \in 0 .. k + 1 |-> IF n = k + 1 THEN Step(run[k], k + 1) ELSE run[n]]
  <2>2. ASSUME NEW n \in 0 .. k + 1
        PROVE  next[n] = IF n = 0 THEN encoder ELSE Step(next[n - 1], n)
    <3>1. CASE n = 0
      BY <2>1, <3>1
    <3>2. CASE n \in 1 .. k
      <4>1. /\ n \in 0 .. k /\ n - 1 \in 0 .. k /\ n - 1 \in 0 .. k + 1
            /\ n # 0 /\ n # k + 1 /\ n - 1 # k + 1
        BY <3>2
      <4>2. run[n] = Step(run[n - 1], n)
        BY <2>1, <4>1
      <4> QED
        BY <4>1, <4>2
    <3>3. CASE n = k + 1
      <4>1. n - 1 = k /\ k # k + 1 /\ n # 0 /\ k \in 0 .. k + 1
        BY <3>3
      <4> QED
        BY <3>3, <4>1
    <3> QED
      BY <3>1, <3>2, <3>3
  <2>3. Run(next, k + 1)
    <3>1. next = [n \in 0 .. k + 1 |-> next[n]]
      OBVIOUS
    <3> HIDE DEF next
    <3> QED
      BY <2>2, <3>1
  <2> HIDE DEF Run, next
  <2> QED
    BY <1>0, <2>3
<1> HIDE DEF S
<1>3. S = Nat
  <2>1. S \in SUBSET Nat
    BY DEF S
  <2> QED
    BY <1>1, <1>2, <2>1, SetInduction
<1> QED
  BY <1>3 DEF S

\* ApplySamples is the end of a run.
LEMMA ApplyIsRun ==
  ASSUME NEW encoder, NEW words, NEW exchanged, Len(words) \in Nat
  PROVE  \E run : /\ IsRun(run, encoder, words, exchanged, Len(words))
                  /\ ApplySamples(encoder, words, exchanged) = run[Len(words)]
<1> DEFINE length == Len(words)
           after  == CHOOSE run : Recurs(run, encoder, words, exchanged, length)
<1>1. Recurs(after, encoder, words, exchanged, length)
  BY RunExists
<1>2. ApplySamples(encoder, words, exchanged) = after[length]
  BY DEF ApplySamples, Recurs
<1> HIDE DEF after
<1>3. IsRun(after, encoder, words, exchanged, length)
  BY <1>1 DEF Recurs, IsRun
<1> QED
  BY <1>2, <1>3

\* A run is determined by its first state and the words.
LEMMA RunIsUnique ==
  ASSUME NEW encoder, NEW words, NEW exchanged, NEW length \in Nat,
         NEW one, IsRun(one, encoder, words, exchanged, length),
         NEW other, IsRun(other, encoder, words, exchanged, length)
  PROVE  \A n \in 0 .. length : one[n] = other[n]
<1> DEFINE S == {n \in Nat : n <= length => one[n] = other[n]}
<1>1. 0 \in S
  BY DEF IsRun
<1>2. ASSUME NEW n \in S
      PROVE  n + 1 \in S
  <2> SUFFICES ASSUME n + 1 <= length
               PROVE  one[n + 1] = other[n + 1]
    OBVIOUS
  <2>1. n + 1 \in 1 .. length /\ (n + 1) - 1 = n /\ one[n] = other[n]
    OBVIOUS
  <2> QED
    BY <2>1 DEF IsRun
<1> HIDE DEF S
<1>3. S = Nat
  <2>1. S \in SUBSET Nat
    BY DEF S
  <2> QED
    BY <1>1, <1>2, <2>1, SetInduction
<1> QED
  BY <1>3 DEF S

\* So ApplySamples is the end of any run.
LEMMA EndOfRun ==
  ASSUME NEW encoder, NEW words, NEW exchanged, Len(words) \in Nat,
         NEW run, IsRun(run, encoder, words, exchanged, Len(words))
  PROVE  ApplySamples(encoder, words, exchanged) = run[Len(words)]
<1>1. PICK other : /\ IsRun(other, encoder, words, exchanged, Len(words))
                   /\ ApplySamples(encoder, words, exchanged) = other[Len(words)]
  BY ApplyIsRun
<1>2. run[Len(words)] = other[Len(words)]
  BY <1>1, RunIsUnique
<1> QED
  BY <1>1, <1>2

\* No word changes nothing, and one word is one transition.
LEMMA FewWords ==
  ASSUME NEW encoder, NEW exchanged
  PROVE  /\ ApplySamples(encoder, <<>>, exchanged) = encoder
         /\ \A word : ApplySamples(encoder, <<word>>, exchanged) =
                        ApplyTransition(encoder, Canonicalize(word, exchanged))
<1>1. ApplySamples(encoder, <<>>, exchanged) = encoder
  <2>1. Len(<<>>) = 0
    OBVIOUS
  <2> QED
    BY <2>1, ApplyIsRun DEF IsRun
<1>2. ASSUME NEW word
      PROVE  ApplySamples(encoder, <<word>>, exchanged) =
               ApplyTransition(encoder, Canonicalize(word, exchanged))
  <2> DEFINE words == <<word>>
  <2>1. Len(words) = 1 /\ words[1] = word
    OBVIOUS
  <2> HIDE DEF words
  <2>2. PICK run : /\ IsRun(run, encoder, words, exchanged, Len(words))
                   /\ ApplySamples(encoder, words, exchanged) = run[Len(words)]
    <3>1. Len(words) \in Nat
      BY <2>1
    <3> QED
      BY <3>1, ApplyIsRun
  <2>3. run[0] = encoder /\ run[1] = ApplyTransition(run[1 - 1], Canonicalize(words[1], exchanged))
    BY <2>1, <2>2 DEF IsRun
  <2> QED
    BY <2>1, <2>2, <2>3 DEF words
<1> QED
  BY <1>1, <1>2

\* Words in two portions, as two services take them, or all at once.
LEMMA ApplyConcat ==
  ASSUME NEW encoder, NEW exchanged, NEW s \in Seq(PinStates), NEW t \in Seq(PinStates)
  PROVE  ApplySamples(encoder, s \o t, exchanged) =
           ApplySamples(ApplySamples(encoder, s, exchanged), t, exchanged)
<1> DEFINE m == Len(s)
           n == Len(t)
           both == s \o t
           middle == ApplySamples(encoder, s, exchanged)
<1>1. m \in Nat /\ n \in Nat
  BY LenProperties
<1>2. /\ Len(both) = m + n
      /\ \A i \in 1 .. m + n : both[i] = IF i <= m THEN s[i] ELSE t[i - m]
  BY ConcatProperties
<1> HIDE DEF m, n, both, middle
<1>3. PICK first : IsRun(first, encoder, s, exchanged, m) /\ middle = first[m]
  BY <1>1, ApplyIsRun DEF m, middle
<1>4. PICK second : /\ IsRun(second, middle, t, exchanged, n)
                    /\ ApplySamples(middle, t, exchanged) = second[n]
  BY <1>1, ApplyIsRun DEF n
<1> DEFINE run == [i \in 0 .. m + n |-> IF i <= m THEN first[i] ELSE second[i - m]]
<1>5. \A i \in 0 .. m + n : run[i] = IF i <= m THEN first[i] ELSE second[i - m]
  OBVIOUS
<1> HIDE DEF run
<1>6. run[0] = encoder
  BY <1>1, <1>3, <1>5 DEF IsRun
<1>7. second[0] = first[m]
  BY <1>3, <1>4 DEF IsRun
<1>8. ASSUME NEW i \in 1 .. m + n
      PROVE  run[i] = ApplyTransition(run[i - 1], Canonicalize(both[i], exchanged))
  <2>1. i \in 0 .. m + n /\ i - 1 \in 0 .. m + n
    BY <1>1
  <2>2. CASE i <= m
    <3>1. i \in 1 .. m /\ i - 1 <= m
      BY <1>1, <2>2
    <3>2. first[i] = ApplyTransition(first[i - 1], Canonicalize(s[i], exchanged))
      BY <1>3, <3>1 DEF IsRun
    <3> QED
      BY <1>2, <1>5, <2>1, <2>2, <3>1, <3>2
  <2>3. CASE i > m
    <3>1. i - m \in 1 .. n /\ (i - m) - 1 = (i - 1) - m /\ ~(i <= m)
      BY <1>1, <2>3
    <3>2. second[i - m] = ApplyTransition(second[(i - m) - 1], Canonicalize(t[i - m], exchanged))
      BY <1>4, <3>1 DEF IsRun
    <3>3. run[i - 1] = second[(i - m) - 1]
      <4>1. CASE i - 1 <= m
        <5>1. i - 1 = m /\ (i - m) - 1 = 0
          BY <1>1, <2>3, <4>1
        <5> QED
          BY <1>5, <1>7, <2>1, <4>1, <5>1
      <4>2. CASE ~(i - 1 <= m)
        BY <1>5, <2>1, <3>1, <4>2
      <4> QED
        BY <4>1, <4>2
    <3> QED
      BY <1>2, <1>5, <2>1, <3>1, <3>2, <3>3
  <2> QED
    BY <1>1, <2>2, <2>3
<1>9. IsRun(run, encoder, both, exchanged, m + n)
  BY <1>6, <1>8 DEF IsRun
<1>10. run[m + n] = second[n]
  <2>1. m + n \in 0 .. m + n /\ (m + n) - m = n /\ (m + n <= m => n = 0 /\ m + n = m)
    BY <1>1
  <2> QED
    BY <1>5, <1>7, <2>1
<1>11. ApplySamples(encoder, both, exchanged) = run[m + n]
  <2>1. Len(both) \in Nat
    BY <1>1, <1>2
  <2> QED
    BY <1>2, <1>9, <2>1, EndOfRun
<1> QED
  BY <1>4, <1>10, <1>11 DEF both, middle

-----------------------------------------------------------------------------
(* Types of the decoder *)

EncoderRecords ==
  [count : CountMinimum .. CountMaximum, previous : PinStates, started : BOOLEAN]

\* The pin states and what is made of them, state by state.
LEMMA PinFacts ==
  /\ \A phase \in PinStates, exchanged \in BOOLEAN :
       /\ Canonicalize(phase, exchanged) \in PinStates
       /\ Canonicalize(Canonicalize(phase, exchanged), exchanged) = phase
  /\ \A position \in Positions : PhaseAt(position) \in PinStates
  /\ \A previous \in PinStates, phase \in PinStates :
       /\ QuadratureDelta[previous * 4 + phase + 1] \in -1 .. 1
       /\ previous = phase => QuadratureDelta[previous * 4 + phase + 1] = 0
<1>1. \A phase \in PinStates : phase \in {0, 1, 2, 3}
  BY DEF PinStates
<1>2. /\ \A phase \in PinStates : /\ Exchanged(phase) \in PinStates
                                  /\ Exchanged(Exchanged(phase)) = phase
      /\ \A position \in Positions : PhaseAt(position) \in PinStates
  <2>1. Exchanged(0) = 0 /\ Exchanged(1) = 2 /\ Exchanged(2) = 1 /\ Exchanged(3) = 3
    BY DEF Exchanged
  <2>2. PhaseAt(0) = 0 /\ PhaseAt(1) = 1 /\ PhaseAt(2) = 3 /\ PhaseAt(3) = 2
    BY DEF PhaseAt
  <2> QED
    BY <1>1, <2>1, <2>2 DEF PinStates, Positions
<1>3. \A previous \in PinStates, phase \in PinStates :
        /\ QuadratureDelta[previous * 4 + phase + 1] \in -1 .. 1
        /\ previous = phase => QuadratureDelta[previous * 4 + phase + 1] = 0
  BY <1>1 DEF QuadratureDelta
<1> QED
  BY <1>2, <1>3 DEF Canonicalize

\* A knob's transition is a delta of its direction, and no transition is none.
LEMMA TurnDelta ==
  ASSUME NEW position \in Positions, NEW direction \in {-1, 0, 1}
  PROVE  /\ Turned(position, direction) \in Positions
         /\ QuadratureDelta[PhaseAt(position) * 4 + PhaseAt(Turned(position, direction)) + 1] =
              direction
<1>1. position \in {0, 1, 2, 3}
  BY DEF Positions
<1>2. PhaseAt(0) = 0 /\ PhaseAt(1) = 1 /\ PhaseAt(2) = 3 /\ PhaseAt(3) = 2
  BY DEF PhaseAt
<1>5. ASSUME NEW n \in -1 .. 4
      PROVE  n % 4 = IF n < 0 THEN n + 4 ELSE IF n >= 4 THEN n - 4 ELSE n
  OBVIOUS
<1>6. CASE direction = 0
  <2>1. Turned(0, 0) = 0 /\ Turned(1, 0) = 1 /\ Turned(2, 0) = 2 /\ Turned(3, 0) = 3
    BY <1>5 DEF Turned
  <2> QED
    BY <1>1, <1>2, <1>6, <2>1 DEF QuadratureDelta, Positions
<1>3. CASE direction = 1
  <2>1. Turned(0, 1) = 1 /\ Turned(1, 1) = 2 /\ Turned(2, 1) = 3 /\ Turned(3, 1) = 0
    BY <1>5 DEF Turned
  <2> QED
    BY <1>1, <1>2, <1>3, <2>1 DEF QuadratureDelta, Positions
<1>4. CASE direction = -1
  <2>1. Turned(0, -1) = 3 /\ Turned(1, -1) = 0 /\ Turned(2, -1) = 1 /\ Turned(3, -1) = 2
    BY <1>5 DEF Turned
  <2> QED
    BY <1>1, <1>2, <1>4, <2>1 DEF QuadratureDelta, Positions
<1> QED
  BY <1>3, <1>4, <1>6

\* One transition keeps the record a record and counts within the limits.
LEMMA TransitionType ==
  ASSUME NEW encoder \in EncoderRecords, NEW phase \in PinStates
  PROVE  /\ ApplyTransition(encoder, phase) \in EncoderRecords
         /\ ApplyTransition(encoder, phase).previous = phase
         /\ ApplyTransition(encoder, phase).started = encoder.started
         /\ ApplyTransition(encoder, phase).count =
              Saturated(encoder.count + QuadratureDelta[encoder.previous * 4 + phase + 1])
<1> DEFINE delta == QuadratureDelta[encoder.previous * 4 + phase + 1]
<1>1. encoder.previous \in PinStates /\ encoder.count \in Int
  BY EncoderAssumption DEF EncoderRecords
<1>2. delta \in Int
  BY <1>1, PinFacts
<1> HIDE DEF delta
<1>3. Saturated(encoder.count + delta) \in CountMinimum .. CountMaximum
  BY <1>1, <1>2, EncoderAssumption DEF Saturated
<1>4. ApplyTransition(encoder, phase) =
        [encoder EXCEPT !.count = Saturated(encoder.count + delta), !.previous = phase]
  BY DEF ApplyTransition, delta
<1>5. /\ ApplyTransition(encoder, phase) \in EncoderRecords
      /\ ApplyTransition(encoder, phase).previous = phase
      /\ ApplyTransition(encoder, phase).started = encoder.started
      /\ ApplyTransition(encoder, phase).count = Saturated(encoder.count + delta)
  BY <1>3, <1>4 DEF EncoderRecords
<1> QED
  BY <1>5 DEF delta

\* A count inside the limits stays.
LEMMA SaturatedStays ==
  ASSUME NEW count \in CountMinimum .. CountMaximum
  PROVE  Saturated(count) = count /\ Saturated(count + 0) = count
BY EncoderAssumption DEF Saturated

\* So do any number of words, and the last of them is what was last decoded.
LEMMA ApplyType ==
  ASSUME NEW encoder \in EncoderRecords, NEW words \in Seq(PinStates), NEW exchanged \in BOOLEAN
  PROVE  /\ ApplySamples(encoder, words, exchanged) \in EncoderRecords
         /\ ApplySamples(encoder, words, exchanged).started = encoder.started
         /\ ApplySamples(encoder, words, exchanged).previous =
              IF words = <<>> THEN encoder.previous
              ELSE Canonicalize(words[Len(words)], exchanged)
<1> DEFINE length == Len(words)
<1>1. length \in Nat /\ \A i \in 1 .. length : words[i] \in PinStates
  BY LenProperties, ElementOfSeq
<1>2. PICK run : /\ IsRun(run, encoder, words, exchanged, length)
                 /\ ApplySamples(encoder, words, exchanged) = run[length]
  BY <1>1, ApplyIsRun
<1> DEFINE Good(n) == /\ run[n] \in EncoderRecords
                      /\ run[n].started = encoder.started
                      /\ n > 0 => run[n].previous = Canonicalize(words[n], exchanged)
           S == {n \in Nat : n <= length => Good(n)}
<1> HIDE DEF length
<1>3. 0 \in S
  BY <1>2 DEF IsRun
<1>4. ASSUME NEW n \in S
      PROVE  n + 1 \in S
  <2> SUFFICES ASSUME n + 1 <= length
               PROVE  Good(n + 1)
    OBVIOUS
  <2>1. n + 1 \in 1 .. length /\ (n + 1) - 1 = n /\ Good(n)
    BY <1>1
  <2>2. run[n + 1] = ApplyTransition(run[n], Canonicalize(words[n + 1], exchanged))
    BY <1>2, <2>1 DEF IsRun
  <2> DEFINE phase == Canonicalize(words[n + 1], exchanged)
             before == run[n]
  <2>3. phase \in PinStates
    BY <1>1, <2>1, PinFacts
  <2>4. before \in EncoderRecords /\ before.started = encoder.started
    BY <2>1
  <2>5. run[n + 1] = ApplyTransition(before, phase)
    BY <2>2
  <2> HIDE DEF phase, before
  <2>6. /\ run[n + 1] \in EncoderRecords
        /\ run[n + 1].started = encoder.started
        /\ run[n + 1].previous = phase
    BY <2>3, <2>4, <2>5, TransitionType
  <2> QED
    BY <2>6 DEF phase
<1> HIDE DEF S
<1>5. S = Nat
  <2>1. S \in SUBSET Nat
    BY DEF S
  <2> QED
    BY <1>3, <1>4, <2>1, SetInduction
<1>6. Good(length)
  BY <1>1, <1>5 DEF S
<1>7. words = <<>> <=> length = 0
  BY EmptySeq DEF length
<1>8. run[0] = encoder
  BY <1>2 DEF IsRun
<1> QED
  BY <1>1, <1>2, <1>6, <1>7, <1>8 DEF length

-----------------------------------------------------------------------------
(* Types of the scanner *)

SamplerRecords ==
  [pc : {"sample", "push"}, x : PinStates, isr : PinStates, fifo : Seq(PinStates)]

\* What the samplers do keeps their records records, and the FIFO in its depth.
LEMMA SamplerTypes ==
  ASSUME NEW sampler \in SamplerRecords, Len(sampler.fifo) <= EncoderFifoDepth,
         NEW raw \in PinStates
  PROVE  /\ StartedSampler(raw) \in SamplerRecords
         /\ StartedSampler(raw).fifo = <<>>
         /\ TakeSample(sampler, raw) \in SamplerRecords
         /\ TakeSample(sampler, raw).fifo = sampler.fifo
         /\ CanPush(sampler) =>
              /\ PushSample(sampler) \in SamplerRecords
              /\ Len(PushSample(sampler).fifo) <= EncoderFifoDepth
<1>1. StartedSampler(raw) \in SamplerRecords /\ StartedSampler(raw).fifo = <<>>
  <2>1. <<>> \in Seq(PinStates) /\ 0 \in PinStates
    BY DEF PinStates
  <2> QED
    BY <2>1 DEF StartedSampler, SamplerRecords
<1>2. /\ TakeSample(sampler, raw) \in SamplerRecords
      /\ TakeSample(sampler, raw).fifo = sampler.fifo
  BY DEF TakeSample, SamplerRecords
<1>3. ASSUME CanPush(sampler)
      PROVE  /\ PushSample(sampler) \in SamplerRecords
             /\ Len(PushSample(sampler).fifo) <= EncoderFifoDepth
  <2> DEFINE next == Append(sampler.fifo, sampler.isr)
  <2>1. sampler.fifo \in Seq(PinStates) /\ sampler.isr \in PinStates
    BY DEF SamplerRecords
  <2>2. next \in Seq(PinStates) /\ Len(next) = Len(sampler.fifo) + 1
    BY <2>1, AppendProperties
  <2>3. Len(sampler.fifo) \in Nat
    BY <2>1, LenProperties
  <2>4. PushSample(sampler) = [sampler EXCEPT !.pc = "sample", !.fifo = next]
    BY DEF PushSample
  <2> HIDE DEF next
  <2>5. PushSample(sampler) \in SamplerRecords /\ PushSample(sampler).fifo = next
    BY <2>2, <2>4 DEF SamplerRecords
  <2> QED
    BY <1>3, <2>2, <2>3, <2>5, EncoderAssumption DEF CanPush
<1> QED
  BY <1>1, <1>2, <1>3

\* How many words a service takes, and what it takes and leaves.
LEMMA TakenWords ==
  ASSUME NEW encoder \in EncoderRecords, NEW sampler \in SamplerRecords
  PROVE  LET taken == WordsTaken(encoder, sampler)
             first == SubSeq(sampler.fifo, 1, taken)
             rest  == SubSeq(sampler.fifo, taken + 1, Len(sampler.fifo))
         IN  /\ first \in Seq(PinStates)
             /\ rest \in Seq(PinStates)
             /\ first \o rest = sampler.fifo
             /\ Len(rest) <= Len(sampler.fifo)
<1> DEFINE fifo  == sampler.fifo
           taken == WordsTaken(encoder, sampler)
           first == SubSeq(fifo, 1, taken)
           rest  == SubSeq(fifo, taken + 1, Len(fifo))
<1>1. fifo \in Seq(PinStates)
  BY DEF SamplerRecords
<1>2. Len(fifo) \in Nat /\ \A i \in 1 .. Len(fifo) : fifo[i] \in PinStates
  BY <1>1, LenProperties, ElementOfSeq
<1>3. taken \in 0 .. Len(fifo)
  BY <1>2, EncoderAssumption DEF WordsTaken
<1> HIDE DEF fifo, taken
<1>4. first \in Seq(PinStates)
  <2>1. 1 \in Int /\ taken \in Int /\ \A i \in 1 .. taken : fifo[i] \in PinStates
    BY <1>2, <1>3
  <2> QED
    BY <2>1, SubSeqProperties
<1>5. rest \in Seq(PinStates) /\ Len(rest) <= Len(fifo)
  <2>1. /\ taken + 1 \in Int /\ Len(fifo) \in Int
        /\ \A i \in taken + 1 .. Len(fifo) : fifo[i] \in PinStates
    BY <1>2, <1>3
  <2>2. rest \in Seq(PinStates)
        /\ Len(rest) = IF taken + 1 <= Len(fifo) THEN Len(fifo) - (taken + 1) + 1 ELSE 0
    BY <2>1, SubSeqProperties
  <2> HIDE DEF rest
  <2> QED
    BY <1>2, <1>3, <2>2
<1>6. first \o rest = fifo
  <2>1. /\ 1 \in 1 .. Len(fifo) + 1
        /\ taken \in 1 - 1 .. Len(fifo)
        /\ Len(fifo) \in taken .. Len(fifo)
    BY <1>2, <1>3
  <2>2. first \o rest = SubSeq(fifo, 1, Len(fifo))
    BY <1>1, <2>1, ConcatAdjacentSubSeq
  <2> QED
    BY <1>1, <2>2, SubSeqFull
<1> QED
  BY <1>4, <1>5, <1>6 DEF fifo, taken

\* A detent count set to 0 is a count of 0.
LEMMA ResetType ==
  ASSUME NEW encoder \in EncoderRecords
  PROVE  /\ SetDetentCount(encoder, 0) \in EncoderRecords
         /\ SetDetentCount(encoder, 0).previous = encoder.previous
         /\ SetDetentCount(encoder, 0).started = encoder.started
<1>1. SetDetentCount(encoder, 0).count = 0
  BY ResetReadsZero
<1>2. /\ SetDetentCount(encoder, 0) =
           [count    |-> SetDetentCount(encoder, 0).count,
            previous |-> encoder.previous, started |-> encoder.started]
  BY DEF SetDetentCount
<1>3. 0 \in CountMinimum .. CountMaximum
  BY EncoderAssumption
<1> QED
  BY <1>1, <1>2, <1>3 DEF EncoderRecords

\* Detents are integers.
LEMMA DetentsAreIntegers ==
  ASSUME NEW encoder \in EncoderRecords
  PROVE  DetentCount(encoder) \in Int
<1>1. encoder.count \in Int /\ EncoderTransitionsPerDetent \in Nat \ {0}
  BY EncoderAssumption DEF EncoderRecords
<1> QED
  BY <1>1, QuotientSign DEF DetentCount

\* Pins read pin states.
LEMMA RawIsPinState ==
  ASSUME NEW c, NEW position \in Positions
  PROVE  /\ Raw(c, position) \in PinStates
         /\ Canonicalize(Raw(c, position), c \in Exchanges) = PhaseAt(position)
         /\ PhaseAt(position) \in PinStates
<1> DEFINE exchanged == c \in Exchanges
           phase == PhaseAt(position)
<1>1. exchanged \in BOOLEAN /\ phase \in PinStates
  BY PinFacts
<1>2. Raw(c, position) = Canonicalize(phase, exchanged)
  BY DEF Raw
<1> HIDE DEF exchanged, phase
<1>3. Canonicalize(phase, exchanged) \in PinStates
      /\ Canonicalize(Canonicalize(phase, exchanged), exchanged) = phase
  BY <1>1, PinFacts
<1>4. Raw(c, position) \in PinStates
      /\ Canonicalize(Raw(c, position), exchanged) = phase
  BY <1>2, <1>3
<1> QED
  BY <1>1, <1>4 DEF exchanged, phase

\* The types of the objects the scanner owns, in the places of the records.
ObjectTypes ==
  /\ samplers \in [Controls -> SamplerRecords]
  /\ \A c \in Controls : Len(samplers[c].fifo) <= EncoderFifoDepth
  /\ encoders \in [Controls -> EncoderRecords]

OtherTypes ==
  /\ user \in Users
  /\ begun \in {"no", "ok", "failed"}
  /\ knobs \in [Controls -> Positions]
  /\ buttons \in [Controls -> ButtonRecords]
  /\ cached \in [Controls -> Int]
  /\ bitmaps \in [pressed : SUBSET Controls, longHeld : SUBSET Controls]
  /\ changes \in [encoders : SUBSET Controls, buttons : BOOLEAN]
  /\ now \in Times

\* Together they are the type invariant.
LEMMA TypesInParts == TypeOK <=> ObjectTypes /\ OtherTypes
BY DEF TypeOK, ObjectTypes, OtherTypes, SamplerRecords, EncoderRecords

\* refreshButtonBitmaps yields bitmaps.
LEMMA BitmapsType ==
  ASSUME NEW bs
  PROVE  RefreshedBitmaps(bs) \in [pressed : SUBSET Controls, longHeld : SUBSET Controls]
BY DEF RefreshedBitmaps

\* At power-up.
LEMMA InitTypes == Init => ObjectTypes /\ OtherTypes
<1> SUFFICES ASSUME Init PROVE ObjectTypes /\ OtherTypes
  OBVIOUS
<1>1. 0 \in PinStates /\ 0 \in CountMinimum .. CountMaximum /\ 0 \in Times /\ Times \subseteq Nat
  BY EncoderAssumption, ButtonAssumption DEF PinStates, Times
<1>2. StartedSampler(0) \in SamplerRecords /\ StartedSampler(0).fifo = <<>>
  BY <1>1 DEF StartedSampler, SamplerRecords
<1>3. StoppedEncoder \in EncoderRecords
  BY <1>1 DEF StoppedEncoder, EncoderRecords
<1>4. BeginButton(FALSE, 0) \in ButtonRecords
  BY <1>1 DEF BeginButton, ButtonRecords, ButtonStates
<1>5. ObjectTypes
  <2>1. samplers = [c \in Controls |-> StartedSampler(0)]
        /\ encoders = [c \in Controls |-> StoppedEncoder]
    BY DEF Init
  <2>2. \A c \in Controls : Len(samplers[c].fifo) = 0
    BY <1>2, <2>1
  <2> QED
    BY <1>2, <1>3, <2>1, <2>2, EncoderAssumption DEF ObjectTypes
<1>6. OtherTypes
  <2>1. now \in Times
    BY <1>1 DEF Init
  <2>2. buttons \in [Controls -> ButtonRecords] /\ cached \in [Controls -> Int]
    <3>1. buttons = [c \in Controls |-> BeginButton(FALSE, 0)]
          /\ cached = [c \in Controls |-> 0]
      BY DEF Init
    <3>2. buttons \in [Controls -> ButtonRecords]
      BY <1>4, <3>1
    <3>3. cached \in [Controls -> Int]
      BY <3>1
    <3> QED
      BY <3>2, <3>3
  <2>3. bitmaps \in [pressed : SUBSET Controls, longHeld : SUBSET Controls]
        /\ changes \in [encoders : SUBSET Controls, buttons : BOOLEAN]
    BY DEF Init, NoChanges
  <2>4. user \in Users /\ begun \in {"no", "ok", "failed"}
        /\ knobs \in [Controls -> Positions]
    BY DEF Init
  <2> QED
    BY <2>1, <2>2, <2>3, <2>4 DEF OtherTypes
<1> QED
  BY <1>5, <1>6

\* begin() starts samplers, encoders and buttons from the pins they read.
LEMMA BeginTypes ==
  ASSUME ObjectTypes, OtherTypes, Begin
  PROVE  ObjectTypes' /\ OtherTypes'
<1>1. PICK working \in Working, levels \in Levels, turned \in -1 .. 1 :
       /\ begun' = IF working = Controls THEN "ok" ELSE "failed"
       /\ samplers' = [c \in Controls |->
            IF c \in working
            THEN StartedSampler(Raw(c, IF c \in user.turning THEN Turned(knobs[c], -turned)
                                                             ELSE knobs[c]))
            ELSE samplers[c]]
       /\ encoders' = [c \in Controls |->
            IF c \in working THEN BeginEncoder(PhaseAt(knobs[c])) ELSE encoders[c]]
       /\ buttons' = [c \in Controls |-> BeginButton(levels[c], now)]
       /\ cached' = [c \in Controls |-> DetentCount(encoders'[c])]
       /\ contact' = [c \in Controls |->
            [level |-> levels[c], steady |-> 0, held |-> 0]]
  BY DEF Begin
<1>2. bitmaps' = RefreshedBitmaps(buttons') /\ UNCHANGED <<user, knobs, changes, now>>
  BY DEF Begin
<1>3. 0 \in CountMinimum .. CountMaximum /\ -turned \in {-1, 0, 1}
  BY EncoderAssumption
<1>4. ASSUME NEW c \in Controls
      PROVE  /\ samplers'[c] \in SamplerRecords
             /\ Len(samplers'[c].fifo) <= EncoderFifoDepth
             /\ encoders'[c] \in EncoderRecords
  <2> DEFINE position == IF c \in user.turning THEN Turned(knobs[c], -turned) ELSE knobs[c]
  <2>1. knobs[c] \in Positions /\ samplers[c] \in SamplerRecords
        /\ Len(samplers[c].fifo) <= EncoderFifoDepth /\ encoders[c] \in EncoderRecords
    BY DEF ObjectTypes, OtherTypes
  <2>2. position \in Positions
    BY <1>3, <2>1, TurnDelta
  <2> HIDE DEF position
  <2>3. StartedSampler(Raw(c, position)) \in SamplerRecords
        /\ StartedSampler(Raw(c, position)).fifo = <<>>
    BY <2>1, <2>2, RawIsPinState, SamplerTypes
  <2>4. PhaseAt(knobs[c]) \in PinStates
    BY <2>1, RawIsPinState
  <2>5. BeginEncoder(PhaseAt(knobs[c])) \in EncoderRecords
    BY <1>3, <2>4 DEF BeginEncoder, EncoderRecords
  <2>6. encoders'[c] \in EncoderRecords
    BY <1>1, <2>1, <2>5
  <2>7. samplers'[c] = IF c \in working THEN StartedSampler(Raw(c, position)) ELSE samplers[c]
    BY <1>1 DEF position
  <2>8. Len(<<>>) = 0 /\ 0 <= EncoderFifoDepth
    BY EncoderAssumption
  <2> QED
    BY <2>1, <2>3, <2>6, <2>7, <2>8
<1>5. ObjectTypes'
  BY <1>1, <1>4 DEF ObjectTypes
<1>6. buttons' \in [Controls -> ButtonRecords]
  <2>1. ASSUME NEW c \in Controls
        PROVE  buttons'[c] \in ButtonRecords
    BY <1>1, LevelsAreBoolean DEF BeginButton, ButtonRecords, ButtonStates, OtherTypes
  <2> QED
    BY <1>1, <2>1
<1>7. cached' \in [Controls -> Int]
  BY <1>1, <1>4, DetentsAreIntegers
<1>8. begun' \in {"no", "ok", "failed"}
  BY <1>1
<1>9. bitmaps' \in [pressed : SUBSET Controls, longHeld : SUBSET Controls]
  BY <1>2, BitmapsType
<1> QED
  BY <1>2, <1>5, <1>6, <1>7, <1>8, <1>9 DEF OtherTypes

\* service() decodes, debounces and reports.
LEMMA ScanTypes ==
  ASSUME ObjectTypes, OtherTypes, NEW gap \in Gaps, NEW levels \in Levels, Scan(gap, levels)
  PROVE  ObjectTypes' /\ OtherTypes'
<1> DEFINE Taken(c) == WordsTaken(encoders[c], samplers[c])
<1>1. /\ now' = (now + gap) % TimeModulus
      /\ encoders' = [c \in Controls |->
           ApplySamples(encoders[c], SubSeq(samplers[c].fifo, 1, Taken(c)), c \in Exchanges)]
      /\ samplers' = [c \in Controls |-> [samplers[c] EXCEPT !.fifo =
                        SubSeq(@, Taken(c) + 1, Len(@))]]
      /\ cached' = [c \in Controls |-> DetentCount(encoders'[c])]
      /\ buttons' = [c \in Controls |->
           ServiceButton(buttons[c], levels[c], (now + gap) % TimeModulus)]
      /\ bitmaps' = RefreshedBitmaps(buttons')
      /\ changes' =
           [encoders |-> {c \in Controls : cached'[c] # cached[c]},
            buttons  |-> \/ \E c \in Controls : EdgeReported(buttons[c], buttons'[c])
                         \/ bitmaps' # bitmaps]
      /\ UNCHANGED <<user, begun, knobs>>
  BY DEF Scan
<1>2. ASSUME NEW c \in Controls
      PROVE  /\ samplers'[c] \in SamplerRecords
             /\ Len(samplers'[c].fifo) <= EncoderFifoDepth
             /\ encoders'[c] \in EncoderRecords
  <2> DEFINE first == SubSeq(samplers[c].fifo, 1, Taken(c))
             rest  == SubSeq(samplers[c].fifo, Taken(c) + 1, Len(samplers[c].fifo))
  <2>1. encoders[c] \in EncoderRecords /\ samplers[c] \in SamplerRecords
        /\ Len(samplers[c].fifo) <= EncoderFifoDepth
    BY DEF ObjectTypes
  <2>2. first \in Seq(PinStates) /\ rest \in Seq(PinStates)
        /\ Len(rest) <= Len(samplers[c].fifo)
    BY <2>1, TakenWords
  <2> DEFINE exchanged == c \in Exchanges
  <2>7. exchanged \in BOOLEAN
    OBVIOUS
  <2>3. encoders'[c] = ApplySamples(encoders[c], first, exchanged)
        /\ samplers'[c] = [samplers[c] EXCEPT !.fifo = rest]
    BY <1>1
  <2>4. Len(rest) \in Nat /\ Len(samplers[c].fifo) \in Nat
    BY <2>1, <2>2, LenProperties DEF SamplerRecords
  <2> HIDE DEF first, rest, exchanged
  <2>5. encoders'[c] \in EncoderRecords
    BY <2>1, <2>2, <2>3, <2>7, ApplyType
  <2>6. samplers'[c] \in SamplerRecords /\ samplers'[c].fifo = rest
    BY <2>1, <2>2, <2>3 DEF SamplerRecords
  <2> QED
    BY <2>1, <2>2, <2>4, <2>5, <2>6, EncoderAssumption
<1>3. ObjectTypes'
  BY <1>1, <1>2 DEF ObjectTypes
<1>4. now' \in Times
  BY <1>1, GapsBounded, LaterReading DEF OtherTypes
<1>5. buttons' \in [Controls -> ButtonRecords]
  <2>1. ASSUME NEW c \in Controls
        PROVE  buttons'[c] \in ButtonRecords
    <3>1. buttons[c] \in ButtonRecords /\ levels[c] \in BOOLEAN
      BY LevelsAreBoolean DEF OtherTypes
    <3>2. buttons'[c] = ServiceButton(buttons[c], levels[c], now')
      BY <1>1
    <3>3. ServiceButton(buttons[c], levels[c], now') \in ButtonRecords
      BY <1>4, <3>1, ServiceByState
    <3> QED
      BY <3>2, <3>3
  <2> QED
    BY <1>1, <2>1
<1>6. cached' \in [Controls -> Int]
  BY <1>1, <1>2, DetentsAreIntegers
<1>7. bitmaps' \in [pressed : SUBSET Controls, longHeld : SUBSET Controls]
  BY <1>1, BitmapsType
<1>8. changes' \in [encoders : SUBSET Controls, buttons : BOOLEAN]
  BY <1>1
<1>9. UNCHANGED <<user, begun, knobs>>
  BY <1>1
<1> QED
  BY <1>3, <1>4, <1>5, <1>6, <1>7, <1>8, <1>9 DEF OtherTypes

\* Knobs turn from position to position, samplers take and push.
LEMMA StepTypes ==
  ASSUME ObjectTypes, OtherTypes, NEW c \in Controls
  PROVE  /\ \A direction \in {-1, 1} : Turn(c, direction) => ObjectTypes' /\ OtherTypes'
         /\ Sample(c) => ObjectTypes' /\ OtherTypes'
<1>1. ASSUME NEW direction \in {-1, 1}, Turn(c, direction)
      PROVE  ObjectTypes' /\ OtherTypes'
  <2>1. knobs' = [knobs EXCEPT ![c] = Turned(@, direction)]
        /\ UNCHANGED <<user, begun, samplers, encoders, buttons, cached, bitmaps, changes, now>>
    BY <1>1 DEF Turn
  <2>2. knobs \in [Controls -> Positions] /\ Turned(knobs[c], direction) \in Positions
    BY TurnDelta DEF OtherTypes
  <2>3. knobs' \in [Controls -> Positions]
    BY <2>1, <2>2
  <2> QED
    BY <2>1, <2>3 DEF ObjectTypes, OtherTypes
<1>2. ASSUME Sample(c)
      PROVE  ObjectTypes' /\ OtherTypes'
  <2>1. samplers \in [Controls -> SamplerRecords]
        /\ \A d \in Controls : Len(samplers[d].fifo) <= EncoderFifoDepth
    BY DEF ObjectTypes
  <2>2. Raw(c, knobs[c]) \in PinStates
    BY RawIsPinState DEF OtherTypes
  <2>3. PICK next \in SamplerRecords : /\ samplers' = [samplers EXCEPT ![c] = next]
                                       /\ Len(next.fifo) <= EncoderFifoDepth
    <3>1. \/ samplers' = [samplers EXCEPT ![c] = TakeSample(samplers[c], Raw(c, knobs[c]))]
          \/ /\ CanPush(samplers[c])
             /\ samplers' = [samplers EXCEPT ![c] = PushSample(samplers[c])]
      BY <1>2 DEF Sample
    <3> DEFINE sampler == samplers[c]
               raw == Raw(c, knobs[c])
    <3>2. sampler \in SamplerRecords /\ Len(sampler.fifo) <= EncoderFifoDepth /\ raw \in PinStates
      BY <2>1, <2>2
    <3> HIDE DEF sampler, raw
    <3>3. /\ TakeSample(sampler, raw) \in SamplerRecords
          /\ Len(TakeSample(sampler, raw).fifo) <= EncoderFifoDepth
          /\ CanPush(sampler) =>
               /\ PushSample(sampler) \in SamplerRecords
               /\ Len(PushSample(sampler).fifo) <= EncoderFifoDepth
      BY <3>2, SamplerTypes
    <3> QED
      BY <3>1, <3>3 DEF sampler, raw
  <2>4. UNCHANGED <<user, begun, knobs, encoders, buttons, cached, bitmaps, changes, now>>
    BY <1>2 DEF Sample
  <2>5. samplers' \in [Controls -> SamplerRecords]
        /\ \A d \in Controls : Len(samplers'[d].fifo) <= EncoderFifoDepth
    BY <2>1, <2>3
  <2> QED
    BY <2>4, <2>5 DEF ObjectTypes, OtherTypes
<1> QED
  BY <1>1, <1>2

\* The resets set some counts to 0.
LEMMA ResetTypes ==
  ASSUME ObjectTypes, OtherTypes, NEW indices, Reset(indices)
  PROVE  ObjectTypes' /\ OtherTypes'
<1>1. /\ encoders' = [c \in Controls |->
           IF c \in indices THEN SetDetentCount(encoders[c], 0) ELSE encoders[c]]
      /\ cached' = [c \in Controls |-> IF c \in indices THEN 0 ELSE cached[c]]
      /\ UNCHANGED <<user, begun, knobs, samplers, buttons, bitmaps, changes, now>>
  BY DEF Reset
<1>2. encoders' \in [Controls -> EncoderRecords]
  <2>1. ASSUME NEW c \in Controls
        PROVE  encoders'[c] \in EncoderRecords
    BY <1>1, ResetType DEF ObjectTypes
  <2> QED
    BY <1>1, <2>1
<1>3. cached' \in [Controls -> Int]
  BY <1>1 DEF OtherTypes
<1> QED
  BY <1>1, <1>2, <1>3 DEF ObjectTypes, OtherTypes

\* Every step.
LEMMA TypesStep ==
  ASSUME ObjectTypes, OtherTypes, [Next]_vars
  PROVE  ObjectTypes' /\ OtherTypes'
<1>1. CASE UNCHANGED vars
  BY <1>1 DEF vars, ObjectTypes, OtherTypes
<1> QED
  BY <1>1, BeginTypes, ScanTypes, StepTypes, ResetTypes DEF Next, ResetControl, ResetAll

\* Every variable of the scanner has its type; no sampler's FIFO holds more words
\* than its depth and no count leaves the range of EncoderValue.
THEOREM ScannerTypes == Spec => []TypeOK
<1>1. Init => TypeOK
  BY InitTypes, TypesInParts
<1>2. TypeOK /\ [Next]_vars => TypeOK'
  <2>1. TypeOK' <=> ObjectTypes' /\ OtherTypes'
    BY DEF TypeOK, ObjectTypes, OtherTypes, SamplerRecords, EncoderRecords
  <2> QED
    BY <2>1, TypesInParts, TypesStep
<1> QED
  BY <1>1, <1>2, PTL DEF Spec
-----------------------------------------------------------------------------
(* What is under way from a knob to its count *)

\* The words between the PIO program and the decoder.
Words(sampler) ==
  sampler.fifo \o (IF sampler.pc = "push" THEN <<sampler.isr>> ELSE <<>>)

\* The encoder once they are decoded; Settled looks at the pins once more.
Drained(encoder, sampler, c) == ApplySamples(encoder, Words(sampler), c \in Exchanges)

\* A sampler that has seen where the knob is has its decoder on the way there.
KnobInvariant ==
  \A c \in Controls :
    encoders[c].started /\ samplers[c].x = Raw(c, knobs[c]) =>
      Drained(encoders[c], samplers[c], c).previous = PhaseAt(knobs[c])

\* What is under way is a sequence of pin states.
LEMMA WordsType ==
  ASSUME NEW sampler \in SamplerRecords
  PROVE  Words(sampler) \in Seq(PinStates)
<1> DEFINE waiting == IF sampler.pc = "push" THEN <<sampler.isr>> ELSE <<>>
<1>1. sampler.fifo \in Seq(PinStates) /\ sampler.isr \in PinStates
  BY DEF SamplerRecords
<1>2. waiting \in Seq(PinStates)
  BY <1>1
<1> HIDE DEF waiting
<1>3. sampler.fifo \o waiting \in Seq(PinStates)
  BY <1>1, <1>2, ConcatProperties
<1> QED
  BY <1>3 DEF Words, waiting

\* The drained encoder is an encoder, and draining starts none.
LEMMA DrainedType ==
  ASSUME NEW encoder \in EncoderRecords, NEW sampler \in SamplerRecords, NEW c
  PROVE  /\ Drained(encoder, sampler, c) \in EncoderRecords
         /\ Drained(encoder, sampler, c).previous =
              IF Words(sampler) = <<>> THEN encoder.previous
              ELSE Canonicalize(Words(sampler)[Len(Words(sampler))], c \in Exchanges)
<1> DEFINE exchanged == c \in Exchanges
<1>1. exchanged \in BOOLEAN /\ Words(sampler) \in Seq(PinStates)
  BY WordsType
<1>2. Drained(encoder, sampler, c) = ApplySamples(encoder, Words(sampler), exchanged)
  BY DEF Drained
<1> HIDE DEF exchanged
<1>3. /\ Drained(encoder, sampler, c) \in EncoderRecords
      /\ Drained(encoder, sampler, c).previous =
           IF Words(sampler) = <<>> THEN encoder.previous
           ELSE Canonicalize(Words(sampler)[Len(Words(sampler))], exchanged)
  BY <1>1, <1>2, ApplyType
<1> QED
  BY <1>3 DEF exchanged

\* One word more is one transition more.
LEMMA OneMoreWord ==
  ASSUME NEW encoder, NEW words \in Seq(PinStates), NEW c \in Controls, NEW position \in Positions
  PROVE  ApplySamples(encoder, words \o <<Raw(c, position)>>, c \in Exchanges) =
           ApplyTransition(ApplySamples(encoder, words, c \in Exchanges), PhaseAt(position))
<1> DEFINE exchanged == c \in Exchanges
           raw       == Raw(c, position)
           drained   == ApplySamples(encoder, words, exchanged)
<1>1. raw \in PinStates /\ Canonicalize(raw, exchanged) = PhaseAt(position)
  BY RawIsPinState
<1> HIDE DEF exchanged, raw
<1>2. <<raw>> \in Seq(PinStates)
  BY <1>1
<1>3. ApplySamples(encoder, words \o <<raw>>, exchanged) =
        ApplySamples(drained, <<raw>>, exchanged)
  BY <1>2, ApplyConcat
<1> HIDE DEF drained
<1>4. ApplySamples(drained, <<raw>>, exchanged) =
        ApplyTransition(drained, Canonicalize(raw, exchanged))
  BY FewWords
<1> QED
  BY <1>1, <1>3, <1>4 DEF exchanged, raw, drained

\* Sampling lets the decoder catch up, pushing moves a word on.
LEMMA SamplerMoves ==
  ASSUME NEW encoder, NEW sampler \in SamplerRecords, NEW c \in Controls,
         NEW position \in Positions
  PROVE  /\ sampler.pc = "sample" =>
              Drained(encoder, TakeSample(sampler, Raw(c, position)), c) =
                ApplyTransition(Drained(encoder, sampler, c), PhaseAt(position))
         /\ sampler.pc = "push" =>
              Drained(encoder, PushSample(sampler), c) = Drained(encoder, sampler, c)
<1> DEFINE fifo == sampler.fifo
           raw  == Raw(c, position)
<1>1. fifo \in Seq(PinStates) /\ sampler.isr \in PinStates
  BY DEF SamplerRecords
<1>2. fifo \o <<>> = fifo
  BY <1>1, ConcatEmptySeq
<1>3. ASSUME sampler.pc = "sample"
      PROVE  Drained(encoder, TakeSample(sampler, Raw(c, position)), c) =
                ApplyTransition(Drained(encoder, sampler, c), PhaseAt(position))
  <2>1. Words(sampler) = fifo
    BY <1>2, <1>3 DEF Words
  <2>2. /\ TakeSample(sampler, raw).pc = "push"
        /\ TakeSample(sampler, raw).isr = raw
        /\ TakeSample(sampler, raw).fifo = fifo
    BY DEF TakeSample, SamplerRecords
  <2>3. Words(TakeSample(sampler, raw)) = fifo \o <<raw>>
    BY <2>2 DEF Words
  <2> HIDE DEF fifo
  <2> QED
    BY <1>1, <2>1, <2>3, OneMoreWord DEF Drained
<1>4. ASSUME sampler.pc = "push"
      PROVE  Drained(encoder, PushSample(sampler), c) = Drained(encoder, sampler, c)
  <2>1. Append(fifo, sampler.isr) = fifo \o <<sampler.isr>>
        /\ Append(fifo, sampler.isr) \in Seq(PinStates)
    BY <1>1, AppendIsConcat, AppendProperties
  <2>2. Words(sampler) = fifo \o <<sampler.isr>>
    BY <1>4 DEF Words
  <2>3. /\ PushSample(sampler).pc = "sample"
        /\ PushSample(sampler).fifo = Append(fifo, sampler.isr)
    BY DEF PushSample, SamplerRecords
  <2>4. Words(PushSample(sampler)) = Append(fifo, sampler.isr) \o <<>>
    BY <2>3 DEF Words
  <2> DEFINE longer == Append(fifo, sampler.isr)
  <2>5. longer \in Seq(PinStates)
    BY <2>1
  <2> HIDE DEF longer
  <2>6. longer \o <<>> = longer
    BY <2>5, ConcatEmptySeq
  <2>7. Words(PushSample(sampler)) = Words(sampler)
    BY <2>1, <2>2, <2>4, <2>6 DEF longer
  <2> QED
    BY <2>7 DEF Drained
<1> QED
  BY <1>3, <1>4

\* A service takes words from what is under way and decodes them.
LEMMA ServiceMoves ==
  ASSUME NEW encoder \in EncoderRecords, NEW sampler \in SamplerRecords, NEW c
  PROVE  LET taken == WordsTaken(encoder, sampler)
         IN  Drained(ApplySamples(encoder, SubSeq(sampler.fifo, 1, taken), c \in Exchanges),
                     [sampler EXCEPT !.fifo = SubSeq(@, taken + 1, Len(@))], c) =
               Drained(encoder, sampler, c)
<1> DEFINE taken     == WordsTaken(encoder, sampler)
           first     == SubSeq(sampler.fifo, 1, taken)
           rest      == SubSeq(sampler.fifo, taken + 1, Len(sampler.fifo))
           waiting   == IF sampler.pc = "push" THEN <<sampler.isr>> ELSE <<>>
           exchanged == c \in Exchanges
           next      == [sampler EXCEPT !.fifo = SubSeq(@, taken + 1, Len(@))]
<1>1. first \in Seq(PinStates) /\ rest \in Seq(PinStates) /\ first \o rest = sampler.fifo
  BY TakenWords
<1>2. waiting \in Seq(PinStates)
  BY DEF SamplerRecords
<1>3. next.fifo = rest /\ next.pc = sampler.pc /\ next.isr = sampler.isr
  BY DEF SamplerRecords
<1> HIDE DEF first, rest, exchanged, next
<1>4. Words(next) = rest \o waiting
  BY <1>3 DEF Words
<1>5. Words(sampler) = (first \o rest) \o waiting
  BY <1>1 DEF Words
<1> HIDE DEF waiting
<1>11. first \in Seq(PinStates) /\ rest \in Seq(PinStates)
  BY <1>1
<1>12. (first \o rest) \o waiting = first \o (rest \o waiting)
  BY <1>2, <1>11, ConcatAssociative
<1>6. (first \o rest) \o waiting = first \o (rest \o waiting)
      /\ rest \o waiting \in Seq(PinStates)
  BY <1>2, <1>11, <1>12, ConcatProperties
<1> DEFINE later == rest \o waiting
<1>7. later \in Seq(PinStates)
  BY <1>6
<1>8. Words(sampler) = first \o later /\ Words(next) = later
  BY <1>4, <1>5, <1>6
<1> HIDE DEF later
<1>9. ApplySamples(encoder, first \o later, exchanged) =
        ApplySamples(ApplySamples(encoder, first, exchanged), later, exchanged)
  BY <1>1, <1>7, ApplyConcat
<1>10. Drained(ApplySamples(encoder, first, exchanged), next, c) = Drained(encoder, sampler, c)
  BY <1>8, <1>9 DEF Drained, exchanged
<1> QED
  BY <1>10 DEF first, next, exchanged

\* A reset changes the count, not the pins decoded last.
LEMMA ResetMoves ==
  ASSUME NEW encoder \in EncoderRecords, NEW sampler \in SamplerRecords, NEW c
  PROVE  Drained(SetDetentCount(encoder, 0), sampler, c).previous =
           Drained(encoder, sampler, c).previous
<1> DEFINE zero == SetDetentCount(encoder, 0)
<1>1. zero \in EncoderRecords /\ zero.previous = encoder.previous
  BY ResetType
<1> HIDE DEF zero
<1>2. Drained(zero, sampler, c).previous = Drained(encoder, sampler, c).previous
  BY <1>1, DrainedType
<1> QED
  BY <1>2 DEF zero

\* What a step may do between one knob and its count.
Begins(c) == ~encoders[c].started

Turns(c) ==
  /\ encoders'[c] = encoders[c] /\ samplers'[c] = samplers[c]
  /\ samplers[c].x = Raw(c, knobs[c])
  /\ \E direction \in {-1, 1} : knobs'[c] = Turned(knobs[c], direction)

Samples(c) ==
  /\ knobs'[c] = knobs[c] /\ encoders'[c] = encoders[c]
  /\ Drained(encoders'[c], samplers'[c], c) =
       ApplyTransition(Drained(encoders[c], samplers[c], c), PhaseAt(knobs[c]))

Moves(c) ==
  /\ knobs'[c] = knobs[c]
  /\ encoders'[c].started = encoders[c].started /\ samplers'[c].x = samplers[c].x
  /\ Drained(encoders'[c], samplers'[c], c) = Drained(encoders[c], samplers[c], c)

Resets(c) ==
  /\ Reset({c}) \/ Reset(Controls)
  /\ knobs'[c] = knobs[c] /\ samplers'[c] = samplers[c]
  /\ encoders'[c] = SetDetentCount(encoders[c], 0)

KnobStep(c) == Begins(c) \/ Turns(c) \/ Samples(c) \/ Moves(c) \/ Resets(c)

\* A step that touches neither pins, sampler nor encoder of a control moves nothing.
LEMMA OthersMove ==
  ASSUME NEW c, knobs'[c] = knobs[c], samplers'[c] = samplers[c], encoders'[c] = encoders[c]
  PROVE  KnobStep(c)
BY DEF KnobStep, Moves

\* It does nothing else, as long as the knob waits for its sampler.
LEMMA EveryKnobStep ==
  ASSUME ~KnobOutruns, ObjectTypes, OtherTypes, [Next]_vars, NEW c \in Controls,
         begun = "no" => ~encoders[c].started
  PROVE  KnobStep(c)
<1>0. /\ knobs \in [Controls -> Positions] /\ samplers \in [Controls -> SamplerRecords]
      /\ encoders \in [Controls -> EncoderRecords]
  BY DEF ObjectTypes, OtherTypes
<1>1. CASE Begin
  BY <1>1 DEF Begin, KnobStep, Begins
<1>2. ASSUME NEW d \in Controls, NEW direction \in {-1, 1}, Turn(d, direction)
      PROVE  KnobStep(c)
  <2>1. samplers' = samplers /\ encoders' = encoders
        /\ knobs' = [knobs EXCEPT ![d] = Turned(@, direction)] /\ InStep(d)
    BY <1>2 DEF Turn
  <2>2. CASE c = d
    BY <1>0, <2>1, <2>2 DEF KnobStep, Turns, InStep
  <2>3. CASE c # d
    BY <1>0, <2>1, <2>3, OthersMove
  <2> QED
    BY <2>2, <2>3
<1>3. ASSUME NEW d \in Controls, Sample(d)
      PROVE  KnobStep(c)
  <2> DEFINE sampler == samplers[d]
             raw     == Raw(d, knobs[d])
  <2>1. knobs' = knobs /\ encoders' = encoders
    BY <1>3 DEF Sample
  <2>2. \/ /\ sampler.pc = "sample"
           /\ samplers' = [samplers EXCEPT ![d] = TakeSample(sampler, raw)]
        \/ /\ sampler.pc = "push"
           /\ samplers' = [samplers EXCEPT ![d] = PushSample(sampler)]
    BY <1>3 DEF Sample, SeesChange, CanPush
  <2>3. CASE c = d
    <3>1. sampler \in SamplerRecords /\ knobs[d] \in Positions
      BY <1>0
    <3>2. CASE /\ sampler.pc = "sample"
               /\ samplers' = [samplers EXCEPT ![d] = TakeSample(sampler, raw)]
      <4>1. samplers'[d] = TakeSample(sampler, raw)
        BY <1>0, <3>2
      <4> HIDE DEF sampler
      <4>2. Drained(encoders[d], TakeSample(sampler, raw), d) =
              ApplyTransition(Drained(encoders[d], sampler, d), PhaseAt(knobs[d]))
        BY <3>1, <3>2, SamplerMoves
      <4> QED
        BY <2>1, <2>3, <4>1, <4>2 DEF KnobStep, Samples, sampler
    <3>3. CASE sampler.pc = "push" /\ samplers' = [samplers EXCEPT ![d] = PushSample(sampler)]
      <4>1. samplers'[d] = PushSample(sampler) /\ PushSample(sampler).x = sampler.x
        BY <1>0, <3>1, <3>3 DEF PushSample, SamplerRecords
      <4> HIDE DEF sampler
      <4>2. Drained(encoders[d], PushSample(sampler), d) = Drained(encoders[d], sampler, d)
        BY <3>1, <3>3, SamplerMoves
      <4> QED
        BY <2>1, <2>3, <4>1, <4>2 DEF KnobStep, Moves, sampler
    <3> QED
      BY <2>2, <3>2, <3>3
  <2>4. CASE c # d
    <3>1. samplers'[c] = samplers[c]
      BY <1>0, <2>2, <2>4
    <3> QED
      BY <2>1, <3>1, OthersMove
  <2> QED
    BY <2>3, <2>4
<1>4. ASSUME NEW gap \in Gaps, NEW levels \in Levels, Scan(gap, levels)
      PROVE  KnobStep(c)
  <2> DEFINE encoder == encoders[c]
             sampler == samplers[c]
             taken   == WordsTaken(encoder, sampler)
             first   == SubSeq(sampler.fifo, 1, taken)
  <2>1. /\ knobs' = knobs
        /\ encoders'[c] = ApplySamples(encoder, first, c \in Exchanges)
        /\ samplers'[c] = [sampler EXCEPT !.fifo = SubSeq(@, taken + 1, Len(@))]
    BY <1>4 DEF Scan
  <2>2. encoder \in EncoderRecords /\ sampler \in SamplerRecords
    BY <1>0
  <2>3. Drained(encoders'[c], samplers'[c], c) = Drained(encoder, sampler, c)
    BY <2>1, <2>2, ServiceMoves
  <2>4. encoders'[c].started = encoder.started
    <3>1. first \in Seq(PinStates)
      BY <2>2, TakenWords
    <3> DEFINE exchanged == c \in Exchanges
    <3>2. exchanged \in BOOLEAN /\ encoders'[c] = ApplySamples(encoder, first, exchanged)
      BY <2>1
    <3> HIDE DEF exchanged, first, encoder
    <3> QED
      BY <2>2, <3>1, <3>2, ApplyType
  <2>5. samplers'[c].x = sampler.x
    BY <2>1, <2>2 DEF SamplerRecords
  <2> QED
    BY <2>1, <2>3, <2>4, <2>5 DEF KnobStep, Moves
<1>5. ASSUME NEW indices, Reset(indices), indices = Controls \/ \E d \in Controls : indices = {d}
      PROVE  KnobStep(c)
  <2>1. knobs' = knobs /\ samplers' = samplers
        /\ encoders'[c] = IF c \in indices THEN SetDetentCount(encoders[c], 0) ELSE encoders[c]
    BY <1>5 DEF Reset
  <2>2. CASE c \in indices
    <3>1. indices = {c} \/ indices = Controls
      BY <1>5, <2>2
    <3> QED
      BY <1>5, <2>1, <2>2, <3>1 DEF KnobStep, Resets
  <2>3. CASE c \notin indices
    BY <2>1, <2>3, OthersMove
  <2> QED
    BY <2>2, <2>3
<1>6. CASE UNCHANGED vars
  <2>1. knobs' = knobs /\ samplers' = samplers /\ encoders' = encoders
    BY <1>6 DEF vars
  <2> QED
    BY <2>1, OthersMove
<1> QED
  BY <1>1, <1>2, <1>3, <1>4, <1>5, <1>6 DEF Next, ResetControl, ResetAll

\* Only begin() starts an encoder, and it runs once.
LEMMA StartedByBegin ==
  ASSUME ObjectTypes, [Next]_vars, ~Begin, NEW c \in Controls
  PROVE  begun' = begun /\ encoders'[c].started = encoders[c].started
<1>1. ASSUME NEW d \in Controls, NEW direction \in {-1, 1}, Turn(d, direction)
      PROVE  UNCHANGED <<begun, encoders>>
  BY <1>1 DEF Turn
<1>2. ASSUME NEW d \in Controls, Sample(d)
      PROVE  UNCHANGED <<begun, encoders>>
  BY <1>2 DEF Sample
<1>3. ASSUME NEW gap \in Gaps, NEW levels \in Levels, Scan(gap, levels)
      PROVE  begun' = begun /\ encoders'[c].started = encoders[c].started
  <2> DEFINE encoder == encoders[c]
             sampler == samplers[c]
             first   == SubSeq(sampler.fifo, 1, WordsTaken(encoder, sampler))
             exchanged == c \in Exchanges
  <2>1. begun' = begun /\ encoders'[c] = ApplySamples(encoder, first, exchanged)
    BY <1>3 DEF Scan
  <2>2. encoder \in EncoderRecords /\ sampler \in SamplerRecords /\ exchanged \in BOOLEAN
    BY DEF ObjectTypes
  <2>3. first \in Seq(PinStates)
    BY <2>2, TakenWords
  <2> HIDE DEF encoder, first, exchanged
  <2>4. encoders'[c].started = encoder.started
    BY <2>1, <2>2, <2>3, ApplyType
  <2> QED
    BY <2>1, <2>4 DEF encoder
<1>4. ASSUME NEW indices, Reset(indices)
      PROVE  begun' = begun /\ encoders'[c].started = encoders[c].started
  BY <1>4, ResetType DEF Reset, ObjectTypes
<1>5. CASE UNCHANGED vars
  BY <1>5 DEF vars
<1> QED
  BY <1>1, <1>2, <1>3, <1>4, <1>5 DEF Next, ResetControl, ResetAll

\* A transition shows other pins.
LEMMA TurnIsSeen ==
  ASSUME NEW c, NEW position \in Positions, NEW direction \in {-1, 1}
  PROVE  Raw(c, Turned(position, direction)) # Raw(c, position)
<1>1. Turned(position, direction) \in Positions
      /\ QuadratureDelta[PhaseAt(position) * 4 + PhaseAt(Turned(position, direction)) + 1] =
           direction
  BY TurnDelta
<1>2. PhaseAt(position) \in PinStates /\ PhaseAt(Turned(position, direction)) \in PinStates
  BY <1>1, RawIsPinState
<1>3. PhaseAt(Turned(position, direction)) # PhaseAt(position)
  BY <1>1, <1>2, PinFacts
<1> QED
  BY <1>1, <1>3, RawIsPinState

\* begin() reads the pins where they are, so a decoder starts on the way.
LEMMA BeginKnobs ==
  ASSUME ObjectTypes, OtherTypes, Begin, NEW c \in Controls, encoders'[c].started,
         ~encoders[c].started
  PROVE  Drained(encoders'[c], samplers'[c], c).previous = PhaseAt(knobs'[c])
<1>1. PICK working \in Working, levels \in Levels, turned \in -1 .. 1 :
       /\ begun' = IF working = Controls THEN "ok" ELSE "failed"
       /\ samplers' = [d \in Controls |->
            IF d \in working
            THEN StartedSampler(Raw(d, IF d \in user.turning THEN Turned(knobs[d], -turned)
                                                             ELSE knobs[d]))
            ELSE samplers[d]]
       /\ encoders' = [d \in Controls |->
            IF d \in working THEN BeginEncoder(PhaseAt(knobs[d])) ELSE encoders[d]]
       /\ buttons' = [d \in Controls |-> BeginButton(levels[d], now)]
       /\ cached' = [d \in Controls |-> DetentCount(encoders'[d])]
       /\ contact' = [d \in Controls |->
            [level |-> levels[d], steady |-> 0, held |-> 0]]
  BY DEF Begin
<1>2. c \in working /\ encoders'[c] = BeginEncoder(PhaseAt(knobs[c]))
  BY <1>1
<1>3. knobs' = knobs
  BY DEF Begin
<1>4. samplers'[c].pc = "sample" /\ samplers'[c].fifo = <<>>
  BY <1>1, <1>2 DEF StartedSampler
<1>5. Words(samplers'[c]) = <<>>
  BY <1>4 DEF Words
<1>6. Drained(encoders'[c], samplers'[c], c) = encoders'[c]
  BY <1>5, FewWords DEF Drained
<1> QED
  BY <1>2, <1>3, <1>6 DEF BeginEncoder

\* Encoders start in begin().
BeginInvariant == begun = "no" => \A c \in Controls : ~encoders[c].started

\* Nothing starts one before.
LEMMA BeginStep ==
  ASSUME ObjectTypes, BeginInvariant, [Next]_vars
  PROVE  BeginInvariant'
<1>1. CASE Begin
  <2>1. begun' # "no"
    BY <1>1 DEF Begin
  <2> QED
    BY <2>1 DEF BeginInvariant
<1>2. CASE ~Begin
  BY <1>2, StartedByBegin DEF BeginInvariant
<1> QED
  BY <1>1, <1>2

\* A step keeps the invariant, and moves where the count is heading by the
\* direction of the knob and by nothing else.
LEMMA KnobsStep ==
  ASSUME ~KnobOutruns, ObjectTypes, OtherTypes, ObjectTypes', OtherTypes',
         KnobInvariant, BeginInvariant, [Next]_vars, NEW c \in Controls
  PROVE  /\ encoders'[c].started /\ samplers'[c].x = Raw(c, knobs'[c]) =>
              Drained(encoders'[c], samplers'[c], c).previous = PhaseAt(knobs'[c])
         /\ encoders[c].started /\ ~Reset({c}) /\ ~Reset(Controls) =>
              \A direction \in {-1, 0, 1} : knobs'[c] = Turned(knobs[c], direction) =>
                ApplyTransition(Drained(encoders'[c], samplers'[c], c),
                                PhaseAt(knobs'[c])).count =
                  Saturated(ApplyTransition(Drained(encoders[c], samplers[c], c),
                                            PhaseAt(knobs[c])).count + direction)
<1> DEFINE before  == Drained(encoders[c], samplers[c], c)
           after   == Drained(encoders'[c], samplers'[c], c)
           here    == PhaseAt(knobs[c])
           there   == PhaseAt(knobs'[c])
           Delta(p, q) == QuadratureDelta[p * 4 + q + 1]
           started == encoders[c].started
           OnTheWay == encoders'[c].started /\ samplers'[c].x = Raw(c, knobs'[c]) =>
                         after.previous = there
           Counts == started /\ ~Reset({c}) /\ ~Reset(Controls) =>
                       \A direction \in {-1, 0, 1} : knobs'[c] = Turned(knobs[c], direction) =>
                         ApplyTransition(after, there).count =
                           Saturated(ApplyTransition(before, here).count + direction)
<1>1. /\ encoders[c] \in EncoderRecords /\ samplers[c] \in SamplerRecords /\ knobs[c] \in Positions
      /\ encoders'[c] \in EncoderRecords /\ samplers'[c] \in SamplerRecords
      /\ knobs'[c] \in Positions
  BY DEF ObjectTypes, OtherTypes
<1>2. before \in EncoderRecords /\ after \in EncoderRecords
  BY <1>1, DrainedType
<1>3. here \in PinStates /\ there \in PinStates
  BY <1>1, RawIsPinState
<1>4. \A direction \in {-1, 0, 1} :
        knobs'[c] = Turned(knobs[c], direction) => Delta(here, there) = direction
  BY <1>1, TurnDelta
<1>5. \A phase \in PinStates : Delta(phase, phase) = 0
  BY PinFacts
<1>6. started /\ samplers[c].x = Raw(c, knobs[c]) => before.previous = here
  BY DEF KnobInvariant
<1>7. KnobStep(c)
  BY EveryKnobStep DEF BeginInvariant
<1> HIDE DEF before, after, here, there, Delta
<1>8. ASSUME NEW encoder \in EncoderRecords, NEW phase \in PinStates
      PROVE  /\ ApplyTransition(encoder, phase) \in EncoderRecords
             /\ ApplyTransition(encoder, phase).previous = phase
             /\ ApplyTransition(encoder, phase).started = encoder.started
             /\ ApplyTransition(encoder, phase).count =
                  Saturated(encoder.count + Delta(encoder.previous, phase))
  BY TransitionType DEF Delta
<1>9. ASSUME NEW encoder \in EncoderRecords
      PROVE  Saturated(encoder.count + 0) = encoder.count
  <2>1. encoder.count \in CountMinimum .. CountMaximum
    BY DEF EncoderRecords
  <2> QED
    BY <2>1, SaturatedStays
<1>10. CASE Begins(c)
  <2>1. ~started
    BY <1>10 DEF Begins
  <2>2. OnTheWay
    <3> SUFFICES ASSUME encoders'[c].started
                 PROVE  after.previous = there
      OBVIOUS
    <3>1. CASE Begin
      BY <2>1, <3>1, BeginKnobs DEF after, there
    <3>2. CASE ~Begin
      BY <2>1, <3>2, StartedByBegin
    <3> QED
      BY <3>1, <3>2
  <2> QED
    BY <2>1, <2>2 DEF before, after, here, there
<1>11. CASE Turns(c)
  <2>1. after = before
    BY <1>11 DEF Turns, after, before
  <2>2. OnTheWay
    BY <1>1, <1>11, TurnIsSeen DEF Turns
  <2>3. ASSUME started, NEW direction \in {-1, 0, 1}, knobs'[c] = Turned(knobs[c], direction)
        PROVE  ApplyTransition(after, there).count =
                 Saturated(ApplyTransition(before, here).count + direction)
    <3>1. before.previous = here /\ Delta(here, there) = direction /\ Delta(here, here) = 0
      BY <1>3, <1>4, <1>5, <1>6, <1>11, <2>3 DEF Turns
    <3>2. ApplyTransition(before, here).count = Saturated(before.count + 0)
      BY <1>2, <1>3, <1>8, <3>1
    <3>3. ApplyTransition(before, here).count = before.count
      BY <1>2, <1>9, <3>2
    <3>4. ApplyTransition(before, there).count = Saturated(before.count + direction)
      BY <1>2, <1>3, <1>8, <3>1
    <3> QED
      BY <2>1, <3>3, <3>4
  <2> QED
    BY <2>2, <2>3 DEF before, after, here, there
<1>12. CASE Samples(c)
  <2>1. after = ApplyTransition(before, here) /\ knobs'[c] = knobs[c] /\ there = here
    BY <1>12 DEF Samples, after, before, here, there
  <2>2. OnTheWay
    BY <1>2, <1>3, <1>8, <2>1
  <2>3. ASSUME NEW direction \in {-1, 0, 1}, knobs'[c] = Turned(knobs[c], direction)
        PROVE  ApplyTransition(after, there).count =
                 Saturated(ApplyTransition(before, here).count + direction)
    <3>1. direction = 0 /\ Delta(here, here) = 0
      BY <1>3, <1>4, <1>5, <2>1, <2>3
    <3>2. after.previous = here /\ after.count = ApplyTransition(before, here).count
      BY <1>2, <1>3, <1>8, <2>1
    <3>3. ApplyTransition(after, here).count = Saturated(after.count + 0)
      BY <1>2, <1>3, <1>8, <3>1, <3>2
    <3> QED
      BY <2>1, <3>1, <3>2, <3>3
  <2> QED
    BY <2>2, <2>3 DEF before, after, here, there
<1>13. CASE Moves(c)
  <2>1. after = before /\ knobs'[c] = knobs[c] /\ there = here
        /\ encoders'[c].started = started /\ samplers'[c].x = samplers[c].x
    BY <1>13 DEF Moves, after, before, here, there
  <2>2. OnTheWay
    BY <1>6, <2>1
  <2>3. ASSUME NEW direction \in {-1, 0, 1}, knobs'[c] = Turned(knobs[c], direction)
        PROVE  ApplyTransition(after, there).count =
                 Saturated(ApplyTransition(before, here).count + direction)
    <3> DEFINE settled == ApplyTransition(before, here)
    <3>1. direction = 0
      BY <1>3, <1>4, <1>5, <2>1, <2>3
    <3>2. settled \in EncoderRecords
      BY <1>2, <1>3, <1>8
    <3> HIDE DEF settled
    <3>3. Saturated(settled.count + 0) = settled.count
      BY <1>9, <3>2
    <3> QED
      BY <2>1, <3>1, <3>3 DEF settled
  <2> QED
    BY <2>2, <2>3 DEF before, after, here, there
<1>14. CASE Resets(c)
  <2>1. /\ knobs'[c] = knobs[c] /\ there = here /\ samplers'[c] = samplers[c]
        /\ encoders'[c] = SetDetentCount(encoders[c], 0)
        /\ Reset({c}) \/ Reset(Controls)
    BY <1>14 DEF Resets, here, there
  <2>2. encoders'[c].started = started /\ after.previous = before.previous
    BY <1>1, <2>1, ResetType, ResetMoves DEF after, before
  <2>3. OnTheWay
    BY <1>6, <2>1, <2>2
  <2> QED
    BY <2>1, <2>3 DEF before, after, here, there
<1> QED
  BY <1>7, <1>10, <1>11, <1>12, <1>13, <1>14 DEF KnobStep

-----------------------------------------------------------------------------
(* Counts *)

\* The types, and all decoders on their way.
CountInvariant == ObjectTypes /\ OtherTypes /\ BeginInvariant /\ KnobInvariant

\* A step of that invariant, with what it does to Settled.
LEMMA CountStep ==
  ASSUME ~KnobOutruns, CountInvariant, [Next]_vars
  PROVE  /\ CountInvariant'
         /\ \A c \in Controls, direction \in {-1, 0, 1} :
              /\ knobs'[c] = Turned(knobs[c], direction)
              /\ encoders[c].started
              /\ ~Reset({c}) /\ ~Reset(Controls)
              => Settled(c)'.count = Saturated(Settled(c).count + direction)
<1>1. ObjectTypes' /\ OtherTypes'
  BY TypesStep DEF CountInvariant
<1>2. BeginInvariant'
  BY BeginStep DEF CountInvariant
<1>3. KnobInvariant'
  BY <1>1, KnobsStep DEF CountInvariant, KnobInvariant
<1>4. ASSUME NEW c \in Controls
      PROVE  /\ Settled(c) = ApplyTransition(Drained(encoders[c], samplers[c], c),
                                             PhaseAt(knobs[c]))
             /\ Settled(c)' = ApplyTransition(Drained(encoders'[c], samplers'[c], c),
                                              PhaseAt(knobs'[c]))
  <2>1. samplers[c] \in SamplerRecords /\ knobs[c] \in Positions
        /\ samplers'[c] \in SamplerRecords /\ knobs'[c] \in Positions
    BY <1>1 DEF CountInvariant, ObjectTypes, OtherTypes
  <2>2. Words(samplers[c]) \in Seq(PinStates) /\ Words(samplers'[c]) \in Seq(PinStates)
    BY <2>1, WordsType
  <2>3. Settled(c) = ApplySamples(encoders[c], Words(samplers[c]) \o <<Raw(c, knobs[c])>>,
                                  c \in Exchanges)
    BY DEF Settled, Words
  <2>4. Settled(c)' = ApplySamples(encoders'[c], Words(samplers'[c]) \o <<Raw(c, knobs'[c])>>,
                                   c \in Exchanges)
    BY DEF Settled, Words
  <2>5. Settled(c) = ApplyTransition(Drained(encoders[c], samplers[c], c), PhaseAt(knobs[c]))
    BY <2>1, <2>2, <2>3, OneMoreWord DEF Drained
  <2>6. Settled(c)' = ApplyTransition(Drained(encoders'[c], samplers'[c], c), PhaseAt(knobs'[c]))
    BY <2>1, <2>2, <2>4, OneMoreWord DEF Drained
  <2> QED
    BY <2>5, <2>6
<1> QED
  BY <1>1, <1>2, <1>3, <1>4, KnobsStep DEF CountInvariant

\* While no knob outruns its sampler, every transition is counted once, in its
\* direction, however far PIO program and decoder are behind, and nothing but a
\* reset changes the count they are heading for.
THEOREM TransitionsAreCounted ==
  ASSUME KnobOutruns = FALSE
  PROVE  Spec => EveryTransitionCounts
<1> DEFINE Counted ==
      \A c \in Controls, direction \in {-1, 0, 1} :
        /\ knobs'[c] = Turned(knobs[c], direction)
        /\ encoders[c].started
        /\ ~Reset({c}) /\ ~Reset(Controls)
        => Settled(c)'.count = Saturated(Settled(c).count + direction)
<1>1. Init => CountInvariant
  <2> SUFFICES ASSUME Init PROVE CountInvariant
    OBVIOUS
  <2>1. \A c \in Controls : ~encoders[c].started
    BY DEF Init, StoppedEncoder
  <2> QED
    BY <2>1, InitTypes DEF CountInvariant, BeginInvariant, KnobInvariant
<1>2. CountInvariant /\ [Next]_vars => CountInvariant' /\ [Counted]_vars
  BY CountStep
<1> HIDE DEF Counted
<1>3. Spec => [][Counted]_vars
  BY <1>1, <1>2, PTL DEF Spec
<1> QED
  BY <1>3, PTL DEF EveryTransitionCounts, Counted
=============================================================================
