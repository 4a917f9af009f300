--------------------------- MODULE ControlScanner ---------------------------
(***************************************************************************)
(* ControlScanner with the encoders and buttons it owns, the PIO samplers  *)
(* behind the encoders, and the knobs a user turns.  What McmApplication   *)
(* sees of it are the cached counts, the two bitmaps and the changes a     *)
(* scan returns.                                                           *)
(*                                                                         *)
(* KnobOutruns = FALSE is the assumption that a knob does not turn on      *)
(* while its sampler has yet to take, or to push, the last transition: the *)
(* loop drains the FIFOs fast enough.                                      *)
(***************************************************************************)
EXTENDS EncoderPIO, DebouncedButton, FiniteSets

CONSTANTS
  Controls,       \* indices of the controls
  Exchanges,      \* the controls whose A pin is the higher one
  Working,        \* which encoders may start: a set of sets of controls
  Users,          \* [turning, pressing]: the controls somebody's hands are on
  KnobOutruns,
  MaxGap          \* most time between two scans, for a user who presses: without
                  \* presses nothing depends on time, and it stands still

ASSUME ScannerAssumption ==
  /\ IsFiniteSet(Controls)
  /\ Exchanges \subseteq Controls
  /\ Working \subseteq SUBSET Controls
  /\ Working # {}
  /\ Users \subseteq [turning : SUBSET Controls, pressing : SUBSET Controls]
  /\ KnobOutruns \in BOOLEAN
  /\ MaxGap \in Nat
  /\ MaxGap + ButtonDebounceMs < TimeModulus
  /\ MaxGap + ButtonLongPressMs < TimeModulus

VARIABLES
  user,       \* one of Users, for good
  begun,      \* what begin() returned
  knobs,      \* position of every knob, in transitions modulo 4
  samplers,   \* the PIO side
  encoders,   \* encoders_
  buttons,    \* buttons_
  cached,     \* encoderValues_
  bitmaps,    \* pressedBitmap_ and longHeldBitmap_, as sets
  changes,    \* what the last service() returned
  now,        \* millis() at the last scan
  contact     \* history of every button: the last level sampled, for how long
              \* it has been that, and the time since the press

vars == <<user, begun, knobs, samplers, encoders, buttons, cached, bitmaps,
          changes, now, contact>>

-----------------------------------------------------------------------------

Positions == 0 .. 3

\* What the six button pins can read, as the map from control to "pressed".
Levels == {[c \in Controls |-> c \in down] : down \in SUBSET user.pressing}

Gaps == IF user.pressing = {} THEN {0} ELSE 0 .. MaxGap

Raw(control, position) == Canonicalize(PhaseAt(position), control \in Exchanges)

\* The position one transition on in a direction, -1 or 1, or here with 0.
Turned(position, direction) == (position + direction) % 4

NoChanges == [encoders |-> {}, buttons |-> FALSE]

Init ==
  /\ user \in Users
  /\ begun = "no"
  /\ knobs \in [Controls -> Positions]
  /\ \A c \in Controls \ user.turning : knobs[c] = 0
  /\ samplers = [c \in Controls |-> StartedSampler(0)]
  /\ encoders = [c \in Controls |-> StoppedEncoder]
  /\ buttons = [c \in Controls |-> BeginButton(FALSE, 0)]
  /\ cached = [c \in Controls |-> 0]
  /\ bitmaps = [pressed |-> {}, longHeld |-> {}]
  /\ changes = NoChanges
  /\ now \in IF user.pressing = {} THEN {0} ELSE Times
  /\ contact = [c \in Controls |-> [level |-> FALSE, steady |-> 0, held |-> 0]]

\* Mutant of RefreshedBitmaps: a button leaves the bitmap while it debounces.
RefreshedBitmapsRaw(bs) ==
  [pressed  |-> {c \in Controls : bs[c].state \in {"Pressed", "LongHeld"}},
   longHeld |-> {c \in Controls : bs[c].state = "LongHeld"}]

\* refreshButtonBitmaps.
RefreshedBitmaps(bs) ==
  [pressed  |-> {c \in Controls : IsPressed(bs[c])},
   longHeld |-> {c \in Controls : IsLongHeld(bs[c])}]

\* begin(): all encoders and buttons start, also behind one that fails.  Each
\* state machine is enabled before the pins are read for previousState_, so a
\* knob may turn by one (turned) between its sampler's start and its decoder's.
Begin ==
  /\ begun = "no"
  /\ \E working \in Working, levels \in Levels,
        turned \in -1 .. 1 :
       /\ begun' = IF working = Controls THEN "ok" ELSE "failed"
       /\ samplers' = [c \in Controls |->
            IF c \in working
            THEN StartedSampler(Raw(c, IF c \in user.turning THEN Turned(knobs[c], -turned) ELSE knobs[c]))
            ELSE samplers[c]]
       /\ encoders' = [c \in Controls |->
            IF c \in working THEN BeginEncoder(PhaseAt(knobs[c])) ELSE encoders[c]]
       /\ buttons' = [c \in Controls |-> BeginButton(levels[c], now)]
       /\ cached' = [c \in Controls |-> DetentCount(encoders'[c])]
       /\ contact' = [c \in Controls |->
            [level |-> levels[c], steady |-> 0, held |-> 0]]
  /\ bitmaps' = RefreshedBitmaps(buttons')
  /\ UNCHANGED <<user, knobs, changes, now>>

-----------------------------------------------------------------------------
(* Knobs and samplers *)

InStep(control) ==
  /\ samplers[control].pc = "sample"
  /\ samplers[control].x = Raw(control, knobs[control])

Turn(control, direction) ==
  /\ control \in user.turning
  /\ encoders[control].started
  /\ KnobOutruns \/ InStep(control)
  /\ knobs' = [knobs EXCEPT ![control] = Turned(@, direction)]
  /\ UNCHANGED <<user, begun, samplers, encoders, buttons, cached, bitmaps, changes,
                 now, contact>>

Sample(control) ==
  LET raw == Raw(control, knobs[control])
  IN  /\ encoders[control].started
      /\ \/ /\ SeesChange(samplers[control], raw)
            /\ samplers' = [samplers EXCEPT ![control] = TakeSample(@, raw)]
         \/ /\ CanPush(samplers[control])
            /\ samplers' = [samplers EXCEPT ![control] = PushSample(@)]
      /\ UNCHANGED <<user, begun, knobs, encoders, buttons, cached, bitmaps, changes,
                     now, contact>>

-----------------------------------------------------------------------------
(* The scanner's operations; McmApplication calls service only after a       *)
(* successful begin, the resets also in Fault                                *)

Least(a, b) == IF a < b THEN a ELSE b

\* How the history of one button goes on with a sample taken after gap.
NextContact(old, level, gap, before, after) ==
  [level  |-> level,
   steady |-> IF level = old.level THEN Least(old.steady + gap, ButtonDebounceMs)
              ELSE 0,
   held   |-> IF ~IsPressed(before) \/ ~IsPressed(after) THEN 0
              ELSE Least(old.held + gap, ButtonLongPressMs)]

\* service(), with the button levels it samples.
Scan(gap, levels) ==
  LET time == (now + gap) % TimeModulus
      Taken(c) == WordsTaken(encoders[c], samplers[c])
  IN  /\ begun = "ok"
      /\ now' = time
      /\ encoders' = [c \in Controls |->
           ApplySamples(encoders[c], SubSeq(samplers[c].fifo, 1, Taken(c)),
                        c \in Exchanges)]
      /\ samplers' = [c \in Controls |-> [samplers[c] EXCEPT !.fifo =
                        SubSeq(@, Taken(c) + 1, Len(@))]]
      /\ cached' = [c \in Controls |-> DetentCount(encoders'[c])]
      /\ buttons' = [c \in Controls |-> ServiceButton(buttons[c], levels[c], time)]
      /\ bitmaps' = RefreshedBitmaps(buttons')
      /\ changes' =
           [encoders |-> {c \in Controls : cached'[c] # cached[c]},
            buttons  |-> \/ \E c \in Controls : EdgeReported(buttons[c], buttons'[c])
                         \/ bitmaps' # bitmaps]
      /\ contact' = [c \in Controls |->
           NextContact(contact[c], levels[c], gap, buttons[c], buttons'[c])]
      /\ UNCHANGED <<user, begun, knobs>>

\* Mutant of Reset: the encoder restarts, the cached value waits for a scan.
ResetEncodersOnly(indices) ==
  /\ begun # "no"
  /\ encoders' = [c \in Controls |->
       IF c \in indices THEN SetDetentCount(encoders[c], 0) ELSE encoders[c]]
  /\ UNCHANGED <<user, begun, knobs, samplers, buttons, cached, bitmaps, changes, now,
                 contact>>

\* resetControl(index) for a valid index, and resetAll for all of them.
Reset(indices) ==
  /\ begun # "no"
  /\ encoders' = [c \in Controls |->
       IF c \in indices THEN SetDetentCount(encoders[c], 0) ELSE encoders[c]]
  /\ cached' = [c \in Controls |-> IF c \in indices THEN 0 ELSE cached[c]]
  /\ UNCHANGED <<user, begun, knobs, samplers, buttons, bitmaps, changes, now, contact>>

ResetControl(control) == Reset({control})

ResetAll == Reset(Controls)

Next ==
  \/ Begin
  \/ \E control \in Controls, direction \in {-1, 1} : Turn(control, direction)
  \/ \E control \in Controls : Sample(control)
  \/ \E gap \in Gaps, levels \in Levels : Scan(gap, levels)
  \/ \E control \in Controls : ResetControl(control)
  \/ ResetAll

Spec == Init /\ [][Next]_vars

-----------------------------------------------------------------------------
(* Properties *)

\* Every variable has its type and the FIFOs stay inside their depth.
TypeOK ==
  /\ user \in Users
  /\ begun \in {"no", "ok", "failed"}
  /\ knobs \in [Controls -> Positions]
  /\ samplers \in [Controls -> [pc : {"sample", "push"}, x : PinStates,
                                isr : PinStates, fifo : Seq(PinStates)]]
  /\ \A c \in Controls : Len(samplers[c].fifo) <= EncoderFifoDepth
  /\ encoders \in [Controls -> [count : CountMinimum .. CountMaximum,
                                previous : PinStates, started : BOOLEAN]]
  /\ buttons \in [Controls -> ButtonRecords]
  /\ cached \in [Controls -> Int]
  /\ bitmaps \in [pressed : SUBSET Controls, longHeld : SUBSET Controls]
  /\ changes \in [encoders : SUBSET Controls, buttons : BOOLEAN]
  /\ now \in Times

\* What the application reads is what the encoder objects hold, resets in
\* between scans included, so a scan can only report true differences.
CacheIsCurrent ==
  \A c \in Controls : cached[c] = DetentCount(encoders[c])

\* The encoder once everything its sampler has seen or will see is decoded.
Settled(control) ==
  LET sampler == samplers[control]
      waiting == IF sampler.pc = "push" THEN <<sampler.isr>> ELSE <<>>
  IN  ApplySamples(encoders[control],
        sampler.fifo \o waiting \o <<Raw(control, knobs[control])>>,
        control \in Exchanges)

\* Every transition of a knob counts once and in its direction, however far
\* sampler and decoder are behind; nothing else but a reset changes the count
\* they are heading for, and at the limits of the counter it stands still.
EveryTransitionCounts ==
  [][\A c \in Controls, direction \in {-1, 0, 1} :
       /\ knobs'[c] = Turned(knobs[c], direction)
       /\ encoders[c].started
       /\ ~Reset({c}) /\ ~Reset(Controls)
       => Settled(c)'.count = Saturated(Settled(c).count + direction)]_vars

\* A button is reported pressed or released only after its level was the same
\* in all samples of the debounce time, across the wrap of millis() too.
ChangeNeedsSteadyLevel ==
  [][\A c \in Controls :
       (begun = "ok" /\ (c \in bitmaps.pressed <=> c \notin bitmaps'.pressed)) =>
         contact'[c].steady >= ButtonDebounceMs]_vars

\* And it is reported then: no level that lasts is overlooked.
SteadyLevelIsSeen ==
  begun # "no" =>
    \A c \in Controls :
      contact[c].steady >= ButtonDebounceMs =>
        (c \in bitmaps.pressed <=> contact[c].level)

\* A long hold is reported only when the press was reported that long before.
LongHoldIsLong ==
  [][\A c \in Controls :
       (c \notin bitmaps.longHeld /\ c \in bitmaps'.longHeld) =>
         contact'[c].held >= ButtonLongPressMs]_vars

\* Some edge of some button is reported exactly when a bitmap changes: the two
\* tests of service() agree, so that a scan's button change is a change of the
\* picture and no more, which McmApplication's publishing counts on.
EdgesMatchBitmaps ==
  [][begun = "ok" =>
       ((\E c \in Controls : EdgeReported(buttons[c], buttons'[c]))
          <=> bitmaps' # bitmaps)]_vars
=============================================================================
