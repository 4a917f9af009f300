-------------------------- MODULE MCControlScanner --------------------------
(***************************************************************************)
(* ControlScanner for TLC: values a configuration file cannot hold.        *)
(***************************************************************************)
EXTENDS ControlScanner

CountLow == -2

\* A knob turns or a button bounces; each control has its own objects.
KnobOrButton ==
  {[turning |-> {0}, pressing |-> {}], [turning |-> {}, pressing |-> {0}]}
=============================================================================
