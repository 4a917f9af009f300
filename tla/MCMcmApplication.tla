--------------------------- MODULE MCMcmApplication ---------------------------
(* Command sets of the runs of McmApplication. *)
EXTENDS McmApplication

Simple(type) == [type |-> type, index |-> 0]

ResetOf(control) == [type |-> "ResetControl", index |-> control]

\* Everything but RESET_ALL; control 1 is out of range in the one-control runs.
CommandsButResetAll ==
  {NopCommand, Simple("GetSnapshot"), Simple("Resync"), Simple("SetLed"),
   ResetOf(0), ResetOf(1)}

AllCommands == CommandsButResetAll \cup {Simple("ResetAll"), Simple("Corrupt")}

\* Those that change something, of ResetControl one.
EffectiveCommands ==
  {NopCommand} \cup [type : {"GetSnapshot", "ResetControl", "Resync"}, index : {0}]
=============================================================================
