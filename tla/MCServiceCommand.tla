--------------------------- MODULE MCServiceCommand ---------------------------
(***************************************************************************)
(* Instances of ServiceCommand for TLC: every command of the table, lists  *)
(* of up to two resources, and a stdin with answers, a payload or both.    *)
(***************************************************************************)
EXTENDS ServiceCommand

CONSTANTS a, b

MCCommands == AllCommands
MCEverything == {a, b}
MCLists == {<<>>, <<a>>, <<a, b>>}

MCInputs ==
  {<<>>, <<"y">>, <<"n">>, <<"noise", "y">>, <<"payload">>, <<"y", "payload">>,
   <<"payload", "y">>}
=============================================================================
