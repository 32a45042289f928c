----------------------------- MODULE MCRcsConsole -----------------------------
(***************************************************************************)
(* Instances of RcsConsole for TLC.  The module has no unbounded state, so *)
(* an instance only chooses what the outside world may do.                 *)
(***************************************************************************)
EXTENDS RcsConsole
=============================================================================
