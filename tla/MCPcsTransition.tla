---------------------------- MODULE MCPcsTransition ----------------------------
(***************************************************************************)
(* Instances of PcsTransition for TLC: two terminals, of which one may     *)
(* watch or abort what the other one has started, and two transitions, so  *)
(* that one that nobody was told of can be there.                          *)
(***************************************************************************)
EXTENDS PcsTransition

CONSTANTS p1, p2, t1, t2, on, onn

MCCommands ==
  {[op |-> "start", operation |-> o, size |-> MaxTasks] : o \in {on, onn}}
    \cup {[op |-> o, of |-> t1] : o \in {"monitor", "abort"}}
=============================================================================
