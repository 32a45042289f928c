------------------------------- MODULE BootImage -------------------------------
(***************************************************************************)
(* `ochami bss boot image set`: the boot parameters of the named hosts are *)
(* read from BSS, root= of their kernel command line is set, and every     *)
(* entry is put back whole, one request each.  BSS keeps no versions, and  *)
(* other clients (the `bss boot params` commands among them) change the    *)
(* same entries meanwhile.                                                 *)
(*                                                                         *)
(* An entry of BSS has names (the xnames, MAC addresses and node IDs it is *)
(* for) and parameters: the image that root= says, and the rest, which is  *)
(* the other kernel arguments, the kernel and the initrd.                  *)
(***************************************************************************)
EXTENDS Naturals, FiniteSets

CONSTANTS
  Procs,      \* terminals, each running the command time and again
  Entries,    \* what BSS may have boot parameters for
  Names,
  NamesOf,    \* the names of each entry
  Images,
  Rests,
  Absent,     \* no such entry, or no image
  MaxRuns,    \* bound: commands run in one terminal
  MaxOthers   \* bound: changes other clients make

Params == [root : Images, rest : Rests]

ASSUME NamesAssumption == NamesOf \in [Entries -> SUBSET Names]
ASSUME AbsentAssumption == Absent \notin Params \cup Images
ASSUME BoundAssumption == MaxRuns \in Nat /\ MaxOthers \in Nat

VARIABLES
  bss,       \* the parameters of each entry
  pc,        \* where each command is
  names,     \* the names it was given
  image,     \* the image it was given
  bps,       \* the entries it has read
  todo,      \* the ones it has not put back yet
  errorsOccurred,
  exit,      \* how it has ended
  runs,      \* how many commands each terminal has run
  others,    \* how many changes other clients have made
  theirs,    \* history: each entry as they have last left it
  stale,     \* history: what they have changed since a command read or put it
  over,      \* history: what other commands have put since then
  raced,     \* history: what a command has put over such a change of theirs
  asked      \* history: what commands were asked to change

command == <<pc, names, image, bps, todo, errorsOccurred, exit, runs>>
history == <<others, theirs, stale, over, raced, asked>>
vars == <<bss, command, history>>

NoEntries == [e \in {} |-> Absent]

Init ==
  /\ bss \in [Entries -> Params \cup {Absent}]
  /\ pc = [p \in Procs |-> "idle"]
  /\ names = [p \in Procs |-> {}]
  /\ image = [p \in Procs |-> Absent]
  /\ bps = [p \in Procs |-> NoEntries]
  /\ todo = [p \in Procs |-> {}]
  /\ errorsOccurred = [p \in Procs |-> FALSE]
  /\ exit = [p \in Procs |-> "none"]
  /\ runs = [p \in Procs |-> 0]
  /\ others = 0
  /\ theirs = bss
  /\ stale = [p \in Procs |-> {}]
  /\ over = [p \in Procs |-> {}]
  /\ raced = {} /\ asked = {}

(***************************************************************************)
(* What BSS answers: every entry of a name that is asked for, and all it   *)
(* has when no name is.  (A flag may name nobody: `-x ""`.)                *)
(***************************************************************************)
Matches(ns, e) == ns = {} \/ NamesOf[e] \cap ns # {}

GetBootParams(ns) == {e \in Entries : Matches(ns, e) /\ bss[e] # Absent}

Goto(p, l) == pc' = [pc EXCEPT ![p] = l]
Exit(p, status) == Goto(p, "idle") /\ exit' = [exit EXCEPT ![p] = status]

(***************************************************************************)
(* The command ends with an error; what it has read is gone.               *)
(***************************************************************************)
Fails(p) ==
  /\ Exit(p, "error")
  /\ bps' = [bps EXCEPT ![p] = NoEntries]
  /\ todo' = [todo EXCEPT ![p] = {}]
  /\ errorsOccurred' = [errorsOccurred EXCEPT ![p] = FALSE]
  /\ UNCHANGED <<bss, names, image, runs, history>>

Begin(p, ns, i) ==
  /\ pc[p] = "idle" /\ runs[p] < MaxRuns
  /\ runs' = [runs EXCEPT ![p] = @ + 1]
  /\ names' = [names EXCEPT ![p] = ns]
  /\ image' = [image EXCEPT ![p] = i]
  /\ bps' = [bps EXCEPT ![p] = NoEntries]
  /\ todo' = [todo EXCEPT ![p] = {}]
  /\ errorsOccurred' = [errorsOccurred EXCEPT ![p] = FALSE]
  /\ exit' = [exit EXCEPT ![p] = "none"]
  /\ Goto(p, "get")
  /\ asked' = asked \cup {e \in Entries : Matches(ns, e)}
  /\ UNCHANGED <<bss, others, theirs, stale, over, raced>>

Get_Fault(p) ==   \* seeded fault: an entry for every name, whether BSS has it or not
  /\ pc[p] = "get"
  /\ LET es == {e \in Entries : Matches(names[p], e)}
     IN  /\ bps' = [bps EXCEPT ![p] = [e \in es |-> bss[e]]]
         /\ todo' = [todo EXCEPT ![p] = es]
  /\ stale' = [stale EXCEPT ![p] = {}]
  /\ over' = [over EXCEPT ![p] = {}]
  /\ Goto(p, "put")
  /\ UNCHANGED <<bss, names, image, errorsOccurred, exit, runs, others, theirs, raced, asked>>

(***************************************************************************)
(* The parameters are read; without any there is nothing to do, which is   *)
(* an error.                                                               *)
(***************************************************************************)
Get(p) ==
  /\ pc[p] = "get"
  /\ GetBootParams(names[p]) # {}
  /\ bps' = [bps EXCEPT ![p] = [e \in GetBootParams(names[p]) |-> bss[e]]]
  /\ todo' = [todo EXCEPT ![p] = GetBootParams(names[p])]
  /\ stale' = [stale EXCEPT ![p] = {}]
  /\ over' = [over EXCEPT ![p] = {}]
  /\ Goto(p, "put")
  /\ UNCHANGED <<bss, names, image, errorsOccurred, exit, runs, others, theirs, raced, asked>>

GetFails(p) ==
  /\ pc[p] = "get"
  /\ Fails(p)

SetKarg_Fault(params, i) ==   \* seeded fault: a command line of root= alone
  [root |-> i, rest |-> CHOOSE r \in Rests : TRUE]

SetKarg(params, i) == [params EXCEPT !.root = i]

(***************************************************************************)
(* PutBootParams of one entry, as it was read but for root=: it is made    *)
(* anew when it has been deleted in between.                               *)
(***************************************************************************)
PutBootParams(p, e) ==
  /\ bss' = [bss EXCEPT ![e] = SetKarg(bps[p][e], image[p])]
  /\ raced' = IF e \in stale[p] THEN raced \cup {e} ELSE raced
  /\ stale' = [stale EXCEPT ![p] = @ \ {e}]
  /\ over' = [q \in Procs |-> IF q = p THEN over[p] \ {e} ELSE over[q] \cup {e}]

Put_Fault(p, e) ==   \* seeded fault: the error of the last request decides
  /\ pc[p] = "put" /\ e \in todo[p]
  /\ todo' = [todo EXCEPT ![p] = @ \ {e}]
  /\ \/ /\ PutBootParams(p, e)
        /\ errorsOccurred' = [errorsOccurred EXCEPT ![p] = FALSE]
     \/ /\ PutBootParams(p, e) \/ UNCHANGED <<bss, raced, stale, over>>
        /\ errorsOccurred' = [errorsOccurred EXCEPT ![p] = TRUE]
  /\ UNCHANGED <<pc, names, image, bps, exit, runs, others, theirs, asked>>

(***************************************************************************)
(* The request fails with or without effect: the error is noted and the    *)
(* loop goes on.                                                           *)
(***************************************************************************)
Put(p, e) ==
  /\ pc[p] = "put" /\ e \in todo[p]
  /\ todo' = [todo EXCEPT ![p] = @ \ {e}]
  /\ \/ PutBootParams(p, e) /\ UNCHANGED errorsOccurred
     \/ /\ PutBootParams(p, e) \/ UNCHANGED <<bss, raced, stale, over>>
        /\ errorsOccurred' = [errorsOccurred EXCEPT ![p] = TRUE]
  /\ UNCHANGED <<pc, names, image, bps, exit, runs, others, theirs, asked>>

Finish(p) ==
  /\ pc[p] = "put" /\ todo[p] = {}
  /\ IF errorsOccurred[p] THEN Fails(p)
     ELSE /\ Exit(p, "ok")
          /\ UNCHANGED <<bss, names, image, bps, todo, errorsOccurred, runs, history>>

Interrupt(p) ==
  /\ pc[p] # "idle"
  /\ Fails(p)

(***************************************************************************)
(* Another client makes, changes or deletes an entry.                      *)
(***************************************************************************)
OtherClient(e, new) ==
  /\ others < MaxOthers
  /\ others' = others + 1
  /\ bss[e] # new
  /\ bss' = [bss EXCEPT ![e] = new]
  /\ theirs' = [theirs EXCEPT ![e] = new]
  /\ stale' = [p \in Procs |-> stale[p] \cup {e}]
  /\ raced' = raced \ {e}
  /\ UNCHANGED <<command, over, asked>>

Ended ==
  /\ \A p \in Procs : pc[p] = "idle" /\ runs[p] = MaxRuns
  /\ others = MaxOthers
  /\ UNCHANGED vars

Next ==
  \/ \E p \in Procs :
       \/ \E ns \in SUBSET Names, i \in Images : Begin(p, ns, i)
       \/ Get(p) \/ GetFails(p)
       \/ \E e \in Entries : Put(p, e)
       \/ Finish(p) \/ Interrupt(p)
  \/ \E e \in Entries, new \in Params \cup {Absent} : OtherClient(e, new)
  \/ Ended

Spec == Init /\ [][Next]_vars

-----------------------------------------------------------------------------
(* Properties *)

(***************************************************************************)
(* The variables keep their types, and what is to be put back has been     *)
(* read.                                                                   *)
(***************************************************************************)
TypeOK ==
  /\ bss \in [Entries -> Params \cup {Absent}]
  /\ pc \in [Procs -> {"idle", "get", "put"}]
  /\ names \in [Procs -> SUBSET Names]
  /\ image \in [Procs -> Images \cup {Absent}]
  /\ \A p \in Procs :
       /\ bps[p] \in [DOMAIN bps[p] -> Params]
       /\ todo[p] \subseteq DOMAIN bps[p] /\ DOMAIN bps[p] \subseteq Entries
  /\ DOMAIN bps = Procs /\ todo \in [Procs -> SUBSET Entries]
  /\ errorsOccurred \in [Procs -> BOOLEAN]
  /\ exit \in [Procs -> {"none", "ok", "error"}]
  /\ runs \in [Procs -> 0..MaxRuns]
  /\ others \in 0..MaxOthers
  /\ theirs \in [Entries -> Params \cup {Absent}]
  /\ stale \in [Procs -> SUBSET Entries] /\ over \in [Procs -> SUBSET Entries]
  /\ raced \subseteq Entries /\ asked \subseteq Entries

(***************************************************************************)
(* Exit status 0 says that there was something to set, and that every      *)
(* entry that was read boots the image, with the other parameters it had,  *)
(* unless somebody has changed it since it was put back: one request that  *)
(* fails among many is enough for another status.                          *)
(***************************************************************************)
SuccessMeansSet ==
  \A p \in Procs : exit[p] = "ok" =>
    /\ DOMAIN bps[p] # {}
    /\ \A e \in DOMAIN bps[p] \ (stale[p] \cup over[p]) :
         bss[e] = SetKarg(bps[p][e], image[p])

Kept(e) ==
  IF theirs[e] = Absent THEN bss[e] = Absent
  ELSE bss[e] # Absent /\ bss[e].rest = theirs[e].rest

(***************************************************************************)
(* The command changes root= of what it was asked to change and nothing    *)
(* else, from however many terminals it runs at a time, and wherever it    *)
(* fails or is killed.  Only an entry that another client has changed      *)
(* between the reading and the putting back loses that change: it gets its *)
(* old parameters back, or is there again after it was deleted.            *)
(***************************************************************************)
OnlyImagesChange ==
  /\ \A e \in Entries \ asked : bss[e] = theirs[e]
  /\ \A e \in Entries \ raced : Kept(e)
=============================================================================
