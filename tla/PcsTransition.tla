----------------------------- MODULE PcsTransition -----------------------------
(***************************************************************************)
(* `ochami pcs transition start`, `monitor` and `abort`, and the Power     *)
(* Control Service (PCS) they talk to.  A transition is a change of power  *)
(* of some components, one task for each; it goes on in PCS whether        *)
(* anybody looks or not.  `monitor` polls it until it is over.             *)
(*                                                                         *)
(* Every command is a process of its own.  PCS is external: it is modelled *)
(* by what the code expects of it, and nothing makes it go on.             *)
(***************************************************************************)
EXTENDS Naturals

CONSTANTS
  Procs,        \* terminals, each running one command after the other
  Transitions,  \* what PCS calls transitions
  Operations,   \* the first argument of `start`
  validOperations,
  Commands,     \* the commands that are run
  MaxTasks,     \* bound: components of a transition
  MaxRuns,      \* bound: commands run in all
  None          \* no transition

TaskStates == {"new", "in-progress", "failed", "succeeded", "un-supported"}
Statuses == {"new", "in-progress", "completed", "aborted", "abort-signaled"}
Counts == [TaskStates -> 0..MaxTasks]
Transition == [status : Statuses, tasks : Counts]

Command == [op : {"start"}, operation : Operations, size : 0..MaxTasks]
           \cup [op : {"monitor", "abort"}, of : Transitions]

ASSUME TransitionAssumption == None \notin Transitions
ASSUME OperationAssumption == validOperations \subseteq Operations
ASSUME BoundAssumption == MaxTasks \in Nat /\ MaxRuns \in Nat
ASSUME CommandAssumption == Commands \subseteq Command

VARIABLES
  pcs,      \* the transitions PCS has
  maker,    \* history: the command that made each of them, pcs's or forgotten
  started,  \* how many commands have been started
  number,   \* the number of the last one of each terminal
  cmd,      \* that command
  pc,       \* where that is
  answer,   \* what PCS has answered the last poll
  bars,     \* monitor: the progress bars
  output,   \* start: the transition it has printed
  exit      \* how it has ended: with status 0, another one or a signal

client == <<started, number, cmd, pc, answer, bars, output, exit>>
vars == <<pcs, maker, client>>

Known == DOMAIN pcs

(***************************************************************************)
(* A transition that is over stays as it is.                               *)
(***************************************************************************)
IsOver(t) == t.status \in {"completed", "aborted"}

\* What becomes of one that is to be aborted.
Aborting == {"aborted", "abort-signaled"}

NoTasks == [s \in TaskStates |-> 0]
NewTransition(n) == [status |-> "new", tasks |-> [NoTasks EXCEPT !["new"] = n]]

\* What an answer without a status, or none at all, is decoded to.
Blank == [status |-> "", tasks |-> NoTasks]

IsValidOperation(o) == o \in validOperations

Init ==
  /\ pcs = [t \in {} |-> NewTransition(0)]
  /\ maker = [t \in {} |-> 0]
  /\ started = 0
  /\ number = [p \in Procs |-> 0]
  /\ cmd \in {[p \in Procs |-> c] : c \in Commands}
  /\ pc = [p \in Procs |-> "idle"]
  /\ answer = [p \in Procs |-> Blank]
  /\ bars = [p \in Procs |-> NoTasks]
  /\ output = [p \in Procs |-> None]
  /\ exit = [p \in Procs |-> "none"]

Goto(p, l) == pc' = [pc EXCEPT ![p] = l]
Exit(p, status) == Goto(p, "idle") /\ exit' = [exit EXCEPT ![p] = status]
Fails(p) ==
  /\ Exit(p, "failed")
  /\ answer' = [answer EXCEPT ![p] = Blank]
  /\ bars' = [bars EXCEPT ![p] = NoTasks]
  /\ UNCHANGED <<started, number, cmd, output>>

-----------------------------------------------------------------------------
(* The commands *)

(***************************************************************************)
(* `start` looks at its operation before anything else; then every command *)
(* makes its client and looks at its token, which may fail.                *)
(***************************************************************************)
Begin(p, c) ==
  /\ pc[p] = "idle" /\ started < MaxRuns
  /\ started' = started + 1
  /\ number' = [number EXCEPT ![p] = started']
  /\ cmd' = [cmd EXCEPT ![p] = c]
  /\ \/ /\ c.op = "start" => IsValidOperation(c.operation)
        /\ Goto(p, "request") /\ exit' = [exit EXCEPT ![p] = "none"]
     \/ Exit(p, "failed")
  /\ bars' = [bars EXCEPT ![p] = NoTasks]
  /\ output' = [output EXCEPT ![p] = None]
  /\ UNCHANGED <<pcs, maker, answer>>

Running(p, op) == pc[p] = "request" /\ cmd[p].op = op

Created(p, t) ==
  /\ t \notin DOMAIN maker
  /\ pcs' = [u \in Known \cup {t} |-> IF u = t THEN NewTransition(cmd[p].size) ELSE pcs[u]]
  /\ maker' = [u \in DOMAIN maker \cup {t} |-> IF u = t THEN number[p] ELSE maker[u]]

(***************************************************************************)
(* CreateTransition is sent once.  When its answer is lost, cannot be read *)
(* or is without a name, the transition is there and nobody is told its    *)
(* name; in the last case `start` prints the empty name, and succeeds.     *)
(***************************************************************************)
CreateTransition(p, t) ==
  /\ Running(p, "start")
  /\ Created(p, t)
  /\ \/ /\ output' \in {[output EXCEPT ![p] = t], output}
        /\ Exit(p, "ok")
        /\ UNCHANGED <<started, number, cmd, answer, bars>>
     \/ Fails(p)

(***************************************************************************)
(* One poll: GetTransition, and the decoding of its answer, in which the   *)
(* status may be missing.                                                  *)
(***************************************************************************)
GetTransition(p) ==
  /\ Running(p, "monitor")
  /\ cmd[p].of \in Known
  /\ \E a \in {pcs[cmd[p].of], Blank} : answer' = [answer EXCEPT ![p] = a]
  /\ Goto(p, "answered")
  /\ UNCHANGED <<pcs, maker, started, number, cmd, bars, output, exit>>

Shown_Fault(p) ==   \* seeded fault: the bars are moved on by what they should show
  [s \in TaskStates |-> bars[p][s] + answer[p].tasks[s]]

(***************************************************************************)
(* There are bars for all tasks but the ones that are not supported.       *)
(***************************************************************************)
Shown(p) == [answer[p].tasks EXCEPT !["un-supported"] = 0]

EndsLoop_Fault(a) == a.status = "completed"   \* seeded fault
EndsLoop_Fault2(a) ==   \* seeded fault: the tasks are looked at, not the transition
  a.tasks["new"] = 0 /\ a.tasks["in-progress"] = 0
EndsLoop(a) == a.status \in {"completed", "aborted"}

Update(p) ==
  /\ pc[p] = "answered"
  /\ bars' = [bars EXCEPT ![p] = Shown(p)]
  /\ IF EndsLoop(answer[p]) THEN Exit(p, "ok")
     ELSE Goto(p, "sleep") /\ UNCHANGED exit
  /\ answer' = [answer EXCEPT ![p] = Blank]
  /\ UNCHANGED <<pcs, maker, started, number, cmd, output>>

Wake(p) ==
  /\ pc[p] = "sleep"
  /\ Goto(p, "request")
  /\ UNCHANGED <<pcs, maker, started, number, cmd, answer, bars, output, exit>>

(***************************************************************************)
(* PCS aborts a transition that has not begun, and signals one that has.   *)
(***************************************************************************)
DeleteTransition(p) ==
  /\ Running(p, "abort")
  /\ LET t == cmd[p].of
     IN  /\ t \in Known /\ ~IsOver(pcs[t])
         /\ \E s \in Aborting :
              /\ s = "aborted" => pcs[t].status = "new"
              /\ pcs' = [pcs EXCEPT ![t].status = s]
  /\ \/ Exit(p, "ok") /\ UNCHANGED <<started, number, cmd, answer, bars, output>>
     \/ Fails(p)
  /\ UNCHANGED maker

(***************************************************************************)
(* A request fails without effect, or its answer cannot be read: a command *)
(* gives up at the first failure, `monitor` at the first failed poll.      *)
(***************************************************************************)
RequestFails(p) ==
  /\ pc[p] = "request"
  /\ Fails(p)
  /\ UNCHANGED <<pcs, maker>>

Interrupt(p) ==
  /\ pc[p] # "idle"
  /\ Fails(p)
  /\ UNCHANGED <<pcs, maker>>

-----------------------------------------------------------------------------
(* PCS *)

Launch(t) ==
  /\ pcs[t].status = "new"
  /\ pcs' = [pcs EXCEPT ![t].status = "in-progress"]

(***************************************************************************)
(* One task goes on.                                                       *)
(***************************************************************************)
TaskMoves(t) ==
  /\ pcs[t].status \in {"in-progress", "abort-signaled"}
  /\ \E from \in {"new", "in-progress"}, to \in TaskStates \ {"new"} :
       /\ from # to /\ pcs[t].tasks[from] > 0
       /\ pcs' = [pcs EXCEPT ![t].tasks[from] = @ - 1, ![t].tasks[to] = @ + 1]

Complete(t) ==
  /\ pcs[t].status = "in-progress"
  /\ pcs[t].tasks["new"] = 0 /\ pcs[t].tasks["in-progress"] = 0
  /\ pcs' = [pcs EXCEPT ![t].status = "completed"]

Aborts(t) ==
  /\ pcs[t].status = "abort-signaled"
  /\ pcs' = [pcs EXCEPT ![t].status = "aborted"]

(***************************************************************************)
(* PCS does not keep transitions for ever.                                 *)
(***************************************************************************)
Expires(t) ==
  /\ IsOver(pcs[t])
  /\ pcs' = [u \in Known \ {t} |-> pcs[u]]

PcsStep ==
  /\ \E t \in Known : Launch(t) \/ TaskMoves(t) \/ Complete(t) \/ Aborts(t) \/ Expires(t)
  /\ UNCHANGED <<maker, client>>

-----------------------------------------------------------------------------
Requests(p) ==
  \/ \E t \in Transitions : CreateTransition(p, t)
  \/ GetTransition(p)
  \/ DeleteTransition(p)
  \/ RequestFails(p)

Continues(p) == Update(p) \/ Wake(p)

Ended ==
  /\ started = MaxRuns /\ \A p \in Procs : pc[p] = "idle"
  /\ UNCHANGED vars

Next ==
  \/ \E p \in Procs :
       \/ \E c \in Commands : Begin(p, c)
       \/ Requests(p)
       \/ Continues(p)
       \/ Interrupt(p)
  \/ PcsStep
  \/ Ended

(***************************************************************************)
(* A sleep ends, and an answer is used.  A request need not end, since the *)
(* client has no timeout, and nothing makes PCS go on.                     *)
(***************************************************************************)
Spec == Init /\ [][Next]_vars /\ \A p \in Procs : WF_vars(Continues(p))

-----------------------------------------------------------------------------
(* Properties *)

(***************************************************************************)
(* The variables keep their types; no bar shows more than there is.        *)
(***************************************************************************)
TypeOK ==
  /\ pcs \in [Known -> Transition]
  /\ maker \in [DOMAIN maker -> 1..MaxRuns]
  /\ Known \subseteq DOMAIN maker /\ DOMAIN maker \subseteq Transitions
  /\ started \in 0..MaxRuns /\ number \in [Procs -> 0..started]
  /\ cmd \in [Procs -> Commands]
  /\ pc \in [Procs -> {"idle", "request", "answered", "sleep"}]
  /\ answer \in [Procs -> Transition \cup {Blank}]
  /\ bars \in [Procs -> Counts]
  /\ output \in [Procs -> Transitions \cup {None}]
  /\ exit \in [Procs -> {"none", "ok", "failed"}]

(***************************************************************************)
(* The name a `start` has printed is that of the one transition it has     *)
(* made.  It may have made one that nobody knows of (with exit status 0    *)
(* only if PCS has left the name out), but never a second one, and none    *)
(* for an operation that does not exist.                                   *)
(***************************************************************************)
StartTellsTheTruth ==
  \A p \in Procs :
    /\ output[p] # None => exit[p] = "ok" /\ output[p] \in DOMAIN maker /\ maker[output[p]] = number[p]
    /\ cmd[p].op = "start" /\ exit[p] = "ok" => \E t \in DOMAIN maker : maker[t] = number[p]
    /\ \A t \in DOMAIN maker : maker[t] = number[p] =>
         /\ cmd[p].op = "start" /\ IsValidOperation(cmd[p].operation)
         /\ pc[p] = "idle" /\ output[p] \in {t, None}
         /\ \A u \in DOMAIN maker : maker[u] = maker[t] => u = t

(***************************************************************************)
(* A `monitor` with exit status 0 leaves when the transition is over, not  *)
(* before, with bars that show how its tasks have ended (also when another *)
(* terminal has aborted it meanwhile, or an answer was without a status).  *)
(***************************************************************************)
MonitorTellsTheTruth ==
  \A p \in Procs : cmd[p].op = "monitor" /\ exit[p] = "ok" =>
    LET t == cmd[p].of
    IN  /\ t \in DOMAIN maker
        /\ t \in Known => /\ IsOver(pcs[t])
                          /\ bars[p] = [pcs[t].tasks EXCEPT !["un-supported"] = 0]

(***************************************************************************)
(* An `abort` with exit status 0 was taken by PCS: the transition has been *)
(* or will be aborted, whatever it and other terminals do afterwards.      *)
(***************************************************************************)
AbortTellsTheTruth ==
  \A p \in Procs : cmd[p].op = "abort" /\ exit[p] = "ok" =>
    LET t == cmd[p].of
    IN  /\ t \in DOMAIN maker
        /\ t \in Known => pcs[t].status \in Aborting

(***************************************************************************)
(* What the commands say is true.                                          *)
(***************************************************************************)
ExitTellsTheTruth == StartTellsTheTruth /\ MonitorTellsTheTruth /\ AbortTellsTheTruth

Monitoring(p, t) == pc[p] # "idle" /\ cmd[p].op = "monitor" /\ cmd[p].of = t
Ceased(t) == t \in DOMAIN maker /\ (t \in Known => IsOver(pcs[t]))

\* No request of this terminal waits for ever, and in the end all answers
\* have a status.
PcsAnswers(p) ==
  /\ []<>(pc[p] # "request")
  /\ <>[](pc[p] = "answered" => answer[p] # Blank)

(***************************************************************************)
(* As long as PCS answers, nobody watches a transition that is over for    *)
(* ever, completed, aborted or forgotten by PCS: `monitor` ends, though it *)
(* sleeps between two polls and may hold an answer from before the end.    *)
(* That PCS answers is a premise, and no promise of the code.              *)
(***************************************************************************)
MonitorsEnd ==
  \A p \in Procs : PcsAnswers(p) =>
    \A t \in Transitions : Monitoring(p, t) /\ Ceased(t) ~> pc[p] = "idle"
=============================================================================
