-------------------------- MODULE PcsTransitionProofs --------------------------
(***************************************************************************)
(* Proofs about PcsTransition, for any number of terminals, transitions,   *)
(* tasks and commands.                                                     *)
(***************************************************************************)
EXTENDS PcsTransition, TLAPS

-----------------------------------------------------------------------------
(* Tasks *)

Total(c) ==
  c["new"] + c["in-progress"] + c["failed"] + c["succeeded"] + c["un-supported"]

(***************************************************************************)
(* A transition has as many tasks as components, in whatever states.       *)
(***************************************************************************)
TasksInv == \A t \in Known : Total(pcs[t].tasks) <= MaxTasks

LEMMA NewTyped ==
  ASSUME NEW n \in 0..MaxTasks
  PROVE  NewTransition(n) \in Transition /\ Total(NewTransition(n).tasks) <= MaxTasks
BY BoundAssumption DEF NewTransition, NoTasks, Transition, Counts, Statuses, TaskStates, Total

(***************************************************************************)
(* An answer without a status does not end a loop.                         *)
(***************************************************************************)
LEMMA BlankTyped ==
  /\ NoTasks \in Counts /\ Blank.tasks = NoTasks
  /\ ~IsOver(Blank) /\ ~EndsLoop(Blank)
BY BoundAssumption DEF Blank, NoTasks, Counts, IsOver, EndsLoop

LEMMA MovedTyped ==
  ASSUME NEW c \in Counts, Total(c) <= MaxTasks,
         NEW from \in {"new", "in-progress"}, NEW to \in TaskStates \ {"new"},
         from # to, c[from] > 0
  PROVE  LET d == [c EXCEPT ![from] = @ - 1, ![to] = @ + 1]
         IN  d \in Counts /\ Total(d) <= MaxTasks
<1> USE BoundAssumption DEF Counts, TaskStates, Total
<1> DEFINE d == [c EXCEPT ![from] = @ - 1, ![to] = @ + 1]
<1>1. \A s \in TaskStates : c[s] \in Nat
  OBVIOUS
<1>2. d = [s \in TaskStates |-> IF s = to THEN c[to] + 1 ELSE IF s = from THEN c[from] - 1 ELSE c[s]]
  OBVIOUS
<1>3. \A s \in TaskStates : d[s] \in Nat
  BY <1>1, <1>2
<1>4. Total(d) = Total(c)
  BY <1>1, <1>2
<1>5. \A s \in TaskStates : d[s] <= MaxTasks
  BY <1>3, <1>4
<1> QED BY <1>2, <1>3, <1>4, <1>5

-----------------------------------------------------------------------------
(* The inductive invariant *)

(***************************************************************************)
(* A command that runs has a number of its own, an operation that exists   *)
(* if it is `start`, and has not ended; only `monitor` polls.              *)
(***************************************************************************)
RunningInv ==
  /\ \A p \in Procs :
       /\ pc[p] # "idle" =>
            /\ number[p] # 0 /\ exit[p] = "none"
            /\ cmd[p].op = "start" => IsValidOperation(cmd[p].operation)
       /\ pc[p] \in {"answered", "sleep"} => cmd[p].op = "monitor"
       /\ output[p] # None => output[p] \in DOMAIN maker
  /\ \A p, q \in Procs : number[p] = number[q] /\ number[p] # 0 => p = q
  /\ \A t \in DOMAIN maker : maker[t] <= started

(***************************************************************************)
(* An answer that says that a transition is over stays true.               *)
(***************************************************************************)
AnswerInv ==
  \A p \in Procs : pc[p] = "answered" =>
    LET t == cmd[p].of
    IN  /\ t \in DOMAIN maker
        /\ IsOver(answer[p]) /\ t \in Known => pcs[t] = answer[p]

IInv == TypeOK /\ TasksInv /\ RunningInv /\ AnswerInv /\ ExitTellsTheTruth

LEMMA InitHolds == Init => IInv
<1> SUFFICES ASSUME Init PROVE IInv
  OBVIOUS
<1>1. NoTasks \in Counts
  BY BlankTyped
<1>2. TypeOK
  BY <1>1, BoundAssumption DEF Init, TypeOK, Known
<1>3. TasksInv /\ RunningInv /\ AnswerInv
  BY DEF Init, TasksInv, RunningInv, AnswerInv, Known
<1>4. ExitTellsTheTruth
  BY DEF Init, ExitTellsTheTruth, StartTellsTheTruth, MonitorTellsTheTruth, AbortTellsTheTruth
<1> QED BY <1>2, <1>3, <1>4 DEF IInv

-----------------------------------------------------------------------------
(* Steps of the commands *)

LEMMA BeginHolds ==
  ASSUME IInv, NEW p \in Procs, NEW c \in Commands, Begin(p, c)
  PROVE  IInv'
<1> USE DEF IInv, Begin, Goto, Exit
<1>0. /\ started \in Nat /\ started' = started + 1 /\ started' <= MaxRuns
      /\ number'[p] = started + 1 /\ \A q \in Procs \ {p} : number'[q] = number[q]
      /\ \A q \in Procs : number[q] \in 0..started
      /\ \A t \in DOMAIN maker : maker[t] \in Nat /\ maker[t] <= started
  BY BoundAssumption DEF TypeOK, RunningInv
<1>1. TypeOK'
  <2>1. started' \in 0..MaxRuns /\ number' \in [Procs -> 0..started']
    BY <1>0, BoundAssumption DEF TypeOK
  <2>2. bars' \in [Procs -> Counts]
    BY BoundAssumption DEF TypeOK, NoTasks, Counts
  <2>3. pc' \in [Procs -> {"idle", "request", "answered", "sleep"}]
    BY DEF TypeOK
  <2>4. exit' \in [Procs -> {"none", "ok", "failed"}]
    BY DEF TypeOK
  <2>5. cmd' \in [Procs -> Commands] /\ output' \in [Procs -> Transitions \cup {None}]
    BY DEF TypeOK
  <2> QED BY <2>1, <2>2, <2>3, <2>4, <2>5 DEF TypeOK, Known
<1>2. TasksInv'
  BY DEF TasksInv, Known
<1>3. RunningInv'
  BY <1>0 DEF TypeOK, RunningInv, IsValidOperation
<1>4. AnswerInv'
  BY DEF TypeOK, AnswerInv, Known, IsOver
<1>5. StartTellsTheTruth'
  BY <1>0 DEF TypeOK, ExitTellsTheTruth, StartTellsTheTruth, IsValidOperation
<1>6. MonitorTellsTheTruth'
  BY DEF TypeOK, ExitTellsTheTruth, MonitorTellsTheTruth, Known, IsOver
<1>7. AbortTellsTheTruth'
  BY DEF TypeOK, ExitTellsTheTruth, AbortTellsTheTruth, Known
<1> QED BY <1>1, <1>2, <1>3, <1>4, <1>5, <1>6, <1>7 DEF ExitTellsTheTruth

(***************************************************************************)
(* A command that fails leaves an invariant state, whatever PCS has done   *)
(* of what it asked for, if the rest of the step does.                     *)
(***************************************************************************)
LEMMA FailsHolds ==
  ASSUME IInv, NEW p \in Procs, pc[p] # "idle", Fails(p), UNCHANGED <<pcs, maker>>
  PROVE  IInv'
<1> USE DEF IInv, Fails, Goto, Exit
<1>0. NoTasks \in Counts
  BY BlankTyped
<1>1. TypeOK'
  BY <1>0 DEF TypeOK, Known
<1>2. TasksInv'
  BY DEF TasksInv, Known
<1>3. RunningInv'
  BY DEF TypeOK, RunningInv, IsValidOperation
<1>4. AnswerInv'
  BY DEF TypeOK, AnswerInv, Known, IsOver
<1>5. StartTellsTheTruth'
  BY DEF TypeOK, RunningInv, ExitTellsTheTruth, StartTellsTheTruth, IsValidOperation
<1>6. MonitorTellsTheTruth'
  BY DEF TypeOK, ExitTellsTheTruth, MonitorTellsTheTruth, Known, IsOver
<1>7. AbortTellsTheTruth'
  BY DEF TypeOK, ExitTellsTheTruth, AbortTellsTheTruth, Known
<1> QED BY <1>1, <1>2, <1>3, <1>4, <1>5, <1>6, <1>7 DEF ExitTellsTheTruth

LEMMA CreateHolds ==
  ASSUME IInv, NEW p \in Procs, NEW t \in Transitions, CreateTransition(p, t)
  PROVE  IInv'
<1> USE DEF IInv, Goto, Exit, Running
<1>0. /\ pc[p] = "request" /\ cmd[p].op = "start" /\ Created(p, t)
      /\ started' = started /\ number' = number /\ cmd' = cmd
      /\ pc' = [pc EXCEPT ![p] = "idle"]
      /\ \/ exit' = [exit EXCEPT ![p] = "ok"] /\ output' = [output EXCEPT ![p] = t]
         \/ exit' = [exit EXCEPT ![p] = "ok"] /\ output' = output
         \/ exit' = [exit EXCEPT ![p] = "failed"] /\ output' = output
  BY DEF CreateTransition, Fails
<1>1. /\ answer' \in [Procs -> Transition \cup {Blank}] /\ bars' \in [Procs -> Counts]
      /\ \A q \in Procs \ {p} : answer'[q] = answer[q] /\ bars'[q] = bars[q]
  <2>1. NoTasks \in Counts
    BY BlankTyped
  <2> QED BY <2>1 DEF CreateTransition, Fails, TypeOK
<1>2. cmd[p].size \in 0..MaxTasks
  BY <1>0, CommandAssumption DEF TypeOK, Command
<1>3. NewTransition(cmd[p].size) \in Transition /\ Total(NewTransition(cmd[p].size).tasks) <= MaxTasks
  BY <1>2, NewTyped
<1>4. /\ t \notin DOMAIN maker /\ DOMAIN maker' = DOMAIN maker \cup {t}
      /\ DOMAIN pcs' = Known \cup {t} /\ pcs'[t] = NewTransition(cmd[p].size)
      /\ \A u \in Known : u # t /\ pcs'[u] = pcs[u]
      /\ maker'[t] = number[p] /\ \A u \in DOMAIN maker : maker'[u] = maker[u]
      /\ maker' \in [DOMAIN maker' -> 1..MaxRuns]
      /\ pcs' \in [DOMAIN pcs' -> Transition]
  <2>1. t \notin DOMAIN maker /\ t \notin Known
    BY <1>0 DEF Created, TypeOK
  <2>2. number[p] \in 1..MaxRuns
    BY <1>0, BoundAssumption DEF TypeOK, RunningInv
  <2> QED BY <1>0, <1>3, <2>1, <2>2 DEF Created, TypeOK, Known
<1>5. output[p] = None /\ exit[p] = "none" /\ number[p] # 0 /\ IsValidOperation(cmd[p].operation)
  BY <1>0 DEF RunningInv, ExitTellsTheTruth, StartTellsTheTruth
<1>6. number[p] \in 1..started /\ \A u \in DOMAIN maker : maker[u] # number[p]
  BY <1>0, <1>5, BoundAssumption DEF TypeOK, ExitTellsTheTruth, StartTellsTheTruth
<1>7. TypeOK'
  BY <1>0, <1>1, <1>4 DEF TypeOK, Known
<1>8. TasksInv'
  BY <1>3, <1>4 DEF TasksInv, Known
<1>9. RunningInv'
  BY <1>0, <1>4, <1>6, BoundAssumption DEF TypeOK, RunningInv, IsValidOperation
<1>10. AnswerInv'
  BY <1>0, <1>1, <1>4 DEF TypeOK, AnswerInv, Known, IsOver
<1>11. StartTellsTheTruth'
  <2>1. ASSUME NEW q \in Procs, q # p
        PROVE  /\ pc'[q] = pc[q] /\ exit'[q] = exit[q] /\ output'[q] = output[q]
               /\ maker'[t] # number[q]
    BY <1>0, <1>4, <1>5, <2>1 DEF TypeOK, RunningInv
  <2>2. /\ pc'[p] = "idle"
        /\ \/ exit'[p] = "ok" /\ output'[p] = t
           \/ exit'[p] \in {"ok", "failed"} /\ output'[p] = None
    <3>1. pc'[p] = "idle" /\ DOMAIN exit = Procs /\ DOMAIN output = Procs
      BY <1>0 DEF TypeOK
    <3>2. CASE exit' = [exit EXCEPT ![p] = "ok"] /\ output' = [output EXCEPT ![p] = t]
      BY <3>1, <3>2, Zenon
    <3>3. CASE exit' = [exit EXCEPT ![p] = "failed"] /\ output' = output
      BY <3>1, <3>3, <1>5, Zenon
    <3>4. CASE exit' = [exit EXCEPT ![p] = "ok"] /\ output' = output
      BY <3>1, <3>4, <1>5, Zenon
    <3> QED BY <1>0, <3>2, <3>3, <3>4
  <2>3. ASSUME NEW q \in Procs
        PROVE  /\ output'[q] # None => /\ exit'[q] = "ok" /\ output'[q] \in DOMAIN maker'
                                       /\ maker'[output'[q]] = number[q]
               /\ cmd[q].op = "start" /\ exit'[q] = "ok" => \E u \in DOMAIN maker' : maker'[u] = number[q]
               /\ \A u \in DOMAIN maker' : maker'[u] = number[q] =>
                    /\ cmd[q].op = "start" /\ IsValidOperation(cmd[q].operation)
                    /\ pc'[q] = "idle" /\ output'[q] \in {u, None}
                    /\ \A v \in DOMAIN maker' : maker'[v] = maker'[u] => u = v
    <3>1. CASE q = p
      BY <3>1, <2>2, <1>0, <1>4, <1>5, <1>6
    <3>2. CASE q # p
      BY <3>2, <2>1, <1>4 DEF ExitTellsTheTruth, StartTellsTheTruth, RunningInv
    <3> QED BY <3>1, <3>2
  <2> QED BY <2>3, <1>0 DEF StartTellsTheTruth, IsValidOperation
<1>12. MonitorTellsTheTruth'
  <2> SUFFICES ASSUME NEW q \in Procs, cmd[q].op = "monitor", exit'[q] = "ok"
               PROVE  /\ cmd[q].of \in DOMAIN maker'
                      /\ cmd[q].of \in DOMAIN pcs' =>
                           /\ IsOver(pcs'[cmd[q].of])
                           /\ bars'[q] = [pcs'[cmd[q].of].tasks EXCEPT !["un-supported"] = 0]
    BY <1>0 DEF MonitorTellsTheTruth, Known, IsOver
  <2>1. q # p
    BY <1>0
  <2>2. exit[q] = "ok" /\ bars'[q] = bars[q]
    BY <2>1, <1>0, <1>1 DEF TypeOK
  <2>3. /\ cmd[q].of \in DOMAIN maker
        /\ cmd[q].of \in Known => /\ IsOver(pcs[cmd[q].of])
                                  /\ bars[q] = [pcs[cmd[q].of].tasks EXCEPT !["un-supported"] = 0]
    BY <2>2 DEF ExitTellsTheTruth, MonitorTellsTheTruth
  <2>4. cmd[q].of # t
    BY <2>3, <1>4
  <2> QED BY <2>2, <2>3, <2>4, <1>4
<1>13. AbortTellsTheTruth'
  <2> SUFFICES ASSUME NEW q \in Procs, cmd[q].op = "abort", exit'[q] = "ok"
               PROVE  /\ cmd[q].of \in DOMAIN maker'
                      /\ cmd[q].of \in DOMAIN pcs' => pcs'[cmd[q].of].status \in Aborting
    BY <1>0 DEF AbortTellsTheTruth, Known
  <2>1. q # p
    BY <1>0
  <2>2. exit[q] = "ok"
    BY <2>1, <1>0 DEF TypeOK
  <2>3. cmd[q].of \in DOMAIN maker /\ (cmd[q].of \in Known => pcs[cmd[q].of].status \in Aborting)
    BY <2>2 DEF ExitTellsTheTruth, AbortTellsTheTruth
  <2>4. cmd[q].of # t
    BY <2>3, <1>4
  <2> QED BY <2>3, <2>4, <1>4
<1> QED BY <1>7, <1>8, <1>9, <1>10, <1>11, <1>12, <1>13 DEF ExitTellsTheTruth

LEMMA GetHolds ==
  ASSUME IInv, NEW p \in Procs, GetTransition(p)
  PROVE  IInv'
<1> USE DEF IInv, GetTransition, Running, Goto
<1>1. TypeOK'
  BY DEF TypeOK, Known
<1>2. TasksInv'
  BY DEF TasksInv, Known
<1>3. RunningInv'
  BY DEF TypeOK, RunningInv, IsValidOperation
<1>4. AnswerInv'
  <2>1. PICK a \in {pcs[cmd[p].of], Blank} : answer' = [answer EXCEPT ![p] = a]
    OBVIOUS
  <2>2. cmd[p].of \in DOMAIN maker /\ (IsOver(a) => a = pcs[cmd[p].of])
    BY BlankTyped DEF TypeOK
  <2>3. answer'[p] = a /\ \A q \in Procs \ {p} : answer'[q] = answer[q] /\ pc'[q] = pc[q]
    BY <2>1 DEF TypeOK
  <2> QED BY <2>2, <2>3 DEF AnswerInv, Known, IsOver
<1>5. StartTellsTheTruth'
  BY DEF TypeOK, RunningInv, ExitTellsTheTruth, StartTellsTheTruth, IsValidOperation
<1>6. MonitorTellsTheTruth'
  BY DEF TypeOK, ExitTellsTheTruth, MonitorTellsTheTruth, Known, IsOver
<1>7. AbortTellsTheTruth'
  BY DEF TypeOK, ExitTellsTheTruth, AbortTellsTheTruth, Known
<1> QED BY <1>1, <1>2, <1>3, <1>4, <1>5, <1>6, <1>7 DEF ExitTellsTheTruth

LEMMA UpdateHolds ==
  ASSUME IInv, NEW p \in Procs, Update(p)
  PROVE  IInv'
<1> USE DEF IInv, Update, Goto, Exit
<1>0. Shown(p) \in Counts
  <2>1. 0 \in 0..MaxTasks
    BY BoundAssumption
  <2>2. answer[p].tasks \in [TaskStates -> 0..MaxTasks]
    BY BlankTyped DEF TypeOK, Transition, Counts
  <2>3. [answer[p].tasks EXCEPT !["un-supported"] = 0] \in [TaskStates -> 0..MaxTasks]
    BY <2>1, <2>2
  <2> QED BY <2>3 DEF Shown, Counts
<1>1. TypeOK'
  BY <1>0 DEF TypeOK, Known
<1>2. TasksInv'
  BY DEF TasksInv, Known
<1>3. RunningInv'
  BY DEF TypeOK, RunningInv, IsValidOperation
<1>4. AnswerInv'
  BY DEF TypeOK, AnswerInv, Known, IsOver
<1>5. StartTellsTheTruth'
  BY DEF TypeOK, RunningInv, ExitTellsTheTruth, StartTellsTheTruth, IsValidOperation
<1>6. MonitorTellsTheTruth'
  <2> SUFFICES ASSUME NEW q \in Procs, cmd[q].op = "monitor", exit'[q] = "ok"
               PROVE  /\ cmd[q].of \in DOMAIN maker
                      /\ cmd[q].of \in Known =>
                           /\ IsOver(pcs[cmd[q].of])
                           /\ bars'[q] = [pcs[cmd[q].of].tasks EXCEPT !["un-supported"] = 0]
    BY DEF MonitorTellsTheTruth, Known, IsOver
  <2>1. CASE q = p
    <3>1. EndsLoop(answer[p])
      BY <2>1 DEF RunningInv
    <3>2. IsOver(answer[p])
      BY <3>1 DEF EndsLoop, IsOver
    <3>3. bars'[p] = [answer[p].tasks EXCEPT !["un-supported"] = 0]
      BY DEF TypeOK, Shown
    <3> QED BY <2>1, <3>2, <3>3 DEF AnswerInv
  <2>2. CASE q # p
    <3>1. exit[q] = "ok" /\ bars'[q] = bars[q]
      BY <2>2 DEF TypeOK
    <3> QED BY <3>1 DEF ExitTellsTheTruth, MonitorTellsTheTruth
  <2> QED BY <2>1, <2>2
<1>7. AbortTellsTheTruth'
  BY DEF TypeOK, RunningInv, ExitTellsTheTruth, AbortTellsTheTruth, Known
<1> QED BY <1>1, <1>2, <1>3, <1>4, <1>5, <1>6, <1>7 DEF ExitTellsTheTruth

LEMMA WakeHolds ==
  ASSUME IInv, NEW p \in Procs, Wake(p)
  PROVE  IInv'
<1> USE DEF IInv, Wake, Goto
<1>1. TypeOK' /\ TasksInv'
  BY DEF TypeOK, TasksInv, Known
<1>2. RunningInv' /\ AnswerInv'
  BY DEF TypeOK, RunningInv, AnswerInv, Known, IsOver, IsValidOperation
<1>3. StartTellsTheTruth' /\ MonitorTellsTheTruth' /\ AbortTellsTheTruth'
  BY DEF TypeOK, RunningInv, ExitTellsTheTruth, StartTellsTheTruth, MonitorTellsTheTruth,
         AbortTellsTheTruth, Known, IsOver, IsValidOperation
<1> QED BY <1>1, <1>2, <1>3 DEF ExitTellsTheTruth

-----------------------------------------------------------------------------
(* Steps of PCS *)

(***************************************************************************)
(* What is over stays or is forgotten: then no answer and no exit status   *)
(* becomes untrue.                                                         *)
(***************************************************************************)
LEMMA PcsHolds ==
  ASSUME IInv, UNCHANGED <<maker, client>>,
         Known' \subseteq Known,
         \A t \in Known' : /\ pcs'[t] \in Transition /\ Total(pcs'[t].tasks) <= MaxTasks
                           /\ IsOver(pcs[t]) => pcs'[t] = pcs[t]
                           /\ pcs[t].status \in Aborting => pcs'[t].status \in Aborting,
         pcs' = [t \in DOMAIN pcs' |-> pcs'[t]]
  PROVE  IInv'
<1> USE DEF IInv, client
<1>1. TypeOK' /\ TasksInv'
  BY DEF TypeOK, TasksInv, Known
<1>2. RunningInv'
  BY DEF RunningInv, IsValidOperation
<1>3. AnswerInv'
  BY DEF AnswerInv, Known, IsOver
<1>4. StartTellsTheTruth'
  BY DEF ExitTellsTheTruth, StartTellsTheTruth, IsValidOperation
<1>5. MonitorTellsTheTruth'
  <2> SUFFICES ASSUME NEW q \in Procs, cmd[q].op = "monitor", exit[q] = "ok"
               PROVE  /\ cmd[q].of \in DOMAIN maker
                      /\ cmd[q].of \in DOMAIN pcs' =>
                           /\ IsOver(pcs'[cmd[q].of])
                           /\ bars[q] = [pcs'[cmd[q].of].tasks EXCEPT !["un-supported"] = 0]
    BY DEF MonitorTellsTheTruth, Known, IsOver
  <2>1. /\ cmd[q].of \in DOMAIN maker
        /\ cmd[q].of \in Known => /\ IsOver(pcs[cmd[q].of])
                                  /\ bars[q] = [pcs[cmd[q].of].tasks EXCEPT !["un-supported"] = 0]
    BY DEF ExitTellsTheTruth, MonitorTellsTheTruth
  <2>2. cmd[q].of \in DOMAIN pcs' => cmd[q].of \in Known /\ cmd[q].of \in Known'
    BY DEF Known
  <2> QED BY <2>1, <2>2
<1>6. AbortTellsTheTruth'
  <2> SUFFICES ASSUME NEW q \in Procs, cmd[q].op = "abort", exit[q] = "ok"
               PROVE  /\ cmd[q].of \in DOMAIN maker
                      /\ cmd[q].of \in DOMAIN pcs' => pcs'[cmd[q].of].status \in Aborting
    BY DEF AbortTellsTheTruth, Known
  <2>1. cmd[q].of \in DOMAIN maker /\ (cmd[q].of \in Known => pcs[cmd[q].of].status \in Aborting)
    BY DEF ExitTellsTheTruth, AbortTellsTheTruth
  <2>2. cmd[q].of \in DOMAIN pcs' => cmd[q].of \in Known /\ cmd[q].of \in Known'
    BY DEF Known
  <2> QED BY <2>1, <2>2
<1> QED BY <1>1, <1>2, <1>3, <1>4, <1>5, <1>6 DEF ExitTellsTheTruth

(***************************************************************************)
(* A transition that is not over gets another status; one that is to be    *)
(* aborted stays so.                                                       *)
(***************************************************************************)
LEMMA StatusMapped ==
  ASSUME IInv, NEW t \in Known, ~IsOver(pcs[t]), NEW s \in Statuses,
         pcs[t].status \in Aborting => s \in Aborting,
         pcs' = [pcs EXCEPT ![t].status = s]
  PROVE  /\ Known' = Known
         /\ pcs' = [u \in DOMAIN pcs' |-> pcs'[u]]
         /\ \A u \in Known : /\ pcs'[u] \in Transition /\ Total(pcs'[u].tasks) <= MaxTasks
                             /\ IsOver(pcs[u]) => pcs'[u] = pcs[u]
                             /\ pcs[u].status \in Aborting => pcs'[u].status \in Aborting
<1>1. pcs \in [Known -> Transition] /\ Known' = Known
  BY DEF IInv, TypeOK, Known
<1>2. \A u \in Known \ {t} : pcs'[u] = pcs[u]
  BY <1>1
<1>3. pcs'[t] \in Transition /\ pcs'[t].tasks = pcs[t].tasks /\ pcs'[t].status = s
  BY <1>1 DEF Transition
<1> QED BY <1>1, <1>2, <1>3 DEF IInv, TasksInv

LEMMA PcsStepHolds == IInv /\ PcsStep => IInv'
<1> SUFFICES ASSUME IInv, PcsStep PROVE IInv'
  OBVIOUS
<1>0. UNCHANGED <<maker, client>>
  BY DEF PcsStep
<1>1. pcs \in [Known -> Transition] /\ TasksInv
  BY DEF IInv, TypeOK
<1>2. PICK t \in Known : Launch(t) \/ TaskMoves(t) \/ Complete(t) \/ Aborts(t) \/ Expires(t)
  BY DEF PcsStep
<1>3. CASE Launch(t) \/ Complete(t) \/ Aborts(t)
  <2>1. /\ ~IsOver(pcs[t])
        /\ \E s \in Statuses : /\ pcs' = [pcs EXCEPT ![t].status = s]
                               /\ pcs[t].status \in Aborting => s \in Aborting
    BY <1>3 DEF Launch, Complete, Aborts, IsOver, Statuses, Aborting
  <2> QED BY <1>0, <2>1, StatusMapped, PcsHolds
<1>4. CASE TaskMoves(t)
  <2>1. PICK from \in {"new", "in-progress"}, to \in TaskStates \ {"new"} :
          /\ from # to /\ pcs[t].tasks[from] > 0
          /\ pcs' = [pcs EXCEPT ![t].tasks[from] = @ - 1, ![t].tasks[to] = @ + 1]
    BY <1>4 DEF TaskMoves
  <2> DEFINE d == [pcs[t].tasks EXCEPT ![from] = @ - 1, ![to] = @ + 1]
  <2>2. pcs[t].tasks \in Counts /\ Total(pcs[t].tasks) <= MaxTasks
    BY <1>1 DEF TasksInv, Transition
  <2>3. d \in Counts /\ Total(d) <= MaxTasks
    BY <2>1, <2>2, MovedTyped
  <2>4. pcs' = [pcs EXCEPT ![t].tasks = d]
    BY <1>1, <2>1, <2>2 DEF Transition, Counts
  <2>5. ~IsOver(pcs[t])
    BY <1>4 DEF TaskMoves, IsOver
  <2>6. Known' = Known /\ \A u \in Known \ {t} : pcs'[u] = pcs[u]
    BY <1>1, <2>4 DEF Known
  <2>7. pcs'[t] \in Transition /\ pcs'[t].tasks = d /\ pcs'[t].status = pcs[t].status
    BY <1>1, <2>3, <2>4 DEF Transition
  <2>8. \A u \in Known : /\ pcs'[u] \in Transition /\ Total(pcs'[u].tasks) <= MaxTasks
                         /\ IsOver(pcs[u]) => pcs'[u] = pcs[u]
                         /\ pcs[u].status \in Aborting => pcs'[u].status \in Aborting
    BY <1>1, <2>3, <2>5, <2>6, <2>7 DEF TasksInv
  <2>9. pcs' = [u \in DOMAIN pcs' |-> pcs'[u]]
    BY <2>4
  <2> QED BY <1>0, <2>6, <2>8, <2>9, PcsHolds
<1>5. CASE Expires(t)
  <2>1. Known' = Known \ {t} /\ \A u \in Known' : pcs'[u] = pcs[u]
    BY <1>5 DEF Expires, Known
  <2>2. pcs' = [u \in DOMAIN pcs' |-> pcs'[u]]
    BY <1>5 DEF Expires
  <2> QED BY <1>0, <1>1, <2>1, <2>2, PcsHolds DEF TasksInv
<1> QED BY <1>2, <1>3, <1>4, <1>5

LEMMA StutterHolds ==
  ASSUME IInv, UNCHANGED vars
  PROVE  IInv'
BY PcsHolds DEF IInv, vars, TypeOK, TasksInv, Known

(***************************************************************************)
(* `abort` is a step of PCS and the end of a command.                      *)
(***************************************************************************)
LEMMA DeleteHolds ==
  ASSUME IInv, NEW p \in Procs, DeleteTransition(p)
  PROVE  IInv'
<1> USE DEF IInv, Goto, Exit, Running
<1>0. /\ pc[p] = "request" /\ cmd[p].op = "abort" /\ maker' = maker
      /\ started' = started /\ number' = number /\ cmd' = cmd /\ output' = output
      /\ pc' = [pc EXCEPT ![p] = "idle"]
      /\ exit' = [exit EXCEPT ![p] = "ok"] \/ exit' = [exit EXCEPT ![p] = "failed"]
  BY DEF DeleteTransition, Fails
<1>1. /\ answer' \in [Procs -> Transition \cup {Blank}] /\ bars' \in [Procs -> Counts]
      /\ \A q \in Procs \ {p} : answer'[q] = answer[q] /\ bars'[q] = bars[q]
  <2>1. NoTasks \in Counts
    BY BlankTyped
  <2> QED BY <2>1 DEF DeleteTransition, Fails, TypeOK
<1>2. /\ Known' = Known
      /\ pcs' = [u \in DOMAIN pcs' |-> pcs'[u]]
      /\ \A u \in Known : /\ pcs'[u] \in Transition /\ Total(pcs'[u].tasks) <= MaxTasks
                          /\ IsOver(pcs[u]) => pcs'[u] = pcs[u]
                          /\ pcs[u].status \in Aborting => pcs'[u].status \in Aborting
      /\ cmd[p].of \in Known /\ pcs'[cmd[p].of].status \in Aborting
  <2>1. /\ cmd[p].of \in Known /\ ~IsOver(pcs[cmd[p].of])
        /\ \E s \in Aborting : s \in Statuses /\ pcs' = [pcs EXCEPT ![cmd[p].of].status = s]
    BY DEF DeleteTransition, Statuses, Aborting
  <2>2. pcs'[cmd[p].of].status \in Aborting
    BY <2>1 DEF TypeOK, Transition
  <2> QED BY <2>1, <2>2, StatusMapped
<1>3. \A q \in Procs \ {p} : pc'[q] = pc[q] /\ exit'[q] = exit[q]
  BY <1>0 DEF TypeOK
<1>4. pc'[p] = "idle" /\ output[p] = None
  BY <1>0 DEF TypeOK, RunningInv, ExitTellsTheTruth, StartTellsTheTruth
<1>5. TypeOK' /\ TasksInv'
  BY <1>0, <1>1, <1>2 DEF TypeOK, TasksInv, Known
<1>6. RunningInv'
  BY <1>0, <1>3, <1>4 DEF RunningInv, IsValidOperation
<1>7. AnswerInv'
  BY <1>0, <1>1, <1>2, <1>3, <1>4 DEF AnswerInv, Known, IsOver
<1>8. StartTellsTheTruth'
  BY <1>0, <1>3, <1>4 DEF ExitTellsTheTruth, StartTellsTheTruth, IsValidOperation
<1>9. MonitorTellsTheTruth'
  <2> SUFFICES ASSUME NEW q \in Procs, cmd[q].op = "monitor", exit'[q] = "ok"
               PROVE  /\ cmd[q].of \in DOMAIN maker
                      /\ cmd[q].of \in DOMAIN pcs' =>
                           /\ IsOver(pcs'[cmd[q].of])
                           /\ bars'[q] = [pcs'[cmd[q].of].tasks EXCEPT !["un-supported"] = 0]
    BY <1>0 DEF MonitorTellsTheTruth, Known, IsOver
  <2>1. q # p
    BY <1>0
  <2>2. exit[q] = "ok" /\ bars'[q] = bars[q]
    BY <2>1, <1>1, <1>3
  <2>3. /\ cmd[q].of \in DOMAIN maker
        /\ cmd[q].of \in Known => /\ IsOver(pcs[cmd[q].of])
                                  /\ bars[q] = [pcs[cmd[q].of].tasks EXCEPT !["un-supported"] = 0]
    BY <2>2 DEF ExitTellsTheTruth, MonitorTellsTheTruth
  <2> QED BY <2>2, <2>3, <1>2 DEF Known
<1>10. AbortTellsTheTruth'
  <2> SUFFICES ASSUME NEW q \in Procs, cmd[q].op = "abort", exit'[q] = "ok"
               PROVE  /\ cmd[q].of \in DOMAIN maker
                      /\ cmd[q].of \in DOMAIN pcs' => pcs'[cmd[q].of].status \in Aborting
    BY <1>0 DEF AbortTellsTheTruth, Known
  <2>1. CASE q = p
    BY <2>1, <1>2 DEF TypeOK
  <2>2. CASE q # p
    <3>1. cmd[q].of \in DOMAIN maker /\ (cmd[q].of \in Known => pcs[cmd[q].of].status \in Aborting)
      BY <2>2, <1>3 DEF ExitTellsTheTruth, AbortTellsTheTruth
    <3> QED BY <3>1, <1>2 DEF Known
  <2> QED BY <2>1, <2>2
<1> QED BY <1>5, <1>6, <1>7, <1>8, <1>9, <1>10 DEF ExitTellsTheTruth

LEMMA NextHolds == IInv /\ [Next]_vars => IInv'
<1> SUFFICES ASSUME IInv, [Next]_vars PROVE IInv'
  OBVIOUS
<1>1. ASSUME NEW p \in Procs, NEW c \in Commands, Begin(p, c) PROVE IInv'
  BY <1>1, BeginHolds
<1>2. ASSUME NEW p \in Procs, Requests(p) \/ Continues(p) PROVE IInv'
  <2>1. ASSUME NEW t \in Transitions, CreateTransition(p, t) PROVE IInv'
    BY <2>1, CreateHolds
  <2>2. CASE GetTransition(p)
    BY <2>2, GetHolds
  <2>3. CASE Update(p)
    BY <2>3, UpdateHolds
  <2>4. CASE Wake(p)
    BY <2>4, WakeHolds
  <2>5. CASE DeleteTransition(p)
    BY <2>5, DeleteHolds
  <2>6. CASE RequestFails(p)
    BY <2>6, FailsHolds DEF RequestFails
  <2> QED BY <1>2, <2>1, <2>2, <2>3, <2>4, <2>5, <2>6 DEF Requests, Continues
<1>3. ASSUME NEW p \in Procs, Interrupt(p) PROVE IInv'
  BY <1>3, FailsHolds DEF Interrupt
<1>4. CASE PcsStep
  BY <1>4, PcsStepHolds
<1>5. CASE Ended \/ UNCHANGED vars
  BY <1>5, StutterHolds DEF Ended
<1> QED BY <1>1, <1>2, <1>3, <1>4, <1>5 DEF Next

-----------------------------------------------------------------------------
(* The theorems *)

LEMMA Invariance == Spec => []IInv
BY InitHolds, NextHolds, PTL DEF Spec

(***************************************************************************)
(* TypeOK is invariant: no count of tasks and no bar leaves its range.     *)
(***************************************************************************)
THEOREM TypeCorrect == Spec => []TypeOK
<1>1. IInv => TypeOK
  BY DEF IInv
<1> QED BY <1>1, Invariance, PTL

(***************************************************************************)
(* What the PCS commands say with exit status 0 is true (a transition that *)
(* was started, is over, or is aborted), and no `start` makes two          *)
(* transitions, whatever PCS and the other terminals do.                   *)
(***************************************************************************)
THEOREM ExitIsTrue == Spec => []ExitTellsTheTruth
<1>1. IInv => ExitTellsTheTruth
  BY DEF IInv
<1> QED BY <1>1, Invariance, PTL
=============================================================================
