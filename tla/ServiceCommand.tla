---------------------------- MODULE ServiceCommand ----------------------------
(***************************************************************************)
(* One process of ochami that carries out one command of CommandTable:     *)
(* it validates the command line, asks for consent, connects (base URI and *)
(* token), reads the payload, sends its requests one after the other,      *)
(* reports and exits.  The question and the payload share stdin.           *)
(*                                                                         *)
(* A resource is an item; what a payload says of it is abstracted away.    *)
(* A request is the set of items it is about, Everything for a request to  *)
(* a whole collection.  done is on the side of the service: an answer may  *)
(* be lost after the request was carried out.                              *)
(***************************************************************************)
EXTENDS Naturals, SequencesExt, CommandTable

CONSTANTS
  Commands,   \* the commands of the instance
  Everything, \* the resources of a service that one command is about
  Lists,      \* what a command line or a payload may list
  Inputs      \* what may come from stdin

ASSUME CommandsAssumption == Commands \subseteq CommandType
ASSUME ListsAssumption == Lists \subseteq Seq(Everything)
ASSUME InputsAssumption == Inputs \subseteq Seq({"y", "n", "noise", "payload"})

(***************************************************************************)
(* Every deletion asks, but for the answer --no-confirm gives.             *)
(***************************************************************************)
ASSUME DeletesAsk ==
  \A c \in Commands : c.verb = "delete" =>
    c.confirm # "never" /\ \E i \in DOMAIN c.order : c.order[i] = "ask"

(***************************************************************************)
(* What the table says of payloads.  A command that takes one reads it     *)
(* before its first request.  An empty list stands for everything only     *)
(* where there is no payload, and flags that go over the payload only next *)
(* to --data.                                                              *)
(***************************************************************************)
ASSUME PayloadsAreRead ==
  \A c \in Commands :
    /\ c.flags \cap {"data", "stdin"} # {} =>
         \E i \in DOMAIN c.order : c.order[i] = "read"
    /\ c.empty = "everything" => c.flags \cap {"data", "stdin"} = {}
    /\ c.targets = "args over data" => "stdin" \notin c.flags

(***************************************************************************)
(* The commands that look at the error of each request make something of a *)
(* payload, and nothing but connecting comes before they read it, so that  *)
(* no question can have swallowed it.                                      *)
(***************************************************************************)
ASSUME PayloadsAreIntact ==
  \A c \in Commands : c.report = "errs" =>
    /\ c.targets # "neither"
    /\ \A j \in DOMAIN c.order : c.order[j] = "read" =>
         \A i \in 1..(j - 1) : c.order[i] = "connect"

(***************************************************************************)
(* A deletion that takes a payload reads it before it asks, or makes no    *)
(* request of what it has read.                                            *)
(***************************************************************************)
ASSUME DeletionsRead ==
  \A c \in Commands : c.verb = "delete" /\ "data" \in c.flags =>
    \/ \A j \in DOMAIN c.order : c.order[j] = "ask" =>
         \E i \in 1..(j - 1) : c.order[i] = "read"
    \/ c.targets \in {"neither", "undecodable"} /\ c.empty = "nothing" /\ c.batch = "each"

VARIABLES
  cmd,      \* the command
  inv,      \* its command line
  stdin,    \* what is left on stdin: lines of answers, a payload
  phase,    \* where the command is
  steps,    \* what is left to do before the first request
  agreed,   \* has the user answered yes
  listed,   \* the items the command has found to act upon
  todo,     \* the requests left
  answers,  \* the answers so far, in order
  done,     \* the items requests were carried out for
  printed,  \* what is on stdout: pairs of a label and an item
  exit      \* the exit status, NoExit while the process runs

vars == <<cmd, inv, stdin, phase, steps, agreed, listed, todo, answers, done,
          printed, exit>>
start == <<cmd, inv>>
work == <<todo, answers, done, printed>>

NoExit == 99   \* no exit status of the program
Running == exit = NoExit

-----------------------------------------------------------------------------
(* The command line *)

Has(flag) == flag \in cmd.flags

(***************************************************************************)
(* The command lines the flags of a command allow.  --no-confirm=false is  *)
(* one of them.  A payload is in a file (or on the command line itself),   *)
(* or comes from stdin.                                                    *)
(***************************************************************************)
CommandLines(c) ==
  [args      : Lists,
   data      : IF "data" \in c.flags THEN {"none", "file", "stdin"} ELSE {"none"},
   payload   : IF "data" \in c.flags THEN Lists ELSE {<<>>},
   all       : IF "all" \in c.flags THEN BOOLEAN ELSE {FALSE},
   noConfirm : IF c.confirm # "never" THEN {"unset", "true", "false"} ELSE {"unset"}]

Accepts(count, n) ==
  \/ count = "none" /\ n = 0
  \/ count = "one" /\ n = 1
  \/ count = "optional" /\ n <= 1
  \/ count = "some" /\ n > 0
  \/ count = "any"

Selected == inv.data # "none" \/ inv.all

WellFormed == Accepts(IF Selected THEN cmd.with ELSE cmd.args, Len(inv.args))

(***************************************************************************)
(* Is the question skipped?  GetBool looks at the value of --no-confirm,   *)
(* Flag(...).Changed only at its presence.                                 *)
(***************************************************************************)
Waived ==
  \/ inv.noConfirm = "true"
  \/ inv.noConfirm = "false" /\ cmd.confirm = "changed"

(***************************************************************************)
(* Where a payload comes from; what it lists is then what stdin holds.     *)
(***************************************************************************)
ReadsStdin == inv.data = "stdin" \/ (inv.data = "none" /\ Has("stdin"))
ReadsPayload == inv.data # "none" \/ Has("stdin")

-----------------------------------------------------------------------------
Init ==
  /\ cmd \in Commands
  /\ inv \in CommandLines(cmd)
  /\ stdin \in Inputs
  /\ ReadsStdin /\ inv.payload # <<>> => \E i \in DOMAIN stdin : stdin[i] = "payload"
  /\ phase = "validate"
  /\ steps = cmd.order
  /\ agreed = FALSE
  /\ listed = inv.args
  /\ todo = <<>>
  /\ answers = <<>>
  /\ done = {}
  /\ printed = <<>>
  /\ exit = NoExit

Exit_GoesOn(status) ==   \* seeded fault: an error is logged, but does not end the process
  /\ phase' = "ended"
  /\ exit' = IF status = 0 THEN 0 ELSE exit

Exit(status) ==
  /\ phase' = "ended"
  /\ exit' = status

Quit(status) ==
  /\ Exit(status)
  /\ UNCHANGED <<start, stdin, steps, agreed, listed, work>>

Doing(step) == Running /\ phase = "prepare" /\ steps # <<>> /\ Head(steps) = step

StepDone == steps' = Tail(steps) /\ UNCHANGED <<phase, exit>>

(***************************************************************************)
(* Args and PreRunE.                                                       *)
(***************************************************************************)
Validate ==
  /\ Running /\ phase = "validate"
  /\ WellFormed
  /\ phase' = "prepare"
  /\ UNCHANGED <<start, stdin, steps, agreed, listed, work, exit>>

Refuse ==
  /\ Running /\ phase = "validate"
  /\ ~WellFormed
  /\ Quit(1)

-----------------------------------------------------------------------------
(* LoopYesNo *)

SkipQuestion ==
  /\ Doing("ask")
  /\ Waived
  /\ StepDone
  /\ UNCHANGED <<start, stdin, agreed, listed, work>>

(***************************************************************************)
(* The scanner reads ahead: after an answer, any of what follows it on     *)
(* stdin may be in the scanner's buffer and lost.                          *)
(***************************************************************************)
AnswerYes ==
  /\ Doing("ask")
  /\ ~Waived
  /\ stdin # <<>> /\ Head(stdin) = "y"
  /\ stdin' \in Suffixes(Tail(stdin))
  /\ agreed' = TRUE
  /\ StepDone
  /\ UNCHANGED <<start, listed, work>>

(***************************************************************************)
(* The end of stdin is a no, and both are a success.                       *)
(***************************************************************************)
AnswerNo_GoesOn ==   \* seeded fault: the end of stdin is not taken as an answer
  /\ Doing("ask")
  /\ ~Waived
  /\ stdin = <<>>
  /\ StepDone
  /\ UNCHANGED <<start, stdin, agreed, listed, work>>

AnswerNo ==
  /\ Doing("ask")
  /\ ~Waived
  /\ stdin # <<>> => Head(stdin) = "n"
  /\ phase' = "declined"
  /\ exit' = 0
  /\ UNCHANGED <<start, stdin, steps, agreed, listed, work>>

AskAgain ==
  /\ Doing("ask")
  /\ ~Waived
  /\ stdin # <<>> /\ Head(stdin) \in {"noise", "payload"}
  /\ stdin' = Tail(stdin)
  /\ UNCHANGED <<start, phase, steps, agreed, listed, work, exit>>

AskFails ==
  /\ Doing("ask")
  /\ ~Waived
  /\ Quit(1)

-----------------------------------------------------------------------------
(* GetClient and HandleToken, which end the command when they fail *)

Connect ==
  /\ Doing("connect")
  /\ StepDone
  /\ UNCHANGED <<start, stdin, agreed, listed, work>>

ConnectFails ==
  /\ Doing("connect")
  /\ Quit(1)

-----------------------------------------------------------------------------
(* HandlePayload, HandlePayloadSlice, HandlePayloadStdin, ...Slice *)

(***************************************************************************)
(* What a command may make of the items of a payload.  Flags put over the  *)
(* payload of BSS replace what it says of the same kind of host (xname,    *)
(* MAC address, NID) and join what it says of another.                     *)
(***************************************************************************)
Targets_Both(items) ==   \* seeded fault: arguments next to a payload count as well
  {IF cmd.targets = "data" THEN inv.args \o items ELSE items}

Targets(items) ==
  CASE cmd.targets = "args" -> {inv.args}
    [] cmd.targets = "data" -> {items}
    [] cmd.targets = "args over data" ->
         IF inv.args = <<>> THEN {items} ELSE {inv.args, items \o inv.args}
    [] OTHER -> {<<>>}

ReadNothing ==
  /\ Doing("read")
  /\ ~ReadsPayload
  /\ StepDone
  /\ UNCHANGED <<start, stdin, agreed, listed, work>>

ReadPayload_OneLine ==   \* seeded fault: stdin is not read to its end
  /\ Doing("read")
  /\ ReadsPayload
  /\ cmd.targets # "undecodable"
  /\ ReadsStdin => stdin # <<>> /\ Head(stdin) = "payload"
  /\ listed' \in Targets(inv.payload)
  /\ stdin' = IF ReadsStdin THEN Tail(stdin) ELSE stdin
  /\ StepDone
  /\ UNCHANGED <<start, agreed, work>>

ReadPayload ==
  /\ Doing("read")
  /\ ReadsPayload
  /\ cmd.targets # "undecodable"
  /\ ReadsStdin => stdin = <<"payload">>
  /\ listed' \in Targets(inv.payload)
  /\ stdin' = IF ReadsStdin THEN <<>> ELSE stdin
  /\ StepDone
  /\ UNCHANGED <<start, agreed, work>>

(***************************************************************************)
(* -d @- on an exhausted stdin: as YAML, nothing decodes to nothing.       *)
(***************************************************************************)
ReadEmpty ==
  /\ Doing("read")
  /\ inv.data = "stdin"
  /\ stdin = <<>>
  /\ cmd.targets # "undecodable"
  /\ listed' \in Targets(<<>>)
  /\ StepDone
  /\ UNCHANGED <<start, stdin, agreed, work>>

ReadFails ==
  /\ Doing("read")
  /\ ReadsPayload
  /\ Quit(1)

-----------------------------------------------------------------------------
(* The requests *)

Collective == inv.all \/ (listed = <<>> /\ cmd.empty = "everything")

Requests_OneByOne ==   \* seeded fault: --all and the empty list are not looked at
  [i \in DOMAIN listed |-> {listed[i]}]

Requests ==
  IF Collective THEN <<Everything>>
  ELSE IF cmd.batch = "whole" THEN <<ToSet(listed)>>
  ELSE [i \in DOMAIN listed |-> {listed[i]}]

EmptyRefused == listed = <<>> /\ cmd.empty = "refused"

FirstRequest ==
  /\ Running /\ phase = "prepare" /\ steps = <<>>
  /\ ~EmptyRefused
  /\ phase' = "request"
  /\ todo' = Requests
  /\ UNCHANGED <<start, stdin, steps, agreed, listed, answers, done, printed, exit>>

RefuseEmpty ==
  /\ Running /\ phase = "prepare" /\ steps = <<>>
  /\ EmptyRefused
  /\ Quit(1)

Answer(a) ==
  /\ answers' = Append(answers, a)
  /\ todo' = Tail(todo)
  /\ UNCHANGED <<start, stdin, phase, steps, agreed, listed, printed, exit>>

Requesting == Running /\ phase = "request" /\ todo # <<>>

RequestSucceeds ==
  /\ Requesting
  /\ \/ Answer("ok")
     \/ cmd.prints = "nonempty" /\ Answer("empty")
  /\ done' = done \cup Head(todo)

RequestFails_EndsBatch ==   \* seeded fault: the loop over the items ends in silence
  /\ Requesting
  /\ todo' = <<>>
  /\ UNCHANGED <<start, stdin, phase, steps, agreed, listed, answers, done, printed, exit>>

(***************************************************************************)
(* A failed request does not end the loop.  It may be refused before it is *)
(* sent, refused by the service, or its answer may be lost.                *)
(***************************************************************************)
RequestFails ==
  /\ Requesting
  /\ Answer("failed")
  /\ \E carriedOut \in BOOLEAN :
       done' = IF carriedOut THEN done \cup Head(todo) ELSE done

-----------------------------------------------------------------------------
(* The report *)

Failed == \E i \in DOMAIN answers : answers[i] = "failed"

(***************************************************************************)
(* Is the error of a request looked at?  The one of a request to a whole   *)
(* collection always is.                                                   *)
(***************************************************************************)
Seen_Outer == FALSE   \* seeded fault: the error of the whole call is tested instead
Seen == cmd.report = "errs" \/ Collective

(***************************************************************************)
(* The loop that appends those of the first n positions that are in kept.  *)
(***************************************************************************)
Ascending(kept, n) ==
  LET upTo[k \in 0..n] ==
        IF k = 0 THEN <<>>
        ELSE IF k \in kept THEN Append(upTo[k - 1], k)
        ELSE upTo[k - 1]
  IN  upTo[n]

(***************************************************************************)
(* Positions of the answers that came with something to print.             *)
(***************************************************************************)
Position == 1..Len(answers)
Came_Shifted ==   \* seeded fault: the first position is taken for a header
  Ascending({i \in Position : i > 1 /\ answers[i] = "ok"}, Len(answers))
Came == Ascending({i \in Position : answers[i] = "ok"}, Len(answers))

Named(i) == IF listed = <<>> THEN "all" ELSE listed[i]

OutputInOrder == [i \in Position |-> <<Named(i), Named(i)>>]
OutputNonempty == [i \in DOMAIN Came |-> <<Named(i), Named(Came[i])>>]
OutputUnshifted ==
  LET kept == Ascending({i \in DOMAIN Came : answers[i] = "ok"}, Len(Came))
  IN  [k \in DOMAIN kept |-> LET n == Came[kept[k]] IN <<Named(n), Named(n)>>]

Output ==
  CASE cmd.prints = "in order" -> OutputInOrder
    [] cmd.prints = "nonempty" -> OutputNonempty
    [] cmd.prints = "unshifted" -> OutputUnshifted
    [] cmd.prints = "body" -> <<<<"all", "all">>>>
    [] OTHER -> <<>>

Finished == Running /\ phase = "request" /\ todo = <<>>

Report ==
  /\ Finished
  /\ ~(Failed /\ Seen)
  /\ printed' = Output
  /\ Exit(0)
  /\ UNCHANGED <<start, stdin, steps, agreed, listed, todo, answers, done>>

ReportFailure ==
  /\ Finished
  /\ Failed /\ Seen
  /\ Quit(1)

(***************************************************************************)
(* A signal ends the process wherever it is.                               *)
(***************************************************************************)
Interrupt ==
  /\ Running
  /\ Quit(130)

-----------------------------------------------------------------------------
Prepare ==
  \/ Validate \/ Refuse
  \/ SkipQuestion \/ AnswerYes \/ AnswerNo \/ AskAgain \/ AskFails
  \/ Connect \/ ConnectFails
  \/ ReadNothing \/ ReadPayload \/ ReadEmpty \/ ReadFails

Perform ==
  \/ FirstRequest \/ RefuseEmpty \/ RequestSucceeds \/ RequestFails
  \/ Report \/ ReportFailure

Ended == ~Running /\ UNCHANGED vars

Next == Prepare \/ Perform \/ Interrupt \/ Ended

Spec == Init /\ [][Next]_vars

-----------------------------------------------------------------------------
(* The type invariant, in parts. *)
StartOK == cmd \in Commands /\ inv \in CommandLines(cmd)

ControlOK ==
  /\ phase \in {"validate", "prepare", "request", "declined", "ended"}
  /\ steps \in Seq(Steps)
  /\ agreed \in BOOLEAN
  /\ exit \in {NoExit, 0, 1, 130}
  /\ Running <=> phase \notin {"declined", "ended"}

StdinOK == stdin \in Seq({"y", "n", "noise", "payload"})

WorkOK ==
  /\ listed \in Seq(Everything)
  /\ todo \in Seq(SUBSET Everything)
  /\ answers \in Seq({"ok", "empty", "failed"})
  /\ done \subseteq Everything

TypeOK == StartOK /\ ControlOK /\ StdinOK /\ WorkOK

(***************************************************************************)
(* What a command line is about, as the manual has it: everything with     *)
(* --all, the payload where there is one, else the arguments.              *)
(***************************************************************************)
Wanted ==
  IF inv.all THEN Everything
  ELSE IF ReadsPayload /\ cmd.targets # "args" THEN ToSet(inv.payload)
  ELSE IF inv.args = <<>> /\ cmd.empty = "everything" THEN Everything
  ELSE ToSet(inv.args)

(***************************************************************************)
(* Commands that put the arguments over the payload, given both.           *)
(***************************************************************************)
Overridden == cmd.targets = "args over data" /\ inv.data # "none" /\ inv.args # <<>>

(***************************************************************************)
(* Exit status 0 means that every request was answered and everything      *)
(* wanted was done, although a failed request does not end the batch.  The *)
(* exceptions are the commands that look at the wrong error and BSS        *)
(* commands of which the flags change what the payload is about.           *)
(***************************************************************************)
SuccessMeansDone ==
  phase = "ended" /\ exit = 0 /\ cmd.report = "errs" /\ ~Overridden => Wanted \subseteq done

(***************************************************************************)
(* Whatever happens on the way, a command acts on nothing it was not given:*)
(* not on the arguments next to --data, not on everything without --all.   *)
(***************************************************************************)
NothingElseTouched == ~Overridden => done \subseteq Wanted

(***************************************************************************)
(* No deletion is sent without consent: the user has said yes, or          *)
(* --no-confirm is on the command line (for the metadata service, with any *)
(* value).  The end of stdin is not a yes.                                 *)
(***************************************************************************)
AskedBeforeDelete ==
  cmd.verb = "delete" /\ answers # <<>> => agreed \/ Waived

(***************************************************************************)
(* The payload of a deletion and the answer to its question cannot both    *)
(* come from stdin: a deletion with -d @- carries out nothing from the     *)
(* payload unless --no-confirm is given, and ends in success all the same, *)
(* the end of stdin being a no.                                            *)
(***************************************************************************)
PipedDeletesNeedNoConfirm ==
  cmd.verb = "delete" /\ inv.data = "stdin" /\ ~inv.all /\ answers # <<>> => Waived

(***************************************************************************)
(* When every request of a batch of GETs came with something, all of it is *)
(* printed, each under the name it was asked for.                          *)
(***************************************************************************)
AllAnswersPrinted ==
  /\ phase = "ended" /\ exit = 0
  /\ cmd.prints \in {"in order", "nonempty", "unshifted"}
  /\ \A i \in DOMAIN answers : answers[i] = "ok"
  => printed = [i \in DOMAIN answers |-> <<Named(i), Named(i)>>]

(***************************************************************************)
(* The promise of the comments of the commands that delete one by one ("we *)
(* need to deal with each error that might have occurred", "Warn the user  *)
(* if any errors occurred"): a batch with a failed request does not end in *)
(* success.                                                                *)
(***************************************************************************)
FailuresAreReported == phase = "ended" /\ exit = 0 => ~Failed

=============================================================================
