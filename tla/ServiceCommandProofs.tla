------------------------- MODULE ServiceCommandProofs -------------------------
(***************************************************************************)
(* Proofs about ServiceCommand, for every table of commands in which every *)
(* deletion asks, all lists of resources and everything on stdin.          *)
(***************************************************************************)
EXTENDS ServiceCommand, SequenceTheorems, WellFoundedInduction, TLAPS

-----------------------------------------------------------------------------
(* Types *)

Words == {"y", "n", "noise", "payload"}

(***************************************************************************)
(* What a command line lists, what a payload makes of it, and the order of *)
(* the steps have the types the work needs.                                *)
(***************************************************************************)
LEMMA StartTyped ==
  ASSUME StartOK
  PROVE  /\ inv.args \in Seq(Everything) /\ inv.payload \in Seq(Everything)
         /\ cmd.order \in Seq(Steps)
<1>1. cmd.order \in Seq(Steps)
  <2>1. cmd \in CommandType
    BY CommandsAssumption DEF StartOK
  <2> QED BY <2>1, Zenon DEF CommandType
<1>2. inv.args \in Lists /\ inv.payload \in Lists \cup {<<>>}
  BY DEF StartOK, CommandLines
<1>3. <<>> \in Seq(Everything)
  OBVIOUS
<1>4. Lists \cup {<<>>} \subseteq Seq(Everything)
  BY <1>3, ListsAssumption, Zenon
<1> QED BY <1>1, <1>2, <1>4, Zenon

LEMMA TargetsTyped ==
  ASSUME StartOK, NEW items \in Seq(Everything), NEW t \in Targets(items)
  PROVE  t \in Seq(Everything)
<1>1. inv.args \in Seq(Everything)
  BY StartTyped
<1>2. items \o inv.args \in Seq(Everything)
  BY <1>1
<1>3. <<>> \in Seq(Everything)
  OBVIOUS
<1>4. Targets(items) \in {{inv.args}, {items}, {inv.args, items \o inv.args}, {<<>>}}
  BY Zenon DEF Targets
<1> QED BY <1>1, <1>2, <1>3, <1>4, Zenon

LEMMA RequestsTyped ==
  ASSUME listed \in Seq(Everything)
  PROVE  Requests \in Seq(SUBSET Everything)
<1>1. \A i \in DOMAIN listed : listed[i] \in Everything
  OBVIOUS
<1>2. ToSet(listed) \in SUBSET Everything
  BY <1>1 DEF ToSet
<1>3. [i \in DOMAIN listed |-> {listed[i]}] \in Seq(SUBSET Everything)
  BY <1>1
<1>4. <<Everything>> \in Seq(SUBSET Everything) /\ <<ToSet(listed)>> \in Seq(SUBSET Everything)
  BY <1>2
<1> QED BY <1>3, <1>4 DEF Requests

LEMMA SuffixesTyped ==
  ASSUME NEW s \in Seq(Words), NEW t \in Suffixes(s)
  PROVE  t \in Seq(Words)
<1>1. CASE t = <<>>
  BY <1>1
<1>2. CASE t # <<>>
  <2>1. PICK l \in 1..Len(s) : t = SubSeq(s, l, Len(s))
    BY <1>2 DEF Suffixes
  <2> QED BY <2>1, SubSeqProperties
<1> QED BY <1>1, <1>2

LEMMA StepsTyped ==
  ASSUME NEW list \in Seq(Steps), list # <<>>
  PROVE  Tail(list) \in Seq(Steps)
OBVIOUS

LEMMA WordsTyped ==
  ASSUME NEW s \in Seq(Words), s # <<>>
  PROVE  Tail(s) \in Seq(Words)
OBVIOUS

(***************************************************************************)
(* Taking a request from the list, and noting its answer.                  *)
(***************************************************************************)
LEMMA AnswerTyped ==
  ASSUME WorkOK, todo # <<>>, NEW a \in {"ok", "empty", "failed"}
  PROVE  /\ Append(answers, a) \in Seq({"ok", "empty", "failed"})
         /\ Tail(todo) \in Seq(SUBSET Everything)
         /\ done \cup Head(todo) \subseteq Everything
<1>1. todo \in Seq(SUBSET Everything) /\ done \subseteq Everything
  BY DEF WorkOK
<1>2. Head(todo) \in SUBSET Everything /\ Tail(todo) \in Seq(SUBSET Everything)
  BY <1>1
<1>3. Append(answers, a) \in Seq({"ok", "empty", "failed"})
  BY DEF WorkOK
<1> QED BY <1>1, <1>2, <1>3, Zenon

(***************************************************************************)
(* Every variable keeps its type, and the exit status is set exactly when  *)
(* the command has ended.                                                  *)
(***************************************************************************)
THEOREM TypeCorrect == Spec => []TypeOK
<1>1. Init => TypeOK
  <2> SUFFICES ASSUME Init PROVE TypeOK OBVIOUS
  <2>1. StartOK
    BY DEF Init, StartOK
  <2>2. ControlOK
    BY <2>1, StartTyped DEF Init, ControlOK, Running, NoExit
  <2>3. StdinOK
    BY InputsAssumption, Zenon DEF Init, StdinOK
  <2>4. WorkOK
    BY <2>1, StartTyped DEF Init, WorkOK
  <2> QED BY <2>1, <2>2, <2>3, <2>4 DEF TypeOK
<1>2. TypeOK /\ [Next]_vars => TypeOK'
  <2> SUFFICES ASSUME TypeOK, [Next]_vars PROVE TypeOK' OBVIOUS
  <2> DEFINE Kept == StartOK' /\ ControlOK' /\ StdinOK' /\ WorkOK'
  <2> SUFFICES Kept BY DEF TypeOK
  <2>1. CASE Prepare
    <3> USE DEF TypeOK, StartOK, ControlOK, Running, NoExit, Exit, Quit, StepDone, Doing,
                start, work
    <3>1. CASE Validate \/ Refuse
      BY <3>1 DEF Validate, Refuse, StdinOK, WorkOK
    <3>2. CASE SkipQuestion \/ Connect \/ ReadNothing
      <4>1. steps' \in Seq(Steps)
        BY <3>2, StepsTyped DEF SkipQuestion, Connect, ReadNothing
      <4> QED BY <3>2, <4>1 DEF SkipQuestion, Connect, ReadNothing, StdinOK, WorkOK
    <3>3. CASE ConnectFails \/ ReadFails \/ AskFails
      BY <3>3 DEF ConnectFails, ReadFails, AskFails, StdinOK, WorkOK
    <3>4. CASE AnswerYes
      <4>1. stdin' \in Seq(Words)
        BY <3>4, WordsTyped, SuffixesTyped DEF AnswerYes, StdinOK, Words
      <4>2. steps' \in Seq(Steps)
        BY <3>4, StepsTyped DEF AnswerYes
      <4> QED BY <3>4, <4>1, <4>2 DEF AnswerYes, Words, StdinOK, WorkOK
    <3>5. CASE AnswerNo
      BY <3>5 DEF AnswerNo, StdinOK, WorkOK
    <3>6. CASE AskAgain
      <4>1. StdinOK'
        BY <3>6, WordsTyped DEF AskAgain, StdinOK, Words
      <4> QED BY <3>6, <4>1 DEF AskAgain, WorkOK
    <3>7. CASE ReadPayload
      <4>1. listed' \in Seq(Everything)
        BY <3>7, StartTyped, TargetsTyped DEF ReadPayload
      <4>2. StdinOK'
        BY <3>7 DEF ReadPayload, StdinOK
      <4>3. steps' \in Seq(Steps)
        BY <3>7, StepsTyped DEF ReadPayload
      <4> QED BY <3>7, <4>1, <4>2, <4>3 DEF ReadPayload, WorkOK
    <3>8. CASE ReadEmpty
      <4>1. <<>> \in Seq(Everything)
        OBVIOUS
      <4>2. listed' \in Seq(Everything)
        BY <3>8, <4>1, TargetsTyped DEF ReadEmpty
      <4>3. steps' \in Seq(Steps)
        BY <3>8, StepsTyped DEF ReadEmpty
      <4> QED BY <3>8, <4>2, <4>3 DEF ReadEmpty, StdinOK, WorkOK
    <3> QED BY <2>1, <3>1, <3>2, <3>3, <3>4, <3>5, <3>6, <3>7, <3>8 DEF Prepare
  <2>2. CASE Perform
    <3> USE DEF TypeOK, StartOK, ControlOK, Running, NoExit, Exit, Quit, start, work
    <3>1. CASE FirstRequest
      BY <3>1, RequestsTyped DEF FirstRequest, StdinOK, WorkOK
    <3>2. CASE RequestSucceeds \/ RequestFails
      <4>1. todo # <<>> /\ listed' = listed /\ done' \in {done, done \cup Head(todo)}
        BY <3>2 DEF RequestSucceeds, RequestFails, Requesting, Answer
      <4>2. PICK a \in {"ok", "empty", "failed"} :
              answers' = Append(answers, a) /\ todo' = Tail(todo)
        BY <3>2 DEF RequestSucceeds, RequestFails, Answer
      <4>3. WorkOK'
        <5>1. answers' \in Seq({"ok", "empty", "failed"}) /\ todo' \in Seq(SUBSET Everything)
          BY <4>1, <4>2, AnswerTyped
        <5>2. done \cup Head(todo) \subseteq Everything
          BY <4>1, AnswerTyped
        <5>3. done' \subseteq Everything
          BY <4>1, <5>2 DEF WorkOK
        <5> QED BY <4>1, <5>1, <5>3 DEF WorkOK
      <4> QED
        BY <3>2, <4>3 DEF RequestSucceeds, RequestFails, Requesting, Answer, StdinOK
    <3>3. CASE RefuseEmpty \/ Report \/ ReportFailure
      BY <3>3 DEF RefuseEmpty, Report, ReportFailure, Finished, StdinOK, WorkOK
    <3> QED BY <2>2, <3>1, <3>2, <3>3 DEF Perform
  <2>3. CASE Interrupt
    BY <2>3 DEF Interrupt, TypeOK, StartOK, ControlOK, StdinOK, WorkOK, Running, NoExit,
                Exit, Quit, start, work
  <2>4. CASE Ended \/ UNCHANGED vars
    BY <2>4 DEF Ended, vars, TypeOK, StartOK, ControlOK, StdinOK, WorkOK, Running, NoExit
  <2> QED BY <2>1, <2>2, <2>3, <2>4 DEF Next
<1> QED BY <1>1, <1>2, PTL DEF Spec

-----------------------------------------------------------------------------
(* Consent *)

Ahead(step, list) == \E i \in DOMAIN list : list[i] = step

(***************************************************************************)
(* Before its first request, a deletion has the question still before it,  *)
(* or the user's yes, or --no-confirm; from then on one of the latter.     *)
(***************************************************************************)
ConsentInv ==
  /\ TypeOK
  /\ cmd.verb = "delete" /\ phase \in {"validate", "prepare"} =>
       Ahead("ask", steps) \/ agreed \/ Waived
  /\ cmd.verb = "delete" /\ (phase = "request" \/ answers # <<>>) => agreed \/ Waived

LEMMA StillAhead ==
  ASSUME NEW list \in Seq(Steps), list # <<>>, NEW step, Ahead(step, list), Head(list) # step
  PROVE  Ahead(step, Tail(list))
<1>1. PICK i \in DOMAIN list : list[i] = step
  BY DEF Ahead
<1>2. i # 1 /\ i - 1 \in DOMAIN Tail(list) /\ Tail(list)[i - 1] = step
  BY <1>1
<1> QED BY <1>2 DEF Ahead

(***************************************************************************)
(* No deletion is sent without consent, whatever the order in which the    *)
(* command asks, connects and reads.                                       *)
(***************************************************************************)
THEOREM DeletionsHaveConsent == Spec => []AskedBeforeDelete
<1>1. Init /\ TypeOK => ConsentInv
  <2> SUFFICES ASSUME Init, TypeOK, cmd.verb = "delete" PROVE Ahead("ask", steps)
    BY DEF Init, ConsentInv
  <2> QED BY DeletesAsk DEF Init, Ahead
<1>2. ConsentInv /\ TypeOK' /\ [Next]_vars => ConsentInv'
  <2> SUFFICES ASSUME ConsentInv, TypeOK', [Next]_vars PROVE ConsentInv' OBVIOUS
  <2>1. steps \in Seq(Steps)
    BY DEF ConsentInv, TypeOK, ControlOK
  <2> USE DEF ConsentInv, start, work, Exit, Quit
  <2>2. CASE Validate \/ Refuse
    BY <2>2 DEF Validate, Refuse, Waived
  <2>3. CASE SkipQuestion \/ AnswerYes
    BY <2>3 DEF SkipQuestion, AnswerYes, Doing, StepDone, Waived
  <2>4. CASE AnswerNo \/ AskAgain \/ AskFails \/ ConnectFails \/ ReadFails
    BY <2>4 DEF AnswerNo, AskAgain, AskFails, ConnectFails, ReadFails, Doing, Waived
  <2>5. CASE Connect \/ ReadNothing \/ ReadPayload \/ ReadEmpty
    <3>1. steps # <<>> /\ Head(steps) # "ask" /\ steps' = Tail(steps)
      BY <2>5 DEF Connect, ReadNothing, ReadPayload, ReadEmpty, Doing, StepDone
    <3>2. Ahead("ask", steps) => Ahead("ask", steps')
      BY <2>1, <3>1, StillAhead
    <3> QED BY <2>5, <3>2
         DEF Connect, ReadNothing, ReadPayload, ReadEmpty, Doing, StepDone, Waived
  <2>6. CASE FirstRequest
    <3>1. steps = <<>> => ~Ahead("ask", steps)
      BY DEF Ahead
    <3> QED BY <2>6, <3>1 DEF FirstRequest, Waived
  <2>7. CASE RequestSucceeds \/ RequestFails
    BY <2>7 DEF RequestSucceeds, RequestFails, Requesting, Answer, Waived
  <2>8. CASE RefuseEmpty \/ Report \/ ReportFailure \/ Interrupt
    BY <2>8 DEF RefuseEmpty, Report, ReportFailure, Interrupt, Finished, Waived
  <2>9. CASE Ended \/ UNCHANGED vars
    BY <2>9 DEF Ended, vars, Waived, Ahead
  <2> QED BY <2>2, <2>3, <2>4, <2>5, <2>6, <2>7, <2>8, <2>9 DEF Next, Prepare, Perform
<1>3. ConsentInv => AskedBeforeDelete
  BY DEF ConsentInv, AskedBeforeDelete
<1> QED BY <1>1, <1>2, <1>3, TypeCorrect, PTL DEF Spec

-----------------------------------------------------------------------------
(* What a command has found to act upon *)

(***************************************************************************)
(* A command line does not change.                                         *)
(***************************************************************************)
LEMMA StartKept ==
  ASSUME [Next]_vars
  PROVE  /\ cmd' = cmd /\ inv' = inv
         /\ ReadsPayload' = ReadsPayload /\ ReadsStdin' = ReadsStdin
         /\ Wanted' = Wanted /\ Overridden' = Overridden /\ Waived' = Waived
         /\ Targets(inv.payload)' = Targets(inv.payload) /\ Targets(<<>>)' = Targets(<<>>)
<1>1. cmd' = cmd /\ inv' = inv
  BY DEF Next, Prepare, Perform, Validate, Refuse, SkipQuestion, AnswerYes, AnswerNo, AskAgain,
         AskFails, Connect, ConnectFails, ReadNothing, ReadPayload, ReadEmpty, ReadFails,
         FirstRequest, RefuseEmpty, RequestSucceeds, RequestFails, Report, ReportFailure,
         Interrupt, Ended, Answer, Quit, start, vars
<1> QED
  BY <1>1 DEF ReadsPayload, ReadsStdin, Has, Wanted, Overridden, Waived, Targets

(***************************************************************************)
(* A command that reads a payload takes one.                               *)
(***************************************************************************)
LEMMA PayloadFlag ==
  ASSUME StartOK, ReadsPayload
  PROVE  cmd.flags \cap {"data", "stdin"} # {}
BY DEF StartOK, CommandLines, ReadsPayload, Has

(***************************************************************************)
(* A command has no request before it has prepared them, and from then on  *)
(* has read its payload, and what it acts upon is what it makes of the     *)
(* payload, or of nothing where stdin was exhausted.                       *)
(***************************************************************************)
FoundInv ==
  /\ phase \in {"validate", "prepare"} => answers = <<>> /\ todo = <<>> /\ done = {}
  /\ phase = "request" => steps = <<>>
  /\ ReadsPayload =>
       \/ Ahead("read", steps)
       \/ /\ cmd.targets # "undecodable"
          /\ listed \in Targets(inv.payload) \cup Targets(<<>>)
  /\ ~ReadsPayload => listed = inv.args

LEMMA FoundHolds == Spec => []FoundInv
<1>1. Init /\ TypeOK => FoundInv
  <2> SUFFICES ASSUME Init, TypeOK, ReadsPayload PROVE Ahead("read", steps)
    BY DEF Init, FoundInv
  <2>1. cmd \in Commands /\ cmd.flags \cap {"data", "stdin"} # {}
    BY PayloadFlag DEF TypeOK, StartOK
  <2> QED BY <2>1, PayloadsAreRead DEF Init, Ahead
<1>2. FoundInv /\ TypeOK /\ [Next]_vars => FoundInv'
  <2> SUFFICES ASSUME FoundInv, TypeOK, [Next]_vars PROVE FoundInv' OBVIOUS
  <2>1. steps \in Seq(Steps)
    BY DEF TypeOK, ControlOK
  <2>2. steps # <<>> /\ Head(steps) # "read" /\ Ahead("read", steps) => Ahead("read", Tail(steps))
    BY <2>1, StillAhead
  <2> USE StartKept DEF FoundInv, Exit, Quit, work
  <2>3. CASE Validate \/ Refuse
    BY <2>3 DEF Validate, Refuse, Ahead
  <2>4. CASE AnswerNo \/ AskAgain \/ AskFails \/ ConnectFails \/ ReadFails
    BY <2>4 DEF AnswerNo, AskAgain, AskFails, ConnectFails, ReadFails, Doing, Ahead
  <2>5. CASE SkipQuestion \/ AnswerYes \/ Connect
    <3>1. steps # <<>> /\ Head(steps) # "read" /\ steps' = Tail(steps)
      BY <2>5 DEF SkipQuestion, AnswerYes, Connect, Doing, StepDone
    <3>2. Ahead("read", steps) => Ahead("read", steps')
      BY <2>2, <3>1
    <3> QED BY <2>5, <3>2 DEF SkipQuestion, AnswerYes, Connect, Doing, StepDone
  <2>6. CASE ReadNothing
    BY <2>6 DEF ReadNothing, Doing, StepDone
  <2>7. CASE ReadPayload \/ ReadEmpty
    BY <2>7 DEF ReadPayload, ReadEmpty, Doing, StepDone, ReadsPayload
  <2>8. CASE FirstRequest \/ RequestSucceeds \/ RequestFails
    BY <2>8 DEF FirstRequest, RequestSucceeds, RequestFails, Requesting, Answer, Ahead
  <2>9. CASE RefuseEmpty \/ Report \/ ReportFailure \/ Interrupt
    BY <2>9 DEF RefuseEmpty, Report, ReportFailure, Interrupt, Finished, Ahead
  <2>10. CASE Ended \/ UNCHANGED vars
    BY <2>10 DEF Ended, vars, Ahead
  <2> QED
    BY <2>3, <2>4, <2>5, <2>6, <2>7, <2>8, <2>9, <2>10 DEF Next, Prepare, Perform
<1> QED BY <1>1, <1>2, TypeCorrect, PTL DEF Spec

(***************************************************************************)
(* Only connecting comes before a payload is read.                         *)
(***************************************************************************)
ReadsEarly(list) ==
  \A j \in DOMAIN list : list[j] = "read" => \A i \in 1..(j - 1) : list[i] = "connect"

LEMMA StillEarly ==
  ASSUME NEW list \in Seq(Steps), list # <<>>, ReadsEarly(list)
  PROVE  /\ ReadsEarly(Tail(list))
         /\ Head(list) # "connect" => ~Ahead("read", Tail(list))
<1>1. \A k \in DOMAIN Tail(list) : k + 1 \in DOMAIN list /\ Tail(list)[k] = list[k + 1]
  OBVIOUS
<1>2. ReadsEarly(Tail(list))
  <2> SUFFICES ASSUME NEW j \in DOMAIN Tail(list), Tail(list)[j] = "read", NEW i \in 1..(j - 1)
               PROVE  Tail(list)[i] = "connect"
    BY DEF ReadsEarly
  <2>1. Len(Tail(list)) \in Nat /\ DOMAIN Tail(list) = 1..Len(Tail(list))
    OBVIOUS
  <2>2. i \in DOMAIN Tail(list) /\ i + 1 \in 1..((j + 1) - 1)
    BY <2>1
  <2>3. list[i + 1] = "connect"
    BY <1>1, <2>2 DEF ReadsEarly
  <2> QED BY <1>1, <2>2, <2>3
<1>3. Ahead("read", Tail(list)) => Head(list) = "connect"
  <2> SUFFICES ASSUME NEW k \in DOMAIN Tail(list), Tail(list)[k] = "read"
               PROVE  Head(list) = "connect"
    BY DEF Ahead
  <2>1. k + 1 \in DOMAIN list /\ list[k + 1] = "read" /\ 1 \in 1..((k + 1) - 1)
    BY <1>1
  <2> QED BY <2>1 DEF ReadsEarly
<1> QED BY <1>2, <1>3

(***************************************************************************)
(* A command that looks at the error of each request has its payload still *)
(* on stdin and only connecting before it, or acts upon what it makes of   *)
(* all of it.                                                              *)
(***************************************************************************)
IntactInv ==
  cmd.report = "errs" =>
    /\ ReadsEarly(steps)
    /\ ReadsPayload =>
         IF Ahead("read", steps)
         THEN ReadsStdin /\ inv.payload # <<>> => Ahead("payload", stdin)
         ELSE listed \in Targets(inv.payload)

LEMMA IntactHolds == Spec => []IntactInv
<1>1. Init /\ TypeOK => IntactInv
  <2> SUFFICES ASSUME Init, TypeOK, cmd.report = "errs" PROVE IntactInv
    BY DEF IntactInv
  <2>1. cmd \in Commands
    BY DEF TypeOK, StartOK
  <2>2. ReadsEarly(steps)
    BY <2>1, PayloadsAreIntact DEF Init, ReadsEarly
  <2>3. ReadsPayload => Ahead("read", steps)
    BY <2>1, PayloadFlag, PayloadsAreRead DEF Init, Ahead, TypeOK
  <2> QED BY <2>2, <2>3 DEF Init, IntactInv, Ahead
<1>2. IntactInv /\ TypeOK /\ [Next]_vars => IntactInv'
  <2> SUFFICES ASSUME IntactInv, TypeOK, [Next]_vars, cmd.report = "errs" PROVE IntactInv'
    BY StartKept DEF IntactInv
  <2>1. steps \in Seq(Steps)
    BY DEF TypeOK, ControlOK
  <2>2. steps # <<>> /\ steps' = Tail(steps) =>
          /\ ReadsEarly(steps')
          /\ Head(steps) # "connect" => ~Ahead("read", steps')
          /\ Head(steps) # "read" => (Ahead("read", steps) <=> Ahead("read", steps'))
    <3> SUFFICES ASSUME steps # <<>>, steps' = Tail(steps) PROVE
          /\ ReadsEarly(steps')
          /\ Head(steps) # "connect" => ~Ahead("read", steps')
          /\ Head(steps) # "read" => (Ahead("read", steps) <=> Ahead("read", steps'))
      OBVIOUS
    <3>1. ReadsEarly(steps)
      BY DEF IntactInv
    <3>2. Ahead("read", Tail(steps)) => Ahead("read", steps)
      BY <2>1 DEF Ahead
    <3> QED BY <2>1, <3>1, <3>2, StillEarly, StillAhead
  <2> USE StartKept DEF IntactInv, Exit, Quit, work
  <2>3. CASE UNCHANGED <<stdin, steps, listed>>
    BY <2>3 DEF Ahead, ReadsEarly
  <2>4. CASE AskAgain \/ AnswerYes \/ SkipQuestion
    <3>1. steps # <<>> /\ Head(steps) = "ask" /\ listed' = listed /\ steps' \in {steps, Tail(steps)}
      BY <2>4 DEF AskAgain, AnswerYes, SkipQuestion, Doing, StepDone
    <3>2. ~Ahead("read", steps)
      BY <2>1, <3>1, StillEarly, StillAhead
    <3>3. ReadsEarly(steps') /\ ~Ahead("read", steps')
      BY <2>2, <3>1, <3>2
    <3> QED BY <3>1, <3>2, <3>3
  <2>5. CASE Connect
    <3>1. /\ steps # <<>> /\ Head(steps) = "connect" /\ steps' = Tail(steps)
          /\ listed' = listed /\ stdin' = stdin
      BY <2>5 DEF Connect, Doing, StepDone
    <3>2. Ahead("read", steps) <=> Ahead("read", steps')
      BY <3>1, <2>2
    <3>3. Ahead("payload", stdin) <=> Ahead("payload", stdin')
      BY <3>1
    <3> QED BY <2>2, <3>1, <3>2, <3>3
  <2>6. CASE ReadNothing
    <3>1. ~ReadsPayload /\ steps # <<>> /\ steps' = Tail(steps)
      BY <2>6 DEF ReadNothing, Doing, StepDone
    <3> QED BY <2>2, <3>1
  <2>7. CASE ReadPayload
    <3>1. /\ steps # <<>> /\ Head(steps) = "read" /\ steps' = Tail(steps)
          /\ listed' \in Targets(inv.payload)
      BY <2>7 DEF ReadPayload, Doing, StepDone
    <3> QED BY <2>2, <3>1
  <2>8. CASE ReadEmpty
    <3>1. /\ steps # <<>> /\ steps' = Tail(steps) /\ listed' \in Targets(<<>>)
          /\ stdin = <<>> /\ ReadsStdin /\ ReadsPayload /\ Head(steps) = "read"
      BY <2>8 DEF ReadEmpty, Doing, StepDone, ReadsStdin, ReadsPayload
    <3>2. ~Ahead("payload", stdin)
      BY <3>1 DEF Ahead
    <3>3. inv.payload = <<>> => listed' \in Targets(inv.payload)
      BY <3>1
    <3>4. Ahead("read", steps)
      BY <2>1, <3>1 DEF Ahead
    <3> QED BY <2>2, <3>1, <3>2, <3>3, <3>4
  <2> QED
    BY <2>3, <2>4, <2>5, <2>6, <2>7, <2>8
    DEF Next, Prepare, Perform, Validate, Refuse, AnswerNo, AskFails, ConnectFails, ReadFails,
        FirstRequest, RequestSucceeds, RequestFails, RefuseEmpty, Report, ReportFailure,
        Interrupt, Ended, Answer, vars
<1> QED BY <1>1, <1>2, TypeCorrect, PTL DEF Spec

-----------------------------------------------------------------------------
(* What the requests are about *)

Covered(list) == UNION {list[i] : i \in DOMAIN list}

LEMMA CoveredTail ==
  ASSUME NEW list \in Seq(SUBSET Everything), list # <<>>
  PROVE  Covered(list) = Head(list) \cup Covered(Tail(list))
<1>1. \A k \in DOMAIN Tail(list) : k + 1 \in DOMAIN list /\ Tail(list)[k] = list[k + 1]
  OBVIOUS
<1>2. \A i \in DOMAIN list : i # 1 => i - 1 \in DOMAIN Tail(list) /\ Tail(list)[i - 1] = list[i]
  OBVIOUS
<1>3. 1 \in DOMAIN list /\ Head(list) = list[1]
  OBVIOUS
<1>4. Covered(list) \subseteq Head(list) \cup Covered(Tail(list))
  <2> SUFFICES ASSUME NEW x, NEW i \in DOMAIN list, x \in list[i]
               PROVE  x \in Head(list) \cup Covered(Tail(list))
    BY DEF Covered
  <2>1. CASE i = 1
    BY <2>1, <1>3
  <2>2. CASE i # 1
    BY <2>2, <1>2 DEF Covered
  <2> QED BY <2>1, <2>2
<1>5. Head(list) \cup Covered(Tail(list)) \subseteq Covered(list)
  BY <1>1, <1>3 DEF Covered
<1> QED BY <1>4, <1>5

(***************************************************************************)
(* The requests are about everything, or about what the command has found. *)
(***************************************************************************)
LEMMA RequestsCover ==
  ASSUME listed \in Seq(Everything)
  PROVE  Covered(Requests) = IF Collective THEN Everything ELSE ToSet(listed)
<1>1. CASE Collective
  BY <1>1 DEF Requests, Covered
<1>2. CASE ~Collective /\ cmd.batch = "whole"
  BY <1>2 DEF Requests, Covered
<1>3. CASE ~Collective /\ cmd.batch # "whole"
  <2>1. Requests = [i \in DOMAIN listed |-> {listed[i]}]
    BY <1>3 DEF Requests
  <2> QED BY <1>3, <2>1 DEF Covered, ToSet
<1> QED BY <1>1, <1>2, <1>3

(***************************************************************************)
(* What a command makes of a payload, flags over the payload aside, is the *)
(* payload, the arguments where these alone are to count, or nothing.      *)
(***************************************************************************)
LEMMA TargetsWanted ==
  ASSUME StartOK, ReadsPayload, ~Overridden, ~inv.all, NEW items \in {inv.payload, <<>>},
         NEW t \in Targets(items), cmd.targets # "undecodable"
  PROVE  /\ ToSet(t) \subseteq Wanted
         /\ items = inv.payload /\ cmd.targets # "neither" => ToSet(t) = Wanted
<1>1. cmd.flags \cap {"data", "stdin"} # {} /\ cmd \in Commands
  BY PayloadFlag DEF StartOK
<1>2. cmd.empty # "everything"
  BY <1>1, PayloadsAreRead
<1>3. cmd.targets \in {"args", "data", "neither", "args over data"}
  <2>1. cmd \in CommandType
    BY <1>1, CommandsAssumption
  <2>2. cmd.targets \in {"args", "data", "neither", "undecodable", "args over data"}
    BY <2>1, Zenon DEF CommandType
  <2> QED BY <2>2
<1>4. ToSet(<<>>) = {}
  BY DEF ToSet
<1>5. CASE cmd.targets = "args"
  <2>1. t = inv.args
    BY <1>5 DEF Targets
  <2> QED BY <1>2, <1>5, <2>1 DEF Wanted
<1>6. CASE cmd.targets # "args"
  <2>1. Wanted = ToSet(inv.payload)
    BY <1>6 DEF Wanted
  <2>2. CASE cmd.targets = "data"
    BY <2>1, <2>2, <1>4 DEF Targets
  <2>3. CASE cmd.targets = "neither"
    BY <2>1, <2>3, <1>4 DEF Targets
  <2>4. CASE cmd.targets = "args over data"
    <3>1. inv.args = <<>>
      BY <1>1, <2>4, PayloadsAreRead DEF Overridden, ReadsPayload, Has
    <3> QED BY <2>1, <2>4, <3>1, <1>4 DEF Targets
  <2> QED BY <1>3, <1>6, <2>2, <2>3, <2>4
<1> QED BY <1>5, <1>6

LEMMA WantedTyped ==
  ASSUME StartOK
  PROVE  Wanted \subseteq Everything
<1>1. ToSet(inv.args) \subseteq Everything /\ ToSet(inv.payload) \subseteq Everything
  BY StartTyped DEF ToSet
<1> QED BY <1>1 DEF Wanted

(***************************************************************************)
(* When all is prepared, the requests are about nothing but what is        *)
(* wanted, and of a command that looks at each error about all of it.      *)
(***************************************************************************)
LEMMA RequestsWanted ==
  ASSUME TypeOK, FoundInv, IntactInv, steps = <<>>, ~Overridden
  PROVE  /\ Covered(Requests) \subseteq Wanted
         /\ cmd.report = "errs" => Wanted \subseteq Covered(Requests)
<1>1. /\ StartOK /\ cmd \in Commands /\ Wanted \subseteq Everything
      /\ Covered(Requests) = IF Collective THEN Everything ELSE ToSet(listed)
  BY RequestsCover, WantedTyped DEF TypeOK, WorkOK, StartOK
<1>2. ~Ahead("read", steps)
  BY DEF Ahead
<1>3. CASE inv.all
  BY <1>1, <1>3 DEF Collective, Wanted
<1>4. CASE ~inv.all /\ ~ReadsPayload
  <2>1. listed = inv.args
    BY <1>4 DEF FoundInv
  <2> QED BY <1>1, <1>4, <2>1 DEF Collective, Wanted
<1>5. CASE ~inv.all /\ ReadsPayload
  <2>1. /\ cmd.targets # "undecodable"
        /\ listed \in Targets(inv.payload) \cup Targets(<<>>)
    BY <1>2, <1>5 DEF FoundInv
  <2>2. cmd.empty # "everything"
    BY <1>1, <1>5, PayloadFlag, PayloadsAreRead
  <2>3. Covered(Requests) = ToSet(listed)
    BY <1>1, <1>5, <2>2 DEF Collective
  <2>4. ToSet(listed) \subseteq Wanted
    BY <1>1, <1>5, <2>1, TargetsWanted
  <2>5. ASSUME cmd.report = "errs"
        PROVE  ToSet(listed) = Wanted
    <3>1. cmd.targets # "neither"
      BY <1>1, <2>5, PayloadsAreIntact
    <3>2. listed \in Targets(inv.payload)
      BY <1>2, <1>5, <2>5 DEF IntactInv
    <3> QED BY <1>1, <1>5, <2>1, <3>1, <3>2, TargetsWanted
  <2> QED BY <2>3, <2>4, <2>5
<1> QED BY <1>3, <1>4, <1>5

(***************************************************************************)
(* Of a command whose flags do not go over its payload, what is done and   *)
(* the requests left are about nothing but what is wanted; and if it looks *)
(* at each error, about all of it, until a request fails.                  *)
(***************************************************************************)
WantedInv ==
  ~Overridden =>
    /\ Covered(todo) \cup done \subseteq Wanted
    /\ cmd.report = "errs" /\ ~Failed /\ phase = "request" => Wanted \subseteq done \cup Covered(todo)
    /\ cmd.report = "errs" /\ phase = "ended" /\ exit = 0 => Wanted \subseteq done

LEMMA WantedHolds == Spec => []WantedInv
<1>1. Init => WantedInv
  BY DEF Init, WantedInv, Covered, NoExit
<1>2. WantedInv /\ TypeOK /\ FoundInv /\ IntactInv /\ [Next]_vars => WantedInv'
  <2> SUFFICES ASSUME WantedInv, TypeOK, FoundInv, IntactInv, [Next]_vars, ~Overridden
               PROVE  WantedInv'
    BY StartKept DEF WantedInv
  <2> USE StartKept DEF WantedInv, Exit, Quit, work
  <2>1. CASE UNCHANGED <<todo, done, answers>> /\ phase' # "request" /\ (phase' = "ended" => exit' # 0)
    BY <2>1 DEF Covered
  <2>2. CASE UNCHANGED <<todo, done, answers, phase, exit>>
    BY <2>2 DEF Covered, Failed
  <2>3. CASE FirstRequest
    <3>1. steps = <<>> /\ todo' = Requests /\ done' = done /\ done = {} /\ phase' = "request"
      BY <2>3 DEF FirstRequest, FoundInv
    <3>2. Covered(todo') = Covered(Requests)
      BY <3>1
    <3> QED BY <3>1, <3>2, RequestsWanted
  <2>4. CASE RequestSucceeds
    <3>1. todo # <<>> /\ todo' = Tail(todo) /\ done' = done \cup Head(todo) /\ phase = "request" /\ phase' = phase
      BY <2>4 DEF RequestSucceeds, Requesting, Answer
    <3>2. Covered(todo) = Head(todo) \cup Covered(todo')
      BY <3>1, CoveredTail DEF TypeOK, WorkOK
    <3>3. Failed => Failed'
      <4>1. PICK a \in {"ok", "empty", "failed"} : answers' = Append(answers, a)
        BY <2>4 DEF RequestSucceeds, Answer
      <4>2. answers \in Seq({"ok", "empty", "failed"})
        BY DEF TypeOK, WorkOK
      <4>3. \A i \in DOMAIN answers : i \in DOMAIN answers' /\ answers'[i] = answers[i]
        BY <4>1, <4>2
      <4> QED BY <4>3 DEF Failed
    <3> QED BY <3>1, <3>2, <3>3
  <2>5. CASE RequestFails
    <3>1. /\ todo # <<>> /\ todo' = Tail(todo) /\ done' \in {done, done \cup Head(todo)}
          /\ phase = "request" /\ phase' = phase /\ answers' = Append(answers, "failed")
      BY <2>5 DEF RequestFails, Requesting, Answer
    <3>2. Covered(todo) = Head(todo) \cup Covered(todo')
      BY <3>1, CoveredTail DEF TypeOK, WorkOK
    <3>3. Failed'
      <4>1. answers \in Seq({"ok", "empty", "failed"})
        BY DEF TypeOK, WorkOK
      <4>2. Len(answers) + 1 \in DOMAIN answers' /\ answers'[Len(answers) + 1] = "failed"
        BY <3>1, <4>1
      <4> QED BY <4>2 DEF Failed
    <3> QED BY <3>1, <3>2, <3>3
  <2>6. CASE Report
    <3>1. /\ UNCHANGED <<todo, done, answers>> /\ todo = <<>> /\ phase = "request" /\ phase' = "ended"
          /\ ~(Failed /\ Seen)
      BY <2>6 DEF Report, Finished
    <3>2. Covered(todo) = {} /\ Covered(todo') = {}
      BY <3>1 DEF Covered
    <3>3. cmd.report = "errs" => ~Failed
      BY <3>1 DEF Seen
    <3> QED BY <3>1, <3>2, <3>3
  <2>7. CASE Validate \/ Refuse \/ AnswerNo \/ AskFails \/ ConnectFails \/ ReadFails \/ RefuseEmpty
             \/ ReportFailure \/ Interrupt
    BY <2>1, <2>7 DEF Validate, Refuse, AnswerNo, AskFails, ConnectFails, ReadFails, RefuseEmpty,
                      ReportFailure, Interrupt
  <2>8. CASE SkipQuestion \/ AnswerYes \/ AskAgain \/ Connect \/ ReadNothing \/ ReadPayload
             \/ ReadEmpty \/ Ended \/ UNCHANGED vars
    BY <2>2, <2>8 DEF SkipQuestion, AnswerYes, AskAgain, Connect, ReadNothing, ReadPayload,
                      ReadEmpty, StepDone, Ended, vars
  <2> QED
    BY <2>3, <2>4, <2>5, <2>6, <2>7, <2>8 DEF Next, Prepare, Perform
<1> QED BY <1>1, <1>2, TypeCorrect, FoundHolds, IntactHolds, PTL DEF Spec

(***************************************************************************)
(* A command that looks at the error of each request and exits with 0 has  *)
(* done everything that was wanted, whichever requests the services        *)
(* refuse, and whatever is on stdin.                                       *)
(***************************************************************************)
THEOREM SuccessIsDone == Spec => []SuccessMeansDone
<1>1. WantedInv => SuccessMeansDone
  BY DEF WantedInv, SuccessMeansDone
<1> QED BY <1>1, WantedHolds, PTL

(***************************************************************************)
(* No command acts on anything it was not given: not on the arguments next *)
(* to a payload, not on everything for want of a payload.                  *)
(***************************************************************************)
THEOREM OnlyWantedTouched == Spec => []NothingElseTouched
<1>1. WantedInv => NothingElseTouched
  BY DEF WantedInv, NothingElseTouched
<1> QED BY <1>1, WantedHolds, PTL

-----------------------------------------------------------------------------
(* A question and a payload on one stdin *)

(***************************************************************************)
(* A deletion with its payload on stdin and a question to ask has the      *)
(* question still before it when it has read stdin to its end, or is one   *)
(* of those that make no request of the payload.                           *)
(***************************************************************************)
AsksAfter(list) ==
  \A j \in DOMAIN list : list[j] = "ask" => \E i \in 1..(j - 1) : list[i] = "read"

Fruitless ==
  cmd.targets \in {"neither", "undecodable"} /\ cmd.empty = "nothing" /\ cmd.batch = "each"

PipedInv ==
  cmd.verb = "delete" /\ inv.data = "stdin" /\ ~inv.all /\ ~Waived =>
    /\ answers = <<>>
    /\ \/ Ahead("ask", steps) /\ (stdin = <<>> \/ AsksAfter(steps))
       \/ Fruitless /\ todo = <<>>

LEMMA StillAfter ==
  ASSUME NEW list \in Seq(Steps), list # <<>>, AsksAfter(list)
  PROVE  /\ Head(list) # "ask"
         /\ Head(list) # "read" => AsksAfter(Tail(list))
<1>1. 1 \in DOMAIN list /\ Head(list) = list[1] /\ ~ \E i \in 1..(1 - 1) : list[i] = "read"
  OBVIOUS
<1>2. ASSUME Head(list) # "read", NEW j \in DOMAIN Tail(list), Tail(list)[j] = "ask"
      PROVE  \E i \in 1..(j - 1) : Tail(list)[i] = "read"
  <2>1. j \in Nat /\ j + 1 \in DOMAIN list /\ list[j + 1] = "ask"
    BY <1>2
  <2>2. PICK i \in 1..((j + 1) - 1) : list[i] = "read"
    BY <2>1 DEF AsksAfter
  <2>3. i # 1
    BY <1>1, <1>2, <2>2
  <2>4. i - 1 \in 1..(j - 1)
    BY <2>1, <2>2, <2>3
  <2>5. i - 1 \in DOMAIN Tail(list) /\ Tail(list)[i - 1] = list[i]
    BY <2>4
  <2> QED BY <2>2, <2>4, <2>5
<1> QED BY <1>1, <1>2 DEF AsksAfter

LEMMA PipedHolds == Spec => []PipedInv
<1>1. Init /\ TypeOK => PipedInv
  <2> SUFFICES ASSUME Init, TypeOK, cmd.verb = "delete", inv.data = "stdin" PROVE PipedInv
    BY DEF PipedInv
  <2>1. cmd \in Commands /\ "data" \in cmd.flags
    BY DEF TypeOK, StartOK, CommandLines
  <2>2. AsksAfter(steps) \/ Fruitless
    BY <2>1, DeletionsRead DEF Init, AsksAfter, Fruitless
  <2>3. Ahead("ask", steps)
    BY <2>1, DeletesAsk DEF Init, Ahead
  <2> QED BY <2>2, <2>3 DEF Init, PipedInv
<1>2. PipedInv /\ TypeOK /\ FoundInv /\ [Next]_vars => PipedInv'
  <2> SUFFICES ASSUME PipedInv, TypeOK, FoundInv, [Next]_vars,
                      cmd.verb = "delete", inv.data = "stdin", ~inv.all, ~Waived
               PROVE  PipedInv'
    BY StartKept DEF PipedInv
  <2>1. steps \in Seq(Steps) /\ ReadsStdin /\ ReadsPayload
    BY DEF TypeOK, ControlOK, ReadsStdin, ReadsPayload
  <2>2. Fruitless' = Fruitless
    BY StartKept DEF Fruitless
  <2> USE StartKept, <2>2 DEF PipedInv, Exit, Quit, work
  <2>3. CASE UNCHANGED <<stdin, steps, todo, answers>>
    BY <2>3 DEF Ahead, AsksAfter
  <2>4. CASE SkipQuestion
    BY <2>4 DEF SkipQuestion
  <2>5. CASE AnswerYes \/ AskAgain
    <3>1. stdin # <<>> /\ steps # <<>> /\ Head(steps) = "ask" /\ UNCHANGED <<todo, answers>>
      BY <2>5 DEF AnswerYes, AskAgain, Doing
    <3>2. Fruitless
      BY <2>1, <3>1, StillAfter
    <3> QED BY <3>1, <3>2, StillAfter, <2>1
  <2>6. CASE Connect
    <3>1. /\ steps # <<>> /\ Head(steps) = "connect" /\ steps' = Tail(steps)
          /\ UNCHANGED <<stdin, todo, answers>>
      BY <2>6 DEF Connect, Doing, StepDone
    <3>2. Ahead("ask", steps) => Ahead("ask", steps')
      BY <2>1, <3>1, StillAhead
    <3>3. AsksAfter(steps) => AsksAfter(steps')
      BY <2>1, <3>1, StillAfter
    <3> QED BY <3>1, <3>2, <3>3
  <2>7. CASE ReadNothing
    BY <2>1, <2>7 DEF ReadNothing
  <2>8. CASE ReadPayload \/ ReadEmpty
    <3>1. /\ steps # <<>> /\ Head(steps) = "read" /\ steps' = Tail(steps)
          /\ stdin' = <<>> /\ UNCHANGED <<todo, answers>>
      BY <2>1, <2>8 DEF ReadPayload, ReadEmpty, Doing, StepDone
    <3>2. Ahead("ask", steps) => Ahead("ask", steps')
      BY <2>1, <3>1, StillAhead
    <3> QED BY <3>1, <3>2
  <2>9. CASE FirstRequest
    <3>1. steps = <<>> /\ todo' = Requests /\ UNCHANGED <<stdin, steps, answers>>
      BY <2>9 DEF FirstRequest
    <3>2. ~Ahead("ask", steps) /\ ~Ahead("read", steps)
      BY <3>1 DEF Ahead
    <3>3. Fruitless
      BY <3>2
    <3>4. /\ cmd.targets # "undecodable"
          /\ listed \in Targets(inv.payload) \cup Targets(<<>>)
      BY <2>1, <3>2 DEF FoundInv
    <3>5. listed = <<>>
      BY <3>3, <3>4 DEF Fruitless, Targets
    <3>6. Requests = <<>>
      BY <3>3, <3>5 DEF Requests, Collective, Fruitless
    <3> QED BY <3>1, <3>3, <3>6
  <2>10. CASE RequestSucceeds \/ RequestFails
    <3>1. phase = "request" /\ todo # <<>>
      BY <2>10 DEF RequestSucceeds, RequestFails, Requesting
    <3>2. ~Ahead("ask", steps)
      BY <3>1 DEF FoundInv, Ahead
    <3> QED BY <3>1, <3>2
  <2> QED
    BY <2>3, <2>4, <2>5, <2>6, <2>7, <2>8, <2>9, <2>10
    DEF Next, Prepare, Perform, Validate, Refuse, AnswerNo, AskFails, ConnectFails, ReadFails,
        RefuseEmpty, Report, ReportFailure, Interrupt, Ended, vars
<1> QED BY <1>1, <1>2, TypeCorrect, FoundHolds, PTL DEF Spec

(***************************************************************************)
(* A deletion with its payload on stdin sends nothing unless the command   *)
(* line waives the question or says --all.                                 *)
(***************************************************************************)
THEOREM PipedDeletesAreWaived == Spec => []PipedDeletesNeedNoConfirm
<1>1. PipedInv => PipedDeletesNeedNoConfirm
  BY DEF PipedInv, PipedDeletesNeedNoConfirm
<1> QED BY <1>1, PipedHolds, PTL

-----------------------------------------------------------------------------
(* What is printed *)

(***************************************************************************)
(* Induction on the natural numbers, for a set instead of a predicate.     *)
(***************************************************************************)
LEMMA NatSetInduction ==
  ASSUME NEW T, T \subseteq Nat, 0 \in T, \A n \in T : n + 1 \in T
  PROVE  T = Nat
<1> DEFINE Less == OpToRel(<, Nat)
<1>1. IsWellFoundedOn(Less, Nat)
  BY NatLessThanWellFounded, Zenon
<1>2. \A m, n \in Nat : m < n => <<m, n>> \in Less
  BY Zenon DEF OpToRel
<1> HIDE DEF Less
<1> SUFFICES ASSUME Nat \ T # {} PROVE FALSE
  OBVIOUS
<1>3. PICK x \in Nat \ T : \A y \in Nat \ T : ~(<<y, x>> \in Less)
  BY <1>1, WFMin
<1>4. x # 0 /\ x - 1 \in Nat /\ x - 1 < x
  OBVIOUS
<1>5. x - 1 \in T
  BY <1>2, <1>3, <1>4
<1>6. (x - 1) + 1 \in T
  BY <1>5
<1> QED BY <1>4, <1>6

(***************************************************************************)
(* A loop that keeps every position yields the positions in order.         *)
(***************************************************************************)
LEMMA AscendingAll ==
  ASSUME NEW n \in Nat, NEW kept, 1..n \subseteq kept
  PROVE  Ascending(kept, n) = [i \in 1..n |-> i] /\ Len(Ascending(kept, n)) = n
<1> DEFINE Body(f, k) == IF k = 0 THEN <<>>
                         ELSE IF k \in kept THEN Append(f[k - 1], k)
                         ELSE f[k - 1]
           Ident(k) == [i \in 1..k |-> i]
           all == [k \in 0..n |-> Ident(k)]
           upTo == CHOOSE f : f = [k \in 0..n |-> Body(f, k)]
<1>1. Ident(0) = <<>> /\ \A k \in 1..n : Append(Ident(k - 1), k) = Ident(k)
  OBVIOUS
<1>2. all = [k \in 0..n |-> Body(all, k)]
  <2> HIDE DEF Ident
  <2> SUFFICES ASSUME NEW k \in 0..n PROVE Ident(k) = Body(all, k)
    OBVIOUS
  <2>1. CASE k = 0
    BY <1>1, <2>1
  <2>2. CASE k # 0
    <3>1. k \in kept /\ k \in 1..n /\ k - 1 \in 0..n
      BY <2>2
    <3> QED BY <1>1, <2>2, <3>1
  <2> QED BY <2>1, <2>2
<1>3. upTo = [k \in 0..n |-> Body(upTo, k)]
  <2> HIDE DEF all, Body
  <2> QED BY <1>2
<1>4. Ascending(kept, n) = upTo[n]
  BY DEF Ascending
<1> DEFINE T == {k \in Nat : k \in 0..n => upTo[k] = Ident(k)}
<1>5. 0 \in T
  <2> HIDE DEF upTo, Ident
  <2> QED BY <1>1, <1>3
<1>6. ASSUME NEW k \in T PROVE k + 1 \in T
  <2> HIDE DEF upTo, Ident
  <2> SUFFICES ASSUME k + 1 \in 0..n PROVE upTo[k + 1] = Ident(k + 1)
    OBVIOUS
  <2>1. upTo[k] = Ident(k) /\ k + 1 \in kept /\ k + 1 # 0 /\ (k + 1) - 1 = k /\ k + 1 \in 1..n
    OBVIOUS
  <2>2. upTo[k + 1] = Append(upTo[k], k + 1)
    BY <1>3, <2>1
  <2> QED BY <1>1, <2>1, <2>2
<1>7. T = Nat
  <2> HIDE DEF T
  <2>1. T \subseteq Nat
    BY DEF T
  <2> QED BY <1>5, <1>6, <2>1, NatSetInduction
<1>8. upTo[n] = Ident(n)
  <2> HIDE DEF upTo, Ident
  <2> QED BY <1>7
<1>9. Len(Ident(n)) = n
  OBVIOUS
<1> HIDE DEF Ident, upTo
<1> QED BY <1>4, <1>8, <1>9 DEF Ident

(***************************************************************************)
(* When every answer came with something, the three ways of printing agree.*)
(***************************************************************************)
AllCame == \A i \in DOMAIN answers : answers[i] = "ok"

LEMMA OutputAgrees ==
  ASSUME TypeOK, AllCame, cmd.prints \in {"in order", "nonempty", "unshifted"}
  PROVE  Output = [i \in DOMAIN answers |-> <<Named(i), Named(i)>>]
<1> DEFINE Ident == [i \in Position |-> i]
<1>1. Len(answers) \in Nat /\ DOMAIN answers = Position
  <2>1. answers \in Seq({"ok", "empty", "failed"})
    BY DEF TypeOK, WorkOK
  <2> QED BY <2>1, LenProperties DEF Position
<1>2. Came = Ident /\ Len(Came) = Len(answers)
  <2>1. {i \in Position : answers[i] = "ok"} = Position
    BY <1>1 DEF AllCame
  <2> QED BY <1>1, <2>1, AscendingAll DEF Came, Position
<1>3. DOMAIN Came = Position /\ Len(Came) = Len(answers) /\ \A i \in Position : Came[i] = i
  BY <1>2
<1>4. Ascending({i \in DOMAIN Came : answers[i] = "ok"}, Len(Came)) = Ident
  <2>1. {i \in DOMAIN Came : answers[i] = "ok"} = Position
    BY <1>1, <1>3 DEF AllCame
  <2> QED BY <1>1, <1>3, <2>1, AscendingAll DEF Position
<1>5. OutputNonempty = OutputInOrder
  BY <1>3 DEF OutputNonempty, OutputInOrder
<1>6. OutputUnshifted = OutputInOrder
  BY <1>3, <1>4 DEF OutputUnshifted, OutputInOrder
<1>7. Output \in {OutputInOrder, OutputNonempty, OutputUnshifted}
  BY DEF Output
<1> QED BY <1>1, <1>5, <1>6, <1>7 DEF OutputInOrder

(***************************************************************************)
(* When everything asked for has come, all of it is printed, each under    *)
(* the name it was asked for: also by the commands that drop answers, and  *)
(* for however many.                                                       *)
(***************************************************************************)
THEOREM AllIsPrinted == Spec => []AllAnswersPrinted
<1>1. Init => AllAnswersPrinted
  BY DEF Init, AllAnswersPrinted
<1>2. AllAnswersPrinted /\ TypeOK /\ [Next]_vars => AllAnswersPrinted'
  <2> SUFFICES ASSUME AllAnswersPrinted, TypeOK, [Next]_vars PROVE AllAnswersPrinted'
    OBVIOUS
  <2>1. CASE ~(phase' = "ended" /\ exit' = 0)
    BY <2>1 DEF AllAnswersPrinted
  <2>2. CASE Report
    <3>1. cmd' = cmd /\ answers' = answers /\ listed' = listed /\ printed' = Output
      BY <2>2 DEF Report, start
    <3> SUFFICES ASSUME AllCame, cmd.prints \in {"in order", "nonempty", "unshifted"}
                 PROVE  printed' = [i \in DOMAIN answers |-> <<Named(i), Named(i)>>]'
      BY <3>1 DEF AllAnswersPrinted, AllCame
    <3> QED BY <3>1, OutputAgrees DEF Named
  <2>3. CASE UNCHANGED vars
    BY <2>3 DEF vars, AllAnswersPrinted, Named
  <2>4. Running => exit = NoExit
    BY DEF Running
  <2> QED
    BY <2>1, <2>2, <2>3, <2>4
    DEF Next, Prepare, Perform, Validate, Refuse, SkipQuestion, AnswerYes, AnswerNo, AskAgain,
        AskFails, Connect, ConnectFails, ReadNothing, ReadPayload, ReadEmpty, ReadFails,
        FirstRequest, RefuseEmpty, RequestSucceeds, RequestFails, ReportFailure, Interrupt,
        Ended, Doing, StepDone, Requesting, Finished, Answer, Exit, Quit, NoExit
<1> QED BY <1>1, <1>2, TypeCorrect, PTL DEF Spec

=============================================================================
