--------------------------- MODULE RcsConsoleProofs ---------------------------
(***************************************************************************)
(* The safety properties of RcsConsole, proved for every kind of stdin and *)
(* every behaviour of the outside world.                                   *)
(***************************************************************************)
EXTENDS RcsConsole, TLAPS

-----------------------------------------------------------------------------
(* The inductive invariant, in four named parts. *)

(***************************************************************************)
(* A goroutine that is done has put at most one error in errChan, and one  *)
(* that has not started has put none.                                      *)
(***************************************************************************)
InputSent == IF input = "exited" THEN 1 ELSE 0
OutputSent == IF output \in {"closeDone", "exited"} THEN 1 ELSE 0

ErrorsAccounted ==
  /\ Len(errChan) <= InputSent + OutputSent
  /\ main \in {"dial", "notify", "startInput"} => input = "none"
  /\ main \in {"dial", "notify", "startInput", "deferRestore", "startOutput"}
       => output = "none"

(***************************************************************************)
(* The deferred calls registered so far, by control point, and what they   *)
(* say of the terminal and of a default signal action.                     *)
(***************************************************************************)
DefersMatch ==
  /\ main \in {"dial", "returned"} => defers = 0
  /\ main = "notify" => defers = 1
  /\ main \in {"startInput", "deferRestore"} => defers = 2
  /\ main \in {"startOutput", "select", "sendClose", "closing", "linger"} => defers = 3
  /\ tty = "raw" => main = "deferRestore" \/ defers = 3
  /\ proc = "killed" => defers < 2

(***************************************************************************)
(* The flag of the websocket library is up exactly while one of the two    *)
(* writers is in a write.                                                  *)
(***************************************************************************)
OneWriter ==
  /\ conn.writing <=> (input = "writing" \/ main = "closing")
  /\ ~(input = "writing" /\ main = "closing")

(***************************************************************************)
(* Before any outside signal an interrupt comes from the input goroutine,    *)
(* which has then stopped.                                                 *)
(***************************************************************************)
InterruptFromInput ==
  "signal" \notin arrived =>
    /\ interrupt > 0 \/ main \in {"sendClose", "closing", "linger"} => input = "exited"
    /\ result # "panic"
    /\ proc # "panicked"

IInv == TypeOK /\ ErrorsAccounted /\ DefersMatch /\ OneWriter /\ InterruptFromInput

-----------------------------------------------------------------------------
(***************************************************************************)
(* What the order of the deferred calls gives at each depth.               *)
(***************************************************************************)
LEMMA DeferOrder ==
  /\ Len(DeferStack) = 3
  /\ \A d \in 1..3 : /\ DeferStack[d] = "restore" <=> d = 3
                     /\ DeferStack[d] = "stop" <=> d = 2
                     /\ DeferStack[d] = "close" <=> d = 1
  BY DEF DeferStack

LEMMA NotifiedDepth == ASSUME DefersOK PROVE Notified <=> defers >= 2
  BY DeferOrder DEF DefersOK, Notified

-----------------------------------------------------------------------------
(* Typing. *)

LEMMA InitTypeOK == Init => TypeOK
  <1> SUFFICES ASSUME Init PROVE TypeOK
    OBVIOUS
  <1>1. ControlOK
    BY StdinAssumption DEF Init, ControlOK
  <1>7. DefersOK
    BY DEF Init, DefersOK
  <1>2. ChannelsOK
    BY DEF Init, ChannelsOK, InterruptCap
  <1>6. FlagsOK
    BY DEF Init, FlagsOK
  <1>3. ConnOK
    BY DEF Init, ConnOK
  <1>4. FateOK
    BY DEF Init, FateOK
  <1>5. QED
    BY <1>1, <1>2, <1>3, <1>4, <1>6, <1>7 DEF TypeOK

LEMMA NextControlOK ==
  ASSUME ControlOK, Next PROVE ControlOK'
  <1> USE DEF ControlOK, channels, session, Return, InputErrors, OutputErrors
  <1>1. CASE Main
    <2>1. CASE Dial
      BY <2>1 DEF Dial
    <2>8. CASE NotifySignals \/ DeferRestore \/ StartOutputStream
      BY <2>8 DEF NotifySignals, DeferRestore, StartOutputStream
    <2>2. CASE StartInputStream
      BY <2>2 DEF StartInputStream
    <2>3. CASE SelectCancelled \/ SelectError \/ SelectInterrupt
      BY <2>3 DEF SelectCancelled, SelectError, SelectInterrupt
    <2>4. CASE SendCloseBegin \/ SendCloseEnd \/ LingerDone \/ LingerTimeout
      BY <2>4 DEF SendCloseBegin, SendCloseEnd, LingerDone, LingerTimeout
    <2>5. CASE RunDefer
      BY <2>5 DEF RunDefer
    <2>6. CASE ReturnToCaller \/ ExitProcess
      BY <2>6 DEF ReturnToCaller, ExitProcess
    <2>7. QED
      BY <1>1, <2>1, <2>2, <2>3, <2>4, <2>5, <2>6, <2>8 DEF Main
  <1>2. CASE Input
    BY <1>2 DEF Input, InputEof, InputData, InputFails, InputCtrlC,
       InputSendsInterrupt, InputWriteBegin, InputWriteEnd, InputSendsError
  <1>3. CASE Output
    BY <1>3 DEF Output, OutputReadFails, OutputWriteFails, OutputSendsError,
       OutputClosesDone
  <1>4. CASE World \/ UNCHANGED vars
    BY <1>4 DEF World, PeerLeaves, Signal, Cancel, vars
  <1>5. QED
    BY <1>1, <1>2, <1>3, <1>4 DEF Next, Step, Ended

LEMMA NextChannelsOK ==
  ASSUME ChannelsOK, Next PROVE ChannelsOK'
  <1> USE DEF ChannelsOK, InterruptCap
  <1>1. CASE SelectError
    BY <1>1 DEF SelectError
  <1>2. CASE SelectInterrupt
    BY <1>2 DEF SelectInterrupt
  <1>3. CASE InputSendsInterrupt
    BY <1>3 DEF InputSendsInterrupt
  <1>4. CASE InputSendsError
    <2>1. input \in Errors
      BY <1>4 DEF InputSendsError, Errors, InputErrors
    <2>2. interrupt' = interrupt /\ errChan' = Append(errChan, input)
      BY <1>4 DEF InputSendsError
    <2>3. QED
      BY <2>1, <2>2
  <1>5. CASE OutputSendsError
    <2>1. output \in Errors
      BY <1>5 DEF OutputSendsError, Errors
    <2>2. QED
      BY <1>5, <2>1 DEF OutputSendsError
  <1>7. CASE Signal
    BY <1>7 DEF Signal
  <1>9. CASE UNCHANGED <<interrupt, errChan>>
    BY <1>9
  <1>10. QED
    BY <1>1, <1>2, <1>3, <1>4, <1>5, <1>7, <1>9
    DEF Next, Ended, Step, Main, Input, Output, World, vars, channels, Dial,
       NotifySignals, StartInputStream, DeferRestore, StartOutputStream,
       SelectCancelled, SendCloseBegin, SendCloseEnd, LingerDone, LingerTimeout,
       RunDefer, ReturnToCaller, ExitProcess, InputEof, InputData, InputFails,
       InputCtrlC, InputWriteBegin, InputWriteEnd, OutputReadFails,
       OutputWriteFails, OutputClosesDone, PeerLeaves, Cancel

LEMMA NextFlagsOK ==
  ASSUME FlagsOK, Next PROVE FlagsOK'
  <1> USE DEF FlagsOK, channels
  <1>1. CASE OutputClosesDone
    BY <1>1 DEF OutputClosesDone
  <1>2. CASE Cancel
    BY <1>2 DEF Cancel
  <1>5. CASE Signal
    BY <1>5 DEF Signal
  <1>3. CASE UNCHANGED <<done, arrived>>
    BY <1>3
  <1>4. QED
    BY <1>1, <1>2, <1>3, <1>5
    DEF Next, Ended, Step, Main, Input, Output, World, vars, channels, Dial,
       NotifySignals, StartInputStream, DeferRestore, StartOutputStream,
       SelectCancelled, SelectError, SelectInterrupt, SendCloseBegin, SendCloseEnd,
       LingerDone, LingerTimeout, RunDefer, ReturnToCaller, ExitProcess, InputEof,
       InputData, InputFails, InputCtrlC, InputSendsInterrupt, InputWriteBegin,
       InputWriteEnd, InputSendsError, OutputReadFails, OutputWriteFails,
       OutputSendsError, PeerLeaves

LEMMA NextConnOK ==
  ASSUME ConnOK, Next PROVE ConnOK'
  <1> USE DEF ConnOK
  <1>1. CASE Dial
    BY <1>1 DEF Dial
  <1>2. CASE SendCloseBegin \/ SendCloseEnd
    BY <1>2 DEF SendCloseBegin, SendCloseEnd
  <1>3. CASE RunDefer
    BY <1>3 DEF RunDefer
  <1>4. CASE InputWriteBegin \/ InputWriteEnd
    BY <1>4 DEF InputWriteBegin, InputWriteEnd
  <1>5. CASE OutputReadFails
    BY <1>5 DEF OutputReadFails
  <1>6. CASE PeerLeaves
    BY <1>6 DEF PeerLeaves
  <1>7. CASE UNCHANGED conn
    BY <1>7
  <1>8. QED
    BY <1>1, <1>2, <1>3, <1>4, <1>5, <1>6, <1>7
    DEF Next, Ended, Step, Main, Input, Output, World, vars, NotifySignals,
       StartInputStream, DeferRestore, StartOutputStream, SelectCancelled,
       SelectError, SelectInterrupt, LingerDone, LingerTimeout, ReturnToCaller,
       ExitProcess, InputEof, InputData, InputFails, InputCtrlC,
       InputSendsInterrupt, InputSendsError, OutputWriteFails, OutputSendsError,
       OutputClosesDone, Signal, Cancel

LEMMA NextFateOK ==
  ASSUME ChannelsOK, FateOK, Next PROVE FateOK'
  <1> USE DEF FateOK, Return
  <1>1. CASE SelectError
    <2>1. Head(errChan) \in Errors
      BY <1>1 DEF SelectError, ChannelsOK
    <2>2. QED
      BY <1>1, <2>1 DEF SelectError
  <1>2. CASE Main /\ ~SelectError
    BY <1>2 DEF Main, Dial, NotifySignals, StartInputStream, DeferRestore,
       StartOutputStream, SelectCancelled, SelectInterrupt, SendCloseBegin,
       SendCloseEnd, LingerDone, LingerTimeout, RunDefer, ReturnToCaller, ExitProcess
  <1>3. CASE Input
    BY <1>3 DEF Input, InputEof, InputData, InputFails, InputCtrlC,
       InputSendsInterrupt, InputWriteBegin, InputWriteEnd, InputSendsError
  <1>4. CASE Output \/ World \/ UNCHANGED vars
    BY <1>4 DEF Output, OutputReadFails, OutputWriteFails, OutputSendsError,
       OutputClosesDone, World, PeerLeaves, Signal, Cancel, vars
  <1>5. QED
    BY <1>1, <1>2, <1>3, <1>4 DEF Next, Step, Ended

-----------------------------------------------------------------------------
(* The parts of the inductive invariant. *)

LEMMA NextDefers ==
  ASSUME ControlOK, DefersOK, DefersMatch, Next
  PROVE  DefersOK' /\ DefersMatch'
  <1> USE DEF DefersOK, DefersMatch, Return, session
  <1>1. CASE Dial
    BY <1>1 DEF Dial
  <1>2. CASE Running /\ NotifySignals
    BY <1>2 DEF Running, NotifySignals
  <1>3. CASE StartInputStream
    BY <1>3 DEF StartInputStream
  <1>4. CASE DeferRestore
    BY <1>4 DEF DeferRestore
  <1>5. CASE StartOutputStream
    BY <1>5 DEF StartOutputStream
  <1>6. CASE SelectCancelled \/ SelectError \/ SelectInterrupt
    BY <1>6 DEF SelectCancelled, SelectError, SelectInterrupt
  <1>7. CASE SendCloseBegin \/ SendCloseEnd \/ LingerDone \/ LingerTimeout
    BY <1>7 DEF SendCloseBegin, SendCloseEnd, LingerDone, LingerTimeout
  <1>8. CASE RunDefer
    BY <1>8, DeferOrder DEF RunDefer, LastDefer
  <1>9. CASE ReturnToCaller \/ ExitProcess
    BY <1>9 DEF ReturnToCaller, ExitProcess
  <1>10. CASE Signal
    BY <1>10, NotifiedDepth DEF Signal
  <1>11. CASE InputWriteBegin
    BY <1>11 DEF InputWriteBegin
  <1>12. CASE UNCHANGED <<main, defers, tty, proc>>
    BY <1>12
  <1>13. QED
    BY <1>1, <1>2, <1>3, <1>4, <1>5, <1>6, <1>7, <1>8, <1>9, <1>10, <1>11, <1>12
    DEF Next, Ended, Step, Main, Input, Output, World, vars, InputEof, InputData,
       InputFails, InputCtrlC, InputSendsInterrupt, InputWriteEnd, InputSendsError,
       OutputReadFails, OutputWriteFails, OutputSendsError, OutputClosesDone,
       PeerLeaves, Cancel

LEMMA NextErrors ==
  ASSUME ControlOK, ChannelsOK, ErrorsAccounted, Next
  PROVE  ErrorsAccounted'
  <1> USE DEF ErrorsAccounted, InputSent, OutputSent
  <1>0. errChan \in Seq(Errors)
    BY DEF ChannelsOK
  <1>1. CASE Dial \/ NotifySignals \/ DeferRestore
    BY <1>1 DEF Dial, NotifySignals, DeferRestore, Return, channels
  <1>2. CASE StartInputStream
    BY <1>2 DEF StartInputStream, Return, channels
  <1>3. CASE StartOutputStream
    BY <1>3 DEF StartOutputStream, channels
  <1>4. CASE SelectError
    <2>1. Len(errChan') = Len(errChan) - 1
      BY <1>0, <1>4 DEF SelectError
    <2>2. QED
      BY <1>0, <1>4, <2>1 DEF SelectError, Return
  <1>5. CASE SelectCancelled \/ SelectInterrupt \/ SendCloseBegin \/ SendCloseEnd
               \/ LingerDone \/ LingerTimeout \/ ReturnToCaller
    BY <1>5 DEF SelectCancelled, SelectInterrupt, SendCloseBegin, SendCloseEnd,
       LingerDone, LingerTimeout, ReturnToCaller, Return, channels
  <1>6. CASE InputEof \/ InputData \/ InputFails \/ InputCtrlC \/ InputSendsInterrupt
    BY <1>6 DEF InputEof, InputData, InputFails, InputCtrlC, InputSendsInterrupt, channels
  <1>7. CASE InputWriteBegin \/ InputWriteEnd
    BY <1>7 DEF InputWriteBegin, InputWriteEnd, channels
  <1>8. CASE InputSendsError
    <2>0. errChan' = Append(errChan, input) /\ input \in Errors
      BY <1>8 DEF InputSendsError, Errors, InputErrors
    <2>1. Len(errChan') = Len(errChan) + 1
      BY <1>0, <2>0
    <2>2. input # "exited" /\ input # "none"
      BY <1>8 DEF InputSendsError
    <2>3. input' = "exited" /\ UNCHANGED <<main, output>>
      BY <1>8 DEF InputSendsError
    <2>4. QED
      BY <1>0, <2>1, <2>2, <2>3
  <1>9. CASE OutputReadFails \/ OutputWriteFails \/ OutputClosesDone
    BY <1>9 DEF OutputReadFails, OutputWriteFails, OutputClosesDone, channels
  <1>10. CASE OutputSendsError
    <2>1. Len(errChan') = Len(errChan) + 1
      BY <1>0, <1>10 DEF OutputSendsError
    <2>2. output \notin {"closeDone", "exited", "none"}
      BY <1>10 DEF OutputSendsError, OutputErrors
    <2>3. output' = "closeDone" /\ UNCHANGED <<main, input>>
      BY <1>10 DEF OutputSendsError
    <2>4. QED
      BY <1>0, <2>1, <2>2, <2>3
  <1>11. CASE UNCHANGED <<main, input, output, errChan>>
    BY <1>11
  <1>12. QED
    BY <1>1, <1>2, <1>3, <1>4, <1>5, <1>6, <1>7, <1>8, <1>9, <1>10, <1>11
    DEF Next, Ended, Step, Main, Input, Output, World, vars, session, channels,
       RunDefer, ExitProcess, PeerLeaves, Signal, Cancel

LEMMA NextWriter ==
  ASSUME ControlOK, ConnOK, ErrorsAccounted, OneWriter, Next
  PROVE  OneWriter'
  <1> USE DEF OneWriter, ConnOK, Return
  <1>1. CASE Dial \/ NotifySignals \/ DeferRestore \/ StartOutputStream
    BY <1>1 DEF Dial, NotifySignals, DeferRestore, StartOutputStream
  <1>2. CASE StartInputStream
    BY <1>2 DEF StartInputStream, ErrorsAccounted
  <1>3. CASE SelectCancelled \/ SelectError \/ SelectInterrupt \/ LingerDone
               \/ LingerTimeout \/ ReturnToCaller
    BY <1>3 DEF SelectCancelled, SelectError, SelectInterrupt, LingerDone,
       LingerTimeout, ReturnToCaller
  <1>4. CASE SendCloseBegin
    BY <1>4 DEF SendCloseBegin, WriteRefused, WriteRaces, WriteStarts
  <1>5. CASE SendCloseEnd
    BY <1>5 DEF SendCloseEnd
  <1>6. CASE RunDefer
    BY <1>6 DEF RunDefer, session
  <1>7. CASE InputEof \/ InputData \/ InputFails \/ InputCtrlC \/ InputSendsInterrupt
    BY <1>7 DEF InputEof, InputData, InputFails, InputCtrlC, InputSendsInterrupt
  <1>8. CASE InputWriteBegin
    BY <1>8 DEF InputWriteBegin, WriteRefused, WriteRaces, WriteStarts
  <1>9. CASE InputWriteEnd
    BY <1>9 DEF InputWriteEnd
  <1>10. CASE InputSendsError
    BY <1>10 DEF InputSendsError
  <1>11. CASE OutputReadFails
    BY <1>11 DEF OutputReadFails
  <1>12. CASE PeerLeaves
    BY <1>12 DEF PeerLeaves, session
  <1>13. CASE UNCHANGED <<main, input, conn>>
    BY <1>13
  <1>14. QED
    BY <1>1, <1>2, <1>3, <1>4, <1>5, <1>6, <1>7, <1>8, <1>9, <1>10, <1>11, <1>12, <1>13
    DEF Next, Ended, Step, Main, Input, Output, World, vars, session, ExitProcess,
       OutputWriteFails, OutputSendsError, OutputClosesDone, Signal, Cancel

LEMMA NextInterrupt ==
  ASSUME ControlOK, ChannelsOK, ErrorsAccounted, OneWriter, InterruptFromInput, Next
  PROVE  InterruptFromInput'
  <1> SUFFICES ASSUME "signal" \notin arrived'
               PROVE  /\ interrupt' > 0 \/ main' \in {"sendClose", "closing", "linger"}
                           => input' = "exited"
                      /\ result' # "panic"
                      /\ proc' # "panicked"
    BY DEF InterruptFromInput
  <1>0. /\ interrupt > 0 \/ main \in {"sendClose", "closing", "linger"} => input = "exited"
        /\ result # "panic"
        /\ proc # "panicked"
        /\ interrupt \in 0..1
    <2>1. arrived \subseteq arrived'
      BY DEF Next, Ended, Step, Main, Input, Output, World, vars, Dial, NotifySignals,
         StartInputStream, DeferRestore, StartOutputStream, SelectCancelled,
         SelectError, SelectInterrupt, SendCloseBegin, SendCloseEnd, LingerDone,
         LingerTimeout, RunDefer, ReturnToCaller, ExitProcess, InputEof, InputData,
         InputFails, InputCtrlC, InputSendsInterrupt, InputWriteBegin, InputWriteEnd,
         InputSendsError, OutputReadFails, OutputWriteFails, OutputSendsError,
         OutputClosesDone, PeerLeaves, Signal, Cancel
    <2>2. QED
      BY <2>1 DEF InterruptFromInput, ChannelsOK, InterruptCap
  <1> USE DEF Return, channels
  <1>1. CASE Dial \/ NotifySignals \/ DeferRestore \/ StartOutputStream
    BY <1>0, <1>1 DEF Dial, NotifySignals, DeferRestore, StartOutputStream
  <1>2. CASE StartInputStream
    BY <1>0, <1>2 DEF StartInputStream, ErrorsAccounted
  <1>3. CASE SelectError
    <2>1. Head(errChan) \in Errors
      BY <1>3 DEF SelectError, ChannelsOK
    <2>2. Head(errChan) # "panic"
      BY <2>1 DEF Errors, InputErrors, OutputErrors
    <2>3. QED
      BY <1>0, <1>3, <2>2 DEF SelectError
  <1>4. CASE SelectCancelled \/ SelectInterrupt \/ LingerDone \/ LingerTimeout
    BY <1>0, <1>4 DEF SelectCancelled, SelectInterrupt, LingerDone, LingerTimeout
  <1>5. CASE SendCloseBegin
    BY <1>0, <1>5 DEF SendCloseBegin, WriteRaces, OneWriter
  <1>6. CASE SendCloseEnd
    BY <1>0, <1>6 DEF SendCloseEnd
  <1>7. CASE RunDefer \/ ReturnToCaller \/ ExitProcess
    BY <1>0, <1>7 DEF RunDefer, ReturnToCaller, ExitProcess, session
  <1>8. CASE InputEof \/ InputData \/ InputFails \/ InputCtrlC
    BY <1>0, <1>8 DEF InputEof, InputData, InputFails, InputCtrlC
  <1>9. CASE InputSendsInterrupt
    BY <1>0, <1>9 DEF InputSendsInterrupt
  <1>10. CASE InputWriteBegin
    BY <1>0, <1>10 DEF InputWriteBegin, WriteRaces, OneWriter
  <1>11. CASE InputWriteEnd \/ InputSendsError
    BY <1>0, <1>11 DEF InputWriteEnd, InputSendsError
  <1>12. CASE Signal
    BY <1>12 DEF Signal
  <1>13. CASE UNCHANGED <<main, input, interrupt, result, proc>>
    BY <1>0, <1>13
  <1>14. QED
    BY <1>1, <1>2, <1>3, <1>4, <1>5, <1>6, <1>7, <1>8, <1>9, <1>10, <1>11, <1>12, <1>13
    DEF Next, Ended, Step, Main, Input, Output, World, vars, session, OutputReadFails,
       OutputWriteFails, OutputSendsError, OutputClosesDone, PeerLeaves, Cancel

-----------------------------------------------------------------------------
LEMMA Inductive == Spec => []IInv
  <1>1. Init => IInv
    <2> SUFFICES ASSUME Init PROVE IInv
      OBVIOUS
    <2>1. ErrorsAccounted
      BY DEF Init, ErrorsAccounted, InputSent, OutputSent
    <2>2. DefersMatch
      BY DEF Init, DefersMatch
    <2>3. OneWriter
      BY DEF Init, OneWriter
    <2>4. InterruptFromInput
      BY DEF Init, InterruptFromInput
    <2>5. QED
      BY InitTypeOK, <2>1, <2>2, <2>3, <2>4 DEF IInv
  <1>2. IInv /\ [Next]_vars => IInv'
    <2> SUFFICES ASSUME IInv, [Next]_vars PROVE IInv'
      OBVIOUS
    <2>1. CASE Next
      <3> USE <2>1 DEF IInv, TypeOK
      <3>1. ControlOK' /\ ChannelsOK' /\ FlagsOK' /\ ConnOK' /\ FateOK'
        BY NextControlOK, NextChannelsOK, NextFlagsOK, NextConnOK, NextFateOK
      <3>2. DefersOK' /\ DefersMatch'
        BY NextDefers
      <3>3. ErrorsAccounted' /\ OneWriter' /\ InterruptFromInput'
        BY NextErrors, NextWriter, NextInterrupt
      <3>4. QED
        BY <3>1, <3>2, <3>3
    <2>2. CASE UNCHANGED vars
      <3> USE <2>2 DEF vars, IInv, TypeOK
      <3>1. ControlOK' /\ DefersOK'
        BY DEF ControlOK, DefersOK
      <3>2. ChannelsOK'
        BY DEF ChannelsOK
      <3>3. FlagsOK' /\ ConnOK'
        BY DEF FlagsOK, ConnOK
      <3>4. FateOK'
        BY DEF FateOK
      <3>5. ErrorsAccounted' /\ DefersMatch'
        BY DEF ErrorsAccounted, InputSent, OutputSent, DefersMatch
      <3>6. OneWriter' /\ InterruptFromInput'
        BY DEF OneWriter, InterruptFromInput
      <3>7. QED
        BY <3>1, <3>2, <3>3, <3>4, <3>5, <3>6
    <2>3. QED
      BY <2>1, <2>2
  <1>3. QED
    BY <1>1, <1>2, PTL DEF Spec

(***************************************************************************)
(* Every variable of a session keeps its type.                             *)
(***************************************************************************)
THEOREM TypeCorrect == Spec => []TypeOK
  <1>1. IInv => TypeOK
    BY DEF IInv
  <1>2. QED
    BY <1>1, Inductive, PTL

(***************************************************************************)
(* A goroutine with an error to report never finds errChan full.           *)
(***************************************************************************)
THEOREM ErrChanNeverFull == Spec => []ErrChanHasRoom
  <1>1. IInv => ErrChanHasRoom
    <2> SUFFICES ASSUME IInv, input \in InputErrors \/ output \in OutputErrors
                 PROVE  Len(errChan) < 2
      BY DEF ErrChanHasRoom, ErrChanCap
    <2>1. Len(errChan) \in Nat /\ Len(errChan) <= InputSent + OutputSent
      BY DEF IInv, TypeOK, ChannelsOK, ErrorsAccounted
    <2>2. CASE input \in InputErrors
      <3>1. input # "exited"
        BY <2>2 DEF InputErrors
      <3>2. InputSent = 0 /\ OutputSent \in 0..1
        BY <3>1 DEF InputSent, OutputSent
      <3>3. QED
        BY <2>1, <3>2
    <2>3. CASE output \in OutputErrors
      <3>1. OutputSent = 0 /\ InputSent \in 0..1
        BY <2>3 DEF InputSent, OutputSent, OutputErrors
      <3>2. QED
        BY <2>1, <3>1
    <2>4. QED
      BY <2>2, <2>3
  <1>2. QED
    BY <1>1, Inductive, PTL

(***************************************************************************)
(* The terminal is restored on every return of ConnectConsole, and a       *)
(* signal that kills the process never finds it raw.                       *)
(***************************************************************************)
THEOREM TerminalAlwaysRestored == Spec => []TerminalRestored
  <1>1. IInv => TerminalRestored
    BY DEF IInv, TypeOK, FateOK, DefersOK, DefersMatch, TerminalRestored
  <1>2. QED
    BY <1>1, Inductive, PTL

(***************************************************************************)
(* Without signals from outside, no write ever meets another.              *)
(***************************************************************************)
THEOREM CtrlCIsSafe == Spec => []CtrlCNeverRaces
  <1>1. IInv => CtrlCNeverRaces
    BY DEF IInv, InterruptFromInput, CtrlCNeverRaces
  <1>2. QED
    BY <1>1, Inductive, PTL

=============================================================================
