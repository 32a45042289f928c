------------------------------ MODULE RcsConsole ------------------------------
(***************************************************************************)
(* One interactive console session of `ochami rcs console connect`:        *)
(* RCSClient.ConnectConsole and the two goroutines it starts.              *)
(*                                                                         *)
(*   main    dials, puts the terminal in raw mode, starts both goroutines, *)
(*           waits in a select and runs its deferred calls on the way out; *)
(*   input   copies stdin to the websocket, Ctrl+C becomes an interrupt;   *)
(*   output  copies the websocket to stdout, closes done when it stops.    *)
(*                                                                         *)
(* They share the channels interrupt, errChan and done, the websocket      *)
(* connection and the terminal.  What is typed and printed is abstracted   *)
(* away; which control point each goroutine is at is not.                  *)
(***************************************************************************)
EXTENDS Naturals, Sequences

CONSTANTS
  StdinKinds   \* what stdin may be: a subset of {"terminal", "pipe"}

ASSUME StdinAssumption == StdinKinds \subseteq {"terminal", "pipe"}

VARIABLES
  stdin,      \* the kind of stdin of this session
  main,       \* where ConnectConsole is
  input,      \* where the stdin goroutine is
  output,     \* where the websocket reader is
  defers,     \* how many deferred calls ConnectConsole has registered
  interrupt,  \* number of signals in the channel interrupt
  errChan,    \* the errors in the channel errChan
  done,       \* has the channel done been closed
  tty,        \* the mode of the terminal
  conn,       \* the websocket connection
  arrived,    \* what has come from outside: a signal, a cancelled context
  result,     \* what ConnectConsole returns
  proc        \* the fate of the process

session == <<stdin, main, input, output>>
channels == <<interrupt, errChan, done>>
vars == <<stdin, main, input, output, defers, interrupt, errChan, done, tty,
          conn, arrived, result, proc>>

InterruptCap == 1   \* make(chan os.Signal, 1)
ErrChanCap_One == 1   \* seeded fault: one slot for two goroutines
ErrChanCap == 2     \* make(chan error, 2)

InputErrors == {"stdin", "write failed"}
OutputErrors == {"peer", "stdout"}
Errors == InputErrors \cup OutputErrors

(***************************************************************************)
(* The deferred calls in the order they are registered: conn.Close,        *)
(* signal.Stop, restoreTerminal.Restore.                                   *)
(***************************************************************************)
DeferStack_RestoreFirst == <<"close", "restore", "stop">>   \* seeded fault
DeferStack == <<"close", "stop", "restore">>

(***************************************************************************)
(* signal.Notify stays in force until the deferred signal.Stop has run.    *)
(***************************************************************************)
Notified == \E i \in 1..defers : DeferStack[i] = "stop"

Running == proc = "running"

(***************************************************************************)
(* The websocket library.  A write fails once either side has closed the   *)
(* connection.  It detects two writers at once by a flag, conn.writing,    *)
(* and panics: one concurrent writer is all it supports.                   *)
(***************************************************************************)
WriteRefused == ~conn.open \/ conn.closeSent
WriteRaces == ~WriteRefused /\ conn.writing
WriteStarts == ~WriteRefused /\ ~conn.writing

-----------------------------------------------------------------------------
Init ==
  /\ stdin \in StdinKinds
  /\ main = "dial"
  /\ input = "none"
  /\ output = "none"
  /\ defers = 0
  /\ interrupt = 0
  /\ errChan = <<>>
  /\ done = FALSE
  /\ tty = "cooked"
  /\ conn = [open |-> FALSE, closeSent |-> FALSE, writing |-> FALSE, peer |-> "up"]
  /\ arrived = {}
  /\ result = "none"
  /\ proc = "running"

-----------------------------------------------------------------------------
(* ConnectConsole *)

Return(r) ==
  /\ result' = r
  /\ main' = "unwind"

Dial ==
  /\ main = "dial"
  /\ \/ /\ conn' = [conn EXCEPT !.open = TRUE]
        /\ defers' = defers + 1
        /\ main' = "notify"
        /\ UNCHANGED result
     \/ /\ Return("dial")
        /\ UNCHANGED <<conn, defers>>
  /\ UNCHANGED <<stdin, input, output, channels, tty, arrived, proc>>

NotifySignals ==
  /\ main = "notify"
  /\ defers' = defers + 1
  /\ main' = "startInput"
  /\ UNCHANGED <<stdin, input, output, channels, tty, conn, arrived, result, proc>>

(***************************************************************************)
(* A terminal goes to raw mode before the goroutine starts; the deferred   *)
(* Restore is registered only after startConsoleInputStream has returned.  *)
(***************************************************************************)
StartInputStream ==
  /\ main = "startInput"
  /\ \/ /\ tty' = IF stdin = "terminal" THEN "raw" ELSE tty
        /\ input' = "read"
        /\ main' = "deferRestore"
        /\ UNCHANGED result
     \/ /\ stdin = "terminal"      \* GetState or MakeRaw fails
        /\ Return("tty")
        /\ UNCHANGED <<tty, input>>
  /\ UNCHANGED <<stdin, output, defers, channels, conn, arrived, proc>>

DeferRestore ==
  /\ main = "deferRestore"
  /\ defers' = defers + 1
  /\ main' = "startOutput"
  /\ UNCHANGED <<stdin, input, output, channels, tty, conn, arrived, result, proc>>

StartOutputStream ==
  /\ main = "startOutput"
  /\ output' = "read"
  /\ main' = "select"
  /\ UNCHANGED <<stdin, input, defers, channels, tty, conn, arrived, result, proc>>

(***************************************************************************)
(* The select of waitForConsoleExit takes any case that is ready.          *)
(***************************************************************************)
SelectCancelled ==
  /\ main = "select"
  /\ "cancel" \in arrived
  /\ Return("cancelled")
  /\ UNCHANGED <<stdin, input, output, defers, channels, tty, conn, arrived, proc>>

SelectError ==
  /\ main = "select"
  /\ errChan # <<>>
  /\ Return(Head(errChan))
  /\ errChan' = Tail(errChan)
  /\ UNCHANGED <<stdin, input, output, defers, interrupt, done, tty, conn, arrived, proc>>

SelectInterrupt ==
  /\ main = "select"
  /\ interrupt > 0
  /\ interrupt' = interrupt - 1
  /\ main' = "sendClose"
  /\ UNCHANGED <<stdin, input, output, defers, errChan, done, tty, conn, arrived,
                 result, proc>>

(***************************************************************************)
(* WriteMessage(CloseMessage) of the main goroutine.  A panic here still   *)
(* runs the deferred calls.                                                *)
(***************************************************************************)
SendCloseBegin ==
  /\ main = "sendClose"
  /\ \/ /\ WriteRefused
        /\ Return("nil")
        /\ UNCHANGED conn
     \/ /\ WriteRaces
        /\ Return("panic")
        /\ UNCHANGED conn
     \/ /\ WriteStarts
        /\ conn' = [conn EXCEPT !.writing = TRUE]
        /\ main' = "closing"
        /\ UNCHANGED result
  /\ UNCHANGED <<stdin, input, output, defers, channels, tty, arrived, proc>>

SendCloseEnd ==
  /\ main = "closing"
  /\ \/ /\ conn' = [conn EXCEPT !.writing = FALSE, !.closeSent = TRUE]
        /\ main' = "linger"
        /\ UNCHANGED result
     \/ /\ conn' = [conn EXCEPT !.writing = FALSE]
        /\ Return("nil")
  /\ UNCHANGED <<stdin, input, output, defers, channels, tty, arrived, proc>>

LingerDone ==
  /\ main = "linger"
  /\ done
  /\ Return("nil")
  /\ UNCHANGED <<stdin, input, output, defers, channels, tty, conn, arrived, proc>>

LingerTimeout_Never ==   \* seeded fault: only done is waited for
  /\ main = "linger"
  /\ done
  /\ Return("nil")
  /\ UNCHANGED <<stdin, input, output, defers, channels, tty, conn, arrived, proc>>

LingerTimeout ==
  /\ main = "linger"
  /\ Return("nil")
  /\ UNCHANGED <<stdin, input, output, defers, channels, tty, conn, arrived, proc>>

(***************************************************************************)
(* The deferred calls run last in, first out.                              *)
(***************************************************************************)
LastDefer == DeferStack[defers]

RunDefer ==
  /\ main = "unwind"
  /\ defers > 0
  /\ defers' = defers - 1
  /\ tty' = IF LastDefer = "restore" THEN "cooked" ELSE tty
  /\ conn' = IF LastDefer = "close" THEN [conn EXCEPT !.open = FALSE] ELSE conn
  /\ UNCHANGED <<session, channels, arrived, result, proc>>

ReturnToCaller ==
  /\ main = "unwind"
  /\ defers = 0
  /\ main' = "returned"
  /\ proc' = IF result = "panic" THEN "panicked" ELSE proc
  /\ UNCHANGED <<stdin, input, output, defers, channels, tty, conn, arrived, result>>

(***************************************************************************)
(* The command exits the process, whatever its goroutines are doing.       *)
(***************************************************************************)
ExitProcess ==
  /\ main = "returned"
  /\ proc' = "exited"
  /\ UNCHANGED <<session, defers, channels, tty, conn, arrived, result>>

-----------------------------------------------------------------------------
(* streamRawConsoleInput and streamBufferedConsoleInput *)

InputEof ==
  /\ input = "read"
  /\ input' = "exited"
  /\ UNCHANGED <<stdin, main, output, defers, channels, tty, conn, arrived, result, proc>>

InputData ==
  /\ input = "read"
  /\ input' = "write"
  /\ UNCHANGED <<stdin, main, output, defers, channels, tty, conn, arrived, result, proc>>

InputFails ==
  /\ input = "read"
  /\ input' = "stdin"
  /\ UNCHANGED <<stdin, main, output, defers, channels, tty, conn, arrived, result, proc>>

(***************************************************************************)
(* In raw mode Ctrl+C arrives as a byte.                                   *)
(***************************************************************************)
InputCtrlC ==
  /\ stdin = "terminal"
  /\ input = "read"
  /\ input' = "interrupt"
  /\ UNCHANGED <<stdin, main, output, defers, channels, tty, conn, arrived, result, proc>>

InputSendsInterrupt_Unbuffered ==   \* seeded fault: the send ignores the capacity
  /\ input = "interrupt"
  /\ interrupt' = interrupt + 1
  /\ input' = "exited"
  /\ UNCHANGED <<stdin, main, output, defers, errChan, done, tty, conn, arrived,
                 result, proc>>

InputSendsInterrupt_KeepsReading ==   \* seeded fault: no return after the interrupt
  /\ input = "interrupt"
  /\ interrupt < InterruptCap
  /\ interrupt' = interrupt + 1
  /\ input' = "read"
  /\ UNCHANGED <<stdin, main, output, defers, errChan, done, tty, conn, arrived,
                 result, proc>>

InputSendsInterrupt ==
  /\ input = "interrupt"
  /\ interrupt < InterruptCap
  /\ interrupt' = interrupt + 1
  /\ input' = "exited"
  /\ UNCHANGED <<stdin, main, output, defers, errChan, done, tty, conn, arrived,
                 result, proc>>

(***************************************************************************)
(* A panic in a goroutine ends the process without main's deferred calls.  *)
(***************************************************************************)
InputWriteBegin ==
  /\ input = "write"
  /\ \/ /\ WriteRefused
        /\ input' = "write failed"
        /\ UNCHANGED <<conn, proc>>
     \/ /\ WriteRaces
        /\ proc' = "panicked"
        /\ UNCHANGED <<input, conn>>
     \/ /\ WriteStarts
        /\ input' = "writing"
        /\ conn' = [conn EXCEPT !.writing = TRUE]
        /\ UNCHANGED proc
  /\ UNCHANGED <<stdin, main, output, defers, channels, tty, arrived, result>>

InputWriteEnd ==
  /\ input = "writing"
  /\ input' \in {"read", "write failed"}
  /\ conn' = [conn EXCEPT !.writing = FALSE]
  /\ UNCHANGED <<stdin, main, output, defers, channels, tty, arrived, result, proc>>

InputSendsError ==
  /\ input \in {"stdin", "write failed"}
  /\ Len(errChan) < ErrChanCap
  /\ errChan' = Append(errChan, input)
  /\ input' = "exited"
  /\ UNCHANGED <<stdin, main, output, defers, interrupt, done, tty, conn, arrived,
                 result, proc>>

-----------------------------------------------------------------------------
(* streamConsoleOutput *)

OutputReadFails_Silently ==   \* seeded fault: a closed connection is not reported
  /\ output = "read"
  /\ conn.peer # "up" \/ ~conn.open
  /\ output' = "closeDone"
  /\ UNCHANGED <<stdin, main, input, defers, channels, tty, conn, arrived, result, proc>>

(***************************************************************************)
(* ReadMessage fails once the peer is gone or the connection is closed     *)
(* locally; the library answers the peer's close frame with one of its own *)
(***************************************************************************)
OutputReadFails ==
  /\ output = "read"
  /\ conn.peer # "up" \/ ~conn.open
  /\ output' = "peer"
  /\ conn' = IF conn.open /\ conn.peer = "closed"
             THEN [conn EXCEPT !.closeSent = TRUE]
             ELSE conn
  /\ UNCHANGED <<stdin, main, input, defers, channels, tty, arrived, result, proc>>

OutputWriteFails ==
  /\ output = "read"
  /\ conn.open
  /\ output' = "stdout"
  /\ UNCHANGED <<stdin, main, input, defers, channels, tty, conn, arrived, result, proc>>

OutputSendsError ==
  /\ output \in OutputErrors
  /\ Len(errChan) < ErrChanCap
  /\ errChan' = Append(errChan, output)
  /\ output' = "closeDone"
  /\ UNCHANGED <<stdin, main, input, defers, interrupt, done, tty, conn, arrived,
                 result, proc>>

OutputClosesDone ==
  /\ output = "closeDone"
  /\ done' = TRUE
  /\ output' = "exited"
  /\ UNCHANGED <<stdin, main, input, defers, interrupt, errChan, tty, conn, arrived,
                 result, proc>>

-----------------------------------------------------------------------------
(* The world outside *)

PeerLeaves ==
  /\ conn.open
  /\ conn.peer = "up"
  /\ \E p \in {"closed", "lost"} : conn' = [conn EXCEPT !.peer = p]
  /\ UNCHANGED <<session, defers, channels, tty, arrived, result, proc>>

(***************************************************************************)
(* SIGINT or SIGTERM from outside: the runtime drops it when the channel   *)
(* is full, and the default action ends the process when nobody asked.     *)
(***************************************************************************)
Signal ==
  /\ arrived' = arrived \cup {"signal"}
  /\ \/ /\ Notified
        /\ interrupt < InterruptCap
        /\ interrupt' = interrupt + 1
        /\ UNCHANGED proc
     \/ /\ ~Notified
        /\ proc' = "killed"
        /\ UNCHANGED interrupt
  /\ UNCHANGED <<session, defers, errChan, done, tty, conn, result>>

Cancel ==
  /\ "cancel" \notin arrived
  /\ arrived' = arrived \cup {"cancel"}
  /\ UNCHANGED <<session, defers, channels, tty, conn, result, proc>>

-----------------------------------------------------------------------------
Main ==
  \/ Dial \/ NotifySignals \/ StartInputStream \/ DeferRestore \/ StartOutputStream
  \/ SelectCancelled \/ SelectError \/ SelectInterrupt
  \/ SendCloseBegin \/ SendCloseEnd \/ LingerDone \/ LingerTimeout
  \/ RunDefer \/ ReturnToCaller \/ ExitProcess

Input ==
  \/ InputEof \/ InputData \/ InputFails \/ InputCtrlC \/ InputSendsInterrupt
  \/ InputWriteBegin \/ InputWriteEnd \/ InputSendsError

Output ==
  \/ OutputReadFails \/ OutputWriteFails \/ OutputSendsError \/ OutputClosesDone

World == PeerLeaves \/ Signal \/ Cancel

Step == Main \/ Input \/ Output \/ World

Ended == ~Running /\ UNCHANGED vars

Next == (Running /\ Step) \/ Ended

(***************************************************************************)
(* Fairness.  The Go scheduler runs every goroutine that can run, the one  *)
(* second timer fires, and a write of a frame or of stdout returns (the    *)
(* reader drains it or it fails).  Nothing makes a user type, a peer leave *)
(* or a signal arrive.                                                     *)
(***************************************************************************)
Fairness ==
  /\ WF_vars(Running /\ Main)
  /\ WF_vars(Running /\ (InputSendsInterrupt \/ InputWriteBegin \/ InputWriteEnd
                            \/ InputSendsError))
  /\ WF_vars(Running /\ (OutputReadFails \/ OutputSendsError \/ OutputClosesDone))

Spec == Init /\ [][Next]_vars /\ Fairness

-----------------------------------------------------------------------------
(* The type invariant, in the parts its proof goes by. *)
ControlOK ==
  /\ stdin \in {"terminal", "pipe"}
  /\ main \in {"dial", "notify", "startInput", "deferRestore", "startOutput",
               "select", "sendClose", "closing", "linger", "unwind", "returned"}
  /\ input \in {"none", "read", "interrupt", "write", "writing", "exited"} \cup InputErrors
  /\ output \in {"none", "read", "closeDone", "exited"} \cup OutputErrors

DefersOK == defers \in 0..3

ChannelsOK ==
  /\ interrupt \in 0..InterruptCap
  /\ errChan \in Seq(Errors)

FlagsOK == done \in BOOLEAN /\ arrived \subseteq {"signal", "cancel"}

ConnOK ==
  conn \in [open : BOOLEAN, closeSent : BOOLEAN, writing : BOOLEAN,
            peer : {"up", "closed", "lost"}]

FateOK ==
  /\ tty \in {"cooked", "raw"}
  /\ result \in {"none", "nil", "panic", "dial", "tty", "cancelled"} \cup Errors
  /\ proc \in {"running", "exited", "killed", "panicked"}

TypeOK == ControlOK /\ DefersOK /\ ChannelsOK /\ FlagsOK /\ ConnOK /\ FateOK

(***************************************************************************)
(* The capacity of errChan is enough: whenever a goroutine has an error to *)
(* report there is room for it, so neither blocks on a main goroutine that *)
(* has stopped listening.                                                  *)
(***************************************************************************)
ErrChanHasRoom ==
  input \in InputErrors \/ output \in OutputErrors => Len(errChan) < ErrChanCap

(***************************************************************************)
(* The terminal is back in its mode when ConnectConsole has returned and   *)
(* whenever a signal kills the process, whichever way the session ended:   *)
(* Restore is deferred after signal.Stop, so it runs before it.            *)
(***************************************************************************)
TerminalRestored ==
  main = "returned" \/ proc = "killed" => tty = "cooked"

(***************************************************************************)
(* Ctrl+C alone never makes two writers meet on the websocket: as long as  *)
(* no signal has come from outside, the input goroutine has stopped        *)
(* writing by the time main sends the close frame.                         *)
(***************************************************************************)
CtrlCNeverRaces ==
  "signal" \notin arrived => proc # "panicked"

(***************************************************************************)
(* An interrupt, an error or the loss of the peer ends a session, even if  *)
(* the peer never answers the close frame and nobody reads done.           *)
(***************************************************************************)
SessionOver == main = "returned" \/ ~Running
InterruptEndsSession == (main = "select" /\ interrupt > 0) ~> SessionOver
LostPeerEndsSession == (main = "select" /\ conn.peer # "up") ~> SessionOver

=============================================================================
