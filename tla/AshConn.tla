------------------------------- MODULE AshConn -------------------------------
(***************************************************************************)
(* ash.Conn (src/ash/ash.go): the host end of an ASH connection, that is   *)
(* the caller's goroutine running Reset, Send or Recv, the reader          *)
(* goroutine, the channel between them, and Close.  What is on the other   *)
(* side of the serial port is left open here: it may take bytes and send   *)
(* frames of Arrivals at any time.  AshLink closes the system with an NCP. *)
(*                                                                         *)
(* A frame is a record, not bytes.  A step of a goroutine runs from one    *)
(* point where it can block or be overtaken (a select, a Read, a Write) to *)
(* the next.  The times of timers are not modelled: a timer may fire at    *)
(* any moment at which it is running.                                      *)
(*                                                                         *)
(* A definition whose name starts with Bug is not part of the model.  It   *)
(* is the definition after it with a mistake the code could have had; with *)
(* the one in the place of the other TLC finds a property violated.        *)
(***************************************************************************)
EXTENDS Integers, Sequences

CONSTANTS
  Payload,          \* what a DATA frame may carry
  NoPayload,        \* not in Payload: nothing sent, nothing received
  SeqMod,           \* frame numbers are kept modulo SeqMod (8 in the code)
  FrameChanCap,     \* capacity of the frames channel (8 in the code)
  MaxResetRetries,  \* RSTs written by one Reset (3 in the code)
  MaxRetransmits,   \* transmissions of one request (5 in the code)
  ReadChunk,        \* bound: most frames completed by one Read
  RxCap, TxCap,     \* bounds: frames held by the serial line each way
  Calls,            \* the operations the caller uses
  Faults,           \* what may go wrong on the host's side
  Arrivals          \* the frames the open environment may send

Num == 0 .. SeqMod - 1

FrameType ==
  {"DATA", "ACK", "NAK", "RST", "RSTACK",
   "SHORT",         \* an RSTACK that lacks its version or reset code
   "ERROR",
   "BAD"}           \* a frame that decodeFrame refuses

Frame == [type : FrameType, frm : Num, ack : Num, reTx : BOOLEAN,
          pay : Payload \cup {NoPayload}]

ASSUME ConstantsAssumption ==
  /\ NoPayload \notin Payload
  /\ SeqMod \in Nat /\ SeqMod >= 2
  /\ FrameChanCap \in Nat \ {0}
  /\ MaxResetRetries \in Nat \ {0} /\ MaxRetransmits \in Nat \ {0}
  /\ ReadChunk \in Nat \ {0} /\ RxCap \in Nat \ {0} /\ TxCap \in Nat \ {0}
  /\ Calls \subseteq {"reset", "send", "recv", "close"}
  /\ Arrivals \subseteq Frame

VARIABLES
  op,         \* where the caller's goroutine is, see Op
  sending,    \* the payload of the Send in progress
  tries,      \* attempt of Reset, failures of Send
  acked,      \* acked of waitForResponse
  ctxDone,    \* the context given to the call in progress is done
  result,     \* what the last call returned
  frmNum, ackNum,
  reader,     \* where the reader goroutine is: in Read, pushing, or gone
  buf,        \* complete frames of the last Read not yet pushed
  frames,     \* the channel; closed when the reader is gone
  closing,    \* Close: not called, waiting for the reader, returned
  toHost,     \* frames received by the port and not yet read
  toNcp       \* frames written to the port and not yet taken

callVars == <<op, sending, tries, acked, ctxDone, result>>
numbers == <<frmNum, ackNum>>
readerVars == <<reader, buf, closing>>
vars == <<callVars, numbers, readerVars, frames, toHost, toNcp>>

(* "drain", "rst", "rstack" are Reset's three loops; "tx" and "wait" are   *)
(* Send about to write and in waitForResponse; "recv" is Recv.             *)
Op == {"idle", "drain", "rst", "rstack", "tx", "wait", "recv"}

Outcome == {"none", "ok", "data", "ctx", "closed", "write", "ncpError",
            "noResponse", "connReset", "lost"}

Result == [call : {"none", "reset", "send", "recv"}, out : Outcome,
           pay : Payload \cup {NoPayload}]

NoResult == [call |-> "none", out |-> "none", pay |-> NoPayload]

------------------------------------------------------------------------------
(* Frames and numbers.                                                     *)

BugNextNum(n) == n + 1  \* no "& 0x07"

NextNum(n) == (n + 1) % SeqMod

ControlFrame(t, a) ==
  [type |-> t, frm |-> 0, ack |-> a, reTx |-> FALSE, pay |-> NoPayload]

DataFrame(f, a, r, p) ==
  [type |-> "DATA", frm |-> f, ack |-> a, reTx |-> r, pay |-> p]

------------------------------------------------------------------------------
Init ==
  /\ op = "idle" /\ sending = NoPayload /\ tries = 0
  /\ acked = FALSE /\ ctxDone = FALSE /\ result = NoResult
  /\ frmNum = 0 /\ ackNum = 0
  /\ reader = "read" /\ buf = <<>> /\ closing = "open"
  /\ frames = <<>> /\ toHost = <<>> /\ toNcp = <<>>

(* The call in progress returns.  Its locals go out of scope.              *)
Return(out, p) ==
  /\ op' = "idle"
  /\ result' = [call |-> IF op \in {"tx", "wait"} THEN "send"
                         ELSE IF op = "recv" THEN "recv" ELSE "reset",
                out |-> out, pay |-> p]
  /\ sending' = NoPayload /\ tries' = 0 /\ acked' = FALSE /\ ctxDone' = FALSE

(* port.Write of one frame; it waits while the line is full.               *)
Write(f) == Len(toNcp) < TxCap /\ toNcp' = Append(toNcp, f)

WriteFails == "write" \in Faults /\ UNCHANGED toNcp

(* A receive from the frames channel of a frame of one of the types T.     *)
Receive(T) ==
  /\ frames # <<>> /\ Head(frames).type \in T
  /\ frames' = Tail(frames)

------------------------------------------------------------------------------
(* New, on a port opened anew (openConn in main.go) after the last         *)
(* connection was closed: closing it dropped the input nobody had read.    *)
New ==
  /\ op = "idle" /\ closing = "closed"
  /\ reader' = "read" /\ closing' = "open"
  /\ frames' = <<>> /\ toHost' = <<>>
  /\ frmNum' = 0 /\ ackNum' = 0
  /\ result' = NoResult
  /\ UNCHANGED <<op, sending, tries, acked, ctxDone, buf, toNcp>>

(* Reset.                                                                  *)

CallReset ==
  /\ "reset" \in Calls /\ op = "idle"
  /\ op' = "drain" /\ result' = NoResult
  /\ toHost' = <<>> \/ ("flush" \in Faults /\ UNCHANGED toHost)
  /\ UNCHANGED <<sending, tries, acked, ctxDone, numbers, readerVars,
                 frames, toNcp>>

Drain ==
  /\ op = "drain" /\ frames # <<>>
  /\ frames' = Tail(frames)
  /\ UNCHANGED <<callVars, numbers, readerVars, toHost, toNcp>>

(* A closed channel is always ready to be received from, so the select     *)
(* never takes its default branch once the reader is gone.                 *)
DrainClosed ==
  /\ op = "drain" /\ frames = <<>> /\ reader = "exited"
  /\ UNCHANGED vars

DrainDone ==
  /\ op = "drain" /\ frames = <<>> /\ reader # "exited"
  /\ op' = "rst"
  /\ UNCHANGED <<sending, tries, acked, ctxDone, result, numbers, readerVars,
                 frames, toHost, toNcp>>

(* CANCEL bytes and RST.                                                   *)
WriteRst ==
  /\ op = "rst"
  /\ \/ /\ Write(ControlFrame("RST", 0))
        /\ op' = "rstack"
        /\ UNCHANGED <<sending, tries, acked, ctxDone, result>>
     \/ WriteFails /\ Return("write", NoPayload)
  /\ UNCHANGED <<numbers, readerVars, frames, toHost>>

(* Failed attempts are not counted.                                        *)
BugNextAttempt ==
  /\ op' = "rst"
  /\ UNCHANGED <<sending, tries, acked, ctxDone, result>>

NextAttempt ==
  \/ /\ tries + 1 < MaxResetRetries
     /\ tries' = tries + 1 /\ op' = "rst"
     /\ UNCHANGED <<sending, acked, ctxDone, result>>
  \/ tries + 1 >= MaxResetRetries /\ Return("noResponse", NoPayload)

ResetOk ==
  /\ op = "rstack" /\ Receive({"RSTACK"})
  /\ frmNum' = 0 /\ ackNum' = 0
  /\ Return("ok", NoPayload)
  /\ UNCHANGED <<readerVars, toHost, toNcp>>

ResetError ==
  /\ op = "rstack" /\ Receive({"ERROR"})
  /\ Return("ncpError", NoPayload)
  /\ UNCHANGED <<numbers, readerVars, toHost, toNcp>>

(* Anything else that arrives ends the attempt, as the timer does.         *)
ResetOther ==
  /\ op = "rstack" /\ Receive(FrameType \ {"RSTACK", "ERROR"})
  /\ NextAttempt
  /\ UNCHANGED <<numbers, readerVars, toHost, toNcp>>

ResetTimeout ==
  /\ op = "rstack" /\ NextAttempt
  /\ UNCHANGED <<numbers, readerVars, frames, toHost, toNcp>>

------------------------------------------------------------------------------
(* Send and waitForResponse.                                               *)

CallSend(p) ==
  /\ "send" \in Calls /\ op = "idle"
  /\ op' = "tx" /\ sending' = p /\ result' = NoResult
  /\ UNCHANGED <<tries, acked, ctxDone, numbers, readerVars, frames,
                 toHost, toNcp>>

Transmit ==
  /\ op = "tx"
  /\ \/ /\ Write(DataFrame(frmNum, ackNum, tries > 0, sending))
        /\ op' = "wait"
        /\ UNCHANGED <<sending, tries, acked, ctxDone, result>>
     \/ WriteFails /\ Return("write", NoPayload)
  /\ UNCHANGED <<numbers, readerVars, frames, toHost>>

(* ErrTimeout from waitForResponse: the next pass of Send's loop.          *)
Retry ==
  \/ /\ tries + 1 < MaxRetransmits
     /\ tries' = tries + 1 /\ op' = "tx" /\ acked' = FALSE
     /\ UNCHANGED <<sending, ctxDone, result>>
  \/ tries + 1 >= MaxRetransmits /\ Return("lost", NoPayload)

WaitAck ==
  /\ op = "wait" /\ Receive({"ACK"})
  /\ acked' = (acked \/ Head(frames).ack = NextNum(frmNum))
  /\ UNCHANGED <<op, sending, tries, ctxDone, result, numbers, readerVars,
                 toHost, toNcp>>

WaitNak ==
  /\ op = "wait" /\ Receive({"NAK"})
  /\ Retry
  /\ UNCHANGED <<numbers, readerVars, toHost, toNcp>>

(* A retransmission takes the next number.                                 *)
BugRenumber ==
  /\ op = "wait" /\ ~acked
  /\ Retry /\ frmNum' = NextNum(frmNum)
  /\ UNCHANGED <<ackNum, readerVars, frames, toHost, toNcp>>

(* Once the request is acknowledged the timer only restarts.               *)
WaitTimeout ==
  /\ op = "wait" /\ ~acked
  /\ Retry
  /\ UNCHANGED <<numbers, readerVars, frames, toHost, toNcp>>

(* The ACK is forgotten.                                                   *)
BugNoAck(f) == ackNum' = NextNum(f.frm) /\ UNCHANGED toNcp

(* A frame whose ACK could not be written does not count.                  *)
BugAcknowledge(f) ==
  \/ ackNum' = NextNum(f.frm) /\ Write(ControlFrame("ACK", NextNum(f.frm)))
  \/ WriteFails /\ UNCHANGED ackNum

(* A DATA frame is acknowledged; that its ACK is not written is ignored.   *)
Acknowledge(f) ==
  /\ ackNum' = NextNum(f.frm)
  /\ Write(ControlFrame("ACK", NextNum(f.frm))) \/ WriteFails

(* The number that Send leaves for the next request.                       *)
AdvanceFrmNum == frmNum' = NextNum(frmNum)

WaitData ==
  /\ op = "wait" /\ Receive({"DATA"})
  /\ Acknowledge(Head(frames))
  /\ AdvanceFrmNum
  /\ Return("data", Head(frames).pay)
  /\ UNCHANGED <<readerVars, toHost>>

------------------------------------------------------------------------------
(* Recv.                                                                   *)

CallRecv ==
  /\ "recv" \in Calls /\ op = "idle"
  /\ op' = "recv" /\ result' = NoResult
  /\ UNCHANGED <<sending, tries, acked, ctxDone, numbers, readerVars, frames,
                 toHost, toNcp>>

RecvData ==
  /\ op = "recv" /\ Receive({"DATA"})
  /\ Acknowledge(Head(frames))
  /\ Return("data", Head(frames).pay)
  /\ UNCHANGED <<frmNum, readerVars, toHost>>

------------------------------------------------------------------------------
(* The branches that the selects of Reset, waitForResponse and Recv share. *)

Skip ==
  /\ \/ op = "wait" /\ Receive({"BAD", "ERROR", "RST"})
     \/ op = "recv" /\ Receive({"BAD", "ERROR", "RST", "ACK", "NAK"})
  /\ UNCHANGED <<callVars, numbers, readerVars, toHost, toNcp>>

(* waitForResponse ignores RSTACK.                                         *)
BugConnReset ==
  /\ op = "recv" /\ Receive({"RSTACK", "SHORT"})
  /\ Return("connReset", NoPayload)
  /\ UNCHANGED <<numbers, readerVars, toHost, toNcp>>

ConnReset ==
  /\ op \in {"wait", "recv"} /\ Receive({"RSTACK", "SHORT"})
  /\ Return("connReset", NoPayload)
  /\ UNCHANGED <<numbers, readerVars, toHost, toNcp>>

(* Recv does not watch its context.                                        *)
BugCtxReturn ==
  /\ op \in {"rstack", "wait"} /\ ctxDone
  /\ Return("ctx", NoPayload)
  /\ UNCHANGED <<numbers, readerVars, frames, toHost, toNcp>>

(* The outcome of a select whose context is done.                          *)
CtxReturn ==
  /\ op \in {"rstack", "wait", "recv"} /\ ctxDone
  /\ Return("ctx", NoPayload)
  /\ UNCHANGED <<numbers, readerVars, frames, toHost, toNcp>>

ClosedReturn ==
  /\ op \in {"rstack", "wait", "recv"} /\ frames = <<>> /\ reader = "exited"
  /\ Return("closed", NoPayload)
  /\ UNCHANGED <<numbers, readerVars, frames, toHost, toNcp>>

CtxDone ==
  /\ "cancel" \in Faults /\ op # "idle" /\ ~ctxDone
  /\ ctxDone' = TRUE
  /\ UNCHANGED <<op, sending, tries, acked, result, numbers, readerVars,
                 frames, toHost, toNcp>>

------------------------------------------------------------------------------
(* The reader goroutine and Close.                                         *)

(* The top of the reader's loop looks at the context before each Read.     *)
NextRead == IF closing = "open" THEN "read" ELSE "exited"

(* Read returns at the latest after 100 ms, with nothing (VMIN=0, VTIME=1). *)
ReaderRead ==
  /\ reader = "read"
  /\ \E n \in 0 .. ReadChunk :
       /\ n <= Len(toHost)
       /\ buf' = SubSeq(toHost, 1, n)
       /\ toHost' = SubSeq(toHost, n + 1, Len(toHost))
       /\ reader' = IF n = 0 THEN NextRead ELSE "push"
  /\ UNCHANGED <<callVars, numbers, closing, frames, toNcp>>

ReaderPush ==
  /\ reader = "push" /\ buf # <<>> /\ Len(frames) < FrameChanCap
  /\ frames' = Append(frames, Head(buf))
  /\ buf' = Tail(buf)
  /\ reader' = IF Tail(buf) = <<>> THEN NextRead ELSE "push"
  /\ UNCHANGED <<callVars, numbers, closing, toHost, toNcp>>

(* The push is no select: it waits for room only.                          *)
BugReaderQuit == FALSE

(* The other branch of the select around the push.                         *)
ReaderQuit ==
  /\ reader = "push" /\ closing # "open"
  /\ reader' = "exited" /\ buf' = <<>>
  /\ UNCHANGED <<callVars, numbers, closing, frames, toHost, toNcp>>

ReaderError ==
  /\ "read" \in Faults /\ reader = "read"
  /\ reader' = "exited"
  /\ UNCHANGED <<callVars, numbers, buf, closing, frames, toHost, toNcp>>

Close ==
  /\ "close" \in Calls /\ closing = "open"
  /\ closing' = "closing"
  /\ UNCHANGED <<callVars, numbers, reader, buf, frames, toHost, toNcp>>

CloseReturn ==
  /\ closing = "closing" /\ reader = "exited"
  /\ closing' = "closed"
  /\ UNCHANGED <<callVars, numbers, reader, buf, frames, toHost, toNcp>>

------------------------------------------------------------------------------
(* The far side of the port: it may take a frame, send one, or both.       *)
EnvTake ==
  /\ toNcp # <<>> /\ toNcp' = Tail(toNcp)
  /\ UNCHANGED <<callVars, numbers, readerVars, frames, toHost>>

Env ==
  /\ \/ UNCHANGED toNcp
     \/ toNcp # <<>> /\ toNcp' = Tail(toNcp)
  /\ \/ UNCHANGED toHost
     \/ /\ Len(toHost) < RxCap
        /\ \E f \in Arrivals : toHost' = Append(toHost, f)
  /\ UNCHANGED <<callVars, numbers, readerVars, frames>>

(* The steps of a call once it has begun.                                  *)
CallStep ==
  \/ Drain \/ DrainClosed \/ DrainDone \/ WriteRst
  \/ ResetOk \/ ResetError \/ ResetOther \/ ResetTimeout
  \/ Transmit \/ WaitAck \/ WaitNak \/ WaitTimeout \/ WaitData
  \/ RecvData \/ Skip \/ ConnReset \/ CtxReturn \/ ClosedReturn \/ CtxDone

ReaderStep == ReaderRead \/ ReaderPush \/ ReaderQuit \/ ReaderError

CloseStep == Close \/ CloseReturn

Next ==
  \/ New \/ CallReset \/ (\E p \in Payload : CallSend(p)) \/ CallRecv
  \/ CallStep \/ ReaderStep \/ CloseStep \/ Env

Spec == Init /\ [][Next]_vars

------------------------------------------------------------------------------
(* Fairness.  The goroutines run; a started write ends, since the line has *)
(* no flow control and always drains; Read returns within 100 ms; a select *)
(* with a branch ready takes one, at random, so a done context is noticed; *)
(* a running timer fires.  The default branch of the drain loop needs      *)
(* strong fairness: the reader can refill the channel, but only as fast as *)
(* a 115200 baud line, so the loop meets it empty.                         *)
FairSpec ==
  /\ Spec
  /\ WF_vars(WriteRst \/ Transmit) /\ WF_vars(EnvTake)
  /\ WF_vars(Drain) /\ SF_vars(DrainDone)
  /\ WF_vars(CtxReturn) /\ WF_vars(ResetTimeout) /\ WF_vars(WaitTimeout)
  /\ WF_vars(ReaderRead) /\ WF_vars(ReaderPush \/ ReaderQuit)
  /\ WF_vars(CloseReturn)

------------------------------------------------------------------------------
(* Every variable has its type, a reader about to push has a frame to push *)
(* and no queue exceeds its capacity (struct Conn, New).                   *)
TypeOK ==
  /\ op \in Op /\ sending \in Payload \cup {NoPayload}
  /\ op \in {"tx", "wait"} => sending \in Payload
  /\ tries \in Nat /\ acked \in BOOLEAN /\ ctxDone \in BOOLEAN
  /\ result \in Result
  /\ frmNum \in Num /\ ackNum \in Num
  /\ reader \in {"read", "push", "exited"}
  /\ closing \in {"open", "closing", "closed"}
  /\ buf \in Seq(Frame) /\ (reader = "push" => buf # <<>>)
  /\ frames \in Seq(Frame) /\ Len(frames) <= FrameChanCap
  /\ toHost \in Seq(Frame)
  /\ toNcp \in Seq(Frame) /\ Len(toNcp) <= TxCap

(* The numbers move only with an answer: Reset leaves both at zero, Send   *)
(* advances frmNum by one and Recv does not touch it, and after the frame  *)
(* that either returns ackNum is the number behind it, even if its ACK     *)
(* could not be written, so that the next frame out acknowledges it        *)
(* (ash.go:231, 300).  A call that is cancelled, fails or is still trying  *)
(* leaves both as they were, so that a retransmission or a next Send       *)
(* starts from a known place; of a call that ends with an unsolicited      *)
(* RSTACK nothing is said.  Only a new connection starts over.             *)
NumbersStep ==
  LET returned == result' # result
      answered == returned /\ result'.out \in {"ok", "data"}
      restarted == returned /\ result'.out = "connReset"
      ackedHead == ackNum' = NextNum(Head(frames).frm)
  IN  /\ numbers' # numbers => answered \/ restarted \/ New
      /\ answered =>
           \/ result'.call = "reset" /\ numbers' = <<0, 0>>
           \/ result'.call = "send" /\ frmNum' = NextNum(frmNum) /\ ackedHead
           \/ result'.call = "recv" /\ frmNum' = frmNum /\ ackedHead

NumbersFollowAnswers == [][NumbersStep]_vars

(* A caller whose context is done gets out of waiting, whatever the NCP    *)
(* sends, whatever fails, and even if the connection is closed under it.   *)
WaitsReturn ==
  op \in {"rst", "rstack", "tx", "wait", "recv"} /\ ctxDone ~> op = "idle"

(* Close returns, although the reader may be blocked on a full channel     *)
(* that nobody reads any more.                                             *)
CloseReturns == closing = "closing" ~> closing = "closed"

(* With no help from a context, Reset gives up, and Send does unless the   *)
(* NCP has acknowledged the request.                                       *)
GivesUp ==
  op \in {"rst", "rstack", "tx", "wait"} ~> (op = "idle" \/ acked)

(* A Reset whose context is done returns (TestResetContextCancelled).      *)
ResetReturns ==
  op \in {"drain", "rst", "rstack"} /\ ctxDone ~> op = "idle"
==============================================================================
