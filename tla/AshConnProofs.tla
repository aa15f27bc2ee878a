---------------------------- MODULE AshConnProofs ----------------------------
(* Theorems about AshConn, for every value of its constants.               *)
EXTENDS AshConn, TLAPS, SequenceTheorems

(* Sequences of S under the operations that the model applies to them.     *)
LEMMA SeqFacts ==
  ASSUME NEW S, NEW s \in Seq(S)
  PROVE  /\ s # <<>> => Head(s) \in S /\ Tail(s) \in Seq(S)
                        /\ Len(Tail(s)) = Len(s) - 1
         /\ \A x \in S : Append(s, x) \in Seq(S)
                         /\ Len(Append(s, x)) = Len(s) + 1
  <1>1. s # <<>> => Head(s) \in S /\ Tail(s) \in Seq(S)
                    /\ Len(Tail(s)) = Len(s) - 1
    BY HeadTailProperties
  <1>2. \A x \in S : Append(s, x) \in Seq(S) /\ Len(Append(s, x)) = Len(s) + 1
    BY AppendProperties
  <1> QED BY <1>1, <1>2

LEMMA NextNumType == \A n \in Num : NextNum(n) \in Num
  BY ConstantsAssumption DEF Num, NextNum

LEMMA FrameTypes ==
  /\ \A t \in FrameType, a \in Num : ControlFrame(t, a) \in Frame
  /\ \A f \in Num, a \in Num, r \in BOOLEAN, p \in Payload :
       DataFrame(f, a, r, p) \in Frame
  <1>1. 0 \in Num
    BY ConstantsAssumption DEF Num
  <1> QED BY <1>1 DEF Frame, FrameType, ControlFrame, DataFrame

(* What a call leaves of its locals, and that its result is one.           *)
LEMMA ReturnType ==
  ASSUME NEW out \in Outcome, NEW p \in Payload \cup {NoPayload},
         Return(out, p)
  PROVE  /\ op' = "idle" /\ sending' \in Payload \cup {NoPayload}
         /\ tries' \in Nat /\ acked' \in BOOLEAN /\ ctxDone' \in BOOLEAN
         /\ result' \in Result
  <1>1. result' \in Result
    BY DEF Return, Result
  <1>2. acked' \in BOOLEAN /\ ctxDone' \in BOOLEAN
    BY DEF Return
  <1> QED BY <1>1, <1>2 DEF Return

LEMMA WriteType ==
  ASSUME TypeOK, NEW f \in Frame, Write(f)
  PROVE  toNcp' \in Seq(Frame) /\ Len(toNcp') <= TxCap
  <1>1. toNcp \in Seq(Frame) /\ Len(toNcp) \in Nat /\ TxCap \in Nat
    BY ConstantsAssumption, LenProperties DEF TypeOK
  <1>2. Append(toNcp, f) \in Seq(Frame)
        /\ Len(Append(toNcp, f)) = Len(toNcp) + 1
    BY <1>1, SeqFacts
  <1> QED BY <1>1, <1>2 DEF Write

LEMMA ReceiveType ==
  ASSUME TypeOK, NEW T, Receive(T)
  PROVE  /\ Head(frames) \in Frame /\ Head(frames).type \in T
         /\ frames' \in Seq(Frame) /\ Len(frames') <= FrameChanCap
  <1>1. /\ frames \in Seq(Frame) /\ frames # <<>> /\ Len(frames) \in Nat
        /\ Len(frames) <= FrameChanCap /\ FrameChanCap \in Nat
    BY ConstantsAssumption, LenProperties DEF TypeOK, Receive
  <1>2. /\ Head(frames) \in Frame /\ Tail(frames) \in Seq(Frame)
        /\ Len(Tail(frames)) = Len(frames) - 1
    BY <1>1, SeqFacts
  <1> QED BY <1>1, <1>2 DEF Receive

LEMMA AcknowledgeType ==
  ASSUME TypeOK, NEW f \in Frame, Acknowledge(f)
  PROVE  /\ ackNum' \in Num
         /\ toNcp' \in Seq(Frame) /\ Len(toNcp') <= TxCap
  <1>1. f.frm \in Num
    BY DEF Frame
  <1>2. NextNum(f.frm) \in Num
    BY <1>1, NextNumType
  <1>3. ControlFrame("ACK", NextNum(f.frm)) \in Frame
    BY <1>2, FrameTypes DEF FrameType
  <1>4. CASE Write(ControlFrame("ACK", NextNum(f.frm)))
    BY <1>2, <1>3, <1>4, WriteType DEF Acknowledge
  <1>5. CASE WriteFails
    BY <1>2, <1>5 DEF Acknowledge, WriteFails, TypeOK
  <1> QED BY <1>4, <1>5 DEF Acknowledge

------------------------------------------------------------------------------
LEMMA NextAttemptType ==
  ASSUME TypeOK, op = "rstack", NextAttempt
  PROVE  /\ op' \in {"idle", "rst"} /\ sending' \in Payload \cup {NoPayload}
         /\ tries' \in Nat /\ acked' \in BOOLEAN /\ ctxDone' \in BOOLEAN
         /\ result' \in Result
  <1>1. CASE tries + 1 < MaxResetRetries
    BY <1>1, ConstantsAssumption DEF NextAttempt, TypeOK
  <1>2. CASE tries + 1 >= MaxResetRetries
    <2>1. Return("noResponse", NoPayload)
      BY <1>2, ConstantsAssumption DEF NextAttempt, TypeOK
    <2> QED BY <2>1, ReturnType DEF Outcome
  <1> QED BY <1>1, <1>2, ConstantsAssumption DEF TypeOK

LEMMA RetryType ==
  ASSUME TypeOK, op = "wait", Retry
  PROVE  /\ op' \in {"idle", "tx"} /\ sending' \in Payload \cup {NoPayload}
         /\ op' = "tx" => sending' \in Payload
         /\ tries' \in Nat /\ acked' \in BOOLEAN /\ ctxDone' \in BOOLEAN
         /\ result' \in Result
  <1>1. CASE tries + 1 < MaxRetransmits
    <2>1. acked' = FALSE /\ op' = "tx" /\ tries' = tries + 1
          /\ UNCHANGED <<sending, ctxDone, result>>
      BY <1>1, ConstantsAssumption DEF Retry, TypeOK
    <2>2. acked' \in BOOLEAN
      BY <2>1
    <2> QED BY <2>1, <2>2 DEF TypeOK
  <1>2. CASE tries + 1 >= MaxRetransmits
    <2>1. Return("lost", NoPayload)
      BY <1>2, ConstantsAssumption DEF Retry, TypeOK
    <2> QED BY <2>1, ReturnType DEF Outcome
  <1> QED BY <1>1, <1>2, ConstantsAssumption DEF TypeOK

(* Every step of the model keeps the types: one step of the proof for each *)
(* action of Next.                                                         *)
LEMMA TypeStep == TypeOK /\ [Next]_vars => TypeOK'
  <1> SUFFICES ASSUME TypeOK, [Next]_vars PROVE TypeOK'
    OBVIOUS
  <1> USE DEF TypeOK, Op, numbers, readerVars, callVars
  <1>0. 0 \in Num
    BY ConstantsAssumption DEF Num
  <1>1. CASE New
    <2>1. NoResult \in Result
      BY DEF NoResult, Result, Outcome
    <2> QED BY <1>0, <1>1, <2>1, ConstantsAssumption DEF New
  <1>2. CASE CallReset
    <2>1. NoResult \in Result
      BY DEF NoResult, Result, Outcome
    <2>2. toHost' \in Seq(Frame)
      <3>1. <<>> \in Seq(Frame)
        BY EmptySeq
      <3>2. toHost' = <<>> \/ toHost' = toHost
        BY <1>2 DEF CallReset
      <3> QED BY <3>1, <3>2
    <2>3. acked' \in BOOLEAN /\ ctxDone' \in BOOLEAN
      BY <1>2 DEF CallReset
    <2> QED BY <1>2, <2>1, <2>2, <2>3 DEF CallReset
  <1>3. ASSUME NEW p \in Payload, CallSend(p) PROVE TypeOK'
    <2>1. NoResult \in Result
      BY DEF NoResult, Result, Outcome
    <2> QED BY <1>3, <2>1 DEF CallSend
  <1>4. CASE CallRecv
    <2>1. NoResult \in Result
      BY DEF NoResult, Result, Outcome
    <2> QED BY <1>4, <2>1 DEF CallRecv
  <1>5. CASE Drain
    <2>1. frames \in Seq(Frame) /\ frames # <<>> /\ FrameChanCap \in Nat
          /\ Len(frames) \in Nat
      BY <1>5, ConstantsAssumption, LenProperties DEF Drain
    <2>2. Tail(frames) \in Seq(Frame) /\ Len(Tail(frames)) = Len(frames) - 1
      BY <2>1, SeqFacts
    <2>3. frames' \in Seq(Frame) /\ Len(frames') <= FrameChanCap
      BY <1>5, <2>1, <2>2 DEF Drain
    <2> QED BY <1>5, <2>3 DEF Drain
  <1>6. CASE DrainClosed
    BY <1>6 DEF DrainClosed, vars
  <1>7. CASE DrainDone
    BY <1>7 DEF DrainDone
  <1>8. CASE WriteRst
    <2>1. CASE /\ Write(ControlFrame("RST", 0))
               /\ op' = "rstack"
               /\ UNCHANGED <<sending, tries, acked, ctxDone, result>>
      <3>1. ControlFrame("RST", 0) \in Frame
        BY <1>0, FrameTypes DEF FrameType
      <3>2. toNcp' \in Seq(Frame) /\ Len(toNcp') <= TxCap
        BY <2>1, <3>1, WriteType
      <3> QED BY <1>8, <2>1, <3>2 DEF WriteRst
    <2>2. CASE WriteFails /\ Return("write", NoPayload)
      BY <1>8, <2>2, ReturnType DEF WriteRst, WriteFails, Outcome
    <2> QED BY <1>8, <2>1, <2>2 DEF WriteRst
  <1>9. CASE ResetOk
    BY <1>0, <1>9, ReturnType, ReceiveType DEF ResetOk, Outcome
  <1>10. CASE ResetError
    BY <1>10, ReturnType, ReceiveType DEF ResetError, Outcome
  <1>11. CASE ResetOther
    BY <1>11, NextAttemptType, ReceiveType DEF ResetOther
  <1>12. CASE ResetTimeout
    BY <1>12, NextAttemptType DEF ResetTimeout
  <1>13. CASE Transmit
    <2>1. CASE /\ Write(DataFrame(frmNum, ackNum, tries > 0, sending))
               /\ op' = "wait"
               /\ UNCHANGED <<sending, tries, acked, ctxDone, result>>
      <3>1. DataFrame(frmNum, ackNum, tries > 0, sending) \in Frame
        <4>1. (tries > 0) \in BOOLEAN /\ sending \in Payload
          BY <1>13 DEF Transmit
        <4> QED BY <4>1, FrameTypes
      <3>2. toNcp' \in Seq(Frame) /\ Len(toNcp') <= TxCap
        BY <2>1, <3>1, WriteType
      <3> QED BY <1>13, <2>1, <3>2 DEF Transmit
    <2>2. CASE WriteFails /\ Return("write", NoPayload)
      BY <1>13, <2>2, ReturnType DEF Transmit, WriteFails, Outcome
    <2> QED BY <1>13, <2>1, <2>2 DEF Transmit
  <1>14. CASE WaitAck
    <2>1. frames' \in Seq(Frame) /\ Len(frames') <= FrameChanCap
      BY <1>14, ReceiveType DEF WaitAck
    <2> QED BY <1>14, <2>1 DEF WaitAck
  <1>15. CASE WaitNak
    BY <1>15, RetryType, ReceiveType DEF WaitNak
  <1>16. CASE WaitTimeout
    BY <1>16, RetryType DEF WaitTimeout
  <1>17. CASE WaitData
    <2>1. /\ Head(frames) \in Frame
          /\ frames' \in Seq(Frame) /\ Len(frames') <= FrameChanCap
      BY <1>17, ReceiveType DEF WaitData
    <2>2. /\ ackNum' \in Num
          /\ toNcp' \in Seq(Frame) /\ Len(toNcp') <= TxCap
      BY <1>17, <2>1, AcknowledgeType DEF WaitData
    <2>3. frmNum' \in Num
      BY <1>17, NextNumType DEF WaitData, AdvanceFrmNum
    <2>4. Head(frames).pay \in Payload \cup {NoPayload}
      BY <2>1 DEF Frame
    <2> QED BY <1>17, <2>1, <2>2, <2>3, <2>4, ReturnType
            DEF WaitData, Outcome
  <1>18. CASE RecvData
    <2>1. /\ Head(frames) \in Frame
          /\ frames' \in Seq(Frame) /\ Len(frames') <= FrameChanCap
      BY <1>18, ReceiveType DEF RecvData
    <2>2. /\ ackNum' \in Num
          /\ toNcp' \in Seq(Frame) /\ Len(toNcp') <= TxCap
      BY <1>18, <2>1, AcknowledgeType DEF RecvData
    <2>3. Head(frames).pay \in Payload \cup {NoPayload}
      BY <2>1 DEF Frame
    <2> QED BY <1>18, <2>1, <2>2, <2>3, ReturnType DEF RecvData, Outcome
  <1>19. CASE Skip
    <2>1. frames' \in Seq(Frame) /\ Len(frames') <= FrameChanCap
      BY <1>19, ReceiveType DEF Skip
    <2> QED BY <1>19, <2>1 DEF Skip
  <1>20. CASE ConnReset
    BY <1>20, ReturnType, ReceiveType DEF ConnReset, Outcome
  <1>21. CASE CtxReturn
    BY <1>21, ReturnType DEF CtxReturn, Outcome
  <1>22. CASE ClosedReturn
    BY <1>22, ReturnType DEF ClosedReturn, Outcome
  <1>23. CASE CtxDone
    BY <1>23 DEF CtxDone
  <1>24. CASE ReaderRead
    <2>1. PICK n \in 0 .. ReadChunk :
            /\ n <= Len(toHost)
            /\ buf' = SubSeq(toHost, 1, n)
            /\ toHost' = SubSeq(toHost, n + 1, Len(toHost))
            /\ reader' = IF n = 0 THEN NextRead ELSE "push"
      BY <1>24 DEF ReaderRead
    <2>2. n \in Nat /\ Len(toHost) \in Nat
      BY ConstantsAssumption, LenProperties
    <2>3. buf' \in Seq(Frame) /\ Len(buf') = n
      BY <2>1, <2>2, SubSeqProperties
    <2>6. toHost' \in Seq(Frame)
      BY <2>1, <2>2, SubSeqProperties
    <2>4. reader' = "push" => n # 0
      BY <2>1 DEF NextRead
    <2>5. reader' \in {"read", "push", "exited"}
      BY <2>1 DEF NextRead
    <2>7. reader' = "push" => buf' # <<>>
      BY <2>3, <2>4
    <2> QED BY <1>24, <2>3, <2>5, <2>6, <2>7 DEF ReaderRead
  <1>25. CASE ReaderPush
    <2>1. /\ buf \in Seq(Frame) /\ buf # <<>>
          /\ frames \in Seq(Frame) /\ Len(frames) \in Nat
          /\ FrameChanCap \in Nat
      BY <1>25, ConstantsAssumption, LenProperties DEF ReaderPush
    <2>2. Head(buf) \in Frame /\ Tail(buf) \in Seq(Frame)
      BY <2>1, SeqFacts
    <2>3. /\ Append(frames, Head(buf)) \in Seq(Frame)
          /\ Len(Append(frames, Head(buf))) = Len(frames) + 1
      BY <2>1, <2>2, SeqFacts
    <2>4. frames' \in Seq(Frame) /\ Len(frames') <= FrameChanCap
      BY <1>25, <2>1, <2>3 DEF ReaderPush
    <2>5. /\ buf' \in Seq(Frame) /\ (reader' = "push" => buf' # <<>>)
          /\ reader' \in {"read", "push", "exited"}
      BY <1>25, <2>2 DEF ReaderPush, NextRead
    <2> QED BY <1>25, <2>4, <2>5 DEF ReaderPush
  <1>26. CASE ReaderQuit
    BY <1>26 DEF ReaderQuit
  <1>27. CASE ReaderError
    BY <1>27 DEF ReaderError
  <1>28. CASE Close
    BY <1>28 DEF Close
  <1>29. CASE CloseReturn
    BY <1>29 DEF CloseReturn
  <1>30. CASE Env
    <2>1. toNcp' \in Seq(Frame) /\ Len(toNcp') <= TxCap
      <3>1. CASE UNCHANGED toNcp
        BY <3>1
      <3>2. CASE toNcp # <<>> /\ toNcp' = Tail(toNcp)
        <4>1. Len(toNcp) \in Nat /\ TxCap \in Nat
          BY ConstantsAssumption, LenProperties
        <4>2. Tail(toNcp) \in Seq(Frame) /\ Len(Tail(toNcp)) = Len(toNcp) - 1
          BY <3>2, SeqFacts
        <4> QED BY <3>2, <4>1, <4>2
      <3> QED BY <1>30, <3>1, <3>2 DEF Env
    <2>2. toHost' \in Seq(Frame)
      <3>1. \A f \in Arrivals : Append(toHost, f) \in Seq(Frame)
        BY ConstantsAssumption, SeqFacts
      <3> QED BY <1>30, <3>1 DEF Env
    <2> QED BY <1>30, <2>1, <2>2 DEF Env
  <1>31. CASE UNCHANGED vars
    BY <1>31 DEF vars
  <1> QED
    BY <1>1, <1>2, <1>3, <1>4, <1>5, <1>6, <1>7, <1>8, <1>9, <1>10, <1>11,
       <1>12, <1>13, <1>14, <1>15, <1>16, <1>17, <1>18, <1>19, <1>20, <1>21,
       <1>22, <1>23, <1>24, <1>25, <1>26, <1>27, <1>28, <1>29, <1>30, <1>31
    DEF Next, CallStep, ReaderStep, CloseStep

LEMMA TypeInit == Init => TypeOK
  <1> SUFFICES ASSUME Init PROVE TypeOK
    OBVIOUS
  <1>1. 0 \in Num /\ NoResult \in Result
    BY ConstantsAssumption DEF Num, NoResult, Result, Outcome
  <1>2. Len(<<>>) <= FrameChanCap /\ Len(<<>>) <= TxCap
    BY ConstantsAssumption
  <1>3. acked \in BOOLEAN /\ ctxDone \in BOOLEAN
    BY DEF Init
  <1> QED BY <1>1, <1>2, <1>3 DEF Init, TypeOK, Op

(* Every variable of the connection always has its type, and neither the   *)
(* frames channel nor the serial line ever holds more than it can.         *)
THEOREM ConnTypeCorrect == Spec => []TypeOK
  BY TypeInit, TypeStep, PTL DEF Spec

------------------------------------------------------------------------------
(* A call in progress has no result yet: this makes "the result changed"   *)
(* say the same as "the call returned".                                    *)
NoResultYet == op # "idle" => result = NoResult

LEMMA NoResultYetStep == NoResultYet /\ [Next]_vars => NoResultYet'
  <1> SUFFICES ASSUME NoResultYet, [Next]_vars PROVE NoResultYet'
    OBVIOUS
  <1> USE DEF NoResultYet
  <1>1. CASE New \/ CallReset \/ (\E p \in Payload : CallSend(p)) \/ CallRecv
    BY <1>1 DEF New, CallReset, CallSend, CallRecv
  <1>2. CASE Drain \/ DrainClosed \/ DrainDone \/ WaitAck \/ Skip \/ CtxDone
    BY <1>2 DEF Drain, DrainClosed, DrainDone, WaitAck, Skip, CtxDone,
                callVars, vars
  <1>3. CASE WriteRst \/ Transmit
    BY <1>3 DEF WriteRst, Transmit, Return
  <1>4. CASE ResetOther \/ ResetTimeout \/ WaitNak \/ WaitTimeout
    BY <1>4 DEF ResetOther, ResetTimeout, NextAttempt, WaitNak, WaitTimeout,
                Retry, Return
  <1>5. CASE \/ ResetOk \/ ResetError \/ WaitData \/ RecvData \/ ConnReset
             \/ CtxReturn \/ ClosedReturn
    BY <1>5 DEF ResetOk, ResetError, WaitData, RecvData, ConnReset, CtxReturn,
                ClosedReturn, Return
  <1>6. CASE ReaderStep \/ CloseStep \/ Env
    BY <1>6 DEF ReaderStep, ReaderRead, ReaderPush, ReaderQuit, ReaderError,
                CloseStep, Close, CloseReturn, Env, callVars
  <1>7. CASE UNCHANGED vars
    BY <1>7 DEF vars, callVars
  <1> QED
    BY <1>1, <1>2, <1>3, <1>4, <1>5, <1>6, <1>7 DEF Next, CallStep

LEMMA NotAnAnswer ==
  ASSUME NEW out \in Outcome \ {"ok", "data"}, Return(out, NoPayload)
  PROVE  result'.out \notin {"ok", "data"}
  BY DEF Return

LEMMA NumbersStepHolds == NoResultYet /\ [Next]_vars => [NumbersStep]_vars
  <1> SUFFICES ASSUME NoResultYet, [Next]_vars PROVE NumbersStep \/ UNCHANGED vars
    OBVIOUS
  <1> USE DEF numbers
  <1> DEFINE Silent == /\ UNCHANGED <<frmNum, ackNum>>
                       /\ result' = result \/ result'.out \notin {"ok", "data"}
  <1>1. Silent => NumbersStep
    BY DEF NumbersStep
  <1> HIDE DEF Silent
  <1>2. CASE New
    <2>1. result'.out = "none"
      BY <1>2 DEF New, NoResult
    <2> QED BY <1>2, <2>1 DEF NumbersStep
  <1>3. CASE CallReset \/ (\E p \in Payload : CallSend(p)) \/ CallRecv
    <2>1. UNCHANGED <<frmNum, ackNum>> /\ result' = NoResult
      BY <1>3 DEF CallReset, CallSend, CallRecv
    <2> QED BY <1>1, <2>1 DEF Silent, NoResult
  <1>4. CASE Drain \/ DrainDone \/ WaitAck \/ Skip \/ CtxDone
    <2>1. UNCHANGED <<frmNum, ackNum, result>>
      BY <1>4 DEF Drain, DrainDone, WaitAck, Skip, CtxDone, callVars
    <2> QED BY <1>1, <2>1 DEF Silent
  <1>5. CASE WriteRst \/ Transmit
    BY <1>1, <1>5, NotAnAnswer DEF Silent, WriteRst, Transmit, Outcome
  <1>6. CASE ResetOther \/ ResetTimeout
    BY <1>1, <1>6, NotAnAnswer
    DEF Silent, ResetOther, ResetTimeout, NextAttempt, Outcome
  <1>7. CASE WaitNak \/ WaitTimeout
    BY <1>1, <1>7, NotAnAnswer DEF Silent, WaitNak, WaitTimeout, Retry, Outcome
  <1>8. CASE ResetError \/ ConnReset \/ CtxReturn \/ ClosedReturn
    BY <1>1, <1>8, NotAnAnswer
    DEF Silent, ResetError, ConnReset, CtxReturn, ClosedReturn, Outcome
  <1>9. CASE ResetOk
    <2>1. result'.call = "reset" /\ result'.out = "ok"
          /\ result.out = "none"
      BY <1>9 DEF ResetOk, Return, NoResultYet, NoResult
    <2> QED BY <1>9, <2>1 DEF ResetOk, NumbersStep, Return
  <1>10. CASE WaitData
    <2>1. result'.call = "send" /\ result'.out = "data"
          /\ result.out = "none"
      BY <1>10 DEF WaitData, Return, NoResultYet, NoResult
    <2>2. ackNum' = NextNum(Head(frames).frm)
      BY <1>10 DEF WaitData, Acknowledge
    <2> QED BY <1>10, <2>1, <2>2 DEF WaitData, AdvanceFrmNum, NumbersStep
  <1>11. CASE RecvData
    <2>1. result'.call = "recv" /\ result'.out = "data"
          /\ result.out = "none"
      BY <1>11 DEF RecvData, Return, NoResultYet, NoResult
    <2>2. ackNum' = NextNum(Head(frames).frm)
      BY <1>11 DEF RecvData, Acknowledge
    <2> QED BY <1>11, <2>1, <2>2 DEF RecvData, NumbersStep
  <1>12. CASE ReaderStep \/ CloseStep \/ Env
    <2>1. UNCHANGED <<frmNum, ackNum, result>>
      BY <1>12 DEF ReaderStep, ReaderRead, ReaderPush, ReaderQuit, ReaderError,
                   CloseStep, Close, CloseReturn, Env, callVars
    <2> QED BY <1>1, <2>1 DEF Silent
  <1>13. CASE DrainClosed
    BY <1>13 DEF DrainClosed
  <1>14. CASE UNCHANGED vars
    BY <1>14
  <1> QED
    BY <1>2, <1>3, <1>4, <1>5, <1>6, <1>7, <1>8, <1>9, <1>10, <1>11, <1>12,
       <1>13, <1>14
    DEF Next, CallStep

(* frmNum and ackNum move with an answer to the caller and only then, and  *)
(* ackNum follows the frame that was handed over; a call that fails, but   *)
(* for an unsolicited RSTACK, leaves them as it found them.                *)
THEOREM NumbersTheorem == Spec => NumbersFollowAnswers
  <1>1. Init => NoResultYet
    BY DEF Init, NoResultYet
  <1> QED
    BY <1>1, NoResultYetStep, NumbersStepHolds, PTL
    DEF Spec, NumbersFollowAnswers
==============================================================================
