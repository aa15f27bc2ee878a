--------------------------- MODULE EzspClientProofs ---------------------------
(* Theorems about EzspClient, for every value of its constants.            *)
EXTENDS EzspClient, Queues

(* What an application does that stops at the first error, and negotiates  *)
(* once: as the CLI but for config list and endpoints.                     *)
StopsAtErrors == "carryOn" \notin Does

NegotiatesOnce == "renegotiate" \notin Does

(* TypeOK and the two facts that bound held and errCh.                     *)
TypeInv ==
  /\ TypeOK
  /\ Len(held) <= 1
  /\ goroutine \in {"recv", "push"} => errCh = <<>>

(* The flag is set as long as there is a goroutine, and a call beyond      *)
(* Command's check finds it cleared.                                       *)
ConnInv ==
  /\ goroutine # "none" => scanning
  /\ pc # "idle" => ~scanning
  /\ scanning => version # 0
  /\ pc \in {"ready", "send", "recv", "started"} => version # 0

------------------------------------------------------------------------------
(* Requests and responses of Command.                                      *)

Called == Commands \cup {"startScan"}

Requests == {i \in DOMAIN outbox : outbox[i].fid \in Called}

Responses == {i \in DOMAIN inbox : inbox[i].fid \in Called}

(* Nothing is under way.                                                   *)
Quiet == Requests = {} /\ Responses = {}

(* At most one frame is, the request of this call or its response.         *)
OneUnderWay ==
  /\ \A i \in Requests : outbox[i].tag = id
  /\ \A i \in Responses : inbox[i].tag = id
  /\ \A i, j \in Requests : i = j
  /\ \A i, j \in Responses : i = j
  /\ Requests = {} \/ Responses = {}

(* Between calls, as long as none has failed, nothing is under way; in a   *)
(* call that has sent its request there is at most that or its response.   *)
OwnInv ==
  /\ pc # "idle" => out = "none"
  /\ pc \in {"ready", "send", "recv", "started"} => want \in Called
  /\ out # "failed" /\ pc \notin {"send", "recv"} => Quiet
  /\ pc \in {"send", "recv"} => OneUnderWay
  /\ pc \in {"neg1", "neg2"} => id = 0
  /\ pc = "started" => ans = id
  /\ out \in {"ok", "refused"} => ans = id

------------------------------------------------------------------------------
(* Formats.                                                                *)

VersionRequest(e) == [fid |-> "version", tag |-> 0, ext |-> e]

(* What the NCP may answer to a version command.                           *)
VersionAnswer(f, e) ==
  f.ext = e /\ (f.fid = "invalid" \/ (f.fid = "version" /\ f.tag = ncpVersion))

(* In a phase of the negotiation that speaks format e: the request is on   *)
(* its way, or its answer, or neither.                                     *)
Negotiating(e) ==
  /\ extended = e
  /\ \/ Len(outbox) = 1 /\ outbox[1] = VersionRequest(e) /\ inbox = <<>>
     \/ outbox = <<>> /\ inbox = <<>>
     \/ /\ outbox = <<>> /\ Len(inbox) = 1
        /\ VersionAnswer(inbox[1], e)
        /\ inbox[1].fid = "version" => ncpExt = e

FormatInv ==
  /\ version = 0 /\ out # "failed" =>
       /\ pc \in {"idle", "neg1", "neg2"}
       /\ pc = "idle" => outbox = <<>> /\ inbox = <<>> /\ ~extended /\ ~ncpExt
       /\ pc = "neg1" => ~ncpExt /\ Negotiating(FALSE)
       /\ pc = "neg2" => ncpVersion >= legacyVersionThreshold
                         /\ Negotiating(TRUE)
  /\ version = 0 => ncpScan = 0 /\ Requests = {}
  /\ version # 0 =>
       /\ pc \notin {"neg1", "neg2"}
       /\ extended = ncpExt /\ extended = (version >= legacyVersionThreshold)
       /\ \A i \in DOMAIN outbox : outbox[i].fid # "version"
       /\ \A i \in DOMAIN inbox : inbox[i].ext = extended

------------------------------------------------------------------------------
(* Scans.                                                                  *)

(* Requests are numbered in the order they are made; the NCP has not heard *)
(* of the one under way, nor of those to come.                             *)
NumbersInv ==
  /\ scanId <= ncalls /\ ncpScan <= ncalls /\ id <= ncalls
  /\ \A t \in 0 .. MaxCalls : t > ncalls => reported[t] = 0
  /\ pc \in {"ready", "send", "recv", "started"} => scanId < id
  /\ pc = "ready" => ncpScan # id /\ reported[id] = 0
  /\ \A i, j \in Requests : i = j
  /\ \A i \in Requests :
       /\ scanId < outbox[i].tag /\ outbox[i].tag <= ncalls
       /\ ncpScan # outbox[i].tag /\ reported[outbox[i].tag] = 0

(* The results of scan s behind position p of the inbox: the first k are   *)
(* no longer there, the others follow in order up to the last reported.    *)
ResultsAfter(p) == {i \in DOMAIN inbox : i > p /\ inbox[i].fid = "result"}

CompletesAfter(p) == {i \in DOMAIN inbox : i > p /\ inbox[i].fid = "complete"}

Stream(s, k, p) ==
  /\ ncpScan \in {0, s} /\ k <= reported[s]
  /\ \A i \in ResultsAfter(p) :
       inbox[i].tag = s /\ inbox[i].n > k /\ inbox[i].n <= reported[s]
  /\ \A i, j \in ResultsAfter(p) : i < j => inbox[i].n < inbox[j].n
  /\ \A n \in 1 .. reported[s] :
       n > k => \E i \in ResultsAfter(p) : inbox[i].n = n
  /\ \A i \in CompletesAfter(p) :
       ncpScan # s /\ (\A j \in ResultsAfter(p) : j < i)

Started(i) == inbox[i].fid = "startScan" /\ inbox[i].ok

(* Results go one by one from the inbox to held, results and got.          *)
Delivered == Len(got) + Len(results) + Len(held)

InOrder ==
  /\ \A i \in DOMAIN got : got[i].tag = scanId /\ got[i].n = i
  /\ \A i \in DOMAIN results :
       results[i].tag = scanId /\ results[i].n = Len(got) + i
  /\ \A i \in DOMAIN held :
       held[i].tag = scanId /\ held[i].n = Len(got) + Len(results) + i

(* The goroutine holds a result only when it is about to push it, closes   *)
(* the channels once, and runs only when no call has failed.               *)
RunInv ==
  /\ goroutine # "push" => held = <<>>
  /\ goroutine \in {"recv", "push", "return"} => ~closed
  /\ goroutine # "none" \/ closed => 0 < scanId
  /\ reading => scanOut = "none"
  /\ scanning => out # "failed"

(* What a scan that starts, or that runs, is still to deliver is in the    *)
(* inbox; nothing is to come of one that ended without an error.           *)
StreamInv ==
  /\ pc \in {"send", "recv"} =>
       \A p \in Responses : Started(p) => Stream(id, 0, p)
  /\ pc = "started" => Stream(id, 0, 0)
  /\ goroutine \in {"recv", "push"} => Stream(scanId, Delivered, 0)

EndInv ==
  /\ (goroutine \in {"return", "unlock"} \/ closed) /\ errCh = <<>> =>
       ncpScan # scanId /\ reported[scanId] = Delivered
  /\ scanOut = "ok" =>
       /\ 0 < scanId /\ ncpScan # scanId
       /\ reported[scanId] = Len(got)

ScanInv == NumbersInv /\ InOrder /\ RunInv /\ StreamInv /\ EndInv

------------------------------------------------------------------------------
(* Types.                                                                  *)

LEMMA WriteType ==
  ASSUME TypeOK, NEW r \in Request, Write(r)
  PROVE  outbox' \in Seq(Request)
  <1>1. outbox \in Seq(Request) /\ Append(outbox, r) \in Seq(Request)
    BY QueueAppend DEF TypeOK
  <1> QED BY <1>1 DEF Write

LEMMA RequestType ==
  \A c \in Commands \cup {"version", "startScan"}, t \in 0 .. MaxCalls,
     e \in BOOLEAN : [fid |-> c, tag |-> t, ext |-> e] \in Request
  BY DEF Request

LEMMA ReceiveType ==
  ASSUME TypeOK, NEW F, Receive(F)
  PROVE  /\ Head(inbox) \in Frame /\ Head(inbox).fid \in F
         /\ inbox' \in Seq(Frame)
  <1>1. inbox \in Seq(Frame) /\ inbox # <<>>
    BY DEF TypeOK, Receive
  <1>2. Head(inbox) \in Frame /\ Tail(inbox) \in Seq(Frame)
    BY <1>1, QueueTail
  <1> QED BY <1>2 DEF Receive

LEMMA EmitType ==
  ASSUME TypeOK, NEW f \in Frame, Emit(f)
  PROVE  inbox' \in Seq(Frame)
  <1>1. inbox \in Seq(Frame) /\ Append(inbox, f) \in Seq(Frame)
    BY QueueAppend DEF TypeOK
  <1> QED BY <1>1 DEF Emit

(* What the NCP sends.                                                     *)
LEMMA ReplyType ==
  ASSUME TypeOK, NEW c \in FrameId, NEW t \in Nat, NEW n \in 0 .. MaxResults,
         NEW o, NEW e, o \in BOOLEAN, e \in BOOLEAN, Reply(c, t, n, o, e)
  PROVE  inbox' \in Seq(Frame)
  <1>1. [fid |-> c, tag |-> t, n |-> n, ok |-> o, ext |-> e] \in Frame
    BY DEF Frame
  <1> QED BY <1>1, EmitType DEF Reply

LEMMA TakesType ==
  ASSUME TypeOK, NEW F, Takes(F)
  PROVE  /\ Head(outbox) \in Request /\ Head(outbox).fid \in F
         /\ outbox' \in Seq(Request)
  <1>1. outbox \in Seq(Request) /\ outbox # <<>>
    BY DEF TypeOK, Takes
  <1>2. Head(outbox) \in Request /\ Tail(outbox) \in Seq(Request)
    BY <1>1, QueueTail
  <1> QED BY <1>2 DEF Takes

LEMMA ErrType ==
  ASSUME NEW e \in {"status", "recv"}
  PROVE  Append(<<>>, e) \in Seq({"status", "recv"}) /\ Len(Append(<<>>, e)) = 1
  BY QueueEmpty, QueueAppend

(* The versions a frame may claim are versions.                            *)
LEMMA ClaimsType ==
  ASSUME TypeOK, inbox # <<>>, NEW e \in BOOLEAN
  PROVE  Claims(e) \subseteq Nat
  <1>1. Head(inbox) \in Frame
    BY QueueTail DEF TypeOK
  <1> QED BY <1>1, ClientAssumption DEF Claims, Frame

LEMMA TypeInit == Init => TypeInv
  <1> SUFFICES ASSUME Init PROVE TypeInv
    OBVIOUS
  <1>1. /\ <<>> \in Seq(Frame) /\ <<>> \in Seq(Request)
        /\ <<>> \in Seq({"status", "recv"}) /\ Len(<<>>) = 0
    BY QueueEmpty
  <1>2. /\ MaxCalls \in Nat /\ MaxResults \in Nat /\ MaxCallbacks \in Nat
        /\ ResultsCap \in Nat
    BY ClientAssumption
  <1>3. reported \in [0 .. MaxCalls -> 0 .. MaxResults]
    BY <1>2 DEF Init
  <1>4. /\ extended \in BOOLEAN /\ scanning \in BOOLEAN /\ closed \in BOOLEAN
        /\ scanCtxDone \in BOOLEAN /\ reading \in BOOLEAN
        /\ ncpExt \in BOOLEAN
    BY DEF Init
  <1> QED
    BY <1>1, <1>2, <1>3, <1>4 DEF Init, TypeInv, TypeOK, Where, Goroutine

(* Every step keeps the types: one step of the proof for each action.      *)
LEMMA TypeStep == TypeInv /\ [Next]_vars => TypeInv'
  <1> SUFFICES ASSUME TypeInv, [Next]_vars PROVE TypeInv'
    OBVIOUS
  <1> USE DEF TypeInv, callerVars, modeVars, scanVars, readVars, ncpVars
  <1>1. TypeOK
    OBVIOUS
  <1>2. /\ MaxCalls \in Nat /\ MaxResults \in Nat /\ MaxCallbacks \in Nat
        /\ ResultsCap \in Nat \ {0} /\ NcpVersions \subseteq Nat
    BY ClientAssumption
  <1>a. \A e \in BOOLEAN : VersionRequest(e) \in Request
    BY <1>2 DEF VersionRequest, Request
  <1>3. CASE NegotiateVersion
    <2>1. Write(VersionRequest(FALSE))
      BY <1>3 DEF NegotiateVersion, VersionRequest
    <2>2. outbox' \in Seq(Request)
      BY <1>1, <1>a, <2>1, WriteType
    <2> QED BY <1>2, <1>3, <2>2 DEF NegotiateVersion, TypeOK, Where
  <1>4. ASSUME NEW c \in Wants, Command(c) PROVE TypeInv'
    <2>1. c \in Commands \cup {"startScan"}
      BY DEF Wants
    <2> QED BY <1>2, <1>4, <2>1 DEF Command, TypeOK, Where
  <1>5. CASE Busy
    BY <1>5 DEF Busy, Return, TypeOK, Where
  <1>6. CASE SendRequest
    <2>1. [fid |-> want, tag |-> id, ext |-> extended] \in Request
      BY RequestType DEF TypeOK
    <2>2. outbox' \in Seq(Request)
      BY <1>1, <1>6, <2>1, WriteType DEF SendRequest
    <2> QED BY <1>6, <2>2 DEF SendRequest, TypeOK, Where
  <1>7. CASE Response
    <2>1. Head(inbox) \in Frame /\ inbox' \in Seq(Frame)
      BY <1>1, <1>7, ReceiveType DEF Response
    <2>2. Head(inbox).tag \in Nat
      BY <2>1 DEF Frame
    <2> QED BY <1>7, <2>1, <2>2 DEF Response, Return, TypeOK, Where
  <1>8. CASE ScanResponse
    <2>1. Head(inbox) \in Frame /\ inbox' \in Seq(Frame)
      BY <1>1, <1>8, ReceiveType DEF ScanResponse
    <2>2. Head(inbox).tag \in Nat
      BY <2>1 DEF Frame
    <2> QED BY <1>8, <2>1, <2>2 DEF ScanResponse, TypeOK, Where
  <1>9. CASE SkipCallback
    <2>1. inbox' \in Seq(Frame)
      BY <1>1, <1>9, ReceiveType DEF SkipCallback
    <2> QED BY <1>9, <2>1 DEF SkipCallback, TypeOK, Where
  <1>10. CASE CallFails
    BY <1>10 DEF CallFails, Return, TypeOK, Where
  <1>11. CASE StartScan
    <2>1. /\ <<>> \in Seq(Frame) /\ Len(<<>>) = 0
          /\ <<>> \in Seq({"status", "recv"})
      BY QueueEmpty
    <2>2. /\ scanning' \in BOOLEAN /\ closed' \in BOOLEAN
          /\ scanCtxDone' \in BOOLEAN /\ reading' \in BOOLEAN
      BY <1>11 DEF StartScan
    <2> QED
      BY <1>2, <1>11, <2>1, <2>2 DEF StartScan, Return, TypeOK, Where, Goroutine
  <1>12. CASE Phase1Legacy
    <2>1. inbox' \in Seq(Frame) /\ inbox # <<>>
      BY <1>1, <1>12, ReceiveType DEF Phase1Legacy, Receive
    <2>2. version' \in Nat
      BY <1>1, <1>12, <2>1, ClaimsType DEF Phase1Legacy
    <2> QED BY <1>12, <2>1, <2>2 DEF Phase1Legacy, Return, TypeOK, Where
  <1>13. CASE Phase1Extended
    <2>1. inbox' \in Seq(Frame)
      BY <1>1, <1>13, ReceiveType DEF Phase1Extended
    <2>2. Write(VersionRequest(TRUE)) /\ extended' \in BOOLEAN
      BY <1>13 DEF Phase1Extended, VersionRequest
    <2>3. outbox' \in Seq(Request)
      BY <1>1, <1>a, <2>2, WriteType
    <2> QED BY <1>13, <2>1, <2>2, <2>3 DEF Phase1Extended, TypeOK, Where
  <1>14. CASE Phase2
    <2>1. inbox' \in Seq(Frame) /\ inbox # <<>>
      BY <1>1, <1>14, ReceiveType DEF Phase2, Receive
    <2>2. version' \in Nat
      BY <1>1, <1>14, <2>1, ClaimsType DEF Phase2
    <2> QED BY <1>14, <2>1, <2>2 DEF Phase2, Return, TypeOK, Where
  <1>15. CASE BadVersion
    <2>1. inbox' \in Seq(Frame)
      BY <1>1, <1>15, ReceiveType DEF BadVersion
    <2> QED BY <1>15, <2>1 DEF BadVersion, Return, TypeOK, Where
  <1>16. CASE ScanCtxDone
    BY <1>16 DEF ScanCtxDone, TypeOK
  <1>17. CASE ScanResult
    <2>1. Head(inbox) \in Frame /\ inbox' \in Seq(Frame)
      BY <1>1, <1>17, ReceiveType DEF ScanResult
    <2>2. held' \in Seq(Frame) /\ Len(held') = 1
      BY <1>17, <2>1 DEF ScanResult
    <2> QED BY <1>17, <2>1, <2>2 DEF ScanResult, TypeOK, Goroutine
  <1>18. CASE Push
    <2>1. /\ results \o held \in Seq(Frame) /\ Len(results) \in Nat
          /\ Len(held) \in Nat /\ Len(results \o held) = Len(results) + Len(held)
      BY QueueMove DEF TypeOK
    <2>2. <<>> \in Seq(Frame) /\ Len(<<>>) = 0
      BY QueueEmpty
    <2>3. results' \in Seq(Frame) /\ Len(results') <= ResultsCap
      BY <1>2, <1>18, <2>1 DEF Push
    <2> QED BY <1>18, <2>2, <2>3 DEF Push, TypeOK, Goroutine
  <1>19. CASE ScanComplete
    <2>1. inbox' \in Seq(Frame)
      BY <1>1, <1>19, ReceiveType DEF ScanComplete
    <2>2. errCh' = <<>> \/ errCh' = Append(<<>>, "status")
      BY <1>19 DEF ScanComplete
    <2>3. errCh' \in Seq({"status", "recv"}) /\ Len(errCh') <= 1
      <3>1. <<>> \in Seq({"status", "recv"}) /\ Len(<<>>) = 0
        BY QueueEmpty
      <3>2. CASE errCh' = <<>>
        BY <3>1, <3>2
      <3>3. CASE errCh' = Append(<<>>, "status")
        BY <3>3, ErrType
      <3> QED BY <2>2, <3>2, <3>3
    <2> QED BY <1>19, <2>1, <2>3 DEF ScanComplete, TypeOK, Goroutine
  <1>20. CASE ScanSkip
    <2>1. inbox' \in Seq(Frame)
      BY <1>1, <1>20, ReceiveType DEF ScanSkip
    <2> QED BY <1>20, <2>1 DEF ScanSkip, TypeOK
  <1>21. CASE ScanRecvFails
    <2>1. errCh' = Append(<<>>, "recv")
      BY <1>21 DEF ScanRecvFails
    <2>2. errCh' \in Seq({"status", "recv"}) /\ Len(errCh') <= 1
      BY <2>1, ErrType
    <2> QED BY <1>21, <2>2 DEF ScanRecvFails, TypeOK, Goroutine
  <1>22. CASE CloseChannels
    <2>1. closed' \in BOOLEAN
      BY <1>22 DEF CloseChannels
    <2> QED BY <1>22, <2>1 DEF CloseChannels, TypeOK, Goroutine
  <1>23. CASE ClearScanning
    <2>1. scanning' \in BOOLEAN
      BY <1>23 DEF ClearScanning
    <2> QED BY <1>23, <2>1 DEF ClearScanning, TypeOK, Goroutine
  <1>24. CASE ReadResult
    <2>1. /\ results \in Seq(Frame) /\ results # <<>> /\ got \in Seq(Frame)
          /\ Len(results) \in Nat /\ Len(results) <= ResultsCap
      BY <1>24, LenProperties DEF ReadResult, TypeOK
    <2>2. /\ Head(results) \in Frame /\ Tail(results) \in Seq(Frame)
          /\ Len(Tail(results)) = Len(results) - 1
      BY <2>1, QueueTail
    <2>3. Append(got, Head(results)) \in Seq(Frame)
      BY <2>1, <2>2, QueueAppend
    <2>4. results' \in Seq(Frame) /\ Len(results') <= ResultsCap
          /\ got' \in Seq(Frame)
      BY <1>2, <1>24, <2>1, <2>2, <2>3 DEF ReadResult
    <2> QED BY <1>24, <2>4 DEF ReadResult, TypeOK
  <1>25. CASE ReadEnd
    <2>1. reading' \in BOOLEAN
      BY <1>25 DEF ReadEnd
    <2> QED BY <1>25, <2>1 DEF ReadEnd, TypeOK
  <1>26. CASE Abandon
    <2>1. reading' \in BOOLEAN
      BY <1>26 DEF Abandon
    <2> QED BY <1>26, <2>1 DEF Abandon, TypeOK
  <1>27. CASE NcpVersionCommand
    <2>1. Head(outbox) \in Request /\ outbox' \in Seq(Request)
      BY <1>1, <1>27, TakesType DEF NcpVersionCommand
    <2>2. Head(outbox).ext \in BOOLEAN
      BY <2>1 DEF Request
    <2>3. "version" \in FrameId /\ "invalid" \in FrameId /\ ncpVersion \in Nat
          /\ 0 \in 0 .. MaxResults /\ 0 \in Nat
      BY <1>2 DEF FrameId, TypeOK
    <2>4. inbox' \in Seq(Frame)
      <3>1. CASE Reply("version", ncpVersion, 0, TRUE, Head(outbox).ext)
        BY <1>1, <2>2, <2>3, <3>1, ReplyType
      <3>2. CASE Reply("invalid", 0, 0, FALSE, Head(outbox).ext)
        BY <1>1, <2>2, <2>3, <3>2, ReplyType
      <3> QED BY <1>27, <3>1, <3>2 DEF NcpVersionCommand
    <2>5. ncpExt' = Head(outbox).ext \/ ncpExt' = ncpExt
      BY <1>27 DEF NcpVersionCommand
    <2>6. ncpExt' \in BOOLEAN
      BY <2>2, <2>5 DEF TypeOK
    <2> QED BY <1>27, <2>1, <2>4, <2>6 DEF NcpVersionCommand, TypeOK
  <1>28. CASE NcpCommand
    <2>1. Head(outbox) \in Request /\ outbox' \in Seq(Request)
          /\ Head(outbox).fid \in Commands
      BY <1>1, <1>28, TakesType DEF NcpCommand
    <2>2. Head(outbox).fid \in FrameId /\ Head(outbox).tag \in Nat
      BY <1>2, <2>1 DEF Request, FrameId
    <2>3. PICK ok \in BOOLEAN :
            Reply(Head(outbox).fid, Head(outbox).tag, 0, ok, ncpExt)
      BY <1>28 DEF NcpCommand
    <2>4. inbox' \in Seq(Frame)
      BY <1>1, <1>2, <2>2, <2>3, ReplyType, SMTT(60) DEF TypeOK
    <2> QED BY <1>28, <2>1, <2>4 DEF NcpCommand, TypeOK
  <1>29. CASE NcpStartScan
    <2>1. Head(outbox) \in Request /\ outbox' \in Seq(Request)
      BY <1>1, <1>29, TakesType DEF NcpStartScan
    <2>2. Head(outbox).tag \in 0 .. MaxCalls
      BY <2>1 DEF Request
    <2>3. Head(outbox).tag \in Nat /\ "startScan" \in FrameId
          /\ 0 \in 0 .. MaxResults
      BY <1>2, <2>2 DEF FrameId
    <2>4. PICK ok \in BOOLEAN :
            Reply("startScan", Head(outbox).tag, 0, ok, ncpExt)
      BY <1>29 DEF NcpStartScan
    <2>5. inbox' \in Seq(Frame)
      BY <1>1, <2>3, <2>4, ReplyType DEF TypeOK
    <2>6. ncpScan' = Head(outbox).tag \/ ncpScan' = ncpScan
      BY <1>29 DEF NcpStartScan
    <2>7. ncpScan' \in 0 .. MaxCalls
      BY <2>2, <2>6 DEF TypeOK
    <2> QED BY <1>29, <2>1, <2>5, <2>7 DEF NcpStartScan, TypeOK
  <1>30. CASE NcpResult
    <2>1. /\ reported \in [0 .. MaxCalls -> 0 .. MaxResults]
          /\ ncpScan \in 0 .. MaxCalls
          /\ reported[ncpScan] < MaxResults
          /\ reported' = [reported EXCEPT ![ncpScan] = @ + 1]
      BY <1>30 DEF NcpResult, TypeOK
    <2>2. /\ reported' \in [0 .. MaxCalls -> 0 .. MaxResults]
          /\ reported'[ncpScan] \in 0 .. MaxResults
      BY <1>2, <2>1
    <2>3. "result" \in FrameId /\ ncpScan \in Nat
      BY <1>2, <2>1 DEF FrameId
    <2>4. Reply("result", ncpScan, reported'[ncpScan], TRUE, ncpExt)
          /\ ncpExt \in BOOLEAN
      BY <1>30 DEF NcpResult, TypeOK
    <2>5. inbox' \in Seq(Frame)
      BY <1>1, <2>2, <2>3, <2>4, ReplyType
    <2> QED BY <1>30, <2>2, <2>5 DEF NcpResult, TypeOK
  <1>31. CASE NcpComplete
    <2>1. "complete" \in FrameId /\ ncpScan \in Nat /\ 0 \in 0 .. MaxResults
          /\ 0 \in 0 .. MaxCalls
      BY <1>2 DEF FrameId, TypeOK
    <2>2. PICK ok \in BOOLEAN : Reply("complete", ncpScan, 0, ok, ncpExt)
      BY <1>31 DEF NcpComplete
    <2>3. inbox' \in Seq(Frame)
      BY <1>1, <2>1, <2>2, ReplyType DEF TypeOK
    <2> QED BY <1>31, <2>1, <2>3 DEF NcpComplete, TypeOK
  <1>32. CASE NcpCallback
    <2>1. /\ "status" \in FrameId /\ 0 \in 0 .. MaxResults /\ 0 \in Nat
          /\ ncpExt \in BOOLEAN
      BY <1>2 DEF FrameId, TypeOK
    <2>2. Reply("status", 0, 0, TRUE, ncpExt)
      BY <1>32 DEF NcpCallback
    <2>3. inbox' \in Seq(Frame)
      BY <1>1, <2>1, <2>2, ReplyType
    <2> QED BY <1>2, <1>32, <2>3 DEF NcpCallback, TypeOK
  <1>33. CASE UNCHANGED vars
    BY <1>33 DEF vars, TypeOK
  <1> QED
    BY <1>3, <1>4, <1>5, <1>6, <1>7, <1>8, <1>9, <1>10, <1>11, <1>12, <1>13,
       <1>14, <1>15, <1>16, <1>17, <1>18, <1>19, <1>20, <1>21, <1>22, <1>23,
       <1>24, <1>25, <1>26, <1>27, <1>28, <1>29, <1>30, <1>31, <1>32, <1>33
    DEF Next, CallerStep, GoroutineStep, NcpStep

(* Every variable of the client has its type: results never holds more     *)
(* than its capacity and errCh never more than the one error it has room   *)
(* for, whatever fails and however the caller behaves.                     *)
THEOREM ClientTypeCorrect == Spec => []TypeOK
  <1>1. Spec => []TypeInv
    BY TypeInit, TypeStep, PTL DEF Spec
  <1>2. TypeInv => TypeOK
    BY DEF TypeInv
  <1> QED BY <1>1, <1>2, PTL

------------------------------------------------------------------------------
(* The caller and the goroutine.                                           *)

(* What the NCP does the client learns from its frames only.               *)
LEMMA NcpStepKeeps ==
  ASSUME NcpStep
  PROVE  UNCHANGED <<callerVars, modeVars, scanning, scanVars, readVars>>
  <1>1. CASE NcpVersionCommand
    BY <1>1 DEF NcpVersionCommand
  <1>2. CASE NcpCommand
    BY <1>2 DEF NcpCommand
  <1>3. CASE NcpStartScan
    BY <1>3 DEF NcpStartScan
  <1>4. CASE NcpResult
    BY <1>4 DEF NcpResult
  <1>5. CASE NcpComplete
    BY <1>5 DEF NcpComplete
  <1>6. CASE NcpCallback
    BY <1>6 DEF NcpCallback
  <1> QED BY <1>1, <1>2, <1>3, <1>4, <1>5, <1>6 DEF NcpStep

LEMMA ConnInit == Init => ConnInv
  BY DEF Init, ConnInv

LEMMA ConnStep ==
  ASSUME NegotiatesOnce
  PROVE  TypeInv /\ ConnInv /\ [Next]_vars => ConnInv'
  <1> SUFFICES ASSUME TypeInv, ConnInv, [Next]_vars PROVE ConnInv'
    OBVIOUS
  <1> USE DEF ConnInv, callerVars, modeVars, scanVars, readVars
  <1>1. CASE NegotiateVersion
    BY <1>1 DEF NegotiateVersion, NegotiatesOnce
  <1>2. CASE \E c \in Wants : Command(c)
    BY <1>2 DEF Command, TypeInv, TypeOK, Goroutine
  <1>3. CASE Busy
    BY <1>3 DEF Busy, MayCall, Return
  <1>4. CASE SendRequest \/ ScanResponse \/ SkipCallback
    BY <1>4 DEF SendRequest, ScanResponse, SkipCallback
  <1>5. CASE Response \/ CallFails \/ BadVersion
    BY <1>5 DEF Response, CallFails, BadVersion, Return
  <1>6. CASE StartScan
    BY <1>6 DEF StartScan, Return
  <1>7. CASE Phase1Legacy \/ Phase2
    <2>1. pc # "idle" /\ pc' = "idle" /\ UNCHANGED <<scanning, goroutine>>
      BY <1>7 DEF Phase1Legacy, Phase2, Return
    <2> QED BY <2>1
  <1>8. CASE Phase1Extended
    BY <1>8 DEF Phase1Extended
  <1>9. CASE ScanCtxDone \/ ScanResult \/ Push \/ ScanComplete \/ ScanSkip
             \/ ScanRecvFails \/ CloseChannels
    BY <1>9 DEF ScanCtxDone, ScanResult, Push, ScanComplete, ScanSkip,
                ScanRecvFails, CloseChannels
  <1>10. CASE ClearScanning
    BY <1>10 DEF ClearScanning
  <1>11. CASE ReadResult \/ ReadEnd \/ Abandon
    BY <1>11 DEF ReadResult, ReadEnd, Abandon
  <1>12. CASE NcpStep
    BY <1>12, NcpStepKeeps
  <1>13. CASE UNCHANGED vars
    BY <1>13 DEF vars
  <1> QED
    BY <1>1, <1>2, <1>3, <1>4, <1>5, <1>6, <1>7, <1>8, <1>9, <1>10, <1>11,
       <1>12, <1>13
    DEF Next, CallerStep, GoroutineStep

(* As long as the application negotiates the version once, the scan        *)
(* goroutine and the caller are never in the connection together, whatever *)
(* fails, whether the caller goes on after an error, calls while its scan  *)
(* is running or stops reading: the flag alone keeps them apart.           *)
THEOREM OneInConnTheorem ==
  ASSUME NegotiatesOnce
  PROVE  Spec => []OneInConn
  <1>1. Init => TypeInv /\ ConnInv
    BY TypeInit, ConnInit
  <1>2. TypeInv /\ ConnInv /\ [Next]_vars => (TypeInv /\ ConnInv)'
    BY TypeStep, ConnStep
  <1>3. ConnInv => OneInConn
    BY DEF ConnInv, OneInConn
  <1> QED BY <1>1, <1>2, <1>3, PTL DEF Spec

------------------------------------------------------------------------------
(* Requests and responses.                                                 *)

(* Only SendRequest, and the NCP's answers to commands, put a request or a *)
(* response on a queue; other steps at most shift a queue by its head.     *)
RequestsCarried ==
  \E d \in {0, 1} :
    \A i \in Requests' : i + d \in Requests /\ outbox'[i] = outbox[i + d]

ResponsesCarried ==
  \E d \in {0, 1} :
    \A i \in Responses' : i + d \in Responses /\ inbox'[i] = inbox[i + d]

Carried == RequestsCarried /\ ResponsesCarried

LEMMA QueueDomains ==
  TypeOK => /\ Len(outbox) \in Nat /\ DOMAIN outbox = 1 .. Len(outbox)
            /\ Len(inbox) \in Nat /\ DOMAIN inbox = 1 .. Len(inbox)
            /\ Requests \subseteq Nat \ {0} /\ Responses \subseteq Nat \ {0}
  <1> SUFFICES ASSUME TypeOK
               PROVE  /\ Len(outbox) \in Nat /\ DOMAIN outbox = 1 .. Len(outbox)
                      /\ Len(inbox) \in Nat /\ DOMAIN inbox = 1 .. Len(inbox)
                      /\ Requests \subseteq Nat \ {0}
                      /\ Responses \subseteq Nat \ {0}
    OBVIOUS
  <1>1. outbox \in Seq(Request) /\ inbox \in Seq(Frame)
    BY DEF TypeOK
  <1>2. Len(outbox) \in Nat /\ DOMAIN outbox = 1 .. Len(outbox)
    BY <1>1, QueueType
  <1>3. Len(inbox) \in Nat /\ DOMAIN inbox = 1 .. Len(inbox)
    BY <1>1, QueueType
  <1> QED BY <1>2, <1>3 DEF Requests, Responses

LEMMA CarriedKeeps ==
  ASSUME TypeOK', Carried, id' = id
  PROVE  (Quiet => Quiet') /\ (OneUnderWay => OneUnderWay')
  <1>1. PICK d \in {0, 1} :
          \A i \in Requests' : i + d \in Requests /\ outbox'[i] = outbox[i + d]
    BY DEF Carried, RequestsCarried
  <1>2. PICK e \in {0, 1} :
          \A i \in Responses' : i + e \in Responses /\ inbox'[i] = inbox[i + e]
    BY DEF Carried, ResponsesCarried
  <1>3. Quiet => Quiet'
    BY <1>1, <1>2 DEF Quiet
  <1>4. OneUnderWay => OneUnderWay'
    <2> SUFFICES ASSUME OneUnderWay PROVE OneUnderWay'
      OBVIOUS
    <2>1. /\ \A i \in Requests' : outbox'[i].tag = id'
          /\ \A i \in Responses' : inbox'[i].tag = id'
          /\ Requests' = {} \/ Responses' = {}
      BY <1>1, <1>2 DEF OneUnderWay
    <2>2. (Requests \subseteq Nat \ {0} /\ Responses \subseteq Nat \ {0})'
      BY QueueDomains, PTL
    <2>3. \A i, j \in Requests' : i = j
      BY <1>1, <2>2 DEF OneUnderWay
    <2>4. \A i, j \in Responses' : i = j
      BY <1>2, <2>2 DEF OneUnderWay
    <2> QED BY <2>1, <2>3, <2>4 DEF OneUnderWay
  <1> QED BY <1>3, <1>4

(* What the operations on the queues leave of requests and responses.      *)
LEMMA RequestsWrite ==
  ASSUME TypeOK, NEW r \in Request, Write(r)
  PROVE  \A i \in Requests' :
           \/ i \in Requests /\ outbox'[i] = outbox[i]
           \/ i = Len(outbox) + 1 /\ outbox'[i] = r /\ r.fid \in Called
  <1>1. CASE outbox' = Append(outbox, r)
    <2>1. /\ Len(outbox) \in Nat /\ DOMAIN outbox = 1 .. Len(outbox)
          /\ DOMAIN outbox' = 1 .. Len(outbox) + 1
          /\ \A i \in 1 .. Len(outbox) : outbox'[i] = outbox[i]
          /\ outbox'[Len(outbox) + 1] = r
      BY <1>1, QueueAppend DEF TypeOK
    <2> QED BY <2>1 DEF Requests
  <1>2. CASE outbox' = outbox
    BY <1>2 DEF Requests
  <1> QED BY <1>1, <1>2 DEF Write

LEMMA RequestsTakes ==
  ASSUME TypeOK, NEW F, Takes(F)
  PROVE  /\ \A i \in Requests' :
              i + 1 \in Requests /\ outbox'[i] = outbox[i + 1] /\ i \in Nat \ {0}
         /\ Head(outbox) = outbox[1] /\ outbox[1].fid \in F
         /\ outbox[1].fid \in Called => 1 \in Requests
  <1>1. /\ outbox' = Tail(outbox) /\ Head(outbox) = outbox[1]
        /\ Len(outbox) \in Nat \ {0} /\ DOMAIN outbox = 1 .. Len(outbox)
        /\ DOMAIN Tail(outbox) = 1 .. Len(outbox) - 1
        /\ \A i \in 1 .. Len(outbox) - 1 : Tail(outbox)[i] = outbox[i + 1]
    BY QueueTail DEF TypeOK, Takes
  <1>2. Head(outbox).fid \in F
    BY DEF Takes
  <1> QED BY <1>1, <1>2 DEF Requests

LEMMA ResponsesReceive ==
  ASSUME TypeOK, NEW F, Receive(F)
  PROVE  /\ \A i \in Responses' :
              i + 1 \in Responses /\ inbox'[i] = inbox[i + 1] /\ i \in Nat \ {0}
         /\ Head(inbox) = inbox[1] /\ inbox[1].fid \in F
         /\ inbox[1].fid \in Called => 1 \in Responses
  <1>1. /\ inbox' = Tail(inbox) /\ Head(inbox) = inbox[1]
        /\ Len(inbox) \in Nat \ {0} /\ DOMAIN inbox = 1 .. Len(inbox)
        /\ DOMAIN Tail(inbox) = 1 .. Len(inbox) - 1
        /\ \A i \in 1 .. Len(inbox) - 1 : Tail(inbox)[i] = inbox[i + 1]
    BY QueueTail DEF TypeOK, Receive
  <1>2. Head(inbox).fid \in F
    BY DEF Receive
  <1> QED BY <1>1, <1>2 DEF Responses

LEMMA ResponsesEmit ==
  ASSUME TypeOK, NEW f \in Frame, Emit(f)
  PROVE  \A i \in Responses' :
           \/ i \in Responses /\ inbox'[i] = inbox[i]
           \/ i = Len(inbox) + 1 /\ inbox'[i] = f /\ f.fid \in Called
  <1>1. /\ inbox' = Append(inbox, f)
        /\ Len(inbox) \in Nat /\ DOMAIN inbox = 1 .. Len(inbox)
        /\ DOMAIN inbox' = 1 .. Len(inbox) + 1
        /\ \A i \in 1 .. Len(inbox) : inbox'[i] = inbox[i]
        /\ inbox'[Len(inbox) + 1] = f
    BY QueueAppend DEF TypeOK, Emit
  <1> QED BY <1>1 DEF Responses

(* A frame of the NCP, and how it comes to the inbox.                      *)
LEMMA ReplyEmits ==
  ASSUME TypeOK, NEW c \in FrameId, NEW t \in Nat, NEW n \in 0 .. MaxResults,
         NEW o, NEW e, o \in BOOLEAN, e \in BOOLEAN, Reply(c, t, n, o, e)
  PROVE  \E f \in Frame :
           /\ f.fid = c /\ f.tag = t /\ f.n = n /\ f.ok = o /\ f.ext = e
           /\ Emit(f)
  <1> DEFINE f == [fid |-> c, tag |-> t, n |-> n, ok |-> o, ext |-> e]
  <1>1. f \in Frame
    BY DEF Frame
  <1>2. Emit(f)
    BY DEF Reply
  <1>3. f.fid = c /\ f.tag = t /\ f.n = n /\ f.ok = o /\ f.ext = e
    OBVIOUS
  <1> HIDE DEF f
  <1> QED BY <1>1, <1>2, <1>3

LEMMA NotCalled ==
  /\ "version" \notin Called /\ "result" \notin Called
  /\ "complete" \notin Called /\ "status" \notin Called
  /\ "invalid" \notin Called
  BY ClientAssumption DEF Called

LEMMA CarriedUnchanged ==
  ASSUME TypeOK
  PROVE  /\ outbox' = outbox => RequestsCarried
         /\ inbox' = inbox => ResponsesCarried
  <1>1. Requests \subseteq Nat \ {0} /\ Responses \subseteq Nat \ {0}
    BY QueueDomains
  <1>2. \A i \in Nat : i + 0 = i
    OBVIOUS
  <1>3. ASSUME outbox' = outbox PROVE RequestsCarried
    BY <1>1, <1>2, <1>3 DEF RequestsCarried, Requests
  <1>4. ASSUME inbox' = inbox PROVE ResponsesCarried
    BY <1>1, <1>2, <1>4 DEF ResponsesCarried, Responses
  <1> QED BY <1>3, <1>4

LEMMA CarriedWrite ==
  ASSUME TypeOK, NEW e, e \in BOOLEAN, Write(VersionRequest(e))
  PROVE  RequestsCarried
  <1>1. VersionRequest(e) \in Request /\ VersionRequest(e).fid = "version"
    BY ClientAssumption DEF VersionRequest, Request
  <1>2. \A i \in Requests' : i \in Requests /\ outbox'[i] = outbox[i]
    <2>1. \A i \in Requests' :
            \/ i \in Requests /\ outbox'[i] = outbox[i]
            \/ VersionRequest(e).fid \in Called
      BY <1>1, RequestsWrite
    <2> QED BY <1>1, <2>1, NotCalled
  <1>3. Requests \subseteq Nat \ {0}
    BY QueueDomains
  <1>4. \A i \in Requests' : i + 0 \in Requests /\ outbox'[i] = outbox[i + 0]
    <2>1. \A i \in Requests : i + 0 = i
      BY <1>3
    <2> QED BY <1>2, <2>1
  <1> QED BY <1>4 DEF RequestsCarried

LEMMA CarriedTakes ==
  ASSUME TypeOK, NEW F, Takes(F)
  PROVE  RequestsCarried
  BY RequestsTakes DEF RequestsCarried

LEMMA CarriedReceive ==
  ASSUME TypeOK, NEW F, Receive(F)
  PROVE  ResponsesCarried
  BY ResponsesReceive DEF ResponsesCarried

LEMMA CarriedEmit ==
  ASSUME TypeOK, NEW f \in Frame, Emit(f), f.fid \notin Called
  PROVE  ResponsesCarried
  <1>1. \A i \in Responses' : i \in Responses /\ inbox'[i] = inbox[i]
    <2>1. \A i \in Responses' :
            \/ i \in Responses /\ inbox'[i] = inbox[i]
            \/ f.fid \in Called
      BY ResponsesEmit
    <2> QED BY <2>1
  <1>2. Responses \subseteq Nat \ {0}
    BY QueueDomains
  <1>3. \A i \in Responses' : i + 0 \in Responses /\ inbox'[i] = inbox[i + 0]
    <2>1. \A i \in Responses : i + 0 = i
      BY <1>2
    <2> QED BY <1>1, <2>1
  <1> QED BY <1>3 DEF ResponsesCarried

(* The scan goroutine touches neither the caller nor what goes to the NCP. *)
LEMMA GoroutineKeeps ==
  ASSUME TypeOK, GoroutineStep
  PROVE  /\ UNCHANGED <<callerVars, modeVars, readVars, outbox, ncpVars>>
         /\ inbox' = inbox \/ \E F : Receive(F)
  <1>1. CASE ScanResult
    BY <1>1 DEF ScanResult
  <1>2. CASE Push
    BY <1>2 DEF Push
  <1>3. CASE ScanComplete
    BY <1>3 DEF ScanComplete
  <1>4. CASE ScanSkip
    BY <1>4 DEF ScanSkip
  <1>5. CASE ScanRecvFails
    BY <1>5 DEF ScanRecvFails
  <1>6. CASE CloseChannels
    BY <1>6 DEF CloseChannels
  <1>7. CASE ClearScanning
    BY <1>7 DEF ClearScanning
  <1> QED
    BY <1>1, <1>2, <1>3, <1>4, <1>5, <1>6, <1>7 DEF GoroutineStep

(* The NCP answers the one request there is by the one response.           *)
LEMMA AnswerIsOwn ==
  ASSUME TypeOK, TypeOK', OneUnderWay, id' = id, NEW F, Takes(F),
         Head(outbox).fid \in Called,
         NEW f \in Frame, Emit(f), f.tag = Head(outbox).tag
  PROVE  OneUnderWay'
  <1>1. /\ \A i \in Requests' : i + 1 \in Requests /\ i \in Nat \ {0}
        /\ Head(outbox) = outbox[1] /\ 1 \in Requests
    BY RequestsTakes
  <1>2. \A i \in Responses' :
          \/ i \in Responses /\ inbox'[i] = inbox[i]
          \/ i = Len(inbox) + 1 /\ inbox'[i] = f
    BY ResponsesEmit
  <1>3. Responses = {} /\ \A i \in Requests : i = 1
    BY <1>1 DEF OneUnderWay
  <1>4. Requests' = {}
    BY <1>1, <1>3
  <1>5. f.tag = id
    BY <1>1 DEF OneUnderWay
  <1> QED BY <1>2, <1>3, <1>4, <1>5 DEF OneUnderWay

LEMMA OwnInit == Init => OwnInv
  <1> SUFFICES ASSUME Init PROVE OwnInv
    OBVIOUS
  <1>1. DOMAIN outbox = {} /\ DOMAIN inbox = {}
    BY QueueEmpty DEF Init
  <1> QED BY <1>1 DEF Init, OwnInv, Quiet, Requests, Responses

LEMMA OwnStep ==
  ASSUME StopsAtErrors
  PROVE  TypeInv /\ TypeInv' /\ OwnInv /\ [Next]_vars => OwnInv'
  <1> SUFFICES ASSUME TypeInv, TypeInv', OwnInv, [Next]_vars PROVE OwnInv'
    OBVIOUS
  <1>1. TypeOK /\ TypeOK'
    BY DEF TypeInv
  <1>2. ASSUME Carried, UNCHANGED <<pc, want, id, out, ans>> PROVE OwnInv'
    <2>1. (Quiet => Quiet') /\ (OneUnderWay => OneUnderWay')
      BY <1>1, <1>2, CarriedKeeps
    <2> QED BY <1>2, <2>1 DEF OwnInv
  <1>3. ASSUME Carried, Quiet, out' \in {"none", "busy", "failed"},
               pc' \in {"idle", "neg1", "neg2"}, pc' # "idle" => out' = "none",
               pc' \in {"neg1", "neg2"} => id' = 0
        PROVE  OwnInv'
    <2>1. Quiet'
      BY <1>3 DEF Carried, RequestsCarried, ResponsesCarried, Quiet
    <2> QED BY <1>3, <2>1 DEF OwnInv
  <1>4. MayCall => Quiet
    BY DEF MayCall, OwnInv, StopsAtErrors
  <1> USE DEF callerVars
  <1>5. CASE NegotiateVersion
    <2>1. Write(VersionRequest(FALSE)) /\ inbox' = inbox /\ MayCall
      BY <1>5 DEF NegotiateVersion, VersionRequest
    <2>2. Carried
      BY <1>1, <2>1, CarriedWrite, CarriedUnchanged DEF Carried
    <2> QED BY <1>3, <1>4, <1>5, <2>1, <2>2 DEF NegotiateVersion
  <1>6. ASSUME NEW c \in Wants, Command(c) PROVE OwnInv'
    <2>1. MayCall /\ outbox' = outbox /\ inbox' = inbox
      BY <1>6 DEF Command
    <2>2. Quiet'
      BY <1>4, <2>1 DEF Quiet, Requests, Responses
    <2>3. c \in Called
      BY DEF Wants, Called
    <2> QED BY <1>6, <2>2, <2>3 DEF Command, OwnInv
  <1>7. CASE Busy
    <2>1. MayCall /\ outbox' = outbox /\ inbox' = inbox
      BY <1>7 DEF Busy
    <2>2. Carried
      BY <1>1, <2>1, CarriedUnchanged DEF Carried
    <2> QED BY <1>3, <1>4, <1>7, <2>1, <2>2 DEF Busy, Return
  <1>8. CASE SendRequest
    <2> DEFINE r == [fid |-> want, tag |-> id, ext |-> extended]
    <2>1. r \in Request /\ r.tag = id /\ Write(r)
      BY <1>1, <1>8 DEF SendRequest, Request, TypeOK
    <2>2. Quiet /\ out = "none" /\ inbox' = inbox
      BY <1>8 DEF SendRequest, OwnInv
    <2> HIDE DEF r
    <2>3. \A i \in Requests' : i = Len(outbox) + 1 /\ outbox'[i] = r
      BY <1>1, <2>1, <2>2, RequestsWrite DEF Quiet
    <2>4. Responses' = {}
      BY <2>2 DEF Quiet, Responses
    <2>5. OneUnderWay' /\ id' = id
      BY <1>8, <2>1, <2>3, <2>4 DEF OneUnderWay, SendRequest
    <2> QED BY <1>8, <2>5 DEF SendRequest, OwnInv
  <1>9. ASSUME Receive({want}), pc \in {"send", "recv"}, outbox' = outbox
        PROVE  Quiet' /\ Head(inbox).tag = id
    <2>1. /\ \A i \in Responses' : i + 1 \in Responses /\ i \in Nat \ {0}
          /\ Head(inbox) = inbox[1] /\ 1 \in Responses
      BY <1>1, <1>9, ResponsesReceive DEF OwnInv
    <2>2. OneUnderWay
      BY <1>9 DEF OwnInv
    <2>3. Requests' = {}
      BY <1>9, <2>1, <2>2 DEF OneUnderWay, Requests
    <2>4. Responses' = {}
      BY <2>1, <2>2 DEF OneUnderWay
    <2>5. Head(inbox).tag = id
      BY <2>1, <2>2 DEF OneUnderWay
    <2> QED BY <2>3, <2>4, <2>5 DEF Quiet
  <1>10. CASE Response
    <2>1. Quiet' /\ Head(inbox).tag = id
      BY <1>9, <1>10 DEF Response
    <2> QED BY <1>10, <2>1 DEF Response, Return, OwnInv
  <1>11. CASE ScanResponse
    <2>1. Quiet' /\ Head(inbox).tag = id
      BY <1>9, <1>11 DEF ScanResponse
    <2> QED BY <1>11, <2>1 DEF ScanResponse, OwnInv
  <1>12. CASE SkipCallback
    <2>1. Carried /\ id' = id
      BY <1>1, <1>12, CarriedReceive, CarriedUnchanged DEF SkipCallback, Carried
    <2>2. OneUnderWay'
      BY <1>1, <1>12, <2>1, CarriedKeeps DEF SkipCallback, OwnInv
    <2> QED BY <1>12, <2>2 DEF SkipCallback, OwnInv
  <1>13. CASE CallFails
    BY <1>13 DEF CallFails, Return, OwnInv
  <1>14. CASE StartScan
    <2>1. Quiet' /\ ans' = id'
      BY <1>14 DEF StartScan, Return, OwnInv, Quiet, Requests, Responses
    <2> QED BY <1>14, <2>1 DEF StartScan, Return, OwnInv
  <1>15. ASSUME Receive(FrameId), pc \in {"neg1", "neg2"},
                outbox' = outbox \/ Write(VersionRequest(TRUE))
         PROVE  Carried /\ Quiet /\ Quiet' /\ id = 0 /\ out = "none"
    <2>1. Carried
      BY <1>1, <1>15, CarriedReceive, CarriedUnchanged, CarriedWrite DEF Carried
    <2>2. Quiet /\ id = 0 /\ out = "none"
      BY <1>15 DEF OwnInv
    <2>3. Quiet'
      BY <2>1, <2>2 DEF Carried, RequestsCarried, ResponsesCarried, Quiet
    <2> QED BY <2>1, <2>2, <2>3
  <1>16. CASE Phase1Legacy
    BY <1>15, <1>16 DEF Phase1Legacy, Return, OwnInv
  <1>17. CASE Phase1Extended
    BY <1>15, <1>17 DEF Phase1Extended, VersionRequest, OwnInv
  <1>18. CASE Phase2
    BY <1>15, <1>18 DEF Phase2, Return, OwnInv
  <1>19. CASE BadVersion
    BY <1>19 DEF BadVersion, Return, OwnInv
  <1>20. CASE ScanCtxDone \/ ReadResult \/ ReadEnd \/ Abandon
    <2>1. UNCHANGED <<callerVars, outbox, inbox>>
      BY <1>20 DEF ScanCtxDone, ReadResult, ReadEnd, Abandon
    <2> QED BY <1>1, <1>2, <2>1, CarriedUnchanged DEF Carried
  <1>21. CASE GoroutineStep
    <2>1. /\ UNCHANGED <<callerVars, outbox>>
          /\ inbox' = inbox \/ \E F : Receive(F)
      BY <1>1, <1>21, GoroutineKeeps
    <2>2. Carried
      BY <1>1, <2>1, CarriedUnchanged, CarriedReceive DEF Carried
    <2> QED BY <1>2, <2>1, <2>2
  <1>22. CASE NcpStep
    <2>1. UNCHANGED <<pc, want, id, out, ans>>
      BY <1>22, NcpStepKeeps
    <2>2. /\ 0 \in 0 .. MaxResults /\ 0 \in Nat /\ TRUE \in BOOLEAN
          /\ FALSE \in BOOLEAN /\ ncpExt \in BOOLEAN
          /\ ncpVersion \in Nat /\ ncpScan \in Nat
      BY <1>1, ClientAssumption DEF TypeOK
    <2>3. ASSUME NEW c \in FrameId, NEW t \in Nat, NEW n \in 0 .. MaxResults,
                 NEW o, NEW e, o \in BOOLEAN, e \in BOOLEAN,
                 Reply(c, t, n, o, e), c \notin Called
          PROVE  ResponsesCarried
      <3>1. PICK f \in Frame : f.fid = c /\ Emit(f)
        BY <1>1, <2>3, ReplyEmits
      <3> QED BY <1>1, <2>3, <3>1, CarriedEmit
    <2>4. ASSUME NEW F, Takes(F), Head(outbox).fid \in Called,
                 NEW f \in Frame, Emit(f), f.tag = Head(outbox).tag
          PROVE  OwnInv'
      <3>1. 1 \in Requests
        BY <1>1, <2>4, RequestsTakes
      <3>2. ~ Quiet
        BY <3>1 DEF Quiet
      <3>3. CASE pc \in {"send", "recv"}
        <4>1. OneUnderWay'
          BY <1>1, <2>1, <2>4, <3>3, AnswerIsOwn DEF OwnInv
        <4> QED BY <2>1, <3>3, <4>1 DEF OwnInv
      <3>4. CASE pc \notin {"send", "recv"}
        BY <2>1, <3>2, <3>4 DEF OwnInv
      <3> QED BY <3>3, <3>4
    <2>5. CASE NcpVersionCommand
      <3>1. Takes({"version"})
        BY <2>5 DEF NcpVersionCommand
      <3>2. Head(outbox).ext \in BOOLEAN
        BY <1>1, <3>1, TakesType DEF Request
      <3>3. "version" \in FrameId /\ "invalid" \in FrameId
        BY DEF FrameId
      <3>4. CASE Reply("version", ncpVersion, 0, TRUE, Head(outbox).ext)
        <4>1. Carried
          BY <1>1, <2>2, <2>3, <3>1, <3>2, <3>3, <3>4, CarriedTakes, NotCalled
          DEF Carried
        <4> QED BY <1>2, <2>1, <4>1
      <3>5. CASE Reply("invalid", 0, 0, FALSE, Head(outbox).ext)
        <4>1. Carried
          BY <1>1, <2>2, <2>3, <3>1, <3>2, <3>3, <3>5, CarriedTakes, NotCalled
          DEF Carried
        <4> QED BY <1>2, <2>1, <4>1
      <3> QED BY <2>5, <3>4, <3>5 DEF NcpVersionCommand
    <2>6. CASE NcpCommand
      <3>1. Takes(Commands)
        BY <2>6 DEF NcpCommand
      <3>2. Head(outbox) \in Request /\ Head(outbox).fid \in Commands
        BY <1>1, <3>1, TakesType
      <3>3. /\ Head(outbox).fid \in FrameId /\ Head(outbox).fid \in Called
            /\ Head(outbox).tag \in Nat
        BY <3>2, ClientAssumption DEF Request, FrameId, Called
      <3>4. PICK ok \in BOOLEAN :
              Reply(Head(outbox).fid, Head(outbox).tag, 0, ok, ncpExt)
        BY <2>6 DEF NcpCommand
      <3>5. PICK f \in Frame : f.tag = Head(outbox).tag /\ Emit(f)
        BY <1>1, <2>2, <3>3, <3>4, ReplyEmits
      <3> QED BY <2>4, <3>1, <3>3, <3>5
    <2>7. CASE NcpStartScan
      <3>1. Takes({"startScan"})
        BY <2>7 DEF NcpStartScan
      <3>2. Head(outbox) \in Request /\ Head(outbox).fid = "startScan"
        BY <1>1, <3>1, TakesType
      <3>3. /\ "startScan" \in FrameId /\ Head(outbox).fid \in Called
            /\ Head(outbox).tag \in Nat
        BY <3>2, ClientAssumption DEF Request, FrameId, Called
      <3>4. PICK ok \in BOOLEAN :
              Reply("startScan", Head(outbox).tag, 0, ok, ncpExt)
        BY <2>7 DEF NcpStartScan
      <3>5. PICK f \in Frame : f.tag = Head(outbox).tag /\ Emit(f)
        BY <1>1, <2>2, <3>3, <3>4, ReplyEmits
      <3> QED BY <2>4, <3>1, <3>3, <3>5
    <2>8. CASE NcpResult
      <3>1. /\ Reply("result", ncpScan, reported'[ncpScan], TRUE, ncpExt)
            /\ outbox' = outbox
        BY <2>8 DEF NcpResult
      <3>2. reported'[ncpScan] \in 0 .. MaxResults /\ "result" \in FrameId
        BY <1>1, <2>1, <2>8 DEF TypeOK, FrameId, NcpResult
      <3>3. Carried
        BY <1>1, <2>2, <2>3, <3>1, <3>2, CarriedUnchanged, NotCalled DEF Carried
      <3> QED BY <1>2, <2>1, <3>3
    <2>9. CASE NcpComplete
      <3>1. PICK ok \in BOOLEAN : Reply("complete", ncpScan, 0, ok, ncpExt)
        BY <2>9 DEF NcpComplete
      <3>2. outbox' = outbox /\ "complete" \in FrameId
        BY <2>9 DEF NcpComplete, FrameId
      <3>3. Carried
        BY <1>1, <2>2, <2>3, <3>1, <3>2, CarriedUnchanged, NotCalled DEF Carried
      <3> QED BY <1>2, <2>1, <3>3
    <2>10. CASE NcpCallback
      <3>1. /\ Reply("status", 0, 0, TRUE, ncpExt)
            /\ outbox' = outbox /\ "status" \in FrameId
        BY <2>10 DEF NcpCallback, FrameId
      <3>2. Carried
        BY <1>1, <2>2, <2>3, <3>1, CarriedUnchanged, NotCalled DEF Carried
      <3> QED BY <1>2, <2>1, <3>2
    <2> QED
      BY <1>22, <2>5, <2>6, <2>7, <2>8, <2>9, <2>10 DEF NcpStep
  <1>23. CASE UNCHANGED vars
    <2>1. UNCHANGED <<callerVars, outbox, inbox>>
      BY <1>23 DEF vars
    <2> QED BY <1>1, <1>2, <2>1, CarriedUnchanged DEF Carried
  <1> QED
    BY <1>5, <1>6, <1>7, <1>8, <1>10, <1>11, <1>12, <1>13, <1>14, <1>16, <1>17,
       <1>18, <1>19, <1>20, <1>21, <1>22, <1>23
    DEF Next, CallerStep

(* Command returns the response to its own request, however many callbacks *)
(* come in between and whichever commands are refused, as long as the      *)
(* application gives up at the first call that fails.  (After a timeout    *)
(* the late response is still to come, and the next call with that frame   *)
(* ID would take it for its own.)                                          *)
THEOREM AnswersOwnTheorem ==
  ASSUME StopsAtErrors
  PROVE  Spec => []AnswersOwn
  <1>1. Init => TypeInv /\ OwnInv
    BY TypeInit, OwnInit
  <1>2. TypeInv /\ OwnInv /\ [Next]_vars => (TypeInv /\ OwnInv)'
    BY TypeStep, OwnStep
  <1>3. OwnInv => AnswersOwn
    BY DEF OwnInv, AnswersOwn
  <1> QED BY <1>1, <1>2, <1>3, PTL DEF Spec

------------------------------------------------------------------------------
(* Formats.                                                                *)

LEMMA OutboxWrite ==
  ASSUME TypeOK, NEW r \in Request, Write(r)
  PROVE  \/ outbox' = outbox
         \/ /\ Len(outbox') = Len(outbox) + 1
            /\ \A i \in DOMAIN outbox : outbox'[i] = outbox[i]
            /\ outbox'[Len(outbox) + 1] = r
            /\ DOMAIN outbox' = 1 .. Len(outbox) + 1
  <1>1. outbox \in Seq(Request)
    BY DEF TypeOK
  <1> QED BY <1>1, QueueAppend DEF Write

LEMMA OutboxTakes ==
  ASSUME TypeOK, NEW F, Takes(F)
  PROVE  /\ Head(outbox) = outbox[1] /\ 1 \in DOMAIN outbox
         /\ outbox[1].fid \in F /\ outbox # <<>>
         /\ Len(outbox') = Len(outbox) - 1
         /\ \A i \in DOMAIN outbox' :
              i \in Nat \ {0} /\ i + 1 \in DOMAIN outbox
              /\ outbox'[i] = outbox[i + 1]
         /\ Len(outbox) = 1 => outbox' = <<>>
  <1>1. outbox \in Seq(Request) /\ outbox # <<>> /\ outbox' = Tail(outbox)
    BY DEF TypeOK, Takes
  <1>2. /\ Head(outbox) = outbox[1] /\ Len(outbox) \in Nat \ {0}
        /\ DOMAIN outbox = 1 .. Len(outbox)
        /\ outbox' \in Seq(Request) /\ Len(outbox') = Len(outbox) - 1
        /\ DOMAIN outbox' = 1 .. Len(outbox) - 1
        /\ \A i \in 1 .. Len(outbox) - 1 : outbox'[i] = outbox[i + 1]
    BY <1>1, QueueTail
  <1>3. Len(outbox) = 1 => outbox' = <<>>
    BY <1>2, QueueType
  <1>4. outbox[1].fid \in F
    BY <1>2 DEF Takes
  <1> QED BY <1>1, <1>2, <1>3, <1>4

LEMMA InboxReceive ==
  ASSUME TypeOK, NEW F, Receive(F)
  PROVE  /\ Head(inbox) = inbox[1] /\ 1 \in DOMAIN inbox
         /\ inbox[1].fid \in F /\ inbox # <<>>
         /\ Len(inbox') = Len(inbox) - 1
         /\ \A i \in DOMAIN inbox :
              i \in Nat \ {0} /\ i > 1 => i - 1 \in DOMAIN inbox'
         /\ \A i \in DOMAIN inbox' :
              i \in Nat \ {0} /\ i + 1 \in DOMAIN inbox
              /\ inbox'[i] = inbox[i + 1]
         /\ Len(inbox) = 1 => inbox' = <<>>
  <1>1. inbox \in Seq(Frame) /\ inbox # <<>> /\ inbox' = Tail(inbox)
    BY DEF TypeOK, Receive
  <1>2. /\ Head(inbox) = inbox[1] /\ Len(inbox) \in Nat \ {0}
        /\ DOMAIN inbox = 1 .. Len(inbox)
        /\ inbox' \in Seq(Frame) /\ Len(inbox') = Len(inbox) - 1
        /\ DOMAIN inbox' = 1 .. Len(inbox) - 1
        /\ \A i \in 1 .. Len(inbox) - 1 : inbox'[i] = inbox[i + 1]
    BY <1>1, QueueTail
  <1>3. Len(inbox) = 1 => inbox' = <<>>
    BY <1>2, QueueType
  <1>4. inbox[1].fid \in F
    BY <1>2 DEF Receive
  <1> QED BY <1>1, <1>2, <1>3, <1>4

LEMMA InboxEmit ==
  ASSUME TypeOK, NEW f \in Frame, Emit(f)
  PROVE  /\ Len(inbox) \in Nat /\ DOMAIN inbox = 1 .. Len(inbox)
         /\ Len(inbox') = Len(inbox) + 1
         /\ DOMAIN inbox' = 1 .. Len(inbox) + 1
         /\ \A i \in DOMAIN inbox : inbox'[i] = inbox[i]
         /\ inbox'[Len(inbox) + 1] = f
  <1>1. inbox \in Seq(Frame) /\ inbox' = Append(inbox, f)
    BY DEF TypeOK, Emit
  <1> QED BY <1>1, QueueAppend

LEMMA FormatInit == Init => FormatInv
  <1> SUFFICES ASSUME Init PROVE FormatInv
    OBVIOUS
  <1>1. DOMAIN outbox = {}
    BY QueueEmpty DEF Init
  <1> QED BY <1>1 DEF Init, FormatInv, Requests

(* What the client reads in a phase of the negotiation.                    *)
LEMMA VersionClaimed ==
  ASSUME TypeOK, NEW e, e \in BOOLEAN, Negotiating(e), Receive(FrameId)
  PROVE  /\ outbox = <<>> /\ inbox' = <<>>
         /\ \A v \in Claims(e) : v = ncpVersion /\ v # 0 /\ ncpExt = e
  <1>1. Head(inbox) = inbox[1] /\ inbox # <<>> /\ (Len(inbox) = 1 => inbox' = <<>>)
    BY InboxReceive
  <1>2. /\ outbox = <<>> /\ Len(inbox) = 1 /\ VersionAnswer(inbox[1], e)
        /\ inbox[1].fid = "version" => ncpExt = e
    BY <1>1 DEF Negotiating
  <1>3. ncpVersion # 0
    BY ClientAssumption DEF TypeOK
  <1>4. ASSUME NEW v \in Claims(e) PROVE v = ncpVersion /\ ncpExt = e
    <2>1. CASE inbox[1].fid = "invalid"
      BY <1>1, <1>4, <2>1 DEF Claims
    <2>2. CASE inbox[1].fid = "version"
      BY <1>1, <1>2, <1>4, <2>2 DEF Claims, VersionAnswer
    <2> QED BY <1>2, <2>1, <2>2 DEF VersionAnswer
  <1> QED BY <1>1, <1>2, <1>3, <1>4

(* The negotiation once it is done, kept by a step that leaves the modes.  *)
LEMMA AgreedKeeps ==
  ASSUME TypeOK, FormatInv, version # 0,
         UNCHANGED <<modeVars, ncpExt>>, pc' \notin {"neg1", "neg2"},
         \/ outbox' = outbox
         \/ \E F : Takes(F)
         \/ \E r \in Request : Write(r) /\ r.fid # "version",
         \/ inbox' = inbox
         \/ \E F : Receive(F)
         \/ \E f \in Frame : Emit(f) /\ f.ext = ncpExt
  PROVE  FormatInv'
  <1>1. /\ extended = ncpExt /\ extended = (version >= legacyVersionThreshold)
        /\ \A i \in DOMAIN outbox : outbox[i].fid # "version"
        /\ \A i \in DOMAIN inbox : inbox[i].ext = extended
    BY DEF FormatInv
  <1>2. \A i \in DOMAIN outbox' : outbox'[i].fid # "version"
    <2>1. CASE outbox' = outbox
      BY <1>1, <2>1
    <2>2. ASSUME NEW F, Takes(F)
          PROVE  \A i \in DOMAIN outbox' : outbox'[i].fid # "version"
      BY <1>1, <2>2, OutboxTakes
    <2>3. ASSUME NEW r \in Request, Write(r), r.fid # "version"
          PROVE  \A i \in DOMAIN outbox' : outbox'[i].fid # "version"
      <3>1. DOMAIN outbox = 1 .. Len(outbox) /\ Len(outbox) \in Nat
        BY QueueDomains
      <3> QED BY <1>1, <2>3, <3>1, OutboxWrite
    <2> QED BY <2>1, <2>2, <2>3
  <1>3. \A i \in DOMAIN inbox' : inbox'[i].ext = extended
    <2>1. CASE inbox' = inbox
      BY <1>1, <2>1
    <2>2. ASSUME NEW F, Receive(F)
          PROVE  \A i \in DOMAIN inbox' : inbox'[i].ext = extended
      BY <1>1, <2>2, InboxReceive
    <2>3. ASSUME NEW f \in Frame, Emit(f), f.ext = ncpExt
          PROVE  \A i \in DOMAIN inbox' : inbox'[i].ext = extended
      BY <1>1, <2>3, InboxEmit
    <2> QED BY <2>1, <2>2, <2>3
  <1> QED BY <1>1, <1>2, <1>3 DEF FormatInv, modeVars

LEMMA FormatStep ==
  ASSUME StopsAtErrors, NegotiatesOnce
  PROVE  /\ TypeInv /\ TypeInv' /\ ConnInv /\ OwnInv /\ OwnInv'
         /\ FormatInv /\ [Next]_vars
         => FormatInv'
  <1> SUFFICES ASSUME TypeInv, TypeInv', ConnInv, OwnInv, OwnInv',
                      FormatInv, [Next]_vars
               PROVE  FormatInv'
    OBVIOUS
  <1>1. TypeOK /\ TypeOK'
    BY DEF TypeInv
  <1> USE DEF callerVars, modeVars
  <1>2. MayCall => out # "failed"
    BY DEF MayCall, StopsAtErrors
  <1>3. \A e \in BOOLEAN : VersionRequest(e) \in Request
    BY ClientAssumption DEF VersionRequest, Request
  \* Before the negotiation nothing is under way but its own frames.
  <1>4. CASE NegotiateVersion
    <2>1. /\ version = 0 /\ MayCall /\ pc = "idle" /\ version' = 0
          /\ Write(VersionRequest(FALSE)) /\ inbox' = inbox
          /\ pc' = "neg1" /\ UNCHANGED <<extended, ncpExt, ncpScan>>
      BY <1>4 DEF NegotiateVersion, NegotiatesOnce, VersionRequest, MayCall,
                  ncpVars
    <2>2. /\ outbox = <<>> /\ inbox = <<>> /\ ~extended /\ ~ncpExt
          /\ ncpScan = 0 /\ Requests = {}
      BY <1>2, <2>1 DEF FormatInv
    <2>3. outbox' = <<>> \/ (Len(outbox') = 1 /\ outbox'[1] = VersionRequest(FALSE))
      <3>1. Len(outbox) = 0
        BY <2>2
      <3>2. \/ outbox' = outbox
            \/ /\ Len(outbox') = Len(outbox) + 1
               /\ outbox'[Len(outbox) + 1] = VersionRequest(FALSE)
        BY <1>1, <1>3, <2>1, OutboxWrite
      <3>3. Len(outbox) + 1 = 1
        BY <3>1
      <3> QED BY <2>2, <3>2, <3>3, Zenon
    <2>4. extended' = FALSE /\ ncpExt' = FALSE
      BY <1>1, <2>1, <2>2 DEF TypeOK
    <2>5. Negotiating(FALSE)'
      BY <2>1, <2>2, <2>3, <2>4 DEF Negotiating, VersionRequest
    <2>6. Requests' = {}
      BY <1>1, <2>1, <2>2, CarriedWrite DEF RequestsCarried
    <2> QED BY <2>1, <2>2, <2>4, <2>5, <2>6 DEF FormatInv
  <1>5. CASE Phase1Legacy
    <2>1. /\ pc = "neg1" /\ Receive(FrameId) /\ outbox' = outbox
          /\ UNCHANGED <<extended, ncpExt>> /\ pc' = "idle"
          /\ version' \in Claims(FALSE) /\ version' < legacyVersionThreshold
      BY <1>5 DEF Phase1Legacy, Return, ncpVars
    <2>2. Negotiating(FALSE) /\ ~ncpExt
      BY <2>1 DEF FormatInv, OwnInv
    <2>3. /\ outbox' = <<>> /\ inbox' = <<>> /\ version' # 0
          /\ extended' = FALSE /\ ncpExt' = FALSE
      BY <1>1, <2>1, <2>2, VersionClaimed DEF Negotiating
    <2>4. version' \in Nat /\ ~ (version' >= legacyVersionThreshold)
      BY <1>1, <2>1 DEF TypeOK, legacyVersionThreshold
    <2>5. DOMAIN outbox' = {} /\ DOMAIN inbox' = {}
      BY <2>3, QueueEmpty
    <2>6. extended' = (version' >= legacyVersionThreshold)
      <3>1. (version' >= legacyVersionThreshold) = FALSE
        BY <2>4
      <3> QED BY <2>3, <3>1
    <2> QED BY <2>1, <2>3, <2>5, <2>6 DEF FormatInv
  <1>6. CASE Phase1Extended
    <2>1. /\ pc = "neg1" /\ Receive(FrameId) /\ Write(VersionRequest(TRUE))
          /\ extended' = TRUE /\ UNCHANGED <<version, ncpExt, ncpScan, ncpVersion>>
          /\ pc' = "neg2" /\ \E v \in Claims(FALSE) : v >= legacyVersionThreshold
      BY <1>6 DEF Phase1Extended, ncpVars, VersionRequest
    <2>2. Negotiating(FALSE) /\ version = 0 /\ ncpScan = 0 /\ Requests = {}
      BY <2>1 DEF FormatInv, OwnInv
    <2>3. /\ outbox = <<>> /\ inbox' = <<>>
          /\ ncpVersion >= legacyVersionThreshold
      BY <1>1, <2>1, <2>2, VersionClaimed
    <2>4. outbox' = <<>> \/ (Len(outbox') = 1 /\ outbox'[1] = VersionRequest(TRUE))
      <3>1. Len(outbox) = 0
        BY <2>3
      <3>2. \/ outbox' = outbox
            \/ /\ Len(outbox') = Len(outbox) + 1
               /\ outbox'[Len(outbox) + 1] = VersionRequest(TRUE)
        BY <1>1, <1>3, <2>1, OutboxWrite
      <3>3. Len(outbox) + 1 = 1
        BY <3>1
      <3> QED BY <2>3, <3>2, <3>3, Zenon
    <2>5. Negotiating(TRUE)'
      BY <2>1, <2>3, <2>4 DEF Negotiating, VersionRequest
    <2>6. Requests' = {}
      BY <1>1, <2>1, <2>2, CarriedWrite DEF RequestsCarried
    <2> QED BY <2>1, <2>2, <2>3, <2>5, <2>6 DEF FormatInv
  <1>7. CASE Phase2
    <2>1. /\ pc = "neg2" /\ Receive(FrameId) /\ outbox' = outbox
          /\ UNCHANGED <<extended, ncpExt>> /\ pc' = "idle"
          /\ version' \in Claims(TRUE)
      BY <1>7 DEF Phase2, Return, ncpVars
    <2>2. Negotiating(TRUE) /\ ncpVersion >= legacyVersionThreshold
      BY <2>1 DEF FormatInv, OwnInv
    <2>3. /\ outbox' = <<>> /\ inbox' = <<>> /\ version' # 0
          /\ version' = ncpVersion /\ extended' = TRUE /\ ncpExt' = TRUE
      BY <1>1, <2>1, <2>2, VersionClaimed DEF Negotiating
    <2>4. DOMAIN outbox' = {} /\ DOMAIN inbox' = {}
      BY <2>3, QueueEmpty
    <2> QED BY <2>1, <2>2, <2>3, <2>4 DEF FormatInv
  \* A call that fails in the negotiation leaves no request of a command.
  <1>8. ASSUME version = 0, version' = 0, ncpScan' = ncpScan,
               RequestsCarried, out' = "failed"
        PROVE  FormatInv'
    BY <1>8 DEF FormatInv, RequestsCarried
  <1>9. CASE BadVersion
    <2>1. /\ pc \in {"neg1", "neg2"} /\ out' = "failed" /\ outbox' = outbox
          /\ UNCHANGED <<version, ncpScan>>
      BY <1>9 DEF BadVersion, Return, ncpVars
    <2>2. version = 0
      BY <2>1 DEF FormatInv
    <2> QED BY <1>1, <1>8, <2>1, <2>2, CarriedUnchanged
  <1>10. CASE CallFails
    <2>1. /\ pc \in {"send", "recv", "neg1", "neg2"} /\ out' = "failed"
          /\ pc' = "idle" /\ UNCHANGED <<modeVars, outbox, inbox, ncpScan, ncpExt>>
      BY <1>10 DEF CallFails, Return, ncpVars
    <2>2. CASE version = 0
      BY <1>1, <1>8, <2>1, <2>2, CarriedUnchanged
    <2>3. CASE version # 0
      BY <1>1, <2>1, <2>3, AgreedKeeps
    <2> QED BY <2>2, <2>3
  \* After it, nobody changes format any more.
  <1>11. pc \in {"ready", "send", "recv", "started"} => version # 0
    BY DEF ConnInv
  <1>12. goroutine # "none" \/ scanning => version # 0
    BY DEF ConnInv
  <1>13. ASSUME NEW c \in Wants, Command(c) PROVE FormatInv'
    <2>1. /\ version # 0 /\ pc' = "ready"
          /\ UNCHANGED <<modeVars, outbox, inbox, ncpExt>>
      BY <1>13 DEF Command, ncpVars
    <2> QED BY <1>1, <2>1, AgreedKeeps
  <1>14. CASE Busy
    <2>1. /\ scanning /\ pc' = "idle"
          /\ UNCHANGED <<modeVars, outbox, inbox, ncpExt>>
      BY <1>14 DEF Busy, Return, ncpVars
    <2> QED BY <1>1, <1>12, <2>1, AgreedKeeps
  <1>15. CASE SendRequest
    <2> DEFINE r == [fid |-> want, tag |-> id, ext |-> extended]
    <2>1. /\ pc = "ready" /\ pc' = "send" /\ Write(r)
          /\ UNCHANGED <<modeVars, inbox, ncpExt>>
      BY <1>15 DEF SendRequest, ncpVars
    <2>2. r \in Request /\ r.fid = want /\ want \in Called
      BY <1>1, <2>1 DEF Request, TypeOK, OwnInv
    <2> HIDE DEF r
    <2>3. r.fid # "version"
      BY <2>2, NotCalled
    <2> QED BY <1>1, <1>11, <2>1, <2>2, <2>3, AgreedKeeps
  <1>16. CASE Response \/ ScanResponse \/ SkipCallback
    <2>1. /\ pc \in {"send", "recv"} /\ pc' \in {"idle", "started", "recv"}
          /\ UNCHANGED <<modeVars, outbox, ncpExt>>
          /\ \E F : Receive(F)
      BY <1>16 DEF Response, Return, ScanResponse, SkipCallback, ncpVars
    <2> QED BY <1>1, <1>11, <2>1, AgreedKeeps
  <1>17. CASE StartScan
    <2>1. /\ pc = "started" /\ pc' = "idle"
          /\ UNCHANGED <<modeVars, outbox, inbox, ncpExt>>
      BY <1>17 DEF StartScan, Return, ncpVars
    <2> QED BY <1>1, <1>11, <2>1, AgreedKeeps
  <1>18. CASE GoroutineStep
    <2>1. goroutine # "none"
      BY <1>18 DEF GoroutineStep, ScanResult, Push, ScanComplete, ScanSkip,
                   ScanRecvFails, CloseChannels, ClearScanning
    <2>2. /\ UNCHANGED <<callerVars, modeVars, outbox, ncpVars>>
          /\ inbox' = inbox \/ \E F : Receive(F)
      BY <1>1, <1>18, GoroutineKeeps
    <2>3. version # 0 /\ pc \notin {"neg1", "neg2"}
      BY <1>12, <2>1 DEF FormatInv
    <2> QED BY <1>1, <2>2, <2>3, AgreedKeeps DEF ncpVars
  <1>19. ASSUME UNCHANGED <<pc, out, modeVars, outbox, inbox, ncpVars>>
         PROVE  FormatInv'
    BY <1>19 DEF FormatInv, Negotiating, VersionAnswer, Requests, ncpVars
  <1>20. CASE ScanCtxDone \/ ReadResult \/ ReadEnd \/ Abandon
    BY <1>19, <1>20 DEF ScanCtxDone, ReadResult, ReadEnd, Abandon
  <1>21. CASE NcpStep
    <2>1. UNCHANGED <<callerVars, modeVars>>
      BY <1>21, NcpStepKeeps
    <2>2. /\ 0 \in 0 .. MaxResults /\ 0 \in Nat /\ TRUE \in BOOLEAN
          /\ FALSE \in BOOLEAN /\ ncpExt \in BOOLEAN
          /\ ncpVersion \in Nat /\ ncpScan \in Nat
      BY <1>1, ClientAssumption DEF TypeOK
    <2>3. ASSUME version # 0, ncpExt' = ncpExt,
                 outbox' = outbox \/ \E F : Takes(F),
                 NEW c \in FrameId, NEW t \in Nat, NEW n \in 0 .. MaxResults,
                 NEW o, o \in BOOLEAN, Reply(c, t, n, o, ncpExt)
          PROVE  FormatInv'
      <3>1. PICK f \in Frame : f.ext = ncpExt /\ Emit(f)
        BY <1>1, <2>2, <2>3, ReplyEmits
      <3>2. pc' \notin {"neg1", "neg2"}
        BY <2>1, <2>3 DEF FormatInv
      <3> QED BY <1>1, <2>1, <2>3, <3>1, <3>2, AgreedKeeps
    <2>4. CASE NcpVersionCommand
      <3>1. Takes({"version"}) /\ UNCHANGED <<ncpVersion, ncpScan>>
        BY <2>4 DEF NcpVersionCommand
      <3>2. /\ outbox # <<>> /\ 1 \in DOMAIN outbox /\ outbox[1].fid = "version"
            /\ Len(outbox) = 1 => outbox' = <<>>
            /\ Head(outbox) = outbox[1]
        BY <1>1, <3>1, OutboxTakes
      <3>3. version = 0
        BY <3>2 DEF FormatInv
      <3>4. CASE out = "failed"
        BY <1>1, <1>8, <2>1, <3>1, <3>3, <3>4, CarriedTakes
      <3>5. Requests' = {} /\ ncpScan' = 0
        <4>1. RequestsCarried
          BY <1>1, <3>1, CarriedTakes
        <4> QED BY <3>1, <3>3, <4>1 DEF RequestsCarried, FormatInv
      <3>6. ASSUME NEW e, e \in BOOLEAN, Negotiating(e)
            PROVE  Negotiating(e)' /\ (ncpExt' = e \/ ncpExt' = ncpExt)
        <4>1. /\ Len(outbox) = 1 /\ outbox[1] = VersionRequest(e)
              /\ inbox = <<>> /\ outbox' = <<>> /\ extended' = e
          BY <2>1, <3>2, <3>6 DEF Negotiating
        <4>2. outbox[1].ext = e /\ Len(inbox) = 0
          BY <4>1 DEF VersionRequest
        <4>3. /\ "version" \in FrameId /\ "invalid" \in FrameId
              /\ 0 \in 0 .. MaxResults /\ 0 \in Nat /\ ncpVersion \in Nat
          BY <2>2 DEF FrameId
        <4>4. CASE /\ ncpExt' = e
                   /\ Reply("version", ncpVersion, 0, TRUE, e)
          <5>1. PICK f \in Frame : f.fid = "version" /\ f.tag = ncpVersion
                                   /\ f.ext = e /\ Emit(f)
            <6>1. PICK o \in BOOLEAN : Reply("version", ncpVersion, 0, o, e)
              BY <4>4
            <6> QED BY <1>1, <3>6, <4>3, <6>1, ReplyEmits
          <5>2. Len(inbox') = 1 /\ inbox'[1] = f
            BY <1>1, <4>2, <5>1, InboxEmit
          <5>3. VersionAnswer(inbox[1], e)'
            BY <3>1, <5>1, <5>2 DEF VersionAnswer
          <5> QED BY <4>1, <4>4, <5>2, <5>3 DEF Negotiating
        <4>5. CASE ncpExt' = ncpExt /\ Reply("invalid", 0, 0, FALSE, e)
          <5>1. PICK f \in Frame : f.fid = "invalid" /\ f.ext = e /\ Emit(f)
            <6>1. PICK o \in BOOLEAN : Reply("invalid", 0, 0, o, e)
              BY <4>5
            <6> QED BY <1>1, <3>6, <4>3, <6>1, ReplyEmits
          <5>2. Len(inbox') = 1 /\ inbox'[1] = f
            BY <1>1, <4>2, <5>1, InboxEmit
          <5>3. VersionAnswer(inbox[1], e)'
            BY <5>1, <5>2 DEF VersionAnswer
          <5>4. inbox'[1].fid # "version"
            BY <5>1, <5>2
          <5> QED BY <4>1, <4>5, <5>2, <5>3, <5>4 DEF Negotiating
        <4> QED BY <2>4, <3>2, <4>2, <4>4, <4>5 DEF NcpVersionCommand
      <3>7. CASE out # "failed"
        <4>1. pc \in {"neg1", "neg2"}
          BY <3>2, <3>3, <3>7 DEF FormatInv
        <4>2. CASE pc = "neg1"
          <5>1. Negotiating(FALSE) /\ ~ncpExt
            BY <3>3, <3>7, <4>2 DEF FormatInv
          <5>2. Negotiating(FALSE)' /\ ~ncpExt'
            BY <3>6, <5>1
          <5> QED BY <2>1, <3>3, <3>5, <4>2, <5>2 DEF FormatInv
        <4>3. CASE pc = "neg2"
          <5>1. Negotiating(TRUE) /\ ncpVersion' >= legacyVersionThreshold
            BY <3>1, <3>3, <3>7, <4>3 DEF FormatInv
          <5>2. Negotiating(TRUE)'
            BY <3>6, <5>1
          <5> QED BY <2>1, <3>3, <3>5, <4>3, <5>1, <5>2 DEF FormatInv
        <4> QED BY <4>1, <4>2, <4>3
      <3> QED BY <3>4, <3>7
    <2>5. CASE NcpCommand
      <3>1. Takes(Commands) /\ ncpExt' = ncpExt
        BY <2>5 DEF NcpCommand, ncpVars
      <3>2. Head(outbox) \in Request /\ Head(outbox).fid \in Commands
        BY <1>1, <3>1, TakesType
      <3>3. Head(outbox).fid \in FrameId /\ Head(outbox).tag \in Nat
        BY <3>2, ClientAssumption DEF Request, FrameId
      <3>4. PICK ok \in BOOLEAN :
              Reply(Head(outbox).fid, Head(outbox).tag, 0, ok, ncpExt)
        BY <2>5 DEF NcpCommand
      <3>5. 1 \in Requests
        BY <1>1, <3>1, <3>2, RequestsTakes DEF Called
      <3>6. version # 0
        BY <3>5 DEF FormatInv
      <3> QED BY <2>2, <2>3, <3>1, <3>3, <3>4, <3>6
    <2>6. CASE NcpStartScan
      <3>1. Takes({"startScan"}) /\ ncpExt' = ncpExt
        BY <2>6 DEF NcpStartScan
      <3>2. Head(outbox) \in Request /\ Head(outbox).fid = "startScan"
        BY <1>1, <3>1, TakesType
      <3>3. "startScan" \in FrameId /\ Head(outbox).tag \in Nat
        BY <3>2, ClientAssumption DEF Request, FrameId
      <3>4. PICK ok \in BOOLEAN :
              Reply("startScan", Head(outbox).tag, 0, ok, ncpExt)
        BY <2>6 DEF NcpStartScan
      <3>5. 1 \in Requests
        BY <1>1, <3>1, <3>2, RequestsTakes DEF Called
      <3>6. version # 0
        BY <3>5 DEF FormatInv
      <3> QED BY <2>2, <2>3, <3>1, <3>3, <3>4, <3>6
    <2>7. CASE NcpResult
      <3>1. /\ Reply("result", ncpScan, reported'[ncpScan], TRUE, ncpExt)
            /\ outbox' = outbox /\ ncpExt' = ncpExt /\ ncpScan # 0
            /\ ncpScan' = ncpScan
        BY <2>7 DEF NcpResult
      <3>2. reported'[ncpScan] \in 0 .. MaxResults /\ "result" \in FrameId
        BY <1>1, <3>1 DEF TypeOK, FrameId
      <3>3. version # 0
        BY <3>1 DEF FormatInv
      <3> QED BY <2>2, <2>3, <3>1, <3>2, <3>3
    <2>8. CASE NcpComplete
      <3>1. PICK ok \in BOOLEAN : Reply("complete", ncpScan, 0, ok, ncpExt)
        BY <2>8 DEF NcpComplete
      <3>2. /\ outbox' = outbox /\ ncpExt' = ncpExt /\ "complete" \in FrameId
            /\ version # 0
        BY <2>8 DEF NcpComplete, FrameId, FormatInv
      <3> QED BY <2>2, <2>3, <3>1, <3>2
    <2>9. CASE NcpCallback
      <3>1. /\ Reply("status", 0, 0, TRUE, ncpExt) /\ version # 0
            /\ outbox' = outbox /\ ncpExt' = ncpExt /\ "status" \in FrameId
        BY <2>9 DEF NcpCallback, FrameId
      <3> QED BY <2>2, <2>3, <3>1
    <2> QED
      BY <1>21, <2>4, <2>5, <2>6, <2>7, <2>8, <2>9 DEF NcpStep
  <1>22. CASE UNCHANGED vars
    BY <1>19, <1>22 DEF vars
  <1> QED
    BY <1>4, <1>5, <1>6, <1>7, <1>9, <1>10, <1>13, <1>14, <1>15, <1>16, <1>17,
       <1>18, <1>20, <1>21, <1>22
    DEF Next, CallerStep

(* Once the version is negotiated the client and the NCP speak the same    *)
(* format, the one of the version, whether the NCP refuses, requests are   *)
(* lost or calls time out, as long as the application negotiates once and  *)
(* gives up at the first call that fails.                                  *)
THEOREM FormatsAgreeTheorem ==
  ASSUME StopsAtErrors, NegotiatesOnce
  PROVE  Spec => []FormatsAgree
  <1>1. Init => TypeInv /\ ConnInv /\ OwnInv /\ FormatInv
    BY TypeInit, ConnInit, OwnInit, FormatInit
  <1>2. TypeInv /\ ConnInv /\ OwnInv /\ FormatInv /\ [Next]_vars
        => (TypeInv /\ ConnInv /\ OwnInv /\ FormatInv)'
    BY TypeStep, ConnStep, OwnStep, FormatStep
  <1>3. FormatInv => FormatsAgree
    BY DEF FormatInv, FormatsAgree
  <1> QED BY <1>1, <1>2, <1>3, PTL DEF Spec

------------------------------------------------------------------------------
(* Scans.                                                                  *)

(* What a step of the NCP may do to a scan: nothing, start it, report one  *)
(* more result or complete it.                                             *)
NoScanStep(f) ==
  /\ f.fid \notin {"result", "complete"}
  /\ f.fid = "startScan" => ~f.ok
  /\ UNCHANGED <<ncpScan, reported>>

StartStep(f) ==
  /\ Takes({"startScan"}) /\ f.fid = "startScan"
  /\ f.tag = Head(outbox).tag
  /\ ncpScan = 0 /\ ncpScan' = Head(outbox).tag /\ reported' = reported

ResultStep(f) ==
  /\ ncpScan # 0 /\ f.fid = "result" /\ f.tag = ncpScan
  /\ reported' = [reported EXCEPT ![ncpScan] = @ + 1]
  /\ f.n = reported'[ncpScan]
  /\ UNCHANGED <<outbox, ncpScan>>

CompleteStep(f) ==
  /\ ncpScan # 0 /\ f.fid = "complete"
  /\ ncpScan' = 0 /\ UNCHANGED <<outbox, reported>>

LEMMA NcpKinds ==
  ASSUME TypeOK, NcpStep
  PROVE  /\ RequestsCarried
         /\ \E f \in Frame :
              /\ Emit(f)
              /\ NoScanStep(f) \/ StartStep(f) \/ ResultStep(f) \/ CompleteStep(f)
  <1>1. /\ 0 \in 0 .. MaxResults /\ 0 \in Nat /\ ncpExt \in BOOLEAN
        /\ ncpVersion \in Nat /\ ncpScan \in Nat
    BY ClientAssumption DEF TypeOK
  <1>2. CASE NcpVersionCommand
    <2>1. Takes({"version"}) /\ UNCHANGED <<ncpScan, reported>>
      BY <1>2 DEF NcpVersionCommand
    <2>2. Head(outbox).ext \in BOOLEAN
      BY <2>1, TakesType DEF Request
    <2>3. PICK c \in {"version", "invalid"}, t \in Nat, o \in BOOLEAN :
            Reply(c, t, 0, o, Head(outbox).ext)
      BY <1>1, <1>2 DEF NcpVersionCommand
    <2>4. PICK f \in Frame : f.fid = c /\ Emit(f)
      <3>1. c \in FrameId
        BY DEF FrameId
      <3> QED BY <1>1, <2>2, <2>3, <3>1, ReplyEmits
    <2>5. NoScanStep(f)
      BY <2>1, <2>4 DEF NoScanStep
    <2> QED BY <2>1, <2>4, <2>5, CarriedTakes
  <1>3. CASE NcpCommand
    <2>1. Takes(Commands) /\ UNCHANGED <<ncpScan, reported>>
      BY <1>3 DEF NcpCommand, ncpVars
    <2>2. /\ Head(outbox) \in Request /\ Head(outbox).fid \in Commands
      BY <2>1, TakesType
    <2>3. Head(outbox).fid \in FrameId /\ Head(outbox).tag \in Nat
      BY <2>2, ClientAssumption DEF Request, FrameId
    <2>4. PICK o \in BOOLEAN :
            Reply(Head(outbox).fid, Head(outbox).tag, 0, o, ncpExt)
      BY <1>3 DEF NcpCommand
    <2>5. PICK f \in Frame : f.fid = Head(outbox).fid /\ Emit(f)
      BY <1>1, <2>3, <2>4, ReplyEmits
    <2>6. NoScanStep(f)
      BY <2>1, <2>2, <2>5, ClientAssumption DEF NoScanStep
    <2> QED BY <2>1, <2>5, <2>6, CarriedTakes
  <1>4. CASE NcpStartScan
    <2>1. Takes({"startScan"}) /\ reported' = reported
      BY <1>4 DEF NcpStartScan
    <2>2. Head(outbox) \in Request
      BY <2>1, TakesType
    <2>3. "startScan" \in FrameId /\ Head(outbox).tag \in Nat
      BY <2>2, ClientAssumption DEF Request, FrameId
    <2>4. PICK o \in BOOLEAN :
            /\ Reply("startScan", Head(outbox).tag, 0, o, ncpExt)
            /\ \/ ncpScan = 0 /\ ncpScan' = Head(outbox).tag
               \/ ~o /\ ncpScan' = ncpScan
      BY <1>4 DEF NcpStartScan
    <2>5. PICK f \in Frame : f.fid = "startScan" /\ f.tag = Head(outbox).tag
                             /\ f.ok = o /\ Emit(f)
      BY <1>1, <2>3, <2>4, ReplyEmits
    <2>6. NoScanStep(f) \/ StartStep(f)
      BY <2>1, <2>4, <2>5 DEF NoScanStep, StartStep
    <2> QED BY <2>1, <2>5, <2>6, CarriedTakes
  <1>5. CASE NcpResult
    <2>1. /\ ncpScan # 0 /\ UNCHANGED <<outbox, ncpScan>>
          /\ reported' = [reported EXCEPT ![ncpScan] = @ + 1]
          /\ reported[ncpScan] < MaxResults
      BY <1>5 DEF NcpResult
    <2>2. reported'[ncpScan] \in 0 .. MaxResults /\ "result" \in FrameId
      BY <2>1, ClientAssumption, SMTT(60) DEF TypeOK, FrameId
    <2>3. PICK o \in BOOLEAN :
            Reply("result", ncpScan, reported'[ncpScan], o, ncpExt)
      BY <1>5 DEF NcpResult
    <2>4. PICK f \in Frame : f.fid = "result" /\ f.tag = ncpScan
                             /\ f.n = reported'[ncpScan] /\ Emit(f)
      BY <1>1, <2>2, <2>3, ReplyEmits
    <2>5. ResultStep(f)
      BY <2>1, <2>4 DEF ResultStep
    <2> QED BY <2>1, <2>4, <2>5, CarriedUnchanged
  <1>6. CASE NcpComplete
    <2>1. PICK o \in BOOLEAN : Reply("complete", ncpScan, 0, o, ncpExt)
      BY <1>6 DEF NcpComplete
    <2>2. /\ ncpScan # 0 /\ ncpScan' = 0 /\ UNCHANGED <<outbox, reported>>
          /\ "complete" \in FrameId
      BY <1>6 DEF NcpComplete, FrameId
    <2>3. PICK f \in Frame : f.fid = "complete" /\ Emit(f)
      BY <1>1, <2>1, <2>2, ReplyEmits
    <2>4. CompleteStep(f)
      BY <2>2, <2>3 DEF CompleteStep
    <2> QED BY <2>2, <2>3, <2>4, CarriedUnchanged
  <1>7. CASE NcpCallback
    <2>1. PICK o \in BOOLEAN : Reply("status", 0, 0, o, ncpExt)
      BY <1>7 DEF NcpCallback
    <2>2. UNCHANGED <<outbox, ncpScan, reported>> /\ "status" \in FrameId
      BY <1>7 DEF NcpCallback, FrameId
    <2>3. PICK f \in Frame : f.fid = "status" /\ Emit(f)
      BY <1>1, <2>1, <2>2, ReplyEmits
    <2>4. NoScanStep(f)
      BY <2>2, <2>3 DEF NoScanStep
    <2> QED BY <2>2, <2>3, <2>4, CarriedUnchanged
  <1> QED BY <1>2, <1>3, <1>4, <1>5, <1>6, <1>7 DEF NcpStep

LEMMA RequestTags ==
  ASSUME TypeOK
  PROVE  \A i \in Requests : outbox[i].tag \in 0 .. MaxCalls
  <1>1. outbox \in Seq(Request)
    BY DEF TypeOK
  <1>2. \A i \in DOMAIN outbox : outbox[i] \in Request
    BY <1>1, QueueType
  <1> QED BY <1>2 DEF Requests, Request

(* Queues and numbers of a step that makes no request.                     *)
LEMMA NumbersKeep ==
  ASSUME TypeOK, TypeOK', NumbersInv, RequestsCarried,
         UNCHANGED <<scanId, ncalls, ncpScan, reported>>, id' \in {id, 0},
         pc' = "ready" => pc = "ready" /\ id' = id,
         pc' \in {"send", "recv", "started"} =>
           pc \in {"send", "recv", "started"} /\ id' = id
  PROVE  NumbersInv'
  <1>1. PICK d \in {0, 1} :
          \A i \in Requests' : i + d \in Requests /\ outbox'[i] = outbox[i + d]
    BY DEF RequestsCarried
  <1>2. (Requests \subseteq Nat \ {0})'
    BY QueueDomains, PTL
  <1>3. \A i, j \in Requests' : i = j
    <2>1. \A i, j \in Requests : i = j
      BY DEF NumbersInv
    <2> QED BY <1>1, <1>2, <2>1
  <1>4. \A i \in Requests' :
          /\ scanId' < outbox'[i].tag /\ outbox'[i].tag <= ncalls'
          /\ ncpScan' # outbox'[i].tag /\ reported'[outbox'[i].tag] = 0
    BY <1>1 DEF NumbersInv
  <1>5. id' <= ncalls'
    BY ClientAssumption, SMTT(60) DEF NumbersInv, TypeOK
  <1>6. /\ pc' \in {"ready", "send", "recv", "started"} => scanId' < id'
        /\ pc' = "ready" => ncpScan' # id' /\ reported'[id'] = 0
    BY DEF NumbersInv
  <1> QED BY <1>3, <1>4, <1>5, <1>6 DEF NumbersInv

LEMMA NumbersInit == Init => NumbersInv
  <1> SUFFICES ASSUME Init PROVE NumbersInv
    OBVIOUS
  <1>1. DOMAIN outbox = {}
    BY QueueEmpty DEF Init
  <1> QED BY <1>1, ClientAssumption DEF Init, NumbersInv, Requests

LEMMA NumbersStep ==
  ASSUME StopsAtErrors
  PROVE  TypeInv /\ TypeInv' /\ OwnInv /\ NumbersInv /\ [Next]_vars
         => NumbersInv'
  <1> SUFFICES ASSUME TypeInv, TypeInv', OwnInv, NumbersInv, [Next]_vars
               PROVE  NumbersInv'
    OBVIOUS
  <1>1. TypeOK /\ TypeOK'
    BY DEF TypeInv
  <1> USE DEF callerVars, scanVars
  <1>2. CASE NegotiateVersion
    <2>1. /\ Write(VersionRequest(FALSE)) /\ id' = 0 /\ pc' = "neg1"
          /\ UNCHANGED <<scanId, ncalls, ncpScan, reported>>
      BY <1>2 DEF NegotiateVersion, VersionRequest, ncpVars
    <2>2. RequestsCarried
      BY <1>1, <2>1, CarriedWrite
    <2> QED BY <1>1, <2>1, <2>2, NumbersKeep
  <1>3. ASSUME NEW c \in Wants, Command(c) PROVE NumbersInv'
    <2>1. /\ ncalls < MaxCalls /\ ncalls' = ncalls + 1 /\ id' = ncalls + 1
          /\ pc' = "ready" /\ UNCHANGED <<scanId, outbox, ncpScan, reported>>
          /\ MayCall
      BY <1>3 DEF Command, ncpVars
    <2>2. Requests' = {}
      BY <2>1 DEF MayCall, StopsAtErrors, OwnInv, Quiet, Requests
    <2>3. /\ ncalls \in Nat /\ MaxCalls \in Nat /\ scanId \in Nat
          /\ ncpScan \in Nat
      BY <1>1, ClientAssumption DEF TypeOK
    <2>4. /\ scanId' <= ncalls' /\ ncpScan' <= ncalls' /\ id' <= ncalls'
          /\ scanId' < id' /\ ncpScan' # id'
      BY <2>1, <2>3 DEF NumbersInv
    <2>5. /\ reported'[id'] = 0
          /\ \A t \in 0 .. MaxCalls : t > ncalls' => reported'[t] = 0
      <3>1. /\ id' \in 0 .. MaxCalls /\ id' > ncalls
            /\ \A t \in 0 .. MaxCalls : t > ncalls' => t > ncalls
        BY <2>1, <2>3
      <3> QED BY <2>1, <3>1 DEF NumbersInv
    <2> QED BY <2>2, <2>4, <2>5 DEF NumbersInv
  <1>4. CASE SendRequest
    <2> DEFINE r == [fid |-> want, tag |-> id, ext |-> extended]
    <2>1. /\ pc = "ready" /\ pc' = "send" /\ Write(r)
          /\ UNCHANGED <<id, scanId, ncalls, ncpScan, reported>>
      BY <1>4 DEF SendRequest, ncpVars
    <2>2. r \in Request /\ r.tag = id
      BY <1>1 DEF Request, TypeOK
    <2>3. Requests = {}
      BY <2>1 DEF OwnInv, Quiet
    <2> HIDE DEF r
    <2>4. \A i \in Requests' : i = Len(outbox) + 1 /\ outbox'[i] = r
      BY <1>1, <2>1, <2>2, <2>3, RequestsWrite
    <2> QED BY <2>1, <2>2, <2>4 DEF NumbersInv
  <1>5. CASE Response \/ ScanResponse \/ SkipCallback \/ CallFails \/ Busy
             \/ Phase1Legacy \/ Phase2 \/ BadVersion
    <2>1. /\ UNCHANGED <<id, outbox, scanId, ncalls, ncpScan, reported>>
          /\ pc' # "ready"
          /\ pc' \in {"send", "recv", "started"} => pc \in {"send", "recv"}
      BY <1>5 DEF Response, ScanResponse, SkipCallback, CallFails, Busy,
                  Phase1Legacy, Phase2, BadVersion, Return, ncpVars
    <2> QED BY <1>1, <2>1, CarriedUnchanged, NumbersKeep
  <1>6. CASE Phase1Extended
    <2>1. /\ Write(VersionRequest(TRUE)) /\ pc' = "neg2"
          /\ UNCHANGED <<id, scanId, ncalls, ncpScan, reported>>
      BY <1>6 DEF Phase1Extended, VersionRequest, ncpVars
    <2>2. RequestsCarried
      BY <1>1, <2>1, CarriedWrite
    <2> QED BY <1>1, <2>1, <2>2, NumbersKeep
  <1>7. CASE StartScan
    <2>1. /\ pc = "started" /\ pc' = "idle" /\ scanId' = id
          /\ UNCHANGED <<id, outbox, ncalls, ncpScan, reported>>
      BY <1>7 DEF StartScan, Return, ncpVars
    <2>2. Requests' = {}
      BY <2>1 DEF OwnInv, Quiet, Requests
    <2> QED BY <2>1, <2>2 DEF NumbersInv
  <1>8. CASE ScanCtxDone \/ ReadResult \/ ReadEnd \/ Abandon
    <2>1. UNCHANGED <<pc, id, outbox, scanId, ncalls, ncpScan, reported>>
      BY <1>8 DEF ScanCtxDone, ReadResult, ReadEnd, Abandon, ncpVars
    <2> QED BY <1>1, <2>1, CarriedUnchanged, NumbersKeep
  <1>9. CASE GoroutineStep
    <2>1. UNCHANGED <<pc, id, outbox, ncalls, ncpScan, reported>>
      BY <1>1, <1>9, GoroutineKeeps DEF ncpVars
    <2>2. scanId' = scanId
      BY <1>9 DEF GoroutineStep, ScanResult, Push, ScanComplete, ScanSkip,
                  ScanRecvFails, CloseChannels, ClearScanning
    <2> QED BY <1>1, <2>1, <2>2, CarriedUnchanged, NumbersKeep
  <1>10. CASE NcpStep
    <2>1. UNCHANGED <<pc, id, ncalls, scanId, out>>
      BY <1>10, NcpStepKeeps
    <2>2. RequestsCarried
      BY <1>1, <1>10, NcpKinds
    <2>3. PICK f \in Frame :
            NoScanStep(f) \/ StartStep(f) \/ ResultStep(f) \/ CompleteStep(f)
      BY <1>1, <1>10, NcpKinds
    <2>4. PICK d \in {0, 1} :
            \A i \in Requests' : i + d \in Requests /\ outbox'[i] = outbox[i + d]
      BY <2>2 DEF RequestsCarried
    <2>5. (Requests \subseteq Nat \ {0})'
      BY <1>1, QueueDomains, PTL
    <2>6. \A i, j \in Requests' : i = j
      BY <2>4, <2>5 DEF NumbersInv
    <2>7. CASE NoScanStep(f)
      BY <1>1, <2>1, <2>2, <2>7, NumbersKeep DEF NoScanStep
    <2>8. CASE StartStep(f)
      <3>1. /\ \A i \in Requests' : i + 1 \in Requests /\ i \in Nat \ {0}
            /\ Head(outbox) = outbox[1] /\ 1 \in Requests
        BY <1>1, <2>8, RequestsTakes DEF StartStep, Called
      <3>2. Requests' = {}
        BY <3>1 DEF NumbersInv
      <3>3. pc # "ready"
        BY <3>1 DEF OwnInv, Quiet
      <3>4. ncpScan' <= ncalls /\ reported' = reported
        BY <2>8, <3>1 DEF StartStep, NumbersInv
      <3> QED BY <2>1, <3>2, <3>3, <3>4 DEF NumbersInv
    <2>9. CASE ResultStep(f)
      <3>1. /\ ncpScan # 0 /\ UNCHANGED <<outbox, ncpScan>>
            /\ reported' = [reported EXCEPT ![ncpScan] = @ + 1]
        BY <2>9 DEF ResultStep
      <3>2. \A t \in 0 .. MaxCalls : t # ncpScan => reported'[t] = reported[t]
        BY <1>1, <3>1 DEF TypeOK
      <3>3. \A i \in Requests : outbox[i].tag \in 0 .. MaxCalls
        BY <1>1, RequestTags
      <3>4. Requests' = Requests
        BY <3>1 DEF Requests
      <3>5. \A i \in Requests' :
              /\ scanId' < outbox'[i].tag /\ outbox'[i].tag <= ncalls'
              /\ ncpScan' # outbox'[i].tag /\ reported'[outbox'[i].tag] = 0
        BY <2>1, <3>1, <3>2, <3>3, <3>4 DEF NumbersInv
      <3>6. \A t \in 0 .. MaxCalls : t > ncalls => reported'[t] = 0
        <4>1. ncpScan \in Nat /\ ncalls \in Nat
          BY <1>1, ClientAssumption DEF TypeOK
        <4>2. \A t \in 0 .. MaxCalls : t > ncalls => t # ncpScan
          BY <4>1, ClientAssumption DEF NumbersInv
        <4> QED BY <3>2, <4>2 DEF NumbersInv
      <3>7. pc = "ready" => reported'[id] = 0
        BY <1>1, <3>2 DEF NumbersInv, TypeOK
      <3> QED BY <2>1, <2>6, <3>1, <3>5, <3>6, <3>7 DEF NumbersInv
    <2>10. CASE CompleteStep(f)
      <3>1. ncpScan' = 0 /\ UNCHANGED <<outbox, reported>>
        BY <2>10 DEF CompleteStep
      <3>2. Requests' = Requests
        BY <3>1 DEF Requests
      <3>3. /\ id \in Nat /\ ncalls \in Nat /\ scanId \in Nat
            /\ \A i \in Requests : outbox[i].tag \in 0 .. MaxCalls
        <4>1. \A i \in Requests : outbox[i].tag \in 0 .. MaxCalls
          BY <1>1, RequestTags
        <4>2. id \in Nat /\ ncalls \in Nat /\ scanId \in Nat
          BY <1>1, ClientAssumption DEF TypeOK
        <4> QED BY <4>1, <4>2
      <3>4. \A i \in Requests' :
              /\ scanId' < outbox'[i].tag /\ outbox'[i].tag <= ncalls'
              /\ ncpScan' # outbox'[i].tag /\ reported'[outbox'[i].tag] = 0
        <4>1. \A i \in Requests : scanId < outbox[i].tag => 0 # outbox[i].tag
          BY <3>3
        <4> QED BY <2>1, <3>1, <3>2, <4>1 DEF NumbersInv
      <3>5. pc = "ready" => 0 # id
        BY <3>3 DEF NumbersInv
      <3>6. 0 <= ncalls
        BY <3>3
      <3> QED BY <2>1, <2>6, <3>1, <3>4, <3>5, <3>6 DEF NumbersInv
    <2> QED BY <2>3, <2>7, <2>8, <2>9, <2>10
  <1>11. CASE UNCHANGED vars
    <2>1. UNCHANGED <<pc, id, outbox, scanId, ncalls, ncpScan, reported>>
      BY <1>11 DEF vars, ncpVars
    <2> QED BY <1>1, <2>1, CarriedUnchanged, NumbersKeep
  <1> QED
    BY <1>2, <1>3, <1>4, <1>5, <1>6, <1>7, <1>8, <1>9, <1>10, <1>11
    DEF Next, CallerStep

(* The results of a scan under the operations on the inbox.                *)
LEMMA InboxNumbers ==
  ASSUME TypeOK
  PROVE  /\ DOMAIN inbox \subseteq Nat \ {0}
         /\ \A i \in DOMAIN inbox : inbox[i].n \in Nat
         /\ \A t \in 0 .. MaxCalls : reported[t] \in Nat
  <1>1. inbox \in Seq(Frame)
    BY DEF TypeOK
  <1>2. DOMAIN inbox = 1 .. Len(inbox) /\ Len(inbox) \in Nat
        /\ \A i \in DOMAIN inbox : inbox[i] \in Frame
    BY <1>1, QueueType
  <1>3. \A i \in DOMAIN inbox : inbox[i].n \in 0 .. MaxResults
    BY <1>2 DEF Frame
  <1>4. \A t \in 0 .. MaxCalls : reported[t] \in 0 .. MaxResults
    BY DEF TypeOK
  <1> QED BY <1>2, <1>3, <1>4, ClientAssumption

(* A frame in front of them is taken.                                      *)
LEMMA StreamShift ==
  ASSUME TypeOK, TypeOK', NEW F, Receive(F), UNCHANGED <<ncpScan, reported>>,
         NEW s \in 0 .. MaxCalls, NEW k \in Nat, NEW p \in Nat, NEW q \in Nat,
         \/ p = q + 1
         \/ p = 0 /\ q = 0 /\ inbox[1].fid \notin {"result", "complete"},
         Stream(s, k, p)
  PROVE  Stream(s, k, q)'
  <1>1. /\ \A i \in DOMAIN inbox :
             i \in Nat \ {0} /\ i > 1 => i - 1 \in DOMAIN inbox'
        /\ \A i \in DOMAIN inbox' :
             i \in Nat \ {0} /\ i + 1 \in DOMAIN inbox
             /\ inbox'[i] = inbox[i + 1]
    BY InboxReceive
  <1>2. DOMAIN inbox \subseteq Nat \ {0}
    BY InboxNumbers
  <1>3. \A i \in ResultsAfter(q)' :
          i \in Nat /\ i + 1 \in ResultsAfter(p) /\ inbox'[i] = inbox[i + 1]
    BY <1>1 DEF ResultsAfter
  <1>4. \A i \in CompletesAfter(q)' : i \in Nat /\ i + 1 \in CompletesAfter(p)
    BY <1>1 DEF CompletesAfter
  <1>5. \A i \in ResultsAfter(p) :
          i - 1 \in ResultsAfter(q)' /\ inbox'[i - 1] = inbox[i]
    <2> SUFFICES ASSUME NEW i \in ResultsAfter(p)
                 PROVE  i - 1 \in ResultsAfter(q)' /\ inbox'[i - 1] = inbox[i]
      OBVIOUS
    <2>1. i \in Nat \ {0} /\ i \in DOMAIN inbox /\ i > p
          /\ inbox[i].fid = "result"
      BY <1>2 DEF ResultsAfter
    <2>2. i > 1 /\ i - 1 > q
      BY <2>1
    <2>3. i - 1 \in DOMAIN inbox' /\ (i - 1) + 1 = i
      BY <1>1, <2>1, <2>2
    <2>4. inbox'[i - 1] = inbox[i]
      BY <1>1, <2>3
    <2> QED BY <2>1, <2>2, <2>3, <2>4 DEF ResultsAfter
  <1>6. \A n \in 1 .. reported'[s] :
          n > k => \E i \in ResultsAfter(q)' : inbox'[i].n = n
    BY <1>5 DEF Stream
  <1>7. \A i, j \in ResultsAfter(q)' : i < j => inbox'[i].n < inbox'[j].n
    BY <1>3 DEF Stream
  <1>8. \A i \in CompletesAfter(q)' :
          ncpScan' # s /\ (\A j \in ResultsAfter(q)' : j < i)
    BY <1>3, <1>4 DEF Stream
  <1>9. \A i \in ResultsAfter(q)' :
          inbox'[i].tag = s /\ inbox'[i].n > k /\ inbox'[i].n <= reported'[s]
    BY <1>3 DEF Stream
  <1>10. ncpScan' \in {0, s} /\ k <= reported'[s]
    BY DEF Stream
  <1> QED BY <1>6, <1>7, <1>8, <1>9, <1>10 DEF Stream

(* The first of them is taken: it is the next to deliver.                  *)
LEMMA StreamTake ==
  ASSUME TypeOK, TypeOK', NEW F, Receive(F), UNCHANGED <<ncpScan, reported>>,
         NEW s \in 0 .. MaxCalls, NEW k \in Nat,
         inbox[1].fid = "result", Stream(s, k, 0)
  PROVE  inbox[1].tag = s /\ inbox[1].n = k + 1 /\ Stream(s, k + 1, 0)'
  <1>1. /\ 1 \in DOMAIN inbox
        /\ \A i \in DOMAIN inbox :
             i \in Nat \ {0} /\ i > 1 => i - 1 \in DOMAIN inbox'
        /\ \A i \in DOMAIN inbox' :
             i \in Nat \ {0} /\ i + 1 \in DOMAIN inbox
             /\ inbox'[i] = inbox[i + 1]
    BY InboxReceive
  <1>2. /\ DOMAIN inbox \subseteq Nat \ {0} /\ reported[s] \in Nat
        /\ \A i \in DOMAIN inbox : inbox[i].n \in Nat
    BY InboxNumbers
  <1>3. 1 \in ResultsAfter(0)
    BY <1>1 DEF ResultsAfter
  <1>4. \A i \in ResultsAfter(0) : i \in DOMAIN inbox /\ i \in Nat \ {0}
    BY <1>2 DEF ResultsAfter
  <1>5. \A i \in ResultsAfter(0) : i # 1 => inbox[1].n < inbox[i].n
    <2>1. \A i \in ResultsAfter(0) : i # 1 => 1 < i
      BY <1>4
    <2> QED BY <1>3, <2>1 DEF Stream
  <1>6. inbox[1].tag = s /\ inbox[1].n > k /\ inbox[1].n <= reported[s]
    BY <1>3 DEF Stream
  <1>7. inbox[1].n = k + 1
    <2>1. k + 1 \in 1 .. reported[s] /\ k + 1 > k
      BY <1>1, <1>2, <1>6
    <2>2. PICK i \in ResultsAfter(0) : inbox[i].n = k + 1
      BY <2>1 DEF Stream
    <2>3. i = 1
      BY <1>1, <1>2, <1>5, <1>6, <2>2
    <2> QED BY <2>2, <2>3
  <1>8. \A i \in ResultsAfter(0)' :
          i \in Nat \ {0} /\ i + 1 \in ResultsAfter(0) /\ inbox'[i] = inbox[i + 1]
    BY <1>1 DEF ResultsAfter
  <1>9. \A i \in CompletesAfter(0)' : i \in Nat /\ i + 1 \in CompletesAfter(0)
    BY <1>1 DEF CompletesAfter
  <1>10. \A i \in ResultsAfter(0) : i # 1 =>
           i - 1 \in ResultsAfter(0)' /\ inbox'[i - 1] = inbox[i]
    <2> SUFFICES ASSUME NEW i \in ResultsAfter(0), i # 1
                 PROVE  i - 1 \in ResultsAfter(0)' /\ inbox'[i - 1] = inbox[i]
      OBVIOUS
    <2>1. i \in Nat \ {0} /\ i > 1 /\ i - 1 > 0 /\ (i - 1) + 1 = i
      BY <1>4
    <2>2. i - 1 \in DOMAIN inbox' /\ inbox'[i - 1] = inbox[i]
      BY <1>1, <1>4, <2>1
    <2> QED BY <2>1, <2>2 DEF ResultsAfter
  <1>11. \A i \in ResultsAfter(0)' :
           /\ inbox'[i].tag = s /\ inbox'[i].n <= reported'[s]
           /\ inbox'[i].n > k + 1
    <2> SUFFICES ASSUME NEW i \in ResultsAfter(0)'
                 PROVE  /\ inbox[i + 1].tag = s /\ inbox[i + 1].n <= reported[s]
                        /\ inbox[i + 1].n > k + 1
      BY <1>8
    <2>1. i + 1 \in ResultsAfter(0) /\ i + 1 # 1 /\ i + 1 \in DOMAIN inbox
      BY <1>4, <1>8
    <2>2. inbox[1].n < inbox[i + 1].n /\ inbox[i + 1].n \in Nat
      BY <1>2, <1>5, <2>1
    <2> QED BY <1>7, <2>1, <2>2 DEF Stream
  <1>12. \A i, j \in ResultsAfter(0)' : i < j => inbox'[i].n < inbox'[j].n
    BY <1>8 DEF Stream
  <1>13. \A n \in 1 .. reported'[s] :
           n > k + 1 => \E i \in ResultsAfter(0)' : inbox'[i].n = n
    <2> SUFFICES ASSUME NEW n \in 1 .. reported[s], n > k + 1
                 PROVE  \E i \in ResultsAfter(0)' : inbox'[i].n = n
      OBVIOUS
    <2>1. n > k
      BY <1>2
    <2>2. PICK i \in ResultsAfter(0) : inbox[i].n = n
      BY <2>1 DEF Stream
    <2>3. i # 1
      BY <1>2, <1>7, <2>2
    <2> QED BY <1>10, <2>2, <2>3
  <1>14. \A i \in CompletesAfter(0)' :
           ncpScan' # s /\ (\A j \in ResultsAfter(0)' : j < i)
    BY <1>8, <1>9 DEF Stream
  <1>15. ncpScan' \in {0, s} /\ k + 1 <= reported'[s]
    BY <1>6, <1>7 DEF Stream
  <1> QED BY <1>6, <1>7, <1>11, <1>12, <1>13, <1>14, <1>15 DEF Stream

(* The scan completes: there is nothing left to deliver.                   *)
LEMMA StreamEnd ==
  ASSUME TypeOK, 1 \in DOMAIN inbox, inbox[1].fid = "complete",
         NEW s \in 0 .. MaxCalls, NEW k \in Nat, Stream(s, k, 0)
  PROVE  ncpScan # s /\ reported[s] = k
  <1>1. /\ DOMAIN inbox \subseteq Nat \ {0} /\ reported[s] \in Nat
    BY InboxNumbers
  <1>2. 1 \in CompletesAfter(0)
    BY DEF CompletesAfter
  <1>3. ncpScan # s /\ (\A j \in ResultsAfter(0) : j < 1)
    BY <1>2 DEF Stream
  <1>4. ResultsAfter(0) = {}
    BY <1>1, <1>3 DEF ResultsAfter
  <1>5. k <= reported[s] /\ \A n \in 1 .. reported[s] : ~ (n > k)
    BY <1>4 DEF Stream
  <1>6. ~ (reported[s] > k)
    BY <1>1, <1>5
  <1> QED BY <1>1, <1>3, <1>5, <1>6

(* A frame of the NCP comes in behind them.                                *)
LEMMA StreamEmit ==
  ASSUME TypeOK, TypeOK', NEW f \in Frame, Emit(f),
         NoScanStep(f) \/ ResultStep(f) \/ CompleteStep(f),
         NEW s \in 0 .. MaxCalls, NEW k \in Nat, NEW p \in Nat,
         p <= Len(inbox), Stream(s, k, p)
  PROVE  Stream(s, k, p)'
  <1>1. /\ Len(inbox) \in Nat /\ DOMAIN inbox = 1 .. Len(inbox)
        /\ DOMAIN inbox' = 1 .. Len(inbox) + 1
        /\ \A i \in DOMAIN inbox : inbox'[i] = inbox[i]
        /\ inbox'[Len(inbox) + 1] = f
    BY InboxEmit
  <1>2. /\ reported[s] \in Nat
        /\ \A i \in DOMAIN inbox : inbox[i].n \in Nat
    BY InboxNumbers
  <1>3. \A i \in ResultsAfter(p) :
          i \in ResultsAfter(p)' /\ inbox'[i] = inbox[i] /\ i \in 1 .. Len(inbox)
    BY <1>1 DEF ResultsAfter
  <1>4. \A i \in ResultsAfter(p)' :
          \/ i \in ResultsAfter(p) /\ inbox'[i] = inbox[i]
          \/ i = Len(inbox) + 1 /\ inbox'[i] = f /\ f.fid = "result"
    BY <1>1 DEF ResultsAfter
  <1>5. \A i \in CompletesAfter(p)' :
          \/ i \in CompletesAfter(p)
          \/ i = Len(inbox) + 1 /\ f.fid = "complete"
    BY <1>1 DEF CompletesAfter
  <1>6. CASE NoScanStep(f)
    <2>1. ncpScan' = ncpScan /\ reported' = reported
          /\ f.fid \notin {"result", "complete"}
      BY <1>6 DEF NoScanStep
    <2>2. \A i \in ResultsAfter(p)' : i \in ResultsAfter(p) /\ inbox'[i] = inbox[i]
      BY <1>4, <2>1
    <2>3. \A i \in CompletesAfter(p)' : i \in CompletesAfter(p)
      BY <1>5, <2>1
    <2>4. \A n \in 1 .. reported'[s] :
            n > k => \E i \in ResultsAfter(p)' : inbox'[i].n = n
      BY <1>3, <2>1 DEF Stream
    <2>5. \A i \in CompletesAfter(p)' :
            ncpScan' # s /\ (\A j \in ResultsAfter(p)' : j < i)
      BY <2>1, <2>2, <2>3 DEF Stream
    <2> QED BY <2>1, <2>2, <2>4, <2>5 DEF Stream
  <1>7. CASE ResultStep(f)
    <2>1. /\ ncpScan # 0 /\ ncpScan' = ncpScan
          /\ f.fid = "result" /\ f.tag = ncpScan
          /\ reported' = [reported EXCEPT ![ncpScan] = @ + 1]
          /\ f.n = reported'[ncpScan]
      BY <1>7 DEF ResultStep
    <2>2. ncpScan = s
      BY <2>1 DEF Stream
    <2>3. reported'[s] = reported[s] + 1 /\ f.n = reported[s] + 1
      BY <2>1, <2>2 DEF TypeOK
    <2>4. CompletesAfter(p) = {}
      BY <2>2 DEF Stream
    <2>5. CompletesAfter(p)' = {}
      BY <1>5, <2>1, <2>4
    <2>6. /\ Len(inbox) + 1 \in ResultsAfter(p)'
          /\ inbox'[Len(inbox) + 1].n = reported[s] + 1
      BY <1>1, <2>1, <2>3 DEF ResultsAfter
    <2>7. \A i \in ResultsAfter(p)' :
            inbox'[i].tag = s /\ inbox'[i].n > k /\ inbox'[i].n <= reported'[s]
      <3> SUFFICES ASSUME NEW i \in ResultsAfter(p)'
                   PROVE  /\ inbox'[i].tag = s /\ inbox'[i].n > k
                          /\ inbox'[i].n <= reported'[s]
        OBVIOUS
      <3>1. CASE i \in ResultsAfter(p) /\ inbox'[i] = inbox[i]
        <4>1. inbox[i].n \in Nat
          BY <1>1, <1>2, <1>3, <3>1
        <4>2. inbox[i].tag = s /\ inbox[i].n > k /\ inbox[i].n <= reported[s]
          BY <3>1 DEF Stream
        <4> QED BY <1>2, <2>3, <3>1, <4>1, <4>2
      <3>2. CASE inbox'[i] = f
        <4>1. k <= reported[s]
          BY DEF Stream
        <4> QED BY <1>2, <2>1, <2>2, <2>3, <3>2, <4>1
      <3> QED BY <1>4, <3>1, <3>2
    <2>8. \A i, j \in ResultsAfter(p)' : i < j => inbox'[i].n < inbox'[j].n
      <3> SUFFICES ASSUME NEW i \in ResultsAfter(p)', NEW j \in ResultsAfter(p)',
                          i < j
                   PROVE  inbox'[i].n < inbox'[j].n
        OBVIOUS
      <3>1. i \in ResultsAfter(p) /\ inbox'[i] = inbox[i]
        <4>1. j \in 1 .. Len(inbox) + 1
          BY <1>1 DEF ResultsAfter
        <4>2. i # Len(inbox) + 1
          BY <1>1, <4>1
        <4> QED BY <1>4, <4>2
      <3>2. CASE j \in ResultsAfter(p) /\ inbox'[j] = inbox[j]
        BY <3>1, <3>2 DEF Stream
      <3>3. CASE inbox'[j] = f
        <4>1. inbox[i].n <= reported[s] /\ inbox[i].n \in Nat
          BY <1>1, <1>2, <1>3, <3>1 DEF Stream
        <4> QED BY <1>2, <2>3, <3>1, <3>3, <4>1
      <3> QED BY <1>4, <3>2, <3>3
    <2>9. \A n \in 1 .. reported'[s] :
            n > k => \E i \in ResultsAfter(p)' : inbox'[i].n = n
      <3> SUFFICES ASSUME NEW n \in 1 .. reported[s] + 1, n > k
                   PROVE  \E i \in ResultsAfter(p)' : inbox'[i].n = n
        BY <2>3
      <3>1. CASE n = reported[s] + 1
        BY <2>6, <3>1
      <3>2. CASE n # reported[s] + 1
        <4>1. n \in 1 .. reported[s]
          BY <1>2, <3>2
        <4>2. PICK i \in ResultsAfter(p) : inbox[i].n = n
          BY <4>1 DEF Stream
        <4> QED BY <1>3, <4>2
      <3> QED BY <3>1, <3>2
    <2>10. k <= reported'[s]
      <3>1. k <= reported[s]
        BY DEF Stream
      <3> QED BY <1>2, <2>3, <3>1
    <2> QED BY <2>1, <2>2, <2>5, <2>7, <2>8, <2>9, <2>10 DEF Stream
  <1>8. CASE CompleteStep(f)
    <2>1. ncpScan # 0 /\ ncpScan' = 0 /\ reported' = reported
          /\ f.fid = "complete"
      BY <1>8 DEF CompleteStep
    <2>2. ncpScan = s /\ ncpScan' # s
      BY <2>1 DEF Stream
    <2>3. \A i \in ResultsAfter(p)' :
            i \in ResultsAfter(p) /\ inbox'[i] = inbox[i] /\ i < Len(inbox) + 1
      <3>1. \A i \in ResultsAfter(p)' : i \in ResultsAfter(p) /\ inbox'[i] = inbox[i]
        BY <1>4, <2>1
      <3> QED BY <1>1, <1>3, <3>1
    <2>4. CompletesAfter(p) = {}
      BY <2>2 DEF Stream
    <2>5. \A i \in CompletesAfter(p)' :
            ncpScan' # s /\ (\A j \in ResultsAfter(p)' : j < i)
      BY <1>5, <2>2, <2>3, <2>4
    <2>6. \A n \in 1 .. reported'[s] :
            n > k => \E i \in ResultsAfter(p)' : inbox'[i].n = n
      BY <1>3, <2>1 DEF Stream
    <2>7. ncpScan' \in {0, s} /\ k <= reported'[s]
      BY <2>1 DEF Stream
    <2>8. /\ \A i \in ResultsAfter(p)' :
               inbox'[i].tag = s /\ inbox'[i].n > k /\ inbox'[i].n <= reported'[s]
          /\ \A i, j \in ResultsAfter(p)' : i < j => inbox'[i].n < inbox'[j].n
      BY <2>1, <2>3 DEF Stream
    <2> QED BY <2>5, <2>6, <2>7, <2>8 DEF Stream
  <1> QED BY <1>6, <1>7, <1>8

(* A scan starts: nothing of it has been reported.                         *)
LEMMA StreamNew ==
  ASSUME TypeOK, NEW f \in Frame, Emit(f), NEW p \in Nat, p = Len(inbox) + 1,
         NEW s \in 0 .. MaxCalls, reported'[s] = 0, ncpScan' \in {0, s}
  PROVE  Stream(s, 0, p)'
  <1>1. /\ Len(inbox) \in Nat /\ DOMAIN inbox' = 1 .. Len(inbox) + 1
    BY InboxEmit
  <1>2. ResultsAfter(p)' = {} /\ CompletesAfter(p)' = {}
    BY <1>1 DEF ResultsAfter, CompletesAfter
  <1> QED BY <1>2 DEF Stream

(* A step that leaves the inbox and the scans alone.                       *)
------------------------------------------------------------------------------
LEMMA RunInit == Init => RunInv /\ StreamInv /\ EndInv /\ InOrder
  <1> SUFFICES ASSUME Init PROVE RunInv /\ StreamInv /\ EndInv /\ InOrder
    OBVIOUS
  <1>1. DOMAIN got = {} /\ DOMAIN results = {} /\ DOMAIN held = {}
    BY QueueEmpty DEF Init
  <1> QED BY <1>1 DEF Init, RunInv, StreamInv, EndInv, InOrder

LEMMA RunStep ==
  ASSUME StopsAtErrors, NegotiatesOnce
  PROVE  TypeInv /\ ConnInv /\ OwnInv /\ NumbersInv /\ RunInv /\ [Next]_vars
         => RunInv'
  <1> SUFFICES ASSUME TypeInv, ConnInv, OwnInv, NumbersInv, RunInv, [Next]_vars
               PROVE  RunInv'
    OBVIOUS
  <1> USE DEF RunInv, callerVars, scanVars, readVars
  <1>1. CASE NegotiateVersion
    BY <1>1 DEF NegotiateVersion
  <1>2. ASSUME NEW c \in Wants, Command(c) PROVE RunInv'
    BY <1>2 DEF Command
  <1>3. CASE Busy
    BY <1>3 DEF Busy, Return
  <1>4. CASE SendRequest \/ ScanResponse \/ SkipCallback
    BY <1>4 DEF SendRequest, ScanResponse, SkipCallback
  <1>5. CASE Response \/ CallFails \/ BadVersion \/ Phase1Legacy \/ Phase2
    <2>1. pc # "idle" /\ UNCHANGED <<scanning, scanVars, readVars>>
      BY <1>5 DEF Response, CallFails, BadVersion, Phase1Legacy, Phase2
    <2>2. ~scanning'
      BY <2>1 DEF ConnInv
    <2> QED BY <2>1, <2>2
  <1>6. CASE Phase1Extended
    BY <1>6 DEF Phase1Extended
  <1>7. CASE StartScan
    <2>1. /\ pc = "started" /\ goroutine' = "recv" /\ closed' = FALSE
          /\ scanId' = id /\ held' = held /\ scanOut' = "none" /\ out' = "ok"
      BY <1>7 DEF StartScan, Return
    <2>2. goroutine = "none"
      BY <2>1 DEF ConnInv
    <2>3. 0 < scanId'
      <3>1. scanId \in Nat /\ id \in Nat
        BY ClientAssumption DEF TypeInv, TypeOK
      <3> QED BY <2>1, <3>1 DEF NumbersInv
    <2> QED BY <2>1, <2>2, <2>3
  <1>8. CASE ScanCtxDone
    BY <1>8 DEF ScanCtxDone
  <1>9. CASE ScanResult
    BY <1>9 DEF ScanResult
  <1>10. CASE Push
    BY <1>10 DEF Push
  <1>11. CASE ScanComplete \/ ScanSkip \/ ScanRecvFails
    BY <1>11 DEF ScanComplete, ScanSkip, ScanRecvFails
  <1>12. CASE CloseChannels
    BY <1>12 DEF CloseChannels
  <1>13. CASE ClearScanning
    BY <1>13 DEF ClearScanning
  <1>14. CASE ReadResult \/ ReadEnd \/ Abandon
    BY <1>14 DEF ReadResult, ReadEnd, Abandon
  <1>15. CASE NcpStep
    BY <1>15, NcpStepKeeps
  <1>16. CASE UNCHANGED vars
    BY <1>16 DEF vars
  <1> QED
    BY <1>1, <1>2, <1>3, <1>4, <1>5, <1>6, <1>7, <1>8, <1>9, <1>10, <1>11,
       <1>12, <1>13, <1>14, <1>15, <1>16
    DEF Next, CallerStep, GoroutineStep

LEMMA DeliveredType ==
  TypeInv => Delivered \in Nat /\ Len(got) \in Nat /\ Len(results) \in Nat
  <1> SUFFICES ASSUME TypeInv
               PROVE  Delivered \in Nat /\ Len(got) \in Nat /\ Len(results) \in Nat
    OBVIOUS
  <1>1. got \in Seq(Frame) /\ results \in Seq(Frame) /\ held \in Seq(Frame)
    BY DEF TypeInv, TypeOK
  <1>2. Len(got) \in Nat /\ Len(results) \in Nat /\ Len(held) \in Nat
    BY <1>1, QueueType
  <1> QED BY <1>2 DEF Delivered

LEMMA StreamStep ==
  ASSUME StopsAtErrors, NegotiatesOnce
  PROVE  /\ TypeInv /\ TypeInv' /\ ConnInv /\ ConnInv' /\ OwnInv /\ FormatInv
         /\ NumbersInv /\ RunInv /\ StreamInv /\ [Next]_vars
         => StreamInv'
  <1> SUFFICES ASSUME TypeInv, TypeInv', ConnInv, ConnInv', OwnInv, FormatInv,
                      NumbersInv, RunInv, StreamInv, [Next]_vars
               PROVE  StreamInv'
    OBVIOUS
  <1>1. TypeOK /\ TypeOK'
    BY DEF TypeInv
  <1>2. /\ pc # "idle" => goroutine = "none"
        /\ pc' # "idle" => goroutine' = "none"
    BY DEF ConnInv
  <1> USE DEF callerVars, scanVars, readVars, ncpVars
  <1>3. ASSUME pc' \notin {"send", "recv", "started"},
               goroutine' \notin {"recv", "push"}
        PROVE  StreamInv'
    BY <1>3 DEF StreamInv
  <1>4. ASSUME UNCHANGED <<inbox, ncpScan, reported, scanId, Delivered>>,
               pc' \notin {"send", "recv", "started"},
               goroutine' \in {"recv", "push"} => goroutine \in {"recv", "push"}
        PROVE  StreamInv'
    <2>1. goroutine' \in {"recv", "push"} => Stream(scanId, Delivered, 0)
      BY <1>4 DEF StreamInv
    <2>2. Stream(scanId, Delivered, 0) => Stream(scanId, Delivered, 0)'
      BY <1>4 DEF Stream, ResultsAfter, CompletesAfter
    <2> QED BY <1>4, <2>1, <2>2 DEF StreamInv
  <1>5. ASSUME UNCHANGED <<inbox, ncpScan, reported, pc, id, goroutine, scanId,
                           Delivered>>
        PROVE  StreamInv'
    BY <1>5 DEF StreamInv, Stream, ResultsAfter, CompletesAfter, Responses, Started
  <1>6. PICK s \in 0 .. MaxCalls : s = id
    BY <1>1 DEF TypeOK
  <1>7. PICK t \in 0 .. MaxCalls : t = scanId
    BY <1>1 DEF TypeOK
  <1>8. PICK k \in Nat : k = Delivered
    BY DeliveredType
  <1>9. CASE ScanResponse
    <2>1. /\ Receive({"startScan"}) /\ Head(inbox).ok /\ pc \in {"send", "recv"}
          /\ pc' = "started" /\ UNCHANGED <<id, ncpScan, reported>>
      BY <1>9 DEF ScanResponse
    <2>2. /\ Head(inbox) = inbox[1] /\ inbox[1].fid = "startScan"
          /\ 1 \in Responses
      BY <1>1, <2>1, ResponsesReceive DEF Called
    <2>3. Stream(s, 0, 1)
      BY <1>6, <2>1, <2>2 DEF StreamInv, Started
    <2>4. Stream(s, 0, 0)'
      BY <1>1, <2>1, <2>3, StreamShift
    <2>5. Stream(id, 0, 0)'
      BY <1>6, <2>1, <2>4 DEF Stream
    <2> QED BY <1>2, <2>1, <2>5 DEF StreamInv
  <1>10. CASE SkipCallback
    <2>1. /\ Receive(FrameId) /\ pc \in {"send", "recv"}
          /\ pc' = "recv" /\ UNCHANGED <<id, ncpScan, reported>>
      BY <1>10 DEF SkipCallback
    <2>2. ASSUME NEW p \in Responses', Started(p)' PROVE Stream(s, 0, p)'
      <3>1. p + 1 \in Responses /\ inbox'[p] = inbox[p + 1] /\ p \in Nat
            /\ p + 1 \in Nat
        BY <1>1, <2>1, ResponsesReceive
      <3>2. Started(p + 1)
        BY <2>2, <3>1 DEF Started
      <3>3. Stream(s, 0, p + 1)
        BY <1>6, <2>1, <3>1, <3>2 DEF StreamInv
      <3> QED BY <1>1, <2>1, <3>1, <3>3, StreamShift
    <2>3. ASSUME NEW p \in Responses', Started(p)' PROVE Stream(id, 0, p)'
      BY <1>6, <2>1, <2>2, <2>3 DEF Stream
    <2> QED BY <1>2, <2>1, <2>3 DEF StreamInv
  <1>11. CASE NegotiateVersion \/ (\E c \in Wants : Command(c)) \/ Busy
    <2>1. /\ pc' \notin {"send", "recv", "started"}
          /\ UNCHANGED <<inbox, ncpScan, reported, goroutine, scanId, got,
                         results, held>>
      BY <1>11 DEF NegotiateVersion, Command, Busy, Return
    <2> QED BY <1>4, <2>1 DEF Delivered
  <1>12. CASE SendRequest
    <2>1. pc = "ready" /\ pc' = "send" /\ inbox' = inbox
      BY <1>12 DEF SendRequest
    <2>2. Responses' = {}
      BY <2>1 DEF OwnInv, Quiet, Responses
    <2> QED BY <1>2, <2>1, <2>2 DEF StreamInv
  <1>13. CASE Response \/ CallFails \/ Phase1Legacy \/ Phase1Extended
              \/ Phase2 \/ BadVersion
    <2>1. /\ pc # "idle" /\ pc' \in {"idle", "neg2"} /\ goroutine' = goroutine
      BY <1>13 DEF Response, CallFails, Phase1Legacy, Phase1Extended,
                   Phase2, BadVersion, Return
    <2> QED BY <1>2, <1>3, <2>1
  <1>14. CASE StartScan
    <2>1. /\ pc = "started" /\ pc' = "idle" /\ scanId' = id
          /\ got' = <<>> /\ results' = <<>> /\ held' = held
          /\ UNCHANGED <<inbox, ncpScan, reported>>
      BY <1>14 DEF StartScan, Return
    <2>2. held = <<>>
      BY <1>2, <2>1 DEF RunInv
    <2>3. Len(<<>>) = 0
      BY QueueEmpty
    <2>4. Delivered' = 0
      BY <2>1, <2>2, <2>3 DEF Delivered
    <2>5. Stream(id, 0, 0)
      BY <2>1 DEF StreamInv
    <2>6. Stream(scanId, Delivered, 0)'
      BY <2>1, <2>4, <2>5 DEF Stream, ResultsAfter, CompletesAfter
    <2> QED BY <2>1, <2>6 DEF StreamInv
  <1>15. CASE ScanResult
    <2>1. /\ goroutine = "recv" /\ Receive({"result"}) /\ held' = <<Head(inbox)>>
          /\ UNCHANGED <<pc, scanId, got, results, ncpScan, reported>>
      BY <1>15 DEF ScanResult
    <2>2. inbox[1].fid = "result"
      BY <1>1, <2>1, InboxReceive
    <2>3. Stream(t, k, 0)
      BY <1>7, <1>8, <2>1 DEF StreamInv
    <2>4. Stream(t, k + 1, 0)'
      BY <1>1, <2>1, <2>2, <2>3, StreamTake
    <2>5. Delivered' = k + 1
      <3>1. Len(held) = 0 /\ Len(held') = 1
        BY <2>1, QueueEmpty DEF RunInv
      <3>2. Len(got) \in Nat /\ Len(results) \in Nat
        BY DeliveredType
      <3> QED BY <1>8, <2>1, <3>1, <3>2 DEF Delivered
    <2>6. Stream(scanId, Delivered, 0)'
      BY <1>7, <2>1, <2>4, <2>5 DEF Stream
    <2>7. pc' = "idle"
      BY <1>2, <2>1
    <2> QED BY <2>6, <2>7 DEF StreamInv
  <1>16. CASE Push
    <2>1. /\ goroutine = "push" /\ results' = results \o held /\ held' = <<>>
          /\ UNCHANGED <<pc, scanId, got, inbox, ncpScan, reported>>
      BY <1>16 DEF Push
    <2>2. Delivered' = Delivered
      <3>1. results \in Seq(Frame) /\ held \in Seq(Frame) /\ Len(held) <= 1
        BY DEF TypeInv, TypeOK
      <3>2. /\ Len(results \o held) = Len(results) + Len(held)
            /\ Len(results) \in Nat /\ Len(held) \in Nat
        BY <3>1, QueueMove
      <3>3. Len(<<>>) = 0
        BY QueueEmpty
      <3>4. Len(got) \in Nat
        BY DeliveredType
      <3> QED BY <2>1, <3>2, <3>3, <3>4 DEF Delivered
    <2>3. pc' = "idle"
      BY <1>2, <2>1
    <2> QED BY <1>4, <2>1, <2>2, <2>3
  <1>17. CASE ScanComplete \/ ScanRecvFails \/ CloseChannels \/ ClearScanning
    <2>1. /\ goroutine # "none" /\ goroutine' \notin {"recv", "push"} /\ pc' = pc
      BY <1>17 DEF ScanComplete, ScanRecvFails, CloseChannels, ClearScanning
    <2> QED BY <1>2, <1>3, <2>1
  <1>18. CASE ScanSkip
    <2>1. /\ goroutine = "recv" /\ Receive(FrameId)
          /\ Head(inbox).fid \notin {"result", "complete"}
             \/ Head(inbox).ext # extended
          /\ UNCHANGED <<pc, scanId, goroutine, got, results, held, ncpScan,
                         reported>>
      BY <1>18 DEF ScanSkip, Understood
    <2>2. Head(inbox) = inbox[1] /\ 1 \in DOMAIN inbox
      BY <1>1, <2>1, InboxReceive
    <2>3. version # 0
      BY <2>1 DEF ConnInv
    <2>4. inbox[1].fid \notin {"result", "complete"}
      BY <2>1, <2>2, <2>3 DEF FormatInv
    <2>5. Stream(t, k, 0)
      BY <1>7, <1>8, <2>1 DEF StreamInv
    <2>6. Stream(t, k, 0)'
      BY <1>1, <2>1, <2>4, <2>5, StreamShift
    <2>7. Delivered' = k
      BY <1>8, <2>1 DEF Delivered
    <2>8. Stream(scanId, Delivered, 0)'
      BY <1>7, <2>1, <2>6, <2>7 DEF Stream
    <2>9. pc' = "idle"
      BY <1>2, <2>1
    <2> QED BY <2>8, <2>9 DEF StreamInv
  <1>19. CASE ScanCtxDone \/ ReadEnd \/ Abandon
    <2>1. UNCHANGED <<inbox, ncpScan, reported, pc, id, goroutine, scanId, got,
                      results, held>>
      BY <1>19 DEF ScanCtxDone, ReadEnd, Abandon
    <2> QED BY <1>5, <2>1 DEF Delivered
  <1>20. CASE ReadResult
    <2>1. /\ UNCHANGED <<inbox, ncpScan, reported, pc, id, goroutine, scanId, held>>
          /\ results # <<>> /\ got' = Append(got, Head(results))
          /\ results' = Tail(results)
      BY <1>20 DEF ReadResult
    <2>2. Delivered' = Delivered
      <3>1. results \in Seq(Frame) /\ got \in Seq(Frame) /\ held \in Seq(Frame)
        BY <1>1 DEF TypeOK
      <3>2. /\ Len(results) \in Nat \ {0} /\ Len(Tail(results)) = Len(results) - 1
            /\ Head(results) \in Frame
        BY <2>1, <3>1, QueueTail
      <3>3. Len(Append(got, Head(results))) = Len(got) + 1 /\ Len(got) \in Nat
        BY <3>1, <3>2, QueueAppend
      <3>4. Len(held) \in Nat
        BY <3>1, QueueType
      <3> QED BY <2>1, <3>2, <3>3, <3>4 DEF Delivered
    <2> QED BY <1>5, <2>1, <2>2
  <1>21. CASE NcpStep
    <2>1. UNCHANGED <<pc, id, out, goroutine, scanId, got, results, held>>
      BY <1>21, NcpStepKeeps
    <2>2. PICK f \in Frame :
            /\ Emit(f)
            /\ NoScanStep(f) \/ StartStep(f) \/ ResultStep(f) \/ CompleteStep(f)
      BY <1>1, <1>21, NcpKinds
    <2>3. \A p \in Responses' :
            \/ p \in Responses /\ inbox'[p] = inbox[p]
            \/ p = Len(inbox) + 1 /\ inbox'[p] = f
      BY <1>1, <2>2, ResponsesEmit
    <2>4. /\ Len(inbox) \in Nat /\ DOMAIN inbox = 1 .. Len(inbox)
          /\ \A p \in Responses : p \in Nat /\ p <= Len(inbox)
      BY <1>1, QueueDomains DEF Responses
    <2>5. CASE NoScanStep(f) \/ ResultStep(f) \/ CompleteStep(f)
      <3>1. ~ (f.fid = "startScan" /\ f.ok)
        BY <2>5 DEF NoScanStep, ResultStep, CompleteStep
      <3>2. ASSUME pc \in {"send", "recv"}, NEW p \in Responses', Started(p)'
            PROVE  Stream(id, 0, p)'
        <4>1. p \in Responses /\ Started(p)
          BY <2>3, <3>1, <3>2 DEF Started
        <4>2. Stream(s, 0, p)
          BY <1>6, <3>2, <4>1 DEF StreamInv
        <4>3. Stream(s, 0, p)'
          BY <1>1, <2>2, <2>4, <2>5, <4>1, <4>2, StreamEmit
        <4> QED BY <1>6, <2>1, <4>3 DEF Stream
      <3>3. ASSUME pc = "started" PROVE Stream(id, 0, 0)'
        <4>1. Stream(s, 0, 0)
          BY <1>6, <3>3 DEF StreamInv
        <4>2. Stream(s, 0, 0)'
          BY <1>1, <2>2, <2>4, <2>5, <4>1, StreamEmit
        <4> QED BY <1>6, <2>1, <4>2 DEF Stream
      <3>4. ASSUME goroutine \in {"recv", "push"}
            PROVE  Stream(scanId, Delivered, 0)'
        <4>1. Stream(t, k, 0)
          BY <1>7, <1>8, <3>4 DEF StreamInv
        <4>2. Stream(t, k, 0)'
          BY <1>1, <2>2, <2>4, <2>5, <4>1, StreamEmit
        <4>3. Delivered' = k
          BY <1>8, <2>1 DEF Delivered
        <4> QED BY <1>7, <2>1, <4>2, <4>3 DEF Stream
      <3> QED BY <2>1, <3>2, <3>3, <3>4 DEF StreamInv
    <2>6. CASE StartStep(f)
      <3>1. /\ Head(outbox) = outbox[1] /\ 1 \in Requests
        BY <1>1, <2>6, RequestsTakes DEF StartStep, Called
      <3>2. ~ Quiet
        BY <3>1 DEF Quiet
      <3>3. CASE pc \in {"send", "recv"}
        <4>1. outbox[1].tag = id /\ Responses = {}
          BY <3>1, <3>3 DEF OwnInv, OneUnderWay
        <4>2. ncpScan' = s /\ reported'[s] = 0
          BY <1>6, <2>6, <3>1, <4>1 DEF StartStep, NumbersInv
        <4>3. ASSUME NEW p \in Responses' PROVE Stream(id, 0, p)'
          <5>1. p = Len(inbox) + 1 /\ p \in Nat
            BY <2>3, <2>4, <4>1
          <5>2. Stream(s, 0, p)'
            BY <1>1, <2>2, <4>2, <5>1, StreamNew
          <5> QED BY <1>6, <2>1, <5>2 DEF Stream
        <4> QED BY <1>2, <2>1, <3>3, <4>3 DEF StreamInv
      <3>4. CASE pc \notin {"send", "recv"}
        <4>1. out = "failed"
          BY <3>2, <3>4 DEF OwnInv
        <4>2. pc = "idle" /\ ~scanning
          BY <4>1 DEF OwnInv, RunInv
        <4>3. goroutine = "none"
          BY <4>2 DEF ConnInv
        <4> QED BY <1>3, <2>1, <4>2, <4>3
      <3> QED BY <3>3, <3>4
    <2> QED BY <2>2, <2>5, <2>6
  <1>22. CASE UNCHANGED vars
    <2>1. UNCHANGED <<inbox, ncpScan, reported, pc, id, goroutine, scanId, got,
                      results, held>>
      BY <1>22 DEF vars
    <2> QED BY <1>5, <2>1 DEF Delivered
  <1> QED
    BY <1>9, <1>10, <1>11, <1>12, <1>13, <1>14, <1>15, <1>16, <1>17, <1>18,
       <1>19, <1>20, <1>21, <1>22
    DEF Next, CallerStep, GoroutineStep

(* A step that moves no result and ends no scan.                           *)
LEMMA EndKeeps ==
  ASSUME EndInv,
         UNCHANGED <<scanId, got, results, held, errCh, ncpScan, reported>>,
         goroutine' \in {"return", "unlock"} \/ closed' =>
           goroutine \in {"return", "unlock"} \/ closed,
         scanOut' = "ok" => scanOut = "ok"
  PROVE  EndInv'
  BY DEF EndInv, Delivered

(* The NCP is done with it.                                                *)
LEMMA NcpAfterEnd ==
  ASSUME TypeOK, NumbersInv, NcpStep
  PROVE  \/ UNCHANGED <<ncpScan, reported>>
         \/ /\ ncpScan # scanId /\ 0 < scanId => ncpScan' # scanId
            /\ ncpScan # scanId => reported'[scanId] = reported[scanId]
  <1>1. PICK f \in Frame :
          NoScanStep(f) \/ StartStep(f) \/ ResultStep(f) \/ CompleteStep(f)
    BY NcpKinds
  <1>2. scanId \in 0 .. MaxCalls /\ scanId \in Nat
    BY ClientAssumption DEF TypeOK
  <1>3. CASE NoScanStep(f)
    BY <1>3 DEF NoScanStep
  <1>4. CASE StartStep(f)
    <2>1. /\ Head(outbox) = outbox[1] /\ 1 \in Requests
          /\ ncpScan' = outbox[1].tag /\ reported' = reported
      BY <1>4, RequestsTakes DEF StartStep, Called
    <2>2. outbox[1].tag \in 0 .. MaxCalls
      BY <2>1, RequestTags
    <2>3. outbox[1].tag # scanId
      <3>1. scanId < outbox[1].tag
        BY <2>1 DEF NumbersInv
      <3> QED BY <1>2, <2>2, <3>1, ClientAssumption
    <2> QED BY <2>1, <2>3
  <1>5. CASE ResultStep(f)
    <2>1. /\ ncpScan' = ncpScan
          /\ reported' = [reported EXCEPT ![ncpScan] = @ + 1]
      BY <1>5 DEF ResultStep
    <2>2. ncpScan # scanId => reported'[scanId] = reported[scanId]
      BY <1>2, <2>1 DEF TypeOK
    <2> QED BY <2>1, <2>2
  <1>6. CASE CompleteStep(f)
    BY <1>2, <1>6 DEF CompleteStep
  <1> QED BY <1>1, <1>3, <1>4, <1>5, <1>6

LEMMA OrderStep ==
  ASSUME StopsAtErrors, NegotiatesOnce
  PROVE  /\ TypeInv /\ TypeInv' /\ ConnInv /\ NumbersInv /\ RunInv /\ StreamInv
         /\ InOrder /\ EndInv /\ [Next]_vars
         => InOrder' /\ EndInv'
  <1> SUFFICES ASSUME TypeInv, TypeInv', ConnInv, NumbersInv, RunInv, StreamInv,
                      InOrder, EndInv, [Next]_vars
               PROVE  InOrder' /\ EndInv'
    OBVIOUS
  <1>1. TypeOK
    BY DEF TypeInv
  <1> USE DEF callerVars, scanVars, readVars, ncpVars
  <1>2. ASSUME UNCHANGED <<scanId, got, results, held>> PROVE InOrder'
    BY <1>2 DEF InOrder
  <1>3. PICK t \in 0 .. MaxCalls : t = scanId
    BY <1>1 DEF TypeOK
  <1>4. PICK k \in Nat : k = Delivered
    BY DeliveredType
  <1>5. /\ got \in Seq(Frame) /\ results \in Seq(Frame) /\ held \in Seq(Frame)
        /\ Len(held) <= 1
    BY DEF TypeInv, TypeOK
  <1>6. CASE NegotiateVersion \/ (\E c \in Wants : Command(c)) \/ Busy
             \/ SendRequest \/ Response \/ ScanResponse \/ SkipCallback
             \/ CallFails \/ Phase1Legacy \/ Phase1Extended \/ Phase2
             \/ BadVersion \/ ScanCtxDone \/ Abandon \/ CloseChannels
             \/ ClearScanning \/ ScanSkip \/ UNCHANGED vars
    <2> DEFINE Apart ==
          /\ UNCHANGED <<scanId, got, results, held, errCh, ncpScan, reported>>
          /\ goroutine' \in {"return", "unlock"} \/ closed' =>
               goroutine \in {"return", "unlock"} \/ closed
          /\ scanOut' = "ok" => scanOut = "ok"
    <2>1. ASSUME \/ NegotiateVersion \/ (\E c \in Wants : Command(c))
                 \/ Busy \/ SendRequest
          PROVE  Apart
      BY <2>1 DEF NegotiateVersion, Command, Busy, SendRequest
    <2>2. ASSUME Response \/ ScanResponse \/ SkipCallback \/ CallFails
          PROVE  Apart
      BY <2>2 DEF Response, ScanResponse, SkipCallback, CallFails
    <2>3. ASSUME Phase1Legacy \/ Phase2 \/ BadVersion PROVE Apart
      <3>1. ASSUME Phase1Legacy PROVE Apart
        BY <3>1 DEF Phase1Legacy
      <3>2. ASSUME Phase2 PROVE Apart
        BY <3>2 DEF Phase2
      <3>3. ASSUME BadVersion PROVE Apart
        BY <3>3 DEF BadVersion
      <3> QED BY <2>3, <3>1, <3>2, <3>3
    <2>4. ASSUME Phase1Extended PROVE Apart
      BY <2>4 DEF Phase1Extended
    <2>5. ASSUME ScanCtxDone \/ Abandon \/ ScanSkip \/ UNCHANGED vars
          PROVE  Apart
      BY <2>5 DEF ScanCtxDone, Abandon, ScanSkip, vars
    <2>6. ASSUME CloseChannels \/ ClearScanning PROVE Apart
      BY <2>6 DEF CloseChannels, ClearScanning
    <2>7. Apart
      BY <1>6, <2>1, <2>2, <2>3, <2>4, <2>5, <2>6
    <2> QED BY <1>2, <2>7, EndKeeps
  <1>7. CASE StartScan
    <2>1. /\ pc = "started" /\ goroutine' = "recv" /\ ~closed'
          /\ got' = <<>> /\ results' = <<>> /\ held' = held
          /\ scanOut' = "none"
      BY <1>7 DEF StartScan
    <2>2. held = <<>>
      BY <2>1 DEF ConnInv, RunInv
    <2>3. DOMAIN <<>> = {}
      BY QueueEmpty
    <2> QED BY <2>1, <2>2, <2>3 DEF InOrder, EndInv
  <1>8. CASE ScanResult
    <2>1. /\ goroutine = "recv" /\ Receive({"result"}) /\ held' = <<Head(inbox)>>
          /\ goroutine' = "push" /\ closed' = closed
          /\ UNCHANGED <<scanId, got, results, errCh, scanOut, ncpScan, reported>>
      BY <1>8 DEF ScanResult
    <2>2. inbox[1].fid = "result" /\ Head(inbox) = inbox[1]
      BY <1>1, <2>1, InboxReceive
    <2>3. Stream(t, k, 0)
      BY <1>3, <1>4, <2>1 DEF StreamInv
    <2>4. Head(inbox).tag = scanId /\ Head(inbox).n = Delivered + 1
      <3>1. TypeOK'
        BY DEF TypeInv
      <3> QED BY <1>1, <1>3, <1>4, <2>1, <2>2, <2>3, <3>1, StreamTake
    <2>5. Delivered = Len(got) + Len(results)
      <3>1. Len(held) = 0
        BY <2>1, QueueEmpty DEF RunInv
      <3>2. Len(got) \in Nat /\ Len(results) \in Nat
        BY DeliveredType
      <3> QED BY <3>1, <3>2 DEF Delivered
    <2>6. \A i \in DOMAIN held' :
            held'[i].tag = scanId /\ held'[i].n = Len(got) + Len(results) + i
      <3>1. DOMAIN held' = {1} /\ held'[1] = Head(inbox)
        BY <2>1
      <3> QED BY <2>4, <2>5, <3>1
    <2>7. ~closed' /\ scanOut' = "ok" => scanOut = "ok"
      BY <2>1
    <2> QED BY <2>1, <2>6 DEF InOrder, EndInv, RunInv
  <1>9. CASE Push
    <2>1. /\ goroutine = "push" /\ results' = results \o held /\ held' = <<>>
          /\ goroutine' = "recv" /\ closed' = closed
          /\ UNCHANGED <<scanId, got, errCh, scanOut, ncpScan, reported>>
      BY <1>9 DEF Push
    <2>2. /\ Len(results) \in Nat /\ Len(held) \in Nat
          /\ DOMAIN (results \o held) = 1 .. Len(results) + Len(held)
          /\ \A i \in 1 .. Len(results) : (results \o held)[i] = results[i]
          /\ Len(held) = 1 => (results \o held)[Len(results) + 1] = held[1]
      BY <1>5, QueueMove
    <2>3. DOMAIN results = 1 .. Len(results) /\ DOMAIN held = 1 .. Len(held)
      BY <1>5, QueueType
    <2>4. \A i \in DOMAIN results' :
            results'[i].tag = scanId /\ results'[i].n = Len(got) + i
      <3> SUFFICES ASSUME NEW i \in 1 .. Len(results) + Len(held)
                   PROVE  results'[i].tag = scanId /\ results'[i].n = Len(got) + i
        BY <2>1, <2>2
      <3>1. CASE i \in 1 .. Len(results)
        BY <2>1, <2>2, <2>3, <3>1 DEF InOrder
      <3>2. CASE i \notin 1 .. Len(results)
        <4>1. i = Len(results) + 1 /\ Len(held) = 1
          <5>1. /\ Len(results) \in Nat /\ Len(held) \in Nat /\ Len(held) <= 1
                /\ i \in Int /\ i <= Len(results) + Len(held)
            BY <1>5, <2>2
          <5>2. i > Len(results)
            BY <3>2, <5>1
          <5>3. PICK m \in Nat, h \in Nat : m = Len(results) /\ h = Len(held)
            BY <5>1
          <5>4. i \in Int /\ i <= m + h /\ h <= 1 /\ i > m
            BY <5>1, <5>2, <5>3
          <5>5. i = m + 1 /\ h = 1
            BY <5>4
          <5> QED BY <5>3, <5>5
        <4>2. held[1].tag = scanId /\ held[1].n = Len(got) + Len(results) + 1
          BY <2>3, <4>1 DEF InOrder
        <4>3. results'[i] = held[1] /\ Len(got) \in Nat
          BY <2>1, <2>2, <4>1, DeliveredType
        <4> QED BY <2>2, <4>1, <4>2, <4>3
      <3> QED BY <3>1, <3>2
    <2>5. DOMAIN held' = {}
      BY <2>1, QueueEmpty
    <2> QED BY <2>1, <2>4, <2>5 DEF InOrder, EndInv, RunInv
  <1>10. CASE ScanComplete
    <2>1. /\ goroutine = "recv" /\ Receive({"complete"})
          /\ UNCHANGED <<scanId, got, results, held, scanOut, ncpScan, reported>>
      BY <1>10 DEF ScanComplete
    <2>2. inbox[1].fid = "complete" /\ 1 \in DOMAIN inbox
      BY <1>1, <2>1, InboxReceive
    <2>3. Stream(t, k, 0)
      BY <1>3, <1>4, <2>1 DEF StreamInv
    <2>4. ncpScan # scanId /\ reported[scanId] = Delivered
      BY <1>1, <1>3, <1>4, <2>2, <2>3, StreamEnd
    <2> QED BY <1>2, <2>1, <2>4 DEF EndInv, Delivered
  <1>11. CASE ScanRecvFails
    <2>1. /\ errCh' = Append(errCh, "recv")
          /\ UNCHANGED <<scanId, got, results, held, scanOut, ncpScan, reported>>
      BY <1>11 DEF ScanRecvFails
    <2>2. errCh' # <<>>
      BY <1>1, <2>1, AppendProperties DEF TypeOK
    <2> QED BY <1>2, <2>1, <2>2 DEF EndInv
  <1>12. CASE ReadResult
    <2>1. /\ reading /\ results # <<>>
          /\ got' = Append(got, Head(results)) /\ results' = Tail(results)
          /\ UNCHANGED <<scanId, goroutine, closed, errCh, held, scanOut, ncpScan,
                         reported>>
      BY <1>12 DEF ReadResult
    <2>2. /\ Head(results) \in Frame /\ Head(results) = results[1]
          /\ Len(results) \in Nat \ {0} /\ DOMAIN results = 1 .. Len(results)
          /\ Len(Tail(results)) = Len(results) - 1
          /\ DOMAIN Tail(results) = 1 .. Len(results) - 1
          /\ \A i \in 1 .. Len(results) - 1 : Tail(results)[i] = results[i + 1]
      BY <1>5, <2>1, QueueTail
    <2>3. /\ Len(got) \in Nat /\ DOMAIN got = 1 .. Len(got)
          /\ Len(got') = Len(got) + 1 /\ DOMAIN got' = 1 .. Len(got) + 1
          /\ \A i \in 1 .. Len(got) : got'[i] = got[i]
          /\ got'[Len(got) + 1] = results[1]
      BY <1>5, <2>1, <2>2, QueueAppend
    <2>4. \A i \in DOMAIN got' : got'[i].tag = scanId /\ got'[i].n = i
      <3> SUFFICES ASSUME NEW i \in 1 .. Len(got) + 1
                   PROVE  got'[i].tag = scanId /\ got'[i].n = i
        BY <2>3
      <3>1. CASE i \in 1 .. Len(got)
        BY <2>3, <3>1 DEF InOrder
      <3>2. CASE i = Len(got) + 1
        <4>1. results[1].tag = scanId /\ results[1].n = Len(got) + 1
          BY <2>2 DEF InOrder
        <4> QED BY <2>3, <3>2, <4>1
      <3> QED BY <2>3, <3>1, <3>2
    <2>5. \A i \in DOMAIN results' :
            results'[i].tag = scanId /\ results'[i].n = Len(got') + i
      <3> SUFFICES ASSUME NEW i \in 1 .. Len(results) - 1
                   PROVE  /\ results[i + 1].tag = scanId
                          /\ results[i + 1].n = (Len(got) + 1) + i
        BY <2>1, <2>2, <2>3
      <3>1. i + 1 \in DOMAIN results
        BY <2>2
      <3>2. /\ results[i + 1].tag = scanId
            /\ results[i + 1].n = Len(got) + (i + 1)
        BY <3>1 DEF InOrder
      <3> QED BY <2>3, <3>2
    <2>6. Len(got') + Len(results') = Len(got) + Len(results)
      BY <2>1, <2>2, <2>3
    <2>7. \A i \in DOMAIN held' :
            /\ held'[i].tag = scanId
            /\ held'[i].n = Len(got') + Len(results') + i
      BY <2>1, <2>6 DEF InOrder
    <2>8. Delivered' = Delivered
      BY <2>1, <2>6 DEF Delivered
    <2>9. scanOut = "none"
      BY <2>1 DEF RunInv
    <2> QED BY <2>1, <2>4, <2>5, <2>7, <2>8, <2>9 DEF InOrder, EndInv
  <1>13. CASE ReadEnd
    <2>1. /\ closed /\ results = <<>>
          /\ UNCHANGED <<scanId, goroutine, closed, errCh, got, results, held,
                         ncpScan, reported>>
          /\ scanOut' = "ok" => errCh = <<>>
      BY <1>13 DEF ReadEnd
    <2>2. held = <<>> /\ 0 < scanId
      BY <2>1 DEF RunInv
    <2>3. Delivered = Len(got)
      <3>1. Len(<<>>) = 0
        BY QueueEmpty
      <3>2. Len(got) \in Nat
        BY DeliveredType
      <3> QED BY <2>1, <2>2, <3>1, <3>2 DEF Delivered
    <2>4. Delivered' = Delivered
      BY <2>1 DEF Delivered
    <2> QED BY <1>2, <2>1, <2>2, <2>3, <2>4 DEF EndInv
  <1>14. CASE NcpStep
    <2>1. UNCHANGED <<scanId, got, results, held, goroutine, closed, errCh,
                      scanOut>>
      BY <1>14, NcpStepKeeps
    <2>2. \/ UNCHANGED <<ncpScan, reported>>
          \/ /\ ncpScan # scanId /\ 0 < scanId => ncpScan' # scanId
             /\ ncpScan # scanId => reported'[scanId] = reported[scanId]
      BY <1>1, <1>14, NcpAfterEnd
    <2>3. EndInv'
      BY <2>1, <2>2 DEF EndInv, RunInv, Delivered
    <2> QED BY <1>2, <2>1, <2>3
  <1> QED
    BY <1>6, <1>7, <1>8, <1>9, <1>10, <1>11, <1>12, <1>13, <1>14
    DEF Next, CallerStep, GoroutineStep

(* A scan delivers its own results in order and without a gap, and, when   *)
(* it ends without an error, all that the NCP reported: the results not    *)
(* yet delivered are in the inbox, in order, until the completion, which   *)
(* the NCP sends behind them.                                              *)
THEOREM CompleteScanTheorem ==
  ASSUME StopsAtErrors, NegotiatesOnce
  PROVE  Spec => []CompleteScan
  <1> DEFINE Inv == /\ TypeInv /\ ConnInv /\ OwnInv /\ FormatInv
                    /\ ScanInv
  <1>1. Init => Inv
    BY TypeInit, ConnInit, OwnInit, FormatInit, NumbersInit, RunInit
    DEF ScanInv
  <1>2. Inv /\ [Next]_vars => Inv'
    <2> SUFFICES ASSUME Inv, [Next]_vars PROVE Inv'
      OBVIOUS
    <2>1. TypeInv' /\ ConnInv' /\ OwnInv' /\ FormatInv'
      BY TypeStep, ConnStep, OwnStep, FormatStep
    <2>2. NumbersInv'
      BY <2>1, NumbersStep DEF ScanInv
    <2>3. RunInv'
      BY RunStep DEF ScanInv
    <2>4. StreamInv'
      BY <2>1, StreamStep DEF ScanInv
    <2>5. InOrder' /\ EndInv'
      BY <2>1, OrderStep DEF ScanInv
    <2> QED BY <2>1, <2>2, <2>3, <2>4, <2>5 DEF ScanInv
  <1>3. Inv => CompleteScan
    BY DEF ScanInv, InOrder, EndInv, CompleteScan
  <1> QED BY <1>1, <1>2, <1>3, PTL DEF Spec
==============================================================================
