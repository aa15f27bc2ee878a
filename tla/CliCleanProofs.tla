----------------------------- MODULE CliCleanProofs -----------------------------
(* Cli: a command in which nothing goes wrong does what it is to do, and a *)
(* listing lists all there is, for every value of the constants.           *)
EXTENDS CliTruthProofs

------------------------------------------------------------------------------
(* The inductive invariant of CleanSucceeds.                               *)

(* More are refused: endpoint numbers are 1 to 240 (ezsp.go:406, 422).     *)
FewEndpoints == Len(Endpoints) <= 240

Excused ==
  \/ cmd = "init" /\ flags.channel % 256 \notin 11 .. 26
  \/ cmd = "permit" /\ (stored = NoNetwork \/ ncp.resumes)
  \/ cmd \in {"get", "set"} /\ arg \notin DOMAIN Defaults
  \/ cmd = "endpoints" /\ ~extended

(* Where the command asks what the NCP answers without a change.           *)
QueryPlaces ==
  {"nodeId", "eui64", "state", "params", "guard", "count", "endpoint",
   "description", "cluster", "value"}

(* The answer on the line is the one that the NCP gives to the request.    *)
AnsweredTruly ==
  \A fid, p : fid = Request(0)[1] /\ p = Request(0)[2] =>
                Answered = Answer(fid, p)

(* What the commands rely on when they come to a place.                    *)
Ready ==
  /\ pc = "negotiate" => (up => ncp.resumes)
  /\ pc = "restore" /\ inbox = <<>> => ~up \/ ncp.resumes
  /\ pc \in {"permit", "params"} => up
  /\ pc = "state" /\ cmd = "init" => up

(* The request on the line is the one of the place.                        *)
AskedHere ==
  outbox # <<>> =>
    \E random \in PanIDs \cup {0} : Asked.params = Request(random)[2]

(* The answer on the line is whole, and a command is refused only where it *)
(* must be.                                                                *)
Told ==
  inbox # <<>> =>
    /\ pc \in QueryPlaces /\ (pc = "count" => extended) => AnsweredTruly
    /\ pc = "count" /\ extended => 1 \in Matching
    /\ pc = "init" => (Status(Answered).ok => up)
    /\ pc \in {"secure", "permit"} => Status(Answered).ok
    /\ pc = "form" => IF Status(Answered).ok THEN up
                      ELSE flags.channel % 256 \notin 11 .. 26
    /\ pc = "restore" => IF Status(Answered).ok THEN up
                         ELSE stored = NoNetwork \/ ncp.resumes
    /\ pc = "set" => (arg \in DOMAIN Defaults => Status(Answered).ok)

CleanInv ==
  /\ pc # "idle" => exit = "none"
  /\ clean => Ready /\ AskedHere /\ Told
  /\ FewEndpoints => CleanSucceeds

------------------------------------------------------------------------------
(* What the NCP does with the request of a place.                          *)

(* With the command, the step of the NCP.                                  *)
LEMMA NcpByID ==
  ASSUME NcpCommand, clean'
  PROVE  /\ Asked.frameID \in Queries => NcpQuery
         /\ Asked.frameID = frameIDNetworkInit => NcpNetworkInit
         /\ Asked.frameID = frameIDSetInitialSecurityState => NcpSecure
         /\ Asked.frameID = frameIDFormNetwork => NcpForm
         /\ Asked.frameID = frameIDPermitJoining => NcpPermit
         /\ Asked.frameID = frameIDSetConfigurationValue => NcpSetConfig
  <1>1. PICK id : id = Asked.frameID
    BY ONLY TRUE, Zenon
  <1>2. \/ NcpNetworkInit /\ id = frameIDNetworkInit
        \/ NcpSecure /\ id = frameIDSetInitialSecurityState
        \/ NcpForm /\ id = frameIDFormNetwork
        \/ NcpPermit /\ id = frameIDPermitJoining
        \/ NcpSetConfig /\ id = frameIDSetConfigurationValue
        \/ NcpQuery /\ id \in Queries
        \/ id \notin Queries \cup Writes
    <2>1. ~NcpShort /\ ~NcpRefuse
      BY ONLY clean', Zenon DEF NcpShort, NcpRefuse
    <2>2. /\ NcpNetworkInit => id \in {frameIDNetworkInit}
          /\ NcpSecure => id \in {frameIDSetInitialSecurityState}
          /\ NcpForm => id \in {frameIDFormNetwork}
          /\ NcpPermit => id \in {frameIDPermitJoining}
          /\ NcpSetConfig => id \in {frameIDSetConfigurationValue}
          /\ NcpQuery => id \in Queries
          /\ NcpUnknown => id \in Byte \ (Queries \cup Writes)
      <3>1. \A F : Takes(F) => id \in F
        BY ONLY <1>1, Zenon DEF Takes
      <3>2. NcpNetworkInit => id \in {frameIDNetworkInit}
        BY ONLY <3>1, Zenon DEF NcpNetworkInit
      <3>3. NcpSecure => id \in {frameIDSetInitialSecurityState}
        BY ONLY <3>1, Zenon DEF NcpSecure
      <3>4. NcpForm => id \in {frameIDFormNetwork}
        BY ONLY <3>1, Zenon DEF NcpForm
      <3>5. NcpPermit => id \in {frameIDPermitJoining}
        BY ONLY <3>1, Zenon DEF NcpPermit
      <3>6. NcpSetConfig => id \in {frameIDSetConfigurationValue}
        BY ONLY <3>1, Zenon DEF NcpSetConfig
      <3>7. NcpQuery => id \in Queries
        BY ONLY <3>1, Zenon DEF NcpQuery
      <3>8. NcpUnknown => id \in Byte \ (Queries \cup Writes)
        BY ONLY <3>1, Zenon DEF NcpUnknown
      <3> QED BY ONLY <3>2, <3>3, <3>4, <3>5, <3>6, <3>7, <3>8
    <2> QED BY ONLY NcpCommand, <2>1, <2>2, Zenon DEF NcpCommand
  <1>3. /\ frameIDNetworkInit \notin Queries
        /\ frameIDSetInitialSecurityState \notin Queries
        /\ frameIDFormNetwork \notin Queries
        /\ frameIDPermitJoining \notin Queries
        /\ frameIDSetConfigurationValue \notin Queries
        /\ frameIDNetworkInit \notin
             {frameIDSetInitialSecurityState, frameIDFormNetwork,
              frameIDPermitJoining, frameIDSetConfigurationValue}
        /\ frameIDSetInitialSecurityState \notin
             {frameIDFormNetwork, frameIDPermitJoining,
              frameIDSetConfigurationValue}
        /\ frameIDFormNetwork \notin
             {frameIDPermitJoining, frameIDSetConfigurationValue}
        /\ frameIDPermitJoining # frameIDSetConfigurationValue
    BY ONLY TRUE
       DEF Queries,
         frameIDNetworkInit, frameIDNetworkState, frameIDFormNetwork,
         frameIDPermitJoining, frameIDGetEUI64, frameIDGetNodeID,
         frameIDGetNetworkParameters, frameIDGetConfigurationValue,
         frameIDSetConfigurationValue, frameIDSetInitialSecurityState,
         frameIDGetEndpoint, frameIDGetEndpointCount,
         frameIDGetEndpointDescription, frameIDGetEndpointCluster
  <1> QED BY ONLY <1>1, <1>2, <1>3, Zenon DEF Writes

(* A place has its own frame ID, and only that of "form" has more than one *)
(* request.                                                                *)
LEMMA PlaceFrames ==
  ASSUME NEW x
  PROVE  /\ pc \in QueryPlaces => Request(x)[1] \in Queries
         /\ pc # "form" => Request(x)[2] = Request(0)[2]
         /\ pc = "permit" => Request(x)[1] = frameIDPermitJoining
         /\ pc = "set" =>
              /\ Request(x)[1] = frameIDSetConfigurationValue
              /\ Request(x)[2] = SetConfigurationValueParams(arg, SetValue)
  <1>1. PICK id : id = Request(x)[1]
    BY ONLY TRUE, Zenon
  <1>2. /\ pc = "nodeId" => id = frameIDGetNodeID
        /\ pc = "eui64" => id = frameIDGetEUI64
        /\ pc \in {"state", "guard"} => id = frameIDNetworkState
        /\ pc = "params" => id = frameIDGetNetworkParameters
        /\ pc = "count" => id = frameIDGetEndpointCount
        /\ pc = "endpoint" => id = frameIDGetEndpoint
        /\ pc = "description" => id = frameIDGetEndpointDescription
        /\ pc = "cluster" => id = frameIDGetEndpointCluster
        /\ pc = "value" => id = frameIDGetConfigurationValue
    BY ONLY <1>1, PlaceRequests, Zenon
  <1>3. pc \in QueryPlaces => id \in Queries
    BY ONLY <1>2 DEF QueryPlaces, Queries
  <1>4. /\ pc = "permit" => Request(x)[1] = frameIDPermitJoining
        /\ pc = "set" =>
              /\ Request(x)[1] = frameIDSetConfigurationValue
              /\ Request(x)[2] = SetConfigurationValueParams(arg, SetValue)
    <2>1. /\ pc = "permit" => Request(x) = <<frameIDPermitJoining, <<arg>>>>
          /\ pc = "set" =>
               Request(x) = <<frameIDSetConfigurationValue,
                              SetConfigurationValueParams(arg, SetValue)>>
      BY ONLY PlaceRequests, Zenon
    <2> QED BY ONLY <2>1
  <1>5. pc # "form" => Request(x)[2] = Request(0)[2]
    <2>1. pc # "form" => Request(x) = Request(0)
      BY ONLY TRUE, SMT DEF Request
    <2> QED BY ONLY <2>1, Zenon
  <1> QED BY ONLY <1>1, <1>3, <1>4, <1>5, Zenon

LEMMA RequestKept ==
  ASSUME UNCHANGED <<pc, cmd, arg, item, session, flags>>, NEW CONSTANT x
  PROVE  Request(x)' = Request(x)
  BY ONLY UNCHANGED <<pc, cmd, arg, item, session, flags>>
     DEF Request, ConfigID, Parameters

LEMMA AnswerKept ==
  ASSUME UNCHANGED <<up, config, ncp, stored>>,
         NEW CONSTANT fid, NEW CONSTANT p
  PROVE  Answer(fid, p)' = Answer(fid, p)
  <1>1. NetworkParametersResponse' = NetworkParametersResponse
    BY ONLY UNCHANGED <<up, config, ncp, stored>>, Zenon
       DEF NetworkParametersResponse
  <1> QED BY ONLY UNCHANGED <<up, config, ncp, stored>>, <1>1, Zenon DEF Answer

(* The request that the NCP takes while nothing has gone wrong.            *)
LEMMA CleanTakes ==
  ASSUME TypeInv, KeepInv, CleanInv, NcpCommand, clean'
  PROVE  /\ clean /\ OneRequest /\ pc \in Places /\ ncpExt = extended
         /\ OneAtATime /\ NothingStored /\ Ready
         /\ Asked.frameID \in Word
         /\ pc \in QueryPlaces /\ (pc = "count" => extended) =>
              NcpQuery /\ Asked.frameID = Request(0)[1]
         /\ pc \in {"tryInit", "init", "restore"} => NcpNetworkInit
         /\ pc = "secure" => NcpSecure
         /\ pc = "form" => NcpForm
         /\ pc = "permit" => NcpPermit
         /\ pc = "set" => NcpSetConfig
         /\ pc # "form" => Asked.params = Request(0)[2]
  <1>1. outbox # <<>> /\ clean
    <2>1. outbox # <<>> /\ clean' \in {clean, FALSE}
      BY ONLY TypeInv, NcpCommand, NcpMoves
    <2> QED BY ONLY <2>1, clean'
  <1>2. /\ OneAtATime /\ NothingStored /\ OneRequest
        /\ pc \in Places /\ ncpExt = extended
        /\ pc # "count" => Asked.frameID = Request(0)[1]
    BY ONLY TypeInv, KeepInv, <1>1, CleanRequest
  <1>3. Ready /\ AskedHere
    BY ONLY CleanInv, <1>1, Zenon DEF CleanInv
  <1>4. Asked.frameID \in Word
    BY ONLY TypeInv, <1>1, AskedLegit
  <1>5. pc = "count" /\ extended => Asked.frameID = Request(0)[1]
    <2> SUFFICES ASSUME extended PROVE Asked.frameID = Request(0)[1]
      BY Zenon
    <2>1. Asked.frameID = Wire(ncpExt, Request(0)[1]) /\ ncpExt
      BY ONLY <1>2, extended, Zenon DEF OneRequest
    <2> QED BY ONLY <2>1, Zenon DEF Wire
  <1>6. pc \in QueryPlaces /\ (pc = "count" => extended) =>
          NcpQuery /\ Asked.frameID = Request(0)[1]
    BY ONLY NcpCommand, clean', <1>2, <1>5, NcpByID, PlaceFrames, Zenon
  <1>7. /\ pc \in {"tryInit", "init", "restore"} => NcpNetworkInit
        /\ pc = "secure" => NcpSecure
        /\ pc = "form" => NcpForm
    <2>1. /\ pc \in {"tryInit", "init", "restore"} =>
               Request(0)[1] = frameIDNetworkInit
          /\ pc = "secure" => Request(0)[1] = frameIDSetInitialSecurityState
          /\ pc = "form" => Request(0)[1] = frameIDFormNetwork
      BY ONLY PlaceRequests, Zenon
    <2>2. pc \in {"tryInit", "init", "restore", "secure", "form"} =>
            pc # "count"
      BY ONLY TRUE
    <2> QED BY ONLY NcpCommand, clean', <1>2, <2>1, <2>2, NcpByID, Zenon
  <1>8. /\ pc = "permit" => NcpPermit
        /\ pc = "set" => NcpSetConfig
    <2>1. pc \in {"permit", "set"} => pc # "count"
      BY ONLY TRUE
    <2> QED BY ONLY NcpCommand, clean', <1>2, <2>1, NcpByID, PlaceFrames, Zenon
  <1>9. pc # "form" => Asked.params = Request(0)[2]
    BY ONLY <1>1, <1>3, PlaceFrames, Zenon DEF AskedHere
  <1> QED BY ONLY <1>1, <1>2, <1>3, <1>4, <1>6, <1>7, <1>8, <1>9, Zenon

(* A command that is accepted, or refused.                                 *)
LEMMA StatusTold ==
  ASSUME TypeInv, NcpCommand, OneRequest, ncpExt = extended,
         Asked.frameID \in Word
  PROVE  /\ Accept => Status(Answered)'.ok
         /\ Refuse => ~Status(Answered)'.ok
  <1>1. outbox # <<>> /\ outbox' = Tail(outbox) /\ extended' = extended
    <2>1. outbox # <<>> /\ outbox' = Tail(outbox) /\ NcpFrame
      BY ONLY TypeInv, NcpCommand, NcpMoves
    <2> QED BY ONLY <2>1, NcpStays, Zenon
  <1>2. PICK y \in Seq(Byte), n \in Seq(Byte) :
          y = <<0>> /\ n = <<emberNotJoined>>
    BY ONLY StatusBytes, Zenon
  <1>3. ASSUME Accept PROVE Status(Answered)'.ok
    <2>1. Reply(Asked.frameID, y)
      BY ONLY <1>2, <1>3, Zenon DEF Accept
    <2>2. Answered' = y
      BY ONLY TypeInv, <1>1, <2>1, OneRequest, ncpExt = extended,
              Asked.frameID \in Word, y \in Seq(Byte), CleanReply
    <2>3. Status(<<0>>).ok
      BY ONLY TRUE DEF Status, Ok
    <2> QED BY ONLY <1>2, <2>2, <2>3, Zenon
  <1>4. ASSUME Refuse PROVE ~Status(Answered)'.ok
    <2>1. Reply(Asked.frameID, n)
      BY ONLY <1>2, <1>4, Zenon DEF Refuse
    <2>2. Answered' = n
      BY ONLY TypeInv, <1>1, <2>1, OneRequest, ncpExt = extended,
              Asked.frameID \in Word, n \in Seq(Byte), CleanReply
    <2>3. ~Status(<<emberNotJoined>>).ok
      BY ONLY TRUE DEF Status, Err, emberNotJoined
    <2> QED BY ONLY <1>2, <2>2, <2>3, Zenon
  <1> QED BY ONLY <1>3, <1>4, Zenon

(* A query is answered as the NCP is.                                      *)
LEMMA QueryTold ==
  ASSUME TypeInv, NcpQuery, OneRequest, ncpExt = extended,
         Asked.frameID = Request(0)[1], Asked.params = Request(0)[2]
  PROVE  /\ AnsweredTruly' /\ UNCHANGED <<up, config, stored, ncp>>
         /\ extended => 1 \in Matching'
  <1>1. /\ outbox # <<>> /\ outbox' = Tail(outbox) /\ NcpFrame
        /\ Asked.frameID \in Queries
        /\ UNCHANGED <<up, config, stored>>
        /\ Reply(Asked.frameID, Answer(Asked.frameID, Asked.params))
    BY ONLY NcpQuery, Zenon DEF NcpQuery, Takes
  <1>2. /\ UNCHANGED <<pc, cmd, arg, item, session, flags>>
        /\ extended' = extended /\ ncp' = ncp
    BY ONLY <1>1, NcpStays, Zenon
  <1>3. PICK fid \in Word, p \in Seq(Byte) :
          fid = Asked.frameID /\ p = Asked.params
    BY ONLY TypeInv, <1>1, AskedLegit, Zenon
  <1>4. fid \in Queries /\ Legit(fid, p)
    <2>1. Asked.frameID \in Queries \cup Writes =>
            Legit(Asked.frameID, Asked.params)
      BY ONLY TypeInv, <1>1, AskedLegit
    <2> QED BY ONLY <1>1, <1>3, <2>1, Zenon
  <1>5. PICK w \in Seq(Byte) : w = Answer(fid, p)
    BY ONLY TypeInv, <1>4, p \in Seq(Byte), AnswerBytes
  <1>6. Reply(fid, w)
    BY ONLY <1>1, <1>3, <1>5, Zenon
  <1>7. Answered' = w
    BY ONLY TypeInv, <1>1, <1>2, <1>6, OneRequest, ncpExt = extended,
            fid \in Word, w \in Seq(Byte), CleanReply
  <1>8. Request(0)' = Request(0)
    BY ONLY <1>2, RequestSame
  <1>9. ASSUME NEW CONSTANT f, NEW CONSTANT q,
               f = Request(0)[1]', q = Request(0)[2]'
        PROVE  Answered' = Answer(f, q)'
    <2>1. f = fid /\ q = p
      BY ONLY <1>3, <1>8, <1>9, Asked.frameID = Request(0)[1],
              Asked.params = Request(0)[2], Zenon
    <2>2. Answer(f, q)' = Answer(f, q)
      BY ONLY <1>1, <1>2, AnswerKept, Zenon
    <2> QED BY ONLY <1>5, <1>7, <2>1, <2>2, Zenon
  <1>10. ASSUME extended PROVE 1 \in Matching'
    <2>1. /\ DOMAIN inbox' = {1}
          /\ decode(extended, inbox'[1]).ok
          /\ decode(extended, inbox'[1]).v.frameID = Wire(ncpExt, fid)
      BY ONLY TypeInv, <1>1, <1>2, <1>6, OneRequest, ncpExt = extended,
              fid \in Word, w \in Seq(Byte), CleanReply
    <2>2. Wire(ncpExt, fid) = Request(0)[1]'
      BY ONLY <1>3, <1>8, <1>10, ncpExt = extended,
              Asked.frameID = Request(0)[1], Zenon DEF Wire
    <2>3. 1 \in DOMAIN inbox'
      BY ONLY <2>1
    <2> QED BY ONLY <1>2, <2>1, <2>2, <2>3, Zenon DEF Matching
  <1> QED BY ONLY <1>1, <1>2, <1>9, <1>10, Zenon DEF AnsweredTruly

(* The channel mask is the end of the parameters of formNetwork.           *)
LEMMA FormMask ==
  ASSUME NEW np, np.extendedPanID \in Seq(Byte), Len(np.extendedPanID) = 8,
         np.panID \in Int, np.radioTxPower \in Int, np.radioChannel \in Byte,
         NEW p, p = FormNetworkParams(np)
  PROVE  SubSeq(p, 17, 20) = ChannelMask(np.radioChannel)
  <1>1. PICK x, u, t, z, m :
          /\ x = np.extendedPanID /\ u = PutUint16(np.panID)
          /\ t = <<Low(np.radioTxPower), np.radioChannel>>
          /\ z = Repeat(0, 4) /\ m = ChannelMask(np.radioChannel)
    BY ONLY TRUE, Zenon
  <1>2. x \in Seq(Byte) /\ Len(x) = 8
    BY ONLY <1>1, np.extendedPanID \in Seq(Byte), Len(np.extendedPanID) = 8,
            Zenon
  <1>3. u \in Seq(Byte) /\ Len(u) = 2
    BY ONLY <1>1, np.panID \in Int, PutUint16Bytes
  <1>4. t \in Seq(Byte) /\ Len(t) = 2
    <2>1. Low(np.radioTxPower) \in Byte
      BY ONLY np.radioTxPower \in Int, ByteOf
    <2> QED BY ONLY <1>1, <2>1, np.radioChannel \in Byte
  <1>5. z \in Seq(Byte) /\ Len(z) = 4
    <2>1. 0 \in Byte /\ 4 \in Nat
      BY ONLY 4 \in Nat DEF Byte
    <2> QED BY ONLY <1>1, <2>1, RepeatBytes
  <1>6. m \in Seq(Byte) /\ Len(m) = 4
    BY ONLY <1>1, np.radioChannel \in Byte, MaskBytes
  <1>7. PICK a, b, d : a = Cat(x, u) /\ b = Cat(a, t) /\ d = Cat(b, z)
    BY ONLY TRUE, Zenon
  <1>8. d \in Seq(Byte) /\ Len(d) = 16
    <2>1. a \in Seq(Byte) /\ Len(a) = Len(x) + Len(u)
      BY ONLY <1>2, <1>3, <1>7, CatLen, Zenon
    <2>2. b \in Seq(Byte) /\ Len(b) = Len(a) + Len(t)
      BY ONLY <1>4, <1>7, <2>1, CatLen, Zenon
    <2>3. d \in Seq(Byte) /\ Len(d) = Len(b) + Len(z)
      BY ONLY <1>5, <1>7, <2>2, CatLen, Zenon
    <2> QED BY ONLY <1>2, <1>3, <1>4, <1>5, <2>1, <2>2, <2>3
  <1>9. p = Cat(d, m)
    BY ONLY <1>1, <1>7, p = FormNetworkParams(np), Zenon
       DEF FormNetworkParams, Cat, Low
  <1>10. From(Cat(d, m), Len(d) + 1) = m
    BY ONLY <1>6, <1>8, FromJoined
  <1>11. Len(Cat(d, m)) = 20
    <2>1. Len(Cat(d, m)) = Len(d) + Len(m)
      BY ONLY <1>6, <1>8, CatLen, Zenon
    <2> QED BY ONLY <1>6, <1>8, <2>1
  <1>12. Len(d) + 1 = 17
    BY ONLY <1>8
  <1> QED BY ONLY <1>1, <1>9, <1>10, <1>11, <1>12, Zenon DEF From

(* formNetwork asks for the channel of the flags, with its mask.           *)
LEMMA FormChannel ==
  ASSUME flags \in Settings \cup {NoFlags}, NEW random \in PanIDs,
         NEW p, p = FormNetworkParams(Parameters(flags, random))
  PROVE  /\ p[12] = flags.channel % 256
         /\ SubSeq(p, 17, 20) = ChannelMask(p[12])
  <1>1. /\ flags.panID \in Int /\ flags.channel \in Int
        /\ flags.txPower \in Int
    BY ONLY FlagsType, flags \in Settings \cup {NoFlags}
  <1>2. random \in Word
    BY CliAssumption, Zenon
  <1>3. PICK x : x = Repeat(0, 8)
    BY ONLY TRUE, Zenon
  <1>4. x \in Seq(Byte) /\ Len(x) = 8
    <2>1. 0 \in Byte /\ 8 \in Nat
      BY ONLY 8 \in Nat DEF Byte
    <2> QED BY ONLY <1>3, <2>1, RepeatBytes
  <1>5. PICK n : n = IF flags.panID % 65536 # 65535 THEN flags.panID % 65536
                     ELSE IF random \in {0, 65535} THEN 6754 ELSE random
    BY ONLY TRUE, SMT
  <1>6. n \in Word
    BY ONLY <1>1, <1>2, <1>5 DEF Word
  <1>7. PICK t : t = ToInt8(flags.txPower)
    BY ONLY TRUE, Zenon
  <1>8. t \in Int
    <2>1. flags.txPower % 256 \in Byte
      BY ONLY <1>1 DEF Byte
    <2>2. t \in -128 .. 127
      BY ONLY <1>7, <2>1, Int8Type DEF ToInt8
    <2> QED BY ONLY <2>2
  <1>9. PICK c : c = flags.channel % 256
    BY ONLY TRUE, Zenon
  <1>10. c \in Byte
    BY ONLY <1>1, <1>9 DEF Byte
  <1>11. PICK np : np = Parameters(flags, random)
    BY ONLY TRUE, Zenon
  <1>12. /\ np.extendedPanID = x /\ np.panID = n
         /\ np.radioTxPower = t /\ np.radioChannel = c
    BY ONLY <1>3, <1>5, <1>7, <1>9, <1>11, SMT DEF Parameters
  <1>13. /\ np.extendedPanID \in Seq(Byte) /\ Len(np.extendedPanID) = 8
         /\ np.panID \in Int /\ np.radioTxPower \in Int
         /\ np.radioChannel \in Byte /\ p = FormNetworkParams(np)
    <2>1. n \in Int
      BY ONLY <1>6 DEF Word
    <2>2. p = FormNetworkParams(np)
      BY ONLY <1>11, p = FormNetworkParams(Parameters(flags, random)), Zenon
    <2> QED BY ONLY <1>4, <1>8, <1>10, <1>12, <2>1, <2>2, Zenon
  <1>14. p[12] = np.radioChannel
    BY ONLY <1>13, FormRoundTrip
  <1>15. SubSeq(p, 17, 20) = ChannelMask(np.radioChannel)
    BY ONLY <1>13, FormMask
  <1> QED BY ONLY <1>9, <1>12, <1>14, <1>15, Zenon

(* The NCP brings its network up and never takes it down.                  *)
LEMMA UpStays ==
  ASSUME NcpCommand, up PROVE up'
  BY ONLY NcpCommand, up, Zenon
     DEF NcpCommand, NcpNetworkInit, NcpSecure, NcpForm, NcpPermit,
         NcpSetConfig, NcpQuery, NcpShort, NcpRefuse, NcpUnknown

(* The NCP answers the request of the place.                               *)
LEMMA CleanTold ==
  ASSUME TypeInv, KeepInv, CleanInv, NcpCommand, clean'
  PROVE  Told'
  <1>1. /\ OneRequest /\ pc \in Places /\ ncpExt = extended
        /\ OneAtATime /\ NothingStored /\ Ready /\ Asked.frameID \in Word
        /\ pc \in QueryPlaces /\ (pc = "count" => extended) =>
             NcpQuery /\ Asked.frameID = Request(0)[1]
        /\ pc \in {"tryInit", "init", "restore"} => NcpNetworkInit
        /\ pc = "secure" => NcpSecure
        /\ pc = "form" => NcpForm
        /\ pc = "permit" => NcpPermit
        /\ pc = "set" => NcpSetConfig
        /\ pc # "form" => Asked.params = Request(0)[2]
    BY ONLY TypeInv, KeepInv, CleanInv, NcpCommand, clean', CleanTakes
  <1>2. /\ UNCHANGED <<pc, cmd, arg, flags, item, session, extended, ncp>>
        /\ outbox # <<>>
    <2>1. NcpFrame /\ outbox # <<>>
      BY ONLY TypeInv, NcpCommand, NcpMoves
    <2> QED BY ONLY <2>1, NcpStays, Zenon
  <1>3. /\ Accept => Status(Answered)'.ok
        /\ Refuse => ~Status(Answered)'.ok
    BY ONLY TypeInv, NcpCommand, <1>1, StatusTold
  <1>4. inbox = <<>>
    BY ONLY <1>1, Zenon DEF OneRequest
  <1>5. pc \in QueryPlaces /\ (pc = "count" => extended) =>
          AnsweredTruly' /\ (extended => 1 \in Matching')
    <2> SUFFICES ASSUME pc \in QueryPlaces, pc = "count" => extended
                 PROVE  AnsweredTruly' /\ (extended => 1 \in Matching')
      BY Zenon
    <2>1. pc # "form"
      BY ONLY pc \in QueryPlaces DEF QueryPlaces
    <2>2. /\ NcpQuery /\ Asked.frameID = Request(0)[1]
          /\ Asked.params = Request(0)[2]
      BY ONLY <1>1, <2>1, pc \in QueryPlaces, pc = "count" => extended, Zenon
    <2> QED BY ONLY TypeInv, <1>1, <2>2, QueryTold
  <1>6. NcpNetworkInit =>
          IF Status(Answered)'.ok THEN up'
          ELSE stored' = stored /\ (stored = NoNetwork \/ up)
    BY ONLY <1>3, Zenon DEF NcpNetworkInit
  <1>7. pc \in {"secure", "permit"} => Status(Answered)'.ok
    <2>1. pc = "permit" => up
      BY ONLY <1>1, Zenon DEF Ready
    <2>2. ASSUME NcpSecure PROVE Accept
      BY ONLY <2>2, Zenon DEF NcpSecure
    <2>3. ASSUME NcpPermit, up PROVE Accept
      BY ONLY <2>3, Zenon DEF NcpPermit
    <2> QED BY ONLY <1>1, <1>3, <2>1, <2>2, <2>3
  <1>8. pc = "form" => IF Status(Answered)'.ok THEN up'
                       ELSE flags.channel % 256 \notin 11 .. 26
    <2> SUFFICES ASSUME pc = "form"
                 PROVE  IF Status(Answered)'.ok THEN up'
                        ELSE flags.channel % 256 \notin 11 .. 26
      BY Zenon
    <2>1. NcpForm /\ ~up
      <3>1. stored = NoNetwork
        BY ONLY <1>1, <1>4, pc = "form", Zenon DEF NothingStored
      <3> QED BY ONLY TypeInv, <1>1, <3>1, pc = "form", Zenon
              DEF TypeInv, NcpInv
    <2>2. PICK p : p = Asked.params
      BY ONLY TRUE, Zenon
    <2>3. p[12] = flags.channel % 256 /\ SubSeq(p, 17, 20) = ChannelMask(p[12])
      <3>1. Asked.frameID = frameIDFormNetwork
        BY ONLY <2>1, Zenon DEF NcpForm, Takes
      <3>2. PICK random \in PanIDs :
              p = FormNetworkParams(Parameters(flags, random))
        BY ONLY TypeInv, <1>2, <2>2, <3>1, AskedFields, Zenon
      <3>3. flags \in Settings \cup {NoFlags}
        BY ONLY TypeInv, Zenon DEF TypeInv, CmdInv
      <3> QED BY ONLY <3>2, <3>3, random \in PanIDs, FormChannel
    <2>4. \/ Accept /\ up' = TRUE
          \/ Refuse /\ p[12] \notin 11 .. 26
      BY ONLY <2>1, <2>2, <2>3, Zenon DEF NcpForm
    <2> QED BY ONLY <1>3, <2>3, <2>4, Zenon
  <1>9. pc = "set" => (arg \in DOMAIN Defaults => Status(Answered)'.ok)
    <2> SUFFICES ASSUME pc = "set", arg \in DOMAIN Defaults
                 PROVE  Status(Answered)'.ok
      BY Zenon
    <2>1. Asked.params = SetConfigurationValueParams(arg, SetValue)
      <3>1. pc # "form"
        BY ONLY pc = "set"
      <3> QED BY ONLY <1>1, <3>1, pc = "set", PlaceFrames, Zenon
    <2>2. Asked.params[1] = arg
      <3>1. arg \in Int
        BY ONLY TypeInv, <1>1, ArgType DEF Byte
      <3>2. SetValue \in Word
        BY CliAssumption, Zenon
      <3> QED BY ONLY <2>1, <3>1, <3>2, ValueRead, Zenon
    <2>3. DOMAIN config = DOMAIN Defaults
      <3>1. config \in [DOMAIN Defaults -> Word]
        BY ONLY TypeInv, Zenon DEF TypeInv, NcpInv
      <3> QED BY ONLY <3>1
    <2>4. NcpSetConfig
      BY ONLY <1>1, pc = "set"
    <2>5. Accept
      BY ONLY <2>2, <2>3, <2>4, arg \in DOMAIN Defaults, Zenon DEF NcpSetConfig
    <2> QED BY ONLY <1>3, <2>5, Zenon
  <1>10. /\ pc = "init" => (Status(Answered)'.ok => up')
         /\ pc = "restore" => IF Status(Answered)'.ok THEN up'
                              ELSE stored' = NoNetwork \/ ncp.resumes
    <2>1. pc = "restore" => ~up \/ ncp.resumes
      BY ONLY <1>1, <1>4, Zenon DEF Ready
    <2>2. pc \in {"init", "restore"} => NcpNetworkInit
      BY ONLY <1>1
    <2> QED BY ONLY <1>6, <2>1, <2>2
  <1>11. pc = "count" => pc \in QueryPlaces
    BY ONLY TRUE DEF QueryPlaces
  <1> QED BY ONLY <1>2, <1>5, <1>7, <1>8, <1>9, <1>10, <1>11, Zenon DEF Told

LEMMA CleanNcp == TypeInv /\ KeepInv /\ CleanInv /\ NcpCommand => CleanInv'
  <1> SUFFICES ASSUME TypeInv, KeepInv, CleanInv, NcpCommand PROVE CleanInv'
    OBVIOUS
  <1>1. /\ UNCHANGED <<pc, cmd, exit>> /\ outbox # <<>>
        /\ outbox' = Tail(outbox) /\ extended' = extended
        /\ \E fid \in Word, p \in Seq(Byte) : Reply(fid, p)
    <2>1. /\ outbox # <<>> /\ outbox' = Tail(outbox) /\ NcpFrame
          /\ \E fid \in Word, p \in Seq(Byte) : Reply(fid, p) /\ Fits(fid)
      BY ONLY TypeInv, NcpCommand, NcpMoves
    <2> QED BY ONLY <2>1, NcpStays, Zenon
  <1>2. pc # "idle" => exit = "none"
    BY ONLY CleanInv, Zenon DEF CleanInv
  <1>3. CASE ~clean'
    BY ONLY <1>1, <1>2, <1>3, Zenon DEF CleanInv, CleanSucceeds
  <1>4. CASE clean'
    <2>1. OneRequest /\ pc \in Places /\ ncpExt = extended /\ Ready
      BY ONLY TypeInv, KeepInv, CleanInv, NcpCommand, <1>4, CleanTakes
    <2>2. outbox' = <<>> /\ inbox' # <<>>
      BY ONLY TypeInv, <1>1, <2>1, CleanReply, Zenon
    <2>3. exit' = "none"
      BY ONLY <1>1, <1>2, <2>1 DEF Places
    <2>4. Ready'
      <3>1. pc # "negotiate"
        BY ONLY <2>1 DEF Places
      <3>2. up => up'
        BY ONLY NcpCommand, UpStays
      <3>3. /\ pc \in {"permit", "params"} => up'
            /\ pc = "state" /\ cmd = "init" => up'
        BY ONLY <2>1, <3>2, Zenon DEF Ready
      <3> QED BY ONLY <1>1, <2>2, <3>1, <3>3, Zenon DEF Ready
    <2>5. AskedHere'
      BY ONLY <2>2, Zenon DEF AskedHere
    <2>6. Told'
      BY ONLY TypeInv, KeepInv, CleanInv, NcpCommand, <1>4, CleanTold
    <2>7. CleanSucceeds'
      BY ONLY <2>3, SMT DEF CleanSucceeds
    <2> QED BY ONLY <1>1, <1>2, <2>4, <2>5, <2>6, <2>7, Zenon DEF CleanInv
  <1> QED BY ONLY <1>3, <1>4, Zenon

------------------------------------------------------------------------------
(* What the command reads from a true answer.                              *)

(* The answers to count and value.                                         *)
LEMMA CountAnswers ==
  ASSUME NEW p
  PROVE  /\ Answer(frameIDGetEndpointCount, p) = <<0, Len(Endpoints)>>
         /\ Answer(frameIDGetConfigurationValue, p) =
              IF p[1] \in DOMAIN config
              THEN <<0>> \o PutUint16(config[p[1]]) ELSE <<1, 0, 0>>
  <1>1. PICK A, B :
          /\ A = frameIDGetEndpointCount /\ B = frameIDGetConfigurationValue
          /\ {A, B} \cap {frameIDNetworkState, frameIDGetNodeID,
               frameIDGetEUI64, frameIDGetNetworkParameters,
               frameIDGetEndpoint, frameIDGetEndpointDescription,
               frameIDGetEndpointCluster} = {}
          /\ A # B
    BY ONLY TRUE, SMT
       DEF frameIDNetworkState, frameIDGetNodeID, frameIDGetEUI64,
           frameIDGetNetworkParameters, frameIDGetConfigurationValue,
           frameIDGetEndpointCount, frameIDGetEndpoint,
           frameIDGetEndpointDescription, frameIDGetEndpointCluster
  <1>2. /\ A \notin {frameIDNetworkState, frameIDGetNodeID, frameIDGetEUI64,
             frameIDGetNetworkParameters, frameIDGetEndpoint,
             frameIDGetEndpointDescription, frameIDGetEndpointCluster}
        /\ B \notin {frameIDNetworkState, frameIDGetNodeID, frameIDGetEUI64,
             frameIDGetNetworkParameters, frameIDGetEndpoint,
             frameIDGetEndpointDescription, frameIDGetEndpointCluster}
    BY ONLY <1>1
  <1>3. Answer(A, p) = <<0, Len(Endpoints)>>
    BY ONLY <1>1, <1>2, Zenon DEF Answer
  <1>4. Answer(B, p) = IF p[1] \in DOMAIN config
                       THEN <<0>> \o PutUint16(config[p[1]]) ELSE <<1, 0, 0>>
    BY ONLY <1>1, <1>2, Zenon DEF Answer
  <1> QED BY ONLY <1>1, <1>3, <1>4, Zenon

(* A status and a value.                                                   *)
LEMMA ValueTold ==
  ASSUME NEW v \in Word
  PROVE  /\ Len(<<0>> \o PutUint16(v)) = 3
         /\ GetConfigurationValue(<<0>> \o PutUint16(v)) = Ok(v)
         /\ GetEndpointCluster(<<0>> \o PutUint16(v)) = Ok(v)
  <1>1. PICK u, z, r : u = PutUint16(v) /\ z = <<0>> /\ r = Cat(z, u)
    BY ONLY TRUE, Zenon
  <1>2. u \in Seq(Byte) /\ Len(u) = 2 /\ u[1] = Low(v) /\ u[2] = High(v)
    <2>1. v \in Int
      BY ONLY v \in Word DEF Word
    <2> QED BY ONLY <1>1, <2>1, PutUint16Bytes
  <1>3. z \in Seq(Byte) /\ Len(z) = 1 /\ z[1] = 0
    <2>1. z \in Seq(Byte)
      BY ONLY <1>1, StatusBytes, Zenon
    <2> QED BY ONLY <1>1, <2>1
  <1>4. /\ Len(r) = 3 /\ r[1] = 0 /\ r[2] = Low(v) /\ r[3] = High(v)
    <2>1. /\ Len(r) = Len(z) + Len(u)
          /\ \A i \in 1 .. Len(z) : r[i] = z[i]
          /\ \A i \in 1 .. Len(u) : r[Len(z) + i] = u[i]
      <3>1. r = Cat(z, u) /\ z \in Seq(Byte) /\ u \in Seq(Byte)
        BY ONLY <1>1, <1>2, <1>3
      <3> QED BY ONLY <3>1, CatLen, CatLeft, CatRight, Zenon
    <2>2. r[1] = z[1] /\ r[1 + 1] = u[1] /\ r[1 + 2] = u[2]
      BY ONLY <1>2, <1>3, <2>1
    <2> QED BY ONLY <1>2, <1>3, <2>1, <2>2
  <1>5. Uint16(r, 2) = v
    <2>1. r[2 + 1] = High(v) /\ 2 \in Int
      BY ONLY <1>4
    <2> QED BY ONLY v \in Word, <1>4, <2>1, Uint16Read
  <1>6. GetConfigurationValue(r) = Ok(v) /\ GetEndpointCluster(r) = Ok(v)
    BY ONLY <1>4, <1>5, SMT DEF GetConfigurationValue, GetEndpointCluster
  <1>7. r = <<0>> \o PutUint16(v)
    BY ONLY <1>1, Zenon DEF Cat
  <1> QED BY ONLY <1>4, <1>6, <1>7, Zenon

LEMMA ReadsTrue ==
  ASSUME TypeInv, AnsweredTruly, pc \in Places
  PROVE  /\ pc = "nodeId" => GetNodeID(Answered).ok
         /\ pc = "eui64" => GetEUI64(Answered).ok
         /\ pc \in {"state", "guard"} => /\ NetworkState(Answered).ok
                                         /\ NetworkState(Answered).v = StateByte
         /\ pc = "params" /\ up => GetNetworkParameters(Answered).ok
         /\ pc = "count" /\ FewEndpoints =>
              GetEndpointCount(Answered) = Ok(Len(Endpoints))
         /\ pc = "value" =>
              GetConfigurationValue(Answered) =
                IF ConfigID \in DOMAIN config THEN Ok(config[ConfigID]) ELSE Err
  <1>1. PICK f, q : f = Request(0)[1] /\ q = Request(0)[2]
    BY ONLY TRUE, Zenon
  <1>2. Answered = Answer(f, q)
    BY ONLY AnsweredTruly, <1>1, Zenon DEF AnsweredTruly
  <1>3. /\ pc = "nodeId" => f = frameIDGetNodeID
        /\ pc = "eui64" => f = frameIDGetEUI64
        /\ pc \in {"state", "guard"} => f = frameIDNetworkState
        /\ pc = "params" => f = frameIDGetNetworkParameters
        /\ pc = "count" => f = frameIDGetEndpointCount
        /\ pc = "value" => f = frameIDGetConfigurationValue
    BY ONLY <1>1, PlaceRequests, Zenon
  <1>4. pc = "nodeId" => GetNodeID(Answered).ok
    <2>1. NodeID \in Int
      BY ONLY TRUE DEF NodeID, noNodeID
    <2>2. PICK u : u = PutUint16(NodeID)
      BY ONLY TRUE, Zenon
    <2>3. Len(u) = 2
      BY ONLY <2>1, <2>2, PutUint16Bytes, Zenon
    <2>4. GetNodeID(u).ok
      BY ONLY <2>3 DEF GetNodeID, Ok
    <2> QED BY ONLY <1>2, <1>3, <2>2, <2>4, QueryAnswers, Zenon
  <1>5. pc = "eui64" => GetEUI64(Answered).ok
    <2>1. PICK u : u = EUI64
      BY ONLY TRUE, Zenon
    <2>2. Len(u) = 8
      BY ONLY <2>1 DEF EUI64
    <2>3. GetEUI64(u).ok
      BY ONLY <2>2 DEF GetEUI64, Ok
    <2> QED BY ONLY <1>2, <1>3, <2>1, <2>3, QueryAnswers, Zenon
  <1>6. pc \in {"state", "guard"} => /\ NetworkState(Answered).ok
                                     /\ NetworkState(Answered).v = StateByte
    <2>1. PICK b : b = StateByte
      BY ONLY TRUE, Zenon
    <2>2. NetworkState(<<b>>).ok /\ NetworkState(<<b>>).v = b
      BY ONLY TRUE DEF NetworkState, Ok
    <2> QED BY ONLY <1>2, <1>3, <2>1, <2>2, QueryAnswers, Zenon
  <1>7. pc = "params" /\ up => GetNetworkParameters(Answered).ok
    <2> SUFFICES ASSUME pc = "params", up
                 PROVE  GetNetworkParameters(Answered).ok
      BY Zenon
    <2>1. Answered = NetworkParametersResponse
      BY ONLY <1>2, <1>3, pc = "params", QueryAnswers, Zenon
    <2>2. GetNetworkParameters(Answered) = Ok(Printed)
      BY ONLY TypeInv, up, <2>1, ParametersWhole, Zenon
    <2>3. Ok(Printed).ok
      BY ONLY TRUE DEF Ok
    <2> QED BY ONLY <2>2, <2>3, Zenon
  <1>8. pc = "count" /\ FewEndpoints =>
          GetEndpointCount(Answered) = Ok(Len(Endpoints))
    <2> SUFFICES ASSUME pc = "count", FewEndpoints
                 PROVE  GetEndpointCount(Answered) = Ok(Len(Endpoints))
      BY Zenon
    <2>1. PICK n \in Byte : n = Len(Endpoints)
      BY ONLY EndpointTypes, Zenon
    <2>2. n <= 240
      BY ONLY FewEndpoints, <2>1, Zenon DEF FewEndpoints
    <2>3. GetEndpointCount(<<0, n>>) = Ok(n)
      <3>1. ~(Len(<<0, n>>) < 2) /\ <<0, n>>[1] = 0 /\ <<0, n>>[2] = n
        BY ONLY TRUE
      <3>2. ~(n > 240)
        BY ONLY n \in Byte, <2>2 DEF Byte
      <3> QED BY ONLY <3>1, <3>2, Zenon DEF GetEndpointCount
    <2> QED BY ONLY <1>2, <1>3, pc = "count", <2>1, <2>3, CountAnswers, Zenon
  <1>9. pc = "value" =>
          GetConfigurationValue(Answered) =
            IF ConfigID \in DOMAIN config THEN Ok(config[ConfigID]) ELSE Err
    <2> SUFFICES ASSUME pc = "value"
                 PROVE  GetConfigurationValue(Answered) =
                          IF ConfigID \in DOMAIN config
                          THEN Ok(config[ConfigID]) ELSE Err
      BY Zenon
    <2>1. PICK c : c = ConfigID
      BY ONLY TRUE, Zenon
    <2>2. q[1] = c
      <3>1. Request(0) = <<frameIDGetConfigurationValue, <<ConfigID>>>>
        BY ONLY pc = "value" DEF Request
      <3> QED BY ONLY <1>1, <2>1, <3>1
    <2>3. Answered = IF c \in DOMAIN config
                     THEN <<0>> \o PutUint16(config[c]) ELSE <<1, 0, 0>>
      BY ONLY <1>2, <1>3, <2>2, pc = "value", CountAnswers, Zenon
    <2>4. CASE c \in DOMAIN config
      <3>1. PICK v \in Word : v = config[c]
        <4>1. config \in [DOMAIN Defaults -> Word]
          BY ONLY TypeInv, Zenon DEF TypeInv, NcpInv
        <4> QED BY ONLY <2>4, <4>1
      <3>2. GetConfigurationValue(<<0>> \o PutUint16(v)) = Ok(v)
        BY ONLY v \in Word, ValueTold, Zenon
      <3> QED BY ONLY <2>1, <2>3, <2>4, <3>1, <3>2, Zenon
    <2>5. CASE c \notin DOMAIN config
      <3>1. GetConfigurationValue(<<1, 0, 0>>) = Err
        BY ONLY TRUE DEF GetConfigurationValue
      <3> QED BY ONLY <2>1, <2>3, <2>5, <3>1, Zenon
    <2> QED BY ONLY <2>4, <2>5
  <1> QED BY ONLY <1>4, <1>5, <1>6, <1>7, <1>8, <1>9

------------------------------------------------------------------------------
(* The calls.                                                              *)

(* What a call gets while nothing has gone wrong.                          *)
LEMMA GotTold ==
  ASSUME NEW a, Returned(a), CleanInv, clean'
  PROVE  /\ clean /\ Ready /\ outbox' = <<>>
         /\ pc # "count" => a.got
         /\ a.got => /\ inbox' = <<>> /\ a.params = Answered /\ inbox # <<>>
                     /\ Told
                     /\ pc \in QueryPlaces => AnsweredTruly
                     /\ pc = "count" => extended
  <1>1. TypeInv /\ KeepInv /\ pc \in Places /\ a \in Answers /\ Return(a)
    BY ONLY Returned(a), Zenon DEF Returned
  <1>2. /\ clean /\ outbox' = <<>> /\ inbox # <<>>
        /\ pc # "count" => a.got
        /\ a.got => /\ inbox' = <<>> /\ a.params = Answered
                    /\ pc = "count" => extended
    BY ONLY <1>1, clean', CleanReturn
  <1>3. Ready /\ Told
    BY ONLY CleanInv, <1>2, Zenon DEF CleanInv
  <1>4. a.got => (pc \in QueryPlaces => AnsweredTruly)
    BY ONLY <1>2, <1>3, Zenon DEF Told
  <1> QED BY ONLY <1>2, <1>3, <1>4

(* A call with which the command ends.                                     *)
LEMMA CleanEnds ==
  ASSUME NEW a, Returned(a), CleanInv, pc' = "idle",
         clean' /\ FewEndpoints => exit' # "error" \/ Excused'
  PROVE  CleanInv'
  <1>1. FewEndpoints => CleanSucceeds'
    BY ONLY clean' /\ FewEndpoints => exit' # "error" \/ Excused', Zenon
       DEF CleanSucceeds, Excused
  <1>2. clean' => Ready'
    BY ONLY pc' = "idle" DEF Ready
  <1>3. clean' => AskedHere'
    BY ONLY Returned(a), CleanInv, GotTold, Zenon DEF AskedHere
  <1>4. clean' => Told'
    BY ONLY pc' = "idle" DEF Told, QueryPlaces
  <1>5. pc' # "idle" => exit' = "none"
    BY ONLY pc' = "idle"
  <1> QED BY ONLY <1>1, <1>2, <1>3, <1>4, <1>5, Zenon DEF CleanInv

(* A call after which it goes on.                                          *)
LEMMA CleanGoesOn ==
  ASSUME NEW a, Returned(a), CleanInv, exit' = exit,
         clean' => a.got /\ Ready'
  PROVE  CleanInv'
  <1>1. exit' = "none"
    <2>1. pc # "idle"
      BY ONLY Returned(a) DEF Returned, Places
    <2>2. exit = "none"
      BY ONLY CleanInv, <2>1, Zenon DEF CleanInv
    <2> QED BY ONLY exit' = exit, <2>2
  <1>2. CleanSucceeds'
    BY ONLY <1>1, SMT DEF CleanSucceeds
  <1>3. clean' => inbox' = <<>> /\ outbox' = <<>>
    BY ONLY Returned(a), CleanInv, clean' => a.got /\ Ready', GotTold, Zenon
  <1>4. clean' => AskedHere' /\ Told'
    BY ONLY <1>3, Zenon DEF AskedHere, Told
  <1> QED BY ONLY clean' => a.got /\ Ready', <1>1, <1>2, <1>4, Zenon
          DEF CleanInv

(* What a call that got its answer reads from it.                          *)
LEMMA ParsedIs ==
  ASSUME NEW a, a.got
  PROVE  /\ Parsed(Status, a) = Status(a.params)
         /\ Parsed(NetworkState, a) = NetworkState(a.params)
         /\ Parsed(GetNodeID, a) = GetNodeID(a.params)
         /\ Parsed(GetEUI64, a) = GetEUI64(a.params)
         /\ Parsed(GetNetworkParameters, a) = GetNetworkParameters(a.params)
         /\ Parsed(GetConfigurationValue, a) = GetConfigurationValue(a.params)
         /\ Parsed(GetEndpointCount, a) = GetEndpointCount(a.params)
         /\ Parsed(GetEndpoint, a) = GetEndpoint(a.params)
         /\ Parsed(GetEndpointDescription, a) =
              GetEndpointDescription(a.params)
         /\ Parsed(GetEndpointCluster, a) = GetEndpointCluster(a.params)
  BY ONLY a.got, Zenon DEF Parsed

(* info.                                                                   *)
LEMMA CleanInfo ==
  ASSUME TypeInv, KeepInv, TruthInv, CleanInv, NodeId \/ Eui64
  PROVE  CleanInv'
  <1>1. PICK a \in Answers :
          /\ Return(a)
          /\ \/ /\ pc = "nodeId"
                /\ \/ pc' = "eui64" /\ exit' = exit
                   \/ ~Parsed(GetNodeID, a).ok /\ pc' = "idle"
             \/ /\ pc = "eui64" /\ pc' = "idle"
                /\ exit' = "ok" \/ ~Parsed(GetEUI64, a).ok
    BY ONLY NodeId \/ Eui64, Zenon DEF NodeId, Eui64, GoTo, Exit, Fail
  <1>2. Returned(a) /\ pc \in Places
    BY ONLY TypeInv, KeepInv, TruthInv, <1>1, a \in Answers
       DEF Returned, Places
  <1>3. clean' => /\ a.got
                  /\ pc = "nodeId" => Parsed(GetNodeID, a).ok
                  /\ pc = "eui64" => Parsed(GetEUI64, a).ok
    <2> SUFFICES ASSUME clean'
                 PROVE  /\ a.got
                        /\ pc = "nodeId" => Parsed(GetNodeID, a).ok
                        /\ pc = "eui64" => Parsed(GetEUI64, a).ok
      BY Zenon
    <2>1. pc # "count" /\ pc \in QueryPlaces
      BY ONLY <1>1 DEF QueryPlaces
    <2>2. a.got /\ a.params = Answered /\ AnsweredTruly
      BY ONLY <1>2, <2>1, CleanInv, clean', GotTold
    <2>3. /\ pc = "nodeId" => GetNodeID(Answered).ok
          /\ pc = "eui64" => GetEUI64(Answered).ok
      BY ONLY TypeInv, <1>2, <2>2, ReadsTrue
    <2> QED BY ONLY <2>2, <2>3, ParsedIs, Zenon
  <1>4. CASE pc' = "eui64" /\ exit' = exit
    <2>1. Ready'
      BY ONLY <1>4 DEF Ready
    <2> QED BY ONLY <1>2, <1>3, <1>4, <2>1, CleanInv, CleanGoesOn, Zenon
  <1>5. CASE pc' = "idle" /\ (clean' => exit' = "ok")
    <2>1. clean' => exit' # "error"
      BY ONLY <1>5
    <2> QED BY ONLY <1>2, <1>5, <2>1, CleanInv, CleanEnds, Zenon
  <1> QED BY ONLY <1>1, <1>3, <1>4, <1>5, Zenon

(* network state, and the details that network init ends with.             *)
LEMMA CleanState ==
  ASSUME TypeInv, KeepInv, TruthInv, CleanInv, TryInit \/ State \/ Params
  PROVE  CleanInv'
  <1>1. PICK a \in Answers :
          /\ Return(a)
          /\ \/ pc = "tryInit" /\ pc' = "state" /\ exit' = exit
             \/ /\ pc = "state" /\ exit' = exit /\ pc' = "params"
                /\ cmd = "state" => Parsed(NetworkState, a).v # 0
             \/ /\ pc = "state" /\ pc' = "idle"
                /\ exit' = "ok" \/ ~Parsed(NetworkState, a).ok
             \/ /\ pc = "params" /\ pc' = "idle"
                /\ exit' = "ok" \/ ~Parsed(GetNetworkParameters, a).ok
    BY ONLY TryInit \/ State \/ Params, Zenon
       DEF TryInit, State, Params, StatusCall, GoTo, Exit, Fail
  <1>2. Returned(a) /\ pc \in Places
    BY ONLY TypeInv, KeepInv, TruthInv, <1>1, a \in Answers
       DEF Returned, Places
  <1>3. pc # "count" /\ (pc # "tryInit" => pc \in QueryPlaces)
    BY ONLY <1>1 DEF QueryPlaces
  <1>4. UNCHANGED <<cmd, up>>
    BY ONLY <1>2, CallFrame, Zenon
  <1>5. /\ pc = "tryInit" => cmd = "state"
        /\ pc \in {"state", "params"} => cmd \in {"state", "init"}
    BY ONLY <1>2, CallPlace
  <1>6. ASSUME clean'
        PROVE  /\ a.got
               /\ pc = "state" /\ (cmd = "state" =>
                    Parsed(NetworkState, a).v # 0) => up
               /\ pc = "state" => Parsed(NetworkState, a).ok
               /\ pc = "params" => Parsed(GetNetworkParameters, a).ok
    <2>1. /\ a.got /\ a.params = Answered /\ Ready
          /\ pc # "tryInit" => AnsweredTruly
      BY ONLY <1>2, <1>3, CleanInv, <1>6, GotTold
    <2>2. pc # "tryInit" =>
            /\ pc \in {"state", "guard"} => /\ NetworkState(Answered).ok
                                            /\ NetworkState(Answered).v = StateByte
            /\ pc = "params" /\ up => GetNetworkParameters(Answered).ok
      BY ONLY TypeInv, <1>2, <2>1, ReadsTrue
    <2>3. StateByte # 0 => up
      BY ONLY TRUE DEF StateByte
    <2>4. /\ pc = "params" => up
          /\ pc = "state" /\ cmd = "init" => up
      BY ONLY <2>1, Zenon DEF Ready
    <2>5. Parsed(NetworkState, a) = NetworkState(Answered)
          /\ Parsed(GetNetworkParameters, a) = GetNetworkParameters(Answered)
      BY ONLY <2>1, ParsedIs, Zenon
    <2>6. CASE pc = "state"
      <3>1. NetworkState(Answered).ok /\ NetworkState(Answered).v = StateByte
        BY ONLY <2>2, <2>6
      <3>2. pc # "params"
        BY ONLY <2>6
      <3> QED BY ONLY <1>5, <2>1, <2>3, <2>4, <2>5, <2>6, <3>1, <3>2, Zenon
    <2>7. CASE pc = "params"
      <3>1. pc # "tryInit" /\ pc # "state"
        BY ONLY <2>7
      <3> QED BY ONLY <2>1, <2>2, <2>4, <2>5, <2>7, <3>1, Zenon
    <2> QED BY ONLY <2>1, <2>6, <2>7
  <1>7. CASE pc = "tryInit" /\ pc' = "state" /\ exit' = exit
    <2>1. Ready'
      BY ONLY <1>4, <1>5, <1>7 DEF Ready
    <2> QED BY ONLY <1>2, <1>6, <1>7, <2>1, CleanInv, CleanGoesOn, Zenon
  <1>8. CASE /\ pc = "state" /\ exit' = exit /\ pc' = "params"
             /\ cmd = "state" => Parsed(NetworkState, a).v # 0
    <2>1. clean' => up'
      BY ONLY <1>4, <1>6, <1>8
    <2>2. clean' => Ready'
      BY ONLY <1>8, <2>1 DEF Ready
    <2> QED BY ONLY <1>2, <1>6, <1>8, <2>2, CleanInv, CleanGoesOn, Zenon
  <1>9. CASE pc' = "idle" /\ (clean' => exit' = "ok")
    <2>1. clean' => exit' # "error"
      BY ONLY <1>9
    <2> QED BY ONLY <1>2, <1>9, <2>1, CleanInv, CleanEnds, Zenon
  <1> QED BY ONLY <1>1, <1>6, <1>7, <1>8, <1>9, Zenon

(* network init.                                                           *)
LEMMA CleanInit ==
  ASSUME TypeInv, KeepInv, TruthInv, CleanInv,
         Guard \/ InitNetwork \/ Secure \/ Form
  PROVE  CleanInv'
  <1>1. PICK a \in Answers :
          /\ Return(a)
          /\ \/ /\ pc = "guard"
                /\ \/ pc' = "idle" /\ ~Parsed(NetworkState, a).ok
                   \/ /\ pc' = "state" /\ exit' = exit
                      /\ Parsed(NetworkState, a).v = joinedNetwork
                   \/ pc' = "init" /\ exit' = exit
             \/ /\ pc = "init" /\ exit' = exit
                /\ \/ pc' = "state" /\ Parsed(Status, a).ok
                   \/ pc' = "secure"
             \/ /\ pc = "secure"
                /\ \/ pc' = "form" /\ exit' = exit
                   \/ pc' = "idle" /\ ~Parsed(Status, a).ok
             \/ /\ pc = "form"
                /\ \/ pc' = "state" /\ exit' = exit /\ Parsed(Status, a).ok
                   \/ pc' = "idle" /\ ~Parsed(Status, a).ok
    BY ONLY Guard \/ InitNetwork \/ Secure \/ Form, Zenon
       DEF Guard, InitNetwork, Secure, Form, StatusCall, GoTo, Claim, Fail
  <1>2. Returned(a) /\ pc \in Places
    BY ONLY TypeInv, KeepInv, TruthInv, <1>1, a \in Answers
       DEF Returned, Places
  <1>3. pc # "count" /\ (pc = "guard" => pc \in QueryPlaces)
        /\ pc \in {"guard", "init", "secure", "form"}
    BY ONLY <1>1 DEF QueryPlaces
  <1>4. UNCHANGED <<cmd, flags, up>> /\ cmd = "init"
    BY ONLY <1>2, <1>3, CallFrame, CallPlace, Zenon
  <1>5. ASSUME clean'
        PROVE  /\ a.got
               /\ pc = "guard" => /\ Parsed(NetworkState, a).ok
                                  /\ Parsed(NetworkState, a).v = joinedNetwork
                                       => up
               /\ pc = "init" /\ Parsed(Status, a).ok => up
               /\ pc = "secure" => Parsed(Status, a).ok
               /\ pc = "form" => IF Parsed(Status, a).ok THEN up
                                 ELSE flags.channel % 256 \notin 11 .. 26
    <2>1. /\ a.got /\ a.params = Answered /\ Told /\ inbox # <<>>
          /\ pc = "guard" => AnsweredTruly
      BY ONLY <1>2, <1>3, CleanInv, <1>5, GotTold
    <2>2. pc = "guard" => /\ NetworkState(Answered).ok
                          /\ NetworkState(Answered).v = StateByte
      <3>1. pc = "guard" => pc \in {"state", "guard"}
        BY ONLY TRUE
      <3> QED BY ONLY TypeInv, <1>2, <2>1, <3>1, ReadsTrue
    <2>3. StateByte = joinedNetwork => up
      BY ONLY TRUE DEF StateByte, joinedNetwork
    <2>4. /\ Parsed(NetworkState, a) = NetworkState(Answered)
          /\ Parsed(Status, a) = Status(Answered)
      BY ONLY <2>1, ParsedIs, Zenon
    <2>5. /\ pc = "init" => (Status(Answered).ok => up)
          /\ pc = "secure" => Status(Answered).ok
          /\ pc = "form" => IF Status(Answered).ok THEN up
                            ELSE flags.channel % 256 \notin 11 .. 26
      BY ONLY <2>1, Zenon DEF Told
    <2> QED BY ONLY <2>1, <2>2, <2>3, <2>4, <2>5, Zenon
  <1>6. CASE pc' = "state" /\ exit' = exit /\ (clean' => up)
    <2>1. clean' => Ready'
      BY ONLY <1>4, <1>6 DEF Ready
    <2> QED BY ONLY <1>2, <1>5, <1>6, <2>1, CleanInv, CleanGoesOn, Zenon
  <1>7. CASE pc' \in {"init", "secure", "form"} /\ exit' = exit
    <2>1. Ready'
      BY ONLY <1>7 DEF Ready
    <2> QED BY ONLY <1>2, <1>5, <1>7, <2>1, CleanInv, CleanGoesOn, Zenon
  <1>8. CASE /\ pc' = "idle"
             /\ clean' => flags.channel % 256 \notin 11 .. 26
    <2>1. clean' => Excused'
      BY ONLY <1>4, <1>8, Zenon DEF Excused
    <2> QED BY ONLY <1>2, <1>8, <2>1, CleanInv, CleanEnds, Zenon
  <1> QED BY ONLY <1>1, <1>5, <1>6, <1>7, <1>8, Zenon

(* network permit-join.                                                    *)
LEMMA CleanPermit ==
  ASSUME TypeInv, KeepInv, TruthInv, CleanInv, Restore \/ Permit
  PROVE  CleanInv'
  <1>1. PICK a \in Answers :
          /\ Return(a)
          /\ \/ /\ pc = "restore"
                /\ \/ pc' = "permit" /\ exit' = exit /\ Parsed(Status, a).ok
                   \/ pc' = "idle" /\ ~Parsed(Status, a).ok
             \/ /\ pc = "permit" /\ pc' = "idle"
                /\ exit' = "ok" \/ ~Parsed(Status, a).ok
    BY ONLY Restore \/ Permit, Zenon
       DEF Restore, Permit, StatusCall, GoTo, Exit, Fail
  <1>2. Returned(a) /\ pc \in Places
    BY ONLY TypeInv, KeepInv, TruthInv, <1>1, a \in Answers
       DEF Returned, Places
  <1>3. pc # "count" /\ pc \in {"restore", "permit"}
    BY ONLY <1>1
  <1>4. UNCHANGED <<cmd, up, stored, ncp>> /\ cmd = "permit"
    BY ONLY <1>2, <1>3, CallFrame, CallPlace, Zenon
  <1>5. ASSUME clean'
        PROVE  /\ a.got
               /\ pc = "permit" => Parsed(Status, a).ok
               /\ pc = "restore" => IF Parsed(Status, a).ok THEN up
                                    ELSE stored = NoNetwork \/ ncp.resumes
    <2>1. /\ a.got /\ a.params = Answered /\ Told /\ inbox # <<>>
      BY ONLY <1>2, <1>3, CleanInv, <1>5, GotTold
    <2>2. Parsed(Status, a) = Status(Answered)
      BY ONLY <2>1, ParsedIs, Zenon
    <2>3. /\ pc = "permit" => Status(Answered).ok
          /\ pc = "restore" => IF Status(Answered).ok THEN up
                               ELSE stored = NoNetwork \/ ncp.resumes
      BY ONLY <2>1, Zenon DEF Told
    <2> QED BY ONLY <2>1, <2>2, <2>3, Zenon
  <1>6. CASE pc' = "permit" /\ exit' = exit /\ (clean' => up)
    <2>1. clean' => Ready'
      BY ONLY <1>4, <1>6 DEF Ready
    <2> QED BY ONLY <1>2, <1>5, <1>6, <2>1, CleanInv, CleanGoesOn, Zenon
  <1>7. CASE /\ pc' = "idle"
             /\ clean' => exit' = "ok" \/ stored = NoNetwork \/ ncp.resumes
    <2>1. clean' => exit' # "error" \/ Excused'
      <3>1. exit' = "ok" => exit' # "error"
        BY ONLY TRUE
      <3> QED BY ONLY <1>4, <1>7, <3>1, Zenon DEF Excused
    <2> QED BY ONLY <1>2, <1>7, <2>1, CleanInv, CleanEnds, Zenon
  <1> QED BY ONLY <1>1, <1>3, <1>5, <1>6, <1>7, Zenon

(* config.                                                                 *)
LEMMA CleanConfig ==
  ASSUME TypeInv, KeepInv, TruthInv, CleanInv, Value \/ SetConfig
  PROVE  CleanInv'
  <1>1. PICK a \in Answers :
          /\ Return(a)
          /\ \/ /\ pc = "value" /\ cmd = "get" /\ pc' = "idle"
                /\ exit' = "ok" \/ ~Parsed(GetConfigurationValue, a).ok
             \/ /\ pc = "value" /\ pc' = "value" /\ exit' = exit
             \/ /\ pc = "value" /\ pc' = "idle" /\ exit' = "ok"
             \/ /\ pc = "set" /\ pc' = "idle"
                /\ exit' = "ok" \/ ~Parsed(Status, a).ok
    BY ONLY Value \/ SetConfig, Zenon
       DEF Value, SetConfig, StatusCall, GoTo, Exit, Fail
  <1>2. Returned(a) /\ pc \in Places
    BY ONLY TypeInv, KeepInv, TruthInv, <1>1, a \in Answers
       DEF Returned, Places
  <1>3. pc # "count" /\ (pc = "value" => pc \in QueryPlaces)
    BY ONLY <1>1 DEF QueryPlaces
  <1>4. UNCHANGED <<cmd, arg>> /\ (pc = "set" => cmd = "set")
    BY ONLY <1>2, CallFrame, CallPlace, Zenon
  <1>5. ASSUME clean'
        PROVE  /\ a.got
               /\ /\ pc = "value" /\ cmd = "get"
                  /\ ~Parsed(GetConfigurationValue, a).ok
                  => arg \notin DOMAIN Defaults
               /\ pc = "set" /\ ~Parsed(Status, a).ok =>
                    arg \notin DOMAIN Defaults
    <2>1. /\ a.got /\ a.params = Answered /\ Told /\ inbox # <<>>
          /\ pc = "value" => AnsweredTruly
      BY ONLY <1>2, <1>3, CleanInv, <1>5, GotTold
    <2>2. /\ Parsed(Status, a) = Status(Answered)
          /\ Parsed(GetConfigurationValue, a) = GetConfigurationValue(Answered)
      BY ONLY <2>1, ParsedIs, Zenon
    <2>3. pc = "set" => (arg \in DOMAIN Defaults => Status(Answered).ok)
      BY ONLY <2>1, Zenon DEF Told
    <2>4. pc = "value" =>
            GetConfigurationValue(Answered) =
              IF ConfigID \in DOMAIN config THEN Ok(config[ConfigID]) ELSE Err
      BY ONLY TypeInv, <1>2, <2>1, ReadsTrue
    <2>5. cmd = "get" => ConfigID = arg
      BY ONLY TRUE DEF ConfigID
    <2>6. DOMAIN config = DOMAIN Defaults
      <3>1. config \in [DOMAIN Defaults -> Word]
        BY ONLY TypeInv, Zenon DEF TypeInv, NcpInv
      <3> QED BY ONLY <3>1
    <2>7. \A v : Ok(v).ok
      BY ONLY TRUE DEF Ok
    <2> QED BY ONLY <2>1, <2>2, <2>3, <2>4, <2>5, <2>6, <2>7, Zenon
  <1>6. CASE pc' = "value" /\ exit' = exit
    <2>1. Ready'
      BY ONLY <1>6 DEF Ready
    <2> QED BY ONLY <1>2, <1>5, <1>6, <2>1, CleanInv, CleanGoesOn, Zenon
  <1>7. CASE /\ pc' = "idle"
             /\ clean' => \/ exit' = "ok"
                          \/ cmd \in {"get", "set"} /\ arg \notin DOMAIN Defaults
    <2>1. clean' => exit' # "error" \/ Excused'
      <3>1. exit' = "ok" => exit' # "error"
        BY ONLY TRUE
      <3> QED BY ONLY <1>4, <1>7, <3>1, Zenon DEF Excused
    <2> QED BY ONLY <1>2, <1>7, <2>1, CleanInv, CleanEnds, Zenon
  <1>8. cmd \in {"get", "set"} <=> cmd = "get" \/ cmd = "set"
    BY ONLY TRUE
  <1> QED BY ONLY <1>1, <1>4, <1>5, <1>6, <1>7, <1>8, Zenon

(* endpoints.                                                              *)
LEMMA CleanEndpoints ==
  ASSUME TypeInv, KeepInv, TruthInv, CleanInv,
         Count \/ Endpoint \/ Description \/ Cluster
  PROVE  CleanInv'
  <1>1. PICK a \in Answers :
          /\ Return(a) /\ pc \in {"count"} \cup Listings
          /\ \/ /\ pc = "count" => a.got
                /\ \/ pc' \in Listings /\ exit' = exit
                   \/ pc' = "idle" /\ exit' = "ok"
             \/ pc = "count" /\ ~Parsed(GetEndpointCount, a).ok /\ pc' = "idle"
    <2>1. Err.ok = FALSE
      BY ONLY TRUE DEF Err
    <2>2. \A it : Loop(it) => \/ pc' \in Listings /\ exit' = exit
                              \/ pc' = "idle" /\ exit' = "ok"
      BY ONLY TRUE DEF Loop, GoTo, Exit, Listings
    <2>3. /\ "count" \in {"count"} \cup Listings
          /\ "endpoint" \in {"count"} \cup Listings
          /\ "description" \in {"count"} \cup Listings
          /\ "description" \in Listings
          /\ "cluster" \in {"count"} \cup Listings
          /\ "count" \notin {"endpoint", "description", "cluster"}
      BY ONLY TRUE DEF Listings
    <2>4. ASSUME Count
          PROVE  \E a \in Answers :
                   /\ Return(a) /\ pc = "count"
                   /\ \/ /\ a.got
                         /\ \/ pc' \in Listings /\ exit' = exit
                            \/ pc' = "idle" /\ exit' = "ok"
                      \/ ~Parsed(GetEndpointCount, a).ok /\ pc' = "idle"
      BY ONLY <2>1, <2>2, <2>4, Zenon DEF Count, Fail, Parsed
    <2>5. ASSUME Endpoint \/ Description \/ Cluster
          PROVE  \E a \in Answers :
                   /\ Return(a) /\ pc \in {"endpoint", "description", "cluster"}
                   /\ \/ pc' \in Listings /\ exit' = exit
                      \/ pc' = "idle" /\ exit' = "ok"
      <3>1. ASSUME Endpoint
            PROVE  \E a \in Answers :
                     /\ Return(a) /\ pc = "endpoint"
                     /\ \/ pc' \in Listings /\ exit' = exit
                        \/ pc' = "idle" /\ exit' = "ok"
        BY ONLY <2>2, <2>3, <3>1, Zenon DEF Endpoint, GoTo
      <3>2. ASSUME Description
            PROVE  \E a \in Answers :
                     /\ Return(a) /\ pc = "description"
                     /\ \/ pc' \in Listings /\ exit' = exit
                        \/ pc' = "idle" /\ exit' = "ok"
        BY ONLY <2>2, <3>2, Zenon DEF Description
      <3>3. ASSUME Cluster
            PROVE  \E a \in Answers :
                     /\ Return(a) /\ pc = "cluster"
                     /\ \/ pc' \in Listings /\ exit' = exit
                        \/ pc' = "idle" /\ exit' = "ok"
        BY ONLY <2>2, <3>3, Zenon DEF Cluster
      <3> QED BY ONLY <2>5, <3>1, <3>2, <3>3, Zenon
    <2> QED BY ONLY Count \/ Endpoint \/ Description \/ Cluster,
                    <2>3, <2>4, <2>5, Zenon
  <1>2. Returned(a) /\ pc \in Places
    BY ONLY TypeInv, KeepInv, TruthInv, <1>1, a \in Answers
       DEF Returned, Places, Listings
  <1>3. UNCHANGED <<cmd, extended>> /\ cmd = "endpoints"
    BY ONLY <1>1, <1>2, CallFrame, CallPlace, Zenon
  <1>4. clean' => (pc # "count" => a.got)
    BY ONLY <1>2, CleanInv, GotTold, Zenon
  <1>5. CASE pc' \in Listings /\ exit' = exit /\ (pc = "count" => a.got)
    <2>1. Ready'
      BY ONLY <1>5 DEF Ready, Listings
    <2> QED BY ONLY <1>2, <1>4, <1>5, <2>1, CleanInv, CleanGoesOn, Zenon
  <1>6. CASE pc' = "idle" /\ exit' = "ok"
    <2>1. exit' # "error"
      BY ONLY <1>6
    <2> QED BY ONLY <1>2, <1>6, <2>1, CleanInv, CleanEnds, Zenon
  <1>7. CASE pc = "count" /\ ~Parsed(GetEndpointCount, a).ok /\ pc' = "idle"
    <2>1. ASSUME clean', FewEndpoints, extended PROVE FALSE
      <3>1. pc \in QueryPlaces
        BY ONLY <1>7 DEF QueryPlaces
      <3>2. CASE a.got
        <4>1. a.params = Answered /\ AnsweredTruly
          BY ONLY <1>2, CleanInv, <2>1, <3>1, <3>2, GotTold
        <4>2. GetEndpointCount(Answered) = Ok(Len(Endpoints))
          BY ONLY TypeInv, <1>2, <1>7, <2>1, <4>1, ReadsTrue
        <4>3. \A v : Ok(v).ok
          BY ONLY TRUE DEF Ok
        <4> QED BY ONLY <1>7, <3>2, <4>1, <4>2, <4>3, ParsedIs, Zenon
      <3>3. CASE ~a.got
        <4>1. clean /\ inbox # <<>>
          BY ONLY TypeInv, KeepInv, <1>1, <1>2, <2>1, a \in Answers, CleanReturn
        <4>2. 1 \in Matching
          BY ONLY CleanInv, <1>7, <2>1, <4>1, Zenon DEF CleanInv, Told
        <4>3. Unanswered
          BY ONLY <1>1, <2>1, <3>3, Zenon DEF Return
        <4> QED BY ONLY <4>2, <4>3, Zenon DEF Unanswered
      <3> QED BY ONLY <3>2, <3>3
    <2>2. clean' /\ FewEndpoints => Excused'
      BY ONLY <1>3, <2>1, Zenon DEF Excused
    <2> QED BY ONLY <1>2, <1>7, <2>2, CleanInv, CleanEnds, Zenon
  <1> QED BY ONLY <1>1, <1>5, <1>6, <1>7, Zenon

------------------------------------------------------------------------------
(* The other steps.                                                        *)

(* The request that is written is the one of the place.                    *)
LEMMA CleanAsk == TypeInv /\ KeepInv /\ CleanInv /\ Ask => CleanInv'
  <1> SUFFICES ASSUME TypeInv, KeepInv, CleanInv, Ask PROVE CleanInv'
    OBVIOUS
  <1>1. /\ pc \in Places /\ ~waiting
        /\ UNCHANGED <<progVars, pc, extended, inbox, ncpVars, before>>
        /\ \/ /\ clean' = clean
              /\ \E random \in IF pc = "form" THEN PanIDs ELSE {0},
                    fid \in Queries \cup Writes, p \in Seq(Byte) :
                   /\ Request(random) = <<fid, p>> /\ Legit(fid, p)
                   /\ outbox' = Append(outbox, encode(ncpExt, 0, fid, p))
           \/ clean' = FALSE /\ outbox' = outbox
    BY ONLY TypeInv, Ask, AskMoves, Zenon
  <1>2. UNCHANGED <<pc, cmd, arg, item, session, flags, exit, inbox, up, ncp,
                    ncpExt>>
    BY ONLY <1>1, Zenon DEF progVars, ncpVars
  <1>3. exit' = "none" /\ pc' = pc
    <2>1. pc # "idle"
      BY ONLY <1>1 DEF Places
    <2> QED BY ONLY CleanInv, <1>2, <2>1, Zenon DEF CleanInv
  <1>4. CleanSucceeds'
    BY ONLY <1>3, SMT DEF CleanSucceeds
  <1>5. ASSUME clean' PROVE Ready' /\ AskedHere' /\ Told'
    <2>1. /\ clean
          /\ \E random \in IF pc = "form" THEN PanIDs ELSE {0},
                fid \in Queries \cup Writes, p \in Seq(Byte) :
               /\ Request(random) = <<fid, p>>
               /\ outbox' = Append(outbox, encode(ncpExt, 0, fid, p))
      BY ONLY <1>1, <1>5, Zenon
    <2>2. PICK random \in IF pc = "form" THEN PanIDs ELSE {0},
               fid \in Queries \cup Writes, p \in Seq(Byte) :
            /\ Request(random) = <<fid, p>>
            /\ outbox' = Append(outbox, encode(ncpExt, 0, fid, p))
      BY ONLY <2>1, Zenon
    <2>3. outbox = <<>> /\ inbox = <<>>
      BY ONLY KeepInv, <1>1, <2>1, Zenon DEF KeepInv, OneAtATime
    <2>4. Ready'
      BY ONLY CleanInv, <1>2, <2>1, Zenon DEF CleanInv, Ready
    <2>5. Told'
      BY ONLY <1>2, <2>3, Zenon DEF Told
    <2>6. ncpExt \in BOOLEAN /\ fid \in Word
      BY ONLY TypeInv, fid \in Queries \cup Writes, FrameIDs, Zenon
         DEF TypeInv, NcpInv
    <2>7. PICK f \in Seq(Byte) : f = encode(ncpExt, 0, fid, p)
      BY ONLY <2>6, p \in Seq(Byte), FrameRoundTrip
    <2>8. decode(ncpExt, f).v.params = p
      BY ONLY <2>6, <2>7, p \in Seq(Byte), Written, Zenon
    <2>9. Head(outbox') = f
      <3>1. PICK g : g = f
        BY ONLY TRUE, Zenon
      <3>2. Head(Append(<<>>, g)) = g
        BY ONLY TRUE
      <3> QED BY ONLY <2>2, <2>3, <2>7, <3>1, <3>2, Zenon
    <2>10. Asked.params' = p
      BY ONLY <1>2, <2>8, <2>9, Zenon DEF Asked
    <2>11. random \in PanIDs \cup {0}
      BY ONLY random \in IF pc = "form" THEN PanIDs ELSE {0}, SMT
    <2>12. Request(random)'[2] = p
      <3>1. PICK x : x = random
        BY ONLY TRUE, Zenon
      <3>2. Request(random)' = Request(random)
        BY ONLY <1>2, RequestKept
      <3>3. <<fid, p>>[2] = p
        BY ONLY TRUE
      <3> QED BY ONLY <2>2, <3>2, <3>3, Zenon
    <2>13. AskedHere'
      BY ONLY <2>10, <2>11, <2>12, Zenon DEF AskedHere
    <2> QED BY ONLY <2>4, <2>5, <2>13
  <1> QED BY ONLY <1>3, <1>4, <1>5, Zenon DEF CleanInv

(* A step with which the command is not clean.                             *)
LEMMA CleanNot ==
  ASSUME ~clean', pc' # "idle" => exit' = "none" PROVE CleanInv'
  BY ONLY ~clean', pc' # "idle" => exit' = "none", Zenon
     DEF CleanInv, CleanSucceeds

LEMMA CleanReset == TypeInv /\ CleanInv /\ Reset => CleanInv'
  <1> SUFFICES ASSUME TypeInv, CleanInv, Reset PROVE CleanInv'
    OBVIOUS
  <1>1. /\ pc = "reset" /\ outbox' = <<>> /\ inbox' = <<>>
        /\ ncp' = ncp /\ up' = (ncp.resumes /\ stored # NoNetwork)
        /\ \/ pc' = "idle" /\ exit' = "ok"
           \/ pc' = "negotiate" /\ exit' = exit
    BY ONLY Reset, Zenon DEF Reset, Boot, Exit, GoTo
  <1>2. exit' = "ok" \/ exit' = "none"
    <2>1. exit = "none"
      BY ONLY CleanInv, <1>1 DEF CleanInv
    <2> QED BY ONLY <1>1, <2>1, Zenon
  <1>3. CleanSucceeds'
    BY ONLY <1>2, SMT DEF CleanSucceeds
  <1>4. Ready'
    <2>1. up' => ncp.resumes'
      BY ONLY <1>1, Zenon
    <2> QED BY ONLY <1>1, <2>1 DEF Ready
  <1>5. AskedHere' /\ Told'
    BY ONLY <1>1, Zenon DEF AskedHere, Told
  <1>6. pc' # "idle" => exit' = "none"
    BY ONLY CleanInv, <1>1 DEF CleanInv
  <1> QED BY ONLY <1>3, <1>4, <1>5, <1>6, Zenon DEF CleanInv

(* The argument -1, which is no ID, is that of config get or set.          *)
LEMMA CleanNegotiate == TypeInv /\ CleanInv /\ Negotiate => CleanInv'
  <1> SUFFICES ASSUME TypeInv, CleanInv, Negotiate PROVE CleanInv'
    OBVIOUS
  <1>1. /\ pc = "negotiate" /\ UNCHANGED <<outbox, inbox, cmd, arg, up, ncp>>
        /\ clean' = clean
        /\ \/ pc' = "idle" /\ exit' = "ok"
           \/ pc' = "idle" /\ exit' = "error" /\ arg = -1
           \/ pc' = First[cmd] /\ exit' = exit
    BY ONLY Negotiate, Zenon DEF Negotiate, Exit, Fail, GoTo, lineVars
  <1>2. outbox' = <<>> /\ inbox' = <<>>
    BY ONLY TypeInv, <1>1, Zenon DEF TypeInv, LineInv
  <1>3. exit = "none"
    BY ONLY CleanInv, <1>1 DEF CleanInv
  <1>4. pc' # "idle" => exit' = "none"
    BY ONLY <1>1, <1>3, Zenon
  <1>5. exit' = "error" => cmd \in {"get", "set"} /\ arg \notin DOMAIN Defaults
    <2> SUFFICES ASSUME exit' = "error"
                 PROVE  cmd \in {"get", "set"} /\ arg \notin DOMAIN Defaults
      BY Zenon
    <2>1. arg = -1
      BY ONLY <1>1, <1>3, exit' = "error"
    <2>2. cmd # "none" /\ arg \in Args(cmd)
      BY ONLY TypeInv, <1>1 DEF TypeInv, CmdInv
    <2>3. Durations \subseteq Byte /\ DOMAIN Defaults \subseteq Byte
      BY CliAssumption, NcpAssumption, Zenon
    <2>4. -1 \notin Byte /\ -1 # 0
      BY ONLY TRUE DEF Byte
    <2>5. arg \notin DOMAIN Defaults /\ arg \notin Durations /\ arg \notin {0}
      BY ONLY <2>1, <2>3, <2>4
    <2>6. cmd \in {"get", "set"}
      BY ONLY <2>2, <2>5, Zenon DEF Args
    <2> QED BY ONLY <2>5, <2>6
  <1>6. CleanSucceeds'
    BY ONLY <1>1, <1>5, Zenon DEF CleanSucceeds
  <1>7. ASSUME clean' PROVE Ready'
    <2>1. pc' \in {"nodeId", "tryInit", "guard", "restore", "count", "value",
                   "set", "idle"}
      BY ONLY TypeInv, Negotiate, FirstPlaces
    <2>2. up => ncp.resumes
      BY ONLY CleanInv, <1>1, <1>7, Zenon DEF CleanInv, Ready
    <2>3. ~up' \/ ncp.resumes'
      BY ONLY <1>1, <2>2, Zenon
    <2>4. /\ pc' # "negotiate" /\ pc' \notin {"permit", "params"}
          /\ pc' # "state"
      BY ONLY <2>1
    <2> QED BY ONLY <2>3, <2>4, Zenon DEF Ready
  <1>8. AskedHere' /\ Told'
    BY ONLY <1>2, Zenon DEF AskedHere, Told
  <1> QED BY ONLY <1>4, <1>6, <1>7, <1>8, Zenon DEF CleanInv

LEMMA CleanSame == CleanInv /\ UNCHANGED vars => CleanInv'
  <1> SUFFICES ASSUME CleanInv, UNCHANGED vars PROVE CleanInv'
    OBVIOUS
  <1>1. /\ UNCHANGED <<pc, cmd, arg, item, session, flags, exit, extended>>
        /\ UNCHANGED <<outbox, inbox, clean, ncp, ncpExt, up, config, stored>>
    BY ONLY UNCHANGED vars, Zenon DEF vars, progVars, lineVars, ncpVars
  <1>2. CleanSucceeds' <=> CleanSucceeds
    BY ONLY <1>1, Zenon DEF CleanSucceeds
  <1>3. Ready' <=> Ready
    BY ONLY <1>1, Zenon DEF Ready
  <1>4. AskedHere => AskedHere'
    <2>1. ASSUME NEW CONSTANT x PROVE Request(x)' = Request(x)
      BY ONLY <1>1, RequestKept
    <2>2. Asked.params' = Asked.params
      BY ONLY <1>1, Zenon DEF Asked
    <2> QED BY ONLY <1>1, <2>1, <2>2, Zenon DEF AskedHere
  <1>5. Told => Told'
    <2>1. Answered' = Answered /\ Request(0)' = Request(0)
      BY ONLY <1>1, RequestSame, Zenon DEF Answered
    <2>2. ASSUME AnsweredTruly, NEW CONSTANT f, NEW CONSTANT q,
                 f = Request(0)[1]', q = Request(0)[2]'
          PROVE  Answered' = Answer(f, q)'
      <3>1. Answered = Answer(f, q)
        BY ONLY <2>1, <2>2, Zenon DEF AnsweredTruly
      <3>2. Answer(f, q)' = Answer(f, q)
        BY ONLY <1>1, AnswerKept, Zenon
      <3> QED BY ONLY <2>1, <3>1, <3>2, Zenon
    <2>3. AnsweredTruly => AnsweredTruly'
      BY ONLY <2>2, Zenon DEF AnsweredTruly
    <2>4. Matching' = Matching
      BY ONLY <1>1, <2>1, Zenon DEF Matching
    <2> QED BY ONLY <1>1, <2>1, <2>3, <2>4, Zenon DEF Told
  <1> QED BY ONLY CleanInv, <1>1, <1>2, <1>3, <1>4, <1>5, Zenon DEF CleanInv

LEMMA CleanStep ==
  TypeInv /\ KeepInv /\ TruthInv /\ CleanInv /\ [Next]_vars => CleanInv'
  <1> SUFFICES ASSUME TypeInv, KeepInv, TruthInv, CleanInv, [Next]_vars
               PROVE  CleanInv'
    OBVIOUS
  <1>1. ASSUME NEW c \in Commands, Start(c) PROVE CleanInv'
    <2>1. clean' = FALSE /\ exit' = "none"
      BY ONLY <1>1, Zenon DEF Start
    <2> QED BY ONLY <2>1, CleanNot, Zenon
  <1>2. ASSUME NoConnection \/ Kill PROVE CleanInv'
    <2>1. clean' = FALSE /\ pc' = "idle"
      BY ONLY <1>2, Zenon DEF NoConnection, Kill, Fail
    <2> QED BY ONLY <2>1, CleanNot, Zenon
  <1>3. ASSUME NcpRestart PROVE CleanInv'
    <2>1. clean' = FALSE /\ pc' = pc /\ exit' = exit
      BY ONLY <1>3, Zenon DEF NcpRestart, progVars
    <2>2. pc # "idle" => exit = "none"
      BY ONLY CleanInv, Zenon DEF CleanInv
    <2> QED BY ONLY <2>1, <2>2, CleanNot, Zenon
  <1>4. ASSUME PlainCall PROVE CleanInv'
    BY ONLY TypeInv, KeepInv, TruthInv, CleanInv, <1>4, CleanInfo, CleanState,
            CleanInit, CleanPermit, CleanConfig, Zenon DEF PlainCall
  <1>5. ASSUME Count \/ Endpoint \/ Description \/ Cluster PROVE CleanInv'
    BY ONLY TypeInv, KeepInv, TruthInv, CleanInv, <1>5, CleanEndpoints
  <1>6. ASSUME Value PROVE CleanInv'
    BY ONLY TypeInv, KeepInv, TruthInv, CleanInv, <1>6, CleanConfig
  <1> QED BY ONLY TypeInv, KeepInv, TruthInv, CleanInv, [Next]_vars, Steps,
                  <1>1, <1>2, <1>3, <1>4, <1>5, <1>6, CleanReset,
                  CleanNegotiate, CleanAsk, CleanNcp, CleanSame, Zenon

LEMMA CleanAlways == Spec => []CleanInv
  <1>1. Init => KeepInv
    BY ONLY TRUE, Zenon DEF Init, KeepInv
  <1>2. Spec => []KeepInv
    BY <1>1, KeepStep, TypeAlways, PTL DEF Spec
  <1>3. Spec => []TruthInv
    BY <1>2, TruthInit, TruthStep, TypeAlways, PTL DEF Spec
  <1>4. Init => CleanInv
    <2> SUFFICES ASSUME Init PROVE CleanInv
      OBVIOUS
    <2>1. pc = "idle" /\ clean = FALSE
      BY ONLY Init, Zenon DEF Init
    <2> QED BY ONLY <2>1, Zenon DEF CleanInv, CleanSucceeds
  <1> QED BY <1>2, <1>3, <1>4, CleanStep, TypeAlways, PTL DEF Spec

(* With the endpoint numbers that Zigbee has, a command in which nothing   *)
(* goes wrong since its reset succeeds, but for what it cannot do; and it  *)
(* does so wherever the commands before it were interrupted.               *)
THEOREM CleanSucceedsTheorem ==
  ASSUME FewEndpoints PROVE Spec => []CleanSucceeds
  <1>1. CleanInv => CleanSucceeds
    BY ONLY FewEndpoints, Zenon DEF CleanInv
  <1> QED BY <1>1, CleanAlways, PTL

------------------------------------------------------------------------------
(* Listings.                                                               *)

IsList(s) == \E S : s \in Seq(S)

(* A line more.                                                            *)
LEMMA ListAppend ==
  ASSUME NEW s, IsList(s), NEW v
  PROVE  /\ IsList(Append(s, v))
         /\ Len(s) \in Nat /\ DOMAIN s = 1 .. Len(s)
         /\ Len(Append(s, v)) = Len(s) + 1
         /\ DOMAIN Append(s, v) = 1 .. Len(s) + 1
         /\ \A i \in 1 .. Len(s) : Append(s, v)[i] = s[i]
         /\ Append(s, v)[Len(s) + 1] = v
  <1>1. PICK S : s \in Seq(S)
    BY Zenon DEF IsList
  <1>2. PICK T : T = S \cup {v}
    BY ONLY TRUE, Zenon
  <1>3. s \in Seq(T)
    <2>1. /\ Len(s) \in Nat /\ DOMAIN s = 1 .. Len(s)
          /\ \A i \in 1 .. Len(s) : s[i] \in S
      BY ONLY <1>1, QueueType
    <2>2. s = [i \in 1 .. Len(s) |-> s[i]]
      BY ONLY <1>1
    <2>3. \A i \in 1 .. Len(s) : s[i] \in T
      BY ONLY <1>2, <2>1
    <2>4. s \in [1 .. Len(s) -> T]
      BY ONLY <2>2, <2>3
    <2> QED BY ONLY <2>1, <2>4, IsSeq
  <1>4. v \in T
    BY ONLY <1>2
  <1>5. /\ Append(s, v) \in Seq(T)
        /\ Len(s) \in Nat /\ DOMAIN s = 1 .. Len(s)
        /\ Len(Append(s, v)) = Len(s) + 1
        /\ DOMAIN Append(s, v) = 1 .. Len(s) + 1
        /\ \A i \in 1 .. Len(s) : Append(s, v)[i] = s[i]
        /\ Append(s, v)[Len(s) + 1] = v
    BY ONLY <1>3, <1>4, QueueAppend
  <1> QED BY ONLY <1>5, Zenon DEF IsList

(* s is the first n endpoints and m lines of the next.                     *)
Listed(s, n, m) ==
  \E at \in [0 .. n -> 0 .. Len(s)] :
    /\ at[0] = 0 /\ at[n] + m = Len(s)
    /\ \A k \in 1 .. n :
         /\ at[k] = at[k - 1] + Lines(Endpoints[k])
         /\ \A l \in 1 .. Lines(Endpoints[k]) :
              s[at[k - 1] + l] = ListedLine(Endpoints[k], l)
    /\ \A l \in 1 .. m : s[at[n] + l] = ListedLine(Endpoints[n + 1], l)

LEMMA ListedNone == Listed(<<>>, 0, 0)
  <1>1. PICK at : at = [k \in 0 .. 0 |-> 0]
    BY ONLY TRUE, Zenon
  <1>2. Len(<<>>) = 0
    BY ONLY TRUE
  <1>3. at \in [0 .. 0 -> 0 .. Len(<<>>)] /\ at[0] = 0
    BY ONLY <1>1, <1>2
  <1>4. at[0] + 0 = Len(<<>>)
    BY ONLY <1>2, <1>3
  <1>5. \A k \in 1 .. 0 : FALSE
    BY ONLY TRUE
  <1> QED BY ONLY <1>3, <1>4, <1>5, Zenon DEF Listed

LEMMA ListedLines ==
  /\ Endpoints \in Seq([ep : Byte, clusters : Seq(Seq(Word))])
  /\ DOMAIN Endpoints = 1 .. Len(Endpoints)
  /\ \A k \in DOMAIN Endpoints : Lines(Endpoints[k]) \in Nat \ {0}
  <1>1. Endpoints \in Seq([ep : Byte, clusters : Seq(Seq(Word))])
    BY NcpAssumption, Zenon
  <1>2. DOMAIN Endpoints = 1 .. Len(Endpoints)
    BY ONLY <1>1, QueueType
  <1>3. ASSUME NEW k \in DOMAIN Endpoints
        PROVE  Lines(Endpoints[k]) \in Nat \ {0}
    <2>1. PICK a \in Byte, b \in Byte :
            a = Len(Endpoints[k].clusters[1]) /\ b = Len(Endpoints[k].clusters[2])
      <3>1. 1 \in {1, 2} /\ 2 \in {1, 2}
        OBVIOUS
      <3> QED BY ONLY k \in DOMAIN Endpoints, <3>1, EndpointTypes, Zenon
    <2>2. Lines(Endpoints[k]) = 1 + a + b
      BY ONLY <2>1, Zenon DEF Lines
    <2> QED BY ONLY <2>2 DEF Byte
  <1> QED BY ONLY <1>1, <1>2, <1>3

(* The next line of an endpoint.                                           *)
LEMMA ListedMore ==
  ASSUME NEW s, IsList(s), NEW n \in Nat, n <= Len(Endpoints), NEW m \in Nat,
         Listed(s, n, m), NEW v, v = ListedLine(Endpoints[n + 1], m + 1)
  PROVE  Listed(Append(s, v), n, m + 1)
  <1>1. PICK t : t = Append(s, v)
    BY ONLY TRUE, Zenon
  <1>2. /\ Len(s) \in Nat /\ Len(t) = Len(s) + 1
        /\ \A i \in 1 .. Len(s) : t[i] = s[i]
        /\ t[Len(s) + 1] = v
    <2>1. /\ Len(s) \in Nat /\ Len(Append(s, v)) = Len(s) + 1
          /\ \A i \in 1 .. Len(s) : Append(s, v)[i] = s[i]
          /\ Append(s, v)[Len(s) + 1] = v
      BY ONLY IsList(s), ListAppend
    <2> QED BY ONLY <1>1, <2>1, Zenon
  <1>3. PICK at \in [0 .. n -> 0 .. Len(s)] :
          /\ at[0] = 0 /\ at[n] + m = Len(s)
          /\ \A k \in 1 .. n :
               /\ at[k] = at[k - 1] + Lines(Endpoints[k])
               /\ \A l \in 1 .. Lines(Endpoints[k]) :
                    s[at[k - 1] + l] = ListedLine(Endpoints[k], l)
          /\ \A l \in 1 .. m : s[at[n] + l] = ListedLine(Endpoints[n + 1], l)
    BY ONLY Listed(s, n, m), Zenon DEF Listed
  <1>4. at \in [0 .. n -> 0 .. Len(t)]
    BY ONLY at \in [0 .. n -> 0 .. Len(s)], <1>2
  <1>5. at[n] \in Nat
    BY ONLY at \in [0 .. n -> 0 .. Len(s)], n \in Nat
  <1>6. at[n] + (m + 1) = Len(t)
    BY ONLY <1>2, <1>3, <1>5, m \in Nat
  <1>7. ASSUME NEW k \in 1 .. n, NEW l \in 1 .. Lines(Endpoints[k])
        PROVE  t[at[k - 1] + l] = ListedLine(Endpoints[k], l)
    <2>1. /\ at[k - 1] \in Nat /\ at[k] \in 0 .. Len(s)
      BY ONLY at \in [0 .. n -> 0 .. Len(s)], n \in Nat, k \in 1 .. n, <1>2
    <2>2. Lines(Endpoints[k]) \in Nat
      <3>1. k \in 1 .. Len(Endpoints)
        <4>1. Len(Endpoints) \in Byte
          BY EndpointTypes
        <4> QED BY ONLY <4>1, k \in 1 .. n, n \in Nat, n <= Len(Endpoints)
                DEF Byte
      <3> QED BY ONLY <3>1, ListedLines
    <2>3. PICK w \in Nat : w = Lines(Endpoints[k])
      BY ONLY <2>2, Zenon
    <2>4. /\ at[k] = at[k - 1] + w
          /\ s[at[k - 1] + l] = ListedLine(Endpoints[k], l)
      BY ONLY <1>3, <2>3, k \in 1 .. n, l \in 1 .. Lines(Endpoints[k]), Zenon
    <2>5. l \in 1 .. w
      BY ONLY <2>3, l \in 1 .. Lines(Endpoints[k]), Zenon
    <2>6. at[k - 1] + l \in 1 .. Len(s)
      BY ONLY <1>2, <2>1, <2>4, <2>5
    <2> QED BY ONLY <1>2, <2>4, <2>6, Zenon
  <1>8. ASSUME NEW l \in 1 .. m + 1
        PROVE  t[at[n] + l] = ListedLine(Endpoints[n + 1], l)
    <2>1. CASE l = m + 1
      <3>1. at[n] + l = Len(s) + 1
        <4>1. PICK x \in Nat : x = at[n]
          BY ONLY <1>5, Zenon
        <4>2. Len(s) \in Nat /\ x + m = Len(s)
          BY ONLY <1>2, <1>3, <4>1, Zenon
        <4>3. x + l = Len(s) + 1
          BY ONLY <2>1, <4>2, x \in Nat, m \in Nat
        <4> QED BY ONLY <4>1, <4>3, Zenon
      <3>2. t[at[n] + l] = v
        BY ONLY <1>2, <3>1, Zenon
      <3>3. v = ListedLine(Endpoints[n + 1], l)
        BY ONLY <2>1, v = ListedLine(Endpoints[n + 1], m + 1)
      <3> QED BY ONLY <3>2, <3>3, Zenon
    <2>2. CASE l # m + 1
      <3>1. l \in 1 .. m /\ at[n] + l \in 1 .. Len(s)
        BY ONLY <1>2, <1>3, <1>5, <2>2, m \in Nat, l \in 1 .. m + 1
      <3> QED BY ONLY <1>2, <1>3, <3>1, Zenon
    <2> QED BY ONLY <2>1, <2>2
  <1> QED BY ONLY <1>1, <1>3, <1>4, <1>6, <1>7, <1>8, Zenon DEF Listed

(* After its last line an endpoint is listed.                              *)
LEMMA ListedNext ==
  ASSUME NEW s, IsList(s), NEW n \in Nat, n < Len(Endpoints),
         Listed(s, n, Lines(Endpoints[n + 1]))
  PROVE  Listed(s, n + 1, 0)
  <1>1. Len(s) \in Nat
    BY ONLY IsList(s), ListAppend, Zenon
  <1>2. PICK m \in Nat : m = Lines(Endpoints[n + 1])
    <2>1. n + 1 \in 1 .. Len(Endpoints)
      <3>1. Len(Endpoints) \in Byte
        BY EndpointTypes
      <3> QED BY ONLY <3>1, n \in Nat, n < Len(Endpoints) DEF Byte
    <2> QED BY ONLY <2>1, ListedLines
  <1>3. Listed(s, n, m)
    BY ONLY Listed(s, n, Lines(Endpoints[n + 1])), <1>2, Zenon
  <1>4. PICK at \in [0 .. n -> 0 .. Len(s)] :
          /\ at[0] = 0 /\ at[n] + m = Len(s)
          /\ \A k \in 1 .. n :
               /\ at[k] = at[k - 1] + Lines(Endpoints[k])
               /\ \A l \in 1 .. Lines(Endpoints[k]) :
                    s[at[k - 1] + l] = ListedLine(Endpoints[k], l)
          /\ \A l \in 1 .. m : s[at[n] + l] = ListedLine(Endpoints[n + 1], l)
    BY ONLY <1>3, Zenon DEF Listed
  <1>5. PICK ab : ab = [k \in 0 .. n + 1 |-> IF k = n + 1 THEN Len(s) ELSE at[k]]
    BY ONLY TRUE, Zenon
  <1>6. \A k \in 0 .. n : k \in 0 .. n + 1 /\ k # n + 1
    BY ONLY n \in Nat
  <1>7. /\ ab[n + 1] = Len(s) /\ \A k \in 0 .. n : ab[k] = at[k]
    <2>1. n + 1 \in 0 .. n + 1
      BY ONLY n \in Nat
    <2> QED BY ONLY <1>5, <1>6, <2>1, Zenon
  <1>8. ab \in [0 .. n + 1 -> 0 .. Len(s)]
    <2>1. \A k \in 0 .. n + 1 : k = n + 1 \/ k \in 0 .. n
      BY ONLY n \in Nat
    <2>2. Len(s) \in 0 .. Len(s)
      BY ONLY <1>1
    <2>3. \A k \in 0 .. n + 1 : ab[k] \in 0 .. Len(s)
      BY ONLY at \in [0 .. n -> 0 .. Len(s)], <1>7, <2>1, <2>2
    <2>4. DOMAIN ab = 0 .. n + 1
      BY ONLY <1>5
    <2>5. ab = [k \in 0 .. n + 1 |-> ab[k]]
      BY ONLY <1>5, <2>4
    <2> QED BY ONLY <2>3, <2>5
  <1>9. ab[0] = 0
    <2>1. 0 \in 0 .. n
      BY ONLY n \in Nat
    <2> QED BY ONLY <1>4, <1>7, <2>1, Zenon
  <1>10. ab[n + 1] + 0 = Len(s)
    BY ONLY <1>1, <1>7
  <1>11. ASSUME NEW k \in 1 .. n + 1
         PROVE  /\ ab[k] = ab[k - 1] + Lines(Endpoints[k])
                /\ \A l \in 1 .. Lines(Endpoints[k]) :
                     s[ab[k - 1] + l] = ListedLine(Endpoints[k], l)
    <2>1. CASE k = n + 1
      <3>1. k - 1 = n /\ n \in 0 .. n
        BY ONLY <2>1, n \in Nat
      <3>2. ab[k - 1] = at[n] /\ ab[k] = at[n] + m
        BY ONLY <1>4, <1>7, <2>1, <3>1, Zenon
      <3> QED BY ONLY <1>2, <1>4, <2>1, <3>2, Zenon
    <2>2. CASE k # n + 1
      <3>1. k \in 1 .. n /\ k - 1 \in 0 .. n /\ k \in 0 .. n
        BY ONLY <2>2, n \in Nat, k \in 1 .. n + 1
      <3>2. ab[k] = at[k] /\ ab[k - 1] = at[k - 1]
        BY ONLY <1>7, <3>1, Zenon
      <3> QED BY ONLY <1>4, <3>1, <3>2, Zenon
    <2> QED BY ONLY <2>1, <2>2
  <1>12. \A l \in 1 .. 0 : FALSE
    BY ONLY TRUE
  <1> QED BY ONLY <1>8, <1>9, <1>10, <1>11, <1>12, Zenon DEF Listed

LEMMA ListedAll ==
  ASSUME NEW s, IsList(s), NEW n \in Nat, Listed(s, n, 0)
  PROVE  ListsEndpoints(s, n)
  <1>1. Len(s) \in Nat
    BY ONLY IsList(s), ListAppend, Zenon
  <1>2. PICK at \in [0 .. n -> 0 .. Len(s)] :
          /\ at[0] = 0 /\ at[n] + 0 = Len(s)
          /\ \A k \in 1 .. n :
               /\ at[k] = at[k - 1] + Lines(Endpoints[k])
               /\ \A l \in 1 .. Lines(Endpoints[k]) :
                    s[at[k - 1] + l] = ListedLine(Endpoints[k], l)
    BY ONLY Listed(s, n, 0), Zenon DEF Listed
  <1>3. at[n] = Len(s)
    <2>1. at[n] \in Nat
      BY ONLY at \in [0 .. n -> 0 .. Len(s)], n \in Nat
    <2> QED BY ONLY <1>1, <1>2, <2>1
  <1> QED BY ONLY at \in [0 .. n -> 0 .. Len(s)], <1>2, <1>3, Zenon
          DEF ListsEndpoints

(* The lines so far of the endpoint it.i + 1.                              *)
Position(it) == 1 + it.j + IF it.list = 2 THEN it.counts[1] ELSE 0

(* s lists the endpoints up to the one that is asked for.                  *)
Between(it, s) ==
  /\ it.n = Len(Endpoints) /\ it.list = 1 /\ it.j = 0
  /\ Listed(s, it.i, 0)

(* s lists those before the one that is being listed, and what of this one *)
(* was read.                                                               *)
Within(it, s) ==
  LET e == Endpoints[it.i + 1] IN
  /\ it.n = Len(Endpoints) /\ it.i < it.n
  /\ it.ep = e.ep
  /\ it.counts = <<Len(e.clusters[1]), Len(e.clusters[2])>>
  /\ it.j <= it.counts[it.list]
  /\ Listed(s, it.i, Position(it))

(* The endpoint that is being listed.                                      *)
LEMMA ListedHere ==
  ASSUME NEW it \in Item, NEW s, Within(it, s)
  PROVE  \E a \in Byte, b \in Byte :
           /\ it.i + 1 \in DOMAIN Endpoints
           /\ a = Len(Endpoints[it.i + 1].clusters[1])
           /\ b = Len(Endpoints[it.i + 1].clusters[2])
           /\ it.counts[1] = a /\ it.counts[2] = b
           /\ Lines(Endpoints[it.i + 1]) = 1 + a + b
  <1>1. PICK k : k = it.i + 1
    BY ONLY TRUE, Zenon
  <1>2. k \in DOMAIN Endpoints
    <2>1. Len(Endpoints) \in Byte /\ DOMAIN Endpoints = 1 .. Len(Endpoints)
      BY EndpointTypes, ListedLines, Zenon
    <2>2. it.i \in Byte
      BY ONLY it \in Item, ItemType
    <2>3. it.n = Len(Endpoints) /\ it.i < it.n
      BY ONLY Within(it, s), Zenon DEF Within
    <2>4. PICK i \in Byte, n \in Byte : i = it.i /\ n = Len(Endpoints)
      BY ONLY <2>1, <2>2, Zenon
    <2>5. k = i + 1 /\ i < n /\ DOMAIN Endpoints = 1 .. n
      BY ONLY <1>1, <2>1, <2>3, <2>4, Zenon
    <2>6. k \in 1 .. n
      BY ONLY <2>5, i \in Byte, n \in Byte DEF Byte
    <2> QED BY ONLY <2>5, <2>6, Zenon
  <1>3. PICK a \in Byte, b \in Byte :
          a = Len(Endpoints[k].clusters[1]) /\ b = Len(Endpoints[k].clusters[2])
    <2>1. 1 \in {1, 2} /\ 2 \in {1, 2}
      OBVIOUS
    <2> QED BY ONLY <1>2, <2>1, EndpointTypes, Zenon
  <1>4. it.counts = <<a, b>>
    BY ONLY Within(it, s), <1>1, <1>3, Zenon DEF Within
  <1>5. it.counts[1] = a /\ it.counts[2] = b
    BY ONLY <1>4
  <1>6. Lines(Endpoints[k]) = 1 + a + b
    BY ONLY <1>3, Zenon DEF Lines
  <1> QED BY ONLY <1>1, <1>2, <1>3, <1>5, <1>6, a \in Byte, b \in Byte, Zenon

(* What is next is a cluster of the same endpoint, or the next endpoint.   *)
LEMMA NextListed ==
  ASSUME NEW it \in Item, NEW s, IsList(s), Within(it, s),
         NEW nx, nx = NextCluster(it)
  PROVE  /\ nx \in Item
         /\ \/ More(nx) /\ Within(nx, s)
            \/ ~More(nx) /\ Between(nx, s) /\ nx.i <= nx.n
  <1>1. /\ it.n \in Number /\ it.i \in Byte /\ it.list \in Lists
        /\ it.j \in Byte /\ it.ep \in Byte
    BY ONLY it \in Item, ItemType
  <1>2. PICK a \in Byte, b \in Byte :
          /\ it.i + 1 \in DOMAIN Endpoints
          /\ a = Len(Endpoints[it.i + 1].clusters[1])
          /\ b = Len(Endpoints[it.i + 1].clusters[2])
          /\ it.counts[1] = a /\ it.counts[2] = b
          /\ Lines(Endpoints[it.i + 1]) = 1 + a + b
    BY ONLY it \in Item, Within(it, s), ListedHere
  <1>3. /\ it.n = Len(Endpoints) /\ it.i < it.n
        /\ it.j <= it.counts[it.list]
        /\ Listed(s, it.i, Position(it))
    BY ONLY Within(it, s), Zenon DEF Within
  <1>4. nx \in Item
    BY ONLY it \in Item, <1>3, NextItem, nx = NextCluster(it), Zenon
  <1>5. CASE More(it)
    <2>1. nx = it
      BY ONLY <1>5, nx = NextCluster(it), Zenon DEF NextCluster
    <2> QED BY ONLY <1>4, <1>5, <2>1, Within(it, s), Zenon
  <1>6. CASE ~More(it) /\ it.list = 1 /\ it.counts[2] > 0
    <2>1. nx = [it EXCEPT !.list = 2, !.j = 0]
      BY ONLY <1>6, nx = NextCluster(it), Zenon DEF NextCluster
    <2>2. /\ nx.n = it.n /\ nx.i = it.i /\ nx.ep = it.ep
          /\ nx.counts = it.counts /\ nx.list = 2 /\ nx.j = 0
      BY ONLY <2>1, it \in Item DEF Item
    <2>3. More(nx) /\ nx.j <= nx.counts[nx.list]
      <3>1. ~(b = 0)
        BY ONLY <1>2, <1>6
      <3>2. 0 < b /\ 0 <= b
        BY ONLY b \in Byte, <3>1 DEF Byte
      <3> QED BY ONLY <1>2, <2>2, <3>2, Zenon DEF More
    <2>4. Position(nx) = Position(it)
      <3>1. ~(it.j < a) /\ it.j <= a
        BY ONLY <1>2, <1>3, <1>6, Zenon DEF More
      <3>2. it.j = a
        BY ONLY <1>1, <3>1, a \in Byte DEF Byte
      <3>3. Position(nx) = 1 + 0 + a
        BY ONLY <1>2, <2>2, Zenon DEF Position
      <3>4. Position(it) = 1 + a + 0
        <4>1. it.list # 2
          BY ONLY <1>6
        <4> QED BY ONLY <3>2, <4>1, Zenon DEF Position
      <3> QED BY ONLY <3>3, <3>4, a \in Byte DEF Byte
    <2>5. Within(nx, s)
      BY ONLY Within(it, s), <2>2, <2>3, <2>4, Zenon DEF Within
    <2> QED BY ONLY <1>4, <2>3, <2>5
  <1>7. CASE ~More(it) /\ ~(it.list = 1 /\ it.counts[2] > 0)
    <2>1. nx = NextEndpoint(it)
      BY ONLY <1>7, nx = NextCluster(it), Zenon DEF NextCluster
    <2>2. nx.n = it.n /\ nx.i = it.i + 1 /\ nx.list = 1 /\ nx.j = 0
      BY ONLY <2>1 DEF NextEndpoint, NoItem
    <2>3. ~More(nx)
      BY ONLY it \in Item, <1>3, <2>1, NextItem, Zenon
    <2>4. nx.i <= nx.n
      <3>1. PICK i \in Byte, n \in Number : i = it.i /\ n = it.n
        BY ONLY <1>1, Zenon
      <3>2. i < n
        BY ONLY <1>3, <3>1, Zenon
      <3>3. i + 1 <= n
        BY ONLY <3>2, i \in Byte, n \in Number DEF Byte, Number
      <3> QED BY ONLY <2>2, <3>1, <3>3, Zenon
    <2>5. Position(it) = 1 + a + b
      <3>1. CASE it.list = 1
        <4>1. ~(it.j < a) /\ it.j <= a
          BY ONLY <1>2, <1>3, <1>7, <3>1, Zenon DEF More
        <4>2. it.j = a
          BY ONLY <1>1, <4>1, a \in Byte DEF Byte
        <4>3. ~(b > 0)
          BY ONLY <1>2, <1>7, <3>1, Zenon
        <4>4. b = 0
          BY ONLY <4>3, b \in Byte DEF Byte
        <4>5. it.list # 2
          BY ONLY <3>1
        <4> QED BY ONLY <4>2, <4>4, <4>5, Zenon DEF Position
      <3>2. CASE it.list = 2
        <4>1. ~(it.j < b) /\ it.j <= b
          BY ONLY <1>2, <1>3, <1>7, <3>2, Zenon DEF More
        <4>2. it.j = b
          BY ONLY <1>1, <4>1, b \in Byte DEF Byte
        <4>3. Position(it) = 1 + b + a
          BY ONLY <1>2, <3>2, <4>2, Zenon DEF Position
        <4> QED BY ONLY <4>3, a \in Byte, b \in Byte DEF Byte
      <3> QED BY ONLY <1>1, <3>1, <3>2 DEF Lists
    <2>6. Listed(s, it.i, Lines(Endpoints[it.i + 1]))
      BY ONLY <1>2, <1>3, <2>5, Zenon
    <2>7. Listed(s, it.i + 1, 0)
      <3>1. \A i \in Byte : i \in Nat
        BY ONLY TRUE DEF Byte
      <3>2. it.i \in Nat /\ it.i < Len(Endpoints)
        BY ONLY <1>1, <1>3, <3>1, Zenon
      <3> QED BY ONLY IsList(s), <2>6, <3>2, ListedNext, Zenon
    <2>8. Between(nx, s)
      BY ONLY <1>3, <2>2, <2>7, Zenon DEF Between
    <2> QED BY ONLY <1>4, <2>3, <2>4, <2>8
  <1> QED BY ONLY <1>5, <1>6, <1>7, Zenon

(* Where a listing of the endpoints is, and what it listed when it ends.   *)
EndpointsHeld ==
  /\ pc \in {"endpoint", "description"} => Between(item, shown)
  /\ pc = "description" => item.ep = Endpoints[item.i + 1].ep
  /\ pc = "cluster" => Within(item, shown)
  /\ pc = "idle" /\ exit = "ok" => ListsEndpoints(shown, Len(Endpoints))

LEMMA LoopLists ==
  ASSUME NEW CONSTANT it \in Item, Loop(it), IsList(shown'),
         \/ More(it) /\ Within(it, shown')
         \/ ~More(it) /\ Between(it, shown') /\ it.i <= it.n
  PROVE  EndpointsHeld'
  <1>1. PICK s : s = shown'
    BY ONLY TRUE, Zenon
  <1>2. item' = it
    BY ONLY Loop(it), Zenon DEF Loop
  <1>3. CASE More(it) /\ Within(it, s)
    <2>1. pc' = "cluster"
      BY ONLY Loop(it), <1>3, Zenon DEF Loop, GoTo
    <2>2. Within(item, shown)'
      BY ONLY <1>1, <1>2, <1>3, Zenon
    <2> QED BY ONLY <2>1, <2>2 DEF EndpointsHeld
  <1>4. CASE ~More(it) /\ Between(it, s) /\ it.i <= it.n
    <2>1. \/ pc' = "endpoint"
          \/ pc' = "idle" /\ ~(it.i < it.n)
      BY ONLY Loop(it), <1>4, Zenon DEF Loop, GoTo, Exit
    <2>2. CASE pc' = "endpoint"
      <3>1. Between(item, shown)'
        BY ONLY <1>1, <1>2, <1>4, Zenon
      <3> QED BY ONLY <2>2, <3>1 DEF EndpointsHeld
    <2>3. CASE pc' = "idle" /\ ~(it.i < it.n)
      <3>1. it.i \in Byte /\ it.n \in Number
        BY ONLY it \in Item, ItemType
      <3>2. it.i = it.n /\ it.i \in Nat
        <4>1. PICK i \in Byte, n \in Number : i = it.i /\ n = it.n
          BY ONLY <3>1, Zenon
        <4>2. ~(i < n) /\ i <= n
          BY ONLY <1>4, <2>3, <4>1, Zenon
        <4>3. i = n /\ i \in Nat
          BY ONLY <4>2, i \in Byte, n \in Number DEF Byte, Number
        <4> QED BY ONLY <4>1, <4>3, Zenon
      <3>3. Listed(s, it.i, 0) /\ it.n = Len(Endpoints)
        BY ONLY <1>4, Zenon DEF Between
      <3>4. ListsEndpoints(s, it.i)
        BY ONLY IsList(shown'), <1>1, <3>2, <3>3, ListedAll, Zenon
      <3>5. ListsEndpoints(shown, Len(Endpoints))'
        BY ONLY <1>1, <3>2, <3>3, <3>4, Zenon
      <3> QED BY ONLY <2>3, <3>5 DEF EndpointsHeld
    <2> QED BY ONLY <2>1, <2>2, <2>3, Zenon
  <1> QED BY ONLY <1>1, <1>3, <1>4, Zenon,
                  \/ More(it) /\ Within(it, shown')
                  \/ ~More(it) /\ Between(it, shown') /\ it.i <= it.n

------------------------------------------------------------------------------
(* What the endpoints command reads.                                       *)

(* No two endpoints have the same number, by which they are asked for      *)
(* (ezsp.go:451, 477).                                                     *)
DistinctEndpoints ==
  \A k, m \in DOMAIN Endpoints : Endpoints[k].ep = Endpoints[m].ep => k = m

LEMMA EndpointAnswers ==
  ASSUME NEW p
  PROVE  /\ Answer(frameIDGetEndpoint, p) =
              IF p[1] < Len(Endpoints) THEN <<0, Endpoints[p[1] + 1].ep>>
              ELSE <<1>>
         /\ DistinctEndpoints =>
              \A k \in DOMAIN Endpoints : p[1] = Endpoints[k].ep =>
                /\ Answer(frameIDGetEndpointDescription, p) =
                     <<0>> \o PutUint16(260) \o PutUint16(5)
                       \o <<1, Len(Endpoints[k].clusters[1]),
                            Len(Endpoints[k].clusters[2])>>
                /\ Answer(frameIDGetEndpointCluster, p) =
                     IF p[3] < Len(Endpoints[k].clusters[p[2] + 1])
                     THEN <<0>> \o
                       PutUint16(Endpoints[k].clusters[p[2] + 1][p[3] + 1])
                     ELSE <<1>>
  <1>1. PICK A, B, C :
          /\ A = frameIDGetEndpoint /\ B = frameIDGetEndpointDescription
          /\ C = frameIDGetEndpointCluster
          /\ {A, B, C} \cap {frameIDNetworkState, frameIDGetNodeID,
               frameIDGetEUI64, frameIDGetNetworkParameters,
               frameIDGetConfigurationValue, frameIDGetEndpointCount} = {}
          /\ A # B /\ A # C /\ B # C
    BY ONLY TRUE, SMT
       DEF frameIDNetworkState, frameIDGetNodeID, frameIDGetEUI64,
           frameIDGetNetworkParameters, frameIDGetConfigurationValue,
           frameIDGetEndpointCount, frameIDGetEndpoint,
           frameIDGetEndpointDescription, frameIDGetEndpointCluster
  <1>2. \A f \in {A, B, C} :
          f \notin {frameIDNetworkState, frameIDGetNodeID, frameIDGetEUI64,
            frameIDGetNetworkParameters, frameIDGetConfigurationValue,
            frameIDGetEndpointCount}
    BY ONLY <1>1
  <1>3. Answer(A, p) =
          IF p[1] < Len(Endpoints) THEN <<0, Endpoints[p[1] + 1].ep>>
          ELSE <<1>>
    BY ONLY <1>1, <1>2, Zenon DEF Answer
  <1>4. ASSUME DistinctEndpoints, NEW k \in DOMAIN Endpoints,
               p[1] = Endpoints[k].ep
        PROVE  /\ Answer(B, p) =
                    <<0>> \o PutUint16(260) \o PutUint16(5)
                      \o <<1, Len(Endpoints[k].clusters[1]),
                           Len(Endpoints[k].clusters[2])>>
               /\ Answer(C, p) =
                    IF p[3] < Len(Endpoints[k].clusters[p[2] + 1])
                    THEN <<0>> \o
                      PutUint16(Endpoints[k].clusters[p[2] + 1][p[3] + 1])
                    ELSE <<1>>
    <2> DEFINE of == {m \in DOMAIN Endpoints : Endpoints[m].ep = p[1]}
               e == Endpoints[CHOOSE m \in of : TRUE]
    <2>1. Answer(B, p) = IF of = {} THEN <<1>>
                         ELSE <<0>> \o PutUint16(260) \o PutUint16(5) \o
                              <<1, Len(e.clusters[1]), Len(e.clusters[2])>>
      BY ONLY <1>1, <1>2, Zenon DEF Answer
    <2>2. Answer(C, p) = IF of = {} THEN <<1>>
                         ELSE IF p[3] < Len(e.clusters[p[2] + 1])
                         THEN <<0>> \o
                           PutUint16(e.clusters[p[2] + 1][p[3] + 1])
                         ELSE <<1>>
      BY ONLY <1>1, <1>2, Zenon DEF Answer
    <2>3. k \in of /\ of # {}
      BY ONLY <1>4, Zenon
    <2>4. \A m \in of : m = k
      BY ONLY <1>4, Zenon DEF DistinctEndpoints
    <2>5. (CHOOSE m \in of : TRUE) = k
      <3> HIDE DEF of
      <3> QED BY ONLY <2>3, <2>4, Zenon
    <2>6. e = Endpoints[k]
      BY ONLY <2>5, Zenon
    <2> HIDE DEF of, e
    <2> QED BY ONLY <2>1, <2>2, <2>3, <2>6, Zenon
  <1> QED BY ONLY <1>1, <1>3, <1>4, Zenon

(* Two sequences of known lengths.                                         *)
IsCat(c, s, m, t, n) ==
  /\ c \in Seq(Byte) /\ Len(c) = m + n
  /\ \A i \in 1 .. m : c[i] = s[i]
  /\ \A i \in 1 .. n : c[m + i] = t[i]

LEMMA CatParts ==
  ASSUME NEW s, s \in Seq(Byte), NEW t, t \in Seq(Byte),
         NEW m, Len(s) = m, NEW n, Len(t) = n, NEW c, c = Cat(s, t)
  PROVE  IsCat(c, s, m, t, n)
  <1>1. Cat(s, t) \in Seq(Byte) /\ Len(Cat(s, t)) = Len(s) + Len(t)
    BY ONLY s \in Seq(Byte), t \in Seq(Byte), CatLen, Zenon
  <1>2. \A i \in 1 .. Len(s) : Cat(s, t)[i] = s[i]
    BY ONLY s \in Seq(Byte), t \in Seq(Byte), CatLeft, Zenon
  <1>3. \A i \in 1 .. Len(t) : Cat(s, t)[Len(s) + i] = t[i]
    BY ONLY s \in Seq(Byte), t \in Seq(Byte), CatRight, Zenon
  <1> QED BY ONLY <1>1, <1>2, <1>3, Len(s) = m, Len(t) = n, c = Cat(s, t),
                  Zenon DEF IsCat

(* An endpoint's description, with its profile.                            *)
Describes(r, p, a, b) ==
  \E v : /\ r = Ok(v) /\ v.profileID = p
         /\ v.inputClusterCount = a /\ v.outputClusterCount = b

DescriptionBytes(p, h, a, b) ==
  <<0>> \o PutUint16(p) \o PutUint16(h) \o <<1, a, b>>

LEMMA DescriptionTold ==
  ASSUME NEW p \in Word, NEW h \in Int, NEW a \in Byte, NEW b \in Byte,
         NEW d, d = DescriptionBytes(p, h, a, b)
  PROVE  Describes(GetEndpointDescription(d), p, a, b)
  <1>1. PICK z, u, w, t :
          /\ z = <<0>> /\ u = PutUint16(p) /\ w = PutUint16(h)
          /\ t = <<1, a, b>>
    BY ONLY TRUE, Zenon
  <1>2. PICK x, y : x = Cat(z, u) /\ y = Cat(x, w)
    BY ONLY TRUE, Zenon
  <1>3. d = Cat(y, t)
    BY ONLY <1>1, <1>2, d = DescriptionBytes(p, h, a, b), Zenon
       DEF Cat, DescriptionBytes
  <1>4. z \in Seq(Byte) /\ Len(z) = 1 /\ z[1] = 0
    <2>1. z \in Seq(Byte)
      BY ONLY <1>1, StatusBytes, Zenon
    <2> QED BY ONLY <1>1, <2>1
  <1>5. p \in Int
    BY ONLY p \in Word DEF Word
  <1>6. /\ u \in Seq(Byte) /\ Len(u) = 2 /\ w \in Seq(Byte) /\ Len(w) = 2
        /\ u[1] = Low(p) /\ u[2] = High(p)
    <2>1. /\ u \in Seq(Byte) /\ Len(u) = 2 /\ u[1] = Low(p) /\ u[2] = High(p)
      BY ONLY <1>1, <1>5, PutUint16Bytes, Zenon
    <2>2. w \in Seq(Byte) /\ Len(w) = 2
      BY ONLY <1>1, h \in Int, PutUint16Bytes, Zenon
    <2> QED BY ONLY <2>1, <2>2, Zenon
  <1>7. /\ t \in Seq(Byte) /\ Len(t) = 3 /\ t[2] = a /\ t[3] = b
    <2>1. 1 \in Byte
      BY ONLY TRUE DEF Byte
    <2> QED BY ONLY <1>1, <2>1, a \in Byte, b \in Byte, Triple
  <1>8. /\ x \in Seq(Byte) /\ Len(x) = 3
        /\ x[1] = 0 /\ x[2] = u[1] /\ x[3] = u[2]
    <2>1. z \in Seq(Byte) /\ u \in Seq(Byte) /\ Len(z) = 1 /\ Len(u) = 2
          /\ x = Cat(z, u)
      BY ONLY <1>2, <1>4, <1>6, Zenon
    <2>2. IsCat(x, z, 1, u, 2)
      BY ONLY <2>1, CatParts, Zenon
    <2>3. /\ x \in Seq(Byte) /\ Len(x) = 3
          /\ x[1] = z[1] /\ x[1 + 1] = u[1] /\ x[1 + 2] = u[2]
      BY ONLY <2>2 DEF IsCat
    <2>4. z[1] = 0
      BY ONLY <1>4, Zenon
    <2> QED BY ONLY <2>3, <2>4
  <1>9. /\ y \in Seq(Byte) /\ Len(y) = 5
        /\ y[1] = x[1] /\ y[2] = x[2] /\ y[3] = x[3]
    <2>1. x \in Seq(Byte) /\ w \in Seq(Byte) /\ Len(x) = 3 /\ Len(w) = 2
          /\ y = Cat(x, w)
      BY ONLY <1>2, <1>6, <1>8, Zenon
    <2>2. IsCat(y, x, 3, w, 2)
      BY ONLY <2>1, CatParts, Zenon
    <2> QED BY ONLY <2>2 DEF IsCat
  <1>10. /\ Len(d) = 8 /\ d[1] = y[1] /\ d[2] = y[2] /\ d[3] = y[3]
         /\ d[7] = a /\ d[8] = b
    <2>1. y \in Seq(Byte) /\ t \in Seq(Byte) /\ Len(y) = 5 /\ Len(t) = 3
          /\ d = Cat(y, t)
      BY ONLY <1>3, <1>7, <1>9, Zenon
    <2>2. IsCat(d, y, 5, t, 3)
      BY ONLY <2>1, CatParts, Zenon
    <2>3. /\ Len(d) = 8 /\ d[1] = y[1] /\ d[2] = y[2] /\ d[3] = y[3]
          /\ d[5 + 2] = t[2] /\ d[5 + 3] = t[3]
      BY ONLY <2>2 DEF IsCat
    <2>4. t[2] = a /\ t[3] = b
      BY ONLY <1>7, Zenon
    <2> QED BY ONLY <2>3, <2>4
  <1>11. d[1] = 0 /\ d[2] = Low(p) /\ d[2 + 1] = High(p)
    BY ONLY <1>6, <1>8, <1>9, <1>10
  <1>12. Uint16(d, 2) = p
    <2>1. 2 \in Int
      BY ONLY TRUE
    <2> QED BY ONLY p \in Word, <1>11, <2>1, Uint16Read
  <1>13. ~(Len(d) < 8) /\ ~(d[1] # 0)
    BY ONLY <1>10, <1>11
  <1>14. PICK v : v = [profileID |-> Uint16(d, 2), deviceID |-> Uint16(d, 4),
                       deviceVersion |-> d[6],
                       inputClusterCount |-> d[7],
                       outputClusterCount |-> d[8]]
    BY ONLY TRUE, Zenon
  <1>15. /\ v.profileID = p /\ v.inputClusterCount = a
         /\ v.outputClusterCount = b
    BY ONLY <1>10, <1>12, <1>14
  <1>16. GetEndpointDescription(d) = Ok(v)
    BY ONLY <1>13, <1>14, Zenon DEF GetEndpointDescription
  <1> QED BY ONLY <1>15, <1>16, Zenon DEF Describes

LEMMA CountRead ==
  ASSUME AnsweredTruly, pc = "count", GetEndpointCount(Answered).ok
  PROVE  GetEndpointCount(Answered).v = Len(Endpoints)
  <1>1. PICK f, q : f = Request(0)[1] /\ q = Request(0)[2]
    BY ONLY TRUE, Zenon
  <1>2. Answered = Answer(f, q)
    BY ONLY AnsweredTruly, <1>1, Zenon DEF AnsweredTruly
  <1>3. f = frameIDGetEndpointCount
    BY ONLY pc = "count", <1>1, PlaceRequests, Zenon
  <1>4. PICK n : n = Len(Endpoints)
    BY ONLY TRUE, Zenon
  <1>5. Answered = <<0, n>>
    BY ONLY <1>2, <1>3, <1>4, CountAnswers, Zenon
  <1>6. GetEndpointCount(<<0, n>>).ok => GetEndpointCount(<<0, n>>).v = n
    BY ONLY TRUE DEF GetEndpointCount, Ok, Err
  <1> QED BY ONLY GetEndpointCount(Answered).ok, <1>4, <1>5, <1>6, Zenon

LEMMA EndpointRead ==
  ASSUME AnsweredTruly, pc = "endpoint", item.i < Len(Endpoints)
  PROVE  GetEndpoint(Answered) = Ok(Endpoints[item.i + 1].ep)
  <1>1. PICK f, q : f = Request(0)[1] /\ q = Request(0)[2]
    BY ONLY TRUE, Zenon
  <1>2. Answered = Answer(f, q)
    BY ONLY AnsweredTruly, <1>1, Zenon DEF AnsweredTruly
  <1>3. f = frameIDGetEndpoint
    BY ONLY pc = "endpoint", <1>1, PlaceRequests, Zenon
  <1>4. q[1] = item.i
    <2>1. Request(0) = <<frameIDGetEndpoint, <<item.i>>>>
      BY ONLY pc = "endpoint" DEF Request
    <2>2. PICK i : i = item.i
      BY ONLY TRUE, Zenon
    <2> QED BY ONLY <1>1, <2>1, <2>2
  <1>5. PICK n : n = Endpoints[item.i + 1].ep
    BY ONLY TRUE, Zenon
  <1>6. Answered = <<0, n>>
    BY ONLY <1>2, <1>3, <1>4, <1>5, item.i < Len(Endpoints), EndpointAnswers,
            Zenon
  <1>7. GetEndpoint(<<0, n>>) = Ok(n)
    BY ONLY TRUE DEF GetEndpoint
  <1> QED BY ONLY <1>5, <1>6, <1>7, Zenon

LEMMA DescriptionRead ==
  ASSUME AnsweredTruly, pc = "description", DistinctEndpoints,
         NEW k \in DOMAIN Endpoints, item.ep = Endpoints[k].ep
  PROVE  LET r == GetEndpointDescription(Answered) IN
         /\ r.ok /\ r.v.profileID = 260
         /\ r.v.inputClusterCount = Len(Endpoints[k].clusters[1])
         /\ r.v.outputClusterCount = Len(Endpoints[k].clusters[2])
  <1>1. PICK f, q : f = Request(0)[1] /\ q = Request(0)[2]
    BY ONLY TRUE, Zenon
  <1>2. Answered = Answer(f, q)
    BY ONLY AnsweredTruly, <1>1, Zenon DEF AnsweredTruly
  <1>3. f = frameIDGetEndpointDescription
    BY ONLY pc = "description", <1>1, PlaceRequests, Zenon
  <1>4. q[1] = item.ep
    <2>1. Request(0) = <<frameIDGetEndpointDescription, <<item.ep>>>>
      BY ONLY pc = "description" DEF Request
    <2>2. PICK i : i = item.ep
      BY ONLY TRUE, Zenon
    <2> QED BY ONLY <1>1, <2>1, <2>2
  <1>5. PICK a \in Byte, b \in Byte :
          a = Len(Endpoints[k].clusters[1]) /\ b = Len(Endpoints[k].clusters[2])
    <2>1. 1 \in {1, 2} /\ 2 \in {1, 2}
      OBVIOUS
    <2> QED BY ONLY k \in DOMAIN Endpoints, <2>1, EndpointTypes, Zenon
  <1>6. PICK p \in Word, h \in Int : p = 260 /\ h = 5
    BY ONLY TRUE DEF Word
  <1>7. PICK d : d = DescriptionBytes(p, h, a, b)
    BY ONLY TRUE, Zenon
  <1>8. Answered = d
    <2>1. q[1] = Endpoints[k].ep
      BY ONLY <1>4, item.ep = Endpoints[k].ep, Zenon
    <2>2. Answer(frameIDGetEndpointDescription, q) =
            <<0>> \o PutUint16(260) \o PutUint16(5)
              \o <<1, Len(Endpoints[k].clusters[1]),
                   Len(Endpoints[k].clusters[2])>>
      BY ONLY <2>1, DistinctEndpoints, k \in DOMAIN Endpoints,
              EndpointAnswers, Zenon
    <2>3. Answered = Answer(frameIDGetEndpointDescription, q)
      BY ONLY <1>2, <1>3, Zenon
    <2>4. d = Answer(frameIDGetEndpointDescription, q)
      BY ONLY <1>5, <1>6, <1>7, <2>2, Zenon DEF DescriptionBytes
    <2> QED BY ONLY <2>3, <2>4, Zenon
  <1>9. PICK v : /\ GetEndpointDescription(d) = Ok(v) /\ v.profileID = p
                 /\ v.inputClusterCount = a /\ v.outputClusterCount = b
    <2>1. Describes(GetEndpointDescription(d), p, a, b)
      BY ONLY p \in Word, h \in Int, <1>7, a \in Byte, b \in Byte,
              DescriptionTold, Zenon
    <2> QED BY ONLY <2>1, Zenon DEF Describes
  <1>10. Ok(v).ok /\ Ok(v).v = v
    BY ONLY TRUE DEF Ok
  <1>11. PICK r : r = GetEndpointDescription(Answered)
    BY ONLY TRUE, Zenon
  <1>12. r.ok /\ r.v = v
    BY ONLY <1>8, <1>9, <1>10, <1>11, Zenon
  <1>13. /\ r.ok /\ r.v.profileID = 260
         /\ r.v.inputClusterCount = Len(Endpoints[k].clusters[1])
         /\ r.v.outputClusterCount = Len(Endpoints[k].clusters[2])
    BY ONLY <1>5, <1>6, <1>9, <1>12, Zenon
  <1> QED BY ONLY <1>11, <1>13, Zenon

LEMMA ClusterRead ==
  ASSUME TypeInv, AnsweredTruly, pc = "cluster", DistinctEndpoints,
         Within(item, shown)
  PROVE  GetEndpointCluster(Answered) =
           Ok(Endpoints[item.i + 1].clusters[item.list][item.j + 1])
  <1>1. PICK f, q : f = Request(0)[1] /\ q = Request(0)[2]
    BY ONLY TRUE, Zenon
  <1>2. Answered = Answer(f, q)
    BY ONLY AnsweredTruly, <1>1, Zenon DEF AnsweredTruly
  <1>3. f = frameIDGetEndpointCluster
    BY ONLY pc = "cluster", <1>1, PlaceRequests, Zenon
  <1>4. item \in Item /\ More(item)
    BY ONLY TypeInv, pc = "cluster", Zenon DEF TypeInv, ItemInv
  <1>5. item.list \in {1, 2} /\ item.j \in Byte
    <2>1. item.list \in Lists /\ item.j \in Byte
      BY ONLY <1>4, ItemType, Zenon
    <2> QED BY ONLY <2>1, Zenon DEF Lists
  <1>6. q[1] = item.ep /\ q[2] + 1 = item.list /\ q[3] = item.j
    <2>1. Request(0) = <<frameIDGetEndpointCluster,
                         <<item.ep, item.list - 1, item.j>>>>
      BY ONLY pc = "cluster" DEF Request
    <2>2. PICK i, l, j : i = item.ep /\ l = item.list - 1 /\ j = item.j
      BY ONLY TRUE, Zenon
    <2>3. l + 1 = item.list
      BY ONLY <1>5, <2>2
    <2> QED BY ONLY <1>1, <2>1, <2>2, <2>3
  <1>7. PICK k : k = item.i + 1
    BY ONLY TRUE, Zenon
  <1>8. PICK a \in Byte, b \in Byte :
          /\ k \in DOMAIN Endpoints
          /\ a = Len(Endpoints[k].clusters[1])
          /\ b = Len(Endpoints[k].clusters[2])
          /\ item.counts[1] = a /\ item.counts[2] = b
    BY ONLY <1>4, <1>7, Within(item, shown), ListedHere, Zenon
  <1>9. PICK c : c = Endpoints[k].clusters[item.list]
    BY ONLY TRUE, Zenon
  <1>10. item.j < Len(c)
    <2>1. item.list = 1 \/ item.list = 2
      BY ONLY <1>5
    <2> QED BY ONLY <1>4, <1>8, <1>9, <2>1, Zenon DEF More
  <1>11. c[item.j + 1] \in Word
    <2>1. c \in Seq(Word) /\ Len(c) \in Byte
      BY ONLY <1>5, <1>8, <1>9, EndpointTypes, Zenon
    <2>2. \A i \in 1 .. Len(c) : c[i] \in Word
      BY ONLY <2>1, QueueType
    <2>3. PICK j \in Byte, n \in Byte : j = item.j /\ n = Len(c)
      BY ONLY <1>5, <2>1, Zenon
    <2>4. j < n
      BY ONLY <1>10, <2>3, Zenon
    <2>5. j + 1 \in 1 .. n
      BY ONLY <2>4, j \in Byte, n \in Byte DEF Byte
    <2> QED BY ONLY <2>2, <2>3, <2>5, Zenon
  <1>12. PICK v \in Word : v = c[item.j + 1]
    BY ONLY <1>11, Zenon
  <1>13. Answered = <<0>> \o PutUint16(v)
    <2>1. q[1] = Endpoints[k].ep
      BY ONLY <1>6, <1>7, Within(item, shown), Zenon DEF Within
    <2>2. Answer(f, q) = IF q[3] < Len(c)
                         THEN <<0>> \o PutUint16(c[q[3] + 1]) ELSE <<1>>
      <3>1. Answer(frameIDGetEndpointCluster, q) =
              IF q[3] < Len(Endpoints[k].clusters[q[2] + 1])
              THEN <<0>> \o PutUint16(Endpoints[k].clusters[q[2] + 1][q[3] + 1])
              ELSE <<1>>
        BY ONLY <2>1, <1>8, DistinctEndpoints, EndpointAnswers, Zenon
      <3>2. Endpoints[k].clusters[q[2] + 1] = c
        BY ONLY <1>6, <1>9, Zenon
      <3> QED BY ONLY <1>3, <3>1, <3>2, Zenon
    <2>3. q[3] < Len(c) /\ c[q[3] + 1] = v
      BY ONLY <1>6, <1>10, <1>12, Zenon
    <2>4. Answered = IF q[3] < Len(c)
                     THEN <<0>> \o PutUint16(c[q[3] + 1]) ELSE <<1>>
      BY ONLY <1>2, <2>2, Zenon
    <2> QED BY ONLY <2>3, <2>4, Zenon
  <1>14. GetEndpointCluster(<<0>> \o PutUint16(v)) = Ok(v)
    BY ONLY v \in Word, ValueTold, Zenon
  <1> QED BY ONLY <1>7, <1>9, <1>12, <1>13, <1>14, Zenon

------------------------------------------------------------------------------
(* The inductive invariant of ListsAll.                                    *)

Listers == {"endpoints", "list", "get"}

(* config list has asked for the first item.i IDs.                         *)
ListKept ==
  cmd = "list" /\ pc # "idle" =>
    /\ Len(shown) = item.i
    /\ \A k \in 1 .. item.i : shown[k].of = AllConfigIDs[k]
    /\ clean => \A k \in 1 .. item.i : shown[k] = ListedValue(AllConfigIDs[k])

ListsConfig ==
  exit = "ok" =>
    /\ cmd = "list" => [k \in DOMAIN shown |-> shown[k].of] = AllConfigIDs
    /\ cmd = "list" /\ clean =>
         shown = [k \in DOMAIN AllConfigIDs |-> ListedValue(AllConfigIDs[k])]
    /\ cmd = "get" /\ clean => shown = <<ListedValue(arg)>>

ListsInv ==
  /\ cmd \in Listers => IsList(shown)
  /\ cmd = "get" /\ pc # "idle" => shown = <<>>
  /\ ListKept
  /\ cmd = "endpoints" /\ pc \notin Listings \cup {"idle"} => shown = <<>>
  /\ cmd = "endpoints" /\ clean /\ DistinctEndpoints => EndpointsHeld
  /\ ListsConfig

LEMMA ValueSame ==
  ASSUME config' = config, NEW CONSTANT id
  PROVE  ListedValue(id)' = ListedValue(id)
  BY ONLY config' = config, Zenon DEF ListedValue

(* Nothing is listed, and the listing goes on.                             *)
LEMMA ListsKept ==
  ASSUME ListsInv, UNCHANGED <<cmd, arg, pc, item, exit, shown>>,
         clean' => clean /\ (cmd \in {"list", "get"} => config' = config)
  PROVE  ListsInv'
  <1>1. UNCHANGED <<cmd, arg, pc, item, exit, shown>>
    OBVIOUS
  <1>2. clean' => clean /\ (cmd \in {"list", "get"} => config' = config)
    OBVIOUS
  <1>3. cmd \in {"list", "get"} <=> cmd = "list" \/ cmd = "get"
    OBVIOUS
  <1>4. ASSUME clean', cmd \in {"list", "get"}
        PROVE  /\ \A id : ListedValue(id)' = ListedValue(id)
               /\ ListedValue(arg)' = ListedValue(arg)
               /\ clean
    <2>1. config' = config /\ clean
      BY ONLY <1>2, <1>4
    <2>2. ASSUME NEW CONSTANT id PROVE ListedValue(id)' = ListedValue(id)
      BY ONLY <2>1, ValueSame
    <2>3. ListedValue(arg)' = ListedValue(arg)
      BY ONLY <1>1, <2>1, Zenon DEF ListedValue
    <2> QED BY ONLY <2>1, <2>2, <2>3
  <1>5. ListKept'
    BY ONLY ListsInv, <1>1, <1>3, <1>4, Zenon DEF ListsInv, ListKept
  <1>6. ListsConfig'
    <2> SUFFICES ASSUME exit' = "ok"
                 PROVE  /\ (cmd = "list" =>
                              [k \in DOMAIN shown |-> shown[k].of] =
                                AllConfigIDs)'
                        /\ (cmd = "list" /\ clean =>
                              shown = [k \in DOMAIN AllConfigIDs |->
                                         ListedValue(AllConfigIDs[k])])'
                        /\ (cmd = "get" /\ clean =>
                              shown = <<ListedValue(arg)>>)'
      BY Zenon DEF ListsConfig
    <2>1. /\ cmd = "list" =>
               [k \in DOMAIN shown |-> shown[k].of] = AllConfigIDs
          /\ cmd = "list" /\ clean =>
               shown = [k \in DOMAIN AllConfigIDs |->
                          ListedValue(AllConfigIDs[k])]
          /\ cmd = "get" /\ clean => shown = <<ListedValue(arg)>>
      BY ONLY ListsInv, <1>1, exit' = "ok", Zenon DEF ListsInv, ListsConfig
    <2>2. cmd' = "list" => [k \in DOMAIN shown' |-> shown'[k].of] = AllConfigIDs
      BY ONLY <1>1, <2>1, Zenon
    <2>3. cmd' = "list" /\ clean' =>
            shown' = [k \in DOMAIN AllConfigIDs |->
                        ListedValue(AllConfigIDs[k])']
      <3> SUFFICES ASSUME cmd' = "list", clean'
                   PROVE  shown' = [k \in DOMAIN AllConfigIDs |->
                                      ListedValue(AllConfigIDs[k])']
        BY Zenon
      <3>1. \A k \in DOMAIN AllConfigIDs :
              ListedValue(AllConfigIDs[k])' = ListedValue(AllConfigIDs[k])
        BY ONLY <1>1, <1>3, <1>4, cmd' = "list", clean', Zenon
      <3>2. [k \in DOMAIN AllConfigIDs |-> ListedValue(AllConfigIDs[k])'] =
              [k \in DOMAIN AllConfigIDs |-> ListedValue(AllConfigIDs[k])]
        BY ONLY <3>1, Zenon
      <3> QED BY ONLY <1>1, <1>3, <1>4, <2>1, <3>2, cmd' = "list", clean', Zenon
    <2>4. cmd' = "get" /\ clean' => shown' = <<ListedValue(arg)'>>
      BY ONLY <1>1, <1>3, <1>4, <2>1, Zenon
    <2> QED BY ONLY <2>2, <2>3, <2>4
  <1>7. EndpointsHeld => EndpointsHeld'
    BY ONLY <1>1, Zenon DEF EndpointsHeld
  <1> QED BY ONLY ListsInv, <1>1, <1>2, <1>5, <1>6, <1>7, Zenon DEF ListsInv

(* A command that lists nothing.                                           *)
LEMMA ListsNothing ==
  ASSUME cmd' \notin Listers PROVE ListsInv'
  BY ONLY cmd' \notin Listers
     DEF ListsInv, ListKept, ListsConfig, Listers

(* One that ends without success.                                          *)
LEMMA ListsStop ==
  ASSUME ListsInv, UNCHANGED <<cmd, shown>>, pc' = "idle", exit' # "ok"
  PROVE  ListsInv'
  <1>1. ListKept' /\ ListsConfig'
    BY ONLY pc' = "idle", exit' # "ok" DEF ListKept, ListsConfig
  <1>2. EndpointsHeld'
    BY ONLY pc' = "idle", exit' # "ok" DEF EndpointsHeld
  <1>3. cmd' \in Listers => IsList(shown')
    BY ONLY ListsInv, UNCHANGED <<cmd, shown>>, Zenon DEF ListsInv
  <1> QED BY ONLY <1>1, <1>2, <1>3, pc' = "idle" DEF ListsInv

LEMMA EmptyList == IsList(<<>>) /\ Len(<<>>) = 0
  <1>1. <<>> \in Seq({}) /\ Len(<<>>) = 0
    BY ONLY TRUE
  <1> QED BY ONLY <1>1, Zenon DEF IsList

(* One that has not begun to list.                                         *)
LEMMA ListsBegin ==
  ASSUME shown' = <<>>, item' = NoItem, pc' \notin Listings \cup {"idle"},
         exit' # "ok"
  PROVE  ListsInv'
  <1>1. item'.i = 0
    BY ONLY item' = NoItem DEF NoItem
  <1>2. \A k \in 1 .. 0 : FALSE
    BY ONLY TRUE
  <1>3. IsList(shown') /\ Len(shown') = 0
    BY ONLY shown' = <<>>, EmptyList, Zenon
  <1>4. ListKept'
    BY ONLY <1>1, <1>2, <1>3, Zenon DEF ListKept
  <1>5. ListsConfig'
    BY ONLY exit' # "ok" DEF ListsConfig
  <1>6. EndpointsHeld'
    BY ONLY pc' \notin Listings \cup {"idle"} DEF EndpointsHeld, Listings
  <1> QED BY ONLY <1>3, <1>4, <1>5, <1>6, shown' = <<>>, Zenon DEF ListsInv

LEMMA ListIs ==
  ASSUME NEW s, IsList(s)
  PROVE  /\ Len(s) \in Nat /\ DOMAIN s = 1 .. Len(s)
         /\ s = [k \in 1 .. Len(s) |-> s[k]]
  <1>1. PICK S : s \in Seq(S)
    BY Zenon DEF IsList
  <1> QED BY ONLY <1>1, QueueType

------------------------------------------------------------------------------
(* config.                                                                 *)

(* What is read of a value, if nothing went wrong, is the NCP's.           *)
LEMMA ValueListed ==
  ASSUME NEW a, Returned(a), CleanInv, clean', pc = "value"
  PROVE  LET r == Parsed(GetConfigurationValue, a) IN
         /\ Line(IF r.ok THEN "value" ELSE "unsupported", ConfigID, r.v) =
              ListedValue(ConfigID)
         /\ r.ok => Line("value", ConfigID, r.v) = ListedValue(ConfigID)
  <1>1. pc \in Places /\ TypeInv /\ pc # "count" /\ pc \in QueryPlaces
    BY ONLY Returned(a), pc = "value" DEF Returned, QueryPlaces
  <1>2. a.got /\ a.params = Answered /\ AnsweredTruly
    BY ONLY Returned(a), CleanInv, clean', <1>1, GotTold
  <1>3. PICK c : c = ConfigID
    BY ONLY TRUE, Zenon
  <1>4. PICK r : r = Parsed(GetConfigurationValue, a)
    BY ONLY TRUE, Zenon
  <1>5. r = IF c \in DOMAIN config THEN Ok(config[c]) ELSE Err
    <2>1. GetConfigurationValue(Answered) =
            IF ConfigID \in DOMAIN config THEN Ok(config[ConfigID]) ELSE Err
      BY ONLY <1>1, <1>2, pc = "value", ReadsTrue
    <2> QED BY ONLY <1>2, <1>3, <1>4, <2>1, ParsedIs, Zenon
  <1>6. /\ \A v : Ok(v).ok /\ Ok(v).v = v
        /\ ~Err.ok /\ Err.v = 0
    BY ONLY TRUE DEF Ok, Err
  <1>7. CASE c \in DOMAIN config
    <2>1. r.ok /\ r.v = config[c]
      BY ONLY <1>5, <1>6, <1>7, Zenon
    <2> QED BY ONLY <1>3, <1>4, <1>7, <2>1, Zenon DEF ListedValue
  <1>8. CASE c \notin DOMAIN config
    <2>1. ~r.ok /\ r.v = 0
      BY ONLY <1>5, <1>6, <1>8, Zenon
    <2> QED BY ONLY <1>3, <1>4, <1>8, <2>1, Zenon DEF ListedValue
  <1> QED BY ONLY <1>7, <1>8

LEMMA ListsGet ==
  ASSUME NEW a, Returned(a), CleanInv, ListsInv, cmd = "get", pc = "value",
         Parsed(GetConfigurationValue, a).ok, pc' = "idle",
         shown' = Append(shown, Line("value", ConfigID,
                                     Parsed(GetConfigurationValue, a).v))
  PROVE  ListsInv'
  <1>1. UNCHANGED <<cmd, arg, config>>
    BY ONLY Returned(a), CallFrame, Zenon
  <1>2. cmd' = "get" /\ cmd' # "list" /\ cmd' # "endpoints"
    BY ONLY <1>1, cmd = "get"
  <1>3. PICK v : v = Line("value", ConfigID,
                          Parsed(GetConfigurationValue, a).v)
    BY ONLY TRUE, Zenon
  <1>4. shown' = <<v>>
    <2>1. pc # "idle"
      BY ONLY pc = "value"
    <2>2. shown = <<>>
      BY ONLY ListsInv, cmd = "get", <2>1, Zenon DEF ListsInv
    <2>3. Append(<<>>, v) = <<v>>
      BY ONLY TRUE
    <2> QED BY ONLY <1>3, <2>2, <2>3, Zenon,
                    shown' = Append(shown, Line("value", ConfigID,
                                         Parsed(GetConfigurationValue, a).v))
  <1>5. IsList(shown')
    <2>1. <<v>> \in Seq({v})
      BY ONLY TRUE
    <2> QED BY ONLY <1>4, <2>1, Zenon DEF IsList
  <1>6. ASSUME clean' PROVE shown' = <<ListedValue(arg)'>>
    <2>1. v = ListedValue(ConfigID)
      BY ONLY Returned(a), CleanInv, <1>3, <1>6, pc = "value", ValueListed,
              Parsed(GetConfigurationValue, a).ok, Zenon
    <2>2. ConfigID = arg
      BY ONLY cmd = "get" DEF ConfigID
    <2>3. ListedValue(arg)' = ListedValue(arg)
      BY ONLY <1>1, Zenon DEF ListedValue
    <2> QED BY ONLY <1>4, <2>1, <2>2, <2>3, Zenon
  <1>7. ListsConfig'
    BY ONLY <1>2, <1>6, Zenon DEF ListsConfig
  <1>8. ListKept'
    BY ONLY <1>2, Zenon DEF ListKept
  <1> QED BY ONLY <1>2, <1>5, <1>7, <1>8, pc' = "idle", Zenon DEF ListsInv

LEMMA ListsList ==
  ASSUME NEW a, Returned(a), CleanInv, ListsInv, cmd = "list", pc = "value",
         shown' = Append(shown,
           Line(IF Parsed(GetConfigurationValue, a).ok
                THEN "value" ELSE "unsupported",
                ConfigID, Parsed(GetConfigurationValue, a).v)),
         item'.i = item.i + 1,
         IF item'.i < Len(AllConfigIDs) THEN pc' = "value" /\ exit' = exit
         ELSE pc' = "idle"
  PROVE  ListsInv'
  <1>1. UNCHANGED <<cmd, arg, config>>
    BY ONLY Returned(a), CallFrame, Zenon
  <1>2. cmd' = "list" /\ cmd' # "get" /\ cmd' # "endpoints"
        /\ pc # "idle" /\ cmd \in Listers
    BY ONLY <1>1, cmd = "list", pc = "value" DEF Listers
  <1>3. PICK v : v = Line(IF Parsed(GetConfigurationValue, a).ok
                          THEN "value" ELSE "unsupported",
                          ConfigID, Parsed(GetConfigurationValue, a).v)
    BY ONLY TRUE, Zenon
  <1>4. PICK t : t = shown'
    BY ONLY TRUE, Zenon
  <1>5. item.i \in Byte /\ item.i < Len(AllConfigIDs)
    <2>1. item \in Item /\ item.i < Len(AllConfigIDs)
      BY ONLY Returned(a), cmd = "list", pc = "value", Zenon
         DEF Returned, TypeInv, ItemInv
    <2> QED BY ONLY <2>1, ItemType, Zenon
  <1>6. PICK i \in Byte, n \in 1 .. 255 : i = item.i /\ n = Len(AllConfigIDs)
    BY ONLY <1>5, ConfigIDs, Zenon
  <1>7. i < n
    BY ONLY <1>5, <1>6, Zenon
  <1>8. /\ IsList(shown) /\ Len(shown) = i
        /\ \A k \in 1 .. i : shown[k].of = AllConfigIDs[k]
        /\ clean => \A k \in 1 .. i : shown[k] = ListedValue(AllConfigIDs[k])
    BY ONLY ListsInv, <1>2, <1>6, cmd = "list", Zenon DEF ListsInv, ListKept
  <1>9. t = Append(shown, v)
    BY ONLY <1>3, <1>4, Zenon,
            shown' = Append(shown,
              Line(IF Parsed(GetConfigurationValue, a).ok
                   THEN "value" ELSE "unsupported",
                   ConfigID, Parsed(GetConfigurationValue, a).v))
  <1>10. /\ IsList(t) /\ Len(t) = i + 1
         /\ \A k \in 1 .. i : t[k] = shown[k]
         /\ t[i + 1] = v
    <2>1. PICK S : S = shown
      BY ONLY TRUE, Zenon
    <2>2. /\ IsList(Append(S, v))
          /\ Len(Append(S, v)) = Len(S) + 1
          /\ \A k \in 1 .. Len(S) : Append(S, v)[k] = S[k]
          /\ Append(S, v)[Len(S) + 1] = v
      <3>1. IsList(S)
        BY ONLY <1>8, <2>1, Zenon
      <3> QED BY ONLY <3>1, ListAppend
    <2> QED BY ONLY <1>8, <1>9, <2>1, <2>2, Zenon
  <1>11. ConfigID = AllConfigIDs[i + 1]
    BY ONLY <1>6, cmd = "list", Zenon DEF ConfigID
  <1>12. v.of = AllConfigIDs[i + 1]
    <2>1. PICK r : r = Parsed(GetConfigurationValue, a)
      BY ONLY TRUE, Zenon
    <2>2. PICK c : c = ConfigID
      BY ONLY TRUE, Zenon
    <2>3. v = Line(IF r.ok THEN "value" ELSE "unsupported", c, r.v)
      BY ONLY <1>3, <2>1, <2>2, Zenon
    <2>4. v.of = c
      BY ONLY <2>3 DEF Line
    <2> QED BY ONLY <1>11, <2>2, <2>4, Zenon
  <1>13. clean' => clean /\ v = ListedValue(AllConfigIDs[i + 1])
    BY ONLY Returned(a), CleanInv, <1>3, <1>11, pc = "value", ValueListed,
            GotTold, Zenon
  <1>14. \A k \in 1 .. i + 1 : k \in 1 .. i \/ k = i + 1
    BY ONLY i \in Byte DEF Byte
  <1>15. \A k \in 1 .. i + 1 : t[k].of = AllConfigIDs[k]
    BY ONLY <1>8, <1>10, <1>12, <1>14, Zenon
  <1>16. clean' => \A k \in 1 .. i + 1 : t[k] = ListedValue(AllConfigIDs[k])
    BY ONLY <1>8, <1>10, <1>13, <1>14, Zenon
  <1>17. \A k \in 1 .. i + 1 :
           ListedValue(AllConfigIDs[k])' = ListedValue(AllConfigIDs[k])
    <2>1. ASSUME NEW CONSTANT id PROVE ListedValue(id)' = ListedValue(id)
      BY ONLY <1>1, ValueSame
    <2> QED BY ONLY <2>1, Zenon
  <1>18. IsList(shown')
    BY ONLY <1>4, <1>10, Zenon
  <1>19. item'.i = i + 1
    BY ONLY <1>6, item'.i = item.i + 1, Zenon
  <1>20. ListKept'
    <2>1. /\ Len(t) = item'.i
          /\ \A k \in 1 .. item'.i : t[k].of = AllConfigIDs[k]
          /\ clean' => \A k \in 1 .. item'.i :
                         t[k] = ListedValue(AllConfigIDs[k])'
      BY ONLY <1>10, <1>15, <1>16, <1>17, <1>19, Zenon
    <2> QED BY ONLY <1>4, <2>1, Zenon DEF ListKept
  <1>21. CASE i + 1 < n
    <2>1. pc' = "value" /\ exit' = exit
      BY ONLY <1>6, <1>19, <1>21, Zenon,
              IF item'.i < Len(AllConfigIDs) THEN pc' = "value" /\ exit' = exit
              ELSE pc' = "idle"
    <2>2. exit = "none"
      BY ONLY CleanInv, <1>2, Zenon DEF CleanInv
    <2>3. ListsConfig'
      BY ONLY <2>1, <2>2 DEF ListsConfig
    <2> QED BY ONLY <1>2, <1>18, <1>20, <2>3, Zenon DEF ListsInv
  <1>22. CASE ~(i + 1 < n)
    <2>1. n = i + 1
      BY ONLY <1>7, <1>22, i \in Byte, n \in 1 .. 255 DEF Byte
    <2>2. /\ AllConfigIDs = [k \in 1 .. n |-> AllConfigIDs[k]]
          /\ DOMAIN AllConfigIDs = 1 .. n
      <3>1. IsList(AllConfigIDs)
        BY CliAssumption, Zenon DEF IsList
      <3> QED BY ONLY <1>6, <3>1, ListIs, Zenon
    <2>3. DOMAIN t = 1 .. n /\ t = [k \in 1 .. n |-> t[k]]
      BY ONLY <1>10, <2>1, ListIs, Zenon
    <2>4. [k \in DOMAIN t |-> t[k].of] = AllConfigIDs
      <3>1. [k \in 1 .. n |-> t[k].of] = [k \in 1 .. n |-> AllConfigIDs[k]]
        BY ONLY <1>15, <2>1, Zenon
      <3> QED BY ONLY <2>2, <2>3, <3>1, Zenon
    <2>5. clean' => t = [k \in DOMAIN AllConfigIDs |->
                           ListedValue(AllConfigIDs[k])']
      <3> SUFFICES ASSUME clean'
                   PROVE  t = [k \in DOMAIN AllConfigIDs |->
                                 ListedValue(AllConfigIDs[k])']
        BY Zenon
      <3>1. \A k \in 1 .. n : t[k] = ListedValue(AllConfigIDs[k])'
        BY ONLY <1>16, <1>17, <2>1, clean', Zenon
      <3>2. [k \in 1 .. n |-> t[k]] =
              [k \in 1 .. n |-> ListedValue(AllConfigIDs[k])']
        BY ONLY <3>1, Zenon
      <3> QED BY ONLY <2>2, <2>3, <3>2, Zenon
    <2>6. ListsConfig'
      BY ONLY <1>2, <1>4, <2>4, <2>5, Zenon DEF ListsConfig
    <2> QED BY ONLY <1>2, <1>18, <1>20, <2>6, Zenon DEF ListsInv
  <1> QED BY ONLY <1>21, <1>22

LEMMA ListsValue ==
  ASSUME TypeInv, KeepInv, TruthInv, CleanInv, ListsInv, Value
  PROVE  ListsInv'
  <1>1. PICK a \in Answers :
          /\ Return(a) /\ pc = "value"
          /\ \/ /\ cmd = "get" /\ Parsed(GetConfigurationValue, a).ok
                /\ pc' = "idle"
                /\ shown' = Append(shown,
                     Line("value", ConfigID,
                          Parsed(GetConfigurationValue, a).v))
             \/ pc' = "idle" /\ exit' = "error" /\ shown' = shown
             \/ /\ cmd = "list"
                /\ shown' = Append(shown,
                     Line(IF Parsed(GetConfigurationValue, a).ok
                          THEN "value" ELSE "unsupported",
                          ConfigID, Parsed(GetConfigurationValue, a).v))
                /\ item' = [item EXCEPT !.i = @ + 1]
                /\ IF item'.i < Len(AllConfigIDs)
                   THEN pc' = "value" /\ exit' = exit ELSE pc' = "idle"
    <2>1. ASSUME NEW a, NEW r, cmd = "list",
                 Show(Line(IF r.ok THEN "value" ELSE "unsupported",
                           ConfigID, r.v)),
                 IF item'.i < Len(AllConfigIDs) THEN GoTo("value")
                 ELSE Exit("list")
          PROVE  /\ shown' = Append(shown,
                      Line(IF r.ok THEN "value" ELSE "unsupported",
                           ConfigID, r.v))
                 /\ IF item'.i < Len(AllConfigIDs)
                    THEN pc' = "value" /\ exit' = exit ELSE pc' = "idle"
      BY ONLY <2>1, Zenon DEF Show, GoTo, Exit
    <2> QED BY ONLY Value, <2>1, Zenon DEF Value, Exit, Fail, Show
  <1>2. Returned(a)
    BY ONLY TypeInv, KeepInv, TruthInv, <1>1, a \in Answers
       DEF Returned, Places
  <1>3. cmd' = cmd
    BY ONLY <1>2, CallFrame, Zenon
  <1>4. CASE pc' = "idle" /\ exit' = "error" /\ shown' = shown
    <2>1. exit' # "ok"
      BY ONLY <1>4
    <2> QED BY ONLY ListsInv, <1>3, <1>4, <2>1, ListsStop, Zenon
  <1>5. CASE /\ cmd = "get" /\ Parsed(GetConfigurationValue, a).ok
             /\ pc' = "idle"
             /\ shown' = Append(shown,
                  Line("value", ConfigID, Parsed(GetConfigurationValue, a).v))
    BY ONLY <1>1, <1>2, <1>5, CleanInv, ListsInv, ListsGet, Zenon
  <1>6. CASE /\ cmd = "list"
             /\ shown' = Append(shown,
                  Line(IF Parsed(GetConfigurationValue, a).ok
                       THEN "value" ELSE "unsupported",
                       ConfigID, Parsed(GetConfigurationValue, a).v))
             /\ item' = [item EXCEPT !.i = @ + 1]
             /\ IF item'.i < Len(AllConfigIDs)
                THEN pc' = "value" /\ exit' = exit ELSE pc' = "idle"
    <2>1. PICK z \in Item : z = item
      BY ONLY TypeInv, Zenon DEF TypeInv, ItemInv
    <2>2. PICK w : w = [z EXCEPT !.i = z.i + 1]
      BY ONLY TRUE, Zenon
    <2>3. w.i = z.i + 1
      BY ONLY <2>2, z \in Item DEF Item
    <2>4. item'.i = item.i + 1
      BY ONLY <1>6, <2>1, <2>2, <2>3, Zenon
    <2> QED BY ONLY <1>1, <1>2, <1>6, <2>4, CleanInv, ListsInv, ListsList, Zenon
  <1> QED BY ONLY <1>1, <1>4, <1>5, <1>6, Zenon

------------------------------------------------------------------------------
(* endpoints.                                                              *)

LEMMA LoopPlaces ==
  ASSUME NEW CONSTANT it, Loop(it)
  PROVE  pc' \in Listings \cup {"idle"}
  BY ONLY Loop(it) DEF Loop, GoTo, Exit, Listings

(* A call of the endpoints command.                                        *)
LEMMA ListsOn ==
  ASSUME NEW a, Returned(a), cmd = "endpoints", IsList(shown'),
         pc' \in Listings \cup {"idle"},
         clean' /\ DistinctEndpoints => EndpointsHeld'
  PROVE  ListsInv'
  <1>1. cmd' = cmd
    BY ONLY Returned(a), CallFrame, Zenon
  <1>2. cmd' # "list" /\ cmd' # "get"
    BY ONLY <1>1, cmd = "endpoints"
  <1>3. ListKept' /\ ListsConfig'
    BY ONLY <1>2, Zenon DEF ListKept, ListsConfig
  <1> QED BY ONLY <1>2, <1>3, IsList(shown'), pc' \in Listings \cup {"idle"},
                  clean' /\ DistinctEndpoints => EndpointsHeld', Zenon
          DEF ListsInv

(* Of which command it is.                                                 *)
LEMMA ListsHere ==
  ASSUME NEW a, Returned(a), ListsInv, CleanInv,
         pc \in {"count"} \cup Listings
  PROVE  /\ cmd = "endpoints" /\ cmd' = cmd /\ IsList(shown)
         /\ pc \in QueryPlaces
         /\ pc = "count" => shown = <<>>
         /\ clean' /\ DistinctEndpoints => EndpointsHeld
         /\ clean' /\ a.got => a.params = Answered /\ AnsweredTruly
         /\ clean' /\ pc # "count" => a.got
  <1>1. cmd = "endpoints" /\ cmd' = cmd
    BY ONLY Returned(a), pc \in {"count"} \cup Listings, CallFrame, CallPlace,
            Zenon
  <1>2. pc \in QueryPlaces /\ (pc = "count" => pc \notin Listings \cup {"idle"})
    BY ONLY pc \in {"count"} \cup Listings DEF QueryPlaces, Listings
  <1>3. cmd \in Listers
    BY ONLY <1>1 DEF Listers
  <1>4. clean' => clean
    BY ONLY Returned(a), CallFrame, Zenon
  <1>5. /\ clean' /\ a.got => a.params = Answered /\ AnsweredTruly
        /\ clean' /\ pc # "count" => a.got
    BY ONLY Returned(a), CleanInv, <1>2, GotTold, Zenon
  <1> QED BY ONLY ListsInv, <1>1, <1>2, <1>3, <1>4, <1>5, Zenon DEF ListsInv

(* NoItem, for n endpoints.                                                *)
LEMMA FirstItem ==
  ASSUME NEW n \in Number
  PROVE  LET it == [NoItem EXCEPT !.n = n] IN
         /\ it \in Item /\ it.n = n /\ it.i = 0 /\ it.list = 1 /\ it.j = 0
         /\ ~More(it)
  <1>1. NoItem \in Item
    BY ONLY TRUE DEF NoItem, Item, Number, Counts, Lists, Byte
  <1>2. PICK z \in Item : z = NoItem
    BY ONLY <1>1, Zenon
  <1>3. PICK it : it = [z EXCEPT !.n = n]
    BY ONLY TRUE, Zenon
  <1>4. /\ it \in Item /\ it.n = n /\ it.i = z.i /\ it.list = z.list
        /\ it.j = z.j /\ it.counts = z.counts
    BY ONLY <1>3, z \in Item, n \in Number DEF Item
  <1>5. z.i = 0 /\ z.list = 1 /\ z.j = 0 /\ z.counts[z.list] = 0
    BY ONLY <1>2 DEF NoItem
  <1>6. it.j = 0 /\ it.counts[it.list] = 0
    BY ONLY <1>4, <1>5, Zenon
  <1>7. ~More(it)
    BY ONLY <1>6 DEF More
  <1> QED BY ONLY <1>2, <1>3, <1>4, <1>5, <1>7, Zenon

LEMMA ListsCount ==
  ASSUME TypeInv, KeepInv, TruthInv, CleanInv, ListsInv, Count
  PROVE  ListsInv'
  <1>1. PICK a \in Answers :
          /\ Return(a) /\ pc = "count" /\ shown' = shown
          /\ \/ /\ Parsed(GetEndpointCount, a).ok
                /\ Loop([NoItem EXCEPT !.n = Parsed(GetEndpointCount, a).v])
             \/ pc' = "idle" /\ exit' = "error"
    BY ONLY Count, Zenon DEF Count, Fail
  <1>2. Returned(a) /\ pc \in {"count"} \cup Listings
    BY ONLY TypeInv, KeepInv, TruthInv, <1>1, a \in Answers
       DEF Returned, Places
  <1>3. /\ cmd = "endpoints" /\ cmd' = cmd /\ shown = <<>> /\ IsList(shown)
        /\ clean' /\ a.got => a.params = Answered /\ AnsweredTruly
    BY ONLY ListsInv, CleanInv, <1>1, <1>2, ListsHere, Zenon
  <1>4. CASE pc' = "idle" /\ exit' = "error"
    <2>1. exit' # "ok"
      BY ONLY <1>4
    <2> QED BY ONLY ListsInv, <1>1, <1>3, <1>4, <2>1, ListsStop, Zenon
  <1>5. CASE /\ Parsed(GetEndpointCount, a).ok
             /\ Loop([NoItem EXCEPT !.n = Parsed(GetEndpointCount, a).v])
    <2>1. PICK n \in Number : n = Parsed(GetEndpointCount, a).v
      BY ONLY <1>5, TypeInv, a \in Answers, Responses
    <2>2. PICK it \in Item :
            /\ Loop(it) /\ it.n = n /\ it.i = 0 /\ it.list = 1 /\ it.j = 0
            /\ ~More(it)
      BY ONLY <1>5, <2>1, FirstItem, Zenon
    <2>3. pc' \in Listings \cup {"idle"}
      BY ONLY <2>2, LoopPlaces, Zenon
    <2>4. IsList(shown')
      BY ONLY <1>1, <1>3, Zenon
    <2>5. ASSUME clean' PROVE EndpointsHeld'
      <3>1. a.got
        <4>1. ~Err.ok
          BY ONLY TRUE DEF Err
        <4> QED BY ONLY <1>5, <4>1, Zenon DEF Parsed
      <3>2. Parsed(GetEndpointCount, a) = GetEndpointCount(Answered)
        BY ONLY <1>3, <2>5, <3>1, ParsedIs, Zenon
      <3>3. n = Len(Endpoints)
        BY ONLY <1>1, <1>3, <1>5, <2>1, <2>5, <3>1, <3>2, CountRead, Zenon
      <3>4. Between(it, shown')
        BY ONLY <1>1, <1>3, <2>2, <3>3, ListedNone, Zenon DEF Between
      <3>5. it.i <= it.n
        <4>1. 0 <= n
          BY ONLY n \in Number DEF Number
        <4> QED BY ONLY <2>2, <4>1, Zenon
      <3> QED BY ONLY <2>2, <2>4, <3>4, <3>5, it \in Item, LoopLists
    <2> QED BY ONLY <1>2, <1>3, <2>3, <2>4, <2>5, ListsOn, Zenon
  <1> QED BY ONLY <1>1, <1>4, <1>5, Zenon

(* Another line is listed.                                                 *)
LEMMA ShowList ==
  ASSUME IsList(shown), NEW v, shown' = Append(shown, v)
  PROVE  IsList(shown')
  <1>1. PICK s : s = shown
    BY ONLY TRUE, Zenon
  <1>2. IsList(s)
    BY ONLY IsList(shown), <1>1, Zenon
  <1>3. IsList(Append(s, v))
    BY ONLY <1>2, ListAppend
  <1> QED BY ONLY <1>1, <1>3, shown' = Append(shown, v), Zenon

(* An endpoint that is skipped, which happens only if something goes wrong.*)
LEMMA ListsSkip ==
  ASSUME NEW a, Returned(a), ListsInv, CleanInv, pc \in Listings,
         Loop(NextEndpoint(item)), NEW v, shown' = Append(shown, v),
         ~(clean' /\ DistinctEndpoints)
  PROVE  ListsInv'
  <1>1. cmd = "endpoints" /\ IsList(shown)
    BY ONLY Returned(a), ListsInv, CleanInv, pc \in Listings, ListsHere, Zenon
  <1>2. IsList(shown')
    BY ONLY <1>1, shown' = Append(shown, v), ShowList
  <1>3. pc' \in Listings \cup {"idle"}
    <2>1. PICK it : it = NextEndpoint(item)
      BY ONLY TRUE, Zenon
    <2> QED BY ONLY Loop(NextEndpoint(item)), <2>1, LoopPlaces, Zenon
  <1> QED BY ONLY Returned(a), <1>1, <1>2, <1>3,
                  ~(clean' /\ DistinctEndpoints), ListsOn, Zenon

LEMMA ListsEndpoint ==
  ASSUME TypeInv, KeepInv, TruthInv, CleanInv, ListsInv, Endpoint
  PROVE  ListsInv'
  <1>1. PICK a \in Answers :
          /\ Return(a) /\ pc = "endpoint"
          /\ \/ /\ Parsed(GetEndpoint, a).ok /\ pc' = "description"
                /\ item' = [item EXCEPT !.ep = Parsed(GetEndpoint, a).v]
                /\ shown' = shown
             \/ /\ ~Parsed(GetEndpoint, a).ok
                /\ Loop(NextEndpoint(item))
                /\ shown' = Append(shown, Line("no endpoint", item.i, 0))
    BY ONLY Endpoint, Zenon DEF Endpoint, GoTo, Show
  <1>2. Returned(a) /\ pc \in Listings /\ pc # "count"
    BY ONLY TypeInv, KeepInv, TruthInv, <1>1, a \in Answers
       DEF Returned, Places, Listings
  <1>3. /\ cmd = "endpoints" /\ cmd' = cmd /\ IsList(shown)
        /\ clean' /\ DistinctEndpoints => EndpointsHeld
        /\ clean' => a.got /\ a.params = Answered /\ AnsweredTruly
    BY ONLY ListsInv, CleanInv, <1>1, <1>2, ListsHere, Zenon
  <1>4. PICK z \in Item : z = item /\ z.i < z.n
    BY ONLY TypeInv, <1>1 DEF TypeInv, ItemInv
  <1>5. ASSUME clean', DistinctEndpoints
        PROVE  /\ Parsed(GetEndpoint, a).ok
               /\ Parsed(GetEndpoint, a).v = Endpoints[item.i + 1].ep
               /\ Between(item, shown)
    <2>1. Between(item, shown)
      BY ONLY <1>1, <1>3, <1>5 DEF EndpointsHeld
    <2>2. item.i < Len(Endpoints)
      BY ONLY <1>4, <2>1, Zenon DEF Between
    <2>3. Parsed(GetEndpoint, a) = Ok(Endpoints[item.i + 1].ep)
      BY ONLY <1>1, <1>3, <1>5, <2>2, EndpointRead, ParsedIs, Zenon
    <2>4. \A v : Ok(v).ok /\ Ok(v).v = v
      BY ONLY TRUE DEF Ok
    <2> QED BY ONLY <2>1, <2>3, <2>4, Zenon
  <1>6. CASE /\ Parsed(GetEndpoint, a).ok /\ pc' = "description"
             /\ item' = [item EXCEPT !.ep = Parsed(GetEndpoint, a).v]
             /\ shown' = shown
    <2>1. PICK b \in Byte : b = Parsed(GetEndpoint, a).v
      BY ONLY <1>6, TypeInv, a \in Answers, Responses
    <2>2. PICK w : w = [z EXCEPT !.ep = b]
      BY ONLY TRUE, Zenon
    <2>3. /\ w.n = z.n /\ w.i = z.i /\ w.list = z.list /\ w.j = z.j
          /\ w.ep = b
      BY ONLY <2>2, z \in Item DEF Item
    <2>4. item' = w
      BY ONLY <1>4, <1>6, <2>1, <2>2, Zenon
    <2>5. ASSUME clean', DistinctEndpoints PROVE EndpointsHeld'
      <3>1. Between(item, shown)'
        BY ONLY <1>4, <1>5, <1>6, <2>3, <2>4, <2>5, Zenon DEF Between
      <3>2. item'.ep = Endpoints[item'.i + 1].ep
        BY ONLY <1>4, <1>5, <2>1, <2>3, <2>4, <2>5, Zenon
      <3> QED BY ONLY <1>6, <3>1, <3>2 DEF EndpointsHeld
    <2>6. pc' \in Listings \cup {"idle"}
      BY ONLY <1>6 DEF Listings
    <2>7. IsList(shown')
      BY ONLY <1>3, <1>6, Zenon
    <2> QED BY ONLY <1>2, <1>3, <2>5, <2>6, <2>7, ListsOn, Zenon
  <1>7. CASE /\ ~Parsed(GetEndpoint, a).ok
             /\ Loop(NextEndpoint(item))
             /\ shown' = Append(shown, Line("no endpoint", item.i, 0))
    <2>1. PICK v : v = Line("no endpoint", item.i, 0)
      BY ONLY TRUE, Zenon
    <2>2. shown' = Append(shown, v)
      BY ONLY <1>7, <2>1, Zenon
    <2> QED BY ONLY ListsInv, CleanInv, <1>2, <1>5, <1>7, <2>2, ListsSkip, Zenon
  <1> QED BY ONLY <1>1, <1>6, <1>7, Zenon

LEMMA ListsDescription ==
  ASSUME TypeInv, KeepInv, TruthInv, CleanInv, ListsInv, Description
  PROVE  ListsInv'
  <1> DEFINE r(a) == Parsed(GetEndpointDescription, a)
             counts(a) == <<r(a).v.inputClusterCount, r(a).v.outputClusterCount>>
  <1>1. PICK a \in Answers :
          /\ Return(a) /\ pc = "description"
          /\ \/ /\ r(a).ok
                /\ Loop(NextCluster([item EXCEPT !.counts = counts(a)]))
                /\ shown' = Append(shown,
                              Line("endpoint", item.ep, r(a).v.profileID))
             \/ /\ ~r(a).ok
                /\ Loop(NextEndpoint(item))
                /\ shown' = Append(shown, Line("no description", item.ep, 0))
    BY ONLY Description, Zenon DEF Description, Show
  <1>2. Returned(a) /\ pc \in Listings /\ pc # "count"
    BY ONLY TypeInv, KeepInv, TruthInv, <1>1, a \in Answers
       DEF Returned, Places, Listings
  <1>3. /\ cmd = "endpoints" /\ cmd' = cmd /\ IsList(shown)
        /\ clean' /\ DistinctEndpoints => EndpointsHeld
        /\ clean' => a.got /\ a.params = Answered /\ AnsweredTruly
    BY ONLY ListsInv, CleanInv, <1>1, <1>2, ListsHere, Zenon
  <1>4. PICK z \in Item : z = item /\ z.i < z.n
    BY ONLY TypeInv, <1>1 DEF TypeInv, ItemInv
  <1>5. ASSUME clean', DistinctEndpoints
        PROVE  /\ r(a).ok /\ r(a).v.profileID = 260
               /\ counts(a) = <<Len(Endpoints[z.i + 1].clusters[1]),
                                Len(Endpoints[z.i + 1].clusters[2])>>
               /\ Between(item, shown)
               /\ item.ep = Endpoints[z.i + 1].ep
               /\ z.i + 1 \in DOMAIN Endpoints
    <2>1. Between(item, shown) /\ item.ep = Endpoints[z.i + 1].ep
      BY ONLY <1>1, <1>3, <1>4, <1>5 DEF EndpointsHeld
    <2>2. z.i + 1 \in DOMAIN Endpoints
      <3>1. z.n = Len(Endpoints)
        BY ONLY <1>4, <2>1, Zenon DEF Between
      <3>2. DOMAIN Endpoints = 1 .. Len(Endpoints)
        BY NcpAssumption, QueueType
      <3>3. z.i \in Byte /\ z.n \in Number
        BY ONLY z \in Item, ItemType
      <3>4. PICK i \in Byte, n \in Number : i = z.i /\ n = z.n
        BY ONLY <3>3, Zenon
      <3>5. i < n
        BY ONLY <1>4, <3>4, Zenon
      <3>6. i + 1 \in 1 .. n
        BY ONLY <3>5, i \in Byte, n \in Number DEF Byte, Number
      <3> QED BY ONLY <3>1, <3>2, <3>4, <3>6, Zenon
    <2>3. PICK k \in DOMAIN Endpoints : k = z.i + 1
      BY ONLY <2>2, Zenon
    <2>4. item.ep = Endpoints[k].ep
      BY ONLY <2>1, <2>3, Zenon
    <2>5. PICK d : d = GetEndpointDescription(Answered)
      BY ONLY TRUE, Zenon
    <2>6. /\ d.ok /\ d.v.profileID = 260
          /\ d.v.inputClusterCount = Len(Endpoints[k].clusters[1])
          /\ d.v.outputClusterCount = Len(Endpoints[k].clusters[2])
      BY ONLY <1>1, <1>3, <1>5, <2>4, <2>5, k \in DOMAIN Endpoints,
              DescriptionRead, Zenon
    <2>7. r(a) = d
      BY ONLY <1>3, <1>5, <2>5, ParsedIs, Zenon
    <2> QED BY ONLY <2>1, <2>2, <2>3, <2>6, <2>7, Zenon
  <1>6. CASE /\ r(a).ok
             /\ Loop(NextCluster([item EXCEPT !.counts = counts(a)]))
             /\ shown' = Append(shown,
                           Line("endpoint", item.ep, r(a).v.profileID))
    <2>1. PICK c \in Counts : c = counts(a)
      <3>1. r(a).v.inputClusterCount \in Byte /\ r(a).v.outputClusterCount \in Byte
        BY ONLY <1>6, TypeInv, a \in Answers, Responses
      <3> QED BY ONLY <3>1 DEF Counts
    <2>2. PICK e : e = [z EXCEPT !.counts = c]
      BY ONLY TRUE, Zenon
    <2>3. /\ e \in Item /\ e.i = z.i /\ e.n = z.n /\ e.ep = z.ep
          /\ e.list = z.list /\ e.j = z.j /\ e.counts = c
      BY ONLY <2>2, z \in Item, c \in Counts DEF Item
    <2>4. PICK nx : nx = NextCluster(e)
      BY ONLY TRUE, Zenon
    <2>5. Loop(nx)
      BY ONLY <1>4, <1>6, <2>1, <2>2, <2>4, Zenon
    <2>6. pc' \in Listings \cup {"idle"}
      BY ONLY <2>5, LoopPlaces
    <2>7. PICK v : v = Line("endpoint", item.ep, r(a).v.profileID)
      BY ONLY TRUE, Zenon
    <2>8. shown' = Append(shown, v)
      BY ONLY <1>6, <2>7, Zenon
    <2>9. IsList(shown')
      BY ONLY <1>3, <2>8, ShowList
    <2>10. ASSUME clean', DistinctEndpoints PROVE EndpointsHeld'
      <3>1. PICK S, T : S = shown /\ T = shown'
        BY ONLY TRUE, Zenon
      <3>2. /\ z.n = Len(Endpoints) /\ z.list = 1 /\ z.j = 0
            /\ Listed(S, z.i, 0) /\ IsList(S) /\ IsList(T) /\ T = Append(S, v)
        BY ONLY <1>3, <1>4, <1>5, <2>8, <2>9, <2>10, <3>1, Zenon DEF Between
      <3>3. /\ v = Line("endpoint", Endpoints[z.i + 1].ep, 260)
            /\ c = <<Len(Endpoints[z.i + 1].clusters[1]),
                     Len(Endpoints[z.i + 1].clusters[2])>>
        BY ONLY <1>5, <2>1, <2>7, <2>10, Zenon
      <3>4. PICK i \in Nat : i = z.i /\ i <= Len(Endpoints)
        <4>1. z.i \in Byte /\ z.n \in Number
          BY ONLY z \in Item, ItemType
        <4>2. PICK i \in Byte, n \in Number : i = z.i /\ n = z.n
          BY ONLY <4>1, Zenon
        <4>3. i < n
          BY ONLY <1>4, <4>2, Zenon
        <4>4. i \in Nat /\ i <= n
          BY ONLY <4>3, i \in Byte, n \in Number DEF Byte, Number
        <4> QED BY ONLY <3>2, <4>2, <4>4, Zenon
      <3>5. v = ListedLine(Endpoints[i + 1], 0 + 1)
        <4>1. PICK f : f = Endpoints[i + 1]
          BY ONLY TRUE, Zenon
        <4>2. ListedLine(f, 0 + 1) = Line("endpoint", f.ep, 260)
          BY ONLY 0 + 1 = 1, Zenon DEF ListedLine
        <4> QED BY ONLY <3>3, <3>4, <4>1, <4>2, Zenon
      <3>6. Listed(T, i, 0 + 1)
        <4>1. Listed(S, i, 0) /\ IsList(S) /\ i <= Len(Endpoints) /\ 0 \in Nat
          BY ONLY <3>2, <3>4
        <4>2. Listed(Append(S, v), i, 0 + 1)
          BY ONLY <3>5, <4>1, i \in Nat, ListedMore, Zenon
        <4> QED BY ONLY <3>2, <4>2, Zenon
      <3>7. Position(e) = 0 + 1
        <4>1. e.list = 1 /\ e.j = 0
          BY ONLY <2>3, <3>2, Zenon
        <4> QED BY ONLY <4>1 DEF Position
      <3>8. e.j <= e.counts[e.list]
        <4>1. e.list = 1 /\ e.j = 0 /\ e.counts[1] \in Byte
          <5>1. c[1] \in Byte
            BY ONLY c \in Counts DEF Counts
          <5> QED BY ONLY <2>3, <3>2, <5>1, Zenon
        <4>2. PICK m \in Byte : m = e.counts[1]
          BY ONLY <4>1, Zenon
        <4>3. 0 <= m
          BY ONLY m \in Byte DEF Byte
        <4> QED BY ONLY <4>1, <4>2, <4>3, Zenon
      <3>9. e.ep = Endpoints[z.i + 1].ep
        BY ONLY <1>4, <1>5, <2>3, <2>10, Zenon
      <3>10. Within(e, T)
        <4>1. e.n = Len(Endpoints) /\ e.i < e.n
          BY ONLY <1>4, <2>3, <3>2, Zenon
        <4>2. /\ e.ep = Endpoints[e.i + 1].ep
              /\ e.counts = <<Len(Endpoints[e.i + 1].clusters[1]),
                              Len(Endpoints[e.i + 1].clusters[2])>>
          BY ONLY <2>3, <3>3, <3>9, Zenon
        <4>3. Listed(T, e.i, Position(e))
          BY ONLY <2>3, <3>4, <3>6, <3>7, Zenon
        <4> QED BY ONLY <3>8, <4>1, <4>2, <4>3, Zenon DEF Within
      <3>11. /\ nx \in Item
             /\ \/ More(nx) /\ Within(nx, T)
                \/ ~More(nx) /\ Between(nx, T) /\ nx.i <= nx.n
        BY ONLY <2>3, <2>4, <3>2, <3>10, NextListed
      <3> QED BY ONLY <2>5, <2>9, <3>1, <3>11, LoopLists, Zenon
    <2> QED BY ONLY <1>2, <1>3, <2>6, <2>9, <2>10, ListsOn, Zenon
  <1>7. CASE /\ ~r(a).ok
             /\ Loop(NextEndpoint(item))
             /\ shown' = Append(shown, Line("no description", item.ep, 0))
    <2>1. PICK v : v = Line("no description", item.ep, 0)
      BY ONLY TRUE, Zenon
    <2>2. shown' = Append(shown, v)
      BY ONLY <1>7, <2>1, Zenon
    <2> QED BY ONLY ListsInv, CleanInv, <1>2, <1>5, <1>7, <2>2, ListsSkip, Zenon
  <1> QED BY ONLY <1>1, <1>6, <1>7, Zenon

(* The line of an input cluster, and of an output cluster.                 *)
LEMMA InputLine ==
  ASSUME NEW e, NEW j \in Byte, NEW a \in Byte, a = Len(e.clusters[1]), j < a,
         NEW k, k = 1 + j + 1
  PROVE  ListedLine(e, k) = Line("cluster", 1, e.clusters[1][j + 1])
  <1>1. k # 1 /\ k <= 1 + a /\ k - 1 = j + 1
    BY ONLY k = 1 + j + 1, j < a, j \in Byte, a \in Byte DEF Byte
  <1>2. ListedLine(e, k) = Line("cluster", 1, e.clusters[1][k - 1])
    BY ONLY <1>1, a = Len(e.clusters[1]), Zenon DEF ListedLine
  <1> QED BY ONLY <1>1, <1>2, Zenon

LEMMA OutputLine ==
  ASSUME NEW e, NEW j \in Byte, NEW a \in Byte, a = Len(e.clusters[1]),
         NEW k, k = 1 + j + a + 1
  PROVE  ListedLine(e, k) = Line("cluster", 2, e.clusters[2][j + 1])
  <1>1. k # 1 /\ ~(k <= 1 + a) /\ k - 1 - a = j + 1
    BY ONLY k = 1 + j + a + 1, j \in Byte, a \in Byte DEF Byte
  <1>2. ListedLine(e, k) = Line("cluster", 2, e.clusters[2][k - 1 - a])
    BY ONLY <1>1, a = Len(e.clusters[1]), Zenon DEF ListedLine
  <1> QED BY ONLY <1>1, <1>2, Zenon

(* One more cluster is listed.                                             *)
LEMMA WithinMore ==
  ASSUME NEW z \in Item, NEW S, IsList(S), Within(z, S), More(z),
         NEW v, v = Line("cluster", z.list,
                         Endpoints[z.i + 1].clusters[z.list][z.j + 1]),
         NEW w \in Item, w.n = z.n, w.i = z.i, w.ep = z.ep,
         w.counts = z.counts, w.list = z.list, w.j = z.j + 1
  PROVE  Within(w, Append(S, v))
  <1>0. PICK k : k = z.i + 1
    BY ONLY TRUE, Zenon
  <1>1. PICK a \in Byte, b \in Byte :
          /\ k = z.i + 1 /\ k \in DOMAIN Endpoints
          /\ a = Len(Endpoints[k].clusters[1])
          /\ b = Len(Endpoints[k].clusters[2])
          /\ z.counts[1] = a /\ z.counts[2] = b
    BY ONLY z \in Item, Within(z, S), <1>0, ListedHere, Zenon
  <1>2. PICK i \in Byte, j \in Byte, l \in {1, 2}, n \in Number :
          i = z.i /\ j = z.j /\ l = z.list /\ n = z.n
    <2>1. z.i \in Byte /\ z.j \in Byte /\ z.list \in Lists /\ z.n \in Number
      BY ONLY z \in Item, ItemType
    <2> QED BY ONLY <2>1, Zenon DEF Lists
  <1>3. PICK c \in Byte : c = z.counts[l] /\ c = (IF l = 1 THEN a ELSE b)
    <2>1. z.counts[l] = IF l = 1 THEN a ELSE b
      BY ONLY <1>1, l \in {1, 2}
    <2>2. (IF l = 1 THEN a ELSE b) \in Byte
      BY ONLY a \in Byte, b \in Byte, Zenon
    <2> QED BY ONLY <2>1, <2>2, Zenon
  <1>4. j < c
    BY ONLY More(z), <1>2, <1>3, Zenon DEF More
  <1>5. PICK p \in Nat :
          /\ p = 1 + j + (IF l = 2 THEN a ELSE 0) /\ p = Position(z)
          /\ p + 1 = Position(w)
    <2>1. Position(z) = 1 + j + IF l = 2 THEN a ELSE 0
      BY ONLY <1>1, <1>2, Zenon DEF Position
    <2>2. Position(w) = 1 + (j + 1) + IF l = 2 THEN a ELSE 0
      BY ONLY <1>1, <1>2, w.list = z.list, w.j = z.j + 1, w.counts = z.counts,
              Zenon DEF Position
    <2>3. /\ 1 + j + (IF l = 2 THEN a ELSE 0) \in Nat
          /\ 1 + j + (IF l = 2 THEN a ELSE 0) + 1 =
               1 + (j + 1) + IF l = 2 THEN a ELSE 0
      BY ONLY j \in Byte, a \in Byte DEF Byte
    <2> QED BY ONLY <2>1, <2>2, <2>3, Zenon
  <1>6. v = ListedLine(Endpoints[k], p + 1)
    <2>1. PICK e : e = Endpoints[k]
      BY ONLY TRUE, Zenon
    <2>2. ListedLine(e, p + 1) = Line("cluster", l, e.clusters[l][j + 1])
      <3>1. a = Len(e.clusters[1])
        BY ONLY <1>1, <2>1, Zenon
      <3>2. PICK m : m = p + 1
        BY ONLY TRUE, Zenon
      <3>3. l = 1 => j < a /\ m = 1 + j + 1
        <4>1. l = 1 => j < a
          BY ONLY <1>3, <1>4, Zenon
        <4>2. l = 1 => m = 1 + j + 0 + 1
          <5>1. l = 1 => l # 2
            BY ONLY TRUE
          <5> QED BY ONLY <1>5, <3>2, <5>1, Zenon
        <4>3. 1 + j + 0 + 1 = 1 + j + 1
          BY ONLY j \in Byte DEF Byte
        <4> QED BY ONLY <4>1, <4>2, <4>3, Zenon
      <3>4. l = 2 => m = 1 + j + a + 1
        BY ONLY <1>5, <3>2
      <3>5. ListedLine(e, m) = Line("cluster", l, e.clusters[l][j + 1])
        <4>1. l = 1 \/ l = 2
          BY ONLY l \in {1, 2}
        <4>2. CASE l = 1
          <5>1. j < a /\ m = 1 + j + 1
            BY ONLY <3>3, <4>2
          <5>2. ListedLine(e, m) = Line("cluster", 1, e.clusters[1][j + 1])
            BY ONLY <3>1, <5>1, j \in Byte, a \in Byte, InputLine
          <5> QED BY ONLY <4>2, <5>2, Zenon
        <4>3. CASE l = 2
          <5>1. m = 1 + j + a + 1
            BY ONLY <3>4, <4>3
          <5>2. ListedLine(e, m) = Line("cluster", 2, e.clusters[2][j + 1])
            BY ONLY <3>1, <5>1, j \in Byte, a \in Byte, OutputLine
          <5> QED BY ONLY <4>3, <5>2, Zenon
        <4> QED BY ONLY <4>1, <4>2, <4>3
      <3> QED BY ONLY <3>2, <3>5, Zenon
    <2>3. v = Line("cluster", l, e.clusters[l][j + 1])
      BY ONLY <1>1, <1>2, <2>1, Zenon,
              v = Line("cluster", z.list,
                       Endpoints[z.i + 1].clusters[z.list][z.j + 1])
    <2> QED BY ONLY <2>1, <2>2, <2>3, Zenon
  <1>7. /\ n = Len(Endpoints) /\ i < n /\ Listed(S, i, p)
        /\ z.ep = Endpoints[k].ep
        /\ z.counts = <<Len(Endpoints[k].clusters[1]),
                        Len(Endpoints[k].clusters[2])>>
    BY ONLY Within(z, S), <1>1, <1>2, <1>5, Zenon DEF Within
  <1>8. i \in Nat /\ i <= n /\ k = i + 1
    <2>1. i \in Nat /\ i <= n
      <3>1. i < n
        BY ONLY <1>7
      <3> QED BY ONLY <3>1, i \in Byte, n \in Number DEF Byte, Number
    <2> QED BY ONLY <1>1, <1>2, <2>1, Zenon
  <1>9. Listed(Append(S, v), i, p + 1)
    BY ONLY <1>6, <1>7, <1>8, IsList(S), p \in Nat, ListedMore, Zenon
  <1>10. w.j <= w.counts[w.list]
    <2>1. j + 1 <= c
      BY ONLY <1>4, j \in Byte, c \in Byte DEF Byte
    <2> QED BY ONLY <1>2, <1>3, <2>1, w.list = z.list, w.j = z.j + 1,
                    w.counts = z.counts, Zenon
  <1> QED BY ONLY <1>1, <1>2, <1>5, <1>7, <1>9, <1>10, w.n = z.n, w.i = z.i,
                  w.ep = z.ep, w.counts = z.counts, Zenon DEF Within

LEMMA ListsCluster ==
  ASSUME TypeInv, KeepInv, TruthInv, CleanInv, ListsInv, Cluster
  PROVE  ListsInv'
  <1> DEFINE r(a) == Parsed(GetEndpointCluster, a)
             next(a) == IF r(a).ok THEN item.j + 1 ELSE item.counts[item.list]
             line(a) == Line(IF r(a).ok THEN "cluster" ELSE "no cluster",
                             item.list, r(a).v)
  <1>1. PICK a \in Answers :
          /\ Return(a) /\ pc = "cluster"
          /\ Loop(NextCluster([item EXCEPT !.j = next(a)]))
          /\ shown' = Append(shown, line(a))
    BY ONLY Cluster, Zenon DEF Cluster, Show
  <1>2. Returned(a) /\ pc \in Listings /\ pc # "count"
    BY ONLY TypeInv, KeepInv, TruthInv, <1>1, a \in Answers
       DEF Returned, Places, Listings
  <1>3. /\ cmd = "endpoints" /\ cmd' = cmd /\ IsList(shown)
        /\ clean' /\ DistinctEndpoints => EndpointsHeld
        /\ clean' => a.got /\ a.params = Answered /\ AnsweredTruly
    BY ONLY ListsInv, CleanInv, <1>1, <1>2, ListsHere, Zenon
  <1>4. PICK z \in Item : z = item /\ More(z)
    BY ONLY TypeInv, <1>1 DEF TypeInv, ItemInv
  <1>5. PICK v : v = line(a)
    BY ONLY TRUE, Zenon
  <1>6. shown' = Append(shown, v)
    BY ONLY <1>1, <1>5, Zenon
  <1>7. IsList(shown')
    BY ONLY <1>3, <1>6, ShowList
  <1>8. PICK nx : nx = NextCluster([item EXCEPT !.j = next(a)])
    BY ONLY TRUE, Zenon
  <1>9. Loop(nx)
    BY ONLY <1>1, <1>8, Zenon
  <1>10. pc' \in Listings \cup {"idle"}
    BY ONLY <1>9, LoopPlaces
  <1>11. ASSUME clean', DistinctEndpoints PROVE EndpointsHeld'
    <2>1. Within(item, shown)
      BY ONLY <1>1, <1>3, <1>11, Zenon DEF EndpointsHeld
    <2>2. PICK x : x = Endpoints[z.i + 1].clusters[z.list][z.j + 1]
      BY ONLY TRUE, Zenon
    <2>3. r(a) = Ok(x)
      BY ONLY TypeInv, <1>1, <1>3, <1>4, <1>11, <2>1, <2>2, ClusterRead,
              ParsedIs, Zenon
    <2>4. \A y : Ok(y).ok /\ Ok(y).v = y
      BY ONLY TRUE DEF Ok
    <2>5. v = Line("cluster", z.list, x) /\ next(a) = z.j + 1
      BY ONLY <1>4, <1>5, <2>3, <2>4, Zenon
    <2>6. PICK j : j = z.j + 1
      BY ONLY TRUE, Zenon
    <2>7. PICK w : w = [z EXCEPT !.j = j]
      BY ONLY TRUE, Zenon
    <2>8. j \in Byte
      <3>1. z.counts \in Counts /\ z.list \in Lists /\ z.j \in Byte
        BY ONLY z \in Item, ItemType
      <3>2. z.counts[z.list] \in Byte
        BY ONLY <3>1 DEF Counts, Lists
      <3>3. PICK y \in Byte, c \in Byte : y = z.j /\ c = z.counts[z.list]
        BY ONLY <3>1, <3>2, Zenon
      <3>4. y < c
        BY ONLY <1>4, <3>3, Zenon DEF More
      <3>5. y + 1 \in Byte
        BY ONLY <3>4, y \in Byte, c \in Byte DEF Byte
      <3> QED BY ONLY <2>6, <3>3, <3>5, Zenon
    <2>9. /\ w \in Item /\ w.n = z.n /\ w.i = z.i /\ w.ep = z.ep
          /\ w.counts = z.counts /\ w.list = z.list /\ w.j = j
      BY ONLY <2>7, <2>8, z \in Item DEF Item
    <2>10. nx = NextCluster(w)
      BY ONLY <1>4, <1>8, <2>5, <2>6, <2>7, Zenon
    <2>11. PICK S, T : S = shown /\ T = shown'
      BY ONLY TRUE, Zenon
    <2>12. IsList(S) /\ IsList(T) /\ T = Append(S, v) /\ Within(z, S)
      BY ONLY <1>3, <1>4, <1>6, <1>7, <2>1, <2>11, Zenon
    <2>13. Within(w, T)
      <3>1. v = Line("cluster", z.list,
                     Endpoints[z.i + 1].clusters[z.list][z.j + 1])
        BY ONLY <2>2, <2>5, Zenon
      <3>2. w.j = z.j + 1
        BY ONLY <2>6, <2>9, Zenon
      <3>3. Within(w, Append(S, v))
        BY ONLY z \in Item, <1>4, <2>9, <2>12, <3>1, <3>2, WithinMore
      <3> QED BY ONLY <2>12, <3>3, Zenon
    <2>14. /\ nx \in Item
           /\ \/ More(nx) /\ Within(nx, T)
              \/ ~More(nx) /\ Between(nx, T) /\ nx.i <= nx.n
      BY ONLY <2>9, <2>10, <2>12, <2>13, NextListed
    <2> QED BY ONLY <1>9, <1>7, <2>11, <2>14, LoopLists, Zenon
  <1> QED BY ONLY <1>2, <1>3, <1>7, <1>10, <1>11, ListsOn, Zenon

------------------------------------------------------------------------------
(* The other steps, and ListsAll.                                          *)

LEMMA ListsStart ==
  ASSUME NEW c \in Commands, Start(c) PROVE ListsInv'
  <1>1. shown' = <<>> /\ item' = NoItem /\ pc' = "reset" /\ exit' = "none"
    BY ONLY Start(c), Zenon DEF Start
  <1>2. pc' \notin Listings \cup {"idle"} /\ exit' # "ok"
    BY ONLY <1>1 DEF Listings
  <1> QED BY ONLY <1>1, <1>2, ListsBegin

LEMMA ListsReset ==
  ASSUME TypeInv, TruthInv, CleanInv, ListsInv, Reset PROVE ListsInv'
  <1>1. /\ pc = "reset" /\ UNCHANGED <<cmd, item, shown>>
        /\ \/ cmd = "reset"
           \/ pc' = "negotiate" /\ exit' = exit
    BY ONLY Reset, Zenon DEF Reset, GoTo
  <1>2. shown = <<>> /\ item = NoItem /\ exit = "none"
    <2>1. shown = <<>>
      BY ONLY TruthInv, <1>1 DEF TruthInv, SaidInv
    <2>2. item = NoItem
      BY ONLY TypeInv, <1>1 DEF TypeInv, ItemInv
    <2>3. exit = "none"
      BY ONLY CleanInv, <1>1 DEF CleanInv
    <2> QED BY ONLY <2>1, <2>2, <2>3
  <1>3. CASE cmd = "reset"
    <2>1. cmd' \notin Listers
      BY ONLY <1>1, <1>3 DEF Listers
    <2> QED BY ONLY <2>1, ListsNothing
  <1>4. CASE pc' = "negotiate" /\ exit' = exit
    <2>1. pc' \notin Listings \cup {"idle"} /\ exit' # "ok"
      BY ONLY <1>2, <1>4 DEF Listings
    <2>2. shown' = <<>> /\ item' = NoItem
      BY ONLY <1>1, <1>2, Zenon
    <2> QED BY ONLY <2>1, <2>2, ListsBegin
  <1> QED BY ONLY <1>1, <1>3, <1>4, Zenon

LEMMA ListsNegotiate ==
  ASSUME TypeInv, TruthInv, CleanInv, ListsInv, Negotiate PROVE ListsInv'
  <1>1. /\ pc = "negotiate" /\ UNCHANGED <<cmd, item, shown>>
        /\ \/ cmd = "version"
           \/ pc' = "idle" /\ exit' = "error"
           \/ pc' = First[cmd] /\ exit' = exit
    BY ONLY Negotiate, Zenon DEF Negotiate, Fail, GoTo
  <1>2. shown = <<>> /\ item = NoItem /\ exit = "none"
    <2>1. shown = <<>>
      BY ONLY TruthInv, <1>1 DEF TruthInv, SaidInv
    <2>2. item = NoItem
      BY ONLY TypeInv, <1>1 DEF TypeInv, ItemInv
    <2>3. exit = "none"
      BY ONLY CleanInv, <1>1 DEF CleanInv
    <2> QED BY ONLY <2>1, <2>2, <2>3
  <1>3. CASE cmd = "version"
    <2>1. cmd' \notin Listers
      BY ONLY <1>1, <1>3 DEF Listers
    <2> QED BY ONLY <2>1, ListsNothing
  <1>4. CASE pc' = "idle" /\ exit' = "error"
    <2>1. exit' # "ok"
      BY ONLY <1>4
    <2> QED BY ONLY ListsInv, <1>1, <1>4, <2>1, ListsStop, Zenon
  <1>5. CASE exit' = exit
    <2>1. exit' # "ok"
      BY ONLY <1>2, <1>5
    <2>2. pc' = "idle" \/ pc' \notin Listings \cup {"idle"}
      <3>1. pc' \in {"nodeId", "tryInit", "guard", "restore", "count", "value",
                     "set", "idle"}
        BY ONLY TypeInv, Negotiate, FirstPlaces
      <3> QED BY ONLY <3>1 DEF Listings
    <2>3. shown' = <<>> /\ item' = NoItem
      BY ONLY <1>1, <1>2, Zenon
    <2>4. pc' = "idle" => ListsInv'
      BY ONLY ListsInv, <1>1, <2>1, ListsStop, Zenon
    <2>5. pc' \notin Listings \cup {"idle"} => ListsInv'
      BY ONLY <2>1, <2>3, ListsBegin, Zenon
    <2> QED BY ONLY <2>2, <2>4, <2>5
  <1> QED BY ONLY <1>1, <1>3, <1>4, <1>5, Zenon

(* The process ends early.                                                 *)
LEMMA ListsEnd ==
  ASSUME ListsInv, NoConnection \/ Kill PROVE ListsInv'
  <1>1. /\ UNCHANGED <<cmd, shown>> /\ pc' = "idle"
        /\ exit' = "error" \/ exit' = "killed"
    BY ONLY NoConnection \/ Kill, Zenon DEF NoConnection, Kill, Fail
  <1>2. exit' # "ok"
    BY ONLY <1>1
  <1> QED BY ONLY ListsInv, <1>1, <1>2, ListsStop, Zenon

(* The calls of the other commands.                                        *)
LEMMA ListsPlain ==
  ASSUME TypeInv, KeepInv, TruthInv, PlainCall PROVE ListsInv'
  <1>1. PICK a \in Answers : Return(a) /\ pc \in Places
    BY ONLY PlainCall, PlainMoves, Zenon
  <1>2. Returned(a)
    BY ONLY TypeInv, KeepInv, TruthInv, <1>1, a \in Answers, Zenon DEF Returned
  <1>3. pc \in {"nodeId", "eui64", "tryInit", "state", "params", "guard",
                "init", "secure", "form", "restore", "permit", "set"}
    BY ONLY PlainCall
       DEF PlainCall, NodeId, Eui64, TryInit, State, Params, Guard,
           InitNetwork, Secure, Form, Restore, Permit, SetConfig, StatusCall
  <1>4. pc \in PlacesOf(cmd)
    BY ONLY <1>2, CallPlace
  <1>5. cmd \notin Listers
    <2> SUFFICES ASSUME cmd \in Listers PROVE FALSE
      BY Zenon
    <2>1. cmd = "endpoints" \/ cmd = "list" \/ cmd = "get"
      BY ONLY cmd \in Listers DEF Listers
    <2>2. pc \in {"count"} \cup Listings \/ pc \in {"value"}
      BY ONLY <1>4, <2>1, PlacesAre, Zenon
    <2> QED BY ONLY <1>3, <2>2 DEF Listings
  <1>6. cmd' = cmd
    BY ONLY <1>2, CallFrame, Zenon
  <1>7. cmd' \notin Listers
    BY ONLY <1>5, <1>6, Zenon
  <1> QED BY ONLY <1>7, ListsNothing

(* The NCP changes no configuration while one is listed.                   *)
LEMMA ListsNcp ==
  ASSUME TypeInv, KeepInv, TruthInv, CleanInv, ListsInv, NcpCommand
  PROVE  ListsInv'
  <1>1. UNCHANGED <<cmd, arg, pc, item, exit, shown>>
    BY ONLY TypeInv, NcpCommand, NcpMoves, NcpStays, Zenon
  <1>2. ASSUME clean' PROVE clean /\ (cmd \in {"list", "get"} => config' = config)
    <2>1. /\ clean /\ pc \in Places
          /\ pc \in QueryPlaces /\ (pc = "count" => extended) => NcpQuery
      BY ONLY TypeInv, KeepInv, CleanInv, NcpCommand, <1>2, CleanTakes
    <2>2. ASSUME cmd \in {"list", "get"} PROVE config' = config
      <3>1. pc \in PlacesOf(cmd)
        BY ONLY TruthInv, <2>1, Zenon DEF TruthInv, SaidInv
      <3>2. cmd = "list" \/ cmd = "get"
        BY ONLY <2>2
      <3>3. pc \in {"value"}
        BY ONLY <3>1, <3>2, PlacesAre, Zenon
      <3>4. pc \in QueryPlaces /\ pc # "count"
        BY ONLY <3>3 DEF QueryPlaces
      <3>5. NcpQuery
        BY ONLY <2>1, <3>4, Zenon
      <3> QED BY ONLY <3>5, Zenon DEF NcpQuery
    <2> QED BY ONLY <2>1, <2>2
  <1> QED BY ONLY ListsInv, <1>1, <1>2, ListsKept

LEMMA ListsStep ==
  TypeInv /\ KeepInv /\ TruthInv /\ CleanInv /\ ListsInv /\ [Next]_vars =>
    ListsInv'
  <1> SUFFICES ASSUME TypeInv, KeepInv, TruthInv, CleanInv, ListsInv,
                      [Next]_vars
               PROVE  ListsInv'
    OBVIOUS
  <1>1. ASSUME NEW c \in Commands, Start(c) PROVE ListsInv'
    BY ONLY <1>1, ListsStart
  <1>2. ASSUME Reset PROVE ListsInv'
    BY ONLY TypeInv, TruthInv, CleanInv, ListsInv, <1>2, ListsReset
  <1>3. ASSUME Negotiate PROVE ListsInv'
    BY ONLY TypeInv, TruthInv, CleanInv, ListsInv, <1>3, ListsNegotiate
  <1>4. ASSUME NoConnection \/ Kill PROVE ListsInv'
    BY ONLY ListsInv, <1>4, ListsEnd
  <1>5. ASSUME Ask \/ NcpRestart \/ UNCHANGED vars PROVE ListsInv'
    <2>1. ASSUME Ask
          PROVE  /\ UNCHANGED <<cmd, arg, pc, item, exit, shown, config>>
                 /\ clean' => clean
      <3>1. clean' = clean \/ clean' = FALSE
        BY ONLY <2>1, Zenon DEF Ask
      <3>2. UNCHANGED <<progVars, pc, ncpVars>>
        BY ONLY <2>1, Zenon DEF Ask
      <3>3. UNCHANGED <<cmd, arg, pc, item, exit, shown, config>>
        BY ONLY <3>2, Zenon DEF progVars, ncpVars
      <3> QED BY ONLY <3>1, <3>3, SMT
    <2>2. ASSUME NcpRestart
          PROVE  UNCHANGED <<cmd, arg, pc, item, exit, shown>> /\ ~clean'
      BY ONLY <2>2, Zenon DEF NcpRestart, progVars
    <2>3. ASSUME UNCHANGED vars
          PROVE  /\ UNCHANGED <<cmd, arg, pc, item, exit, shown, config>>
                 /\ clean' => clean
      BY ONLY <2>3, Zenon DEF vars, progVars, ncpVars
    <2>4. /\ UNCHANGED <<cmd, arg, pc, item, exit, shown>>
          /\ ~clean' \/ (config' = config /\ (clean' => clean))
      BY ONLY <1>5, <2>1, <2>2, <2>3, Zenon
    <2> QED BY ONLY ListsInv, <2>4, ListsKept, Zenon
  <1>6. ASSUME PlainCall PROVE ListsInv'
    BY ONLY TypeInv, KeepInv, TruthInv, <1>6, ListsPlain
  <1>7. ASSUME Count \/ Endpoint \/ Description \/ Cluster \/ Value
        PROVE  ListsInv'
    BY ONLY TypeInv, KeepInv, TruthInv, CleanInv, ListsInv, <1>7, ListsCount,
            ListsEndpoint, ListsDescription, ListsCluster, ListsValue, Zenon
  <1>8. ASSUME NcpCommand PROVE ListsInv'
    BY ONLY TypeInv, KeepInv, TruthInv, CleanInv, ListsInv, <1>8, ListsNcp
  <1> QED BY ONLY [Next]_vars, Steps, <1>1, <1>2, <1>3, <1>4, <1>5, <1>6,
                  <1>7, <1>8, Zenon

LEMMA ListsAlways == Spec => []ListsInv
  <1>1. Init => KeepInv
    BY ONLY TRUE, Zenon DEF Init, KeepInv
  <1>2. Spec => []KeepInv
    BY <1>1, KeepStep, TypeAlways, PTL DEF Spec
  <1>3. Spec => []TruthInv
    BY <1>2, TruthInit, TruthStep, TypeAlways, PTL DEF Spec
  <1>4. Init => ListsInv
    <2> SUFFICES ASSUME Init PROVE ListsInv
      OBVIOUS
    <2>1. cmd = "none"
      BY ONLY Init, Zenon DEF Init
    <2> QED BY ONLY <2>1 DEF ListsInv, ListKept, ListsConfig, Listers
  <1> QED BY <1>2, <1>3, <1>4, ListsStep, CleanAlways, TypeAlways, PTL DEF Spec

(* If no two of the NCP's endpoints have the same number: what config list *)
(* and get and endpoints print is, if nothing went wrong since the reset,  *)
(* what the NCP has, all of it and in order; and config list names every   *)
(* ID whatever went wrong.                                                 *)
THEOREM ListsAllTheorem ==
  ASSUME DistinctEndpoints PROVE Spec => []ListsAll
  <1>1. CleanInv /\ ListsInv => ListsAll
    <2> SUFFICES ASSUME CleanInv, ListsInv PROVE ListsAll
      OBVIOUS
    <2>1. exit = "ok" => pc = "idle"
      BY ONLY CleanInv DEF CleanInv
    <2>2. ListsConfig
      BY ONLY ListsInv, Zenon DEF ListsInv
    <2>3. exit = "ok" /\ cmd = "endpoints" /\ clean =>
            ListsEndpoints(shown, Len(Endpoints))
      BY ONLY ListsInv, DistinctEndpoints, <2>1, Zenon
         DEF ListsInv, EndpointsHeld
    <2> QED BY ONLY <2>2, <2>3, Zenon DEF ListsAll, ListsConfig
  <1> QED BY <1>1, ListsAlways, CleanAlways, PTL
===============================================================================
