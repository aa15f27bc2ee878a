----------------------------- MODULE CliTruthProofs -----------------------------
(* Cli: what a command says of the NCP is so, for every value of the       *)
(* constants.                                                              *)
EXTENDS CliProofs

------------------------------------------------------------------------------
(* The inductive invariant.                                                *)

(* The network that a command speaks of is the one it leaves behind:       *)
(* network init is through with forming, the others form none.             *)
Settled == cmd # "init" \/ said \in {"active", "resumed", "formed"}

NodeID == IF up THEN 0 ELSE noNodeID

EUI64 == [k \in 1 .. 8 |-> k]

StateByte == IF up THEN joinedNetwork ELSE 0

(* A request asks for what this command is to do.                          *)
Asks(fid, p) ==
  /\ fid = frameIDPermitJoining => p[1] = arg
  /\ fid = frameIDSetConfigurationValue =>
       p = SetConfigurationValueParams(arg, SetValue)
  /\ fid = frameIDFormNetwork => ~Settled
  /\ fid = frameIDGetNetworkParameters => Settled
  /\ cmd = "info" => fid \in {frameIDGetNodeID, frameIDGetEUI64}

(* What an answer says is so.                                              *)
Says(fid, p) ==
  /\ fid = frameIDNetworkInit /\ Status(p).ok => stored # NoNetwork
  /\ fid = frameIDFormNetwork /\ Status(p).ok =>
       stored # NoNetwork /\ stored.formed = session
  /\ fid = frameIDPermitJoining /\ Status(p).ok => up /\ joining = arg
  /\ fid = frameIDSetConfigurationValue /\ Status(p).ok =>
       config[arg] = SetValue
  /\ /\ fid = frameIDNetworkState
     /\ NetworkState(p).ok /\ NetworkState(p).v = joinedNetwork
     => stored # NoNetwork
  /\ fid = frameIDGetNodeID /\ GetNodeID(p).ok /\ cmd = "info" =>
       GetNodeID(p).v = NodeID
  /\ fid = frameIDGetEUI64 /\ GetEUI64(p).ok => GetEUI64(p).v = EUI64
  /\ fid = frameIDGetNetworkParameters /\ GetNetworkParameters(p).ok =>
       /\ Settled /\ stored # NoNetwork
       /\ GetNetworkParameters(p).v = Printed

(* Frame f reads as this frame ID and these parameters.                    *)
Reads(e, f, fid, p) ==
  /\ decode(e, f).ok
  /\ decode(e, f).v.frameID = fid /\ decode(e, f).v.params = p

AsksTrue ==
  \A k \in DOMAIN outbox : \A fid, p :
    Reads(ncpExt, outbox[k], fid, p) => Asks(fid, p)

SaysTrue ==
  \A k \in DOMAIN inbox : \A fid, p :
    Reads(ncpExt, inbox[k], fid, p) => Says(fid, p)

Forms(e, f) ==
  decode(e, f).ok /\ decode(e, f).v.frameID = frameIDFormNetwork

FormRequest == \E k \in DOMAIN outbox : Forms(ncpExt, outbox[k])

FormAnswer == \E k \in DOMAIN inbox : Forms(ncpExt, inbox[k])

(* A network is formed once: the request for it, or the answer, is on the  *)
(* line while the command waits for it.                                    *)
FormsOnce ==
  /\ FormRequest \/ FormAnswer =>
       pc = "idle" \/ said = "formed" \/ (pc = "form" /\ waiting)
  /\ ~ (FormRequest /\ FormAnswer)
  /\ \A k, m \in DOMAIN outbox :
       Forms(ncpExt, outbox[k]) /\ Forms(ncpExt, outbox[m]) => k = m

PlacesOf(c) ==
  CASE c = "info" -> {"nodeId", "eui64"}
    [] c = "state" -> {"tryInit", "state", "params"}
    [] c = "init" -> {"guard", "init", "secure", "form", "state", "params"}
    [] c = "permit" -> {"restore", "permit"}
    [] c = "endpoints" -> {"count"} \cup Listings
    [] c \in {"list", "get"} -> {"value"}
    [] c = "set" -> {"set"}
    [] OTHER -> {}

(* Where the command is, and what it has said and printed so far.          *)
SaidInv ==
  /\ pc \in Places => pc \in PlacesOf(cmd)
  /\ pc # "idle" /\ (pc \in {"state", "params"} => cmd = "state") =>
       said = "none"
  /\ pc \in {"negotiate", "guard", "init"} => stored = before
  /\ pc \in {"state", "params"} => Settled
  /\ pc \in {"reset", "negotiate", "nodeId", "tryInit", "guard", "init",
             "secure", "form", "state"} => shown = <<>>
  /\ pc = "params" => shown = <<shown[1]>>
  /\ pc = "eui64" /\ linked => shown = <<NodeID>>

(* What a command has claimed, and why it stays so.                        *)
ClaimInv ==
  /\ said = "formed" => stored # NoNetwork /\ stored.formed = session
  /\ said \in {"resumed", "active"} => stored # NoNetwork /\ stored = before
  /\ said = "noNetwork" => cmd = "state" /\ (clean => stored = NoNetwork)
  /\ said \in {"open", "closed"} /\ linked => up /\ joining = arg
  /\ said = "set" /\ linked => config[arg] = SetValue
  /\ said = "info" =>
       cmd = "info" /\ (linked => shown = <<NodeID, EUI64>>)
  /\ cmd \in {"state", "init"} /\ Len(shown) = 2 =>
       Settled /\ stored # NoNetwork /\ shown[2] = Printed

(* When network state asks for it, a network that is stored is up.         *)
TriedInv ==
  clean /\ cmd = "state" =>
    /\ pc = "tryInit" /\ inbox # <<>> => up \/ stored = NoNetwork
    /\ pc = "state" => up \/ stored = NoNetwork
    /\ pc = "state" /\ inbox # <<>> => Answered = <<StateByte>>

TruthInv ==
  AsksTrue /\ SaysTrue /\ FormsOnce /\ SaidInv /\ ClaimInv /\ TriedInv

------------------------------------------------------------------------------
(* What stays true.                                                        *)

LEMMA AsksKept ==
  ASSUME UNCHANGED <<cmd, arg>>, Settled' = Settled
  PROVE  \A fid, p : Asks(fid, p) => Asks(fid, p)'
  BY ONLY UNCHANGED <<cmd, arg>>, Settled' = Settled, Zenon DEF Asks

LEMMA PrintedSame ==
  ASSUME stored' = stored PROVE Printed' = Printed
  BY ONLY stored' = stored, Zenon DEF Printed

LEMMA SaysKept ==
  ASSUME UNCHANGED <<cmd, arg, session, stored, up, joining, config>>,
         Settled => Settled'
  PROVE  \A fid, p : Says(fid, p) => Says(fid, p)'
  <1>1. Printed' = Printed /\ NodeID' = NodeID
    BY ONLY UNCHANGED <<stored, up>>, PrintedSame, Zenon DEF NodeID
  <1> QED BY ONLY UNCHANGED <<cmd, arg, session, stored, up, joining, config>>,
                  Settled => Settled', <1>1, SMT DEF Says

(* Nothing is on the line.                                                 *)
LEMMA LineEmpty ==
  ASSUME outbox' = <<>>, inbox' = <<>>
  PROVE  AsksTrue' /\ SaysTrue' /\ FormsOnce'
  <1>1. DOMAIN outbox' = {} /\ DOMAIN inbox' = {}
    BY ONLY outbox' = <<>>, inbox' = <<>>, QueueEmpty
  <1>2. AsksTrue' /\ SaysTrue'
    BY ONLY <1>1, Zenon DEF AsksTrue, SaysTrue
  <1>3. FormsOnce'
    <2>1. ~FormRequest' /\ ~FormAnswer'
      BY ONLY <1>1, Zenon DEF FormRequest, FormAnswer
    <2> QED BY ONLY <1>1, <2>1, Zenon DEF FormsOnce
  <1> QED BY ONLY <1>2, <1>3

(* What is on the line after a step was there before, or is true.          *)
LEMMA LineKept ==
  ASSUME AsksTrue, SaysTrue, ncpExt' = ncpExt,
         \A fid, p : Asks(fid, p) => Asks(fid, p)',
         \A fid, p : Says(fid, p) => Says(fid, p)',
         \A k \in DOMAIN outbox' :
           \/ \E m \in DOMAIN outbox : outbox'[k] = outbox[m]
           \/ \A fid, p :
                Reads(ncpExt, outbox'[k], fid, p) => Asks(fid, p)',
         \A k \in DOMAIN inbox' :
           \/ \E m \in DOMAIN inbox : inbox'[k] = inbox[m]
           \/ \A fid, p : Reads(ncpExt, inbox'[k], fid, p) => Says(fid, p)'
  PROVE  AsksTrue' /\ SaysTrue'
  <1>1. \A k \in DOMAIN outbox' : \A fid, p :
          Reads(ncpExt, outbox'[k], fid, p) => Asks(fid, p)'
    BY Zenon DEF AsksTrue
  <1>2. \A k \in DOMAIN inbox' : \A fid, p :
          Reads(ncpExt, inbox'[k], fid, p) => Says(fid, p)'
    BY Zenon DEF SaysTrue
  <1> QED BY ONLY <1>1, <1>2, ncpExt' = ncpExt, Zenon DEF AsksTrue, SaysTrue

(* A frame that was written reads as what it was made of.                  *)
LEMMA WrittenReads ==
  ASSUME ncpExt \in BOOLEAN, NEW fid \in Word, NEW p \in Seq(Byte)
  PROVE  /\ \A i, q : Reads(ncpExt, encode(ncpExt, 0, fid, p), i, q) =>
                        i = Wire(ncpExt, fid) /\ q = p
         /\ Forms(ncpExt, encode(ncpExt, 0, fid, p)) <=>
              Wire(ncpExt, fid) = frameIDFormNetwork
  <1>1. PICK f : f = encode(ncpExt, 0, fid, p)
    BY ONLY TRUE, Zenon
  <1>2. /\ decode(ncpExt, f).ok
        /\ decode(ncpExt, f).v.frameID = Wire(ncpExt, fid)
        /\ decode(ncpExt, f).v.params = p
    BY ONLY <1>1, ncpExt \in BOOLEAN, fid \in Word, p \in Seq(Byte), Written,
            Zenon
  <1> QED BY ONLY <1>1, <1>2, Zenon DEF Reads, Forms

------------------------------------------------------------------------------
(* What the NCP says is true.                                              *)

LEMMA CommandIDs ==
  /\ frameIDNetworkState \notin
       {frameIDNetworkInit, frameIDFormNetwork, frameIDPermitJoining,
        frameIDSetConfigurationValue, frameIDGetNodeID, frameIDGetEUI64,
        frameIDGetNetworkParameters}
  /\ frameIDGetNodeID \notin
       {frameIDNetworkInit, frameIDFormNetwork, frameIDPermitJoining,
        frameIDSetConfigurationValue, frameIDNetworkState, frameIDGetEUI64,
        frameIDGetNetworkParameters}
  /\ frameIDGetEUI64 \notin
       {frameIDNetworkInit, frameIDFormNetwork, frameIDPermitJoining,
        frameIDSetConfigurationValue, frameIDNetworkState, frameIDGetNodeID,
        frameIDGetNetworkParameters}
  /\ frameIDGetNetworkParameters \notin
       {frameIDNetworkInit, frameIDFormNetwork, frameIDPermitJoining,
        frameIDSetConfigurationValue, frameIDNetworkState, frameIDGetNodeID,
        frameIDGetEUI64}
  /\ frameIDNetworkInit \notin
       {frameIDFormNetwork, frameIDPermitJoining, frameIDSetConfigurationValue,
        frameIDSetInitialSecurityState}
  /\ frameIDFormNetwork \notin
       {frameIDNetworkInit, frameIDPermitJoining, frameIDSetConfigurationValue,
        frameIDSetInitialSecurityState}
  /\ frameIDPermitJoining \notin
       {frameIDNetworkInit, frameIDFormNetwork, frameIDSetConfigurationValue,
        frameIDSetInitialSecurityState}
  /\ frameIDSetConfigurationValue \notin
       {frameIDNetworkInit, frameIDFormNetwork, frameIDPermitJoining,
        frameIDSetInitialSecurityState}
  BY ONLY TRUE, SMT
     DEF frameIDNetworkInit, frameIDNetworkState, frameIDFormNetwork,
         frameIDPermitJoining, frameIDGetEUI64, frameIDGetNodeID,
         frameIDGetNetworkParameters, frameIDSetConfigurationValue,
         frameIDSetInitialSecurityState

LEMMA QueryIDs ==
  /\ {frameIDNetworkState, frameIDGetNodeID, frameIDGetEUI64,
      frameIDGetNetworkParameters} \subseteq Queries
  /\ Queries \cap Writes = {} /\ 88 \notin Queries \cup Writes
  /\ frameIDNetworkInit \in Writes /\ frameIDFormNetwork \in Writes
  /\ frameIDPermitJoining \in Writes /\ frameIDSetConfigurationValue \in Writes
  BY ONLY TRUE, SMT
     DEF Queries, Writes,
         frameIDNetworkInit, frameIDNetworkState, frameIDFormNetwork,
         frameIDPermitJoining, frameIDGetEUI64, frameIDGetNodeID,
         frameIDGetNetworkParameters, frameIDGetConfigurationValue,
         frameIDSetConfigurationValue, frameIDSetInitialSecurityState,
         frameIDGetEndpoint, frameIDGetEndpointCount,
         frameIDGetEndpointDescription, frameIDGetEndpointCluster

(* Refusals, and answers to other requests, say nothing.                   *)
LEMMA SaysNothing ==
  ASSUME NEW fid, NEW p,
         \/ fid \notin Queries \cup Writes
         \/ fid \in Writes /\ ~Status(p).ok
         \/ fid \in Queries \ {frameIDNetworkState, frameIDGetNodeID,
                               frameIDGetEUI64, frameIDGetNetworkParameters}
         \/ fid = frameIDSetInitialSecurityState
  PROVE  Says(fid, p)'
  <1>1. fid = frameIDSetInitialSecurityState =>
          fid \in Writes /\ fid \notin {frameIDNetworkInit, frameIDFormNetwork,
                        frameIDPermitJoining, frameIDSetConfigurationValue}
    BY ONLY CommandIDs, NotSecured, Zenon
  <1>2. fid \notin {frameIDNetworkState, frameIDGetNodeID, frameIDGetEUI64,
                    frameIDGetNetworkParameters}
    BY <1>1, QueryIDs, Zenon
  <1>3. ~Status(p).ok \/ fid \notin {frameIDNetworkInit, frameIDFormNetwork,
                        frameIDPermitJoining, frameIDSetConfigurationValue}
    BY <1>1, QueryIDs, Zenon
  <1> QED BY ONLY <1>2, <1>3, SMT DEF Says

(* What the NCP answers to the queries of info and network state.          *)
LEMMA QueryAnswers ==
  ASSUME NEW p
  PROVE  /\ Answer(frameIDNetworkState, p) = <<StateByte>>
         /\ Answer(frameIDGetNodeID, p) = PutUint16(NodeID)
         /\ Answer(frameIDGetEUI64, p) = EUI64
         /\ Answer(frameIDGetNetworkParameters, p) = NetworkParametersResponse
  <1>1. PICK A, B, C, D :
          /\ A = frameIDNetworkState /\ B = frameIDGetNodeID
          /\ C = frameIDGetEUI64 /\ D = frameIDGetNetworkParameters
          /\ {A, B, C, D} \cap {frameIDGetConfigurationValue,
               frameIDGetEndpointCount, frameIDGetEndpoint,
               frameIDGetEndpointDescription, frameIDGetEndpointCluster} = {}
          /\ A # B /\ A # C /\ A # D /\ B # C /\ B # D /\ C # D
    BY ONLY TRUE, SMT
       DEF frameIDNetworkState, frameIDGetNodeID, frameIDGetEUI64,
           frameIDGetNetworkParameters, frameIDGetConfigurationValue,
           frameIDGetEndpointCount, frameIDGetEndpoint,
           frameIDGetEndpointDescription, frameIDGetEndpointCluster
  <1>2. /\ Answer(A, p) = <<StateByte>>
        /\ Answer(B, p) = PutUint16(NodeID)
        /\ Answer(C, p) = EUI64
        /\ Answer(D, p) = NetworkParametersResponse
    <2>1. Answer(A, p) = <<StateByte>>
      BY ONLY <1>1, StateAnswer, Zenon DEF StateByte
    <2>2. Answer(B, p) = PutUint16(NodeID)
      BY ONLY <1>1, Zenon DEF Answer, NodeID
    <2>3. Answer(C, p) = EUI64
      BY ONLY <1>1, Zenon DEF Answer, EUI64
    <2>4. Answer(D, p) = NetworkParametersResponse
      BY ONLY <1>1, Zenon DEF Answer
    <2> QED BY ONLY <2>1, <2>2, <2>3, <2>4
  <1> QED BY ONLY <1>1, <1>2, Zenon

(* While the network is up, its parameters are told as they are stored.    *)
LEMMA ParametersWhole ==
  ASSUME TypeInv, up
  PROVE  /\ stored # NoNetwork
         /\ GetNetworkParameters(NetworkParametersResponse) = Ok(Printed)
  <1>1. stored # NoNetwork
    BY ONLY TypeInv, up, Zenon DEF TypeInv, NcpInv
  <1>2. PICK x, n, t, c, m :
          /\ x = stored.extendedPanID /\ n = stored.panID
          /\ t = stored.radioTxPower /\ c = stored.radioChannel
          /\ m = IF ncp.version >= 14 THEN Repeat(7, 3) ELSE <<>>
    BY ONLY TRUE, Zenon
  <1>3. /\ 1 \in Byte /\ 0 \in Byte /\ 7 \in Byte /\ 8 \in Nat /\ 3 \in Nat
    BY ONLY TRUE DEF Byte
  <1>4. /\ Repeat(0, 8) \in Seq(Byte) /\ Len(Repeat(0, 8)) = 8
        /\ Repeat(7, 3) \in Seq(Byte)
    BY ONLY <1>3, RepeatBytes
  <1>5. /\ x = Repeat(0, 8) /\ n \in Word /\ t \in -128 .. 127
        /\ c \in 11 .. 26
    BY ONLY TypeInv, <1>1, <1>2, StoredType
  <1>6. c \in Byte
    BY ONLY <1>5 DEF Byte
  <1>7. m \in Seq(Byte)
    BY ONLY <1>2, <1>4, StatusBytes, Zenon
  <1>8. x \in Seq(Byte) /\ Len(x) = 8
    BY ONLY <1>4, <1>5, Zenon
  <1>9. NetworkParametersResponse = ParametersResponse(1, x, n, m, t, c)
    BY ONLY <1>2, up, Zenon
       DEF NetworkParametersResponse, ParametersResponse
  <1>10. GetNetworkParameters(NetworkParametersResponse) =
           Ok([nodeType |-> 1, extendedPanID |-> x, panID |-> n,
               radioTxPower |-> t, radioChannel |-> c])
    <2>1. PICK y \in Byte : y = 1
      BY ONLY <1>3, Zenon
    <2>2. y \in Byte
      BY ONLY y \in Byte
    <2>3. x \in Seq(Byte)
      BY ONLY <1>8, Zenon
    <2>4. Len(x) = 8
      BY ONLY <1>8, Zenon
    <2>5. n \in Word
      BY ONLY <1>5, Zenon
    <2>6. t \in -128 .. 127
      BY ONLY <1>5, Zenon
    <2>7. GetNetworkParameters(ParametersResponse(y, x, n, m, t, c)) =
            Ok([nodeType |-> y, extendedPanID |-> x, panID |-> n,
                radioTxPower |-> t, radioChannel |-> c])
      BY ONLY <2>2, <2>3, <2>4, <2>5, <2>6, <1>6, <1>7,
              ParametersRoundTrip, ZenonT(60)
    <2>8. GetNetworkParameters(ParametersResponse(1, x, n, m, t, c)) =
            Ok([nodeType |-> 1, extendedPanID |-> x, panID |-> n,
                radioTxPower |-> t, radioChannel |-> c])
      BY ONLY <2>1, <2>7, Zenon
    <2> QED BY ONLY <1>9, <2>8, Zenon
  <1>11. Printed = [nodeType |-> 1, extendedPanID |-> x, panID |-> n,
                    radioTxPower |-> t, radioChannel |-> c]
    BY ONLY <1>2, Zenon DEF Printed
  <1> QED BY ONLY <1>1, <1>10, <1>11, Zenon

(* The parameters of the network are told as they are stored, and only     *)
(* while it is up.                                                         *)
LEMMA ParametersTold ==
  ASSUME TypeInv, GetNetworkParameters(NetworkParametersResponse).ok
  PROVE  /\ stored # NoNetwork
         /\ GetNetworkParameters(NetworkParametersResponse).v = Printed
  <1>1. CASE ~up
    <2>1. 0 \in Byte /\ 21 \in Nat
      BY ONLY TRUE DEF Byte
    <2>2. PICK h, z, r : /\ h = <<emberNotJoined>> /\ z = Repeat(0, 21)
                         /\ r = Cat(h, z)
      BY ONLY TRUE, Zenon
    <2>3. h \in Seq(Byte) /\ Len(h) = 1 /\ h[1] = emberNotJoined
      <3>1. h \in Seq(Byte)
        BY ONLY <2>2, StatusBytes, Zenon
      <3> QED BY ONLY <2>2, <3>1
    <2>4. z \in Seq(Byte)
      BY ONLY <2>1, <2>2, RepeatBytes
    <2>5. r[1] = h[1]
      <3>1. \A i \in 1 .. Len(h) : r[i] = h[i]
        BY ONLY <2>2, <2>3, <2>4, CatLeft
      <3> QED BY ONLY <2>3, <3>1
    <2>6. r[1] # 0
      BY ONLY <2>3, <2>5 DEF emberNotJoined
    <2>7. r = NetworkParametersResponse
      BY ONLY <1>1, <2>2, Zenon DEF NetworkParametersResponse, Cat
    <2>8. ~GetNetworkParameters(r).ok
      BY ONLY <2>6 DEF GetNetworkParameters, Err
    <2> QED BY <2>7, <2>8, Zenon
  <1>2. CASE up
    <2>1. /\ stored # NoNetwork
          /\ GetNetworkParameters(NetworkParametersResponse) = Ok(Printed)
      BY ONLY TypeInv, <1>2, ParametersWhole
    <2>2. Ok(Printed).v = Printed
      BY ONLY TRUE DEF Ok
    <2> QED BY ONLY <2>1, <2>2, Zenon
  <1> QED BY ONLY <1>1, <1>2, Zenon

(* The NCP answers a query truly, and a response that is cut short is not  *)
(* taken for an answer.                                                    *)
LEMMA QueryTrue ==
  ASSUME TypeInv, NEW fid \in Queries, NEW p \in Seq(Byte),
         Legit(fid, p), Asks(fid, p)
  PROVE  /\ Says(fid, Answer(fid, p))
         /\ \A n \in 0 .. Min({Len(Answer(fid, p)), 22}) - 1 :
              Says(fid, SubSeq(Answer(fid, p), 1, n))
  <1>1. PICK w \in Seq(Byte) : w = Answer(fid, p)
    BY ONLY TypeInv, fid \in Queries, p \in Seq(Byte), Legit(fid, p),
            AnswerBytes
  <1>2. Len(w) \in Nat /\ \A i \in 1 .. Len(w) : w[i] \in Byte
    BY ONLY w \in Seq(Byte), QueueType
  <1>3. \A n \in 0 .. Min({Len(w), 22}) - 1 :
          /\ n \in Nat /\ n < Len(w) /\ n < 22 /\ Len(SubSeq(w, 1, n)) = n
    <2> SUFFICES ASSUME NEW n \in 0 .. Min({Len(w), 22}) - 1
                 PROVE  /\ n \in Nat /\ n < Len(w) /\ n < 22
                        /\ Len(SubSeq(w, 1, n)) = n
      OBVIOUS
    <2>1. \E x \in {Len(w), 22} : \A y \in {Len(w), 22} : x <= y
      BY ONLY <1>2
    <2>2. /\ Min({Len(w), 22}) \in {Len(w), 22}
          /\ \A y \in {Len(w), 22} : Min({Len(w), 22}) <= y
      BY ONLY <2>1, Zenon DEF Min
    <2>3. n \in Nat /\ n < Len(w) /\ n < 22
      BY ONLY <1>2, <2>2
    <2>4. /\ 1 \in Int /\ n \in Int /\ \A i \in 1 .. n : w[i] \in Byte
      BY ONLY <1>2, <2>3
    <2>5. Len(SubSeq(w, 1, n)) = IF 1 <= n THEN n - 1 + 1 ELSE 0
      BY ONLY <2>4, SubSeqProperties
    <2> QED BY ONLY <2>3, <2>5
  <1>4. fid \notin Writes
    BY ONLY fid \in Queries, QueryIDs, Zenon
  <1>5. fid \notin {frameIDNetworkInit, frameIDFormNetwork,
                    frameIDPermitJoining, frameIDSetConfigurationValue}
    BY ONLY <1>4, QueryIDs, Zenon
  <1>6. CASE fid = frameIDNetworkState
    <2>1. w = <<StateByte>>
      BY ONLY <1>1, <1>6, QueryAnswers, Zenon
    <2>2. Len(w) = 1 /\ w[1] = StateByte
      BY ONLY <2>1
    <2>3. \A n \in 0 .. Min({Len(w), 22}) - 1 :
            ~NetworkState(SubSeq(w, 1, n)).ok
      BY ONLY <1>3, <2>2 DEF NetworkState, Err
    <2>4. NetworkState(w).v = joinedNetwork => stored # NoNetwork
      <3>1. NetworkState(w).v = StateByte
        BY ONLY <2>2 DEF NetworkState, Ok
      <3>2. StateByte = joinedNetwork => up
        BY ONLY TRUE, SMT DEF StateByte, joinedNetwork
      <3>3. up => stored # NoNetwork
        BY ONLY TypeInv, Zenon DEF TypeInv, NcpInv
      <3> QED BY ONLY <3>1, <3>2, <3>3
    <2>5. \A q : (NetworkState(q).v = joinedNetwork => stored # NoNetwork)
                  \/ ~NetworkState(q).ok => Says(fid, q)
      BY ONLY <1>5, <1>6, CommandIDs, SMT DEF Says
    <2> QED BY ONLY <1>1, <2>3, <2>4, <2>5, Zenon
  <1>7. CASE fid = frameIDGetNodeID
    <2>1. w = PutUint16(NodeID) /\ NodeID \in Word /\ NodeID \in Int
      <3>1. NodeID \in Word /\ NodeID \in Int
        BY ONLY TRUE, SMT DEF NodeID, Word, noNodeID
      <3> QED BY ONLY <1>1, <1>7, <3>1, QueryAnswers, Zenon
    <2>2. Len(w) = 2 /\ w[1] = Low(NodeID) /\ w[2] = High(NodeID)
      BY ONLY <2>1, PutUint16Bytes
    <2>3. \A n \in 0 .. Min({Len(w), 22}) - 1 :
            ~GetNodeID(SubSeq(w, 1, n)).ok
      BY ONLY <1>3, <2>2 DEF GetNodeID, Err
    <2>4. GetNodeID(w).v = NodeID
      <3>1. w[1 + 1] = High(NodeID)
        BY ONLY <2>2
      <3>2. Uint16(w, 1) = NodeID
        BY ONLY <2>1, <2>2, <3>1, Uint16Read
      <3> QED BY ONLY <2>2, <3>2 DEF GetNodeID, Ok
    <2>5. \A q : GetNodeID(q).v = NodeID \/ ~GetNodeID(q).ok => Says(fid, q)
      BY ONLY <1>5, <1>7, CommandIDs, SMT DEF Says
    <2> QED BY ONLY <1>1, <2>3, <2>4, <2>5, Zenon
  <1>8. CASE fid = frameIDGetEUI64
    <2>1. w = EUI64
      BY ONLY <1>1, <1>8, QueryAnswers, Zenon
    <2>2. Len(w) = 8
      <3>1. EUI64 \in [1 .. 8 -> Int] /\ 8 \in Nat
        BY ONLY TRUE, SMT DEF EUI64
      <3>2. Len(EUI64) = 8
        BY ONLY <3>1, IsSeq
      <3> QED BY ONLY <2>1, <3>2
    <2>3. \A n \in 0 .. Min({Len(w), 22}) - 1 :
            ~GetEUI64(SubSeq(w, 1, n)).ok
      BY ONLY <1>3, <2>2 DEF GetEUI64, Err
    <2>4. GetEUI64(w).v = EUI64
      <3>1. SubSeq(w, 1, 8) = w
        <4>1. /\ SubSeq(w, 1, 8) \in Seq(Byte) /\ Len(SubSeq(w, 1, 8)) = 8
              /\ \A i \in 1 .. 8 : SubSeq(w, 1, 8)[i] = w[i]
          <5>1. \A i \in 1 .. 8 : w[i] \in Byte
            BY ONLY <1>2, <2>2
          <5>2. /\ SubSeq(w, 1, 8) \in Seq(Byte)
                /\ Len(SubSeq(w, 1, 8)) = IF 1 <= 8 THEN 8 - 1 + 1 ELSE 0
                /\ \A i \in 1 .. 8 - 1 + 1 :
                     SubSeq(w, 1, 8)[i] = w[1 + i - 1]
            BY ONLY <5>1, SubSeqProperties
          <5>3. \A i \in 1 .. 8 : 1 + i - 1 = i /\ i \in 1 .. 8 - 1 + 1
            OBVIOUS
          <5> QED BY ONLY <5>2, <5>3
        <4> QED BY ONLY <2>2, <4>1, w \in Seq(Byte), SeqEqual
      <3> QED BY ONLY <2>1, <2>2, <3>1 DEF GetEUI64, Ok
    <2>5. \A q : GetEUI64(q).v = EUI64 \/ ~GetEUI64(q).ok => Says(fid, q)
      BY ONLY <1>5, <1>8, CommandIDs, SMT DEF Says
    <2> QED BY ONLY <1>1, <2>3, <2>4, <2>5, Zenon
  <1>9. CASE fid = frameIDGetNetworkParameters
    <2>1. w = NetworkParametersResponse
      BY ONLY <1>1, <1>9, QueryAnswers, Zenon
    <2>2. Settled
      BY ONLY <1>9, Asks(fid, p), Zenon DEF Asks
    <2>3. \A n \in 0 .. Min({Len(w), 22}) - 1 :
            ~GetNetworkParameters(SubSeq(w, 1, n)).ok
      BY ONLY <1>3 DEF GetNetworkParameters, Err
    <2>4. GetNetworkParameters(w).ok =>
            stored # NoNetwork /\ GetNetworkParameters(w).v = Printed
      BY ONLY TypeInv, <2>1, ParametersTold, Zenon
    <2>5. \A q : (GetNetworkParameters(q).ok =>
                    stored # NoNetwork /\ GetNetworkParameters(q).v = Printed)
                 => Says(fid, q)
      BY ONLY <1>5, <1>9, <2>2, CommandIDs, SMT DEF Says
    <2> QED BY ONLY <1>1, <2>3, <2>4, <2>5, Zenon
  <1>10. CASE fid \notin {frameIDNetworkState, frameIDGetNodeID,
                          frameIDGetEUI64, frameIDGetNetworkParameters}
    BY ONLY <1>5, <1>10, SMT DEF Says
  <1> QED BY ONLY <1>6, <1>7, <1>8, <1>9, <1>10, Zenon


------------------------------------------------------------------------------
(* The NCP's steps.                                                        *)

(* The request that the NCP takes asks for what this command is to do.     *)
LEMMA AskedTrue ==
  ASSUME TypeInv, AsksTrue, outbox # <<>>
  PROVE  /\ Asks(Asked.frameID, Asked.params)
         /\ 1 \in DOMAIN outbox /\ Len(outbox) \in Nat
         /\ Reads(ncpExt, outbox[1], Asked.frameID, Asked.params)
         /\ \A k \in DOMAIN Tail(outbox) :
              /\ k + 1 \in DOMAIN outbox /\ k + 1 # 1
              /\ Tail(outbox)[k] = outbox[k + 1]
         /\ \A k, m \in DOMAIN Tail(outbox) : k + 1 = m + 1 => k = m
  <1>1. /\ outbox \in Seq(Seq(Byte)) /\ \A k \in DOMAIN outbox : Sent(outbox[k])
    BY ONLY TypeInv, Zenon DEF TypeInv, LineInv
  <1>2. /\ Head(outbox) = outbox[1] /\ Len(outbox) \in Nat \ {0}
        /\ DOMAIN outbox = 1 .. Len(outbox)
        /\ DOMAIN Tail(outbox) = 1 .. Len(outbox) - 1
        /\ \A i \in 1 .. Len(outbox) - 1 : Tail(outbox)[i] = outbox[i + 1]
    BY ONLY <1>1, outbox # <<>>, QueueTail
  <1>3. 1 \in DOMAIN outbox
    BY ONLY <1>2
  <1>4. decode(ncpExt, outbox[1]).ok /\ Asked = decode(ncpExt, outbox[1]).v
    BY ONLY <1>1, <1>2, <1>3, Zenon DEF Sent, Asked
  <1>5. Reads(ncpExt, outbox[1], Asked.frameID, Asked.params)
    BY ONLY <1>4, Zenon DEF Reads
  <1>6. Asks(Asked.frameID, Asked.params)
    BY ONLY AsksTrue, <1>3, <1>5, Zenon DEF AsksTrue
  <1>7. PICK n \in Nat : n = Len(outbox)
    BY ONLY <1>2, Zenon
  <1>8. \A k \in 1 .. n - 1 : k + 1 \in 1 .. n /\ k + 1 # 1
    BY ONLY n \in Nat
  <1>9. \A k, m \in 1 .. n - 1 : k + 1 = m + 1 => k = m
    BY ONLY n \in Nat
  <1> QED BY ONLY <1>2, <1>3, <1>5, <1>6, <1>7, <1>8, <1>9, Zenon

LEMMA IntsJoined ==
  \A s, t \in Seq(Int) :
    /\ \A i \in 1 .. Len(s) : Cat(s, t)[i] = s[i]
    /\ \A i \in 1 .. Len(t) : Cat(s, t)[Len(s) + i] = t[i]
  <1>1. \A s, t \in Seq(Int) : \A i \in 1 .. Len(s) : Cat(s, t)[i] = s[i]
    BY Joined
  <1>2. \A s, t \in Seq(Int) :
          \A i \in 1 .. Len(t) : Cat(s, t)[Len(s) + i] = t[i]
    BY Joined
  <1> QED BY <1>1, <1>2, Zenon

(* The values in a request to set one.                                     *)
LEMMA ValueRead ==
  ASSUME NEW b \in Int, NEW v \in Word
  PROVE  /\ SetConfigurationValueParams(b, v)[1] = b
         /\ Uint16(SetConfigurationValueParams(b, v), 2) = v
  <1>1. PICK h, t, r : /\ h = <<b>> /\ t = PutUint16(v)
                       /\ r = Cat(h, t)
    BY ONLY TRUE, Zenon
  <1>2. SetConfigurationValueParams(b, v) = r
    BY ONLY <1>1, Zenon DEF SetConfigurationValueParams, Cat
  <1>3. v \in Int
    BY ONLY v \in Word DEF Word
  <1>4. t \in Seq(Byte) /\ Len(t) = 2 /\ t[1] = Low(v) /\ t[2] = High(v)
    BY ONLY <1>1, <1>3, PutUint16Bytes
  <1>5. h \in Seq(Int) /\ Len(h) = 1 /\ h[1] = b
    BY ONLY <1>1, b \in Int
  <1>6. /\ \A i \in 1 .. Len(h) : r[i] = h[i]
        /\ \A i \in 1 .. Len(t) : r[Len(h) + i] = t[i]
    <2>1. t \in Seq(Int)
      <3>1. v % 256 \in Int /\ (v \div 256) % 256 \in Int
        BY ONLY <1>3
      <3>2. PICK x \in Int, y \in Int : t = <<x, y>>
        BY ONLY <1>1, <3>1, ZenonT(60) DEF PutUint16
      <3>3. <<x, y>> \in Seq(Int)
        BY ONLY x \in Int, y \in Int
      <3> QED BY ONLY <3>2, <3>3, Zenon
    <2>2. h \in Seq(Int)
      BY ONLY <1>5
    <2>3. /\ \A i \in 1 .. Len(h) : Cat(h, t)[i] = h[i]
          /\ \A i \in 1 .. Len(t) : Cat(h, t)[Len(h) + i] = t[i]
      BY ONLY <2>1, <2>2, IntsJoined, Zenon
    <2> QED BY ONLY <1>1, <2>3, Zenon
  <1>7. r[1] = b /\ r[2] = Low(v) /\ r[2 + 1] = High(v)
    <2>1. 1 \in 1 .. Len(h) /\ 1 \in 1 .. Len(t) /\ 2 \in 1 .. Len(t)
      BY ONLY <1>4, <1>5
    <2>2. /\ r[1] = h[1] /\ r[Len(h) + 1] = t[1] /\ r[Len(h) + 2] = t[2]
      BY ONLY <1>6, <2>1, Zenon
    <2>3. Len(h) + 1 = 2 /\ Len(h) + 2 = 2 + 1
      BY ONLY <1>5
    <2> QED BY ONLY <1>4, <1>5, <2>2, <2>3, Zenon
  <1>8. Uint16(r, 2) = v
    BY ONLY <1>7, v \in Word, Uint16Read
  <1> QED BY ONLY <1>2, <1>7, <1>8, Zenon

(* What a step of the NCP may change.                                      *)
NcpEffect ==
  /\ \/ stored' = stored
     \/ /\ stored' # NoNetwork /\ stored'.formed = session
        /\ ~Settled /\ Asked.frameID = frameIDFormNetwork
  /\ up' = up \/ (up' = TRUE /\ cmd # "info")
  /\ joining' = joining \/ joining' = arg
  /\ config'[arg] = config[arg] \/ config'[arg] = SetValue

LEMMA NcpEffects ==
  ASSUME TypeInv, AsksTrue, NcpCommand
  PROVE  NcpEffect
  <1>1. outbox # <<>>
    BY ONLY TypeInv, NcpCommand, NcpMoves
  <1>2. PICK fid, p : fid = Asked.frameID /\ p = Asked.params
    BY ONLY TRUE, Zenon
  <1>3. Asks(fid, p)
    BY ONLY TypeInv, AsksTrue, <1>1, <1>2, AskedTrue
  <1>4. CASE NcpNetworkInit
    <2>1. /\ fid = frameIDNetworkInit /\ up' \in {up, TRUE}
          /\ UNCHANGED <<stored, joining, config>>
      BY ONLY <1>2, <1>4, Zenon DEF NcpNetworkInit, Takes
    <2>2. cmd # "info"
      BY ONLY <1>3, <2>1, CommandIDs, Zenon DEF Asks
    <2> QED BY ONLY <2>1, <2>2, Zenon DEF NcpEffect
  <1>5. CASE NcpSecure \/ NcpQuery \/ NcpShort \/ NcpRefuse \/ NcpUnknown
    BY ONLY <1>5, Zenon
       DEF NcpSecure, NcpQuery, NcpShort, NcpRefuse, NcpUnknown, NcpEffect
  <1>6. CASE NcpForm
    <2>1. fid = frameIDFormNetwork /\ UNCHANGED <<joining, config>>
      BY ONLY <1>2, <1>6, Zenon DEF NcpForm, Takes
    <2>2. ~Settled
      BY ONLY <1>3, <2>1, Zenon DEF Asks
    <2>3. cmd # "info"
      BY ONLY <2>2, Zenon DEF Settled
    <2>4. CASE UNCHANGED <<up, stored>>
      BY ONLY <2>1, <2>4, Zenon DEF NcpEffect
    <2>5. CASE /\ up' = TRUE
               /\ \E x, n, t, c :
                    stored' = [extendedPanID |-> x, panID |-> n,
                               radioTxPower |-> t, radioChannel |-> c,
                               key |-> sec, formed |-> session]
      <3>1. stored'.formed = session
        BY ONLY <2>5
      <3>2. stored' # NoNetwork
        BY ONLY TypeInv, <1>6, <2>5, FormType
      <3> QED BY ONLY <1>2, <2>1, <2>2, <2>3, <2>5, <3>1, <3>2, Zenon
              DEF NcpEffect
    <2> QED BY ONLY <1>6, <2>4, <2>5, Zenon DEF NcpForm
  <1>7. CASE NcpPermit
    <2>1. /\ fid = frameIDPermitJoining /\ UNCHANGED <<up, stored, config>>
          /\ joining' \in {joining, p[1]}
      BY ONLY <1>2, <1>7, Zenon DEF NcpPermit, Takes
    <2>2. p[1] = arg
      BY ONLY <1>3, <2>1, Zenon DEF Asks
    <2> QED BY ONLY <2>1, <2>2, Zenon DEF NcpEffect
  <1>8. CASE NcpSetConfig
    <2>1. /\ fid = frameIDSetConfigurationValue
          /\ UNCHANGED <<up, stored, joining>>
          /\ \/ config' = [config EXCEPT ![p[1]] = Uint16(p, 2)]
                /\ p[1] \in DOMAIN config
             \/ config' = config
      BY ONLY <1>2, <1>8, Zenon DEF NcpSetConfig, Takes
    <2>2. p = SetConfigurationValueParams(arg, SetValue)
      BY ONLY <1>3, <2>1, Zenon DEF Asks
    <2>3. config'[arg] = config[arg] \/ config'[arg] = SetValue
      <3>1. SetValue \in Word /\ arg \in Int
        <4>1. cmd # "none" /\ (cmd = "none" \/ arg \in Args(cmd))
          BY ONLY TypeInv, <1>1, AskedLegit, Zenon DEF TypeInv, CmdInv
        <4>2. arg \in Byte \cup {-1}
          BY ONLY <4>1, ArgBytes, Zenon
        <4> QED BY CliAssumption, <4>2, SMTT(60) DEF Byte
      <3>2. p[1] = arg /\ Uint16(p, 2) = SetValue
        BY ONLY <2>2, <3>1, ValueRead, Zenon
      <3>3. CASE p[1] \in DOMAIN config
                 /\ config' = [config EXCEPT ![p[1]] = Uint16(p, 2)]
        <4>1. config \in [DOMAIN Defaults -> Word]
          BY ONLY TypeInv, Zenon DEF TypeInv, NcpInv
        <4> QED BY ONLY <3>2, <3>3, <4>1
      <3> QED BY ONLY <2>1, <3>3, Zenon
    <2> QED BY ONLY <2>1, <2>3, Zenon DEF NcpEffect
  <1> QED BY ONLY NcpCommand, <1>4, <1>5, <1>6, <1>7, <1>8, Zenon
          DEF NcpCommand

LEMMA NcpStays ==
  ASSUME NcpFrame
  PROVE  /\ UNCHANGED <<cmd, flags, arg, pc, waiting, item, exit, said, shown,
                        session, extended, ncp, linked, ncpExt, before>>
         /\ Settled' = Settled
  <1>1. UNCHANGED <<cmd, flags, arg, pc, waiting, item, exit, said, shown,
                    session, extended, ncp, linked, ncpExt, before>>
    BY ONLY NcpFrame, Zenon DEF NcpFrame, progVars
  <1> QED BY ONLY <1>1, Zenon DEF Settled

(* What was true of the NCP is so after its step.                          *)
LEMMA SaysMore ==
  ASSUME NcpEffect, UNCHANGED <<cmd, arg, session>>, Settled' = Settled
  PROVE  \A fid, p : Says(fid, p) => Says(fid, p)'
  <1>1. stored' = stored => Printed' = Printed
    BY ONLY PrintedSame, Zenon
  <1>2. ASSUME up' = up PROVE NodeID' = NodeID
    BY ONLY <1>2, SMT DEF NodeID
  <1> QED BY ONLY NcpEffect, UNCHANGED <<cmd, arg, session>>,
                  Settled' = Settled, <1>1, <1>2, SMT DEF Says, NcpEffect

(* What the NCP replies is true.                                           *)
LEMMA NcpSays ==
  ASSUME TypeInv, AsksTrue, NcpCommand
  PROVE  \E fid \in Word, p \in Seq(Byte) :
           Reply(fid, p) /\ Fits(fid) /\ Says(fid, p)'
  <1>1. outbox # <<>> /\ NcpFrame
    BY ONLY TypeInv, NcpCommand, NcpMoves
  <1>2. PICK fid \in Word, p \in Seq(Byte) :
          fid = Asked.frameID /\ p = Asked.params
    BY ONLY TypeInv, <1>1, AskedLegit, Zenon
  <1>3. Asks(fid, p) /\ (fid \in Queries \cup Writes => Legit(fid, p))
    BY ONLY TypeInv, AsksTrue, <1>1, <1>2, AskedTrue, AskedLegit, Zenon
  <1>4. UNCHANGED <<cmd, arg, session>> /\ Settled' = Settled
    BY ONLY <1>1, NcpStays, Zenon
  <1>5. <<0>> \in Seq(Byte) /\ <<49>> \in Seq(Byte)
        /\ <<emberNotJoined>> \in Seq(Byte) /\ ~Status(<<emberNotJoined>>).ok
    BY ONLY StatusBytes, NotSecured, Zenon
  <1>6. ASSUME Refuse, fid \in Writes
        PROVE  Reply(fid, <<emberNotJoined>>) /\ Fits(fid)
               /\ Says(fid, <<emberNotJoined>>)'
    <2>1. Reply(fid, <<emberNotJoined>>) /\ Fits(fid)
      BY ONLY <1>2, <1>6, Zenon DEF Refuse, Fits
    <2>2. PICK q : q = <<emberNotJoined>>
      BY ONLY TRUE, Zenon
    <2>3. ~Status(q).ok
      BY ONLY <1>5, <2>2, Zenon
    <2>4. Says(fid, q)'
      BY ONLY <1>6, <2>3, SaysNothing
    <2> QED BY ONLY <2>1, <2>2, <2>4, Zenon
  <1>7. ASSUME Accept, fid \in Writes, Says(fid, << 0 >>)'
        PROVE  \E q \in Seq(Byte) : Reply(fid, q) /\ Fits(fid) /\ Says(fid, q)'
    <2>1. Reply(fid, <<0>>) /\ Fits(fid)
      BY ONLY <1>2, <1>7, Zenon DEF Accept, Fits
    <2> QED BY ONLY <1>5, <1>7, <2>1, Zenon
  <1>8. CASE NcpNetworkInit
    <2>1. /\ fid = frameIDNetworkInit /\ stored' = stored
          /\ Refuse \/ (Accept /\ stored # NoNetwork)
      BY ONLY <1>2, <1>8, Zenon DEF NcpNetworkInit, Takes
    <2>2. \A q : stored' # NoNetwork => Says(fid, q)'
      BY ONLY <2>1, CommandIDs, SMT DEF Says
    <2> QED BY ONLY <1>2, <1>5, <1>6, <1>7, <2>1, <2>2, QueryIDs, Zenon
  <1>9. CASE NcpSecure
    <2>1. fid = frameIDSetInitialSecurityState /\ Accept
      BY ONLY <1>2, <1>9, Zenon DEF NcpSecure, Takes
    <2>2. \A q : Says(fid, q)'
      BY ONLY <2>1, SaysNothing
    <2> QED BY ONLY <1>2, <1>7, <2>1, <2>2, NotSecured, Zenon
  <1>10. CASE NcpForm
    <2>1. fid = frameIDFormNetwork
      BY ONLY <1>2, <1>10, Zenon DEF NcpForm, Takes
    <2>2. CASE Refuse
      BY ONLY <1>2, <1>5, <1>6, <2>1, <2>2, QueryIDs, Zenon
    <2>3. CASE /\ Accept /\ up' = TRUE
               /\ \E x, n, t, c :
                    stored' = [extendedPanID |-> x, panID |-> n,
                               radioTxPower |-> t, radioChannel |-> c,
                               key |-> sec, formed |-> session]
      <3>1. stored'.formed = session'
        BY ONLY <1>4, <2>3
      <3>2. stored' # NoNetwork
        BY ONLY TypeInv, <1>10, <2>3, FormType
      <3>3. \A q : Says(fid, q)'
        BY ONLY <2>1, <3>1, <3>2, CommandIDs, SMT DEF Says
      <3> QED BY ONLY <1>2, <1>7, <2>1, <2>3, <3>3, QueryIDs, Zenon
    <2> QED BY ONLY <1>10, <2>2, <2>3, Zenon DEF NcpForm
  <1>11. CASE NcpPermit
    <2>1. /\ fid = frameIDPermitJoining
          /\ Refuse \/ (Accept /\ up /\ up' = up /\ joining' = p[1])
      BY ONLY <1>2, <1>11, Zenon DEF NcpPermit, Takes
    <2>2. p[1] = arg
      BY ONLY <1>3, <2>1, Zenon DEF Asks
    <2>3. \A q : up' /\ joining' = arg' => Says(fid, q)'
      BY ONLY <2>1, CommandIDs, SMT DEF Says
    <2>4. Refuse \/ (Accept /\ up' /\ joining' = arg')
      BY ONLY <1>4, <2>1, <2>2
    <2> QED BY ONLY <1>2, <1>5, <1>6, <1>7, <2>1, <2>3, <2>4, QueryIDs, Zenon
  <1>12. CASE NcpSetConfig
    <2>1. /\ fid = frameIDSetConfigurationValue
          /\ \/ Refuse
             \/ /\ Accept /\ p[1] \in DOMAIN config
                /\ config' = [config EXCEPT ![p[1]] = Uint16(p, 2)]
      BY ONLY <1>2, <1>12, Zenon DEF NcpSetConfig, Takes
    <2>2. p[1] = arg /\ Uint16(p, 2) = SetValue
      <3>1. SetValue \in Word /\ arg \in Int
        <4>1. cmd # "none" /\ (cmd = "none" \/ arg \in Args(cmd))
          BY ONLY TypeInv, <1>1, AskedLegit, Zenon DEF TypeInv, CmdInv
        <4>2. arg \in Byte \cup {-1}
          BY ONLY <4>1, ArgBytes, Zenon
        <4> QED BY CliAssumption, <4>2, SMTT(60) DEF Byte
      <3>2. p = SetConfigurationValueParams(arg, SetValue)
        BY ONLY <1>3, <2>1, Zenon DEF Asks
      <3> QED BY ONLY <3>1, <3>2, ValueRead, Zenon
    <2>3. \A q : config'[arg'] = SetValue => Says(fid, q)'
      BY ONLY <2>1, CommandIDs, SMT DEF Says
    <2>4. Refuse \/ (Accept /\ config'[arg'] = SetValue)
      <3>1. config \in [DOMAIN Defaults -> Word]
        BY ONLY TypeInv, Zenon DEF TypeInv, NcpInv
      <3> QED BY ONLY <1>4, <2>1, <2>2, <3>1
    <2> QED BY ONLY <1>2, <1>5, <1>6, <1>7, <2>1, <2>3, <2>4, QueryIDs, Zenon
  <1>13. CASE NcpQuery
    <2>1. /\ fid \in Queries /\ Reply(fid, Answer(fid, p))
          /\ UNCHANGED <<stored, up, joining, config>>
      BY ONLY <1>2, <1>13, Zenon DEF NcpQuery, Takes
    <2>2. PICK q \in Seq(Byte) : q = Answer(fid, p)
      BY ONLY TypeInv, <1>3, <2>1, p \in Seq(Byte), AnswerBytes
    <2>3. Says(fid, Answer(fid, p))
      BY ONLY TypeInv, <1>3, <2>1, p \in Seq(Byte), QueryTrue
    <2>4. Says(fid, q)'
      BY ONLY <1>4, <2>1, <2>2, <2>3, SaysKept, Zenon
    <2> QED BY ONLY <1>2, <2>1, <2>2, <2>4, Zenon DEF Fits
  <1>14. CASE NcpShort
    <2>1. /\ fid \in Queries /\ UNCHANGED <<stored, up, joining, config>>
          /\ \E n \in 0 .. Min({Len(Answer(fid, p)), 22}) - 1 :
               Reply(fid, SubSeq(Answer(fid, p), 1, n))
      BY ONLY <1>2, <1>14, Zenon DEF NcpShort, Takes
    <2>2. PICK w \in Seq(Byte) : w = Answer(fid, p)
      BY ONLY TypeInv, <1>3, <2>1, p \in Seq(Byte), AnswerBytes
    <2>3. PICK n \in 0 .. Min({Len(w), 22}) - 1 : Reply(fid, SubSeq(w, 1, n))
      BY ONLY <2>1, <2>2, Zenon
    <2>4. \A k \in 0 .. Min({Len(Answer(fid, p)), 22}) - 1 :
            Says(fid, SubSeq(Answer(fid, p), 1, k))
      BY ONLY TypeInv, <1>3, <2>1, p \in Seq(Byte), QueryTrue
    <2>5. Says(fid, SubSeq(w, 1, n))
      BY ONLY <2>2, <2>4, n \in 0 .. Min({Len(w), 22}) - 1, Zenon
    <2>6. PICK q \in Seq(Byte) : q = SubSeq(w, 1, n)
      <3>1. Len(w) \in Nat /\ \A i \in 1 .. Len(w) : w[i] \in Byte
        BY ONLY w \in Seq(Byte), QueueType
      <3>2. \E x \in {Len(w), 22} : \A y \in {Len(w), 22} : x <= y
        BY ONLY <3>1
      <3>3. /\ Min({Len(w), 22}) \in {Len(w), 22}
            /\ \A y \in {Len(w), 22} : Min({Len(w), 22}) <= y
        BY ONLY <3>2, Zenon DEF Min
      <3>4. /\ 1 \in Int /\ n \in Int /\ \A i \in 1 .. n : w[i] \in Byte
        BY ONLY <3>1, <3>3, n \in 0 .. Min({Len(w), 22}) - 1
      <3>5. SubSeq(w, 1, n) \in Seq(Byte)
        BY ONLY <3>4, SubSeqProperties
      <3> QED BY ONLY <3>5, Zenon
    <2>7. Says(fid, q)'
      BY ONLY <1>4, <2>1, <2>5, <2>6, SaysKept, Zenon
    <2> QED BY ONLY <1>2, <2>1, <2>3, <2>6, <2>7, Zenon DEF Fits
  <1>15. CASE NcpRefuse
    <2>1. fid \in Writes /\ Refuse
      BY ONLY <1>2, <1>15, Zenon DEF NcpRefuse, Takes
    <2> QED BY ONLY <1>2, <1>5, <1>6, <2>1, Zenon
  <1>16. CASE NcpUnknown
    <2>1. fid \notin Queries \cup Writes /\ Reply(88, <<49>>)
      BY ONLY <1>2, <1>16, Zenon DEF NcpUnknown, Takes
    <2>2. PICK i \in Word : i = 88
      BY ONLY TRUE DEF Word
    <2>3. \A q : Says(i, q)'
      <3>1. i \notin Queries \cup Writes
        BY ONLY <2>2, QueryIDs, Zenon
      <3> QED BY ONLY <3>1, SaysNothing
    <2>4. Fits(i)
      BY ONLY <1>2, <2>1, <2>2, Zenon DEF Fits
    <2> QED BY ONLY <1>5, <2>1, <2>2, <2>3, <2>4, Zenon
  <1> QED BY ONLY NcpCommand, <1>8, <1>9, <1>10, <1>11, <1>12, <1>13, <1>14,
                  <1>15, <1>16, Zenon DEF NcpCommand

(* What a reply is read as.                                                *)
LEMMA ReplyWire ==
  ASSUME TypeInv, NEW fid \in Word, Fits(fid)
  PROVE  /\ Wire(ncpExt, fid) \in Queries \cup Writes =>
              Wire(ncpExt, fid) = fid
         /\ Wire(ncpExt, fid) = frameIDFormNetwork =>
              Asked.frameID = frameIDFormNetwork
  <1>1. ncpExt \in BOOLEAN
    BY ONLY TypeInv, Zenon DEF TypeInv, NcpInv
  <1>2. CASE fid = Asked.frameID /\ fid \in Queries \cup Writes
    <2>1. Wire(ncpExt, fid) \in Queries \cup Writes => Wire(ncpExt, fid) = fid
      BY ONLY <1>1, <1>2, FrameIDs
    <2> QED BY ONLY <1>2, <2>1, QueryIDs, Zenon
  <1>3. CASE fid = 88
    <2>1. Wire(ncpExt, fid) = fid
      BY ONLY <1>1, <1>3 DEF Wire, Low
    <2>2. 88 # frameIDFormNetwork
      BY ONLY QueryIDs, Zenon
    <2> QED BY ONLY <1>3, <2>1, <2>2, Zenon
  <1> QED BY ONLY Fits(fid), <1>2, <1>3, Zenon DEF Fits

(* What is on the line stays true, and a network is still formed once.     *)
LEMMA LineNcp ==
  ASSUME TypeInv, AsksTrue, SaysTrue, FormsOnce, NcpCommand
  PROVE  AsksTrue' /\ SaysTrue' /\ FormsOnce'
  <1>1. outbox # <<>> /\ outbox' = Tail(outbox) /\ NcpFrame
    BY ONLY TypeInv, NcpCommand, NcpMoves
  <1>2. /\ UNCHANGED <<cmd, arg, session, ncpExt, pc, waiting, said>>
        /\ Settled' = Settled
    BY ONLY <1>1, NcpStays, Zenon
  <1>3. ncpExt \in BOOLEAN
    BY ONLY TypeInv, Zenon DEF TypeInv, NcpInv
  <1>4. PICK fid \in Word, p \in Seq(Byte) :
          Reply(fid, p) /\ Fits(fid) /\ Says(fid, p)'
    BY ONLY TypeInv, AsksTrue, NcpCommand, NcpSays, Zenon
  <1>5. /\ \A k \in DOMAIN outbox' :
             \E m \in DOMAIN outbox : outbox'[k] = outbox[m]
        /\ \A k \in DOMAIN inbox' :
             \/ \E m \in DOMAIN inbox : inbox'[k] = inbox[m]
             \/ inbox'[k] = encode(ncpExt, 0, fid, p)
    BY ONLY TypeInv, <1>1, <1>4, fid \in Word, p \in Seq(Byte), Replied
  <1>6. PICK f, i : f = encode(ncpExt, 0, fid, p) /\ i = Wire(ncpExt, fid)
    BY ONLY TRUE, Zenon
  <1>7. /\ \A j, q : Reads(ncpExt, f, j, q) => j = i /\ q = p
        /\ Forms(ncpExt, f) <=> i = frameIDFormNetwork
    BY ONLY <1>3, <1>6, fid \in Word, p \in Seq(Byte), WrittenReads, Zenon
  <1>8. /\ i \in Queries \cup Writes => i = fid
        /\ i = frameIDFormNetwork => Asked.frameID = frameIDFormNetwork
    BY ONLY TypeInv, <1>4, <1>6, fid \in Word, ReplyWire, Zenon
  <1>9. Says(i, p)'
    <2>1. CASE i = fid
      BY ONLY <1>4, <2>1, Zenon
    <2>2. CASE i \notin Queries \cup Writes
      BY ONLY <2>2, SaysNothing
    <2> QED BY ONLY <1>8, <2>1, <2>2, Zenon
  <1>10. \A j, q : Asks(j, q) => Asks(j, q)'
    BY ONLY <1>2, AsksKept, Zenon
  <1>11. \A j, q : Says(j, q) => Says(j, q)'
    <2>1. NcpEffect
      BY ONLY TypeInv, AsksTrue, NcpCommand, NcpEffects
    <2> QED BY ONLY <1>2, <2>1, SaysMore, Zenon
  <1>12. \A j, q : Reads(ncpExt, f, j, q) => Says(j, q)'
    <2> SUFFICES ASSUME NEW j, NEW q, Reads(ncpExt, f, j, q)
                 PROVE  Says(j, q)'
      OBVIOUS
    <2>1. j = i /\ q = p
      BY ONLY <1>7, Reads(ncpExt, f, j, q), Zenon
    <2> QED BY ONLY <1>9, <2>1, Zenon
  <1>13. AsksTrue' /\ SaysTrue'
    <2>1. ncpExt' = ncpExt
      BY ONLY <1>2, Zenon
    <2>2. \A k \in DOMAIN outbox' :
            \/ \E m \in DOMAIN outbox : outbox'[k] = outbox[m]
            \/ \A j, q : Reads(ncpExt, outbox'[k], j, q) => Asks(j, q)'
      BY ONLY <1>5, Zenon
    <2>3. \A k \in DOMAIN inbox' :
            \/ \E m \in DOMAIN inbox : inbox'[k] = inbox[m]
            \/ \A j, q : Reads(ncpExt, inbox'[k], j, q) => Says(j, q)'
      <3> SUFFICES ASSUME NEW CONSTANT k, k \in DOMAIN inbox'
                   PROVE  \/ \E m \in DOMAIN inbox : inbox'[k] = inbox[m]
                          \/ \A j, q :
                               Reads(ncpExt, inbox'[k], j, q) => Says(j, q)'
        OBVIOUS
      <3>1. \/ \E m \in DOMAIN inbox : inbox'[k] = inbox[m]
            \/ inbox'[k] = f
        BY ONLY <1>5, <1>6, k \in DOMAIN inbox', Zenon
      <3> QED BY ONLY <1>12, <3>1, Zenon
    <2> QED BY ONLY AsksTrue, SaysTrue, <1>10, <1>11, <2>1, <2>2, <2>3, LineKept
  <1>14. /\ 1 \in DOMAIN outbox
         /\ \A k \in DOMAIN outbox' :
              /\ k + 1 \in DOMAIN outbox /\ k + 1 # 1
              /\ outbox'[k] = outbox[k + 1]
         /\ \A k, m \in DOMAIN outbox' : k + 1 = m + 1 => k = m
         /\ Reads(ncpExt, outbox[1], Asked.frameID, Asked.params)
    BY ONLY TypeInv, AsksTrue, <1>1, AskedTrue, Zenon
  <1>15. ASSUME Asked.frameID = frameIDFormNetwork
         PROVE  FormRequest /\ ~FormRequest'
    <2>1. Forms(ncpExt, outbox[1])
      BY ONLY <1>14, <1>15, Zenon DEF Reads, Forms
    <2>2. FormRequest
      BY ONLY <1>14, <2>1, Zenon DEF FormRequest
    <2>3. ASSUME NEW k \in DOMAIN outbox', Forms(ncpExt, outbox'[k])
          PROVE  FALSE
      BY ONLY FormsOnce, <1>14, <2>1, <2>3, Zenon DEF FormsOnce
    <2>4. ~FormRequest'
      BY ONLY <1>2, <2>3, Zenon DEF FormRequest
    <2> QED BY ONLY <2>2, <2>4
  <1>16. FormRequest' => FormRequest
    BY ONLY <1>2, <1>5, Zenon DEF FormRequest
  <1>17. FormAnswer' => FormAnswer \/ Forms(ncpExt, f)
    BY ONLY <1>2, <1>5, <1>6, Zenon DEF FormAnswer
  <1>18. FormAnswer' => FormAnswer \/ (FormRequest /\ ~FormRequest')
    BY ONLY <1>7, <1>8, <1>15, <1>17, Zenon
  <1>19. \A k, m \in DOMAIN outbox' :
           Forms(ncpExt, outbox'[k]) /\ Forms(ncpExt, outbox'[m]) => k = m
    BY ONLY FormsOnce, <1>14, Zenon DEF FormsOnce
  <1>20. FormsOnce'
    <2>1. /\ FormRequest' \/ FormAnswer' =>
               pc' = "idle" \/ said' = "formed" \/ (pc' = "form" /\ waiting')
          /\ ~ (FormRequest' /\ FormAnswer')
      BY ONLY FormsOnce, <1>2, <1>16, <1>18, Zenon DEF FormsOnce
    <2> QED BY ONLY <1>2, <1>19, <2>1, Zenon DEF FormsOnce
  <1> QED BY ONLY <1>13, <1>20

(* Which command a place belongs to.                                       *)
LEMMA PlaceOf ==
  ASSUME pc \in PlacesOf(cmd)
  PROVE  /\ pc \in {"nodeId", "eui64"} <=> cmd = "info"
         /\ pc = "tryInit" => cmd = "state"
         /\ pc \in {"state", "params"} => cmd \in {"state", "init"}
         /\ pc \in {"guard", "init", "secure", "form"} => cmd = "init"
         /\ pc \in {"restore", "permit"} => cmd = "permit"
         /\ pc \in {"count"} \cup Listings => cmd = "endpoints"
         /\ pc = "value" => cmd \in {"list", "get"}
         /\ pc = "set" => cmd = "set"
         /\ cmd = "state" => pc \in {"tryInit", "state", "params"}
  BY ONLY pc \in PlacesOf(cmd) DEF PlacesOf, Listings

LEMMA SaidNcp ==
  ASSUME TypeInv, AsksTrue, FormsOnce, SaidInv, NcpCommand
  PROVE  SaidInv'
  <1>1. outbox # <<>> /\ NcpFrame
    BY ONLY TypeInv, NcpCommand, NcpMoves
  <1>2. UNCHANGED <<cmd, pc, said, shown, linked, before>> /\ Settled' = Settled
    BY ONLY <1>1, NcpStays, Zenon
  <1>3. NcpEffect
    BY ONLY TypeInv, AsksTrue, NcpCommand, NcpEffects
  <1>4. pc \in {"negotiate", "guard", "init"} => stored' = stored
    <2> SUFFICES ASSUME pc \in {"negotiate", "guard", "init"}, stored' # stored
                 PROVE  FALSE
      OBVIOUS
    <2>1. Asked.frameID = frameIDFormNetwork
      BY ONLY <1>3, stored' # stored, Zenon DEF NcpEffect
    <2>2. /\ 1 \in DOMAIN outbox
          /\ Reads(ncpExt, outbox[1], Asked.frameID, Asked.params)
      BY ONLY TypeInv, AsksTrue, <1>1, AskedTrue
    <2>3. FormRequest
      BY ONLY <2>1, <2>2, Zenon DEF FormRequest, Forms, Reads
    <2>4. pc = "idle" \/ said = "formed" \/ pc = "form"
      BY ONLY FormsOnce, <2>3, Zenon DEF FormsOnce
    <2>5. said = "none"
      BY ONLY SaidInv, pc \in {"negotiate", "guard", "init"} DEF SaidInv
    <2> QED BY ONLY <2>4, <2>5, pc \in {"negotiate", "guard", "init"}
  <1>5. pc = "eui64" => NodeID' = NodeID
    <2> SUFFICES ASSUME pc = "eui64" PROVE NodeID' = NodeID
      OBVIOUS
    <2>1. pc \in PlacesOf(cmd)
      BY ONLY SaidInv, pc = "eui64" DEF SaidInv, Places
    <2>2. cmd = "info"
      BY ONLY <2>1, pc = "eui64", PlaceOf
    <2>3. up' = up
      BY ONLY <1>3, <2>2, Zenon DEF NcpEffect
    <2> QED BY ONLY <2>3, SMT DEF NodeID
  <1>6. PlacesOf(cmd)' = PlacesOf(cmd)
    BY ONLY <1>2, Zenon
  <1> QED BY ONLY SaidInv, <1>2, <1>4, <1>5, <1>6 DEF SaidInv

LEMMA ClaimNcp ==
  ASSUME TypeInv, AsksTrue, ClaimInv, NcpCommand
  PROVE  ClaimInv'
  <1>1. NcpFrame /\ clean' \in {clean, FALSE}
    BY ONLY TypeInv, NcpCommand, NcpMoves
  <1>2. /\ UNCHANGED <<cmd, arg, said, shown, session, linked, before>>
        /\ Settled' = Settled
    BY ONLY <1>1, NcpStays, Zenon
  <1>3. NcpEffect
    BY ONLY TypeInv, AsksTrue, NcpCommand, NcpEffects
  <1>4. Settled => stored' = stored /\ Printed' = Printed
    BY ONLY <1>3, PrintedSame, Zenon DEF NcpEffect
  <1>5. said \in {"resumed", "active"} => Settled
    BY ONLY TRUE, SMT DEF Settled
  <1>6. cmd = "state" => Settled
    BY ONLY TRUE, SMT DEF Settled
  <1>7. cmd = "info" => NodeID' = NodeID
    <2> SUFFICES ASSUME cmd = "info" PROVE NodeID' = NodeID
      OBVIOUS
    <2>1. up' = up
      BY ONLY <1>3, cmd = "info", Zenon DEF NcpEffect
    <2> QED BY ONLY <2>1, SMT DEF NodeID
  <1>8. said = "formed" => stored' # NoNetwork /\ stored'.formed = session'
    BY ONLY ClaimInv, <1>2, <1>3 DEF ClaimInv, NcpEffect
  <1>9. /\ said' \in {"resumed", "active"} =>
             stored' # NoNetwork /\ stored' = before'
        /\ said' = "noNetwork" =>
             cmd' = "state" /\ (clean' => stored' = NoNetwork)
    <2>1. said \in {"resumed", "active"} =>
            stored # NoNetwork /\ stored = before /\ stored' = stored
      BY ONLY ClaimInv, <1>4, <1>5, Zenon DEF ClaimInv
    <2>2. said = "noNetwork" =>
            /\ cmd = "state" /\ (clean => stored = NoNetwork)
            /\ stored' = stored
      BY ONLY ClaimInv, <1>4, <1>6, Zenon DEF ClaimInv
    <2>3. clean' => clean
      BY ONLY <1>1
    <2> QED BY ONLY <1>2, <2>1, <2>2, <2>3, Zenon
  <1>10. /\ said' \in {"open", "closed"} /\ linked' =>
              up' /\ joining' = arg'
         /\ said' = "set" /\ linked' => config'[arg'] = SetValue
    BY ONLY ClaimInv, <1>2, <1>3 DEF ClaimInv, NcpEffect
  <1>11. said' = "info" =>
           cmd' = "info" /\ (linked' => shown' = <<NodeID', EUI64'>>)
    <2>1. EUI64' = EUI64
      BY ONLY TRUE, Zenon DEF EUI64
    <2> QED BY ONLY ClaimInv, <1>2, <1>7, <2>1 DEF ClaimInv
  <1>12. cmd' \in {"state", "init"} /\ Len(shown') = 2 =>
           Settled' /\ stored' # NoNetwork /\ shown'[2] = Printed'
    <2>1. cmd \in {"state", "init"} /\ Len(shown) = 2 =>
            Settled /\ stored # NoNetwork /\ shown[2] = Printed
      BY ONLY ClaimInv, Zenon DEF ClaimInv
    <2>2. cmd' = cmd /\ shown' = shown /\ Settled' = Settled
      BY ONLY <1>2, Zenon
    <2> QED BY ONLY <1>4, <2>1, <2>2, Zenon
  <1>13. said' = "formed" => stored' # NoNetwork /\ stored'.formed = session'
    BY ONLY <1>2, <1>8
  <1> QED BY ONLY <1>9, <1>10, <1>11, <1>12, <1>13, Zenon DEF ClaimInv

(* What a place asks.                                                      *)
LEMMA PlaceRequests ==
  ASSUME NEW x
  PROVE  /\ pc = "nodeId" => Request(x)[1] = frameIDGetNodeID
         /\ pc = "eui64" => Request(x)[1] = frameIDGetEUI64
         /\ pc \in {"state", "guard"} => Request(x)[1] = frameIDNetworkState
         /\ pc = "params" => Request(x)[1] = frameIDGetNetworkParameters
         /\ pc \in {"tryInit", "init", "restore"} =>
              Request(x)[1] = frameIDNetworkInit
         /\ pc = "secure" => Request(x)[1] = frameIDSetInitialSecurityState
         /\ pc = "form" => Request(x)[1] = frameIDFormNetwork
         /\ pc = "permit" => Request(x) = <<frameIDPermitJoining, <<arg>>>>
         /\ pc = "set" =>
              Request(x) = <<frameIDSetConfigurationValue,
                             SetConfigurationValueParams(arg, SetValue)>>
         /\ pc = "count" => Request(x)[1] = frameIDGetEndpointCount
         /\ pc = "endpoint" => Request(x)[1] = frameIDGetEndpoint
         /\ pc = "description" => Request(x)[1] = frameIDGetEndpointDescription
         /\ pc = "cluster" => Request(x)[1] = frameIDGetEndpointCluster
         /\ pc = "value" => Request(x)[1] = frameIDGetConfigurationValue
  <1>1. /\ pc = "nodeId" => Request(x) = <<frameIDGetNodeID, <<>>>>
        /\ pc = "eui64" => Request(x) = <<frameIDGetEUI64, <<>>>>
        /\ pc \in {"state", "guard"} =>
             Request(x) = <<frameIDNetworkState, <<>>>>
        /\ pc = "params" => Request(x) = <<frameIDGetNetworkParameters, <<>>>>
        /\ pc \in {"tryInit", "init", "restore"} =>
             Request(x) = <<frameIDNetworkInit, NetworkInitParams>>
        /\ pc = "permit" => Request(x) = <<frameIDPermitJoining, <<arg>>>>
        /\ pc = "set" =>
             Request(x) = <<frameIDSetConfigurationValue,
                            SetConfigurationValueParams(arg, SetValue)>>
    BY ONLY TRUE DEF Request
  <1>2. /\ pc = "secure" => Request(x)[1] = frameIDSetInitialSecurityState
        /\ pc = "form" => Request(x)[1] = frameIDFormNetwork
        /\ pc = "count" => Request(x)[1] = frameIDGetEndpointCount
        /\ pc = "endpoint" => Request(x)[1] = frameIDGetEndpoint
        /\ pc = "description" => Request(x)[1] = frameIDGetEndpointDescription
        /\ pc = "cluster" => Request(x)[1] = frameIDGetEndpointCluster
        /\ pc = "value" => Request(x)[1] = frameIDGetConfigurationValue
    BY ONLY TRUE DEF Request
  <1> QED BY ONLY <1>1, <1>2

LEMMA TriedNcp ==
  ASSUME TypeInv, KeepInv, AsksTrue, SaidInv, TriedInv, NcpCommand
  PROVE  TriedInv'
  <1>1. /\ outbox # <<>> /\ outbox' = Tail(outbox) /\ NcpFrame
        /\ clean' \in {clean, FALSE}
    BY ONLY TypeInv, NcpCommand, NcpMoves
  <1>2. UNCHANGED <<cmd, pc, extended>>
    BY ONLY <1>1, NcpStays, Zenon
  <1> SUFFICES ASSUME clean', cmd' = "state"
               PROVE  /\ pc' = "tryInit" /\ inbox' # <<>> =>
                           up' \/ stored' = NoNetwork
                      /\ pc' = "state" => up' \/ stored' = NoNetwork
                      /\ pc' = "state" /\ inbox' # <<>> =>
                           Answered' = <<StateByte'>>
    BY Zenon DEF TriedInv
  <1>3. clean /\ cmd = "state"
    BY ONLY <1>1, <1>2, clean', cmd' = "state"
  <1>4. /\ OneRequest /\ pc \in Places /\ ncpExt = extended
        /\ pc # "count" => Asked.frameID = Request(0)[1]
    BY ONLY TypeInv, KeepInv, <1>1, <1>3, CleanRequest
  <1>5. stored' = stored
    <2>1. NcpEffect
      BY ONLY TypeInv, AsksTrue, NcpCommand, NcpEffects
    <2>2. Settled
      BY ONLY <1>3 DEF Settled
    <2> QED BY ONLY <2>1, <2>2, Zenon DEF NcpEffect
  <1>6. ASSUME pc = "tryInit" PROVE up' \/ stored' = NoNetwork
    <2>1. Asked.frameID = frameIDNetworkInit
      BY ONLY <1>4, <1>6, PlaceRequests
    <2>2. NcpNetworkInit
      BY ONLY NcpCommand, <2>1, clean', NcpSteps
    <2>3. up' = TRUE \/ up' = up
      BY ONLY <2>2, Zenon DEF NcpNetworkInit
    <2>4. stored = NoNetwork \/ up \/ up' = TRUE
      BY ONLY <2>2, Zenon DEF NcpNetworkInit
    <2> QED BY ONLY <1>5, <2>3, <2>4
  <1>7. ASSUME pc = "state"
        PROVE  (up' \/ stored' = NoNetwork) /\ Answered' = <<StateByte'>>
    <2>1. Asked.frameID = frameIDNetworkState
      BY ONLY <1>4, <1>7, PlaceRequests
    <2>2. NcpQuery
      BY ONLY NcpCommand, <2>1, clean', NcpSteps
    <2>3. up' = up
      BY ONLY <2>2, Zenon DEF NcpQuery
    <2>4. up \/ stored = NoNetwork
      BY ONLY TriedInv, <1>3, <1>7, Zenon DEF TriedInv
    <2>5. StateByte' = StateByte
      BY ONLY <2>3, SMT DEF StateByte
    <2>6. Reply(frameIDNetworkState, <<StateByte>>)
      BY ONLY <2>1, <2>2, QueryAnswers, Zenon DEF NcpQuery
    <2>7. PICK fid \in Word, q \in Seq(Byte) :
            fid = frameIDNetworkState /\ q = <<StateByte>>
      <3>1. StateByte \in Byte
        BY ONLY TRUE, SMT DEF StateByte, joinedNetwork, Byte
      <3>2. PICK b \in Byte : b = StateByte
        BY ONLY <3>1, Zenon
      <3>3. <<b>> \in Seq(Byte)
        BY ONLY b \in Byte, SingleByte
      <3>4. frameIDNetworkState \in Word
        BY ONLY TRUE DEF Word, frameIDNetworkState
      <3> QED BY ONLY <3>2, <3>3, <3>4, Zenon
    <2>8. Reply(fid, q)
      BY ONLY <2>6, <2>7, Zenon
    <2>9. Answered' = q
      BY ONLY TypeInv, <1>1, <1>2, <1>4, <2>8, fid \in Word, q \in Seq(Byte),
              CleanReply
    <2>10. up' \/ stored' = NoNetwork
      BY ONLY <1>5, <2>3, <2>4
    <2> QED BY ONLY <2>5, <2>7, <2>9, <2>10, Zenon
  <1> QED BY ONLY <1>2, <1>6, <1>7, Zenon

(* Every step of the NCP keeps it.                                         *)
LEMMA TruthNcp == TypeInv /\ KeepInv /\ TruthInv /\ NcpCommand => TruthInv'
  BY ONLY LineNcp, SaidNcp, ClaimNcp, TriedNcp, Zenon DEF TruthInv

------------------------------------------------------------------------------
(* The calls.                                                              *)

(* A call that returns a.                                                  *)
Returned(a) ==
  /\ TypeInv /\ KeepInv /\ TruthInv
  /\ pc \in Places /\ a \in Answers /\ Return(a)

(* What a call leaves as it is.                                            *)
LEMMA CallFrame ==
  ASSUME NEW a, Returned(a)
  PROVE  /\ UNCHANGED <<cmd, flags, arg, session, extended, outbox, before>>
         /\ UNCHANGED <<ncp, linked, ncpExt, up, sec, joining, config, stored>>
         /\ waiting' = FALSE /\ inbox' = a.rest /\ (clean' => clean)
         /\ NodeID' = NodeID /\ EUI64' = EUI64 /\ Printed' = Printed
         /\ PlacesOf(cmd)' = PlacesOf(cmd)
  <1>1. /\ UNCHANGED <<cmd, flags, arg, session, extended, outbox, before>>
        /\ UNCHANGED <<ncp, linked, ncpExt, up, sec, joining, config, stored>>
        /\ waiting' = FALSE /\ inbox' = a.rest
    BY ONLY Returned(a), Zenon DEF Returned, Return, ncpVars
  <1>2. ASSUME clean' PROVE clean
    BY ONLY Returned(a), <1>2, Zenon DEF Returned, Return
  <1>3. NodeID' = NodeID
    BY ONLY <1>1, SMT DEF NodeID
  <1>4. EUI64' = EUI64 /\ Printed' = Printed /\ PlacesOf(cmd)' = PlacesOf(cmd)
    BY ONLY <1>1, PrintedSame, Zenon DEF EUI64
  <1> QED BY ONLY <1>1, <1>2, <1>3, <1>4

(* What a call got is true.                                                *)
LEMMA GotTrue ==
  ASSUME NEW a, Returned(a), a.got
  PROVE  /\ linked /\ Says(Request(0)[1], a.params)
         /\ pc = "form" => ~FormRequest
  <1>1. /\ TypeInv /\ SaysTrue /\ FormsOnce /\ pc \in Places /\ a \in Answers
        /\ ncpExt \in BOOLEAN /\ extended \in BOOLEAN
    BY ONLY Returned(a), Zenon
       DEF Returned, TruthInv, TypeInv, NcpInv, CmdInv
  <1>2. linked
    <2>1. Matching # {}
      BY ONLY <1>1, a.got DEF Answers
    <2>2. DOMAIN inbox # {}
      BY ONLY <2>1, Zenon DEF Matching
    <2>3. inbox # <<>>
      BY ONLY <2>2, QueueEmpty
    <2> QED BY ONLY <1>1, <2>3, Zenon DEF TypeInv, LineInv
  <1>3. ncpExt = extended
    BY ONLY <1>1, <1>2, Zenon DEF TypeInv, LineInv
  <1>4. PICK k \in DOMAIN inbox :
          /\ decode(ncpExt, inbox[k]).ok
          /\ decode(ncpExt, inbox[k]).v.frameID = Request(0)[1]
          /\ a.params = decode(ncpExt, inbox[k]).v.params
    BY ONLY <1>1, <1>2, a.got, AnswerGot
  <1>5. PICK fid, p : fid = Request(0)[1] /\ p = a.params
    BY ONLY TRUE, Zenon
  <1>6. Reads(ncpExt, inbox[k], fid, p)
    BY ONLY <1>4, <1>5, Zenon DEF Reads
  <1>7. Says(fid, p)
    BY ONLY <1>1, <1>6, Zenon DEF SaysTrue
  <1>8. ASSUME pc = "form" PROVE ~FormRequest
    <2>1. fid = frameIDFormNetwork
      BY ONLY <1>5, <1>8, PlaceRequests, Zenon
    <2>2. FormAnswer
      BY ONLY <1>4, <1>5, <2>1, Zenon DEF FormAnswer, Forms
    <2> QED BY ONLY <1>1, <2>2, Zenon DEF FormsOnce
  <1> QED BY ONLY <1>2, <1>5, <1>7, <1>8, Zenon

(* What is read from the response is read from what the call got.          *)
LEMMA ParsedGot ==
  ASSUME NEW a
  PROVE  /\ Parsed(Status, a).ok => a.got /\ Status(a.params).ok
         /\ Parsed(NetworkState, a).ok =>
              /\ a.got /\ NetworkState(a.params).ok
              /\ Parsed(NetworkState, a).v = NetworkState(a.params).v
         /\ Parsed(GetNodeID, a).ok =>
              /\ a.got /\ GetNodeID(a.params).ok
              /\ Parsed(GetNodeID, a).v = GetNodeID(a.params).v
         /\ Parsed(GetEUI64, a).ok =>
              /\ a.got /\ GetEUI64(a.params).ok
              /\ Parsed(GetEUI64, a).v = GetEUI64(a.params).v
         /\ Parsed(GetNetworkParameters, a).ok =>
              /\ a.got /\ GetNetworkParameters(a.params).ok
              /\ Parsed(GetNetworkParameters, a).v =
                   GetNetworkParameters(a.params).v
  <1>1. ~Err.ok
    BY ONLY TRUE DEF Err
  <1>2. CASE a.got
    BY ONLY <1>2, Zenon DEF Parsed
  <1>3. CASE ~a.got
    BY ONLY <1>1, <1>3, Zenon DEF Parsed
  <1> QED BY ONLY <1>2, <1>3, Zenon

(* The line after a call.  Once the command is settled no request to form  *)
(* a network is left on it.                                                *)
LEMMA LineCall ==
  ASSUME NEW a, Returned(a), Settled => Settled',
         Settled' /\ ~Settled => ~FormRequest,
         pc = "form" \/ said = "formed" => pc' = "idle" \/ said' = "formed"
  PROVE  AsksTrue' /\ SaysTrue' /\ FormsOnce'
  <1>1. /\ TypeInv /\ AsksTrue /\ SaysTrue /\ FormsOnce
        /\ pc \in Places /\ a \in Answers
    BY ONLY Returned(a), Zenon DEF Returned, TruthInv
  <1>2. /\ UNCHANGED <<cmd, arg, session, stored, up, joining, config, ncpExt>>
        /\ outbox' = outbox /\ inbox' = a.rest
    BY ONLY Returned(a), CallFrame, Zenon
  <1>3. \A k \in DOMAIN inbox' : \E m \in DOMAIN inbox : inbox'[k] = inbox[m]
    BY ONLY <1>1, <1>2, AnswerType, Zenon
  <1>4. \A fid, p : Says(fid, p) => Says(fid, p)'
    BY ONLY Settled => Settled', <1>2, SaysKept, Zenon
  <1>5. SaysTrue'
    <2> SUFFICES ASSUME NEW CONSTANT k, k \in DOMAIN inbox',
                        NEW CONSTANT fid, NEW CONSTANT p,
                        Reads(ncpExt, inbox'[k], fid, p)
                 PROVE  Says(fid, p)'
      BY <1>2, Zenon DEF SaysTrue
    <2>1. PICK m \in DOMAIN inbox : inbox'[k] = inbox[m]
      BY ONLY <1>3, k \in DOMAIN inbox', Zenon
    <2>2. Says(fid, p)
      BY ONLY <1>1, <2>1, Reads(ncpExt, inbox'[k], fid, p), Zenon
         DEF SaysTrue
    <2> QED BY ONLY <1>4, <2>2, Zenon
  <1>6. AsksTrue'
    <2> SUFFICES ASSUME NEW CONSTANT k, k \in DOMAIN outbox,
                        NEW CONSTANT fid, NEW CONSTANT p,
                        Reads(ncpExt, outbox[k], fid, p)
                 PROVE  Asks(fid, p)'
      BY <1>2, Zenon DEF AsksTrue
    <2>1. Asks(fid, p)
      BY ONLY <1>1, k \in DOMAIN outbox, Reads(ncpExt, outbox[k], fid, p),
              Zenon DEF AsksTrue
    <2>2. fid = frameIDFormNetwork => FormRequest
      BY ONLY k \in DOMAIN outbox, Reads(ncpExt, outbox[k], fid, p), Zenon
         DEF Reads, FormRequest, Forms
    <2>3. fid = frameIDFormNetwork => ~Settled'
      BY ONLY Settled' /\ ~Settled => ~FormRequest, <2>1, <2>2, Zenon DEF Asks
    <2> QED BY ONLY Settled => Settled', <1>2, <2>1, <2>3, Zenon DEF Asks
  <1>7. FormsOnce'
    <2>1. /\ FormRequest' => FormRequest
          /\ FormAnswer' => FormAnswer
      BY ONLY <1>2, <1>3, Zenon DEF FormRequest, FormAnswer
    <2>2. FormRequest' \/ FormAnswer' => pc' = "idle" \/ said' = "formed"
      <3>1. pc # "idle"
        BY ONLY <1>1 DEF Places
      <3> QED BY ONLY pc = "form" \/ said = "formed" =>
                        pc' = "idle" \/ said' = "formed",
                      <1>1, <2>1, <3>1, Zenon DEF FormsOnce
    <2>3. \A k, m \in DOMAIN outbox' :
            Forms(ncpExt', outbox'[k]) /\ Forms(ncpExt', outbox'[m]) => k = m
      BY ONLY <1>1, <1>2, Zenon DEF FormsOnce
    <2> QED BY ONLY <1>1, <2>1, <2>2, <2>3, Zenon DEF FormsOnce
  <1> QED BY ONLY <1>5, <1>6, <1>7

LEMMA PlacesAre ==
  /\ "idle" \notin Places
  /\ PlacesOf("info") = {"nodeId", "eui64"}
  /\ PlacesOf("state") = {"tryInit", "state", "params"}
  /\ PlacesOf("init") =
       {"guard", "init", "secure", "form", "state", "params"}
  /\ PlacesOf("permit") = {"restore", "permit"}
  /\ PlacesOf("endpoints") = {"count"} \cup Listings
  /\ PlacesOf("list") = {"value"} /\ PlacesOf("get") = {"value"}
  /\ PlacesOf("set") = {"set"}
  BY ONLY TRUE DEF PlacesOf, Places

(* What the command is, where a call returns.                              *)
LEMMA CallPlace ==
  ASSUME NEW a, Returned(a)
  PROVE  /\ pc \in PlacesOf(cmd)
         /\ pc \in {"nodeId", "eui64"} <=> cmd = "info"
         /\ pc = "tryInit" => cmd = "state"
         /\ pc \in {"state", "params"} => cmd \in {"state", "init"}
         /\ pc \in {"guard", "init", "secure", "form"} => cmd = "init"
         /\ pc \in {"restore", "permit"} => cmd = "permit"
         /\ pc \in {"count"} \cup Listings => cmd = "endpoints"
         /\ pc = "value" => cmd \in {"list", "get"}
         /\ pc = "set" => cmd = "set"
         /\ said = "none" \/ (pc \in {"state", "params"} /\ cmd = "init")
  <1>1. pc \in Places /\ SaidInv
    BY ONLY Returned(a), Zenon DEF Returned, TruthInv
  <1>2. pc \in PlacesOf(cmd)
    BY ONLY <1>1, Zenon DEF SaidInv
  <1>3. pc # "idle"
    BY ONLY <1>1, PlacesAre, Zenon
  <1>4. pc \in {"state", "params"} => cmd \in {"state", "init"}
    BY ONLY <1>2, PlaceOf
  <1>5. said = "none" \/ (pc \in {"state", "params"} /\ cmd = "init")
    BY ONLY <1>1, <1>3, <1>4 DEF SaidInv
  <1> QED BY ONLY <1>2, <1>5, PlaceOf

(* A command goes on, or ends, without a claim.                            *)
LEMMA ClaimKept ==
  ASSUME NEW a, Returned(a), said' = said,
         \/ shown' = shown
         \/ said # "info" /\ (cmd \in {"state", "init"} => Len(shown') # 2)
  PROVE  ClaimInv' /\ Settled' = Settled
  <1>1. /\ UNCHANGED <<cmd, arg, session, before, linked, up, joining, config,
                       stored>>
        /\ clean' => clean
        /\ NodeID' = NodeID /\ EUI64' = EUI64 /\ Printed' = Printed
    BY ONLY Returned(a), CallFrame, Zenon
  <1>2. ClaimInv
    BY ONLY Returned(a), Zenon DEF Returned, TruthInv
  <1>3. Settled' = Settled
    BY ONLY <1>1, said' = said, Zenon DEF Settled
  <1>4. /\ said' = "formed" => stored' # NoNetwork /\ stored'.formed = session'
        /\ said' \in {"resumed", "active"} =>
             stored' # NoNetwork /\ stored' = before'
        /\ said' = "noNetwork" =>
             cmd' = "state" /\ (clean' => stored' = NoNetwork)
        /\ said' \in {"open", "closed"} /\ linked' => up' /\ joining' = arg'
        /\ said' = "set" /\ linked' => config'[arg'] = SetValue
    <2>1. said' = "noNetwork" =>
            cmd' = "state" /\ (clean' => stored' = NoNetwork)
      BY ONLY <1>1, <1>2, said' = said, Zenon DEF ClaimInv
    <2>2. /\ said' = "formed" =>
               stored' # NoNetwork /\ stored'.formed = session'
          /\ said' \in {"resumed", "active"} =>
               stored' # NoNetwork /\ stored' = before'
      BY ONLY <1>1, <1>2, said' = said, Zenon DEF ClaimInv
    <2>3. /\ said' \in {"open", "closed"} /\ linked' => up' /\ joining' = arg'
          /\ said' = "set" /\ linked' => config'[arg'] = SetValue
      BY ONLY <1>1, <1>2, said' = said DEF ClaimInv
    <2> QED BY ONLY <2>1, <2>2, <2>3
  <1>5. CASE shown' = shown
    <2>1. /\ said = "info" =>
               cmd = "info" /\ (linked => shown = <<NodeID, EUI64>>)
          /\ cmd \in {"state", "init"} /\ Len(shown) = 2 =>
               Settled /\ stored # NoNetwork /\ shown[2] = Printed
      BY ONLY <1>2, Zenon DEF ClaimInv
    <2>2. /\ said' = "info" =>
               cmd' = "info" /\ (linked' => shown' = <<NodeID', EUI64'>>)
          /\ cmd' \in {"state", "init"} /\ Len(shown') = 2 =>
               Settled' /\ stored' # NoNetwork /\ shown'[2] = Printed'
      BY ONLY <1>1, <1>3, <1>5, <2>1, said' = said
    <2> QED BY ONLY <1>3, <1>4, <2>2, Zenon DEF ClaimInv
  <1>6. CASE said # "info" /\ (cmd \in {"state", "init"} => Len(shown') # 2)
    BY ONLY <1>1, <1>3, <1>4, <1>6, said' = said, Zenon DEF ClaimInv
  <1> QED BY ONLY <1>5, <1>6,
                  \/ shown' = shown
                  \/ said # "info" /\ (cmd \in {"state", "init"} =>
                                         Len(shown') # 2)

(* A command ends.                                                         *)
LEMMA CallStops ==
  ASSUME NEW a, Returned(a), pc' = "idle", ClaimInv',
         cmd # "init" \/ said' = said
  PROVE  TruthInv'
  <1>1. cmd' = cmd
    BY ONLY Returned(a), CallFrame, Zenon
  <1>2. Settled' = Settled \/ (Settled /\ Settled')
    BY ONLY <1>1, cmd # "init" \/ said' = said, SMT DEF Settled
  <1>3. Settled => Settled'
    BY ONLY <1>2
  <1>4. Settled' /\ ~Settled => ~FormRequest
    BY ONLY <1>2
  <1>5. AsksTrue' /\ SaysTrue' /\ FormsOnce'
    BY ONLY Returned(a), <1>3, <1>4, pc' = "idle", LineCall
  <1>6. SaidInv'
    BY ONLY pc' = "idle", PlacesAre, Zenon DEF SaidInv
  <1>7. TriedInv'
    BY ONLY pc' = "idle", Zenon DEF TriedInv
  <1> QED BY ONLY ClaimInv', <1>5, <1>6, <1>7, Zenon DEF TruthInv

LEMMA CallFails ==
  ASSUME NEW a, Returned(a), pc' = "idle", UNCHANGED <<said, shown>>
  PROVE  TruthInv'
  <1>1. said' = said /\ shown' = shown
    BY ONLY UNCHANGED <<said, shown>>, Zenon
  <1>2. ClaimInv'
    BY ONLY Returned(a), <1>1, ClaimKept
  <1> QED BY ONLY Returned(a), pc' = "idle", <1>1, <1>2, CallStops

(* A command goes on.                                                      *)
LEMMA CallGoesOn ==
  ASSUME NEW a, Returned(a), pc # "form", said' = said,
         \/ shown' = shown
         \/ said # "info" /\ (cmd \in {"state", "init"} => Len(shown') # 2),
         SaidInv', TriedInv'
  PROVE  TruthInv'
  <1>1. ClaimInv' /\ Settled' = Settled
    BY ONLY Returned(a), said' = said,
            \/ shown' = shown
            \/ said # "info" /\ (cmd \in {"state", "init"} => Len(shown') # 2),
            ClaimKept
  <1>2. /\ Settled => Settled'
        /\ Settled' /\ ~Settled => ~FormRequest
        /\ pc = "form" \/ said = "formed" => pc' = "idle" \/ said' = "formed"
    BY ONLY <1>1, pc # "form", said' = said
  <1>3. AsksTrue' /\ SaysTrue' /\ FormsOnce'
    BY ONLY Returned(a), <1>2, LineCall
  <1> QED BY ONLY SaidInv', TriedInv', <1>1, <1>3, Zenon DEF TruthInv

LEMMA PairAppended == \A n, e : Append(<<n>>, e) = <<n, e>>
  <1> SUFFICES ASSUME NEW n, NEW e PROVE Append(<<n>>, e) = <<n, e>>
    OBVIOUS
  <1>1. PICK S, q : S = {n, e} /\ q = <<n>>
    BY ONLY TRUE, Zenon
  <1>2. n \in S /\ e \in S
    BY ONLY <1>1
  <1>3. q \in Seq(S) /\ Len(q) = 1 /\ q[1] = n
    BY ONLY <1>1, <1>2
  <1>4. /\ Append(q, e) \in Seq(S) /\ Len(Append(q, e)) = 2
        /\ Append(q, e)[1] = n /\ Append(q, e)[2] = e
    <2>1. q \in Seq(S) /\ e \in S
      BY ONLY <1>2, <1>3
    <2>2. /\ Append(q, e) \in Seq(S)
          /\ Len(q) \in Nat /\ DOMAIN q = 1 .. Len(q)
          /\ Len(Append(q, e)) = Len(q) + 1
          /\ DOMAIN Append(q, e) = 1 .. Len(q) + 1
          /\ \A i \in 1 .. Len(q) : Append(q, e)[i] = q[i]
          /\ Append(q, e)[Len(q) + 1] = e
      BY ONLY <2>1, QueueAppend
    <2> QED BY ONLY <1>3, <2>2
  <1>5. /\ <<n, e>> \in Seq(S) /\ Len(<<n, e>>) = 2
        /\ <<n, e>>[1] = n /\ <<n, e>>[2] = e
    BY ONLY <1>2
  <1>6. \A i \in 1 .. 2 : i = 1 \/ i = 2
    OBVIOUS
  <1> QED BY ONLY <1>1, <1>4, <1>5, <1>6, SeqEqual

(* info.                                                                   *)
LEMMA NodeIdTruth ==
  ASSUME TypeInv, KeepInv, TruthInv, NodeId
  PROVE  TruthInv'
  <1>1. PICK a \in Answers :
          /\ pc = "nodeId" /\ Return(a)
          /\ \/ /\ Parsed(GetNodeID, a).ok /\ GoTo("eui64")
                /\ Show(Parsed(GetNodeID, a).v)
             \/ Fail /\ UNCHANGED shown
    BY ONLY NodeId, Zenon DEF NodeId
  <1>2. Returned(a)
    BY ONLY TypeInv, KeepInv, TruthInv, <1>1, a \in Answers
       DEF Returned, Places
  <1>3. /\ cmd = "info" /\ said = "none"
        /\ shown = <<>>
    <2>1. cmd = "info" /\ said = "none"
      BY ONLY <1>1, <1>2, CallPlace
    <2>2. shown = <<>>
      BY ONLY TruthInv, <1>1 DEF TruthInv, SaidInv
    <2> QED BY ONLY <2>1, <2>2
  <1>4. CASE Fail /\ UNCHANGED shown
    BY ONLY <1>2, <1>4, CallFails, Zenon DEF Fail
  <1>5. CASE /\ Parsed(GetNodeID, a).ok /\ GoTo("eui64")
             /\ Show(Parsed(GetNodeID, a).v)
    <2>1. /\ a.got /\ GetNodeID(a.params).ok
          /\ Parsed(GetNodeID, a).v = GetNodeID(a.params).v
      BY ONLY <1>5, ParsedGot
    <2>2. Says(frameIDGetNodeID, a.params)
      BY ONLY <1>1, <1>2, <2>1, GotTrue, PlaceRequests
    <2>3. Parsed(GetNodeID, a).v = NodeID
      BY ONLY <1>3, <2>1, <2>2, Zenon DEF Says
    <2>4. /\ pc' = "eui64" /\ said' = said /\ shown' = Append(shown, NodeID)
      BY ONLY <1>5, <2>3, Zenon DEF GoTo, Show
    <2>5. shown' = <<NodeID>>
      BY ONLY <1>3, <2>4
    <2>6. cmd' = "info" /\ NodeID' = NodeID
      BY ONLY <1>2, <1>3, CallFrame, Zenon
    <2>7. SaidInv'
      BY ONLY <1>3, <2>4, <2>5, <2>6, PlacesAre DEF SaidInv
    <2>8. TriedInv'
      BY ONLY <2>6 DEF TriedInv
    <2>9. pc # "form" /\ said # "info" /\ cmd \notin {"state", "init"}
      BY ONLY <1>1, <1>3
    <2> QED BY ONLY <1>2, <2>4, <2>7, <2>8, <2>9, CallGoesOn
  <1> QED BY ONLY <1>1, <1>4, <1>5, Zenon

LEMMA Eui64Truth ==
  ASSUME TypeInv, KeepInv, TruthInv, Eui64
  PROVE  TruthInv'
  <1>1. PICK a \in Answers :
          /\ pc = "eui64" /\ Return(a)
          /\ \/ /\ Parsed(GetEUI64, a).ok /\ Exit("info")
                /\ Show(Parsed(GetEUI64, a).v)
             \/ Fail /\ UNCHANGED shown
    BY ONLY Eui64, Zenon DEF Eui64
  <1>2. Returned(a)
    BY ONLY TypeInv, KeepInv, TruthInv, <1>1, a \in Answers
       DEF Returned, Places
  <1>3. /\ cmd = "info" /\ (linked => shown = <<NodeID>>)
    <2>1. cmd = "info"
      BY ONLY <1>1, <1>2, CallPlace
    <2>2. linked => shown = <<NodeID>>
      BY ONLY TruthInv, <1>1 DEF TruthInv, SaidInv
    <2> QED BY ONLY <2>1, <2>2
  <1>4. CASE Fail /\ UNCHANGED shown
    BY ONLY <1>2, <1>4, CallFails, Zenon DEF Fail
  <1>5. CASE /\ Parsed(GetEUI64, a).ok /\ Exit("info")
             /\ Show(Parsed(GetEUI64, a).v)
    <2>1. /\ a.got /\ GetEUI64(a.params).ok
          /\ Parsed(GetEUI64, a).v = GetEUI64(a.params).v
      BY ONLY <1>5, ParsedGot
    <2>2. Says(frameIDGetEUI64, a.params) /\ linked
      BY ONLY <1>1, <1>2, <2>1, GotTrue, PlaceRequests
    <2>3. Parsed(GetEUI64, a).v = EUI64
      BY ONLY <2>1, <2>2, Zenon DEF Says
    <2>4. /\ pc' = "idle" /\ said' = "info" /\ shown' = Append(shown, EUI64)
      BY ONLY <1>5, <2>3, Zenon DEF Exit, Show
    <2>5. shown' = <<NodeID, EUI64>>
      <3>1. PICK n, e : n = NodeID /\ e = EUI64
        BY ONLY TRUE, Zenon
      <3>2. shown = <<n>> /\ shown' = Append(shown, e)
        BY ONLY <1>3, <2>2, <2>4, <3>1, Zenon
      <3>3. Append(<<n>>, e) = <<n, e>>
        BY ONLY TRUE, PairAppended, Zenon
      <3> QED BY ONLY <3>1, <3>2, <3>3, Zenon
    <2>6. cmd' = "info" /\ NodeID' = NodeID /\ EUI64' = EUI64
      BY ONLY <1>2, <1>3, CallFrame, Zenon
    <2>7. ClaimInv'
      BY ONLY <2>4, <2>5, <2>6 DEF ClaimInv
    <2> QED BY ONLY <1>2, <1>3, <2>4, <2>7, CallStops
  <1> QED BY ONLY <1>1, <1>4, <1>5, Zenon

(* permit-join and config set.                                             *)
LEMMA RestoreTruth ==
  ASSUME TypeInv, KeepInv, TruthInv, Restore
  PROVE  TruthInv'
  <1>1. PICK a \in Answers :
          /\ pc = "restore" /\ Return(a) /\ UNCHANGED shown
          /\ GoTo("permit") \/ Fail
    BY ONLY Restore, Zenon DEF Restore, StatusCall, Quiet
  <1>2. Returned(a)
    BY ONLY TypeInv, KeepInv, TruthInv, <1>1, a \in Answers
       DEF Returned, Places
  <1>3. cmd = "permit" /\ said = "none" /\ cmd' = cmd
    BY ONLY <1>1, <1>2, CallPlace, CallFrame
  <1>4. CASE Fail
    BY ONLY <1>1, <1>2, <1>4, CallFails, Zenon DEF Fail
  <1>5. CASE GoTo("permit")
    <2>1. pc' = "permit" /\ said' = said /\ shown' = shown
      BY ONLY <1>1, <1>5, Zenon DEF GoTo
    <2>2. SaidInv' /\ TriedInv'
      BY ONLY <1>3, <2>1, PlacesAre DEF SaidInv, TriedInv
    <2>3. pc # "form"
      BY ONLY <1>1
    <2> QED BY ONLY <1>2, <2>1, <2>2, <2>3, CallGoesOn
  <1> QED BY ONLY <1>1, <1>4, <1>5, Zenon

LEMMA PermitTruth ==
  ASSUME TypeInv, KeepInv, TruthInv, Permit
  PROVE  TruthInv'
  <1>1. PICK a \in Answers :
          /\ pc = "permit" /\ Return(a) /\ UNCHANGED shown
          /\ \/ /\ Parsed(Status, a).ok
                /\ Exit(IF arg = 0 THEN "closed" ELSE "open")
             \/ Fail
    BY ONLY Permit, Zenon DEF Permit, StatusCall, Quiet
  <1>2. Returned(a)
    BY ONLY TypeInv, KeepInv, TruthInv, <1>1, a \in Answers
       DEF Returned, Places
  <1>3. cmd = "permit" /\ cmd' = cmd
    BY ONLY <1>1, <1>2, CallPlace, CallFrame
  <1>4. CASE Fail
    BY ONLY <1>1, <1>2, <1>4, CallFails, Zenon DEF Fail
  <1>5. CASE /\ Parsed(Status, a).ok
             /\ Exit(IF arg = 0 THEN "closed" ELSE "open")
    <2>1. pc' = "idle" /\ said' \in {"closed", "open"}
      BY ONLY <1>5 DEF Exit
    <2>2. a.got /\ Status(a.params).ok
      BY ONLY <1>5, ParsedGot
    <2>3. Says(frameIDPermitJoining, a.params)
      BY ONLY <1>1, <1>2, <2>2, GotTrue, PlaceRequests
    <2>4. up /\ joining = arg
      BY ONLY <2>2, <2>3, Zenon DEF Says
    <2>5. UNCHANGED <<up, joining, arg>>
      BY ONLY <1>2, CallFrame, Zenon
    <2>6. ClaimInv'
      BY ONLY <1>3, <2>1, <2>4, <2>5 DEF ClaimInv
    <2> QED BY ONLY <1>2, <1>3, <2>1, <2>6, CallStops
  <1> QED BY ONLY <1>1, <1>4, <1>5, Zenon

LEMMA SetConfigTruth ==
  ASSUME TypeInv, KeepInv, TruthInv, SetConfig
  PROVE  TruthInv'
  <1>1. PICK a \in Answers :
          /\ pc = "set" /\ Return(a) /\ UNCHANGED shown
          /\ (Parsed(Status, a).ok /\ Exit("set")) \/ Fail
    BY ONLY SetConfig, Zenon DEF SetConfig, StatusCall, Quiet
  <1>2. Returned(a)
    BY ONLY TypeInv, KeepInv, TruthInv, <1>1, a \in Answers
       DEF Returned, Places
  <1>3. cmd = "set" /\ cmd' = cmd
    BY ONLY <1>1, <1>2, CallPlace, CallFrame
  <1>4. CASE Fail
    BY ONLY <1>1, <1>2, <1>4, CallFails, Zenon DEF Fail
  <1>5. CASE Parsed(Status, a).ok /\ Exit("set")
    <2>1. pc' = "idle" /\ said' = "set"
      BY ONLY <1>5 DEF Exit
    <2>2. a.got /\ Status(a.params).ok
      BY ONLY <1>5, ParsedGot
    <2>3. Says(frameIDSetConfigurationValue, a.params)
      BY ONLY <1>1, <1>2, <2>2, GotTrue, PlaceRequests
    <2>4. config[arg] = SetValue
      BY ONLY <2>2, <2>3, Zenon DEF Says
    <2>5. UNCHANGED <<config, arg>>
      BY ONLY <1>2, CallFrame, Zenon
    <2>6. ClaimInv'
      BY ONLY <1>3, <2>1, <2>4, <2>5 DEF ClaimInv
    <2> QED BY ONLY <1>2, <1>3, <2>1, <2>6, CallStops
  <1> QED BY ONLY <1>1, <1>4, <1>5, Zenon

(* network state.                                                          *)
LEMMA TryInitTruth ==
  ASSUME TypeInv, KeepInv, TruthInv, TryInit
  PROVE  TruthInv'
  <1>1. PICK a \in Answers :
          /\ pc = "tryInit" /\ Return(a)
          /\ pc' = "state" /\ said' = said /\ shown' = shown
    BY ONLY TryInit, Zenon DEF TryInit, StatusCall, Quiet, GoTo
  <1>2. Returned(a)
    BY ONLY TypeInv, KeepInv, TruthInv, <1>1, a \in Answers
       DEF Returned, Places
  <1>3. /\ cmd = "state" /\ said = "none"
        /\ cmd' = cmd /\ UNCHANGED <<up, stored>>
    BY ONLY <1>1, <1>2, CallPlace, CallFrame
  <1>4. SaidInv'
    <2>1. shown = <<>>
      BY ONLY TruthInv, <1>1 DEF TruthInv, SaidInv
    <2>2. Settled'
      BY ONLY <1>3 DEF Settled
    <2> QED BY ONLY <1>1, <1>3, <2>1, <2>2, PlacesAre DEF SaidInv
  <1>5. TriedInv'
    <2> SUFFICES ASSUME clean'
                 PROVE  inbox' = <<>> /\ (up' \/ stored' = NoNetwork)
      BY <1>1, Zenon DEF TriedInv
    <2>1. clean /\ inbox # <<>> /\ a.got
      BY ONLY TypeInv, KeepInv, <1>1, clean', a \in Answers, CleanReturn
         DEF Places
    <2>2. inbox' = <<>>
      BY ONLY TypeInv, KeepInv, <1>1, <2>1, clean', a \in Answers, CleanReturn
         DEF Places
    <2>3. up \/ stored = NoNetwork
      BY ONLY TruthInv, <1>1, <1>3, <2>1, Zenon DEF TruthInv, TriedInv
    <2> QED BY ONLY <1>3, <2>2, <2>3
  <1>6. pc # "form" /\ shown' = shown
    BY ONLY <1>1
  <1> QED BY ONLY <1>1, <1>2, <1>4, <1>5, <1>6, CallGoesOn

LEMMA StateTruth ==
  ASSUME TypeInv, KeepInv, TruthInv, State
  PROVE  TruthInv'
  <1>1. PICK a \in Answers :
          /\ pc = "state" /\ Return(a)
          /\ \/ Fail /\ UNCHANGED shown
             \/ /\ Parsed(NetworkState, a).ok
                /\ Show(Parsed(NetworkState, a).v)
                /\ \/ /\ cmd = "state" /\ Parsed(NetworkState, a).v = 0
                      /\ Exit("noNetwork")
                   \/ GoTo("params")
    BY ONLY State, Zenon DEF State
  <1>2. Returned(a)
    BY ONLY TypeInv, KeepInv, TruthInv, <1>1, a \in Answers
       DEF Returned, Places
  <1>3. /\ cmd \in {"state", "init"} /\ (cmd = "state" => said = "none")
        /\ said # "info" /\ shown = <<>> /\ Settled
    <2>1. cmd \in {"state", "init"} /\ (said = "none" \/ cmd = "init")
      BY ONLY <1>1, <1>2, CallPlace
    <2>2. shown = <<>> /\ Settled
      BY ONLY TruthInv, <1>1 DEF TruthInv, SaidInv
    <2>3. said = "info" => cmd = "info"
      BY ONLY TruthInv, Zenon DEF TruthInv, ClaimInv
    <2> QED BY ONLY <2>1, <2>2, <2>3
  <1>4. cmd' = cmd /\ UNCHANGED <<up, stored>>
    BY ONLY <1>2, CallFrame, Zenon
  <1>5. CASE Fail /\ UNCHANGED shown
    BY ONLY <1>2, <1>5, CallFails, Zenon DEF Fail
  <1>6. ASSUME Show(Parsed(NetworkState, a).v)
        PROVE  /\ shown' = <<Parsed(NetworkState, a).v>>
               /\ Len(shown') # 2 /\ shown' = <<shown'[1]>>
    <2>1. PICK v : v = Parsed(NetworkState, a).v
      BY ONLY TRUE, Zenon
    <2>2. shown' = Append(<<>>, v)
      BY ONLY <1>3, <1>6, <2>1, Zenon DEF Show
    <2>3. shown' = <<v>>
      BY ONLY <2>2
    <2>4. Len(shown') = 1 /\ shown'[1] = v
      BY ONLY <2>3
    <2> QED BY ONLY <2>1, <2>3, <2>4
  <1>7. CASE /\ Parsed(NetworkState, a).ok
             /\ Show(Parsed(NetworkState, a).v) /\ GoTo("params")
    <2>1. pc' = "params" /\ said' = said
      BY ONLY <1>7, Zenon DEF GoTo
    <2>2. Len(shown') # 2 /\ shown' = <<shown'[1]>>
      BY ONLY <1>6, <1>7
    <2>3. Settled'
      BY ONLY <1>3, <1>4, <2>1, Zenon DEF Settled
    <2>4. SaidInv'
      BY ONLY <1>3, <1>4, <2>1, <2>2, <2>3, PlacesAre DEF SaidInv
    <2>5. TriedInv' /\ pc # "form"
      BY ONLY <1>1, <2>1 DEF TriedInv
    <2> QED BY ONLY <1>2, <1>3, <2>1, <2>2, <2>4, <2>5, CallGoesOn
  <1>8. CASE /\ Parsed(NetworkState, a).ok
             /\ Show(Parsed(NetworkState, a).v)
             /\ cmd = "state" /\ Parsed(NetworkState, a).v = 0
             /\ Exit("noNetwork")
    <2>1. pc' = "idle" /\ said' = "noNetwork"
      BY ONLY <1>8, Zenon DEF Exit
    <2>2. ASSUME clean' PROVE stored' = NoNetwork
      <3>1. clean /\ inbox # <<>> /\ a.got
        BY ONLY TypeInv, KeepInv, <1>1, <2>2, a \in Answers, CleanReturn
           DEF Places
      <3>2. a.params = Answered
        BY ONLY TypeInv, KeepInv, <1>1, <2>2, <3>1, a \in Answers, CleanReturn
           DEF Places
      <3>3. (up \/ stored = NoNetwork) /\ Answered = <<StateByte>>
        BY ONLY TruthInv, <1>1, <1>8, <3>1, Zenon DEF TruthInv, TriedInv
      <3>4. Parsed(NetworkState, a).v = NetworkState(a.params).v
        BY ONLY <1>8, ParsedGot
      <3>5. NetworkState(<<StateByte>>).v = StateByte
        BY ONLY TRUE, SMT DEF NetworkState, Ok
      <3>6. StateByte = 0
        BY ONLY <1>8, <3>2, <3>3, <3>4, <3>5, Zenon
      <3>7. ~up
        BY ONLY <3>6 DEF StateByte, joinedNetwork
      <3> QED BY ONLY <1>4, <3>3, <3>7
    <2>3. Len(shown') # 2
      BY ONLY <1>6, <1>8
    <2>4. ClaimInv'
      <3>1. cmd' = "state"
        BY ONLY <1>4, <1>8
      <3> QED BY ONLY <2>1, <2>2, <2>3, <3>1 DEF ClaimInv
    <2>5. cmd # "init"
      BY ONLY <1>8
    <2> QED BY ONLY <1>2, <2>1, <2>4, <2>5, CallStops
  <1> QED BY ONLY <1>1, <1>5, <1>7, <1>8, Zenon

LEMMA ParamsTruth ==
  ASSUME TypeInv, KeepInv, TruthInv, Params
  PROVE  TruthInv'
  <1>1. PICK a \in Answers :
          /\ pc = "params" /\ Return(a)
          /\ \/ Fail /\ UNCHANGED shown
             \/ /\ Parsed(GetNetworkParameters, a).ok
                /\ Show(Parsed(GetNetworkParameters, a).v)
                /\ Exit(IF cmd = "state" THEN "network" ELSE said)
    BY ONLY Params, Zenon DEF Params
  <1>2. Returned(a)
    BY ONLY TypeInv, KeepInv, TruthInv, <1>1, a \in Answers
       DEF Returned, Places
  <1>3. /\ cmd \in {"state", "init"}
        /\ said # "info" /\ shown = <<shown[1]>> /\ ClaimInv
    <2>1. cmd \in {"state", "init"}
      BY ONLY <1>1, <1>2, CallPlace
    <2>2. shown = <<shown[1]>>
      BY ONLY TruthInv, <1>1 DEF TruthInv, SaidInv
    <2>3. ClaimInv /\ (said = "info" => cmd = "info")
      BY ONLY TruthInv, Zenon DEF TruthInv, ClaimInv
    <2> QED BY ONLY <2>1, <2>2, <2>3
  <1>4. /\ UNCHANGED <<cmd, arg, session, before, linked, up, joining, config,
                       stored>>
        /\ Printed' = Printed
    BY ONLY <1>2, CallFrame, Zenon
  <1>5. CASE Fail /\ UNCHANGED shown
    BY ONLY <1>2, <1>5, CallFails, Zenon DEF Fail
  <1>6. CASE /\ Parsed(GetNetworkParameters, a).ok
             /\ Show(Parsed(GetNetworkParameters, a).v)
             /\ Exit(IF cmd = "state" THEN "network" ELSE said)
    <2>1. /\ a.got /\ GetNetworkParameters(a.params).ok
          /\ Parsed(GetNetworkParameters, a).v =
               GetNetworkParameters(a.params).v
      BY ONLY <1>6, ParsedGot
    <2>2. Says(frameIDGetNetworkParameters, a.params)
      BY ONLY <1>1, <1>2, <2>1, GotTrue, PlaceRequests
    <2>3. /\ Settled /\ stored # NoNetwork
          /\ Parsed(GetNetworkParameters, a).v = Printed
      BY ONLY <2>1, <2>2, Zenon DEF Says
    <2>4. /\ pc' = "idle" /\ shown' = Append(shown, Printed)
          /\ said' = IF cmd = "state" THEN "network" ELSE said
      BY ONLY <1>6, <2>3, Zenon DEF Exit, Show
    <2>5. shown'[2] = Printed
      <3>1. PICK n, e : n = shown[1] /\ e = Printed
        BY ONLY TRUE, Zenon
      <3>2. shown' = <<n, e>>
        BY ONLY <1>3, <2>4, <3>1, PairAppended, Zenon
      <3>3. shown'[2] = e
        BY ONLY <3>2
      <3> QED BY ONLY <3>1, <3>3
    <2>6. said' = said \/ (cmd = "state" /\ said' = "network")
      BY ONLY <2>4
    <2>7. Settled'
      BY ONLY <1>4, <2>3, <2>6 DEF Settled
    <2>8. ClaimInv'
      <3>1. CASE said' = said
        <4>1. clean' => clean
          BY ONLY <1>2, CallFrame, Zenon
        <4>2. /\ said' = "formed" =>
                   stored' # NoNetwork /\ stored'.formed = session'
              /\ said' \in {"resumed", "active"} =>
                   stored' # NoNetwork /\ stored' = before'
              /\ said' = "noNetwork" =>
                   cmd' = "state" /\ (clean' => stored' = NoNetwork)
          BY ONLY <1>3, <1>4, <3>1, <4>1, Zenon DEF ClaimInv
        <4>3. /\ said' \in {"open", "closed"} /\ linked' =>
                   up' /\ joining' = arg'
              /\ said' = "set" /\ linked' => config'[arg'] = SetValue
          BY ONLY <1>3, <1>4, <3>1 DEF ClaimInv
        <4> QED BY ONLY <1>3, <1>4, <2>3, <2>5, <2>7, <3>1, <4>2, <4>3, Zenon
                DEF ClaimInv
      <3>2. CASE said' = "network"
        BY ONLY <1>4, <2>3, <2>5, <2>7, <3>2 DEF ClaimInv
      <3> QED BY ONLY <2>6, <3>1, <3>2
    <2>9. cmd # "init" \/ said' = said
      BY ONLY <2>6
    <2> QED BY ONLY <1>2, <2>4, <2>8, <2>9, CallStops
  <1> QED BY ONLY <1>1, <1>5, <1>6, Zenon

(* network init.  A command that is through with forming claims what is    *)
(* so.                                                                     *)
LEMMA CallClaims ==
  ASSUME NEW a, Returned(a), cmd = "init", said = "none", shown = <<>>,
         shown' = shown, pc' = "state",
         said' \in {"active", "resumed", "formed"}, ~FormRequest,
         stored # NoNetwork,
         said' = "formed" => stored.formed = session,
         said' # "formed" => stored = before /\ pc # "form"
  PROVE  TruthInv'
  <1>1. UNCHANGED <<cmd, session, stored, before>>
    BY ONLY Returned(a), CallFrame, Zenon
  <1>2. Settled'
    BY ONLY said' \in {"active", "resumed", "formed"}, Zenon DEF Settled
  <1>3. pc = "form" \/ said = "formed" => pc' = "idle" \/ said' = "formed"
    BY ONLY said = "none", said' # "formed" => stored = before /\ pc # "form"
  <1>4. AsksTrue' /\ SaysTrue' /\ FormsOnce'
    BY ONLY Returned(a), <1>2, <1>3, ~FormRequest, LineCall
  <1>5. Len(shown') # 2 /\ shown' = <<>>
    BY ONLY shown = <<>>, shown' = shown
  <1>6. SaidInv'
    BY ONLY <1>1, <1>2, <1>5, cmd = "init", pc' = "state", PlacesAre
       DEF SaidInv
  <1>7. ClaimInv'
    <2>1. /\ said' = "formed" => stored' # NoNetwork /\ stored'.formed = session'
          /\ said' \in {"resumed", "active"} =>
               stored' # NoNetwork /\ stored' = before'
      <3>1. said' \in {"resumed", "active"} => said' # "formed"
        OBVIOUS
      <3> QED BY ONLY <1>1, <3>1, stored # NoNetwork,
                      said' = "formed" => stored.formed = session,
                      said' # "formed" => stored = before /\ pc # "form", Zenon
    <2>2. said' \notin {"noNetwork", "open", "closed", "set", "info"}
      BY ONLY said' \in {"active", "resumed", "formed"}
    <2> QED BY ONLY <1>5, <2>1, <2>2, Zenon DEF ClaimInv
  <1>8. TriedInv'
    BY ONLY <1>1, cmd = "init" DEF TriedInv
  <1> QED BY ONLY <1>4, <1>6, <1>7, <1>8, Zenon DEF TruthInv

(* One that goes on to set up a network has claimed nothing.               *)
LEMMA InitGoesOn ==
  ASSUME NEW a, Returned(a), cmd = "init", pc # "form",
         UNCHANGED <<said, shown>>, shown = <<>>, said = "none",
         \/ pc' = "init" /\ pc = "guard"
         \/ pc' \in {"secure", "form"}
  PROVE  TruthInv'
  <1>1. UNCHANGED <<cmd, stored, before, said, shown>>
    BY ONLY Returned(a), CallFrame, UNCHANGED <<said, shown>>, Zenon
  <1>2. pc = "guard" => stored = before
    BY ONLY Returned(a) DEF Returned, TruthInv, SaidInv
  <1>3. SaidInv'
    BY ONLY <1>1, <1>2, cmd = "init", shown = <<>>, said = "none", PlacesAre,
            \/ pc' = "init" /\ pc = "guard"
            \/ pc' \in {"secure", "form"}
       DEF SaidInv
  <1>4. TriedInv'
    BY ONLY <1>1, cmd = "init" DEF TriedInv
  <1> QED BY ONLY Returned(a), pc # "form", <1>1, <1>3, <1>4, CallGoesOn

(* Where network init stands before it forms a network.                    *)
LEMMA InitPlace ==
  ASSUME NEW a, Returned(a), pc \in {"guard", "init", "secure", "form"}
  PROVE  /\ cmd = "init" /\ said = "none" /\ shown = <<>>
         /\ pc \in {"guard", "init"} => stored = before
         /\ pc # "form" => ~FormRequest
  <1>1. cmd = "init" /\ said = "none"
    BY ONLY Returned(a), pc \in {"guard", "init", "secure", "form"}, CallPlace
  <1>2. shown = <<>> /\ (pc \in {"guard", "init"} => stored = before)
    BY ONLY Returned(a), pc \in {"guard", "init", "secure", "form"}
       DEF Returned, TruthInv, SaidInv
  <1>3. pc # "form" => ~FormRequest
    <2>1. pc # "idle" /\ said # "formed"
      BY ONLY <1>1, pc \in {"guard", "init", "secure", "form"}
    <2> QED BY ONLY Returned(a), <2>1, Zenon DEF Returned, TruthInv, FormsOnce
  <1> QED BY ONLY <1>1, <1>2, <1>3

LEMMA GuardTruth ==
  ASSUME TypeInv, KeepInv, TruthInv, Guard
  PROVE  TruthInv'
  <1>1. PICK a \in Answers :
          /\ pc = "guard" /\ Return(a) /\ UNCHANGED shown
          /\ \/ Fail
             \/ /\ Parsed(NetworkState, a).ok
                /\ Parsed(NetworkState, a).v = joinedNetwork
                /\ Claim("active", "state")
             \/ GoTo("init")
    BY ONLY Guard, Zenon DEF Guard, Quiet
  <1>2. Returned(a)
    BY ONLY TypeInv, KeepInv, TruthInv, <1>1, a \in Answers
       DEF Returned, Places
  <1>3. /\ cmd = "init" /\ said = "none" /\ shown = <<>>
        /\ stored = before /\ ~FormRequest /\ pc # "form"
    BY ONLY <1>1, <1>2, InitPlace
  <1>4. CASE Fail
    BY ONLY <1>1, <1>2, <1>4, CallFails, Zenon DEF Fail
  <1>5. CASE GoTo("init")
    <2>1. pc' = "init" /\ UNCHANGED <<said, shown>>
      BY ONLY <1>1, <1>5, Zenon DEF GoTo
    <2> QED BY ONLY <1>1, <1>2, <1>3, <2>1, InitGoesOn
  <1>6. CASE /\ Parsed(NetworkState, a).ok
             /\ Parsed(NetworkState, a).v = joinedNetwork
             /\ Claim("active", "state")
    <2>1. pc' = "state" /\ said' = "active" /\ shown' = shown
      BY ONLY <1>1, <1>6, Zenon DEF Claim
    <2>2. /\ a.got /\ NetworkState(a.params).ok
          /\ NetworkState(a.params).v = joinedNetwork
      BY ONLY <1>6, ParsedGot, Zenon
    <2>3. Says(frameIDNetworkState, a.params)
      BY ONLY <1>1, <1>2, <2>2, GotTrue, PlaceRequests
    <2>4. stored # NoNetwork
      BY ONLY <2>2, <2>3, Zenon DEF Says
    <2> QED BY ONLY <1>2, <1>3, <2>1, <2>4, CallClaims
  <1> QED BY ONLY <1>1, <1>4, <1>5, <1>6, Zenon

LEMMA InitNetworkTruth ==
  ASSUME TypeInv, KeepInv, TruthInv, InitNetwork
  PROVE  TruthInv'
  <1>1. PICK a \in Answers :
          /\ pc = "init" /\ Return(a) /\ UNCHANGED shown
          /\ \/ Parsed(Status, a).ok /\ Claim("resumed", "state")
             \/ GoTo("secure")
    BY ONLY InitNetwork, Zenon DEF InitNetwork, StatusCall, Quiet
  <1>2. Returned(a)
    BY ONLY TypeInv, KeepInv, TruthInv, <1>1, a \in Answers
       DEF Returned, Places
  <1>3. /\ cmd = "init" /\ said = "none" /\ shown = <<>>
        /\ stored = before /\ ~FormRequest /\ pc # "form"
    BY ONLY <1>1, <1>2, InitPlace
  <1>4. CASE GoTo("secure")
    <2>1. pc' = "secure" /\ UNCHANGED <<said, shown>>
      BY ONLY <1>1, <1>4, Zenon DEF GoTo
    <2> QED BY ONLY <1>2, <1>3, <2>1, InitGoesOn
  <1>5. CASE Parsed(Status, a).ok /\ Claim("resumed", "state")
    <2>1. pc' = "state" /\ said' = "resumed" /\ shown' = shown
      BY ONLY <1>1, <1>5, Zenon DEF Claim
    <2>2. a.got /\ Status(a.params).ok
      BY ONLY <1>5, ParsedGot, Zenon
    <2>3. Says(frameIDNetworkInit, a.params)
      BY ONLY <1>1, <1>2, <2>2, GotTrue, PlaceRequests
    <2>4. stored # NoNetwork
      BY ONLY <2>2, <2>3, Zenon DEF Says
    <2> QED BY ONLY <1>2, <1>3, <2>1, <2>4, CallClaims
  <1> QED BY ONLY <1>1, <1>4, <1>5, Zenon

LEMMA SecureTruth ==
  ASSUME TypeInv, KeepInv, TruthInv, Secure
  PROVE  TruthInv'
  <1>1. PICK a \in Answers :
          /\ pc = "secure" /\ Return(a) /\ UNCHANGED shown
          /\ GoTo("form") \/ Fail
    BY ONLY Secure, Zenon DEF Secure, StatusCall, Quiet
  <1>2. Returned(a)
    BY ONLY TypeInv, KeepInv, TruthInv, <1>1, a \in Answers
       DEF Returned, Places
  <1>3. cmd = "init" /\ said = "none" /\ shown = <<>> /\ pc # "form"
    BY ONLY <1>1, <1>2, InitPlace
  <1>4. CASE Fail
    BY ONLY <1>1, <1>2, <1>4, CallFails, Zenon DEF Fail
  <1>5. CASE GoTo("form")
    <2>1. pc' = "form" /\ UNCHANGED <<said, shown>>
      BY ONLY <1>1, <1>5, Zenon DEF GoTo
    <2> QED BY ONLY <1>2, <1>3, <2>1, InitGoesOn
  <1> QED BY ONLY <1>1, <1>4, <1>5, Zenon

LEMMA FormTruth ==
  ASSUME TypeInv, KeepInv, TruthInv, Form
  PROVE  TruthInv'
  <1>1. PICK a \in Answers :
          /\ pc = "form" /\ Return(a) /\ UNCHANGED shown
          /\ (Parsed(Status, a).ok /\ Claim("formed", "state")) \/ Fail
    BY ONLY Form, Zenon DEF Form, StatusCall, Quiet
  <1>2. Returned(a)
    BY ONLY TypeInv, KeepInv, TruthInv, <1>1, a \in Answers
       DEF Returned, Places
  <1>3. cmd = "init" /\ said = "none" /\ shown = <<>>
    BY ONLY <1>1, <1>2, InitPlace
  <1>4. CASE Fail
    BY ONLY <1>1, <1>2, <1>4, CallFails, Zenon DEF Fail
  <1>5. CASE Parsed(Status, a).ok /\ Claim("formed", "state")
    <2>1. pc' = "state" /\ said' = "formed" /\ shown' = shown
      BY ONLY <1>1, <1>5, Zenon DEF Claim
    <2>2. a.got /\ Status(a.params).ok
      BY ONLY <1>5, ParsedGot, Zenon
    <2>3. Says(frameIDFormNetwork, a.params) /\ ~FormRequest
      BY ONLY <1>1, <1>2, <2>2, GotTrue, PlaceRequests
    <2>4. stored # NoNetwork /\ stored.formed = session
      BY ONLY <2>2, <2>3, Zenon DEF Says
    <2> QED BY ONLY <1>2, <1>3, <2>1, <2>3, <2>4, CallClaims
  <1> QED BY ONLY <1>1, <1>4, <1>5, Zenon

(* The listings.                                                           *)
LEMMA ListingTruth ==
  ASSUME NEW a, Returned(a), cmd \in {"endpoints", "list", "get"},
         \/ pc' = "idle" /\ said' \in {said, "endpoints", "list", "get"}
         \/ pc' \in PlacesOf(cmd) /\ said' = said
  PROVE  TruthInv'
  <1>1. /\ UNCHANGED <<cmd, stored, linked>>
        /\ PlacesOf(cmd') = PlacesOf(cmd)
    BY ONLY Returned(a), CallFrame, Zenon
  <1>2. Settled /\ Settled'
    BY ONLY <1>1, cmd \in {"endpoints", "list", "get"} DEF Settled
  <1>3. said = "none" /\ pc # "form"
    BY ONLY Returned(a), cmd \in {"endpoints", "list", "get"}, CallPlace
  <1>4. said' \in {"none", "endpoints", "list", "get"}
    BY ONLY <1>3, \/ pc' = "idle" /\ said' \in {said, "endpoints", "list", "get"}
                  \/ pc' \in PlacesOf(cmd) /\ said' = said
  <1>5. pc = "form" \/ said = "formed" => pc' = "idle" \/ said' = "formed"
    BY ONLY <1>3
  <1>6. AsksTrue' /\ SaysTrue' /\ FormsOnce'
    BY ONLY Returned(a), <1>2, <1>5, LineCall
  <1>7. pc' = "idle" \/ pc' \in {"count", "value"} \cup Listings
    BY ONLY cmd \in {"endpoints", "list", "get"}, PlacesAre,
            \/ pc' = "idle" /\ said' \in {said, "endpoints", "list", "get"}
            \/ pc' \in PlacesOf(cmd) /\ said' = said
  <1>8. SaidInv'
    <2>1. CASE pc' = "idle"
      BY ONLY <2>1, PlacesAre, Zenon DEF SaidInv
    <2>2. CASE pc' # "idle"
      <3>1. pc' \in PlacesOf(cmd') /\ said' = "none"
        BY ONLY <1>1, <1>3, <2>2,
                \/ pc' = "idle" /\ said' \in {said, "endpoints", "list", "get"}
                \/ pc' \in PlacesOf(cmd) /\ said' = said
      <3>2. pc' \notin {"state", "params", "negotiate", "guard", "init",
                        "reset", "nodeId", "tryInit", "secure", "form",
                        "eui64"}
        BY ONLY <1>7, <2>2 DEF Listings
      <3> QED BY ONLY <3>1, <3>2 DEF SaidInv
    <2> QED BY <2>1, <2>2
  <1>9. ClaimInv'
    BY ONLY <1>1, <1>4, cmd \in {"endpoints", "list", "get"} DEF ClaimInv
  <1>10. TriedInv'
    BY ONLY <1>1, cmd \in {"endpoints", "list", "get"} DEF TriedInv
  <1> QED BY ONLY <1>6, <1>8, <1>9, <1>10, Zenon DEF TruthInv

(* A step of the loop over the endpoints.                                  *)
LEMMA LoopTruth ==
  ASSUME NEW a, Returned(a), pc \in {"count"} \cup Listings,
         \/ \E it : Loop(it)
         \/ GoTo("description")
         \/ Fail
  PROVE  TruthInv'
  <1>1. cmd = "endpoints"
    BY ONLY Returned(a), pc \in {"count"} \cup Listings, CallPlace
  <1>2. \/ pc' = "idle" /\ said' \in {said, "endpoints"}
        \/ pc' \in Listings /\ said' = said
    <2>1. ASSUME GoTo("description") \/ Fail
          PROVE  \/ pc' = "idle" /\ said' \in {said, "endpoints"}
                 \/ pc' \in Listings /\ said' = said
      BY ONLY <2>1 DEF GoTo, Fail, Listings
    <2>2. ASSUME NEW it, Loop(it)
          PROVE  \/ pc' = "idle" /\ said' \in {said, "endpoints"}
                 \/ pc' \in Listings /\ said' = said
      <3>1. \/ GoTo("cluster") \/ GoTo("endpoint") \/ Exit("endpoints")
        BY ONLY <2>2, Zenon DEF Loop
      <3> QED BY ONLY <3>1 DEF GoTo, Exit, Listings
    <2> QED BY ONLY <2>1, <2>2, Zenon,
                    \/ \E it : Loop(it)
                    \/ GoTo("description")
                    \/ Fail
  <1>3. PlacesOf(cmd) = {"count"} \cup Listings
    BY ONLY <1>1, PlacesAre
  <1>4. \/ pc' = "idle" /\ said' \in {said, "endpoints", "list", "get"}
        \/ pc' \in PlacesOf(cmd) /\ said' = said
    BY ONLY <1>2, <1>3
  <1> QED BY ONLY Returned(a), <1>1, <1>4, ListingTruth

LEMMA EndpointsTruth ==
  ASSUME TypeInv, KeepInv, TruthInv,
         Count \/ Endpoint \/ Description \/ Cluster
  PROVE  TruthInv'
  <1>1. \E a \in Answers :
          /\ Return(a) /\ pc \in {"count"} \cup Listings
          /\ (\E it : Loop(it)) \/ GoTo("description") \/ Fail
    <2>1. CASE Count
      BY ONLY <2>1, Zenon DEF Count
    <2>2. CASE Endpoint
      BY ONLY <2>2, Zenon DEF Endpoint, Listings
    <2>3. CASE Description
      BY ONLY <2>3, Zenon DEF Description, Listings
    <2>4. CASE Cluster
      BY ONLY <2>4, Zenon DEF Cluster, Listings
    <2> QED BY ONLY <2>1, <2>2, <2>3, <2>4, Zenon,
                    Count \/ Endpoint \/ Description \/ Cluster
  <1>2. PICK a \in Answers :
          /\ Return(a) /\ pc \in {"count"} \cup Listings
          /\ (\E it : Loop(it)) \/ GoTo("description") \/ Fail
    BY ONLY <1>1
  <1>3. Returned(a)
    BY ONLY TypeInv, KeepInv, TruthInv, <1>2, a \in Answers
       DEF Returned, Places, Listings
  <1> QED BY ONLY <1>2, <1>3, LoopTruth

LEMMA ValueTruth ==
  ASSUME TypeInv, KeepInv, TruthInv, Value
  PROVE  TruthInv'
  <1>1. PICK a \in Answers :
          /\ pc = "value" /\ Return(a)
          /\ \/ Exit("get") \/ Fail \/ GoTo("value") \/ Exit("list")
    BY ONLY Value, Zenon DEF Value
  <1>2. Returned(a)
    BY ONLY TypeInv, KeepInv, TruthInv, <1>1, a \in Answers
       DEF Returned, Places
  <1>3. cmd \in {"list", "get"}
    BY ONLY <1>1, <1>2, CallPlace
  <1>4. PlacesOf(cmd) = {"value"}
    BY ONLY <1>3, PlacesAre
  <1>5. \/ pc' = "idle" /\ said' \in {said, "endpoints", "list", "get"}
        \/ pc' \in PlacesOf(cmd) /\ said' = said
    BY ONLY <1>1, <1>4 DEF Exit, Fail, GoTo
  <1> QED BY ONLY <1>2, <1>3, <1>5, ListingTruth

LEMMA TruthCall == TypeInv /\ KeepInv /\ TruthInv /\ Call => TruthInv'
  BY ONLY NodeIdTruth, Eui64Truth, TryInitTruth, StateTruth, ParamsTruth,
          GuardTruth, InitNetworkTruth, SecureTruth, FormTruth, RestoreTruth,
          PermitTruth, SetConfigTruth, EndpointsTruth, ValueTruth, Zenon
     DEF Call, PlainCall

------------------------------------------------------------------------------
(* The requests.                                                           *)

(* The places that ask for what only this command may ask for.             *)
LEMMA PlaceAsks ==
  ASSUME pc \in Places, NEW x
  PROVE  /\ Request(x)[1] = frameIDPermitJoining => pc = "permit"
         /\ Request(x)[1] = frameIDSetConfigurationValue => pc = "set"
         /\ Request(x)[1] = frameIDFormNetwork <=> pc = "form"
         /\ Request(x)[1] = frameIDGetNetworkParameters => pc = "params"
  <1>1. PICK id : id = Request(x)[1]
    BY ONLY TRUE, Zenon
  <1>2. /\ pc = "nodeId" => id = frameIDGetNodeID
        /\ pc = "eui64" => id = frameIDGetEUI64
        /\ pc \in {"state", "guard"} => id = frameIDNetworkState
        /\ pc = "params" => id = frameIDGetNetworkParameters
        /\ pc \in {"tryInit", "init", "restore"} => id = frameIDNetworkInit
        /\ pc = "secure" => id = frameIDSetInitialSecurityState
        /\ pc = "form" => id = frameIDFormNetwork
        /\ pc = "count" => id = frameIDGetEndpointCount
        /\ pc = "endpoint" => id = frameIDGetEndpoint
        /\ pc = "description" => id = frameIDGetEndpointDescription
        /\ pc = "cluster" => id = frameIDGetEndpointCluster
        /\ pc = "value" => id = frameIDGetConfigurationValue
    BY ONLY <1>1, PlaceRequests, Zenon
  <1>3. /\ pc = "permit" => id = frameIDPermitJoining
        /\ pc = "set" => id = frameIDSetConfigurationValue
    <2>1. /\ pc = "permit" => Request(x) = <<frameIDPermitJoining, <<arg>>>>
          /\ pc = "set" =>
               Request(x) = <<frameIDSetConfigurationValue,
                              SetConfigurationValueParams(arg, SetValue)>>
      BY ONLY PlaceRequests, Zenon
    <2> QED BY ONLY <1>1, <2>1
  <1> QED BY ONLY <1>1, <1>2, <1>3, pc \in Places
     DEF Places, frameIDNetworkInit, frameIDNetworkState, frameIDFormNetwork,
         frameIDPermitJoining, frameIDGetEUI64, frameIDGetNodeID,
         frameIDGetNetworkParameters, frameIDGetConfigurationValue,
         frameIDSetConfigurationValue, frameIDSetInitialSecurityState,
         frameIDGetEndpoint, frameIDGetEndpointCount,
         frameIDGetEndpointDescription, frameIDGetEndpointCluster

(* What a command is where it asks.                                        *)
LEMMA AskPlace ==
  ASSUME SaidInv, pc \in Places
  PROVE  /\ cmd = "info" => pc \in {"nodeId", "eui64"}
         /\ pc = "form" => said = "none" /\ ~Settled
         /\ pc = "params" => Settled
         /\ pc # "idle"
  <1>1. pc \in PlacesOf(cmd) /\ pc # "idle"
    BY ONLY SaidInv, pc \in Places, PlacesAre, Zenon DEF SaidInv
  <1>2. /\ cmd = "info" => pc \in {"nodeId", "eui64"}
        /\ pc = "form" => cmd = "init"
    BY ONLY <1>1, PlaceOf
  <1>3. pc = "form" => said = "none"
    BY ONLY SaidInv DEF SaidInv
  <1>4. pc = "form" => ~Settled
    BY ONLY <1>2, <1>3 DEF Settled
  <1>5. pc = "params" => Settled
    BY ONLY SaidInv DEF SaidInv
  <1> QED BY ONLY <1>1, <1>2, <1>3, <1>4, <1>5

LEMMA AskAsks ==
  ASSUME TypeInv, SaidInv, pc \in Places, NEW x, NEW fid, NEW p,
         Request(x) = <<fid, p>>
  PROVE  Asks(Wire(ncpExt, fid), p)
  <1>1. fid = Request(x)[1] /\ p = Request(x)[2]
    BY ONLY Request(x) = <<fid, p>>
  <1>2. /\ fid \in Queries \cup Writes /\ ncpExt \in BOOLEAN
        /\ fid = frameIDFormNetwork <=> pc = "form"
    BY ONLY TypeInv, pc \in Places, <1>1, PlaceIDs, Zenon DEF TypeInv, NcpInv
  <1>3. /\ fid = frameIDPermitJoining => pc = "permit"
        /\ fid = frameIDSetConfigurationValue => pc = "set"
        /\ fid = frameIDGetNetworkParameters => pc = "params"
    BY ONLY pc \in Places, <1>1, PlaceAsks, Zenon
  <1>4. /\ pc = "permit" => p = <<arg>>
        /\ pc = "set" => p = SetConfigurationValueParams(arg, SetValue)
    <2>1. /\ pc = "permit" => Request(x) = <<frameIDPermitJoining, <<arg>>>>
          /\ pc = "set" =>
               Request(x) = <<frameIDSetConfigurationValue,
                              SetConfigurationValueParams(arg, SetValue)>>
      BY ONLY PlaceRequests, Zenon
    <2> QED BY ONLY <1>1, <2>1
  <1>5. cmd = "info" => fid \in {frameIDGetNodeID, frameIDGetEUI64}
    <2>1. cmd = "info" => pc \in {"nodeId", "eui64"}
      BY ONLY SaidInv, pc \in Places, AskPlace
    <2>2. /\ pc = "nodeId" => fid = frameIDGetNodeID
          /\ pc = "eui64" => fid = frameIDGetEUI64
      BY ONLY <1>1, PlaceRequests, Zenon
    <2> QED BY ONLY <2>1, <2>2
  <1>6. PICK w : w = Wire(ncpExt, fid)
    BY ONLY TRUE, Zenon
  <1>7. w \in Queries \cup Writes => w = fid
    BY ONLY <1>2, <1>6, FrameIDs, Zenon
  <1>8. fid \in {frameIDGetNodeID, frameIDGetEUI64} => w = fid
    BY ONLY <1>2, <1>6 DEF Wire, Low, frameIDGetNodeID, frameIDGetEUI64
  <1>9. {frameIDGetNetworkParameters, frameIDPermitJoining,
         frameIDFormNetwork, frameIDSetConfigurationValue}
          \subseteq Queries \cup Writes
    BY ONLY QueryIDs
  <1>10. /\ w = frameIDPermitJoining => p[1] = arg
         /\ w = frameIDSetConfigurationValue =>
              p = SetConfigurationValueParams(arg, SetValue)
    <2>1. p = <<arg>> => p[1] = arg
      OBVIOUS
    <2> QED BY ONLY <1>3, <1>4, <1>7, <1>9, <2>1
  <1>11. /\ w = frameIDFormNetwork => ~Settled
         /\ w = frameIDGetNetworkParameters => Settled
    BY ONLY SaidInv, pc \in Places, <1>2, <1>3, <1>7, <1>9, AskPlace
  <1>12. cmd = "info" => w \in {frameIDGetNodeID, frameIDGetEUI64}
    BY ONLY <1>5, <1>8
  <1>13. Asks(w, p)
    BY ONLY <1>10, <1>11, <1>12, Zenon DEF Asks
  <1> QED BY ONLY <1>6, <1>13, Zenon

(* What does not depend on the line of a step of which the command, what   *)
(* it says and the NCP see nothing.                                        *)
LEMMA SaidSame ==
  ASSUME SaidInv, ClaimInv, clean' => clean,
         UNCHANGED <<pc, cmd, arg, said, shown, session, stored, before,
                     linked, up, joining, config>>
  PROVE  /\ SaidInv' /\ ClaimInv' /\ Settled' = Settled
         /\ StateByte' = StateByte
  <1>1. Settled' = Settled /\ NodeID' = NodeID /\ StateByte' = StateByte
    <2>1. cmd' = cmd /\ said' = said /\ up' = up
      BY ONLY UNCHANGED <<pc, cmd, arg, said, shown, session, stored, before,
                     linked, up, joining, config>>, Zenon
    <2> QED BY ONLY <2>1, SMT DEF Settled, NodeID, StateByte
  <1>2. /\ Printed' = Printed /\ EUI64' = EUI64
        /\ PlacesOf(cmd)' = PlacesOf(cmd) /\ shown[1]' = shown[1]
        /\ shown[2]' = shown[2] /\ Len(shown)' = Len(shown)
    BY ONLY UNCHANGED <<pc, cmd, arg, said, shown, session, stored, before,
                     linked, up, joining, config>>, PrintedSame, Zenon
       DEF EUI64
  <1>3. SaidInv'
    BY ONLY SaidInv, <1>1, <1>2, Zenon,
            UNCHANGED <<pc, cmd, arg, said, shown, session, stored, before,
                     linked, up, joining, config>>
       DEF SaidInv
  <1>4. ClaimInv'
    BY ONLY ClaimInv, <1>1, <1>2, clean' => clean, Zenon,
            UNCHANGED <<pc, cmd, arg, said, shown, session, stored, before,
                     linked, up, joining, config>>
       DEF ClaimInv
  <1> QED BY ONLY <1>1, <1>3, <1>4

LEMMA TruthAsk == TypeInv /\ KeepInv /\ TruthInv /\ Ask => TruthInv'
  <1> SUFFICES ASSUME TypeInv, KeepInv, TruthInv, Ask PROVE TruthInv'
    OBVIOUS
  <1>1. /\ pc \in Places /\ ~waiting /\ waiting' = TRUE
        /\ UNCHANGED <<progVars, pc, extended, inbox, ncpVars, before>>
        /\ \/ /\ clean' = clean
              /\ \E random \in IF pc = "form" THEN PanIDs ELSE {0},
                    fid \in Queries \cup Writes, p \in Seq(Byte) :
                   /\ Request(random) = <<fid, p>> /\ Legit(fid, p)
                   /\ outbox' = Append(outbox, encode(ncpExt, 0, fid, p))
           \/ clean' = FALSE /\ outbox' = outbox
    BY ONLY TypeInv, Ask, AskMoves, Zenon
  <1>2. /\ UNCHANGED <<pc, cmd, arg, said, shown, session, stored, before,
                       linked, up, joining, config>>
        /\ UNCHANGED <<inbox, ncpExt, extended>>
    BY ONLY <1>1, Zenon DEF progVars, ncpVars
  <1>3. /\ AsksTrue /\ SaysTrue /\ FormsOnce /\ SaidInv /\ ClaimInv /\ TriedInv
        /\ ncpExt \in BOOLEAN /\ outbox \in Seq(Seq(Byte))
    BY ONLY TypeInv, TruthInv, Zenon DEF TruthInv, TypeInv, NcpInv, LineInv
  <1>4. clean' => clean
    BY ONLY <1>1
  <1>5. /\ SaidInv' /\ ClaimInv' /\ Settled' = Settled
        /\ StateByte' = StateByte
    BY ONLY <1>2, <1>3, <1>4, SaidSame
  <1>6. \A fid, p : (Asks(fid, p) => Asks(fid, p)')
                    /\ (Says(fid, p) => Says(fid, p)')
    <2>1. Settled => Settled'
      BY ONLY <1>5
    <2> QED BY ONLY <1>2, <1>5, <2>1, AsksKept, SaysKept, Zenon
  <1>7. TriedInv'
    <2>1. Answered' = Answered
      BY ONLY <1>2, Zenon DEF Answered
    <2> QED BY ONLY <1>2, <1>3, <1>4, <1>5, <2>1, Zenon DEF TriedInv
  <1>8. \A k \in DOMAIN inbox' : \E m \in DOMAIN inbox : inbox'[k] = inbox[m]
    BY ONLY <1>2, Zenon
  <1>9. FormAnswer' = FormAnswer
    BY ONLY <1>2, Zenon DEF FormAnswer
  <1>10. pc # "idle" /\ (pc = "form" => said = "none")
    BY ONLY <1>1, <1>3, AskPlace
  <1>11. pc = "form" => ~FormRequest /\ ~FormAnswer
    BY ONLY <1>1, <1>3, <1>10 DEF FormsOnce
  <1>12. CASE outbox' = outbox
    <2>1. AsksTrue' /\ SaysTrue'
      <3>1. \A k \in DOMAIN outbox' :
              \E m \in DOMAIN outbox : outbox'[k] = outbox[m]
        BY ONLY <1>12, Zenon
      <3> QED BY ONLY <1>2, <1>3, <1>6, <1>8, <3>1, LineKept, Zenon
    <2>2. FormRequest' = FormRequest
      BY ONLY <1>2, <1>12, Zenon DEF FormRequest
    <2>3. FormsOnce'
      <3>1. \A k, m \in DOMAIN outbox' :
              Forms(ncpExt', outbox'[k]) /\ Forms(ncpExt', outbox'[m]) => k = m
        BY ONLY <1>2, <1>3, <1>12, Zenon DEF FormsOnce
      <3>2. FormRequest \/ FormAnswer => said = "formed"
        BY ONLY <1>1, <1>3, <1>10, Zenon DEF FormsOnce
      <3> QED BY ONLY <1>2, <1>3, <1>9, <2>2, <3>1, <3>2, Zenon DEF FormsOnce
    <2> QED BY ONLY <1>5, <1>7, <2>1, <2>3, Zenon DEF TruthInv
  <1>13. ASSUME NEW x, NEW fid \in Queries \cup Writes, NEW p \in Seq(Byte),
                Request(x) = <<fid, p>>,
                outbox' = Append(outbox, encode(ncpExt, 0, fid, p))
         PROVE  TruthInv'
    <2>1. fid \in Word
      BY ONLY fid \in Queries \cup Writes, FrameIDs
    <2>2. PICK f \in Seq(Byte) : f = encode(ncpExt, 0, fid, p)
      BY ONLY <1>3, <2>1, p \in Seq(Byte), FrameRoundTrip
    <2>3. /\ Len(outbox) \in Nat /\ DOMAIN outbox = 1 .. Len(outbox)
          /\ DOMAIN outbox' = 1 .. Len(outbox) + 1
          /\ \A i \in 1 .. Len(outbox) : outbox'[i] = outbox[i]
          /\ outbox'[Len(outbox) + 1] = f
      <3>1. outbox' = Append(outbox, f)
        BY ONLY <1>13, <2>2, Zenon
      <3>2. /\ Len(outbox) \in Nat /\ DOMAIN outbox = 1 .. Len(outbox)
            /\ DOMAIN Append(outbox, f) = 1 .. Len(outbox) + 1
            /\ \A i \in 1 .. Len(outbox) : Append(outbox, f)[i] = outbox[i]
            /\ Append(outbox, f)[Len(outbox) + 1] = f
        BY ONLY <1>3, f \in Seq(Byte), QueueAppend
      <3> QED BY ONLY <3>1, <3>2, Zenon
    <2>4. /\ \A i, q : Reads(ncpExt, f, i, q) => i = Wire(ncpExt, fid) /\ q = p
          /\ Forms(ncpExt, f) <=> Wire(ncpExt, fid) = frameIDFormNetwork
      BY ONLY <1>3, <2>1, <2>2, p \in Seq(Byte), WrittenReads, Zenon
    <2>5. Asks(Wire(ncpExt, fid), p)
      BY ONLY TypeInv, <1>1, <1>3, <1>13, AskAsks
    <2>6. \A i, q : Reads(ncpExt, f, i, q) => Asks(i, q)'
      <3>1. PICK w : w = Wire(ncpExt, fid)
        BY ONLY TRUE, Zenon
      <3>2. Asks(w, p)'
        BY ONLY <1>6, <2>5, <3>1, Zenon
      <3> QED BY ONLY <2>4, <3>1, <3>2, Zenon
    <2>7. \A k \in DOMAIN outbox' :
            \/ k \in DOMAIN outbox /\ outbox'[k] = outbox[k]
            \/ k = Len(outbox) + 1 /\ outbox'[k] = f
      <3> SUFFICES ASSUME NEW CONSTANT k, k \in DOMAIN outbox'
                   PROVE  \/ k \in DOMAIN outbox /\ outbox'[k] = outbox[k]
                          \/ k = Len(outbox) + 1 /\ outbox'[k] = f
        OBVIOUS
      <3>1. k \in 1 .. Len(outbox) \/ k = Len(outbox) + 1
        BY ONLY <2>3, k \in DOMAIN outbox'
      <3> QED BY ONLY <2>3, <3>1, Zenon
    <2>8. AsksTrue' /\ SaysTrue'
      <3>1. \A k \in DOMAIN outbox' :
              \/ \E m \in DOMAIN outbox : outbox'[k] = outbox[m]
              \/ \A i, q : Reads(ncpExt, outbox'[k], i, q) => Asks(i, q)'
        BY ONLY <2>6, <2>7, Zenon
      <3> QED BY ONLY <1>2, <1>3, <1>6, <1>8, <3>1, LineKept, Zenon
    <2>9. Forms(ncpExt, f) <=> pc = "form"
      <3>1. Request(x)[1] = fid
        BY ONLY <1>13
      <3>2. fid = frameIDFormNetwork <=> pc = "form"
        BY ONLY <1>1, <3>1, PlaceAsks, Zenon
      <3>3. fid = frameIDFormNetwork <=> Wire(ncpExt, fid) = frameIDFormNetwork
        <4>1. frameIDFormNetwork \in Queries \cup Writes
          BY ONLY QueryIDs
        <4>2. Wire(ncpExt, fid) \in Queries \cup Writes =>
                Wire(ncpExt, fid) = fid
          BY ONLY <1>3, fid \in Queries \cup Writes, FrameIDs, Zenon
        <4>3. fid = frameIDFormNetwork => Wire(ncpExt, fid) = frameIDFormNetwork
          BY ONLY TRUE, SMT DEF Wire, Low, frameIDFormNetwork
        <4> QED BY ONLY <4>1, <4>2, <4>3, Zenon
      <3> QED BY ONLY <2>4, <3>2, <3>3, Zenon
    <2>10. CASE pc = "form"
      <3>1. \A k \in DOMAIN outbox : ~Forms(ncpExt, outbox[k])
        BY ONLY <1>11, <2>10, Zenon DEF FormRequest
      <3>2. ~FormAnswer'
        BY ONLY <1>9, <1>11, <2>10
      <3>3. \A k \in DOMAIN outbox' :
              Forms(ncpExt, outbox'[k]) => k = Len(outbox) + 1
        BY ONLY <2>7, <3>1, Zenon
      <3>4. pc' = "form" /\ waiting'
        BY ONLY <1>1, <1>2, <2>10
      <3>5. \A k, m \in DOMAIN outbox' :
              Forms(ncpExt', outbox'[k]) /\ Forms(ncpExt', outbox'[m]) => k = m
        BY ONLY <1>2, <3>3, Zenon
      <3>6. FormsOnce'
        BY ONLY <3>2, <3>4, <3>5, Zenon DEF FormsOnce
      <3> QED BY ONLY <1>5, <1>7, <2>8, <3>6, Zenon DEF TruthInv
    <2>11. CASE pc # "form"
      <3>1. ~Forms(ncpExt, f)
        BY ONLY <2>9, <2>11
      <3>2. \A k \in DOMAIN outbox' :
              Forms(ncpExt, outbox'[k]) =>
                k \in DOMAIN outbox /\ Forms(ncpExt, outbox[k])
        BY ONLY <2>7, <3>1, Zenon
      <3>3. FormRequest' => FormRequest
        BY ONLY <1>2, <3>2, Zenon DEF FormRequest
      <3>4. FormRequest \/ FormAnswer => said = "formed"
        BY ONLY <1>3, <1>10, <2>11, Zenon DEF FormsOnce
      <3>5. \A k, m \in DOMAIN outbox' :
              Forms(ncpExt', outbox'[k]) /\ Forms(ncpExt', outbox'[m]) => k = m
        BY ONLY <1>2, <1>3, <3>2, Zenon DEF FormsOnce
      <3>6. FormsOnce'
        BY ONLY <1>2, <1>3, <1>9, <3>3, <3>4, <3>5, Zenon DEF FormsOnce
      <3> QED BY ONLY <1>5, <1>7, <2>8, <3>6, Zenon DEF TruthInv
    <2> QED BY ONLY <2>10, <2>11
  <1> QED BY ONLY <1>1, <1>12, <1>13, Zenon

------------------------------------------------------------------------------
(* The other steps.                                                        *)

LEMMA TruthStart ==
  ASSUME TypeInv, TruthInv, NEW c \in Commands, Start(c)
  PROVE  TruthInv'
  <1>1. /\ pc' = "reset" /\ said' = "none" /\ shown' = <<>>
        /\ outbox' = <<>> /\ inbox' = <<>>
    BY ONLY Start(c), Zenon DEF Start
  <1>2. AsksTrue' /\ SaysTrue' /\ FormsOnce'
    BY ONLY <1>1, LineEmpty, Zenon
  <1>3. pc' \notin Places
    BY ONLY <1>1 DEF Places
  <1>4. SaidInv' /\ TriedInv'
    BY ONLY <1>1, <1>3 DEF SaidInv, TriedInv
  <1>5. Len(shown') # 2
    BY ONLY <1>1
  <1>6. ClaimInv'
    BY ONLY <1>1, <1>5 DEF ClaimInv
  <1> QED BY ONLY <1>2, <1>4, <1>6, Zenon DEF TruthInv

LEMMA TruthReset == TypeInv /\ TruthInv /\ Reset => TruthInv'
  <1> SUFFICES ASSUME TypeInv, TruthInv, Reset PROVE TruthInv'
    OBVIOUS
  <1>1. /\ pc = "reset" /\ before' = stored /\ stored' = stored
        /\ outbox' = <<>> /\ inbox' = <<>>
        /\ cmd' = cmd /\ shown' = shown
        /\ \/ pc' = "idle" /\ said' = "reset"
           \/ pc' = "negotiate" /\ said' = said
    BY ONLY Reset, Zenon DEF Reset, Boot, Exit, GoTo
  <1>2. said = "none" /\ shown = <<>>
    BY ONLY TruthInv, <1>1 DEF TruthInv, SaidInv
  <1>3. AsksTrue' /\ SaysTrue' /\ FormsOnce'
    BY ONLY <1>1, LineEmpty, Zenon
  <1>4. pc' \notin Places
    BY ONLY <1>1 DEF Places
  <1>5. SaidInv' /\ TriedInv'
    BY ONLY <1>1, <1>2, <1>4 DEF SaidInv, TriedInv
  <1>6. Len(shown') # 2 /\ said' \in {"none", "reset"}
    BY ONLY <1>1, <1>2
  <1>7. ClaimInv'
    BY ONLY <1>6 DEF ClaimInv
  <1> QED BY ONLY <1>3, <1>5, <1>7, Zenon DEF TruthInv

LEMMA TruthNegotiate == TypeInv /\ TruthInv /\ Negotiate => TruthInv'
  <1> SUFFICES ASSUME TypeInv, TruthInv, Negotiate PROVE TruthInv'
    OBVIOUS
  <1>1. /\ pc = "negotiate" /\ UNCHANGED <<outbox, inbox>>
        /\ UNCHANGED <<cmd, shown, stored, before>>
        /\ \/ pc' = "idle" /\ said' \in {said, "version"}
           \/ cmd # "version" /\ pc' = First[cmd] /\ said' = said
    BY ONLY Negotiate DEF Negotiate, Exit, Fail, GoTo, lineVars
  <1>2. /\ said = "none" /\ shown = <<>> /\ stored = before
    BY ONLY TruthInv, <1>1 DEF TruthInv, SaidInv
  <1>3. outbox' = <<>> /\ inbox' = <<>>
    BY ONLY TypeInv, <1>1, Zenon DEF TypeInv, LineInv
  <1>4. AsksTrue' /\ SaysTrue' /\ FormsOnce'
    BY ONLY <1>3, LineEmpty, Zenon
  <1>5. Len(shown') # 2 /\ said' \in {"none", "version"} /\ shown' = <<>>
    BY ONLY <1>1, <1>2
  <1>6. ClaimInv'
    BY ONLY <1>5 DEF ClaimInv
  <1>7. \/ pc' = "idle"
        \/ /\ pc' \in PlacesOf(cmd') /\ said' = "none"
           /\ pc' \in {"nodeId", "tryInit", "guard", "restore", "count",
                       "value", "set"}
    <2> SUFFICES ASSUME pc' # "idle"
                 PROVE  /\ pc' \in PlacesOf(cmd') /\ said' = "none"
                        /\ pc' \in {"nodeId", "tryInit", "guard", "restore",
                                    "count", "value", "set"}
      OBVIOUS
    <2>1. cmd # "version" /\ pc' = First[cmd] /\ said' = "none" /\ cmd' = cmd
      BY ONLY <1>1, <1>2, pc' # "idle"
    <2>2. cmd \in {"info", "state", "init", "permit", "endpoints", "list",
                   "get", "set"}
      <3>1. cmd \in Commands \cup {"none"} /\ cmd # "none" /\ cmd # "reset"
        BY ONLY TypeInv, <1>1 DEF TypeInv, CmdInv
      <3> QED BY ONLY <2>1, <3>1, CliAssumption
    <2>3. pc' \in {"nodeId", "tryInit", "guard", "restore", "count", "value",
                   "set"}
      BY ONLY <2>1, <2>2 DEF First
    <2>4. pc' \in PlacesOf(cmd)
      <3>1. /\ cmd = "info" => pc' = "nodeId"
            /\ cmd = "state" => pc' = "tryInit"
            /\ cmd = "init" => pc' = "guard"
            /\ cmd = "permit" => pc' = "restore"
            /\ cmd = "endpoints" => pc' = "count"
            /\ cmd \in {"list", "get"} => pc' = "value"
            /\ cmd = "set" => pc' = "set"
        BY ONLY <2>1, <2>2 DEF First
      <3> QED BY ONLY <2>2, <3>1, PlacesAre
    <2> QED BY ONLY <2>1, <2>3, <2>4
  <1>8. SaidInv'
    <2>1. CASE pc' = "idle"
      BY ONLY <2>1, PlacesAre, Zenon DEF SaidInv
    <2>2. CASE pc' # "idle"
      BY ONLY <1>1, <1>2, <1>5, <1>7, <2>2 DEF SaidInv
    <2> QED BY <2>1, <2>2
  <1>9. TriedInv'
    <2>1. pc' # "state"
      BY ONLY <1>7
    <2> QED BY ONLY <1>3, <2>1, Zenon DEF TriedInv
  <1> QED BY ONLY <1>4, <1>6, <1>8, <1>9, Zenon DEF TruthInv

LEMMA TruthStops == TypeInv /\ TruthInv /\ NoConnection => TruthInv'
  <1> SUFFICES ASSUME TypeInv, TruthInv, NoConnection PROVE TruthInv'
    OBVIOUS
  <1>1. /\ pc \in {"reset", "negotiate"} /\ pc' = "idle"
        /\ UNCHANGED <<outbox, inbox, said, shown>>
    BY ONLY NoConnection, Zenon DEF NoConnection, Fail, lineVars
  <1>2. said = "none" /\ shown = <<>>
    BY ONLY TruthInv, <1>1 DEF TruthInv, SaidInv
  <1>3. outbox' = <<>> /\ inbox' = <<>>
    BY ONLY TypeInv, <1>1, Zenon DEF TypeInv, LineInv
  <1>4. AsksTrue' /\ SaysTrue' /\ FormsOnce'
    BY ONLY <1>3, LineEmpty, Zenon
  <1>5. Len(shown') # 2 /\ said' = "none"
    BY ONLY <1>1, <1>2
  <1>6. ClaimInv'
    BY ONLY <1>5 DEF ClaimInv
  <1>7. SaidInv' /\ TriedInv'
    BY ONLY <1>1, PlacesAre, Zenon DEF SaidInv, TriedInv
  <1> QED BY ONLY <1>4, <1>6, <1>7, Zenon DEF TruthInv

LEMMA TruthKill == TypeInv /\ TruthInv /\ Kill => TruthInv'
  <1> SUFFICES ASSUME TypeInv, TruthInv, Kill PROVE TruthInv'
    OBVIOUS
  <1>1. /\ pc' = "idle" /\ clean' = FALSE
        /\ UNCHANGED <<cmd, arg, said, shown, session, stored, before, linked,
                       up, joining, config, outbox, inbox, ncpExt>>
    BY ONLY Kill, Zenon DEF Kill, lineVars, ncpVars
  <1>2. AsksTrue /\ SaysTrue /\ FormsOnce /\ ClaimInv
    BY ONLY TruthInv, Zenon DEF TruthInv
  <1>3. /\ Settled' = Settled /\ NodeID' = NodeID /\ Printed' = Printed
        /\ EUI64' = EUI64
    <2>1. cmd' = cmd /\ said' = said /\ up' = up /\ stored' = stored
      BY ONLY <1>1, Zenon
    <2>2. Settled' = Settled /\ NodeID' = NodeID
      BY ONLY <2>1, SMT DEF Settled, NodeID
    <2> QED BY ONLY <2>1, <2>2, PrintedSame, Zenon DEF EUI64
  <1>4. AsksTrue' /\ SaysTrue'
    <2>1. Settled => Settled'
      BY ONLY <1>3
    <2>2. \A fid, p : (Asks(fid, p) => Asks(fid, p)')
                      /\ (Says(fid, p) => Says(fid, p)')
      BY ONLY <1>1, <1>3, <2>1, AsksKept, SaysKept, Zenon
    <2>3. /\ \A k \in DOMAIN outbox' :
               \E m \in DOMAIN outbox : outbox'[k] = outbox[m]
          /\ \A k \in DOMAIN inbox' :
               \E m \in DOMAIN inbox : inbox'[k] = inbox[m]
      BY ONLY <1>1, Zenon
    <2> QED BY ONLY <1>1, <1>2, <2>2, <2>3, LineKept, Zenon
  <1>5. FormsOnce'
    <2>1. FormRequest' = FormRequest /\ FormAnswer' = FormAnswer
      BY ONLY <1>1, Zenon DEF FormRequest, FormAnswer
    <2> QED BY ONLY <1>1, <1>2, <2>1, Zenon DEF FormsOnce
  <1>6. ClaimInv'
    <2>1. shown[2]' = shown[2] /\ Len(shown)' = Len(shown) /\ ~clean'
      BY ONLY <1>1, Zenon
    <2> QED BY ONLY <1>1, <1>2, <1>3, <2>1, Zenon DEF ClaimInv
  <1>7. SaidInv' /\ TriedInv'
    BY ONLY <1>1, PlacesAre, Zenon DEF SaidInv, TriedInv
  <1> QED BY ONLY <1>4, <1>5, <1>6, <1>7, Zenon DEF TruthInv

LEMMA TruthRestart == TypeInv /\ TruthInv /\ NcpRestart => TruthInv'
  <1> SUFFICES ASSUME TypeInv, TruthInv, NcpRestart PROVE TruthInv'
    OBVIOUS
  <1>1. /\ outbox' = <<>> /\ inbox' = <<>> /\ linked' = FALSE /\ clean' = FALSE
        /\ UNCHANGED <<pc, cmd, arg, said, shown, session, stored, before>>
    BY ONLY NcpRestart, Zenon DEF NcpRestart, Boot, progVars
  <1>2. SaidInv /\ ClaimInv
    BY ONLY TruthInv, Zenon DEF TruthInv
  <1>3. AsksTrue' /\ SaysTrue' /\ FormsOnce'
    BY ONLY <1>1, LineEmpty, Zenon
  <1>4. /\ Settled' = Settled /\ Printed' = Printed
        /\ PlacesOf(cmd)' = PlacesOf(cmd) /\ shown[1]' = shown[1]
        /\ shown[2]' = shown[2] /\ Len(shown)' = Len(shown)
        /\ ~linked' /\ ~clean'
    <2>1. cmd' = cmd /\ said' = said /\ stored' = stored
      BY ONLY <1>1, Zenon
    <2>2. Settled' = Settled
      BY ONLY <2>1, SMT DEF Settled
    <2> QED BY ONLY <1>1, <2>1, <2>2, PrintedSame, Zenon
  <1>5. SaidInv'
    BY ONLY <1>1, <1>2, <1>4, Zenon DEF SaidInv
  <1>6. ClaimInv'
    BY ONLY <1>1, <1>2, <1>4, Zenon DEF ClaimInv
  <1>7. TriedInv'
    BY ONLY <1>4, Zenon DEF TriedInv
  <1> QED BY ONLY <1>3, <1>5, <1>6, <1>7, Zenon DEF TruthInv

LEMMA TruthStutter == TruthInv /\ UNCHANGED vars => TruthInv'
  <1> SUFFICES ASSUME TruthInv, UNCHANGED vars PROVE TruthInv'
    OBVIOUS
  <1>1. /\ UNCHANGED <<pc, cmd, arg, said, shown, session, stored, before,
                       linked, up, joining, config>>
        /\ UNCHANGED <<outbox, inbox, ncpExt, waiting, clean, extended>>
    BY ONLY UNCHANGED vars, Zenon DEF vars, progVars, lineVars, ncpVars
  <1>2. AsksTrue /\ SaysTrue /\ FormsOnce /\ SaidInv /\ ClaimInv /\ TriedInv
    BY ONLY TruthInv, Zenon DEF TruthInv
  <1>3. clean' => clean
    BY ONLY <1>1
  <1>4. /\ SaidInv' /\ ClaimInv' /\ Settled' = Settled
        /\ StateByte' = StateByte
    BY ONLY <1>1, <1>2, <1>3, SaidSame
  <1>5. AsksTrue' /\ SaysTrue'
    <2>1. Settled => Settled'
      BY ONLY <1>4
    <2>2. \A fid, p : (Asks(fid, p) => Asks(fid, p)')
                      /\ (Says(fid, p) => Says(fid, p)')
      BY ONLY <1>1, <1>4, <2>1, AsksKept, SaysKept, Zenon
    <2>3. /\ \A k \in DOMAIN outbox' :
               \E m \in DOMAIN outbox : outbox'[k] = outbox[m]
          /\ \A k \in DOMAIN inbox' :
               \E m \in DOMAIN inbox : inbox'[k] = inbox[m]
      BY ONLY <1>1, Zenon
    <2> QED BY ONLY <1>1, <1>2, <2>2, <2>3, LineKept, Zenon
  <1>6. FormsOnce'
    <2>1. FormRequest' = FormRequest /\ FormAnswer' = FormAnswer
      BY ONLY <1>1, Zenon DEF FormRequest, FormAnswer
    <2> QED BY ONLY <1>1, <1>2, <2>1, Zenon DEF FormsOnce
  <1>7. TriedInv'
    <2>1. Answered' = Answered
      BY ONLY <1>1, Zenon DEF Answered
    <2> QED BY ONLY <1>1, <1>2, <1>3, <1>4, <2>1, Zenon DEF TriedInv
  <1> QED BY ONLY <1>4, <1>5, <1>6, <1>7, Zenon DEF TruthInv

LEMMA TruthStep == TypeInv /\ KeepInv /\ TruthInv /\ [Next]_vars => TruthInv'
  <1> SUFFICES ASSUME TypeInv, KeepInv, TruthInv, [Next]_vars PROVE TruthInv'
    OBVIOUS
  <1>1. ASSUME NEW c \in Commands, Start(c) PROVE TruthInv'
    BY ONLY TypeInv, TruthInv, <1>1, TruthStart
  <1> QED BY ONLY TypeInv, KeepInv, TruthInv, [Next]_vars, Steps, <1>1,
                  TruthReset, TruthNegotiate, TruthStops, TruthKill, TruthAsk,
                  TruthCall, TruthNcp, TruthRestart, TruthStutter, Zenon
          DEF Call

LEMMA TruthInit == Init => TruthInv
  <1> SUFFICES ASSUME Init PROVE TruthInv
    OBVIOUS
  <1>1. /\ pc = "idle" /\ said = "none" /\ shown = <<>> /\ clean = FALSE
        /\ outbox = <<>> /\ inbox = <<>>
    BY ONLY Init, Zenon DEF Init
  <1>2. DOMAIN outbox = {} /\ DOMAIN inbox = {}
    BY ONLY <1>1, QueueEmpty
  <1>3. AsksTrue /\ SaysTrue
    BY ONLY <1>2, Zenon DEF AsksTrue, SaysTrue
  <1>4. FormsOnce
    <2>1. ~FormRequest /\ ~FormAnswer
      BY ONLY <1>2, Zenon DEF FormRequest, FormAnswer
    <2> QED BY ONLY <1>2, <2>1, Zenon DEF FormsOnce
  <1>5. SaidInv
    BY ONLY <1>1, PlacesAre, Zenon DEF SaidInv
  <1>6. Len(shown) # 2
    BY ONLY <1>1
  <1>7. ClaimInv /\ TriedInv
    BY ONLY <1>1, <1>6 DEF ClaimInv, TriedInv
  <1> QED BY ONLY <1>3, <1>4, <1>5, <1>7, Zenon DEF TruthInv

(* What a command says of the NCP is so, whatever was lost, refused, cut   *)
(* short, restarted or killed on the way: that a network was formed, was   *)
(* resumed or is up, that joining is open, that a value is set, the        *)
(* addresses and the parameters of the network; and that there is no       *)
(* network, where nothing went wrong.                                      *)
THEOREM SaysTruthTheorem == Spec => []SaysTruth
  <1>1. Init => KeepInv
    BY ONLY TRUE, Zenon DEF Init, KeepInv
  <1>2. Spec => []KeepInv
    BY <1>1, KeepStep, TypeAlways, PTL DEF Spec
  <1>3. Spec => []TruthInv
    BY <1>2, TruthInit, TruthStep, TypeAlways, PTL DEF Spec
  <1>4. TruthInv => SaysTruth
    <2> SUFFICES ASSUME TruthInv PROVE SaysTruth
      OBVIOUS
    <2>1. ClaimInv
      BY Zenon DEF TruthInv
    <2> QED BY ONLY <2>1, Zenon DEF ClaimInv, SaysTruth, NodeID, EUI64
  <1> QED BY <1>3, <1>4, PTL

==============================================================================
