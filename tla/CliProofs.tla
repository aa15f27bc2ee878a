------------------------------- MODULE CliProofs -------------------------------
(* Theorems about Cli, for every value of its constants.                   *)
EXTENDS Cli, EzspCommandsProofs

------------------------------------------------------------------------------
(* Types.                                                                  *)

(* What a request of this command says.                                    *)
Legit(fid, p) ==
  /\ fid \in Queries \cup Writes /\ p \in Seq(Byte)
  /\ fid = frameIDSetInitialSecurityState => p[19] = session
  /\ fid = frameIDFormNetwork =>
       \E random \in PanIDs : p = FormNetworkParams(Parameters(flags, random))
  /\ fid \in {frameIDPermitJoining, frameIDGetConfigurationValue,
              frameIDGetEndpoint, frameIDGetEndpointDescription} => Len(p) = 1
  /\ fid = frameIDGetEndpointCluster => Len(p) = 3 /\ p[2] \in {0, 1}
  /\ fid = frameIDSetConfigurationValue => Len(p) = 3

Sent(f) ==
  /\ f \in Seq(Byte) /\ decode(ncpExt, f).ok
  /\ \E fid \in Queries \cup Writes :
       /\ decode(ncpExt, f).v.frameID = Wire(ncpExt, fid)
       /\ Legit(fid, decode(ncpExt, f).v.params)

Number == 0 .. 240
Counts == Byte \X Byte
Lists == {1, 2}

Item == [n : Number, i : Byte, ep : Byte, counts : Counts, list : Lists,
         j : Byte]

(* The command, and where it is.                                           *)
CmdInv ==
  /\ cmd \in Commands \cup {"none"} /\ flags \in Settings \cup {NoFlags}
  /\ cmd = "none" \/ arg \in Args(cmd)
  /\ pc \in Places \cup {"idle", "reset", "negotiate"}
  /\ pc # "idle" => cmd # "none"
  /\ pc = "negotiate" => cmd # "reset"
  /\ pc \in Places => arg # -1
  /\ waiting \in BOOLEAN /\ exit \in {"none", "ok", "error", "killed"}
  /\ extended \in BOOLEAN /\ clean \in BOOLEAN
  /\ session \in 0 .. MaxSessions /\ (cmd # "none" => session # 0)

(* Listings stay within what they list.                                    *)
ItemInv ==
  /\ item \in Item
  /\ pc \in {"reset", "negotiate"} => item = NoItem
  /\ pc \in {"endpoint", "description", "cluster"} => item.i < item.n
  /\ pc = "cluster" => More(item)
  /\ pc = "value" /\ cmd = "list" => item.i < Len(AllConfigIDs)

(* The NCP and what it stores.                                             *)
NcpInv ==
  /\ ncp \in NcpKinds /\ linked \in BOOLEAN /\ ncpExt \in BOOLEAN
  /\ up \in BOOLEAN /\ sec \in 0 .. MaxSessions /\ joining \in Byte
  /\ config \in [DOMAIN Defaults -> Word]
  /\ stored = NoNetwork \/ stored \in Network
  /\ before = NoNetwork \/ before \in Network
  /\ up => stored # NoNetwork

(* Every request on its way is one of this command, in the format of the   *)
(* NCP; nothing is on its way before the version is negotiated, nor after  *)
(* a restart under the client.                                             *)
LineInv ==
  /\ outbox \in Seq(Seq(Byte)) /\ inbox \in Seq(Seq(Byte))
  /\ \A k \in DOMAIN outbox : Sent(outbox[k])
  /\ cmd = "none" => outbox = <<>>
  /\ ~linked \/ pc \in {"reset", "negotiate"} => outbox = <<>> /\ inbox = <<>>
  /\ linked /\ pc \in Places => ncpExt = extended

TypeInv == CmdInv /\ ItemInv /\ NcpInv /\ LineInv

LEMMA ArgBytes ==
  /\ \A c : Args(c) \subseteq Byte \cup {-1}
  /\ \A c : c \notin {"get", "set"} => Args(c) \subseteq Byte
  <1>1. 0 \in Byte
    BY DEF Byte
  <1> QED BY <1>1, CliAssumption DEF Args

LEMMA SessionBytes == MaxSessions \in Byte
  BY CliAssumption

LEMMA ConfigIDs ==
  /\ Len(AllConfigIDs) \in 1 .. 255
  /\ \A i \in 1 .. Len(AllConfigIDs) : AllConfigIDs[i] \in Byte
  <1>1. AllConfigIDs \in Seq(Byte) /\ Len(AllConfigIDs) \in 1 .. 255
    BY CliAssumption
  <1> QED BY ONLY <1>1, QueueType

LEMMA FrameIDs ==
  /\ Queries \cup Writes \subseteq Word
  /\ \A e \in BOOLEAN, fid \in Queries \cup Writes :
       /\ Wire(e, fid) \in Word
       /\ Wire(e, fid) \in Queries \cup Writes => Wire(e, fid) = fid
  <1>1. \A fid \in Queries \cup Writes :
          /\ fid \in Word /\ Low(fid) \in Word
          /\ Low(fid) \in Queries \cup Writes => Low(fid) = fid
    BY DEF Queries, Writes, Word, Low,
           frameIDNetworkInit, frameIDNetworkState, frameIDFormNetwork,
           frameIDPermitJoining, frameIDGetEUI64, frameIDGetNodeID,
           frameIDGetNetworkParameters, frameIDGetConfigurationValue,
           frameIDSetConfigurationValue, frameIDSetInitialSecurityState,
           frameIDGetEndpoint, frameIDGetEndpointCount,
           frameIDGetEndpointDescription, frameIDGetEndpointCluster
  <1> QED BY <1>1 DEF Wire

(* What a call may return.                                                 *)
LEMMA AnswerType ==
  ASSUME TypeInv, NEW a \in Answers
  PROVE  /\ a.params \in Seq(Byte) /\ a.rest \in Seq(Seq(Byte))
         /\ inbox = <<>> => a.rest = <<>>
         /\ \A k \in DOMAIN a.rest : \E m \in DOMAIN inbox : a.rest[k] = inbox[m]
  <1>1. extended \in BOOLEAN /\ inbox \in Seq(Seq(Byte))
    BY Zenon DEF TypeInv, CmdInv, LineInv
  <1>2. /\ Len(inbox) \in Nat /\ DOMAIN inbox = 1 .. Len(inbox)
        /\ \A i \in 1 .. Len(inbox) : inbox[i] \in Seq(Byte)
        /\ inbox = <<>> <=> Len(inbox) = 0
    BY <1>1, QueueType
  <1>3. CASE \E k \in Matching :
               a = [got |-> TRUE, params |-> decode(extended, inbox[k]).v.params,
                    rest |-> From(inbox, k + 1)]
    <2>1. PICK k \in Matching :
            /\ a.params = decode(extended, inbox[k]).v.params
            /\ a.rest = From(inbox, k + 1)
      BY <1>3
    <2>2. k \in DOMAIN inbox /\ decode(extended, inbox[k]).ok
      BY Zenon DEF Matching
    <2>3. inbox[k] \in Seq(Byte) /\ k \in 1 .. Len(inbox)
      BY <1>2, <2>2
    <2>4. decode(extended, inbox[k]).v.params \in Seq(Byte)
      BY ONLY <1>1, <2>2, <2>3, Decoded
    <2>5. /\ From(inbox, k + 1) \in Seq(Seq(Byte))
          /\ Len(From(inbox, k + 1)) = Len(inbox) - k
          /\ \A i \in 1 .. Len(inbox) - k :
               From(inbox, k + 1)[i] = inbox[k + i]
      <3>1. k \in 0 .. Len(inbox)
        BY ONLY <1>2, <2>3
      <3> QED BY ONLY <1>1, <3>1, FromRest
    <2>6. DOMAIN a.rest = 1 .. Len(inbox) - k
      BY ONLY <2>1, <2>5, QueueType
    <2>7. \A i \in DOMAIN a.rest : \E m \in DOMAIN inbox : a.rest[i] = inbox[m]
      <3> SUFFICES ASSUME NEW i \in DOMAIN a.rest
                   PROVE  \E m \in DOMAIN inbox : a.rest[i] = inbox[m]
        OBVIOUS
      <3>1. i \in 1 .. Len(inbox) - k
        BY ONLY <2>6, i \in DOMAIN a.rest
      <3>2. k + i \in DOMAIN inbox
        BY ONLY <1>2, <2>3, <3>1
      <3>3. a.rest[i] = inbox[k + i]
        BY ONLY <2>1, <2>5, <3>1
      <3> QED BY ONLY <3>2, <3>3
    <2>8. inbox # <<>>
      BY ONLY <1>2, <2>3
    <2> QED BY ONLY <2>1, <2>4, <2>5, <2>7, <2>8
  <1>4. CASE a = [got |-> FALSE, params |-> <<>>, rest |-> inbox]
    BY ONLY <1>1, <1>4, QueueEmpty
  <1>5. \/ \E k \in Matching :
             a = [got |-> TRUE, params |-> decode(extended, inbox[k]).v.params,
                  rest |-> From(inbox, k + 1)]
        \/ a = [got |-> FALSE, params |-> <<>>, rest |-> inbox]
    BY a \in Answers, Zenon DEF Answers
  <1> QED BY <1>3, <1>4, <1>5

------------------------------------------------------------------------------
(* Requests.                                                               *)

LEMMA SingleByte ==
  ASSUME NEW b \in Byte
  PROVE  <<b>> \in Seq(Byte) /\ Len(<<b>>) = 1 /\ <<b>>[1] = b
  OBVIOUS

LEMMA ValueParams ==
  ASSUME NEW b \in Byte, NEW v \in Int
  PROVE  /\ SetConfigurationValueParams(b, v) \in Seq(Byte)
         /\ Len(SetConfigurationValueParams(b, v)) = 3
  <1>1. SetConfigurationValueParams(b, v) = Cat(<<b>>, PutUint16(v))
    BY Zenon DEF SetConfigurationValueParams, Cat
  <1>2. PutUint16(v) \in Seq(Byte) /\ Len(PutUint16(v)) = 2
    BY ONLY v \in Int, PutUint16Bytes
  <1>3. <<b>> \in Seq(Byte) /\ Len(<<b>>) = 1
    BY ONLY b \in Byte, SingleByte
  <1>4. /\ Cat(<<b>>, PutUint16(v)) \in Seq(Byte)
        /\ Len(Cat(<<b>>, PutUint16(v))) = Len(<<b>>) + Len(PutUint16(v))
    BY ONLY <1>2, <1>3, CatLen
  <1> QED BY ONLY <1>1, <1>2, <1>3, <1>4

(* The network key is made of the number of the session.                   *)
LEMMA KeyParams ==
  ASSUME NEW s \in Byte
  PROVE  /\ SetInitialSecurityStateParams(ZigbeeHALinkKey, Key(s)) \in Seq(Byte)
         /\ SetInitialSecurityStateParams(ZigbeeHALinkKey, Key(s))[19] = s
  <1>1. Key(s) \in Seq(Byte) /\ Len(Key(s)) = 16 /\ Key(s)[1] = s
    <2>1. /\ Repeat(s, 16) \in Seq(Byte) /\ Len(Repeat(s, 16)) = 16
          /\ \A i \in 1 .. 16 : Repeat(s, 16)[i] = s
      BY ONLY s \in Byte, RepeatBytes
    <2> QED BY ONLY <2>1 DEF Key
  <1>2. ZigbeeHALinkKey \in Seq(Byte) /\ Len(ZigbeeHALinkKey) = 16
    BY ONLY TRUE DEF ZigbeeHALinkKey, Byte
  <1> QED BY ONLY <1>1, <1>2, SecurityParams

(* What the flags are made of.                                             *)
LEMMA FlagsType ==
  ASSUME flags \in Settings \cup {NoFlags}
  PROVE  flags.panID \in Int /\ flags.channel \in Int /\ flags.txPower \in Int
  <1>1. Settings \subseteq [panID : Int, channel : Int, txPower : Int]
    BY CliAssumption, Zenon
  <1> QED BY ONLY <1>1, flags \in Settings \cup {NoFlags} DEF NoFlags

(* A PAN ID, a power and a channel are the ones the flags ask for.         *)
AsAsked(panID, txPower, channel) ==
  /\ flags.channel \in Byte => channel = flags.channel
  /\ flags.txPower \in -128 .. 127 => txPower = flags.txPower
  /\ flags.panID \in Word \ {65535} => panID = flags.panID
  /\ flags.panID = 65535 => panID \notin {0, 65535}

(* The parameters formNetwork is given are those that the flags ask for,   *)
(* if they are in range.                                                   *)
LEMMA FormParams ==
  ASSUME flags \in Settings \cup {NoFlags}, NEW random \in PanIDs,
         NEW p, p = FormNetworkParams(Parameters(flags, random))
  PROVE  /\ p \in Seq(Byte) /\ p[12] \in Byte
         /\ SubSeq(p, 1, 8) = Repeat(0, 8) /\ Uint16(p, 9) \in Word
         /\ Int8(p[11]) \in -128 .. 127
         /\ AsAsked(Uint16(p, 9), Int8(p[11]), p[12])
  <1>1. /\ flags.panID \in Int /\ flags.channel \in Int
        /\ flags.txPower \in Int
    BY ONLY FlagsType, flags \in Settings \cup {NoFlags}
  <1>2. random \in Word
    BY CliAssumption, Zenon
  <1>3. PICK x : x = Repeat(0, 8)
    BY ONLY TRUE, Zenon
  <1>4. x \in Seq(Byte) /\ Len(x) = 8
    <2>1. 0 \in Byte /\ 8 \in Nat
      BY ONLY 8 \in Nat DEF Byte
    <2> QED BY ONLY <1>3, <2>1, RepeatBytes
  <1>5. PICK n : n = IF flags.panID % 65536 # 65535 THEN flags.panID % 65536
                     ELSE IF random \in {0, 65535} THEN 6754 ELSE random
    BY ONLY TRUE, SMT
  <1>6. /\ n \in Word
        /\ flags.panID \in Word \ {65535} => n = flags.panID
        /\ flags.panID = 65535 => n \notin {0, 65535}
    BY ONLY <1>1, <1>2, <1>5 DEF Word
  <1>7. PICK t : t = ToInt8(flags.txPower)
    BY ONLY TRUE, Zenon
  <1>8. /\ t \in -128 .. 127
        /\ flags.txPower \in -128 .. 127 => t = flags.txPower
    <2>1. flags.txPower % 256 \in Byte
      BY ONLY <1>1 DEF Byte
    <2> QED BY ONLY <1>7, <2>1, Int8Type, Int8Byte DEF ToInt8
  <1>9. PICK c : c = flags.channel % 256
    BY ONLY TRUE, Zenon
  <1>10. c \in Byte /\ (flags.channel \in Byte => c = flags.channel)
    BY ONLY <1>1, <1>9 DEF Byte
  <1>11. PICK np : np = Parameters(flags, random)
    BY ONLY TRUE, Zenon
  <1>12. /\ np.extendedPanID = x /\ np.panID = n
         /\ np.radioTxPower = t /\ np.radioChannel = c
    BY ONLY <1>3, <1>5, <1>7, <1>9, <1>11, SMT DEF Parameters
  <1>13. /\ p \in Seq(Byte) /\ p[12] = c /\ SubSeq(p, 1, 8) = x
         /\ Uint16(p, 9) = n /\ Int8(p[11]) = t
    <2>1. p = FormNetworkParams(np)
      BY <1>11, Zenon
    <2>2. np.panID \in Int /\ np.radioTxPower \in Int
      BY ONLY <1>6, <1>8, <1>12 DEF Word
    <2>3. /\ np.extendedPanID \in Seq(Byte) /\ Len(np.extendedPanID) = 8
          /\ np.radioChannel \in Byte /\ np.panID \in Word
          /\ np.radioTxPower \in -128 .. 127
      BY ONLY <1>4, <1>6, <1>8, <1>10, <1>12
    <2>4. /\ p \in Seq(Byte) /\ p[12] = np.radioChannel
          /\ SubSeq(p, 1, 8) = np.extendedPanID
          /\ Uint16(p, 9) = np.panID /\ Int8(p[11]) = np.radioTxPower
      BY ONLY <2>1, <2>2, <2>3, FormRoundTrip
    <2> QED BY ONLY <1>12, <2>4, Zenon
  <1>14. AsAsked(n, t, c)
    BY ONLY <1>6, <1>8, <1>10, SMT DEF AsAsked
  <1>15. AsAsked(Uint16(p, 9), Int8(p[11]), p[12])
    BY ONLY <1>13, <1>14, Zenon
  <1>16. /\ p[12] \in Byte /\ SubSeq(p, 1, 8) = Repeat(0, 8)
         /\ Uint16(p, 9) \in Word
    <2>1. n \in Word /\ c \in Byte
      BY ONLY <1>6, <1>10, SMT
    <2> QED BY ONLY <1>3, <1>13, <2>1, Zenon
  <1> QED BY ONLY <1>8, <1>13, <1>15, <1>16, SMT

(* The argument of a call is a byte, and so is what a listing asks for.    *)
LEMMA ArgType ==
  ASSUME TypeInv, pc \in Places
  PROVE  /\ arg \in Byte /\ session \in Byte
         /\ item.i \in Byte /\ item.ep \in Byte /\ item.j \in Byte
         /\ item.list - 1 \in {0, 1}
         /\ pc = "value" => ConfigID \in Byte
  <1>1. arg \in Byte
    <2>1. cmd # "none" /\ arg \in Args(cmd) /\ arg # -1
      <3>1. pc # "idle"
        BY ONLY pc \in Places DEF Places
      <3> QED BY <3>1, Zenon DEF TypeInv, CmdInv
    <2> QED BY ONLY <2>1, ArgBytes
  <1>2. session \in Byte
    <2>1. session \in 0 .. MaxSessions
      BY Zenon DEF TypeInv, CmdInv
    <2> QED BY ONLY <2>1, SessionBytes DEF Byte
  <1>3. item \in Item
    BY Zenon DEF TypeInv, ItemInv
  <1>4. /\ item.i \in Byte /\ item.ep \in Byte /\ item.j \in Byte
        /\ item.list \in Lists
    BY ONLY <1>3 DEF Item
  <1>5. item.list - 1 \in {0, 1}
    BY ONLY <1>4 DEF Lists
  <1>6. ASSUME pc = "value" PROVE ConfigID \in Byte
    <2>1. CASE cmd = "list"
      <3>1. item.i < Len(AllConfigIDs)
        <4>1. pc = "value" /\ cmd = "list" => item.i < Len(AllConfigIDs)
          BY Zenon DEF TypeInv, ItemInv
        <4> QED BY ONLY <1>6, <2>1, <4>1
      <3>2. AllConfigIDs[item.i + 1] \in Byte
        <4>1. item.i + 1 \in 1 .. Len(AllConfigIDs)
          <5>1. Len(AllConfigIDs) \in 1 .. 255
            BY ONLY ConfigIDs
          <5>2. item.i \in Nat
            BY ONLY <1>4 DEF Byte
          <5> QED BY ONLY <3>1, <5>1, <5>2
        <4> QED BY ONLY <4>1, ConfigIDs
      <3> QED BY ONLY <2>1, <3>2 DEF ConfigID
    <2>2. CASE cmd # "list"
      BY ONLY <1>1, <2>2, Zenon DEF ConfigID
    <2> QED BY ONLY <2>1, <2>2
  <1> QED BY ONLY <1>1, <1>2, <1>4, <1>5, <1>6

(* Every request is one that the NCP is to take for what it is.            *)
LEMMA RequestLegit ==
  ASSUME TypeInv, pc \in Places,
         NEW random \in IF pc = "form" THEN PanIDs ELSE {0}
  PROVE  \E fid \in Queries \cup Writes, p \in Seq(Byte) :
           Request(random) = <<fid, p>> /\ Legit(fid, p)
  <1> USE DEF frameIDNetworkInit, frameIDNetworkState, frameIDFormNetwork,
           frameIDPermitJoining, frameIDGetEUI64, frameIDGetNodeID,
           frameIDGetNetworkParameters, frameIDGetConfigurationValue,
           frameIDSetConfigurationValue, frameIDSetInitialSecurityState,
           frameIDGetEndpoint, frameIDGetEndpointCount,
           frameIDGetEndpointDescription, frameIDGetEndpointCluster
  <1>1. /\ arg \in Byte /\ session \in Byte
        /\ item.i \in Byte /\ item.ep \in Byte /\ item.j \in Byte
        /\ item.list - 1 \in {0, 1}
        /\ pc = "value" => ConfigID \in Byte
    BY ArgType
  <1>2. <<>> \in Seq(Byte)
    BY ONLY TRUE
  <1>3. CASE pc \in {"nodeId", "eui64", "state", "guard", "params", "count"}
    <2>1. PICK fid : /\ fid \in {frameIDGetNodeID, frameIDGetEUI64,
                                 frameIDNetworkState,
                                 frameIDGetNetworkParameters,
                                 frameIDGetEndpointCount}
                     /\ Request(random) = <<fid, <<>>>>
      BY ONLY <1>3 DEF Request
    <2>2. fid \in Queries \cup Writes /\ Legit(fid, <<>>)
      BY ONLY <1>2, <2>1 DEF Queries, Legit
    <2> QED BY ONLY <1>2, <2>1, <2>2, Zenon
  <1>4. CASE pc \in {"tryInit", "init", "restore"}
    <2>1. NetworkInitParams \in Seq(Byte)
      BY ONLY PutUint16Bytes, 0 \in Int DEF NetworkInitParams
    <2>2. Request(random) = <<frameIDNetworkInit, NetworkInitParams>>
      BY ONLY <1>4 DEF Request
    <2>3. /\ frameIDNetworkInit \in Queries \cup Writes
          /\ Legit(frameIDNetworkInit, NetworkInitParams)
      BY ONLY <2>1 DEF Writes, Legit
    <2> QED BY ONLY <2>1, <2>2, <2>3, Zenon
  <1>5. CASE pc = "secure"
    <2> DEFINE p == SetInitialSecurityStateParams(ZigbeeHALinkKey, Key(session))
    <2>1. p \in Seq(Byte) /\ p[19] = session
      BY ONLY <1>1, KeyParams
    <2>2. Request(random) = <<frameIDSetInitialSecurityState, p>>
      BY ONLY <1>5 DEF Request
    <2> HIDE DEF p
    <2>3. /\ frameIDSetInitialSecurityState \in Queries \cup Writes
          /\ Legit(frameIDSetInitialSecurityState, p)
      BY ONLY <2>1 DEF Writes, Legit
    <2> QED BY ONLY <2>1, <2>2, <2>3, Zenon
  <1>6. CASE pc = "form"
    <2> DEFINE p == FormNetworkParams(Parameters(flags, random))
    <2>1. random \in PanIDs
      BY <1>6
    <2>2. p \in Seq(Byte)
      <3>1. flags \in Settings \cup {NoFlags}
        BY Zenon DEF TypeInv, CmdInv
      <3> QED BY ONLY <2>1, <3>1, FormParams
    <2>3. Request(random) = <<frameIDFormNetwork, p>>
      BY ONLY <1>6 DEF Request
    <2>4. /\ frameIDFormNetwork \in Queries \cup Writes
          /\ Legit(frameIDFormNetwork, p)
      BY ONLY <2>1, <2>2 DEF Writes, Legit
    <2> QED BY ONLY <2>2, <2>3, <2>4, Zenon
  <1>7. CASE pc \in {"permit", "endpoint", "description", "value"}
    <2>1. PICK fid, b :
            /\ fid \in {frameIDPermitJoining, frameIDGetEndpoint,
                        frameIDGetEndpointDescription,
                        frameIDGetConfigurationValue}
            /\ b \in Byte /\ Request(random) = <<fid, <<b>>>>
      BY ONLY <1>1, <1>7 DEF Request
    <2>2. <<b>> \in Seq(Byte) /\ Len(<<b>>) = 1
      BY ONLY <2>1, SingleByte
    <2>3. fid \in Queries \cup Writes /\ Legit(fid, <<b>>)
      BY ONLY <2>1, <2>2 DEF Queries, Writes, Legit
    <2> QED BY ONLY <2>1, <2>2, <2>3, Zenon
  <1>8. CASE pc = "cluster"
    <2> DEFINE p == <<item.ep, item.list - 1, item.j>>
    <2>1. p \in Seq(Byte) /\ Len(p) = 3 /\ p[2] \in {0, 1}
      <3>1. item.list - 1 \in Byte
        BY ONLY <1>1 DEF Byte
      <3> QED BY ONLY <1>1, <3>1
    <2>2. Request(random) = <<frameIDGetEndpointCluster, p>>
      BY ONLY <1>8 DEF Request
    <2> HIDE DEF p
    <2>3. /\ frameIDGetEndpointCluster \in Queries \cup Writes
          /\ Legit(frameIDGetEndpointCluster, p)
      BY ONLY <2>1 DEF Queries, Legit
    <2> QED BY ONLY <2>1, <2>2, <2>3, ZenonT(60)
  <1>9. CASE pc = "set"
    <2> DEFINE p == SetConfigurationValueParams(arg, SetValue)
    <2>1. p \in Seq(Byte) /\ Len(p) = 3
      <3>1. SetValue \in Word
        BY CliAssumption, Zenon
      <3>2. SetValue \in Int
        BY ONLY <3>1 DEF Word
      <3> QED BY ONLY <1>1, <3>2, ValueParams
    <2>2. Request(random) = <<frameIDSetConfigurationValue, p>>
      BY ONLY <1>9 DEF Request
    <2> HIDE DEF p
    <2>3. /\ frameIDSetConfigurationValue \in Queries \cup Writes
          /\ Legit(frameIDSetConfigurationValue, p)
      BY ONLY <2>1 DEF Writes, Legit
    <2> QED BY ONLY <2>1, <2>2, <2>3, Zenon
  <1> QED BY <1>3, <1>4, <1>5, <1>6, <1>7, <1>8, <1>9 DEF Places

------------------------------------------------------------------------------
(* Every step keeps the types.                                             *)

LEMMA TypeInit == Init => TypeInv
  <1> SUFFICES ASSUME Init PROVE TypeInv
    OBVIOUS
  <1>1. CmdInv
    <2>1. session \in 0 .. MaxSessions
      BY ONLY Init, SessionBytes DEF Init, Byte
    <2> QED BY ONLY Init, <2>1 DEF Init, CmdInv, Places
  <1>2. ItemInv
    <2>1. NoItem \in Item
      BY ONLY TRUE DEF NoItem, Item, Number, Counts, Lists, Byte
    <2> QED BY ONLY Init, <2>1, Zenon DEF Init, ItemInv
  <1>3. NcpInv
    <2>1. sec \in 0 .. MaxSessions /\ joining \in Byte
      BY ONLY Init, SessionBytes DEF Init, Byte
    <2>2. config \in [DOMAIN Defaults -> Word]
      BY ONLY Init, NcpAssumption, Zenon DEF Init
    <2> QED BY ONLY Init, <2>1, <2>2, Zenon DEF Init, NcpInv
  <1>4. LineInv
    <2>1. /\ outbox \in Seq(Seq(Byte)) /\ inbox \in Seq(Seq(Byte))
          /\ outbox = <<>> /\ inbox = <<>> /\ DOMAIN outbox = {}
      BY ONLY Init, QueueEmpty DEF Init
    <2> QED BY ONLY Init, <2>1, Zenon DEF Init, LineInv
  <1> QED BY ONLY <1>1, <1>2, <1>3, <1>4, Zenon DEF TypeInv

LEMMA CmdSame ==
  ASSUME CmdInv, clean' \in BOOLEAN,
         UNCHANGED <<cmd, flags, arg, pc, waiting, exit, extended, session>>
  PROVE  CmdInv'
  BY ONLY CmdInv, clean' \in BOOLEAN,
          UNCHANGED <<cmd, flags, arg, pc, waiting, exit, extended, session>>
     DEF CmdInv, Args

LEMMA ItemSame ==
  ASSUME ItemInv, UNCHANGED <<cmd, pc, item>> PROVE ItemInv'
  BY ONLY ItemInv, UNCHANGED <<cmd, pc, item>>, Zenon DEF ItemInv, More

LEMMA NcpSame ==
  ASSUME NcpInv, UNCHANGED <<ncpVars, before>> PROVE NcpInv'
  BY ONLY NcpInv, UNCHANGED <<ncpVars, before>>, Zenon DEF NcpInv, ncpVars

LEMMA SentSame ==
  ASSUME UNCHANGED <<ncpExt, session, flags>>, NEW f, Sent(f)
  PROVE  Sent(f)'
  BY ONLY UNCHANGED <<ncpExt, session, flags>>, Sent(f), Zenon
     DEF Sent, Legit

(* A call comes to its end.                                                *)
LEMMA CallKeeps ==
  ASSUME TypeInv, pc \in Places, NEW a \in Answers, Return(a),
         pc' \in Places \cup {"idle"}, exit' \in {exit, "ok", "error"}
  PROVE  CmdInv' /\ NcpInv' /\ LineInv'
  <1>1. /\ waiting' = FALSE /\ inbox' = a.rest
        /\ clean' = (clean /\ (a.got \/ Unanswered))
        /\ UNCHANGED <<cmd, flags, arg, session, extended, outbox, ncpVars,
                       before>>
    BY Zenon DEF Return
  <1>2. CmdInv'
    <2>1. clean' \in BOOLEAN
      BY ONLY <1>1, Zenon
    <2>2. CmdInv
      BY Zenon DEF TypeInv
    <2>3. pc # "idle" /\ pc' # "reset" /\ pc' # "negotiate"
      BY DEF Places
    <2>4. exit' \in {"none", "ok", "error", "killed"}
      BY <2>2 DEF CmdInv
    <2>5. Args(cmd)' = Args(cmd)
      BY ONLY <1>1, Zenon DEF Args
    <2> QED BY ONLY <1>1, <2>1, <2>2, <2>3, <2>4, <2>5, pc \in Places,
                    pc' \in Places \cup {"idle"} DEF CmdInv
  <1>3. NcpInv'
    BY ONLY <1>1, TypeInv, NcpSame DEF TypeInv
  <1>4. LineInv'
    <2>1. a.rest \in Seq(Seq(Byte)) /\ (inbox = <<>> => a.rest = <<>>)
      BY AnswerType, Zenon
    <2>2. pc' # "reset" /\ pc' # "negotiate"
      BY ONLY pc' \in Places \cup {"idle"} DEF Places
    <2>3. LineInv
      BY Zenon DEF TypeInv
    <2>4. UNCHANGED <<ncpExt, linked, session, flags>>
      BY ONLY <1>1, Zenon DEF ncpVars
    <2>5. \A k \in DOMAIN outbox' : Sent(outbox[k])'
      BY ONLY <1>1, <2>3, <2>4, SentSame, Zenon DEF LineInv
    <2> QED BY ONLY <1>1, <2>1, <2>2, <2>3, <2>4, <2>5, pc \in Places
            DEF LineInv
  <1> QED BY <1>2, <1>3, <1>4, Zenon

LEMMA ItemType ==
  ASSUME NEW r \in Item
  PROVE  /\ r.n \in Number /\ r.i \in Byte /\ r.ep \in Byte
         /\ r.counts \in Counts /\ r.list \in Lists /\ r.j \in Byte
  BY DEF Item

LEMMA NextItem ==
  ASSUME NEW it \in Item, it.i < it.n
  PROVE  /\ NextEndpoint(it) \in Item /\ ~ More(NextEndpoint(it))
         /\ NextCluster(it) \in Item
         /\ More(NextCluster(it)) => NextCluster(it).i < NextCluster(it).n
  <1>1. NextEndpoint(it) \in Item /\ ~ More(NextEndpoint(it))
    <2>1. PICK n \in Number, i \in Byte : n = it.n /\ i = it.i + 1
      <3>1. it.n \in Number /\ it.i \in Byte
        BY ONLY it \in Item, ItemType
      <3>2. it.i + 1 \in Byte
        BY ONLY <3>1, it.i < it.n DEF Number, Byte
      <3> QED BY ONLY <3>1, <3>2, Zenon
    <2>0. NoItem \in Item
      BY ONLY TRUE DEF NoItem, Item, Number, Counts, Lists, Byte
    <2>2. PICK z \in Item : z = NoItem
      BY ONLY <2>0, Zenon
    <2>3. PICK e : e = [z EXCEPT !.n = n, !.i = i]
      BY ONLY TRUE, Zenon
    <2>4. e \in Item /\ e.counts = z.counts /\ e.list = z.list /\ e.j = z.j
      BY ONLY <2>3, z \in Item, n \in Number, i \in Byte DEF Item
    <2>5. NextEndpoint(it) = e
      BY ONLY <2>1, <2>2, <2>3, Zenon DEF NextEndpoint
    <2>6. z.j = 0 /\ z.counts[z.list] = 0
      BY ONLY <2>2 DEF NoItem
    <2>7. e.j = 0 /\ e.counts[e.list] = 0
      BY ONLY <2>4, <2>6, Zenon
    <2> QED BY ONLY <2>4, <2>5, <2>7 DEF More
  <1>2. PICK e : e = [it EXCEPT !.list = 2, !.j = 0]
    BY ONLY TRUE, Zenon
  <1>3. e \in Item /\ e.i < e.n
    <2>1. 2 \in Lists /\ 0 \in Byte
      BY ONLY TRUE DEF Lists, Byte
    <2>2. e \in Item /\ e.i = it.i /\ e.n = it.n
      BY ONLY <1>2, <2>1, it \in Item DEF Item
    <2> QED BY ONLY <2>2, it.i < it.n
  <1>4. NextCluster(it) \in {it, e, NextEndpoint(it)}
    BY ONLY <1>2, Zenon DEF NextCluster
  <1> QED BY ONLY <1>1, <1>3, <1>4, it \in Item, it.i < it.n

LEMMA LoopKeeps ==
  ASSUME NEW it \in Item, More(it) => it.i < it.n, Loop(it)
  PROVE  /\ pc' \in {"cluster", "endpoint", "idle"}
         /\ exit' \in {exit, "ok", "error"} /\ ItemInv'
  <1>1. /\ item' = it
        /\ \/ More(it) /\ pc' = "cluster" /\ exit' = exit
           \/ it.i < it.n /\ pc' = "endpoint" /\ exit' = exit /\ ~ More(it)
           \/ pc' = "idle" /\ exit' = "ok"
    BY Zenon DEF Loop, GoTo, Exit
  <1>2. ItemInv' = (/\ it \in Item
                    /\ pc' \in {"reset", "negotiate"} => it = NoItem
                    /\ pc' \in {"endpoint", "description", "cluster"}
                         => it.i < it.n
                    /\ pc' = "cluster" => More(it)
                    /\ pc' = "value" /\ cmd' = "list" =>
                         it.i < Len(AllConfigIDs))
    BY ONLY <1>1, Zenon DEF ItemInv, More
  <1>3. CASE pc' = "cluster"
    BY ONLY <1>1, <1>2, <1>3, More(it) => it.i < it.n, it \in Item
  <1>4. CASE pc' = "endpoint"
    BY ONLY <1>1, <1>2, <1>4, it \in Item
  <1>5. CASE pc' = "idle"
    BY ONLY <1>1, <1>2, <1>5, it \in Item
  <1> QED BY ONLY <1>1, <1>3, <1>4, <1>5, Zenon

(* Where nothing is listed the item stays as it is.                        *)
LEMMA PlainKeeps ==
  ASSUME ItemInv, item' = item,
         pc' \in (Places \cup {"idle"})
                   \ {"endpoint", "description", "cluster", "value"}
  PROVE  ItemInv'
  <1>1. /\ pc' \notin {"reset", "negotiate"}
        /\ pc' \notin {"endpoint", "description", "cluster"}
        /\ pc' # "cluster" /\ pc' # "value"
    BY ONLY pc' \in (Places \cup {"idle"})
                      \ {"endpoint", "description", "cluster", "value"}
       DEF Places
  <1> QED BY ONLY <1>1, ItemInv, item' = item DEF ItemInv

PlainPlaces == {"eui64", "state", "params", "init", "secure", "form",
                "permit", "idle"}

PlainCall ==
  \/ NodeId \/ Eui64 \/ TryInit \/ State \/ Params \/ Guard
  \/ InitNetwork \/ Secure \/ Form \/ Restore \/ Permit \/ SetConfig

(* A call outside of the listings ends in the next place, or in the end of *)
(* the command.                                                            *)
LEMMA PlainMoves ==
  ASSUME PlainCall
  PROVE  /\ pc \in Places /\ item' = item
         /\ pc' \in PlainPlaces /\ exit' \in {exit, "ok", "error"}
         /\ \E a \in Answers : Return(a)
  <1> DEFINE Moves ==
               /\ pc \in Places /\ item' = item
               /\ pc' \in PlainPlaces /\ exit' \in {exit, "ok", "error"}
               /\ \E a \in Answers : Return(a)
  <1> USE DEF StatusCall, Parsed, GoTo, Claim, Exit, Fail, Show, Quiet,
              PlainPlaces, Places
  <1>1. ASSUME NodeId PROVE Moves
    BY ONLY <1>1 DEF NodeId
  <1>2. ASSUME Eui64 PROVE Moves
    BY ONLY <1>2 DEF Eui64
  <1>3. ASSUME TryInit PROVE Moves
    BY ONLY <1>3 DEF TryInit
  <1>4. ASSUME State PROVE Moves
    BY ONLY <1>4 DEF State
  <1>5. ASSUME Params PROVE Moves
    BY ONLY <1>5 DEF Params
  <1>6. ASSUME Guard PROVE Moves
    BY ONLY <1>6 DEF Guard
  <1>7. ASSUME InitNetwork PROVE Moves
    BY ONLY <1>7 DEF InitNetwork
  <1>8. ASSUME Secure PROVE Moves
    BY ONLY <1>8 DEF Secure
  <1>9. ASSUME Form PROVE Moves
    BY ONLY <1>9 DEF Form
  <1>10. ASSUME Restore PROVE Moves
    BY ONLY <1>10 DEF Restore
  <1>11. ASSUME Permit PROVE Moves
    BY ONLY <1>11 DEF Permit
  <1>12. ASSUME SetConfig PROVE Moves
    BY ONLY <1>12 DEF SetConfig
  <1> QED
    BY <1>1, <1>2, <1>3, <1>4, <1>5, <1>6, <1>7, <1>8, <1>9, <1>10, <1>11,
       <1>12, Zenon DEF PlainCall

LEMMA PlainType == TypeInv /\ PlainCall => TypeInv'
  <1> SUFFICES ASSUME TypeInv, PlainCall PROVE TypeInv'
    OBVIOUS
  <1>1. /\ pc \in Places /\ item' = item
        /\ pc' \in PlainPlaces /\ exit' \in {exit, "ok", "error"}
        /\ \E a \in Answers : Return(a)
    BY PlainMoves
  <1>2. pc' \in Places \cup {"idle"}
        /\ pc' \in (Places \cup {"idle"})
                     \ {"endpoint", "description", "cluster", "value"}
    BY ONLY <1>1 DEF PlainPlaces, Places
  <1>3. CmdInv' /\ NcpInv' /\ LineInv'
    BY ONLY TypeInv, <1>1, <1>2, CallKeeps
  <1>4. ItemInv'
    BY ONLY TypeInv, <1>1, <1>2, PlainKeeps DEF TypeInv
  <1> QED BY ONLY <1>3, <1>4 DEF TypeInv

(* What the listings read from a response.                                 *)
LEMMA Responses ==
  ASSUME TypeInv, NEW a \in Answers
  PROVE  /\ Parsed(GetEndpointCount, a).ok =>
              Parsed(GetEndpointCount, a).v \in Number
         /\ Parsed(GetEndpoint, a).ok => Parsed(GetEndpoint, a).v \in Byte
         /\ Parsed(GetEndpointDescription, a).ok =>
              LET v == Parsed(GetEndpointDescription, a).v IN
              /\ v.inputClusterCount \in Byte /\ v.outputClusterCount \in Byte
  <1>1. PICK p \in Seq(Byte) : p = a.params
    BY AnswerType
  <1>2. Len(p) \in Nat /\ \A i \in 1 .. Len(p) : p[i] \in Byte
    BY ONLY p \in Seq(Byte), QueueType
  <1>3. ASSUME Parsed(GetEndpointCount, a).ok
        PROVE  Parsed(GetEndpointCount, a).v \in Number
    <2>1. /\ ~ (Len(p) < 2) /\ ~ (p[2] > 240)
          /\ Parsed(GetEndpointCount, a).v = p[2]
      BY ONLY <1>1, <1>3 DEF Parsed, GetEndpointCount, Err, Ok
    <2>2. p[2] \in Byte
      BY ONLY <1>2, <2>1
    <2>3. PICK v : v = p[2]
      BY ONLY TRUE, Zenon
    <2>4. v \in Byte /\ ~ (v > 240)
      BY ONLY <2>1, <2>2, <2>3, Zenon
    <2>5. v \in Number
      BY ONLY <2>4 DEF Byte, Number
    <2> QED BY ONLY <2>1, <2>3, <2>5, Zenon
  <1>4. ASSUME Parsed(GetEndpoint, a).ok
        PROVE  Parsed(GetEndpoint, a).v \in Byte
    <2>1. ~ (Len(p) < 2) /\ Parsed(GetEndpoint, a).v = p[2]
      BY ONLY <1>1, <1>4 DEF Parsed, GetEndpoint, Err, Ok
    <2> QED BY ONLY <1>2, <2>1
  <1>5. ASSUME Parsed(GetEndpointDescription, a).ok
        PROVE  LET v == Parsed(GetEndpointDescription, a).v IN
               v.inputClusterCount \in Byte /\ v.outputClusterCount \in Byte
    <2>1. /\ ~ (Len(p) < 8)
          /\ Parsed(GetEndpointDescription, a).v.inputClusterCount = p[7]
          /\ Parsed(GetEndpointDescription, a).v.outputClusterCount = p[8]
      BY ONLY <1>1, <1>5 DEF Parsed, GetEndpointDescription, Err, Ok
    <2> QED BY ONLY <1>2, <2>1
  <1> QED BY ONLY <1>3, <1>4, <1>5

LEMMA LoopType ==
  ASSUME TypeInv, pc \in Places, NEW a \in Answers, Return(a),
         NEW it \in Item, More(it) => it.i < it.n, Loop(it)
  PROVE  TypeInv'
  <1>1. /\ pc' \in {"cluster", "endpoint", "idle"}
        /\ exit' \in {exit, "ok", "error"} /\ ItemInv'
    BY ONLY it \in Item, More(it) => it.i < it.n, Loop(it), LoopKeeps
  <1>2. pc' \in Places \cup {"idle"}
    BY ONLY <1>1 DEF Places
  <1>3. CmdInv' /\ NcpInv' /\ LineInv'
    BY ONLY TypeInv, pc \in Places, a \in Answers, Return(a), <1>1, <1>2,
            CallKeeps
  <1> QED BY ONLY <1>1, <1>3 DEF TypeInv

LEMMA CountType == TypeInv /\ Count => TypeInv'
  <1> SUFFICES ASSUME TypeInv, Count PROVE TypeInv'
    OBVIOUS
  <1>1. PICK a \in Answers :
          /\ Return(a)
          /\ \/ /\ Parsed(GetEndpointCount, a).ok
                /\ Loop([NoItem EXCEPT !.n = Parsed(GetEndpointCount, a).v])
             \/ Fail /\ UNCHANGED item
    BY ONLY Count, Zenon DEF Count
  <1>2. pc \in Places
    BY ONLY Count DEF Count, Places
  <1>3. CASE Fail /\ UNCHANGED item
    <2>1. pc' = "idle" /\ exit' = "error" /\ item' = item
      BY ONLY <1>3 DEF Fail
    <2>2. ItemInv'
      <3>1. pc' \in (Places \cup {"idle"})
                      \ {"endpoint", "description", "cluster", "value"}
        BY ONLY <2>1
      <3> QED BY ONLY TypeInv, <2>1, <3>1, PlainKeeps DEF TypeInv
    <2>3. CmdInv' /\ NcpInv' /\ LineInv'
      BY ONLY TypeInv, <1>1, <1>2, <2>1, CallKeeps
    <2> QED BY ONLY <2>2, <2>3 DEF TypeInv
  <1>4. CASE /\ Parsed(GetEndpointCount, a).ok
             /\ Loop([NoItem EXCEPT !.n = Parsed(GetEndpointCount, a).v])
    <2>1. PICK v \in Number : v = Parsed(GetEndpointCount, a).v
      BY ONLY <1>4, TypeInv, a \in Answers, Responses
    <2>2. PICK it : it = [NoItem EXCEPT !.n = v]
      BY ONLY TRUE, Zenon
    <2>3. it \in Item /\ ~ More(it)
      <3>1. NoItem \in Item
        BY ONLY TRUE DEF NoItem, Item, Number, Counts, Lists, Byte
      <3>2. PICK z \in Item : z = NoItem
        BY ONLY <3>1, Zenon
      <3>3. it \in Item /\ it.counts = z.counts /\ it.list = z.list /\ it.j = z.j
        BY ONLY <2>2, v \in Number, <3>2 DEF Item
      <3>4. z.j = 0 /\ z.counts[z.list] = 0
        BY ONLY <3>2 DEF NoItem
      <3>5. it.j = 0 /\ it.counts[it.list] = 0
        BY ONLY <3>3, <3>4, Zenon
      <3> QED BY ONLY <3>3, <3>5 DEF More
    <2>4. Loop(it)
      BY ONLY <1>4, <2>1, <2>2, Zenon
    <2> QED BY ONLY TypeInv, <1>1, <1>2, <2>3, <2>4, LoopType
  <1> QED BY ONLY <1>1, <1>3, <1>4, Zenon

LEMMA EndpointType == TypeInv /\ Endpoint => TypeInv'
  <1> SUFFICES ASSUME TypeInv, Endpoint PROVE TypeInv'
    OBVIOUS
  <1>1. PICK a \in Answers :
          /\ Return(a)
          /\ \/ /\ Parsed(GetEndpoint, a).ok /\ GoTo("description")
                /\ item' = [item EXCEPT !.ep = Parsed(GetEndpoint, a).v]
             \/ Loop(NextEndpoint(item))
    BY ONLY Endpoint, Zenon DEF Endpoint
  <1>2. pc \in Places /\ pc = "endpoint"
    BY ONLY Endpoint DEF Endpoint, Places
  <1>3. item \in Item /\ item.i < item.n
    BY ONLY <1>2, TypeInv DEF TypeInv, ItemInv
  <1>4. CASE /\ Parsed(GetEndpoint, a).ok /\ GoTo("description")
             /\ item' = [item EXCEPT !.ep = Parsed(GetEndpoint, a).v]
    <2>1. PICK b \in Byte : b = Parsed(GetEndpoint, a).v
      BY ONLY <1>4, TypeInv, a \in Answers, Responses
    <2>2. pc' = "description" /\ exit' = exit
      BY ONLY <1>4 DEF GoTo
    <2>3. item' = [item EXCEPT !.ep = b]
      BY ONLY <1>4, <2>1, Zenon
    <2>4. item' \in Item /\ item'.i = item.i /\ item'.n = item.n
      BY ONLY <1>3, <2>1, <2>3 DEF Item
    <2>5. ItemInv'
      BY ONLY <1>3, <2>2, <2>4 DEF ItemInv
    <2>6. CmdInv' /\ NcpInv' /\ LineInv'
      <3>1. pc' \in Places \cup {"idle"}
        BY ONLY <2>2 DEF Places
      <3> QED BY ONLY TypeInv, <1>1, <1>2, <2>2, <3>1, CallKeeps
    <2> QED BY ONLY <2>5, <2>6 DEF TypeInv
  <1>5. CASE Loop(NextEndpoint(item))
    <2>1. NextEndpoint(item) \in Item /\ ~ More(NextEndpoint(item))
      BY ONLY <1>3, NextItem
    <2> QED BY ONLY TypeInv, <1>1, <1>2, <1>5, <2>1, LoopType
  <1> QED BY ONLY <1>1, <1>4, <1>5, Zenon

LEMMA DescriptionType == TypeInv /\ Description => TypeInv'
  <1> SUFFICES ASSUME TypeInv, Description PROVE TypeInv'
    OBVIOUS
  <1> DEFINE r(a) == Parsed(GetEndpointDescription, a)
             it(a) == [item EXCEPT !.counts =
                         <<r(a).v.inputClusterCount, r(a).v.outputClusterCount>>]
  <1>1. PICK a \in Answers :
          /\ Return(a)
          /\ \/ r(a).ok /\ Loop(NextCluster(it(a)))
             \/ Loop(NextEndpoint(item))
    BY ONLY Description, Zenon DEF Description
  <1>2. pc \in Places /\ pc = "description"
    BY ONLY Description DEF Description, Places
  <1>3. item \in Item /\ item.i < item.n
    BY ONLY <1>2, TypeInv DEF TypeInv, ItemInv
  <1>4. CASE r(a).ok /\ Loop(NextCluster(it(a)))
    <2>1. PICK c \in Counts :
            c = <<r(a).v.inputClusterCount, r(a).v.outputClusterCount>>
      <3>1. r(a).v.inputClusterCount \in Byte /\ r(a).v.outputClusterCount \in Byte
        BY ONLY <1>4, TypeInv, a \in Answers, Responses
      <3> QED BY ONLY <3>1 DEF Counts
    <2>2. PICK e : e = [item EXCEPT !.counts = c]
      BY ONLY TRUE, Zenon
    <2>3. e \in Item /\ e.i = item.i /\ e.n = item.n
      BY ONLY <1>3, <2>1, <2>2 DEF Item
    <2>4. /\ NextCluster(e) \in Item
          /\ More(NextCluster(e)) => NextCluster(e).i < NextCluster(e).n
      BY ONLY <1>3, <2>3, NextItem
    <2>5. Loop(NextCluster(e))
      BY ONLY <1>4, <2>1, <2>2, Zenon
    <2> QED BY ONLY TypeInv, <1>1, <1>2, <2>4, <2>5, LoopType
  <1>5. CASE Loop(NextEndpoint(item))
    <2>1. NextEndpoint(item) \in Item /\ ~ More(NextEndpoint(item))
      BY ONLY <1>3, NextItem
    <2> QED BY ONLY TypeInv, <1>1, <1>2, <1>5, <2>1, LoopType
  <1> QED BY ONLY <1>1, <1>4, <1>5, Zenon

LEMMA ClusterType == TypeInv /\ Cluster => TypeInv'
  <1> SUFFICES ASSUME TypeInv, Cluster PROVE TypeInv'
    OBVIOUS
  <1>1. PICK a \in Answers :
          /\ Return(a)
          /\ \E j \in {item.j + 1, item.counts[item.list]} :
               Loop(NextCluster([item EXCEPT !.j = j]))
    BY ONLY Cluster, Zenon DEF Cluster
  <1>2. pc \in Places /\ pc = "cluster"
    BY ONLY Cluster DEF Cluster, Places
  <1>3. item \in Item /\ item.i < item.n /\ More(item)
    BY ONLY <1>2, TypeInv DEF TypeInv, ItemInv
  <1>4. PICK j \in {item.j + 1, item.counts[item.list]} :
          Loop(NextCluster([item EXCEPT !.j = j]))
    BY ONLY <1>1, Zenon
  <1>5. j \in Byte
    <2>1. PICK x \in Byte, c \in Byte : x = item.j /\ c = item.counts[item.list]
      <3>1. /\ item.counts \in Counts /\ item.list \in Lists /\ item.j \in Byte
        BY ONLY <1>3, ItemType
      <3>2. item.counts[item.list] \in Byte
        BY ONLY <3>1 DEF Counts, Lists
      <3> QED BY ONLY <3>1, <3>2, Zenon
    <2>2. x < c
      BY ONLY <1>3, <2>1, Zenon DEF More
    <2>3. x + 1 \in Byte
      BY ONLY <2>1, <2>2, SMTT(60) DEF Byte
    <2> QED BY ONLY <1>4, <2>1, <2>3
  <1>6. PICK e : e = [item EXCEPT !.j = j]
    BY ONLY TRUE, Zenon
  <1>7. e \in Item /\ e.i = item.i /\ e.n = item.n
    BY ONLY <1>3, <1>5, <1>6 DEF Item
  <1>8. /\ NextCluster(e) \in Item
        /\ More(NextCluster(e)) => NextCluster(e).i < NextCluster(e).n
    BY ONLY <1>3, <1>7, NextItem
  <1>9. Loop(NextCluster(e))
    BY ONLY <1>4, <1>6, Zenon
  <1> QED BY ONLY TypeInv, <1>1, <1>2, <1>8, <1>9, LoopType

LEMMA ValueType == TypeInv /\ Value => TypeInv'
  <1> SUFFICES ASSUME TypeInv, Value PROVE TypeInv'
    OBVIOUS
  <1>1. PICK a \in Answers :
          /\ Return(a)
          /\ \/ cmd = "get" /\ (Exit("get") \/ Fail) /\ UNCHANGED item
             \/ /\ cmd = "list" /\ item' = [item EXCEPT !.i = @ + 1]
                /\ IF item'.i < Len(AllConfigIDs) THEN GoTo("value")
                   ELSE Exit("list")
    BY ONLY Value, Zenon DEF Value
  <1>2. pc \in Places /\ pc = "value"
    BY ONLY Value DEF Value, Places
  <1>3. CASE cmd = "get" /\ (Exit("get") \/ Fail) /\ UNCHANGED item
    <2>1. pc' = "idle" /\ exit' \in {exit, "ok", "error"} /\ item' = item
      BY ONLY <1>3 DEF Exit, Fail
    <2>2. ItemInv'
      <3>1. pc' \in (Places \cup {"idle"})
                      \ {"endpoint", "description", "cluster", "value"}
        BY ONLY <2>1
      <3> QED BY ONLY TypeInv, <2>1, <3>1, PlainKeeps DEF TypeInv
    <2>3. CmdInv' /\ NcpInv' /\ LineInv'
      BY ONLY TypeInv, <1>1, <1>2, <2>1, CallKeeps
    <2> QED BY ONLY <2>2, <2>3 DEF TypeInv
  <1>4. CASE /\ cmd = "list" /\ item' = [item EXCEPT !.i = @ + 1]
             /\ IF item'.i < Len(AllConfigIDs) THEN GoTo("value")
                ELSE Exit("list")
    <2>1. /\ \/ pc' = "value" /\ item'.i < Len(AllConfigIDs)
             \/ pc' = "idle"
          /\ exit' \in {exit, "ok", "error"}
      BY ONLY <1>4 DEF GoTo, Exit
    <2>2. item \in Item /\ item.i < Len(AllConfigIDs)
      BY ONLY <1>2, <1>4, TypeInv DEF TypeInv, ItemInv
    <2>3. item' \in Item
      <3>1. PICK i \in Byte : i = item.i + 1
        <4>1. PICK x \in Byte, n \in 1 .. 255 :
                x = item.i /\ n = Len(AllConfigIDs)
          <5>1. item.i \in Byte
            BY ONLY <2>2, ItemType
          <5>2. Len(AllConfigIDs) \in 1 .. 255
            BY ONLY ConfigIDs
          <5> QED BY ONLY <5>1, <5>2, Zenon
        <4>2. x < n
          BY ONLY <2>2, <4>1
        <4>3. x + 1 \in Byte
          BY ONLY x \in Byte, n \in 1 .. 255, <4>2 DEF Byte
        <4> QED BY ONLY <4>1, <4>3
      <3>2. item' = [item EXCEPT !.i = i]
        BY ONLY <1>4, <3>1
      <3> QED BY ONLY <2>2, <3>1, <3>2 DEF Item
    <2>4. ItemInv'
      BY ONLY <2>1, <2>3 DEF ItemInv
    <2>5. pc' \in Places \cup {"idle"}
      BY ONLY <2>1 DEF Places
    <2>6. CmdInv' /\ NcpInv' /\ LineInv'
      BY ONLY TypeInv, <1>1, <1>2, <2>1, <2>5, CallKeeps
    <2> QED BY ONLY <2>4, <2>6 DEF TypeInv
  <1> QED BY ONLY <1>1, <1>3, <1>4, Zenon

LEMMA StartType ==
  ASSUME TypeInv, NEW c \in Commands, Start(c) PROVE TypeInv'
  <1>1. /\ session < MaxSessions /\ cmd' = c /\ arg' \in Args(c)
        /\ session' = session + 1
        /\ flags' \in IF c = "init" THEN Settings ELSE {NoFlags}
        /\ pc' = "reset" /\ exit' = "none" /\ item' = NoItem
        /\ extended' = FALSE /\ clean' = FALSE
        /\ outbox' = <<>> /\ inbox' = <<>>
        /\ UNCHANGED <<waiting, ncpVars, before>>
    BY ONLY Start(c), Zenon DEF Start
  <1>2. CmdInv'
    <2>1. c # "none"
      BY ONLY CliAssumption, c \in Commands
    <2>2. session' \in 0 .. MaxSessions /\ session' # 0
      <3>1. PICK m \in Nat : m = MaxSessions
        BY ONLY SessionBytes DEF Byte
      <3>2. session \in 0 .. MaxSessions
        BY ONLY TypeInv, Zenon DEF TypeInv, CmdInv
      <3> QED BY ONLY <1>1, <3>1, <3>2
    <2>3. Args(cmd)' = Args(c)
      BY ONLY <1>1, Zenon DEF Args
    <2>4. waiting' \in BOOLEAN
      BY ONLY <1>1, TypeInv, Zenon DEF TypeInv, CmdInv
    <2> QED BY ONLY <1>1, <2>1, <2>2, <2>3, <2>4, c \in Commands
            DEF CmdInv, Places
  <1>3. ItemInv'
    <2>1. NoItem \in Item
      BY ONLY TRUE DEF NoItem, Item, Number, Counts, Lists, Byte
    <2> QED BY ONLY <1>1, <2>1 DEF ItemInv
  <1>4. NcpInv'
    BY ONLY <1>1, TypeInv, NcpSame DEF TypeInv
  <1>5. LineInv'
    BY ONLY <1>1, QueueEmpty DEF LineInv, Places
  <1> QED BY ONLY <1>2, <1>3, <1>4, <1>5, Zenon DEF TypeInv

LEMMA BootType ==
  ASSUME NcpInv, Boot, linked' \in BOOLEAN,
         before' = before \/ before' = stored
  PROVE  NcpInv'
  <1>1. /\ up' = (ncp.resumes /\ stored # NoNetwork)
        /\ sec' = 0 /\ joining' = 0 /\ config' = Defaults
        /\ ncpExt' = FALSE /\ ncp' = ncp /\ stored' = stored
    BY ONLY Boot, Zenon DEF Boot
  <1>2. sec' \in 0 .. MaxSessions /\ joining' \in Byte
    BY ONLY <1>1, SessionBytes DEF Byte
  <1>3. config' \in [DOMAIN Defaults -> Word]
    BY ONLY <1>1, NcpAssumption, Zenon
  <1>4. up' \in BOOLEAN /\ (up' => stored' # NoNetwork)
    BY ONLY <1>1, Zenon
  <1>5. before' = NoNetwork \/ before' \in Network
    <2>1. /\ before = NoNetwork \/ before \in Network
          /\ stored = NoNetwork \/ stored \in Network
      BY ONLY NcpInv, Zenon DEF NcpInv
    <2> QED BY ONLY <2>1, before' = before \/ before' = stored
  <1> QED BY ONLY NcpInv, linked' \in BOOLEAN, <1>1, <1>2, <1>3, <1>4, <1>5,
                  Zenon DEF NcpInv

LEMMA ResetType == TypeInv /\ Reset => TypeInv'
  <1> SUFFICES ASSUME TypeInv, Reset PROVE TypeInv'
    OBVIOUS
  <1>1. /\ pc = "reset" /\ linked' = TRUE /\ clean' = TRUE /\ before' = stored
        /\ Boot /\ outbox' = <<>> /\ inbox' = <<>>
        /\ IF cmd = "reset" THEN pc' = "idle" /\ exit' = "ok"
           ELSE pc' = "negotiate" /\ exit' = exit
        /\ UNCHANGED <<cmd, flags, arg, item, session, waiting, extended>>
    BY ONLY Reset, Zenon DEF Reset, Boot, Exit, GoTo
  <1>2. CmdInv'
    <2>1. Args(cmd)' = Args(cmd)
      BY ONLY <1>1, Zenon DEF Args
    <2> QED BY ONLY TypeInv, <1>1, <2>1 DEF TypeInv, CmdInv, Places
  <1>3. ItemInv'
    BY ONLY TypeInv, <1>1 DEF TypeInv, ItemInv
  <1>4. NcpInv'
    BY ONLY TypeInv, <1>1, BootType DEF TypeInv
  <1>5. LineInv'
    BY ONLY <1>1, QueueEmpty DEF LineInv, Places
  <1> QED BY ONLY <1>2, <1>3, <1>4, <1>5, Zenon DEF TypeInv

LEMMA NegotiateType == TypeInv /\ Negotiate => TypeInv'
  <1> SUFFICES ASSUME TypeInv, Negotiate PROVE TypeInv'
    OBVIOUS
  <1>1. /\ pc = "negotiate" /\ linked
        /\ extended' = (ncp.version >= legacyVersionThreshold)
        /\ ncpExt' = extended'
        /\ \/ pc' = "idle" /\ exit' \in {"ok", "error"}
           \/ cmd # "version" /\ arg # -1 /\ pc' = First[cmd] /\ exit' = exit
        /\ UNCHANGED <<cmd, flags, arg, item, session, waiting, outbox, inbox,
                       ncp, linked, up, sec, joining, config, stored, before,
                       clean>>
    BY ONLY Negotiate DEF Negotiate, Exit, Fail, GoTo, lineVars
  <1>2. /\ cmd \in {"version", "info", "state", "init", "permit",
                    "endpoints", "list", "get", "set"}
    <2>1. cmd \in Commands \cup {"none"} /\ cmd # "none" /\ cmd # "reset"
      BY ONLY TypeInv, <1>1 DEF TypeInv, CmdInv
    <2> QED BY ONLY <2>1, CliAssumption
  <1>3. \/ pc' = "idle" /\ exit' \in {"ok", "error"}
        \/ /\ pc' \in {"nodeId", "tryInit", "guard", "restore", "count",
                       "value", "set"}
           /\ arg # -1 /\ exit' = exit
    <2>1. ASSUME cmd # "version"
          PROVE  First[cmd] \in {"nodeId", "tryInit", "guard", "restore",
                                 "count", "value", "set"}
      BY ONLY <1>2, <2>1 DEF First
    <2> QED BY ONLY <1>1, <2>1, Zenon
  <1>4. /\ pc' \in Places \cup {"idle"}
        /\ pc' \notin {"reset", "negotiate", "endpoint", "description", "cluster"}
        /\ pc' \in Places => arg # -1
    BY ONLY <1>3 DEF Places
  <1>5. extended' \in BOOLEAN /\ ncpExt' \in BOOLEAN
    <2>1. extended' = (ncp.version >= legacyVersionThreshold)
          /\ ncpExt' = extended'
      BY ONLY <1>1, Zenon
    <2> QED BY ONLY <2>1
  <1>6. CmdInv'
    <2>1. Args(cmd)' = Args(cmd)
      BY ONLY <1>1, Zenon DEF Args
    <2> QED BY ONLY TypeInv, <1>1, <1>2, <1>4, <1>5, <2>1 DEF TypeInv, CmdInv
  <1>7. ItemInv'
    <2>1. item = NoItem /\ item \in Item
      BY ONLY TypeInv, <1>1 DEF TypeInv, ItemInv
    <2>2. item.i < Len(AllConfigIDs)
      <3>1. item.i = 0
        BY ONLY <2>1 DEF NoItem
      <3>2. PICK n \in 1 .. 255 : n = Len(AllConfigIDs)
        BY ONLY ConfigIDs, Zenon
      <3>3. 0 < n
        BY ONLY n \in 1 .. 255
      <3> QED BY ONLY <3>1, <3>2, <3>3, Zenon
    <2> QED BY ONLY <1>1, <1>4, <2>1, <2>2 DEF ItemInv
  <1>8. NcpInv'
    BY ONLY TypeInv, <1>1, <1>5, Zenon DEF TypeInv, NcpInv
  <1>9. LineInv'
    <2>1. outbox' = <<>> /\ inbox' = <<>>
      BY ONLY TypeInv, <1>1, Zenon DEF TypeInv, LineInv
    <2> QED BY ONLY <1>1, <2>1, QueueEmpty DEF LineInv
  <1> QED BY ONLY <1>6, <1>7, <1>8, <1>9, Zenon DEF TypeInv

(* The process ends without another call.                                  *)
LEMMA StopType == TypeInv /\ (NoConnection \/ Kill) => TypeInv'
  <1> SUFFICES ASSUME TypeInv, NoConnection \/ Kill PROVE TypeInv'
    OBVIOUS
  <1>1. /\ pc' = "idle" /\ exit' \in {"error", "killed"} /\ clean' = FALSE
        /\ waiting' \in {waiting, FALSE}
        /\ UNCHANGED <<cmd, flags, arg, item, session, extended, outbox, inbox,
                       ncpVars, before>>
    <2>1. CASE NoConnection
      BY ONLY <2>1 DEF NoConnection, Fail, lineVars
    <2>2. CASE Kill
      BY ONLY <2>2 DEF Kill, lineVars
    <2> QED BY <2>1, <2>2, Zenon
  <1>2. pc' \notin Places \cup {"reset", "negotiate"}
    BY ONLY <1>1 DEF Places
  <1>3. CmdInv'
    <2>1. Args(cmd)' = Args(cmd)
      BY ONLY <1>1, Zenon DEF Args
    <2> QED BY ONLY TypeInv, <1>1, <1>2, <2>1 DEF TypeInv, CmdInv
  <1>4. ItemInv'
    BY ONLY TypeInv, <1>1, <1>2 DEF TypeInv, ItemInv
  <1>5. NcpInv'
    BY ONLY TypeInv, <1>1, NcpSame DEF TypeInv
  <1>6. LineInv'
    <2>1. LineInv /\ UNCHANGED <<cmd, linked, outbox, inbox, ncpExt, session, flags>>
      BY ONLY TypeInv, <1>1 DEF TypeInv, ncpVars
    <2>2. \A k \in DOMAIN outbox' : Sent(outbox[k])'
      BY ONLY <2>1, SentSame, Zenon DEF LineInv
    <2> QED BY ONLY <1>2, <2>1, <2>2 DEF LineInv
  <1> QED BY ONLY <1>3, <1>4, <1>5, <1>6, Zenon DEF TypeInv

(* A request on its way says what it was made to say.                      *)
LEMMA EncodedSent ==
  ASSUME ncpExt \in BOOLEAN, NEW fid \in Queries \cup Writes,
         NEW p \in Seq(Byte), Legit(fid, p)
  PROVE  Sent(encode(ncpExt, 0, fid, p))
  <1>1. fid \in Word
    BY ONLY FrameIDs, fid \in Queries \cup Writes
  <1>2. PICK f \in Seq(Byte) :
          /\ f = encode(ncpExt, 0, fid, p)
          /\ decode(ncpExt, f) =
               Ok([seq |-> 0, frameID |-> Wire(ncpExt, fid), params |-> p])
    BY ONLY <1>1, ncpExt \in BOOLEAN, p \in Seq(Byte), FrameRoundTrip
  <1>3. /\ decode(ncpExt, f).ok
        /\ decode(ncpExt, f).v.frameID = Wire(ncpExt, fid)
        /\ decode(ncpExt, f).v.params = p
    BY ONLY <1>2 DEF Ok
  <1>4. Legit(fid, decode(ncpExt, f).v.params)
    BY ONLY <1>3, Legit(fid, p), Zenon
  <1>5. Sent(f)
    BY ONLY <1>3, <1>4, f \in Seq(Byte), fid \in Queries \cup Writes, Zenon
       DEF Sent
  <1> QED BY ONLY <1>2, <1>5, Zenon

(* What a request leaves behind it.                                        *)
LEMMA AskMoves ==
  ASSUME TypeInv, Ask
  PROVE  /\ pc \in Places /\ ~waiting /\ waiting' = TRUE
         /\ UNCHANGED <<progVars, pc, extended, inbox, ncpVars, before>>
         /\ \/ /\ linked /\ clean' = clean
               /\ \E random \in IF pc = "form" THEN PanIDs ELSE {0},
                     fid \in Queries \cup Writes, p \in Seq(Byte) :
                    /\ Request(random) = <<fid, p>> /\ Legit(fid, p)
                    /\ outbox' = Append(outbox, encode(ncpExt, 0, fid, p))
            \/ clean' = FALSE /\ outbox' = outbox
  <1>1. /\ pc \in Places /\ ~waiting /\ waiting' = TRUE
        /\ UNCHANGED <<progVars, pc, extended, inbox, ncpVars, before>>
    BY ONLY Ask, Zenon DEF Ask
  <1>2. \/ /\ linked /\ clean' = clean
           /\ \E random \in IF pc = "form" THEN PanIDs ELSE {0} :
                outbox' = Append(outbox,
                            encode(extended, 0, Request(random)[1],
                                                Request(random)[2]))
        \/ clean' = FALSE /\ outbox' = outbox
    BY ONLY Ask, Zenon DEF Ask
  <1>3. CASE /\ linked /\ clean' = clean
             /\ \E random \in IF pc = "form" THEN PanIDs ELSE {0} :
                  outbox' = Append(outbox,
                              encode(extended, 0, Request(random)[1],
                                                  Request(random)[2]))
    <2>1. PICK random \in IF pc = "form" THEN PanIDs ELSE {0} :
            outbox' = Append(outbox, encode(extended, 0, Request(random)[1],
                                                         Request(random)[2]))
      BY ONLY <1>3, Zenon
    <2>2. PICK fid \in Queries \cup Writes, p \in Seq(Byte) :
            Request(random) = <<fid, p>> /\ Legit(fid, p)
      BY ONLY TypeInv, <1>1, random \in IF pc = "form" THEN PanIDs ELSE {0},
              RequestLegit
    <2>3. Request(random)[1] = fid /\ Request(random)[2] = p
      BY ONLY <2>2
    <2>4. extended = ncpExt
      BY ONLY TypeInv, <1>1, <1>3, Zenon DEF TypeInv, LineInv
    <2>5. outbox' = Append(outbox, encode(ncpExt, 0, fid, p))
      BY ONLY <2>1, <2>3, <2>4, Zenon
    <2> QED BY ONLY <1>1, <1>3, <2>2, <2>5, Zenon
  <1> QED BY ONLY <1>1, <1>2, <1>3, Zenon

LEMMA AskType == TypeInv /\ Ask => TypeInv'
  <1> SUFFICES ASSUME TypeInv, Ask PROVE TypeInv'
    OBVIOUS
  <1>1. /\ pc \in Places /\ ~waiting /\ waiting' = TRUE
        /\ UNCHANGED <<progVars, pc, extended, inbox, ncpVars, before>>
        /\ \/ /\ linked /\ clean' = clean
              /\ \E random \in IF pc = "form" THEN PanIDs ELSE {0},
                    fid \in Queries \cup Writes, p \in Seq(Byte) :
                   /\ Request(random) = <<fid, p>> /\ Legit(fid, p)
                   /\ outbox' = Append(outbox, encode(ncpExt, 0, fid, p))
           \/ clean' = FALSE /\ outbox' = outbox
    BY ONLY TypeInv, Ask, AskMoves
  <1>2. UNCHANGED <<cmd, flags, arg, item, exit, session, pc, extended, inbox,
                    ncpExt, linked>>
    BY ONLY <1>1, Zenon DEF progVars, ncpVars
  <1>3. CmdInv'
    <2>1. Args(cmd)' = Args(cmd)
      BY ONLY <1>2, Zenon DEF Args
    <2> QED BY ONLY TypeInv, <1>1, <1>2, <2>1 DEF TypeInv, CmdInv
  <1>4. ItemInv'
    BY ONLY TypeInv, <1>2, ItemSame DEF TypeInv
  <1>5. NcpInv'
    BY ONLY TypeInv, <1>1, NcpSame DEF TypeInv
  <1>6. LineInv'
    <2>1. /\ LineInv /\ ncpExt \in BOOLEAN /\ outbox \in Seq(Seq(Byte))
          /\ cmd # "none"
      <3>1. pc # "idle"
        BY ONLY <1>1 DEF Places
      <3> QED BY ONLY TypeInv, <3>1, Zenon DEF TypeInv, LineInv, NcpInv, CmdInv
    <2>2. \/ \E fid \in Queries \cup Writes, p \in Seq(Byte) :
               /\ Legit(fid, p) /\ linked
               /\ outbox' = Append(outbox, encode(ncpExt, 0, fid, p))
          \/ outbox' = outbox
      BY ONLY <1>1, Zenon
    <2>3. CASE outbox' = outbox
      <3>1. \A k \in DOMAIN outbox' : Sent(outbox[k])'
        BY ONLY <1>2, <2>1, <2>3, SentSame, Zenon DEF LineInv
      <3> QED BY ONLY <1>2, <2>1, <2>3, <3>1 DEF LineInv
    <2>4. ASSUME NEW fid \in Queries \cup Writes, NEW p \in Seq(Byte),
                 Legit(fid, p), linked,
                 outbox' = Append(outbox, encode(ncpExt, 0, fid, p))
          PROVE  LineInv'
      <3>1. PICK f : f = encode(ncpExt, 0, fid, p)
        BY ONLY TRUE, Zenon
      <3>2. Sent(f)
        BY ONLY <2>1, <2>4, <3>1, EncodedSent
      <3>3. f \in Seq(Byte)
        BY ONLY <3>2 DEF Sent
      <3>4. /\ outbox' \in Seq(Seq(Byte))
            /\ Len(outbox) \in Nat /\ DOMAIN outbox = 1 .. Len(outbox)
            /\ DOMAIN outbox' = 1 .. Len(outbox) + 1
            /\ \A i \in 1 .. Len(outbox) : outbox'[i] = outbox[i]
            /\ outbox'[Len(outbox) + 1] = f
        BY ONLY <2>1, <2>4, <3>1, <3>3, QueueAppend
      <3>5. \A k \in DOMAIN outbox' : Sent(outbox'[k])
        <4> SUFFICES ASSUME NEW k \in DOMAIN outbox' PROVE Sent(outbox'[k])
          OBVIOUS
        <4>1. k \in 1 .. Len(outbox) \/ k = Len(outbox) + 1
          BY ONLY <3>4, k \in DOMAIN outbox'
        <4>2. CASE k \in 1 .. Len(outbox)
          BY ONLY <2>1, <3>4, <4>2, Zenon DEF LineInv
        <4>3. CASE k = Len(outbox) + 1
          BY ONLY <3>2, <3>4, <4>3, Zenon
        <4> QED BY ONLY <4>1, <4>2, <4>3, Zenon
      <3>6. \A k \in DOMAIN outbox' : Sent(outbox[k])'
        <4>1. \A x : Sent(x) => Sent(x)'
          BY ONLY <1>2, SentSame
        <4> SUFFICES ASSUME NEW CONSTANT k, k \in DOMAIN outbox'
                     PROVE  Sent(outbox[k])'
          OBVIOUS
        <4>2. PICK x : x = outbox'[k]
          BY ONLY TRUE, Zenon
        <4>3. Sent(x)'
          BY ONLY <3>5, <4>1, <4>2, k \in DOMAIN outbox', Zenon
        <4> QED BY ONLY <4>2, <4>3, Zenon DEF Sent
      <3>7. pc # "reset" /\ pc # "negotiate"
        BY ONLY <1>1 DEF Places
      <3> QED BY ONLY <1>1, <1>2, <2>1, <2>4, <3>4, <3>6, <3>7 DEF LineInv
    <2> QED BY ONLY <2>2, <2>3, <2>4, Zenon
  <1> QED BY ONLY <1>3, <1>4, <1>5, <1>6, Zenon DEF TypeInv

(* The request that the NCP takes next.                                    *)
LEMMA AskedLegit ==
  ASSUME TypeInv, outbox # <<>>
  PROVE  /\ Asked.frameID \in Word /\ Asked.params \in Seq(Byte)
         /\ Asked.frameID \in Queries \cup Writes =>
              Legit(Asked.frameID, Asked.params)
         /\ linked /\ cmd # "none" /\ pc \notin {"reset", "negotiate"}
  <1>1. /\ ncpExt \in BOOLEAN /\ outbox \in Seq(Seq(Byte))
        /\ \A k \in DOMAIN outbox : Sent(outbox[k])
    BY ONLY TypeInv, Zenon DEF TypeInv, NcpInv, LineInv
  <1>2. Head(outbox) = outbox[1] /\ 1 \in DOMAIN outbox
    <2>1. /\ Head(outbox) = outbox[1] /\ Len(outbox) \in Nat \ {0}
          /\ DOMAIN outbox = 1 .. Len(outbox)
      BY ONLY <1>1, outbox # <<>>, QueueTail
    <2> QED BY ONLY <2>1
  <1>3. Sent(Head(outbox))
    BY ONLY <1>1, <1>2, Zenon
  <1>4. PICK f \in Seq(Byte), fid \in Queries \cup Writes :
          /\ f = Head(outbox) /\ decode(ncpExt, f).ok
          /\ decode(ncpExt, f).v.frameID = Wire(ncpExt, fid)
          /\ Legit(fid, decode(ncpExt, f).v.params)
    BY ONLY <1>3, Zenon DEF Sent
  <1>5. Asked = decode(ncpExt, f).v
    BY ONLY <1>4, Zenon DEF Asked
  <1>6. /\ decode(ncpExt, f).v.params \in Seq(Byte)
        /\ decode(ncpExt, f).v.frameID \in Word
    BY ONLY <1>1, <1>4, Decoded
  <1>7. ASSUME Asked.frameID \in Queries \cup Writes
        PROVE  Legit(Asked.frameID, Asked.params)
    <2>1. Wire(ncpExt, fid) \in Queries \cup Writes
      BY ONLY <1>4, <1>5, <1>7, Zenon
    <2>2. Wire(ncpExt, fid) = fid
      BY ONLY <1>1, <2>1, FrameIDs, fid \in Queries \cup Writes
    <2> QED BY ONLY <1>4, <1>5, <2>2, Zenon
  <1>8. linked /\ cmd # "none" /\ pc \notin {"reset", "negotiate"}
    BY ONLY TypeInv, outbox # <<>> DEF TypeInv, LineInv, NcpInv
  <1> QED BY ONLY <1>5, <1>6, <1>7, <1>8, Zenon

(* The NCP takes a request and answers it.                                 *)
LEMMA NcpKeeps ==
  ASSUME TypeInv, outbox # <<>>, outbox' = Tail(outbox), NcpFrame,
         clean' \in BOOLEAN, NEW fid \in Word, NEW p \in Seq(Byte),
         Reply(fid, p)
  PROVE  CmdInv' /\ ItemInv' /\ LineInv'
  <1>1. /\ UNCHANGED <<cmd, flags, arg, item, exit, session, pc, waiting,
                       extended, linked, ncpExt>>
        /\ inbox' = Append(inbox, encode(ncpExt, 0, fid, p))
    BY ONLY NcpFrame, Reply(fid, p), Zenon DEF NcpFrame, progVars, Reply
  <1>2. CmdInv'
    BY ONLY TypeInv, <1>1, clean' \in BOOLEAN, CmdSame DEF TypeInv
  <1>3. ItemInv'
    BY ONLY TypeInv, <1>1, ItemSame DEF TypeInv
  <1>4. LineInv'
    <2>1. /\ LineInv /\ ncpExt \in BOOLEAN
          /\ outbox \in Seq(Seq(Byte)) /\ inbox \in Seq(Seq(Byte))
          /\ \A k \in DOMAIN outbox : Sent(outbox[k])
      BY ONLY TypeInv, Zenon DEF TypeInv, LineInv, NcpInv
    <2>2. linked /\ cmd # "none" /\ pc # "reset" /\ pc # "negotiate"
      BY ONLY TypeInv, outbox # <<>>, AskedLegit
    <2>3. encode(ncpExt, 0, fid, p) \in Seq(Byte)
      BY ONLY <2>1, fid \in Word, p \in Seq(Byte), FrameRoundTrip
    <2>4. inbox' \in Seq(Seq(Byte))
      BY ONLY <1>1, <2>1, <2>3, QueueAppend
    <2>5. /\ outbox' \in Seq(Seq(Byte))
          /\ Len(outbox) \in Nat \ {0} /\ DOMAIN outbox = 1 .. Len(outbox)
          /\ DOMAIN outbox' = 1 .. Len(outbox) - 1
          /\ \A i \in 1 .. Len(outbox) - 1 : outbox'[i] = outbox[i + 1]
      BY ONLY <2>1, outbox # <<>>, outbox' = Tail(outbox), QueueTail
    <2>6. \A k \in DOMAIN outbox' : Sent(outbox[k])'
      <3>1. \A x : Sent(x) => Sent(x)'
        BY ONLY <1>1, SentSame
      <3> SUFFICES ASSUME NEW CONSTANT k, k \in DOMAIN outbox'
                   PROVE  Sent(outbox[k])'
        OBVIOUS
      <3>2. k + 1 \in DOMAIN outbox /\ outbox'[k] = outbox[k + 1]
        BY ONLY <2>5, k \in DOMAIN outbox'
      <3>3. PICK x : x = outbox'[k]
        BY ONLY TRUE, Zenon
      <3>4. Sent(x)'
        BY ONLY <2>1, <3>1, <3>2, <3>3, Zenon
      <3> QED BY ONLY <3>3, <3>4, Zenon DEF Sent
    <2> QED BY ONLY <1>1, <2>1, <2>2, <2>4, <2>5, <2>6 DEF LineInv
  <1> QED BY ONLY <1>2, <1>3, <1>4, Zenon

------------------------------------------------------------------------------
(* What the NCP answers is made of bytes.                                  *)

(* Two bytes in front of bytes, and a status in front of a value.          *)
LEMMA JoinedBytes ==
  ASSUME NEW s \in Seq(Byte), NEW t \in Seq(Byte)
  PROVE  Cat(s, t) \in Seq(Byte)
  BY ONLY s \in Seq(Byte), t \in Seq(Byte), CatLen

LEMMA WordBytes ==
  ASSUME NEW v \in Word PROVE PutUint16(v) \in Seq(Byte)
  <1>1. v \in Int
    BY ONLY v \in Word DEF Word
  <1> QED BY ONLY <1>1, PutUint16Bytes

LEMMA StatusBytes ==
  /\ <<0>> \in Seq(Byte) /\ <<1>> \in Seq(Byte) /\ <<1, 0, 0>> \in Seq(Byte)
  /\ <<emberNotJoined>> \in Seq(Byte) /\ <<0, 1>> \in Seq(Byte)
  /\ <<49>> \in Seq(Byte) /\ <<>> \in Seq(Byte)
  BY ONLY TRUE DEF Byte, emberNotJoined

(* What is stored is read field by field.                                  *)
LEMMA StoredType ==
  ASSUME TypeInv, stored # NoNetwork
  PROVE  /\ stored.extendedPanID = Repeat(0, 8) /\ stored.panID \in Word
         /\ stored.radioTxPower \in -128 .. 127
         /\ stored.radioChannel \in 11 .. 26
         /\ stored.key \in 0 .. MaxSessions /\ stored.formed \in 1 .. MaxSessions
  <1>1. stored \in Network
    BY ONLY TypeInv, stored # NoNetwork, Zenon DEF TypeInv, NcpInv
  <1> QED BY ONLY <1>1 DEF Network

LEMMA ParametersBytes ==
  ASSUME TypeInv PROVE NetworkParametersResponse \in Seq(Byte)
  <1>1. CASE ~up
    <2>1. Repeat(0, 21) \in Seq(Byte)
      <3>1. 0 \in Byte /\ 21 \in Nat
        BY ONLY TRUE DEF Byte
      <3> QED BY ONLY <3>1, RepeatBytes
    <2>2. NetworkParametersResponse = Cat(<<emberNotJoined>>, Repeat(0, 21))
      BY ONLY <1>1, Zenon DEF NetworkParametersResponse, Cat
    <2> QED BY ONLY <2>1, <2>2, StatusBytes, JoinedBytes
  <1>2. CASE up
    <2> DEFINE x == stored.extendedPanID
               n == PutUint16(stored.panID)
               m == IF ncp.version >= 14 THEN Repeat(7, 3) ELSE <<>>
               t == <<stored.radioTxPower % 256, stored.radioChannel>>
               z == Repeat(0, 8)
    <2>1. NetworkParametersResponse =
            Cat(Cat(Cat(Cat(Cat(<<0, 1>>, x), n), m), t), z)
      BY ONLY <1>2, Zenon DEF NetworkParametersResponse, Cat
    <2>2. stored # NoNetwork
      BY ONLY TypeInv, <1>2, Zenon DEF TypeInv, NcpInv
    <2>3. 0 \in Byte /\ 7 \in Byte /\ 8 \in Nat /\ 3 \in Nat
      BY ONLY TRUE DEF Byte
    <2>4. z \in Seq(Byte) /\ Repeat(7, 3) \in Seq(Byte)
      BY ONLY <2>3, RepeatBytes
    <2>5. x \in Seq(Byte) /\ n \in Seq(Byte)
      BY ONLY TypeInv, <2>2, <2>4, StoredType, WordBytes
    <2>6. m \in Seq(Byte)
      BY ONLY <2>4, StatusBytes
    <2>7. t \in Seq(Byte)
      <3>1. stored.radioTxPower % 256 \in Byte /\ stored.radioChannel \in Byte
        <4>1. stored.radioTxPower \in -128 .. 127 /\ stored.radioChannel \in 11 .. 26
          BY ONLY TypeInv, <2>2, StoredType
        <4> QED BY ONLY <4>1 DEF Byte
      <3> QED BY ONLY <3>1
    <2> HIDE DEF x, n, m, t, z
    <2>8. Cat(Cat(<<0, 1>>, x), n) \in Seq(Byte)
      BY ONLY <2>5, StatusBytes, JoinedBytes
    <2>9. Cat(Cat(Cat(Cat(<<0, 1>>, x), n), m), t) \in Seq(Byte)
      BY ONLY <2>6, <2>7, <2>8, JoinedBytes
    <2> QED BY ONLY <2>1, <2>4, <2>9, JoinedBytes
  <1> QED BY ONLY <1>1, <1>2, Zenon

(* The lists of an endpoint's clusters.                                    *)
LEMMA EndpointTypes ==
  /\ Len(Endpoints) \in Byte
  /\ \A k \in DOMAIN Endpoints :
       /\ Endpoints[k].ep \in Byte
       /\ \A l \in {1, 2} :
            /\ Endpoints[k].clusters[l] \in Seq(Word)
            /\ Len(Endpoints[k].clusters[l]) \in Byte
  <1>1. /\ Endpoints \in Seq([ep : Byte, clusters : Seq(Seq(Word))])
        /\ Len(Endpoints) <= 255
        /\ \A k \in DOMAIN Endpoints :
             /\ Len(Endpoints[k].clusters) = 2
             /\ \A l \in 1 .. 2 : Len(Endpoints[k].clusters[l]) <= 255
    BY NcpAssumption, Zenon
  <1>0. \A n \in Nat : n <= 255 => n \in Byte
    BY ONLY TRUE DEF Byte
  <1>2. Len(Endpoints) \in Byte
    <2>1. Len(Endpoints) \in Nat
      BY ONLY <1>1, LenProperties
    <2> QED BY ONLY <1>0, <1>1, <2>1, Zenon
  <1>3. \A k \in DOMAIN Endpoints :
          Endpoints[k] \in [ep : Byte, clusters : Seq(Seq(Word))]
    BY ONLY <1>1, QueueType
  <1>4. ASSUME NEW k \in DOMAIN Endpoints, NEW l \in {1, 2}
        PROVE  /\ Endpoints[k].clusters[l] \in Seq(Word)
               /\ Len(Endpoints[k].clusters[l]) \in Byte
    <2>1. PICK c \in Seq(Seq(Word)) : c = Endpoints[k].clusters
      BY ONLY <1>3, k \in DOMAIN Endpoints
    <2>2. Len(c) = 2 /\ Len(c[l]) <= 255
      BY ONLY <1>1, <2>1, l \in {1, 2}, k \in DOMAIN Endpoints
    <2>3. c[l] \in Seq(Word)
      <3>1. \A i \in 1 .. Len(c) : c[i] \in Seq(Word)
        BY ONLY c \in Seq(Seq(Word)), QueueType
      <3>2. l \in 1 .. Len(c)
        BY ONLY <2>2, l \in {1, 2}
      <3> QED BY ONLY <3>1, <3>2, Zenon
    <2>4. Len(c[l]) \in Byte
      <3>1. Len(c[l]) \in Nat
        BY ONLY <2>3, LenProperties
      <3> QED BY ONLY <1>0, <2>2, <3>1, Zenon
    <2> QED BY ONLY <2>1, <2>3, <2>4, Zenon
  <1> QED BY ONLY <1>2, <1>3, <1>4

LEMMA AnswerBytes ==
  ASSUME TypeInv, NEW fid \in Queries, NEW p \in Seq(Byte), Legit(fid, p)
  PROVE  Answer(fid, p) \in Seq(Byte)
  <1> DEFINE of == {k \in DOMAIN Endpoints : Endpoints[k].ep = p[1]}
             e == Endpoints[CHOOSE k \in of : TRUE]
             description == <<0>> \o PutUint16(260) \o PutUint16(5)
                              \o <<1, Len(e.clusters[1]), Len(e.clusters[2])>>
             cluster == <<0>> \o PutUint16(e.clusters[p[2] + 1][p[3] + 1])
  <1>1. /\ config \in [DOMAIN Defaults -> Word]
    BY ONLY TypeInv, Zenon DEF TypeInv, NcpInv
  <1>2. of # {} => (CHOOSE k \in of : TRUE) \in DOMAIN Endpoints
    BY ONLY TRUE, Zenon
  <1>3. ASSUME of # {} PROVE description \in Seq(Byte)
    <2>1. PICK a \in Byte, b \in Byte :
            a = Len(e.clusters[1]) /\ b = Len(e.clusters[2])
      <3>1. 1 \in {1, 2} /\ 2 \in {1, 2}
        OBVIOUS
      <3> QED BY ONLY <1>2, <1>3, <3>1, EndpointTypes, Zenon
    <2>2. 1 \in Byte /\ 260 \in Word /\ 5 \in Word
      BY ONLY TRUE DEF Byte, Word
    <2>3. <<1, a, b>> \in Seq(Byte)
      BY ONLY <2>2, a \in Byte, b \in Byte
    <2>4. /\ <<0>> \in Seq(Byte) /\ PutUint16(260) \in Seq(Byte)
          /\ PutUint16(5) \in Seq(Byte)
      BY ONLY <2>2, WordBytes, StatusBytes
    <2>5. description =
            Cat(Cat(Cat(<<0>>, PutUint16(260)), PutUint16(5)), <<1, a, b>>)
      BY ONLY <2>1, Zenon DEF Cat
    <2> HIDE DEF description
    <2>6. Cat(<<0>>, PutUint16(260)) \in Seq(Byte)
      BY ONLY <2>4, JoinedBytes
    <2>7. Cat(Cat(<<0>>, PutUint16(260)), PutUint16(5)) \in Seq(Byte)
      BY ONLY <2>4, <2>6, JoinedBytes
    <2> QED BY ONLY <2>3, <2>5, <2>7, JoinedBytes
  <1>4. ASSUME of # {}, fid = frameIDGetEndpointCluster,
               p[3] < Len(e.clusters[p[2] + 1])
        PROVE  cluster \in Seq(Byte)
    <2>1. Len(p) = 3 /\ p[2] \in {0, 1}
      BY ONLY Legit(fid, p), <1>4, Zenon DEF Legit
    <2>2. p[2] + 1 \in {1, 2}
      BY ONLY <2>1
    <2>3. PICK c \in Seq(Word) : c = e.clusters[p[2] + 1]
      BY ONLY <1>2, <1>4, <2>2, EndpointTypes, Zenon
    <2>4. PICK j \in Byte : j = p[3]
      <3>1. \A i \in 1 .. Len(p) : p[i] \in Byte
        BY ONLY p \in Seq(Byte), QueueType
      <3> QED BY ONLY <2>1, <3>1
    <2>5. j < Len(c)
      BY ONLY <1>4, <2>3, <2>4, Zenon
    <2>6. c[j + 1] \in Word
      <3>1. Len(c) \in Nat /\ \A i \in 1 .. Len(c) : c[i] \in Word
        BY ONLY c \in Seq(Word), QueueType
      <3>2. j + 1 \in 1 .. Len(c)
        BY ONLY j \in Byte, <2>5, <3>1 DEF Byte
      <3> QED BY ONLY <3>1, <3>2, Zenon
    <2>7. cluster = Cat(<<0>>, PutUint16(c[j + 1]))
      BY ONLY <2>3, <2>4, Zenon DEF Cat
    <2> QED BY ONLY <2>6, <2>7, WordBytes, StatusBytes, JoinedBytes
  <1>5. ASSUME p[1] \in DOMAIN config
        PROVE  <<0>> \o PutUint16(config[p[1]]) \in Seq(Byte)
    <2>1. PutUint16(config[p[1]]) \in Seq(Byte)
      <3>1. config[p[1]] \in Word
        BY ONLY <1>1, <1>5
      <3> QED BY ONLY <3>1, WordBytes
    <2>2. <<0>> \o PutUint16(config[p[1]]) = Cat(<<0>>, PutUint16(config[p[1]]))
      BY ONLY TRUE, Zenon DEF Cat
    <2> QED BY ONLY <2>1, <2>2, StatusBytes, JoinedBytes
  <1>6. ASSUME fid = frameIDGetEndpoint, p[1] < Len(Endpoints)
        PROVE  <<0, Endpoints[p[1] + 1].ep>> \in Seq(Byte)
    <2>1. PICK i \in Byte : i = p[1]
      <3>1. Len(p) = 1
        BY ONLY Legit(fid, p), <1>6, Zenon DEF Legit
      <3>2. \A k \in 1 .. Len(p) : p[k] \in Byte
        BY ONLY p \in Seq(Byte), QueueType
      <3> QED BY ONLY <3>1, <3>2
    <2>2. i < Len(Endpoints)
      BY ONLY <1>6, <2>1, Zenon
    <2>3. i + 1 \in DOMAIN Endpoints
      <3>1. /\ DOMAIN Endpoints = 1 .. Len(Endpoints) /\ Len(Endpoints) \in Nat
        <4>1. Endpoints \in Seq([ep : Byte, clusters : Seq(Seq(Word))])
          BY NcpAssumption, Zenon
        <4> QED BY ONLY <4>1, QueueType
      <3> QED BY ONLY i \in Byte, <2>2, <3>1 DEF Byte
    <2>4. PICK b \in Byte : b = Endpoints[p[1] + 1].ep
      BY ONLY <2>1, <2>3, EndpointTypes, Zenon
    <2>5. <<0, b>> \in Seq(Byte)
      <3>1. 0 \in Byte
        BY ONLY TRUE DEF Byte
      <3> QED BY ONLY <3>1, b \in Byte
    <2> QED BY ONLY <2>4, <2>5, Zenon
  <1>7. /\ PutUint16(IF up THEN 0 ELSE noNodeID) \in Seq(Byte)
        /\ <<IF up THEN joinedNetwork ELSE 0>> \in Seq(Byte)
        /\ <<0, Len(Endpoints)>> \in Seq(Byte)
        /\ [k \in 1 .. 8 |-> k] \in Seq(Byte)
    <2>1. (IF up THEN 0 ELSE noNodeID) \in Word
      BY ONLY TRUE DEF Word, noNodeID
    <2>2. PutUint16(IF up THEN 0 ELSE noNodeID) \in Seq(Byte)
      BY ONLY <2>1, WordBytes
    <2>3. (IF up THEN joinedNetwork ELSE 0) \in Byte /\ 0 \in Byte
      BY ONLY TRUE DEF Byte, joinedNetwork
    <2>4. <<IF up THEN joinedNetwork ELSE 0>> \in Seq(Byte)
      BY ONLY <2>3, SingleByte
    <2>5. <<0, Len(Endpoints)>> \in Seq(Byte)
      BY ONLY <2>3, EndpointTypes
    <2>6. [k \in 1 .. 8 |-> k] \in Seq(Byte)
      <3>1. [k \in 1 .. 8 |-> k] \in [1 .. 8 -> Byte]
        BY ONLY TRUE DEF Byte
      <3> QED BY ONLY <3>1, IsSeq
    <2> QED BY ONLY <2>2, <2>4, <2>5, <2>6
  <1>8. NetworkParametersResponse \in Seq(Byte)
    BY ONLY TypeInv, ParametersBytes
  <1> HIDE DEF description, cluster, of, e
  <1>9. PICK A, B, C, D, E, F, G, H, I :
          /\ A = frameIDNetworkState /\ B = frameIDGetNodeID
          /\ C = frameIDGetEUI64 /\ D = frameIDGetNetworkParameters
          /\ E = frameIDGetConfigurationValue /\ F = frameIDGetEndpointCount
          /\ G = frameIDGetEndpoint /\ H = frameIDGetEndpointDescription
          /\ I = frameIDGetEndpointCluster
          /\ A \notin {B, C, D, E, F, G, H, I}
          /\ B \notin {C, D, E, F, G, H, I} /\ C \notin {D, E, F, G, H, I}
          /\ D \notin {E, F, G, H, I} /\ E \notin {F, G, H, I}
          /\ F \notin {G, H, I} /\ G \notin {H, I} /\ H # I
    BY ONLY TRUE, SMT
       DEF frameIDNetworkState,
           frameIDGetNodeID,
           frameIDGetEUI64,
           frameIDGetNetworkParameters,
           frameIDGetConfigurationValue,
           frameIDGetEndpointCount,
           frameIDGetEndpoint,
           frameIDGetEndpointDescription,
           frameIDGetEndpointCluster
  <1>10. CASE fid = A
    <2>1. Answer(fid, p) = <<IF up THEN joinedNetwork ELSE 0>>
      BY ONLY <1>9, <1>10, Zenon DEF Answer
    <2> QED BY ONLY <1>7, <2>1, StatusBytes, Zenon
  <1>11. CASE fid = B
    <2>1. Answer(fid, p) = PutUint16(IF up THEN 0 ELSE noNodeID)
      BY ONLY <1>9, <1>11, Zenon DEF Answer
    <2> QED BY ONLY <1>7, <2>1, StatusBytes, Zenon
  <1>12. CASE fid = C
    <2>1. Answer(fid, p) = [k \in 1 .. 8 |-> k]
      BY ONLY <1>9, <1>12, Zenon DEF Answer
    <2> QED BY ONLY <1>7, <2>1, StatusBytes, Zenon
  <1>13. CASE fid = D
    <2>1. Answer(fid, p) = NetworkParametersResponse
      BY ONLY <1>9, <1>13, Zenon DEF Answer
    <2> QED BY ONLY <1>8, <2>1, StatusBytes, Zenon
  <1>14. CASE fid = E
    <2>1. \/ /\ p[1] \in DOMAIN config
             /\ Answer(fid, p) = <<0>> \o PutUint16(config[p[1]])
          \/ Answer(fid, p) = <<1, 0, 0>>
      BY ONLY <1>9, <1>14, Zenon DEF Answer
    <2> QED BY ONLY <1>5, <2>1, StatusBytes, Zenon
  <1>15. CASE fid = F
    <2>1. Answer(fid, p) = <<0, Len(Endpoints)>>
      BY ONLY <1>9, <1>15, Zenon DEF Answer
    <2> QED BY ONLY <1>7, <2>1, StatusBytes, Zenon
  <1>16. CASE fid = G
    <2>1. \/ /\ p[1] < Len(Endpoints)
             /\ Answer(fid, p) = <<0, Endpoints[p[1] + 1].ep>>
          \/ Answer(fid, p) = <<1>>
      BY ONLY <1>9, <1>16, Zenon DEF Answer
    <2> QED BY ONLY <1>9, <1>16, <1>6, <2>1, StatusBytes, Zenon
  <1>17. CASE fid = H
    <2>1. \/ of # {} /\ Answer(fid, p) = description
          \/ Answer(fid, p) = <<1>>
      BY ONLY <1>9, <1>17, Zenon DEF Answer, description, of, e
    <2> QED BY ONLY <1>3, <2>1, StatusBytes, Zenon
  <1>18. CASE fid = I
    <2>1. \/ /\ of # {} /\ p[3] < Len(e.clusters[p[2] + 1])
             /\ Answer(fid, p) = cluster
          \/ Answer(fid, p) = <<1>>
      BY ONLY <1>9, <1>18, Zenon DEF Answer, cluster, of, e
    <2> QED BY ONLY <1>9, <1>18, <1>4, <2>1, StatusBytes, Zenon
  <1> QED BY ONLY fid \in Queries, <1>9, <1>10, <1>11, <1>12, <1>13, <1>14,
                  <1>15, <1>16, <1>17, <1>18, Zenon DEF Queries

------------------------------------------------------------------------------
(* Every step of the NCP keeps the types.                                  *)

(* The fields of a request that the NCP reads.                             *)
LEMMA AskedFields ==
  ASSUME TypeInv, outbox # <<>>
  PROVE  /\ Asked.frameID = frameIDSetInitialSecurityState =>
              Asked.params[19] = session
         /\ Asked.frameID = frameIDFormNetwork =>
              \E random \in PanIDs :
                Asked.params = FormNetworkParams(Parameters(flags, random))
         /\ Asked.frameID = frameIDPermitJoining => Asked.params[1] \in Byte
         /\ Asked.frameID = frameIDSetConfigurationValue =>
              Uint16(Asked.params, 2) \in Word
  <1>1. /\ Asked.params \in Seq(Byte)
        /\ Asked.frameID \in Queries \cup Writes =>
             Legit(Asked.frameID, Asked.params)
    BY ONLY TypeInv, outbox # <<>>, AskedLegit
  <1>2. PICK p \in Seq(Byte) : p = Asked.params
    BY ONLY <1>1, Zenon
  <1>3. Len(p) \in Nat /\ \A i \in 1 .. Len(p) : p[i] \in Byte
    BY ONLY p \in Seq(Byte), QueueType
  <1>4. ASSUME Asked.frameID = frameIDSetInitialSecurityState
        PROVE  Asked.params[19] = session
    BY ONLY <1>1, <1>4, Zenon DEF Legit, Writes
  <1>5. ASSUME Asked.frameID = frameIDFormNetwork
        PROVE  \E random \in PanIDs :
                 Asked.params = FormNetworkParams(Parameters(flags, random))
    BY ONLY <1>1, <1>5, Zenon DEF Legit, Writes
  <1>6. ASSUME Asked.frameID = frameIDPermitJoining
        PROVE  Asked.params[1] \in Byte
    <2>1. Len(p) = 1
      BY ONLY <1>1, <1>2, <1>6, Zenon DEF Legit, Writes
    <2> QED BY ONLY <1>2, <1>3, <2>1
  <1>7. ASSUME Asked.frameID = frameIDSetConfigurationValue
        PROVE  Uint16(Asked.params, 2) \in Word
    <2>1. Len(p) = 3
      BY ONLY <1>1, <1>2, <1>7, Zenon DEF Legit, Writes
    <2>2. p[2] \in Byte /\ p[2 + 1] \in Byte
      BY ONLY <1>3, <2>1
    <2>3. p[2] + 256 * p[2 + 1] \in Word
      BY ONLY <2>2, BytesWord
    <2> QED BY ONLY <1>2, <2>3, Zenon DEF Uint16
  <1> QED BY ONLY <1>4, <1>5, <1>6, <1>7, Zenon

NcpCommand ==
  \/ NcpNetworkInit \/ NcpSecure \/ NcpForm \/ NcpPermit \/ NcpSetConfig
  \/ NcpQuery \/ NcpShort \/ NcpRefuse \/ NcpUnknown

(* The frame ID of a response to the request that the NCP takes.           *)
Fits(fid) ==
  IF Asked.frameID \in Queries \cup Writes THEN fid = Asked.frameID ELSE fid = 88

(* A step of the NCP takes a request and replies in bytes.                 *)
LEMMA NcpMoves ==
  ASSUME TypeInv, NcpCommand
  PROVE  /\ outbox # <<>> /\ outbox' = Tail(outbox) /\ NcpFrame
         /\ clean' \in {clean, FALSE}
         /\ \E fid \in Word, p \in Seq(Byte) : Reply(fid, p) /\ Fits(fid)
  <1> DEFINE Moves == /\ outbox # <<>> /\ outbox' = Tail(outbox) /\ NcpFrame
                      /\ clean' \in {clean, FALSE}
             Plain == Accept \/ Refuse
  <1>1. ASSUME outbox # <<>>, Plain, Asked.frameID \in Writes
        PROVE  \E fid \in Word, p \in Seq(Byte) : Reply(fid, p) /\ Fits(fid)
    <2>1. Asked.frameID \in Word
      BY ONLY TypeInv, <1>1, AskedLegit
    <2> QED BY ONLY <1>1, <2>1, StatusBytes, Zenon DEF Accept, Refuse, Fits
  <1>2. CASE \/ NcpNetworkInit \/ NcpSecure \/ NcpForm \/ NcpPermit
             \/ NcpSetConfig \/ NcpRefuse
    <2>1. Moves /\ Plain /\ Asked.frameID \in Writes
      <3>1. CASE NcpNetworkInit
        BY ONLY <3>1, Zenon DEF NcpNetworkInit, Takes, Writes
      <3>2. CASE NcpSecure
        BY ONLY <3>2, Zenon DEF NcpSecure, Takes, Writes
      <3>3. CASE NcpForm
        BY ONLY <3>3, Zenon DEF NcpForm, Takes, Writes
      <3>4. CASE NcpPermit
        BY ONLY <3>4, Zenon DEF NcpPermit, Takes, Writes
      <3>5. CASE NcpSetConfig
        BY ONLY <3>5, Zenon DEF NcpSetConfig, Takes, Writes
      <3>6. CASE NcpRefuse
        BY ONLY <3>6, Zenon DEF NcpRefuse, Takes, Writes
      <3> QED BY ONLY <1>2, <3>1, <3>2, <3>3, <3>4, <3>5, <3>6, Zenon
    <2> QED BY ONLY <1>1, <2>1, Zenon
  <1>3. ASSUME outbox # <<>>, Asked.frameID \in Queries
        PROVE  /\ Asked.frameID \in Word
               /\ Answer(Asked.frameID, Asked.params) \in Seq(Byte)
    <2>1. /\ Asked.frameID \in Word /\ Asked.params \in Seq(Byte)
          /\ Legit(Asked.frameID, Asked.params)
      BY ONLY TypeInv, <1>3, AskedLegit
    <2> QED BY ONLY TypeInv, <1>3, <2>1, AnswerBytes
  <1>4. CASE NcpQuery
    <2>1. /\ Moves /\ Asked.frameID \in Queries
          /\ Reply(Asked.frameID, Answer(Asked.frameID, Asked.params))
      BY ONLY <1>4, Zenon DEF NcpQuery, Takes
    <2> QED BY ONLY <1>3, <2>1, Zenon DEF Fits
  <1>5. CASE NcpShort
    <2> DEFINE whole == Answer(Asked.frameID, Asked.params)
    <2>1. /\ Moves /\ Asked.frameID \in Queries
          /\ \E n \in 0 .. Min({Len(whole), 22}) - 1 :
               Reply(Asked.frameID, SubSeq(whole, 1, n))
      BY ONLY <1>5, Zenon DEF NcpShort, Takes
    <2>2. PICK w \in Seq(Byte) : w = whole
      BY ONLY <1>3, <2>1, Zenon
    <2>3. Len(w) \in Nat /\ \A i \in 1 .. Len(w) : w[i] \in Byte
      BY ONLY w \in Seq(Byte), QueueType
    <2>4. PICK m \in Nat : m = Min({Len(w), 22}) /\ m <= Len(w)
      <3>1. \E x \in {Len(w), 22} : \A y \in {Len(w), 22} : x <= y
        BY ONLY <2>3
      <3>2. /\ Min({Len(w), 22}) \in {Len(w), 22}
            /\ \A y \in {Len(w), 22} : Min({Len(w), 22}) <= y
        BY ONLY <3>1, Zenon DEF Min
      <3> QED BY ONLY <2>3, <3>2
    <2>5. PICK n \in 0 .. m - 1 : Reply(Asked.frameID, SubSeq(w, 1, n))
      BY ONLY <2>1, <2>2, <2>4, Zenon
    <2>6. SubSeq(w, 1, n) \in Seq(Byte)
      <3>1. /\ 1 \in Int /\ n \in Int /\ \A i \in 1 .. n : w[i] \in Byte
        BY ONLY <2>3, <2>4, <2>5
      <3> QED BY ONLY <3>1, SubSeqProperties
    <2> QED BY ONLY <1>3, <2>1, <2>5, <2>6, Zenon DEF Fits
  <1>6. CASE NcpUnknown
    <2>1. /\ Moves /\ Reply(88, <<49>>)
          /\ Asked.frameID \notin Queries \cup Writes
      BY ONLY <1>6, Zenon DEF NcpUnknown, Takes
    <2>2. 88 \in Word
      BY ONLY TRUE DEF Word
    <2> QED BY ONLY <2>1, <2>2, StatusBytes, Zenon DEF Fits
  <1> QED BY ONLY NcpCommand, <1>2, <1>4, <1>5, <1>6, Zenon DEF NcpCommand

(* A network that is formed has the parameters that were asked for.        *)
LEMMA FormedNetwork ==
  ASSUME TypeInv, NcpForm, stored' # stored
  PROVE  /\ stored' = [extendedPanID |-> SubSeq(Asked.params, 1, 8),
                       panID |-> Uint16(Asked.params, 9),
                       radioTxPower |-> Int8(Asked.params[11]),
                       radioChannel |-> Asked.params[12],
                       key |-> sec, formed |-> session]
         /\ Asked.params[12] \in 11 .. 26 /\ up' = TRUE /\ ~up
  BY ONLY NcpForm, stored' # stored, Zenon DEF NcpForm

LEMMA FormType ==
  ASSUME TypeInv, NcpForm
  PROVE  /\ stored' = NoNetwork \/ stored' \in Network
         /\ up' \in BOOLEAN /\ (up' => stored' # NoNetwork)
  <1>1. CASE stored' = stored
    <2>1. /\ stored = NoNetwork \/ stored \in Network
          /\ up \in BOOLEAN /\ (up => stored # NoNetwork)
      BY ONLY TypeInv, Zenon DEF TypeInv, NcpInv
    <2>2. up' = up \/ (up' = TRUE /\ stored'.formed = session)
      BY ONLY NcpForm DEF NcpForm
    <2>3. CASE up' = up
      BY ONLY <1>1, <2>1, <2>3, Zenon
    <2>4. CASE up' = TRUE /\ stored'.formed = session
      <3>1. session # 0
        BY ONLY TypeInv, NcpForm, AskedLegit, Zenon DEF TypeInv, CmdInv, NcpForm,
                Takes
      <3>2. stored' # NoNetwork
        BY ONLY <2>4, <3>1 DEF NoNetwork
      <3> QED BY ONLY <1>1, <2>1, <2>4, <3>2, Zenon
    <2> QED BY ONLY <2>2, <2>3, <2>4, Zenon
  <1>2. CASE stored' # stored
    <2>1. PICK p : p = Asked.params
      BY ONLY TRUE, Zenon
    <2>2. outbox # <<>> /\ Asked.frameID = frameIDFormNetwork
      BY ONLY NcpForm DEF NcpForm, Takes
    <2>3. PICK random \in PanIDs :
            p = FormNetworkParams(Parameters(flags, random))
      BY ONLY TypeInv, <2>1, <2>2, AskedFields, Zenon
    <2>4. flags \in Settings \cup {NoFlags}
      BY ONLY TypeInv, Zenon DEF TypeInv, CmdInv
    <2>5. /\ SubSeq(p, 1, 8) = Repeat(0, 8) /\ Uint16(p, 9) \in Word
          /\ Int8(p[11]) \in -128 .. 127
      <3> DEFINE q == FormNetworkParams(Parameters(flags, random))
      <3>1. /\ SubSeq(q, 1, 8) = Repeat(0, 8) /\ Uint16(q, 9) \in Word
            /\ Int8(q[11]) \in -128 .. 127
        BY ONLY <2>4, random \in PanIDs, FormParams
      <3> QED BY ONLY <2>3, <3>1, Zenon
    <2>6. /\ stored' = [extendedPanID |-> SubSeq(p, 1, 8),
                        panID |-> Uint16(p, 9), radioTxPower |-> Int8(p[11]),
                        radioChannel |-> p[12],
                        key |-> sec, formed |-> session]
          /\ p[12] \in 11 .. 26 /\ up' = TRUE
      BY ONLY TypeInv, NcpForm, <1>2, <2>1, FormedNetwork, Zenon
    <2>7. sec \in 0 .. MaxSessions /\ session \in 1 .. MaxSessions
      <3>1. /\ sec \in 0 .. MaxSessions /\ session \in 0 .. MaxSessions
            /\ session # 0
        BY ONLY TypeInv, <2>2, AskedLegit, Zenon DEF TypeInv, CmdInv, NcpInv
      <3> QED BY ONLY <3>1
    <2>8. stored' \in Network
      <3>1. PICK x, n, t, c, k, f :
              /\ x = SubSeq(p, 1, 8) /\ n = Uint16(p, 9) /\ t = Int8(p[11])
              /\ c = p[12] /\ k = sec /\ f = session
        BY ONLY TRUE, Zenon
      <3>2. /\ x \in {Repeat(0, 8)} /\ n \in Word /\ t \in -128 .. 127
            /\ c \in 11 .. 26 /\ k \in 0 .. MaxSessions
            /\ f \in 1 .. MaxSessions
        BY ONLY <2>5, <2>6, <2>7, <3>1, Zenon
      <3>3. stored' = [extendedPanID |-> x, panID |-> n, radioTxPower |-> t,
                       radioChannel |-> c, key |-> k, formed |-> f]
        BY ONLY <2>6, <3>1, Zenon
      <3> QED BY ONLY <3>2, <3>3 DEF Network
    <2>9. stored' # NoNetwork
      <3>1. stored'.formed = session /\ session # 0
        BY ONLY <2>6, <2>7
      <3> QED BY ONLY <3>1 DEF NoNetwork
    <2> QED BY ONLY <2>6, <2>8, <2>9
  <1> QED BY ONLY <1>1, <1>2, Zenon

LEMMA NcpCommandType == TypeInv /\ NcpCommand => TypeInv'
  <1> SUFFICES ASSUME TypeInv, NcpCommand PROVE TypeInv'
    OBVIOUS
  <1>1. /\ outbox # <<>> /\ outbox' = Tail(outbox) /\ NcpFrame
        /\ clean' \in {clean, FALSE}
        /\ \E fid \in Word, p \in Seq(Byte) : Reply(fid, p) /\ Fits(fid)
    BY ONLY TypeInv, NcpCommand, NcpMoves
  <1>2. CmdInv' /\ ItemInv' /\ LineInv'
    <2>1. clean' \in BOOLEAN
      <3>1. clean \in BOOLEAN
        BY ONLY TypeInv, Zenon DEF TypeInv, CmdInv
      <3> QED BY ONLY <1>1, <3>1
    <2>2. \E fid \in Word, p \in Seq(Byte) : Reply(fid, p)
      BY ONLY <1>1, Zenon
    <2> QED BY ONLY TypeInv, <1>1, <2>1, <2>2, NcpKeeps
  <1>3. NcpInv'
    <2>1. /\ NcpInv /\ session \in 0 .. MaxSessions
      BY ONLY TypeInv, Zenon DEF TypeInv, CmdInv
    <2>2. UNCHANGED <<ncp, linked, ncpExt, before>>
      BY ONLY <1>1, Zenon DEF NcpFrame
    <2> USE DEF Takes
    <2>3. CASE NcpNetworkInit
      BY ONLY <2>1, <2>2, <2>3, Zenon DEF NcpInv, NcpNetworkInit
    <2>4. CASE NcpSecure
      <3>1. sec' = session
        BY ONLY TypeInv, <1>1, <2>4, AskedFields, Zenon DEF NcpSecure
      <3>2. UNCHANGED <<up, joining, config, stored>>
        BY ONLY <2>4, Zenon DEF NcpSecure
      <3> QED BY ONLY <2>1, <2>2, <3>1, <3>2, Zenon DEF NcpInv
    <2>5. CASE NcpForm
      <3>1. /\ stored' = NoNetwork \/ stored' \in Network
            /\ up' \in BOOLEAN /\ (up' => stored' # NoNetwork)
        BY ONLY TypeInv, <2>5, FormType
      <3>2. UNCHANGED <<sec, joining, config>>
        BY ONLY <2>5, Zenon DEF NcpForm
      <3> QED BY ONLY <2>1, <2>2, <3>1, <3>2, Zenon DEF NcpInv
    <2>6. CASE NcpPermit
      <3>1. joining' \in Byte
        <4>1. Asked.params[1] \in Byte /\ joining \in Byte
          BY ONLY TypeInv, <1>1, <2>6, AskedFields, Zenon
             DEF NcpPermit, TypeInv, NcpInv
        <4> QED BY ONLY <2>6, <4>1, Zenon DEF NcpPermit
      <3>2. UNCHANGED <<up, sec, config, stored>>
        BY ONLY <2>6, Zenon DEF NcpPermit
      <3> QED BY ONLY <2>1, <2>2, <3>1, <3>2, Zenon DEF NcpInv
    <2>7. CASE NcpSetConfig
      <3>1. config' \in [DOMAIN Defaults -> Word]
        <4>1. /\ Uint16(Asked.params, 2) \in Word
              /\ config \in [DOMAIN Defaults -> Word]
          BY ONLY TypeInv, <1>1, <2>7, AskedFields, Zenon
             DEF NcpSetConfig, TypeInv, NcpInv
        <4>2. \/ config' = config
              \/ config' = [config EXCEPT ![Asked.params[1]] =
                                            Uint16(Asked.params, 2)]
          BY ONLY <2>7, Zenon DEF NcpSetConfig
        <4> QED BY ONLY <4>1, <4>2
      <3>2. UNCHANGED <<up, sec, joining, stored>>
        BY ONLY <2>7, Zenon DEF NcpSetConfig
      <3> QED BY ONLY <2>1, <2>2, <3>1, <3>2, Zenon DEF NcpInv
    <2>8. CASE NcpQuery \/ NcpShort \/ NcpRefuse \/ NcpUnknown
      <3>1. UNCHANGED <<up, sec, joining, config, stored>>
        BY ONLY <2>8, Zenon DEF NcpQuery, NcpShort, NcpRefuse, NcpUnknown
      <3> QED BY ONLY <2>1, <2>2, <3>1, Zenon DEF NcpInv
    <2> QED BY ONLY NcpCommand, <2>3, <2>4, <2>5, <2>6, <2>7, <2>8, Zenon
            DEF NcpCommand
  <1> QED BY ONLY <1>2, <1>3, Zenon DEF TypeInv

LEMMA RestartType == TypeInv /\ NcpRestart => TypeInv'
  <1> SUFFICES ASSUME TypeInv, NcpRestart PROVE TypeInv'
    OBVIOUS
  <1>1. /\ Boot /\ linked' = FALSE /\ clean' = FALSE
        /\ outbox' = <<>> /\ inbox' = <<>>
        /\ UNCHANGED <<cmd, flags, arg, item, exit, session, pc, waiting,
                       extended, before>>
    BY ONLY NcpRestart, Zenon DEF NcpRestart, Boot, progVars
  <1>2. CmdInv'
    <2>1. clean' \in BOOLEAN
      BY ONLY <1>1
    <2> QED BY ONLY TypeInv, <1>1, <2>1, CmdSame DEF TypeInv
  <1>3. ItemInv'
    BY ONLY TypeInv, <1>1, ItemSame DEF TypeInv
  <1>4. NcpInv'
    BY ONLY TypeInv, <1>1, BootType DEF TypeInv
  <1>5. LineInv'
    BY ONLY <1>1, QueueEmpty DEF LineInv
  <1> QED BY ONLY <1>2, <1>3, <1>4, <1>5, Zenon DEF TypeInv

LEMMA StutterType == TypeInv /\ UNCHANGED vars => TypeInv'
  <1> SUFFICES ASSUME TypeInv, UNCHANGED vars PROVE TypeInv'
    OBVIOUS
  <1>1. /\ UNCHANGED <<cmd, flags, arg, item, exit, session, pc, waiting,
                       extended, outbox, inbox, linked, ncpExt, clean>>
        /\ UNCHANGED <<ncpVars, before>>
    BY ONLY UNCHANGED vars, Zenon DEF vars, progVars, lineVars, ncpVars
  <1>2. CmdInv'
    <2>1. clean' \in BOOLEAN
      BY ONLY TypeInv, <1>1, Zenon DEF TypeInv, CmdInv
    <2> QED BY ONLY TypeInv, <1>1, <2>1, CmdSame DEF TypeInv
  <1>3. ItemInv'
    BY ONLY TypeInv, <1>1, ItemSame DEF TypeInv
  <1>4. NcpInv'
    BY ONLY TypeInv, <1>1, NcpSame DEF TypeInv
  <1>5. LineInv'
    <2>1. LineInv
      BY ONLY TypeInv, Zenon DEF TypeInv
    <2>2. \A k \in DOMAIN outbox' : Sent(outbox[k])'
      BY ONLY <1>1, <2>1, SentSame, Zenon DEF LineInv
    <2> QED BY ONLY <1>1, <2>1, <2>2, Zenon DEF LineInv
  <1> QED BY ONLY <1>2, <1>3, <1>4, <1>5, Zenon DEF TypeInv

(* Every step is one of these.                                             *)
LEMMA Steps ==
  ASSUME [Next]_vars
  PROVE  \/ \E c \in Commands : Start(c)
         \/ Reset \/ Negotiate \/ NoConnection \/ Kill \/ Ask
         \/ PlainCall \/ Count \/ Endpoint \/ Description \/ Cluster \/ Value
         \/ NcpCommand \/ NcpRestart \/ UNCHANGED vars
  BY ONLY [Next]_vars, Zenon DEF Next, Step, NcpStep, PlainCall, NcpCommand

LEMMA TypeStep == TypeInv /\ [Next]_vars => TypeInv'
  <1> SUFFICES ASSUME TypeInv, [Next]_vars PROVE TypeInv'
    OBVIOUS
  <1>1. \/ \E c \in Commands : Start(c)
        \/ Reset \/ Negotiate \/ NoConnection \/ Kill \/ Ask
        \/ PlainCall \/ Count \/ Endpoint \/ Description \/ Cluster \/ Value
        \/ NcpCommand \/ NcpRestart \/ UNCHANGED vars
    BY ONLY [Next]_vars, Steps
  <1>2. ASSUME NEW c \in Commands, Start(c) PROVE TypeInv'
    BY ONLY TypeInv, <1>2, StartType
  <1> QED BY ONLY TypeInv, <1>1, <1>2, ResetType, NegotiateType, StopType,
                  AskType, PlainType, CountType, EndpointType, DescriptionType,
                  ClusterType, ValueType, NcpCommandType, RestartType,
                  StutterType, Zenon

LEMMA TypeAlways == Spec => []TypeInv
  BY TypeInit, TypeStep, PTL DEF Spec

(* The variables of the CLI and of the NCP have their types, whatever is   *)
(* lost, refused, cut short or restarted: no listing walks past what it    *)
(* lists, and what the NCP stores comes from the bytes of a request.       *)
THEOREM CliTypeCorrect == Spec => []TypeOK
  <1>1. TypeInv => TypeOK
    <2> SUFFICES ASSUME TypeInv PROVE TypeOK
      OBVIOUS
    <2>1. /\ CmdInv /\ NcpInv /\ item \in Item
          /\ outbox \in Seq(Seq(Byte)) /\ inbox \in Seq(Seq(Byte))
      BY ONLY TypeInv, Zenon DEF TypeInv, ItemInv, LineInv
    <2>2. item.i \in 0 .. 255 /\ item.j \in 0 .. 255 /\ item.ep \in Byte
      BY ONLY <2>1, ItemType DEF Byte
    <2>3. /\ \A k \in DOMAIN outbox : outbox[k] \in Seq(Byte)
          /\ \A k \in DOMAIN inbox : inbox[k] \in Seq(Byte)
      BY ONLY <2>1, QueueType
    <2> QED BY ONLY <2>1, <2>2, <2>3, Zenon DEF TypeOK, CmdInv, NcpInv
  <1> QED BY <1>1, TypeAlways, PTL

------------------------------------------------------------------------------
(* Where the calls lead, and what every step leaves as it is.              *)

Listings == {"endpoint", "description", "cluster"}

(* Where a command is after a call that returns a.                         *)
Goes(a) ==
  /\ pc' \in Places \cup {"idle"} /\ pc' # "guard"
  /\ pc' = "form" => pc = "secure" /\ Parsed(Status, a).ok
  /\ pc' = "secure" => pc = "init" /\ ~Parsed(Status, a).ok
  /\ pc' = "init" => /\ pc = "guard" /\ Parsed(NetworkState, a).ok
                     /\ Parsed(NetworkState, a).v # joinedNetwork
  /\ pc' \in Listings => pc \in Listings \cup {"count"}
  /\ pc = "count" => a.got \/ pc' = "idle"

Call == PlainCall \/ Count \/ Endpoint \/ Description \/ Cluster \/ Value

LEMMA CallMoves ==
  ASSUME Call
  PROVE  /\ pc \in Places
         /\ \E a \in Answers : Return(a) /\ Goes(a)
  <1> DEFINE Moves == /\ pc \in Places
                      /\ \E a \in Answers : Return(a) /\ Goes(a)
  <1> USE DEF GoTo, Claim, Exit, Fail, Goes, Places, Listings
  <1>2. ASSUME NodeId PROVE Moves
    <2>1. /\ pc = "nodeId"
          /\ \E a \in Answers : Return(a) /\ pc' \in {"eui64", "idle"}
      BY ONLY <1>2 DEF NodeId
    <2> QED BY ONLY <2>1
  <1>3. ASSUME Eui64 PROVE Moves
    <2>1. pc = "eui64" /\ \E a \in Answers : Return(a) /\ pc' = "idle"
      BY ONLY <1>3 DEF Eui64
    <2> QED BY ONLY <2>1
  <1>4. ASSUME TryInit PROVE Moves
    <2>1. pc = "tryInit" /\ \E a \in Answers : Return(a) /\ pc' = "state"
      BY ONLY <1>4 DEF TryInit, StatusCall
    <2> QED BY ONLY <2>1
  <1>5. ASSUME State PROVE Moves
    <2>1. /\ pc = "state"
          /\ \E a \in Answers : Return(a) /\ pc' \in {"params", "idle"}
      BY ONLY <1>5 DEF State
    <2> QED BY ONLY <2>1
  <1>6. ASSUME Params PROVE Moves
    <2>1. pc = "params" /\ \E a \in Answers : Return(a) /\ pc' = "idle"
      BY ONLY <1>6 DEF Params
    <2> QED BY ONLY <2>1
  <1>7. ASSUME Guard PROVE Moves
    <2>1. /\ pc = "guard"
          /\ \E a \in Answers :
               /\ Return(a)
               /\ \/ pc' \in {"idle", "state"}
                  \/ /\ pc' = "init" /\ Parsed(NetworkState, a).ok
                     /\ Parsed(NetworkState, a).v # joinedNetwork
      BY ONLY <1>7 DEF Guard
    <2> QED BY ONLY <2>1
  <1>8. ASSUME InitNetwork PROVE Moves
    <2>1. /\ pc = "init"
          /\ \E a \in Answers :
               /\ Return(a)
               /\ pc' = "state" \/ (pc' = "secure" /\ ~Parsed(Status, a).ok)
      BY ONLY <1>8 DEF InitNetwork, StatusCall
    <2> QED BY ONLY <2>1
  <1>9. ASSUME Secure PROVE Moves
    <2>1. /\ pc = "secure"
          /\ \E a \in Answers :
               /\ Return(a)
               /\ pc' = "idle" \/ (pc' = "form" /\ Parsed(Status, a).ok)
      BY ONLY <1>9 DEF Secure, StatusCall
    <2> QED BY ONLY <2>1
  <1>10. ASSUME Form PROVE Moves
    <2>1. /\ pc = "form"
          /\ \E a \in Answers : Return(a) /\ pc' \in {"state", "idle"}
      BY ONLY <1>10 DEF Form, StatusCall
    <2> QED BY ONLY <2>1
  <1>11. ASSUME Restore PROVE Moves
    <2>1. /\ pc = "restore"
          /\ \E a \in Answers : Return(a) /\ pc' \in {"permit", "idle"}
      BY ONLY <1>11 DEF Restore, StatusCall
    <2> QED BY ONLY <2>1
  <1>12. ASSUME Permit PROVE Moves
    <2>1. pc = "permit" /\ \E a \in Answers : Return(a) /\ pc' = "idle"
      BY ONLY <1>12 DEF Permit, StatusCall
    <2> QED BY ONLY <2>1
  <1>13. ASSUME SetConfig PROVE Moves
    <2>1. pc = "set" /\ \E a \in Answers : Return(a) /\ pc' = "idle"
      BY ONLY <1>13 DEF SetConfig, StatusCall
    <2> QED BY ONLY <2>1
  <1>14. ASSUME NEW it, Loop(it)
         PROVE  pc' \in {"cluster", "endpoint", "idle"}
    BY ONLY <1>14 DEF Loop
  <1>15. ASSUME Count PROVE Moves
    <2>1. /\ pc = "count"
          /\ \E a \in Answers :
               /\ Return(a)
               /\ \/ /\ Parsed(GetEndpointCount, a).ok
                     /\ pc' \in {"cluster", "endpoint", "idle"}
                  \/ pc' = "idle"
      BY ONLY <1>14, <1>15, Zenon DEF Count
    <2>2. \A a : Parsed(GetEndpointCount, a).ok => a.got
      BY ONLY TRUE DEF Parsed, Err
    <2> QED BY ONLY <2>1, <2>2
  <1>16. ASSUME Endpoint PROVE Moves
    <2>1. /\ pc = "endpoint"
          /\ \E a \in Answers :
               /\ Return(a)
               /\ pc' \in {"cluster", "endpoint", "idle", "description"}
      BY ONLY <1>14, <1>16 DEF Endpoint
    <2> QED BY ONLY <2>1
  <1>17. ASSUME Description PROVE Moves
    <2>1. /\ pc = "description"
          /\ \E a \in Answers :
               Return(a) /\ pc' \in {"cluster", "endpoint", "idle"}
      BY ONLY <1>14, <1>17, Zenon DEF Description
    <2> QED BY ONLY <2>1
  <1>18. ASSUME Cluster PROVE Moves
    <2>1. /\ pc = "cluster"
          /\ \E a \in Answers :
               Return(a) /\ pc' \in {"cluster", "endpoint", "idle"}
      BY ONLY <1>14, <1>18, Zenon DEF Cluster
    <2> QED BY ONLY <2>1
  <1>19. ASSUME Value PROVE Moves
    <2>1. /\ pc = "value"
          /\ \E a \in Answers : Return(a) /\ pc' \in {"value", "idle"}
      BY ONLY <1>19 DEF Value
    <2> QED BY ONLY <2>1
  <1> QED BY ONLY Call, <1>2, <1>3, <1>4, <1>5, <1>6, <1>7, <1>8, <1>9, <1>10,
                  <1>11, <1>12, <1>13, <1>15, <1>16, <1>17, <1>18, <1>19, Zenon
          DEF Call, PlainCall

(* Only NcpForm forms a network, and only Start changes the flags.         *)
LEMMA StoredKeeps ==
  ASSUME [Next]_vars
  PROVE  \/ NcpForm /\ UNCHANGED <<session, flags>>
         \/ stored' = stored /\ session' = session + 1
         \/ UNCHANGED <<stored, session, flags>>
  <1> USE DEF progVars, ncpVars
  <1>1. ASSUME NEW c \in Commands, Start(c)
        PROVE  stored' = stored /\ session' = session + 1
    BY ONLY <1>1, Zenon DEF Start
  <1>2. ASSUME Reset \/ Negotiate \/ NoConnection \/ Kill \/ Ask
        PROVE  UNCHANGED <<stored, session, flags>>
    BY ONLY <1>2, Zenon DEF Reset, Boot, Negotiate, NoConnection, Kill, Ask
  <1>3. ASSUME Call PROVE UNCHANGED <<stored, session, flags>>
    <2>1. \E a \in Answers : Return(a)
      BY ONLY <1>3, CallMoves, Zenon
    <2> QED BY ONLY <2>1, Zenon DEF Return
  <1>4. ASSUME NcpCommand
        PROVE  /\ UNCHANGED <<session, flags>>
               /\ NcpForm \/ stored' = stored
    BY ONLY <1>4, Zenon
       DEF NcpCommand, NcpFrame, NcpNetworkInit, NcpSecure, NcpForm, NcpPermit,
           NcpSetConfig, NcpQuery, NcpShort, NcpRefuse, NcpUnknown
  <1>5. ASSUME NcpRestart PROVE UNCHANGED <<stored, session, flags>>
    BY ONLY <1>5, Zenon DEF NcpRestart, Boot
  <1>6. ASSUME UNCHANGED vars PROVE UNCHANGED <<stored, session, flags>>
    BY ONLY <1>6, Zenon DEF vars
  <1> QED BY ONLY [Next]_vars, Steps, <1>1, <1>2, <1>3, <1>4, <1>5, <1>6, Zenon
          DEF Call

------------------------------------------------------------------------------
(* The parameters of a network.                                            *)

LEMMA AsAskedFormed ==
  FormedAsAsked <=>
    (stored # NoNetwork /\ stored.formed = session =>
       AsAsked(stored.panID, stored.radioTxPower, stored.radioChannel))
  BY ONLY TRUE, SMT DEF FormedAsAsked, AsAsked

LEMMA AsAskedAgain ==
  FormedAsAsked' <=>
    (stored' # NoNetwork /\ stored'.formed = session' =>
       AsAsked(stored.panID, stored.radioTxPower, stored.radioChannel)')
  BY ONLY TRUE, SMT DEF FormedAsAsked, AsAsked

(* No network is younger than the session.                                 *)
AskedInv ==
  /\ FormedAsAsked
  /\ stored # NoNetwork => stored.formed <= session

LEMMA AskedStep == TypeInv /\ AskedInv /\ [Next]_vars => AskedInv'
  <1> SUFFICES ASSUME TypeInv, AskedInv, [Next]_vars PROVE AskedInv'
    OBVIOUS
  <1>1. session \in Nat /\ flags \in Settings \cup {NoFlags}
    <2>1. session \in 0 .. MaxSessions /\ flags \in Settings \cup {NoFlags}
      BY ONLY TypeInv, Zenon DEF TypeInv, CmdInv
    <2> QED BY ONLY <2>1
  <1>2. stored # NoNetwork => stored.formed \in Nat
    <2>1. stored = NoNetwork \/ stored \in Network
      BY ONLY TypeInv, Zenon DEF TypeInv, NcpInv
    <2> QED BY ONLY <2>1 DEF Network
  <1>3. CASE UNCHANGED <<stored, session, flags>>
    <2>1. AsAsked(stored.panID, stored.radioTxPower, stored.radioChannel)' <=>
            AsAsked(stored.panID, stored.radioTxPower, stored.radioChannel)
      BY ONLY <1>3, SMT DEF AsAsked
    <2> QED BY ONLY AskedInv, <1>3, <2>1, AsAskedFormed, AsAskedAgain, Zenon
            DEF AskedInv
  <1>4. CASE stored' = stored /\ session' = session + 1
    <2>1. ASSUME stored' # NoNetwork
          PROVE  stored'.formed <= session' /\ stored'.formed # session'
      <3>1. stored.formed <= session /\ stored.formed \in Nat
        BY ONLY AskedInv, <1>2, <1>4, <2>1, Zenon DEF AskedInv
      <3> QED BY ONLY <1>1, <1>4, <3>1
    <2> QED BY ONLY <2>1, AsAskedAgain, Zenon DEF AskedInv
  <1>5. CASE NcpForm /\ UNCHANGED <<session, flags>> /\ stored' # stored
    <2>1. PICK p : p = Asked.params
      BY ONLY TRUE, Zenon
    <2>2. /\ stored' = [extendedPanID |-> SubSeq(p, 1, 8),
                        panID |-> Uint16(p, 9), radioTxPower |-> Int8(p[11]),
                        radioChannel |-> p[12],
                        key |-> sec, formed |-> session]
      BY ONLY TypeInv, <1>5, <2>1, FormedNetwork, Zenon
    <2>3. PICK random \in PanIDs :
            p = FormNetworkParams(Parameters(flags, random))
      <3>1. outbox # <<>> /\ Asked.frameID = frameIDFormNetwork
        BY ONLY <1>5 DEF NcpForm, Takes
      <3> QED BY ONLY TypeInv, <2>1, <3>1, AskedFields, Zenon
    <2>4. AsAsked(Uint16(p, 9), Int8(p[11]), p[12])
      BY ONLY <1>1, <2>3, random \in PanIDs, FormParams, Zenon
    <2>5. PICK n, t, c : n = Uint16(p, 9) /\ t = Int8(p[11]) /\ c = p[12]
      BY ONLY TRUE, Zenon
    <2>6. /\ stored'.panID = n /\ stored'.radioTxPower = t
          /\ stored'.radioChannel = c /\ stored'.formed = session
      BY ONLY <2>2, <2>5
    <2>7. AsAsked(n, t, c)
      BY ONLY <2>4, <2>5, Zenon
    <2>8. FormedAsAsked'
      <3>1. AsAsked(stored.panID, stored.radioTxPower, stored.radioChannel)'
        BY ONLY <1>5, <2>6, <2>7, SMT DEF AsAsked
      <3> QED BY ONLY <3>1, AsAskedAgain, Zenon
    <2>9. stored'.formed <= session'
      BY ONLY <1>1, <1>5, <2>6
    <2> QED BY ONLY <2>8, <2>9, Zenon DEF AskedInv
  <1> QED BY ONLY [Next]_vars, StoredKeeps, <1>3, <1>4, <1>5, Zenon

(* Whatever goes wrong, a network that this command formed has the         *)
(* channel, the power and the PAN ID of its flags as far as these are in   *)
(* range, and with none given a PAN ID that is not reserved.               *)
THEOREM FormedAsAskedTheorem == Spec => []FormedAsAsked
  <1>1. Init => AskedInv
    BY ONLY AsAskedFormed, Zenon DEF Init, AskedInv
  <1>2. Spec => []AskedInv
    BY <1>1, AskedStep, TypeAlways, PTL DEF Spec
  <1>3. AskedInv => FormedAsAsked
    BY DEF AskedInv
  <1> QED BY <1>2, <1>3, PTL

------------------------------------------------------------------------------
(* What is on the line before and after a step.                            *)

(* The frame ID that a place asks with, and so that of its answer.         *)
LEMMA PlaceIDs ==
  ASSUME pc \in Places, NEW x
  PROVE  /\ Request(x)[1] = Request(0)[1]
         /\ Request(x)[1] \in Queries \cup Writes
         /\ Request(x)[1] = frameIDFormNetwork <=> pc = "form"
         /\ Request(x)[1] = frameIDSetInitialSecurityState <=> pc = "secure"
         /\ pc = "guard" => Request(x)[1] = frameIDNetworkState
         /\ pc = "init" => Request(x)[1] = frameIDNetworkInit
         /\ Request(x)[1] \in Byte <=> pc \notin Listings \cup {"count"}
  <1> USE DEF frameIDNetworkInit, frameIDNetworkState, frameIDFormNetwork,
           frameIDPermitJoining, frameIDGetEUI64, frameIDGetNodeID,
           frameIDGetNetworkParameters, frameIDGetConfigurationValue,
           frameIDSetConfigurationValue, frameIDSetInitialSecurityState,
           frameIDGetEndpoint, frameIDGetEndpointCount,
           frameIDGetEndpointDescription, frameIDGetEndpointCluster
  <1> DEFINE Of(id) == \A y : Request(y)[1] = id
  <1>1. /\ pc = "nodeId" => Of(frameIDGetNodeID)
        /\ pc = "eui64" => Of(frameIDGetEUI64)
        /\ pc \in {"state", "guard"} => Of(frameIDNetworkState)
        /\ pc = "params" => Of(frameIDGetNetworkParameters)
        /\ pc \in {"tryInit", "init", "restore"} => Of(frameIDNetworkInit)
        /\ pc = "secure" => Of(frameIDSetInitialSecurityState)
        /\ pc = "form" => Of(frameIDFormNetwork)
        /\ pc = "permit" => Of(frameIDPermitJoining)
        /\ pc = "count" => Of(frameIDGetEndpointCount)
        /\ pc = "endpoint" => Of(frameIDGetEndpoint)
        /\ pc = "description" => Of(frameIDGetEndpointDescription)
        /\ pc = "cluster" => Of(frameIDGetEndpointCluster)
        /\ pc = "value" => Of(frameIDGetConfigurationValue)
        /\ pc = "set" => Of(frameIDSetConfigurationValue)
    BY ONLY TRUE DEF Request
  <1> HIDE DEF Of
  <1>2. PICK j : Of(j)
    BY ONLY <1>1, pc \in Places DEF Places
  <1>3. PICK id : id = Request(0)[1]
    BY ONLY TRUE, Zenon
  <1>4. Request(x)[1] = id
    <2>1. \A y : Request(y)[1] = j
      BY ONLY <1>2 DEF Of
    <2> QED BY ONLY <1>3, <2>1
  <1>5. \A i : Of(i) => id = i
    BY ONLY <1>3, Zenon DEF Of
  <1>6. /\ id \in Queries \cup Writes
        /\ id = frameIDFormNetwork <=> pc = "form"
        /\ id = frameIDSetInitialSecurityState <=> pc = "secure"
        /\ pc = "guard" => id = frameIDNetworkState
        /\ pc = "init" => id = frameIDNetworkInit
        /\ id \in Byte <=> pc \notin Listings \cup {"count"}
    <2>1. /\ pc = "nodeId" => id = frameIDGetNodeID
          /\ pc = "eui64" => id = frameIDGetEUI64
          /\ pc \in {"state", "guard"} => id = frameIDNetworkState
          /\ pc = "params" => id = frameIDGetNetworkParameters
          /\ pc \in {"tryInit", "init", "restore"} => id = frameIDNetworkInit
          /\ pc = "secure" => id = frameIDSetInitialSecurityState
          /\ pc = "form" => id = frameIDFormNetwork
          /\ pc = "permit" => id = frameIDPermitJoining
          /\ pc = "count" => id = frameIDGetEndpointCount
          /\ pc = "endpoint" => id = frameIDGetEndpoint
          /\ pc = "description" => id = frameIDGetEndpointDescription
          /\ pc = "cluster" => id = frameIDGetEndpointCluster
          /\ pc = "value" => id = frameIDGetConfigurationValue
          /\ pc = "set" => id = frameIDSetConfigurationValue
      BY ONLY <1>1, <1>5
    <2> QED BY ONLY <2>1, pc \in Places
            DEF Places, Queries, Writes, Byte, Listings
  <1> QED BY ONLY <1>3, <1>4, <1>6, ZenonT(60)

(* A frame that is written is read as what it was made of.                 *)
LEMMA Written ==
  ASSUME ncpExt \in BOOLEAN, NEW fid \in Word, NEW p \in Seq(Byte)
  PROVE  LET f == encode(ncpExt, 0, fid, p) IN
         /\ f \in Seq(Byte) /\ decode(ncpExt, f).ok
         /\ decode(ncpExt, f).v.frameID = Wire(ncpExt, fid)
         /\ decode(ncpExt, f).v.params = p
  <1>1. PICK f \in Seq(Byte) :
          /\ f = encode(ncpExt, 0, fid, p)
          /\ decode(ncpExt, f) =
               Ok([seq |-> 0, frameID |-> Wire(ncpExt, fid), params |-> p])
    BY ONLY fid \in Word, ncpExt \in BOOLEAN, p \in Seq(Byte), FrameRoundTrip
  <1>2. /\ decode(ncpExt, f).ok
        /\ decode(ncpExt, f).v.frameID = Wire(ncpExt, fid)
        /\ decode(ncpExt, f).v.params = p
    BY ONLY <1>1 DEF Ok
  <1> QED BY ONLY <1>1, <1>2, Zenon

(* The line after the NCP took a request and replied.                      *)
LEMMA Replied ==
  ASSUME TypeInv, outbox # <<>>, outbox' = Tail(outbox),
         NEW fid \in Word, NEW p \in Seq(Byte), Reply(fid, p)
  PROVE  /\ Len(outbox') = Len(outbox) - 1 /\ Len(inbox') = Len(inbox) + 1
         /\ inbox'[Len(inbox) + 1] = encode(ncpExt, 0, fid, p)
         /\ \A k \in DOMAIN outbox' :
              \E m \in DOMAIN outbox : outbox'[k] = outbox[m]
         /\ \A k \in DOMAIN inbox' :
              \/ \E m \in DOMAIN inbox : inbox'[k] = inbox[m]
              \/ inbox'[k] = encode(ncpExt, 0, fid, p)
  <1>1. /\ ncpExt \in BOOLEAN
        /\ outbox \in Seq(Seq(Byte)) /\ inbox \in Seq(Seq(Byte))
    BY ONLY TypeInv, Zenon DEF TypeInv, LineInv, NcpInv
  <1>2. PICK f \in Seq(Byte) : f = encode(ncpExt, 0, fid, p)
    BY ONLY <1>1, fid \in Word, p \in Seq(Byte), FrameRoundTrip
  <1>3. inbox' = Append(inbox, f)
    BY ONLY <1>2, Reply(fid, p), Zenon DEF Reply
  <1>4. /\ Len(inbox) \in Nat /\ DOMAIN inbox = 1 .. Len(inbox)
        /\ Len(inbox') = Len(inbox) + 1
        /\ DOMAIN inbox' = 1 .. Len(inbox) + 1
        /\ \A i \in 1 .. Len(inbox) : inbox'[i] = inbox[i]
        /\ inbox'[Len(inbox) + 1] = f
    BY ONLY <1>1, <1>3, f \in Seq(Byte), QueueAppend
  <1>5. /\ Len(outbox) \in Nat \ {0} /\ DOMAIN outbox = 1 .. Len(outbox)
        /\ Len(outbox') = Len(outbox) - 1
        /\ DOMAIN outbox' = 1 .. Len(outbox) - 1
        /\ \A i \in 1 .. Len(outbox) - 1 : outbox'[i] = outbox[i + 1]
    BY ONLY <1>1, outbox # <<>>, outbox' = Tail(outbox), QueueTail
  <1>6. \A k \in DOMAIN outbox' :
          \E m \in DOMAIN outbox : outbox'[k] = outbox[m]
    <2> SUFFICES ASSUME NEW CONSTANT k, k \in DOMAIN outbox'
                 PROVE  \E m \in DOMAIN outbox : outbox'[k] = outbox[m]
      OBVIOUS
    <2>1. k + 1 \in DOMAIN outbox /\ outbox'[k] = outbox[k + 1]
      BY ONLY <1>5, k \in DOMAIN outbox'
    <2> QED BY ONLY <2>1, Zenon
  <1>7. \A k \in DOMAIN inbox' :
          \/ \E m \in DOMAIN inbox : inbox'[k] = inbox[m]
          \/ inbox'[k] = f
    <2> SUFFICES ASSUME NEW CONSTANT k, k \in DOMAIN inbox'
                 PROVE  \/ \E m \in DOMAIN inbox : inbox'[k] = inbox[m]
                        \/ inbox'[k] = f
      OBVIOUS
    <2>1. k \in 1 .. Len(inbox) \/ k = Len(inbox) + 1
      BY ONLY <1>4, k \in DOMAIN inbox'
    <2> QED BY ONLY <1>4, <2>1, Zenon
  <1> QED BY ONLY <1>2, <1>4, <1>5, <1>6, <1>7, Zenon

(* The line after a request was written.                                   *)
LEMMA Requested ==
  ASSUME TypeInv, NEW fid \in Word, NEW p \in Seq(Byte),
         outbox' = Append(outbox, encode(ncpExt, 0, fid, p))
  PROVE  /\ Len(outbox') = Len(outbox) + 1
         /\ outbox'[Len(outbox) + 1] = encode(ncpExt, 0, fid, p)
         /\ \A k \in DOMAIN outbox' :
              \/ \E m \in DOMAIN outbox : outbox'[k] = outbox[m]
              \/ outbox'[k] = encode(ncpExt, 0, fid, p)
  <1>1. ncpExt \in BOOLEAN /\ outbox \in Seq(Seq(Byte))
    BY ONLY TypeInv, Zenon DEF TypeInv, LineInv, NcpInv
  <1>2. PICK f \in Seq(Byte) : f = encode(ncpExt, 0, fid, p)
    BY ONLY <1>1, fid \in Word, p \in Seq(Byte), FrameRoundTrip
  <1>3. outbox' = Append(outbox, f)
    BY ONLY <1>2, outbox' = Append(outbox, encode(ncpExt, 0, fid, p)), Zenon
  <1>4. /\ Len(outbox) \in Nat /\ DOMAIN outbox = 1 .. Len(outbox)
        /\ Len(outbox') = Len(outbox) + 1
        /\ DOMAIN outbox' = 1 .. Len(outbox) + 1
        /\ \A i \in 1 .. Len(outbox) : outbox'[i] = outbox[i]
        /\ outbox'[Len(outbox) + 1] = f
    BY ONLY <1>1, <1>3, f \in Seq(Byte), QueueAppend
  <1>5. \A k \in DOMAIN outbox' :
          \/ \E m \in DOMAIN outbox : outbox'[k] = outbox[m]
          \/ outbox'[k] = f
    <2> SUFFICES ASSUME NEW CONSTANT k, k \in DOMAIN outbox'
                 PROVE  \/ \E m \in DOMAIN outbox : outbox'[k] = outbox[m]
                        \/ outbox'[k] = f
      OBVIOUS
    <2>1. k \in 1 .. Len(outbox) \/ k = Len(outbox) + 1
      BY ONLY <1>4, k \in DOMAIN outbox'
    <2> QED BY ONLY <1>4, <2>1, Zenon
  <1> QED BY ONLY <1>2, <1>4, <1>5, Zenon

------------------------------------------------------------------------------
(* The security of a network.                                              *)

FormFrame(f) == decode(ncpExt, f).v.frameID = frameIDFormNetwork

SecuredFrame(f) ==
  /\ decode(ncpExt, f).ok
  /\ decode(ncpExt, f).v.frameID = frameIDSetInitialSecurityState
  /\ Status(decode(ncpExt, f).v.params).ok

(* Whenever the NCP is about to be asked to form a network it has the      *)
(* security of this session: the CLI has seen its answer to the request    *)
(* before, which the NCP gives only once it has taken that security.       *)
SecInv ==
  /\ linked /\ pc = "form" => sec = session
  /\ \A k \in DOMAIN outbox : FormFrame(outbox[k]) => sec = session
  /\ \A k \in DOMAIN inbox : SecuredFrame(inbox[k]) => sec = session
  /\ FormedSecured

(* Nothing is on its way, and no network is about to be formed.            *)
LEMMA SecEmpty ==
  ASSUME SecInv, outbox' = <<>>, inbox' = <<>>, stored' = stored,
         ~linked' \/ pc' # "form"
  PROVE  SecInv'
  <1>1. DOMAIN outbox' = {} /\ DOMAIN inbox' = {}
    BY ONLY outbox' = <<>>, inbox' = <<>>, QueueEmpty
  <1>2. FormedSecured'
    BY ONLY SecInv, stored' = stored, Zenon DEF SecInv, FormedSecured
  <1> QED BY ONLY <1>1, <1>2, ~linked' \/ pc' # "form", Zenon DEF SecInv

(* What is on its way has been there before, or forms no network and tells *)
(* of no security.                                                         *)
LEMMA SecSame ==
  ASSUME SecInv, UNCHANGED <<sec, session, ncpExt, stored>>,
         linked' /\ pc' = "form" => sec = session,
         \A k \in DOMAIN outbox' :
           \/ \E m \in DOMAIN outbox : outbox'[k] = outbox[m]
           \/ FormFrame(outbox'[k]) => sec = session,
         \A k \in DOMAIN inbox' :
           \/ \E m \in DOMAIN inbox : inbox'[k] = inbox[m]
           \/ SecuredFrame(inbox'[k]) => sec = session
  PROVE  SecInv'
  <1>1. \A k \in DOMAIN outbox' : FormFrame(outbox'[k]) => sec = session
    BY Zenon DEF SecInv
  <1>2. \A k \in DOMAIN inbox' : SecuredFrame(inbox'[k]) => sec = session
    BY Zenon DEF SecInv
  <1>3. (\A k \in DOMAIN outbox : FormFrame(outbox[k]) => sec = session)'
    BY ONLY <1>1, UNCHANGED <<sec, session, ncpExt>>, Zenon DEF FormFrame
  <1>4. (\A k \in DOMAIN inbox : SecuredFrame(inbox[k]) => sec = session)'
    BY ONLY <1>2, UNCHANGED <<sec, session, ncpExt>>, Zenon DEF SecuredFrame
  <1>5. FormedSecured'
    BY ONLY SecInv, stored' = stored, Zenon DEF SecInv, FormedSecured
  <1>6. (linked /\ pc = "form" => sec = session)'
    BY ONLY UNCHANGED <<sec, session>>, linked' /\ pc' = "form" => sec = session,
            Zenon
  <1> QED BY ONLY <1>3, <1>4, <1>5, <1>6, Zenon DEF SecInv

(* Only formNetwork of a command writes a request to form a network.       *)
LEMMA SecAsk == TypeInv /\ SecInv /\ Ask => SecInv'
  <1> SUFFICES ASSUME TypeInv, SecInv, Ask PROVE SecInv'
    OBVIOUS
  <1>1. /\ pc \in Places
        /\ UNCHANGED <<progVars, pc, extended, inbox, ncpVars, before>>
        /\ \/ /\ linked
              /\ \E random \in IF pc = "form" THEN PanIDs ELSE {0},
                    fid \in Queries \cup Writes, p \in Seq(Byte) :
                   /\ Request(random) = <<fid, p>> /\ Legit(fid, p)
                   /\ outbox' = Append(outbox, encode(ncpExt, 0, fid, p))
           \/ outbox' = outbox
    BY ONLY TypeInv, Ask, AskMoves
  <1>2. UNCHANGED <<sec, session, ncpExt, stored, linked, inbox, pc>>
    BY ONLY <1>1, Zenon DEF progVars, ncpVars
  <1>3. linked' /\ pc' = "form" => sec = session
    BY ONLY SecInv, <1>2, Zenon DEF SecInv
  <1>4. \A k \in DOMAIN inbox' : \E m \in DOMAIN inbox : inbox'[k] = inbox[m]
    BY ONLY <1>2, Zenon
  <1>5. \A k \in DOMAIN outbox' :
          \/ \E m \in DOMAIN outbox : outbox'[k] = outbox[m]
          \/ FormFrame(outbox'[k]) => sec = session
    <2>1. CASE outbox' = outbox
      BY ONLY <2>1, Zenon
    <2>2. ASSUME linked, NEW random \in IF pc = "form" THEN PanIDs ELSE {0},
                 NEW fid \in Queries \cup Writes, NEW p \in Seq(Byte),
                 Request(random) = <<fid, p>>,
                 outbox' = Append(outbox, encode(ncpExt, 0, fid, p))
          PROVE  \A k \in DOMAIN outbox' :
                   \/ \E m \in DOMAIN outbox : outbox'[k] = outbox[m]
                   \/ FormFrame(outbox'[k]) => sec = session
      <3>1. ncpExt \in BOOLEAN /\ fid \in Word
        BY ONLY TypeInv, fid \in Queries \cup Writes, FrameIDs, Zenon
           DEF TypeInv, NcpInv
      <3>2. PICK f : f = encode(ncpExt, 0, fid, p)
        BY ONLY TRUE, Zenon
      <3>3. \A k \in DOMAIN outbox' :
              \/ \E m \in DOMAIN outbox : outbox'[k] = outbox[m]
              \/ outbox'[k] = f
        BY ONLY TypeInv, <2>2, <3>1, <3>2, p \in Seq(Byte), Requested, Zenon
      <3>4. ASSUME FormFrame(f) PROVE sec = session
        <4>1. Wire(ncpExt, fid) = frameIDFormNetwork
          BY ONLY <3>1, <3>2, <3>4, p \in Seq(Byte), Written, Zenon
             DEF FormFrame
        <4>2. fid = frameIDFormNetwork
          BY ONLY <3>1, <4>1, FrameIDs, fid \in Queries \cup Writes, Zenon
             DEF Writes
        <4>3. pc = "form"
          <5>1. Request(random)[1] = fid
            BY ONLY <2>2
          <5> QED BY ONLY <1>1, <4>2, <5>1, PlaceIDs, Zenon
        <4> QED BY ONLY SecInv, <2>2, <4>3, Zenon DEF SecInv
      <3> QED BY ONLY <3>3, <3>4, Zenon
    <2> QED BY ONLY <1>1, <2>1, <2>2, Zenon
  <1> QED BY ONLY SecInv, <1>2, <1>3, <1>4, <1>5, SecSame, Zenon

(* An answer that a call got is in one of the frames.                      *)
LEMMA AnswerGot ==
  ASSUME TypeInv, linked, pc \in Places, NEW a \in Answers, a.got
  PROVE  \E k \in DOMAIN inbox :
           /\ decode(ncpExt, inbox[k]).ok
           /\ decode(ncpExt, inbox[k]).v.frameID = Request(0)[1]
           /\ a.params = decode(ncpExt, inbox[k]).v.params
           /\ a.rest = From(inbox, k + 1)
  <1>1. ncpExt = extended
    BY ONLY TypeInv, linked, pc \in Places, Zenon DEF TypeInv, LineInv
  <1>2. PICK k \in Matching :
          a = [got |-> TRUE, params |-> decode(extended, inbox[k]).v.params,
               rest |-> From(inbox, k + 1)]
    <2>1. \/ \E k \in Matching :
               a = [got |-> TRUE, params |-> decode(extended, inbox[k]).v.params,
                    rest |-> From(inbox, k + 1)]
          \/ a = [got |-> FALSE, params |-> <<>>, rest |-> inbox]
      BY ONLY a \in Answers DEF Answers
    <2> QED BY ONLY <2>1, a.got
  <1>3. /\ a.params = decode(extended, inbox[k]).v.params
        /\ a.rest = From(inbox, k + 1)
    BY ONLY <1>2
  <1>4. /\ k \in DOMAIN inbox /\ decode(extended, inbox[k]).ok
        /\ decode(extended, inbox[k]).v.frameID = Request(0)[1]
    BY ONLY k \in Matching, Zenon DEF Matching
  <1> QED BY ONLY <1>1, <1>3, <1>4, Zenon

(* The CLI goes on to form a network only if its request for security was  *)
(* accepted.                                                               *)
LEMMA SecCall == TypeInv /\ SecInv /\ Call => SecInv'
  <1> SUFFICES ASSUME TypeInv, SecInv, Call PROVE SecInv'
    OBVIOUS
  <1>1. PICK a \in Answers : pc \in Places /\ Return(a) /\ Goes(a)
    BY ONLY Call, CallMoves, Zenon
  <1>2. /\ UNCHANGED <<sec, session, ncpExt, stored, linked, outbox>>
        /\ inbox' = a.rest
    BY ONLY <1>1, Zenon DEF Return, ncpVars
  <1>3. \A k \in DOMAIN inbox' : \E m \in DOMAIN inbox : inbox'[k] = inbox[m]
    <2>1. \A k \in DOMAIN a.rest : \E m \in DOMAIN inbox : a.rest[k] = inbox[m]
      BY ONLY TypeInv, a \in Answers, AnswerType
    <2> QED BY ONLY <1>2, <2>1, Zenon
  <1>4. ASSUME linked, pc' = "form" PROVE sec = session
    <2>1. pc = "secure" /\ Parsed(Status, a).ok
      BY ONLY <1>1, <1>4, Zenon DEF Goes
    <2>2. a.got /\ Status(a.params).ok
      BY ONLY <2>1 DEF Parsed, Err
    <2>3. PICK k \in DOMAIN inbox :
            /\ decode(ncpExt, inbox[k]).ok
            /\ decode(ncpExt, inbox[k]).v.frameID = Request(0)[1]
            /\ a.params = decode(ncpExt, inbox[k]).v.params
      BY ONLY TypeInv, <1>1, <1>4, <2>2, a \in Answers, AnswerGot, Zenon
    <2>4. Request(0)[1] = frameIDSetInitialSecurityState
      BY ONLY <1>1, <2>1, PlaceIDs, Zenon
    <2>5. SecuredFrame(inbox[k])
      BY ONLY <2>2, <2>3, <2>4, Zenon DEF SecuredFrame
    <2> QED BY ONLY SecInv, <2>5, Zenon DEF SecInv
  <1>5. \A k \in DOMAIN outbox' : \E m \in DOMAIN outbox : outbox'[k] = outbox[m]
    BY ONLY <1>2, Zenon
  <1> QED BY ONLY SecInv, <1>2, <1>3, <1>4, <1>5, SecSame, Zenon

LEMMA NotSecured ==
  /\ frameIDSetInitialSecurityState \in Writes
  /\ frameIDSetInitialSecurityState \notin Queries
  /\ frameIDSetInitialSecurityState \notin
       {frameIDNetworkInit, frameIDFormNetwork, frameIDPermitJoining,
        frameIDSetConfigurationValue}
  /\ Wire(TRUE, 88) # frameIDSetInitialSecurityState
  /\ Wire(FALSE, 88) # frameIDSetInitialSecurityState
  /\ ~Status(<<emberNotJoined>>).ok
  BY ONLY TRUE
     DEF Queries, Writes, Wire, Low, emberNotJoined, Status, Err,
         frameIDNetworkInit, frameIDNetworkState, frameIDFormNetwork,
         frameIDPermitJoining, frameIDGetEUI64, frameIDGetNodeID,
         frameIDGetNetworkParameters, frameIDGetConfigurationValue,
         frameIDSetConfigurationValue, frameIDSetInitialSecurityState,
         frameIDGetEndpoint, frameIDGetEndpointCount,
         frameIDGetEndpointDescription, frameIDGetEndpointCluster

(* What the NCP replies tells of no security, unless it has taken it.      *)
LEMMA UnsecuredReply ==
  ASSUME TypeInv, NcpCommand, ~NcpSecure
  PROVE  \E fid \in Word, p \in Seq(Byte) :
           Reply(fid, p) /\ ~SecuredFrame(encode(ncpExt, 0, fid, p))
  <1>1. /\ outbox # <<>>
        /\ \E fid \in Word, p \in Seq(Byte) : Reply(fid, p) /\ Fits(fid)
    BY ONLY TypeInv, NcpCommand, NcpMoves
  <1>2. ncpExt \in BOOLEAN
    BY ONLY TypeInv, Zenon DEF TypeInv, NcpInv
  <1>3. CASE NcpRefuse
    <2>1. Reply(Asked.frameID, <<emberNotJoined>>)
      BY ONLY <1>3, Zenon DEF NcpRefuse, Refuse
    <2>2. PICK fid \in Word : fid = Asked.frameID
      BY ONLY TypeInv, <1>1, AskedLegit, Zenon
    <2>3. PICK p \in Seq(Byte) : p = <<emberNotJoined>>
      BY ONLY StatusBytes, Zenon
    <2>4. decode(ncpExt, encode(ncpExt, 0, fid, p)).v.params = p
      BY ONLY <1>2, fid \in Word, p \in Seq(Byte), Written, Zenon
    <2>5. ~SecuredFrame(encode(ncpExt, 0, fid, p))
      BY ONLY <2>3, <2>4, NotSecured, Zenon DEF SecuredFrame
    <2> QED BY ONLY <2>1, <2>2, <2>3, <2>5, Zenon
  <1>4. CASE Asked.frameID # frameIDSetInitialSecurityState
    <2>1. PICK fid \in Word, p \in Seq(Byte) : Reply(fid, p) /\ Fits(fid)
      BY ONLY <1>1, Zenon
    <2>2. Wire(ncpExt, fid) # frameIDSetInitialSecurityState
      <3>1. CASE fid = 88
        BY ONLY <1>2, <3>1, NotSecured, Zenon
      <3>2. CASE fid = Asked.frameID /\ fid \in Queries \cup Writes
        <4>1. Wire(ncpExt, fid) \in Queries \cup Writes =>
                Wire(ncpExt, fid) = fid
          BY ONLY <1>2, <3>2, FrameIDs
        <4> QED BY ONLY <1>4, <3>2, <4>1, NotSecured, Zenon
      <3> QED BY ONLY <2>1, <3>1, <3>2, Zenon DEF Fits
    <2>3. decode(ncpExt, encode(ncpExt, 0, fid, p)).v.frameID =
            Wire(ncpExt, fid)
      BY ONLY <1>2, fid \in Word, p \in Seq(Byte), Written, Zenon
    <2>4. ~SecuredFrame(encode(ncpExt, 0, fid, p))
      BY ONLY <2>2, <2>3, Zenon DEF SecuredFrame
    <2> QED BY ONLY <2>1, <2>4, Zenon
  <1>5. \/ NcpRefuse
        \/ Asked.frameID # frameIDSetInitialSecurityState
    <2> USE DEF Takes
    <2>1. CASE NcpNetworkInit \/ NcpForm \/ NcpPermit \/ NcpSetConfig
      BY ONLY <2>1, NotSecured, Zenon
         DEF NcpNetworkInit, NcpForm, NcpPermit, NcpSetConfig
    <2>2. CASE NcpQuery \/ NcpShort \/ NcpUnknown
      BY ONLY <2>2, NotSecured, Zenon DEF NcpQuery, NcpShort, NcpUnknown
    <2> QED BY ONLY NcpCommand, ~NcpSecure, <2>1, <2>2, Zenon DEF NcpCommand
  <1> QED BY ONLY <1>3, <1>4, <1>5, Zenon

LEMMA SecNcp == TypeInv /\ SecInv /\ NcpCommand => SecInv'
  <1> SUFFICES ASSUME TypeInv, SecInv, NcpCommand PROVE SecInv'
    OBVIOUS
  <1>1. outbox # <<>> /\ outbox' = Tail(outbox) /\ NcpFrame
    BY ONLY TypeInv, NcpCommand, NcpMoves
  <1>2. UNCHANGED <<session, pc, linked, ncpExt>>
    BY ONLY <1>1, Zenon DEF NcpFrame, progVars
  <1>3. CASE NcpSecure
    <2>1. sec' = session /\ stored' = stored
      BY ONLY TypeInv, <1>1, <1>3, AskedFields, Zenon DEF NcpSecure, Takes
    <2>2. FormedSecured'
      BY ONLY SecInv, <2>1, Zenon DEF SecInv, FormedSecured
    <2> QED BY ONLY <1>2, <2>1, <2>2, Zenon DEF SecInv
  <1>4. CASE ~NcpSecure
    <2>1. sec' = sec
      BY ONLY NcpCommand, <1>4, Zenon
         DEF NcpCommand, NcpNetworkInit, NcpForm, NcpPermit, NcpSetConfig,
             NcpQuery, NcpShort, NcpRefuse, NcpUnknown
    <2>2. PICK fid \in Word, p \in Seq(Byte) :
            Reply(fid, p) /\ ~SecuredFrame(encode(ncpExt, 0, fid, p))
      BY ONLY TypeInv, NcpCommand, <1>4, UnsecuredReply
    <2>3. /\ \A k \in DOMAIN outbox' :
               \E m \in DOMAIN outbox : outbox'[k] = outbox[m]
          /\ \A k \in DOMAIN inbox' :
               \/ \E m \in DOMAIN inbox : inbox'[k] = inbox[m]
               \/ ~SecuredFrame(inbox'[k])
      <3>1. /\ \A k \in DOMAIN outbox' :
                 \E m \in DOMAIN outbox : outbox'[k] = outbox[m]
            /\ \A k \in DOMAIN inbox' :
                 \/ \E m \in DOMAIN inbox : inbox'[k] = inbox[m]
                 \/ inbox'[k] = encode(ncpExt, 0, fid, p)
        BY ONLY TypeInv, <1>1, <2>2, fid \in Word, p \in Seq(Byte), Replied
      <3> QED BY ONLY <2>2, <3>1, Zenon
    <2>4. /\ \A k \in DOMAIN outbox' : FormFrame(outbox'[k]) => sec = session
          /\ \A k \in DOMAIN inbox' : SecuredFrame(inbox'[k]) => sec = session
      BY ONLY SecInv, <2>3, Zenon DEF SecInv
    <2>5. (\A k \in DOMAIN outbox : FormFrame(outbox[k]) => sec = session)'
      BY ONLY <1>2, <2>1, <2>4, Zenon DEF FormFrame
    <2>6. (\A k \in DOMAIN inbox : SecuredFrame(inbox[k]) => sec = session)'
      BY ONLY <1>2, <2>1, <2>4, Zenon DEF SecuredFrame
    <2>7. FormedSecured'
      <3>1. CASE stored' = stored
        BY ONLY SecInv, <3>1, Zenon DEF SecInv, FormedSecured
      <3>2. CASE stored' # stored
        <4>1. NcpForm
          BY ONLY NcpCommand, <1>4, <3>2, Zenon
             DEF NcpCommand, NcpNetworkInit, NcpPermit, NcpSetConfig,
                 NcpQuery, NcpShort, NcpRefuse, NcpUnknown
        <4>2. sec = session
          <5>1. Asked.frameID = frameIDFormNetwork
            BY ONLY <4>1, Zenon DEF NcpForm, Takes
          <5>2. 1 \in DOMAIN outbox /\ Head(outbox) = outbox[1]
            <6>1. outbox \in Seq(Seq(Byte))
              BY ONLY TypeInv, Zenon DEF TypeInv, LineInv
            <6>2. /\ Head(outbox) = outbox[1] /\ Len(outbox) \in Nat \ {0}
                  /\ DOMAIN outbox = 1 .. Len(outbox)
              BY ONLY <1>1, <6>1, QueueTail
            <6> QED BY ONLY <6>2
          <5>3. FormFrame(outbox[1])
            BY ONLY <5>1, <5>2, Zenon DEF FormFrame, Asked
          <5> QED BY ONLY SecInv, <5>2, <5>3, Zenon DEF SecInv
        <4>3. PICK x, n, t, c :
                stored' = [extendedPanID |-> x, panID |-> n,
                           radioTxPower |-> t, radioChannel |-> c,
                           key |-> sec, formed |-> session]
          BY ONLY TypeInv, <3>2, <4>1, FormedNetwork, Zenon
        <4>4. stored'.key = sec /\ stored'.formed = session
          BY ONLY <4>3
        <4> QED BY ONLY <4>2, <4>4, Zenon DEF FormedSecured
      <3> QED BY ONLY <3>1, <3>2, Zenon
    <2> QED BY ONLY SecInv, <1>2, <2>1, <2>5, <2>6, <2>7, Zenon DEF SecInv
  <1> QED BY ONLY <1>3, <1>4, Zenon

LEMMA FirstPlaces ==
  ASSUME TypeInv, Negotiate
  PROVE  pc' \in {"nodeId", "tryInit", "guard", "restore", "count", "value",
                  "set", "idle"}
  <1>1. pc = "negotiate" /\ (pc' = "idle" \/ (cmd # "version" /\ pc' = First[cmd]))
    BY ONLY Negotiate DEF Negotiate, Exit, Fail, GoTo
  <1>2. /\ cmd \in {"version", "info", "state", "init", "permit",
                    "endpoints", "list", "get", "set"}
    <2>1. cmd \in Commands \cup {"none"} /\ cmd # "none" /\ cmd # "reset"
      BY ONLY TypeInv, <1>1 DEF TypeInv, CmdInv
    <2> QED BY ONLY <2>1, CliAssumption
  <1> QED BY ONLY <1>1, <1>2 DEF First

LEMMA SecStep == TypeInv /\ SecInv /\ [Next]_vars => SecInv'
  <1> SUFFICES ASSUME TypeInv, SecInv, [Next]_vars PROVE SecInv'
    OBVIOUS
  <1>1. ASSUME NEW c \in Commands, Start(c) PROVE SecInv'
    <2>1. outbox' = <<>> /\ inbox' = <<>> /\ stored' = stored /\ pc' = "reset"
      BY ONLY <1>1, Zenon DEF Start, ncpVars
    <2>2. pc' # "form"
      BY ONLY <2>1
    <2> QED BY ONLY SecInv, <2>1, <2>2, SecEmpty
  <1>2. ASSUME Reset PROVE SecInv'
    <2>1. /\ outbox' = <<>> /\ inbox' = <<>> /\ stored' = stored
          /\ pc' \in {"idle", "negotiate"}
      BY ONLY <1>2 DEF Reset, Boot, Exit, GoTo
    <2>2. pc' # "form"
      BY ONLY <2>1
    <2> QED BY ONLY SecInv, <2>1, <2>2, SecEmpty
  <1>3. ASSUME Negotiate PROVE SecInv'
    <2>1. outbox' = <<>> /\ inbox' = <<>> /\ stored' = stored
      BY ONLY TypeInv, <1>3, Zenon DEF TypeInv, LineInv, Negotiate, lineVars
    <2>2. pc' # "form"
      BY ONLY TypeInv, <1>3, FirstPlaces
    <2> QED BY ONLY SecInv, <2>1, <2>2, SecEmpty
  <1>4. ASSUME NoConnection \/ Kill PROVE SecInv'
    <2>1. /\ UNCHANGED <<sec, session, ncpExt, stored, outbox, inbox>>
          /\ pc' = "idle"
      BY ONLY <1>4, Zenon DEF NoConnection, Kill, Fail, ncpVars, lineVars
    <2>2. pc' # "form"
      BY ONLY <2>1
    <2> QED BY ONLY SecInv, <2>1, <2>2, SecSame, Zenon
  <1>5. ASSUME NcpRestart PROVE SecInv'
    <2>1. /\ outbox' = <<>> /\ inbox' = <<>> /\ stored' = stored
          /\ linked' = FALSE
      BY ONLY <1>5, Zenon DEF NcpRestart, Boot
    <2> QED BY ONLY SecInv, <2>1, SecEmpty
  <1>6. ASSUME UNCHANGED vars PROVE SecInv'
    <2>1. UNCHANGED <<sec, session, ncpExt, stored, outbox, inbox, linked, pc>>
      BY ONLY <1>6, Zenon DEF vars, progVars, ncpVars, lineVars
    <2>2. linked' /\ pc' = "form" => sec = session
      BY ONLY SecInv, <2>1, Zenon DEF SecInv
    <2> QED BY ONLY SecInv, <2>1, <2>2, SecSame, Zenon
  <1> QED BY ONLY TypeInv, SecInv, [Next]_vars, Steps, SecAsk, SecCall, SecNcp,
                  <1>1, <1>2, <1>3, <1>4, <1>5, <1>6, Zenon DEF Call

(* Whatever fails, is refused, restarted or killed in between, a network   *)
(* is formed with the key that was made for it, in the same session.       *)
THEOREM FormedSecuredTheorem == Spec => []FormedSecured
  <1>1. Init => SecInv
    <2> SUFFICES ASSUME Init PROVE SecInv
      OBVIOUS
    <2>1. DOMAIN outbox = {} /\ DOMAIN inbox = {}
      BY ONLY Init, QueueEmpty DEF Init
    <2>2. FormedSecured /\ ~linked
      BY ONLY Init, Zenon DEF Init, FormedSecured
    <2> QED BY ONLY <2>1, <2>2, Zenon DEF SecInv
  <1>2. Spec => []SecInv
    BY <1>1, SecStep, TypeAlways, PTL DEF Spec
  <1>3. SecInv => FormedSecured
    BY ONLY TRUE, Zenon DEF SecInv
  <1> QED BY <1>2, <1>3, PTL

------------------------------------------------------------------------------
(* What is stored stays.                                                   *)

OneRequest ==
  /\ Len(outbox) = 1 /\ inbox = <<>>
  /\ Asked.frameID = Wire(ncpExt, Request(0)[1])

OneAnswer ==
  /\ outbox = <<>> /\ Len(inbox) = 1
  /\ pc # "count" => 1 \in Matching

Answered == decode(extended, inbox[1]).v.params

(* One frame is on its way at a time: the request of the place where the   *)
(* command is, or its answer.  That of "count" has none in the legacy      *)
(* format, so that no command comes to the places behind it.               *)
OneAtATime ==
  /\ linked /\ pc # "reset"
  /\ pc \in Listings => extended
  /\ pc \notin Places => outbox = <<>>
  /\ pc \in Places => IF waiting THEN OneRequest \/ OneAnswer
                      ELSE outbox = <<>> /\ inbox = <<>>

(* A network is set up only where the NCP has said that none is up and     *)
(* none can be resumed; its state has not changed since it said so.        *)
NothingStored ==
  /\ pc = "guard" /\ inbox # <<>> =>
       Answered = <<IF up THEN joinedNetwork ELSE 0>>
  /\ pc = "init" /\ inbox = <<>> => ~up
  /\ pc = "init" /\ inbox # <<>> => Status(Answered).ok \/ stored = NoNetwork
  /\ pc = "secure" => stored = NoNetwork
  /\ pc = "form" /\ inbox = <<>> => stored = NoNetwork

KeepInv ==
  /\ waiting => pc \in Places
  /\ clean => OneAtATime /\ NothingStored

LEMMA LegacyByte ==
  ASSUME NEW e \in BOOLEAN, ~e, NEW f \in Seq(Byte),
         decode(e, f).ok
  PROVE  decode(e, f).v.frameID \in Byte
  <1>1. Len(f) \in Nat /\ \A i \in 1 .. Len(f) : f[i] \in Byte
    BY ONLY f \in Seq(Byte), QueueType
  <1>2. decode(e, f) =
          IF Len(f) < 3 THEN [ok |-> FALSE, v |-> 0]
          ELSE [ok |-> TRUE, v |-> [seq |-> f[1], frameID |-> f[3],
                                    params |-> From(f, 4)]]
    BY ONLY ~e, Zenon DEF decode, decodeLegacy, Err, Ok
  <1>3. ~ (Len(f) < 3)
    BY ONLY <1>2, decode(e, f).ok
  <1>4. decode(e, f).v.frameID = f[3]
    BY ONLY <1>2, <1>3
  <1> QED BY ONLY <1>1, <1>3, <1>4

(* Where a command that went well has an answer, it is what Command takes. *)
LEMMA CleanReturn ==
  ASSUME TypeInv, KeepInv, pc \in Places, NEW a \in Answers, Return(a), clean'
  PROVE  /\ clean /\ waiting' = FALSE /\ outbox' = <<>>
         /\ OneAtATime /\ NothingStored /\ inbox # <<>>
         /\ pc # "count" => a.got
         /\ a.got => /\ inbox' = <<>> /\ a.params = Answered
                     /\ pc = "count" => extended
  <1>1. /\ clean /\ (a.got \/ Unanswered)
        /\ waiting /\ waiting' = FALSE /\ inbox' = a.rest /\ outbox' = outbox
    BY ONLY Return(a), clean', Zenon DEF Return
  <1>2. OneAtATime /\ NothingStored
    BY ONLY KeepInv, <1>1, Zenon DEF KeepInv
  <1>3. OneRequest \/ OneAnswer
    BY ONLY <1>1, <1>2, pc \in Places, Zenon DEF OneAtATime
  <1>4. linked /\ ncpExt = extended
    BY ONLY TypeInv, <1>2, pc \in Places, Zenon
       DEF OneAtATime, TypeInv, LineInv
  <1>5. inbox \in Seq(Seq(Byte)) /\ outbox \in Seq(Seq(Byte))
        /\ extended \in BOOLEAN
    BY ONLY TypeInv, Zenon DEF TypeInv, LineInv, CmdInv
  <1>6. ASSUME a.got
        PROVE  \E k \in DOMAIN inbox :
                 /\ decode(ncpExt, inbox[k]).ok
                 /\ decode(ncpExt, inbox[k]).v.frameID = Request(0)[1]
                 /\ a.params = decode(ncpExt, inbox[k]).v.params
                 /\ a.rest = From(inbox, k + 1)
    BY ONLY TypeInv, <1>4, <1>6, pc \in Places, a \in Answers, AnswerGot
  <1>7. OneAnswer
    <2>1. ASSUME OneRequest PROVE FALSE
      <3>1. DOMAIN inbox = {}
        BY ONLY <2>1, QueueEmpty DEF OneRequest
      <3>2. outbox # <<>>
        BY ONLY <2>1, QueueEmpty DEF OneRequest
      <3> QED BY ONLY <1>1, <1>6, <3>1, <3>2, Zenon DEF Unanswered
    <2> QED BY ONLY <1>3, <2>1, Zenon
  <1>8. /\ outbox = <<>> /\ Len(inbox) = 1 /\ DOMAIN inbox = {1}
        /\ inbox # <<>>
    <2>1. outbox = <<>> /\ Len(inbox) = 1
      BY ONLY <1>7 DEF OneAnswer
    <2>2. DOMAIN inbox = 1 .. Len(inbox) /\ (inbox = <<>> <=> Len(inbox) = 0)
      BY ONLY <1>5, QueueType
    <2> QED BY ONLY <2>1, <2>2
  <1>9. pc # "count" => a.got
    BY ONLY <1>1, <1>7, Zenon DEF OneAnswer, Unanswered
  <1>10. ASSUME a.got
         PROVE  /\ inbox' = <<>> /\ a.params = Answered
                /\ pc = "count" => extended
    <2>1. /\ decode(extended, inbox[1]).ok
          /\ decode(extended, inbox[1]).v.frameID = Request(0)[1]
          /\ a.params = Answered /\ a.rest = From(inbox, 1 + 1)
      BY ONLY <1>4, <1>6, <1>8, <1>10, Zenon DEF Answered
    <2>2. From(inbox, 1 + 1) = <<>>
      <3>1. 1 \in 0 .. Len(inbox)
        BY ONLY <1>8
      <3>2. /\ From(inbox, 1 + 1) \in Seq(Seq(Byte))
            /\ Len(From(inbox, 1 + 1)) = Len(inbox) - 1
        BY ONLY <1>5, <3>1, FromRest
      <3>3. PICK q \in Seq(Seq(Byte)) : q = From(inbox, 1 + 1)
        BY ONLY <3>2, Zenon
      <3>4. Len(q) = 0
        BY ONLY <1>8, <3>2, <3>3
      <3> QED BY ONLY <3>3, <3>4, QueueType
    <2>3. ASSUME pc = "count", ~extended PROVE FALSE
      <3>1. inbox[1] \in Seq(Byte)
        BY ONLY <1>5, <1>8, QueueType
      <3>2. Request(0)[1] \in Byte
        BY ONLY <1>5, <2>1, <2>3, <3>1, LegacyByte, Zenon
      <3> QED BY ONLY <2>3, <3>2, pc \in Places, PlaceIDs, Zenon
    <2> QED BY ONLY <1>1, <2>1, <2>2, <2>3, Zenon
  <1> QED BY ONLY <1>1, <1>2, <1>8, <1>9, <1>10, Zenon

(* A request that the NCP gets while nothing has gone wrong.               *)
LEMMA CleanRequest ==
  ASSUME TypeInv, KeepInv, clean, outbox # <<>>
  PROVE  /\ OneAtATime /\ NothingStored /\ OneRequest
         /\ pc \in Places /\ waiting /\ linked /\ ncpExt = extended
         /\ pc # "count" => Asked.frameID = Request(0)[1]
         /\ Asked.frameID \in Queries \cup Writes =>
              Asked.frameID = Request(0)[1]
  <1>1. OneAtATime /\ NothingStored
    BY ONLY KeepInv, clean, Zenon DEF KeepInv
  <1>2. pc \in Places /\ waiting /\ linked
    BY ONLY <1>1, outbox # <<>>, Zenon DEF OneAtATime
  <1>3. OneRequest
    BY ONLY <1>1, <1>2, outbox # <<>>, Zenon DEF OneAtATime, OneAnswer
  <1>4. ncpExt = extended /\ ncpExt \in BOOLEAN
    BY ONLY TypeInv, <1>2, Zenon DEF TypeInv, LineInv, NcpInv
  <1>5. PICK id : id = Request(0)[1]
    BY ONLY TRUE, Zenon
  <1>6. /\ id \in Queries \cup Writes /\ Asked.frameID = Wire(ncpExt, id)
        /\ id \in Byte <=> pc \notin Listings \cup {"count"}
    BY ONLY <1>2, <1>3, <1>5, PlaceIDs, Zenon DEF OneRequest
  <1>7. Wire(ncpExt, id) \in Queries \cup Writes => Wire(ncpExt, id) = id
    BY ONLY <1>4, <1>6, FrameIDs
  <1>8. ASSUME pc # "count" PROVE Wire(ncpExt, id) = id
    <2>1. CASE extended
      BY ONLY <1>4, <2>1, Zenon DEF Wire
    <2>2. CASE ~extended
      <3>1. pc \notin Listings \cup {"count"}
        BY ONLY <1>1, <1>8, <2>2, Zenon DEF OneAtATime
      <3>2. Low(id) = id
        BY ONLY <1>6, <3>1, ByteKept
      <3> QED BY ONLY <1>4, <2>2, <3>2, Zenon DEF Wire
    <2> QED BY ONLY <2>1, <2>2
  <1> QED BY ONLY <1>1, <1>2, <1>3, <1>4, <1>5, <1>6, <1>7, <1>8, Zenon

LEMMA RequestSame ==
  ASSUME UNCHANGED <<pc, cmd, arg, item, session, flags>>
  PROVE  Request(0)' = Request(0)
  BY ONLY UNCHANGED <<pc, cmd, arg, item, session, flags>>
     DEF Request, ConfigID, Parameters

(* The request that is written is the only frame on the line.              *)
LEMMA KeepAsk == TypeInv /\ KeepInv /\ Ask => KeepInv'
  <1> SUFFICES ASSUME TypeInv, KeepInv, Ask PROVE KeepInv'
    OBVIOUS
  <1>1. /\ pc \in Places /\ ~waiting /\ waiting' = TRUE
        /\ UNCHANGED <<progVars, pc, extended, inbox, ncpVars, before>>
        /\ \/ /\ linked /\ clean' = clean
              /\ \E random \in IF pc = "form" THEN PanIDs ELSE {0},
                    fid \in Queries \cup Writes, p \in Seq(Byte) :
                   /\ Request(random) = <<fid, p>> /\ Legit(fid, p)
                   /\ outbox' = Append(outbox, encode(ncpExt, 0, fid, p))
           \/ clean' = FALSE /\ outbox' = outbox
    BY ONLY TypeInv, Ask, AskMoves
  <1>2. UNCHANGED <<cmd, flags, arg, item, session, pc, extended, inbox,
                    ncpExt, linked, up, stored>>
    BY ONLY <1>1, Zenon DEF progVars, ncpVars
  <1>3. ASSUME clean' PROVE OneAtATime' /\ NothingStored'
    <2>1. PICK random \in IF pc = "form" THEN PanIDs ELSE {0},
               fid \in Queries \cup Writes, p \in Seq(Byte) :
            /\ Request(random) = <<fid, p>> /\ Legit(fid, p)
            /\ outbox' = Append(outbox, encode(ncpExt, 0, fid, p))
      BY ONLY <1>1, <1>3, Zenon
    <2>2. OneAtATime /\ NothingStored /\ outbox = <<>> /\ inbox = <<>>
      BY ONLY KeepInv, <1>1, <1>3, Zenon DEF KeepInv, OneAtATime
    <2>3. ncpExt \in BOOLEAN /\ fid \in Word /\ outbox' \in Seq(Seq(Byte))
      <3>1. TypeInv'
        BY ONLY TypeInv, Ask, AskType
      <3>2. ncpExt \in BOOLEAN /\ fid \in Word
        BY ONLY TypeInv, fid \in Queries \cup Writes, FrameIDs, Zenon
           DEF TypeInv, NcpInv
      <3> QED BY ONLY <3>1, <3>2, Zenon DEF TypeInv, LineInv
    <2>4. PICK f : f = encode(ncpExt, 0, fid, p)
      BY ONLY TRUE, Zenon
    <2>5. decode(ncpExt, f).v.frameID = Wire(ncpExt, fid)
      BY ONLY <2>3, <2>4, p \in Seq(Byte), Written, Zenon
    <2>6. Len(outbox') = 1 /\ Head(outbox') = f
      <3>1. /\ Len(outbox') = Len(outbox) + 1
            /\ outbox'[Len(outbox) + 1] = encode(ncpExt, 0, fid, p)
        BY ONLY TypeInv, <2>1, <2>3, p \in Seq(Byte), Requested
      <3>2. Len(outbox) = 0
        BY ONLY <2>2, QueueEmpty
      <3>3. Len(outbox') = 1 /\ outbox'[1] = f
        BY ONLY <2>4, <3>1, <3>2
      <3>4. PICK q \in Seq(Seq(Byte)) : q = outbox'
        BY ONLY <2>3, Zenon
      <3>5. q # <<>>
        <4>1. Len(q) = 1
          BY ONLY <3>3, <3>4, Zenon
        <4>2. q = <<>> <=> Len(q) = 0
          BY ONLY q \in Seq(Seq(Byte)), QueueType
        <4> QED BY ONLY <4>1, <4>2
      <3>6. Head(q) = q[1]
        BY ONLY <3>5, QueueTail
      <3> QED BY ONLY <3>3, <3>4, <3>6, Zenon
    <2>7. Request(0)' = Request(0) /\ Request(0)[1] = fid
      <3>1. Request(0)' = Request(0)
        BY ONLY <1>2, RequestSame
      <3>2. Request(random)[1] = fid
        BY ONLY <2>1
      <3> QED BY ONLY <1>1, <3>1, <3>2, PlaceIDs, Zenon
    <2>8. OneRequest'
      <3>1. Asked' = decode(ncpExt, f).v
        BY ONLY <1>2, <2>6, Zenon DEF Asked
      <3>2. Wire(ncpExt, Request(0)[1])' = Wire(ncpExt, fid)
        BY ONLY <1>2, <2>7, Zenon DEF Wire
      <3>3. Asked.frameID' = Wire(ncpExt, Request(0)[1])'
        BY ONLY <2>5, <3>1, <3>2, Zenon
      <3> QED BY ONLY <1>2, <2>2, <2>6, <3>3, Zenon DEF OneRequest
    <2>9. OneAtATime'
      <3>1. /\ linked /\ pc # "reset" /\ (pc \in Listings => extended)
            /\ pc \in Places /\ waiting' = TRUE
        BY ONLY <1>1, <2>2, Zenon DEF OneAtATime
      <3>2. linked' = linked /\ pc' = pc /\ extended' = extended
        BY ONLY <1>2, Zenon
      <3> QED BY ONLY <2>8, <3>1, <3>2, Zenon DEF OneAtATime
    <2>10. NothingStored'
      BY ONLY <1>2, <2>2, Zenon DEF NothingStored
    <2> QED BY ONLY <2>9, <2>10
  <1> QED BY ONLY <1>1, <1>2, <1>3, Zenon DEF KeepInv

(* A command goes on only after an answer, and nothing is on the line then.*)
LEMMA KeepCall == TypeInv /\ KeepInv /\ Call => KeepInv'
  <1> SUFFICES ASSUME TypeInv, KeepInv, Call PROVE KeepInv'
    OBVIOUS
  <1>1. PICK a \in Answers : pc \in Places /\ Return(a) /\ Goes(a)
    BY ONLY Call, CallMoves, Zenon
  <1>2. UNCHANGED <<extended, linked, up, stored>> /\ waiting' = FALSE
    BY ONLY <1>1, Zenon DEF Return, ncpVars
  <1>3. ASSUME clean' PROVE OneAtATime' /\ NothingStored'
    <2>1. /\ outbox' = <<>> /\ OneAtATime /\ NothingStored
          /\ inbox # <<>>
          /\ pc # "count" => a.got
          /\ a.got => /\ inbox' = <<>> /\ a.params = Answered
                      /\ pc = "count" => extended
      BY ONLY TypeInv, KeepInv, <1>1, <1>3, a \in Answers, CleanReturn
    <2>2. pc' \in Places => a.got /\ inbox' = <<>>
      <3>1. pc' = "idle" => pc' \notin Places
        BY ONLY TRUE DEF Places
      <3> QED BY ONLY <1>1, <2>1, <3>1, Zenon DEF Goes
    <2>3. linked' /\ pc' # "reset"
      <3>1. linked
        BY ONLY <2>1, Zenon DEF OneAtATime
      <3>2. pc' \in Places \cup {"idle"}
        BY ONLY <1>1, Zenon DEF Goes
      <3> QED BY ONLY <1>2, <3>1, <3>2 DEF Places
    <2>4. pc' \in Listings => extended'
      <3>1. ASSUME pc' \in Listings PROVE extended
        <4>1. pc' \in Places
          BY ONLY <3>1 DEF Listings, Places
        <4>2. pc \in Listings \/ pc = "count"
          BY ONLY <1>1, <3>1, Zenon DEF Goes
        <4> QED BY ONLY <2>1, <2>2, <4>1, <4>2, Zenon DEF OneAtATime
      <3> QED BY ONLY <1>2, <3>1, Zenon
    <2>5. OneAtATime'
      BY ONLY <1>2, <2>1, <2>2, <2>3, <2>4, Zenon DEF OneAtATime
    <2>6. pc' # "guard"
      BY ONLY <1>1, Zenon DEF Goes
    <2>7. pc' = "init" => inbox' = <<>> /\ ~up'
      <3> SUFFICES ASSUME pc' = "init" PROVE inbox' = <<>> /\ ~up'
        OBVIOUS
      <3>1. /\ pc = "guard" /\ Parsed(NetworkState, a).ok
            /\ Parsed(NetworkState, a).v # joinedNetwork
        BY ONLY <1>1, pc' = "init", Zenon DEF Goes
      <3>2. a.got /\ a.params = Answered /\ inbox' = <<>>
        BY ONLY <2>1, <3>1
      <3>3. a.params = <<IF up THEN joinedNetwork ELSE 0>>
        BY ONLY <2>1, <3>1, <3>2, Zenon DEF NothingStored
      <3>4. ASSUME up PROVE FALSE
        <4>1. a.params = <<joinedNetwork>>
          BY ONLY <3>3, <3>4, Zenon
        <4>2. Parsed(NetworkState, a) =
                IF Len(a.params) < 1 THEN [ok |-> FALSE, v |-> 0]
                ELSE [ok |-> TRUE, v |-> a.params[1]]
          BY ONLY <3>2, Zenon DEF Parsed, NetworkState, Err, Ok
        <4>3. Len(<<joinedNetwork>>) = 1 /\ <<joinedNetwork>>[1] = joinedNetwork
          BY ONLY TRUE
        <4>4. Parsed(NetworkState, a).v = joinedNetwork
          BY ONLY <4>1, <4>2, <4>3
        <4> QED BY ONLY <3>1, <4>4
      <3> QED BY ONLY <1>2, <3>2, <3>4, Zenon
    <2>8. pc' = "secure" => stored' = NoNetwork
      <3> SUFFICES ASSUME pc' = "secure" PROVE stored' = NoNetwork
        OBVIOUS
      <3>1. pc = "init" /\ ~Parsed(Status, a).ok
        BY ONLY <1>1, pc' = "secure", Zenon DEF Goes
      <3>2. a.got /\ a.params = Answered
        BY ONLY <2>1, <3>1
      <3>3. ~Status(Answered).ok
        BY ONLY <3>1, <3>2, Zenon DEF Parsed
      <3> QED BY ONLY <1>2, <2>1, <3>1, <3>3, Zenon DEF NothingStored
    <2>9. pc' = "form" => stored' = NoNetwork
      BY ONLY <1>1, <1>2, <2>1, Zenon DEF Goes, NothingStored
    <2>10. NothingStored'
      BY ONLY <2>6, <2>7, <2>8, <2>9, Zenon DEF NothingStored
    <2> QED BY ONLY <2>5, <2>10
  <1> QED BY ONLY <1>1, <1>2, <1>3, Zenon DEF KeepInv

LEMMA Distinct ==
  /\ frameIDNetworkState \in Queries \ Writes
  /\ frameIDNetworkInit \in Writes \ Queries
  /\ frameIDNetworkInit \notin
       {frameIDSetInitialSecurityState, frameIDFormNetwork,
        frameIDPermitJoining, frameIDSetConfigurationValue}
  /\ frameIDFormNetwork \in Writes
  BY ONLY TRUE
     DEF Queries, Writes,
         frameIDNetworkInit, frameIDNetworkState, frameIDFormNetwork,
         frameIDPermitJoining, frameIDGetEUI64, frameIDGetNodeID,
         frameIDGetNetworkParameters, frameIDGetConfigurationValue,
         frameIDSetConfigurationValue, frameIDSetInitialSecurityState,
         frameIDGetEndpoint, frameIDGetEndpointCount,
         frameIDGetEndpointDescription, frameIDGetEndpointCluster

(* Which request leads to which step of the NCP.                           *)
LEMMA NcpSteps ==
  ASSUME NcpCommand
  PROVE  /\ Asked.frameID = frameIDNetworkState /\ clean' => NcpQuery
         /\ Asked.frameID = frameIDNetworkInit /\ clean' => NcpNetworkInit
         /\ stored' # stored => NcpForm
         /\ sec' # sec => NcpSecure
  <1> USE DEF Takes
  <1>1. CASE NcpQuery \/ NcpShort \/ NcpUnknown
    BY ONLY <1>1, Distinct, Zenon DEF NcpQuery, NcpShort, NcpUnknown
  <1>2. CASE NcpRefuse
    BY ONLY <1>2, Zenon DEF NcpRefuse
  <1>3. CASE NcpNetworkInit
    BY ONLY <1>3, Distinct, Zenon DEF NcpNetworkInit
  <1>4. CASE NcpSecure
    BY ONLY <1>4, Distinct, Zenon DEF NcpSecure, Writes
  <1>5. CASE NcpForm
    BY ONLY <1>5, Distinct, Zenon DEF NcpForm, Writes
  <1>6. CASE NcpPermit
    BY ONLY <1>6, Distinct, Zenon DEF NcpPermit, Writes
  <1>7. CASE NcpSetConfig
    BY ONLY <1>7, Distinct, Zenon DEF NcpSetConfig, Writes
  <1> QED BY ONLY NcpCommand, <1>1, <1>2, <1>3, <1>4, <1>5, <1>6, <1>7, Zenon
          DEF NcpCommand

(* The answer is the only frame on the line.                               *)
LEMMA CleanReply ==
  ASSUME TypeInv, outbox # <<>>, outbox' = Tail(outbox), OneRequest,
         ncpExt = extended, extended' = extended,
         NEW fid \in Word, NEW p \in Seq(Byte), Reply(fid, p)
  PROVE  /\ outbox' = <<>> /\ Len(inbox') = 1 /\ inbox' # <<>>
         /\ DOMAIN inbox' = {1}
         /\ decode(extended, inbox'[1]).ok
         /\ decode(extended, inbox'[1]).v.frameID = Wire(ncpExt, fid)
         /\ Answered' = p
  <1>1. /\ outbox \in Seq(Seq(Byte)) /\ inbox \in Seq(Seq(Byte))
        /\ ncpExt \in BOOLEAN
    BY ONLY TypeInv, Zenon DEF TypeInv, LineInv, NcpInv
  <1>2. PICK f \in Seq(Byte) : f = encode(ncpExt, 0, fid, p)
    BY ONLY <1>1, fid \in Word, p \in Seq(Byte), FrameRoundTrip
  <1>3. inbox' = Append(inbox, f)
    BY ONLY <1>2, Reply(fid, p), Zenon DEF Reply
  <1>4. /\ inbox' \in Seq(Seq(Byte)) /\ Len(inbox') = 1 /\ inbox'[1] = f
        /\ DOMAIN inbox' = 1 .. 1
    <2>1. Len(inbox) = 0
      BY ONLY <1>1, OneRequest, QueueType DEF OneRequest
    <2>2. /\ inbox' \in Seq(Seq(Byte)) /\ Len(inbox') = Len(inbox) + 1
          /\ DOMAIN inbox' = 1 .. Len(inbox) + 1
          /\ inbox'[Len(inbox) + 1] = f
      BY ONLY <1>1, <1>3, f \in Seq(Byte), QueueAppend
    <2> QED BY ONLY <2>1, <2>2
  <1>5. outbox' = <<>>
    <2>1. Len(outbox) = 1
      BY ONLY OneRequest, Zenon DEF OneRequest
    <2>2. Tail(outbox) \in Seq(Seq(Byte)) /\ Len(Tail(outbox)) = Len(outbox) - 1
      BY ONLY <1>1, outbox # <<>>, QueueTail
    <2>3. PICK q \in Seq(Seq(Byte)) : q = Tail(outbox)
      BY ONLY <2>2, Zenon
    <2>4. Len(q) = 0
      BY ONLY <2>1, <2>2, <2>3
    <2>5. q = <<>>
      BY ONLY <2>4, q \in Seq(Seq(Byte)), QueueType
    <2> QED BY ONLY <2>3, <2>5, outbox' = Tail(outbox), Zenon
  <1>6. inbox' # <<>> /\ DOMAIN inbox' = {1}
    <2>1. PICK q \in Seq(Seq(Byte)) : q = inbox'
      BY ONLY <1>4, Zenon
    <2>2. Len(q) = 1
      BY ONLY <1>4, <2>1, Zenon
    <2>3. q = <<>> <=> Len(q) = 0
      BY ONLY q \in Seq(Seq(Byte)), QueueType
    <2>4. q # <<>>
      BY ONLY <2>2, <2>3
    <2> QED BY ONLY <1>4, <2>1, <2>4
  <1>7. /\ decode(ncpExt, f).ok
        /\ decode(ncpExt, f).v.frameID = Wire(ncpExt, fid)
        /\ decode(ncpExt, f).v.params = p
    BY ONLY <1>1, <1>2, fid \in Word, p \in Seq(Byte), Written, Zenon
  <1>8. Answered' = p
    BY ONLY <1>4, <1>7, ncpExt = extended, extended' = extended, Zenon
       DEF Answered
  <1> QED BY ONLY <1>4, <1>5, <1>6, <1>7, <1>8, ncpExt = extended, Zenon

(* What the NCP says of its state.                                         *)
LEMMA StateAnswer ==
  ASSUME NEW p
  PROVE  Answer(frameIDNetworkState, p) = <<IF up THEN joinedNetwork ELSE 0>>
  <1>1. PICK A : /\ A = frameIDNetworkState
                 /\ A \notin {frameIDGetNodeID, frameIDGetEUI64,
                              frameIDGetNetworkParameters,
                              frameIDGetConfigurationValue,
                              frameIDGetEndpointCount, frameIDGetEndpoint,
                              frameIDGetEndpointDescription,
                              frameIDGetEndpointCluster}
    BY ONLY TRUE, SMT
       DEF frameIDNetworkState, frameIDGetNodeID, frameIDGetEUI64,
           frameIDGetNetworkParameters, frameIDGetConfigurationValue,
           frameIDGetEndpointCount, frameIDGetEndpoint,
           frameIDGetEndpointDescription, frameIDGetEndpointCluster
  <1>2. Answer(A, p) = <<IF up THEN joinedNetwork ELSE 0>>
    BY ONLY <1>1, Zenon DEF Answer
  <1> QED BY ONLY <1>1, <1>2, Zenon

LEMMA KeepNcp == TypeInv /\ KeepInv /\ NcpCommand => KeepInv'
  <1> SUFFICES ASSUME TypeInv, KeepInv, NcpCommand PROVE KeepInv'
    OBVIOUS
  <1>1. /\ outbox # <<>> /\ outbox' = Tail(outbox) /\ NcpFrame
        /\ clean' \in {clean, FALSE}
        /\ \E fid \in Word, p \in Seq(Byte) : Reply(fid, p) /\ Fits(fid)
    BY ONLY TypeInv, NcpCommand, NcpMoves
  <1>2. UNCHANGED <<cmd, flags, arg, item, session, pc, waiting, extended,
                    ncpExt, linked>>
    BY ONLY <1>1, Zenon DEF NcpFrame, progVars
  <1>3. ASSUME clean' PROVE OneAtATime' /\ NothingStored'
    <2>1. clean
      BY ONLY <1>1, <1>3
    <2>2. /\ OneAtATime /\ NothingStored /\ OneRequest
          /\ pc \in Places /\ waiting /\ linked /\ ncpExt = extended
          /\ pc # "count" => Asked.frameID = Request(0)[1]
          /\ Asked.frameID \in Queries \cup Writes =>
               Asked.frameID = Request(0)[1]
      BY ONLY TypeInv, KeepInv, <1>1, <2>1, CleanRequest
    <2>3. PICK fid \in Word, p \in Seq(Byte) : Reply(fid, p) /\ Fits(fid)
      BY ONLY <1>1, Zenon
    <2>4. /\ outbox' = <<>> /\ Len(inbox') = 1 /\ inbox' # <<>>
          /\ DOMAIN inbox' = {1}
          /\ decode(extended, inbox'[1]).ok
          /\ decode(extended, inbox'[1]).v.frameID = Wire(ncpExt, fid)
      BY ONLY TypeInv, <1>1, <1>2, <2>2, <2>3, fid \in Word, p \in Seq(Byte),
              CleanReply
    <2>5. Request(0)' = Request(0)
      BY ONLY <1>2, RequestSame
    <2>6. pc # "count" => 1 \in Matching'
      <3> SUFFICES ASSUME pc # "count" PROVE 1 \in Matching'
        OBVIOUS
      <3>1. /\ Request(0)[1] \in Queries \cup Writes
            /\ Asked.frameID = Request(0)[1]
        BY ONLY <2>2, pc # "count", PlaceIDs, Zenon
      <3>2. fid = Request(0)[1]
        BY ONLY <2>3, <3>1, Zenon DEF Fits
      <3>3. Wire(ncpExt, fid) = fid
        BY ONLY <2>2, <3>1, <3>2, Zenon DEF OneRequest
      <3>4. Matching' = {k \in DOMAIN inbox' :
                           /\ decode(extended, inbox'[k]).ok
                           /\ decode(extended, inbox'[k]).v.frameID =
                                Request(0)[1]}
        BY ONLY <1>2, <2>5, Zenon DEF Matching
      <3> QED BY ONLY <2>4, <3>2, <3>3, <3>4, Zenon
    <2>7. OneAnswer'
      BY ONLY <1>2, <2>4, <2>6, Zenon DEF OneAnswer
    <2>8. OneAtATime'
      <3>1. /\ linked /\ pc # "reset" /\ (pc \in Listings => extended)
            /\ pc \in Places /\ waiting
        BY ONLY <2>2, Zenon DEF OneAtATime
      <3>2. /\ linked' = linked /\ pc' = pc /\ extended' = extended
            /\ waiting' = waiting
        BY ONLY <1>2, Zenon
      <3> QED BY ONLY <2>7, <3>1, <3>2, Zenon DEF OneAtATime
    <2>9. pc = "guard" => Answered' = <<IF up' THEN joinedNetwork ELSE 0>>
      <3> SUFFICES ASSUME pc = "guard"
                   PROVE  Answered' = <<IF up' THEN joinedNetwork ELSE 0>>
        OBVIOUS
      <3>1. Asked.frameID = frameIDNetworkState
        BY ONLY <2>2, pc = "guard", PlaceIDs, Zenon
      <3>2. NcpQuery
        BY ONLY NcpCommand, <1>3, <3>1, NcpSteps
      <3>3. PICK q : q = <<IF up THEN joinedNetwork ELSE 0>>
        BY ONLY TRUE, Zenon
      <3>4. q \in Seq(Byte)
        BY ONLY <3>3 DEF joinedNetwork, Byte
      <3>5. Reply(Asked.frameID, q) /\ up' = up
        <4>1. Answer(frameIDNetworkState, Asked.params) =
                <<IF up THEN joinedNetwork ELSE 0>>
          BY ONLY StateAnswer
        <4>2. Reply(Asked.frameID, Answer(Asked.frameID, Asked.params))
              /\ up' = up
          BY ONLY <3>2, Zenon DEF NcpQuery
        <4> QED BY ONLY <3>1, <3>3, <4>1, <4>2, Zenon
      <3>6. Asked.frameID \in Word
        BY ONLY TypeInv, <1>1, AskedLegit
      <3>7. Answered' = q
        BY ONLY TypeInv, <1>1, <1>2, <2>2, <3>4, <3>5, <3>6, CleanReply
      <3> QED BY ONLY <3>3, <3>5, <3>7, Zenon
    <2>10. pc = "init" => Status(Answered)'.ok \/ stored' = NoNetwork
      <3> SUFFICES ASSUME pc = "init", stored' # NoNetwork
                   PROVE  Status(Answered)'.ok
        OBVIOUS
      <3>1. Asked.frameID = frameIDNetworkInit
        BY ONLY <2>2, pc = "init", PlaceIDs, Zenon
      <3>2. NcpNetworkInit
        BY ONLY NcpCommand, <1>3, <3>1, NcpSteps
      <3>3. ~up
        BY ONLY <2>2, pc = "init", Zenon DEF NothingStored, OneRequest
      <3>4. PICK q \in Seq(Byte) : q = <<0>>
        BY ONLY StatusBytes, Zenon
      <3>5. Reply(Asked.frameID, q)
        BY ONLY <3>2, <3>3, <3>4, stored' # NoNetwork, Zenon
           DEF NcpNetworkInit, Accept
      <3>6. Asked.frameID \in Word
        BY ONLY TypeInv, <1>1, AskedLegit
      <3>7. Answered' = q
        BY ONLY TypeInv, <1>1, <1>2, <2>2, <3>5, <3>6, q \in Seq(Byte),
                CleanReply
      <3>8. Status(<<0>>).ok
        BY ONLY TRUE DEF Status, Ok
      <3> QED BY ONLY <3>4, <3>7, <3>8, Zenon
    <2>11. pc = "secure" => stored' = NoNetwork
      <3> SUFFICES ASSUME pc = "secure" PROVE stored' = NoNetwork
        OBVIOUS
      <3>1. Asked.frameID = frameIDSetInitialSecurityState
        BY ONLY <2>2, pc = "secure", PlaceIDs, Zenon
      <3>2. stored' = stored
        BY ONLY NcpCommand, <3>1, NcpSteps, NotSecured, Zenon
           DEF NcpForm, Takes
      <3> QED BY ONLY <2>2, <3>2, pc = "secure", Zenon DEF NothingStored
    <2>12. NothingStored'
      BY ONLY <1>2, <2>4, <2>9, <2>10, <2>11, Zenon DEF NothingStored
    <2> QED BY ONLY <2>8, <2>12
  <1>4. waiting' => pc' \in Places
    BY ONLY KeepInv, <1>2, Zenon DEF KeepInv
  <1> QED BY ONLY <1>3, <1>4, Zenon DEF KeepInv

LEMMA KeepStep == TypeInv /\ KeepInv /\ [Next]_vars => KeepInv'
  <1> SUFFICES ASSUME TypeInv, KeepInv, [Next]_vars PROVE KeepInv'
    OBVIOUS
  <1>0. /\ waiting => pc \in Places
        /\ pc \in Places => pc \notin {"idle", "reset", "negotiate"}
    BY ONLY KeepInv DEF KeepInv, Places
  <1>1. ASSUME NEW c \in Commands, Start(c) PROVE KeepInv'
    <2>1. clean' = FALSE /\ waiting' = waiting /\ pc = "idle"
      BY ONLY <1>1, Zenon DEF Start
    <2>2. ~waiting
      BY ONLY <1>0, <2>1
    <2> QED BY ONLY <2>1, <2>2, Zenon DEF KeepInv
  <1>2. ASSUME Reset PROVE KeepInv'
    <2>1. /\ outbox' = <<>> /\ inbox' = <<>> /\ linked' = TRUE
          /\ waiting' = waiting /\ pc = "reset"
          /\ pc' \in {"idle", "negotiate"}
      BY ONLY <1>2 DEF Reset, Boot, Exit, GoTo
    <2>2. ~waiting
      BY ONLY <1>0, <2>1
    <2>3. pc' \notin Places /\ pc' \notin Listings /\ pc' # "reset"
          /\ pc' \notin {"guard", "init", "secure", "form"}
      BY ONLY <2>1 DEF Places, Listings
    <2>4. OneAtATime'
      BY ONLY <2>1, <2>3, Zenon DEF OneAtATime
    <2>5. NothingStored'
      BY ONLY <2>3 DEF NothingStored
    <2> QED BY ONLY <2>1, <2>2, <2>4, <2>5, Zenon DEF KeepInv
  <1>3. ASSUME Negotiate PROVE KeepInv'
    <2>1. /\ outbox' = <<>> /\ inbox' = <<>> /\ linked' /\ clean' = clean
          /\ waiting' = waiting /\ pc = "negotiate"
      BY ONLY TypeInv, <1>3, Zenon DEF TypeInv, LineInv, Negotiate, lineVars
    <2>2. ~waiting
      BY ONLY <1>0, <2>1
    <2>3. pc' \notin Listings /\ pc' # "reset"
          /\ pc' \notin {"init", "secure", "form"}
      <3>1. pc' \in {"nodeId", "tryInit", "guard", "restore", "count", "value",
                     "set", "idle"}
        BY ONLY TypeInv, <1>3, FirstPlaces
      <3> QED BY ONLY <3>1 DEF Listings
    <2>4. OneAtATime'
      BY ONLY <2>1, <2>2, <2>3, Zenon DEF OneAtATime
    <2>5. NothingStored'
      BY ONLY <2>1, <2>3 DEF NothingStored
    <2> QED BY ONLY <2>1, <2>2, <2>4, <2>5, Zenon DEF KeepInv
  <1>4. ASSUME NoConnection PROVE KeepInv'
    <2>1. /\ clean' = FALSE /\ waiting' = waiting
          /\ pc \in {"reset", "negotiate"}
      BY ONLY <1>4, Zenon DEF NoConnection
    <2>2. ~waiting
      BY ONLY <1>0, <2>1
    <2> QED BY ONLY <2>1, <2>2, Zenon DEF KeepInv
  <1>5. ASSUME Kill PROVE KeepInv'
    BY ONLY <1>5, Zenon DEF Kill, KeepInv
  <1>6. ASSUME NcpRestart PROVE KeepInv'
    BY ONLY <1>0, <1>6, Zenon DEF NcpRestart, KeepInv
  <1>7. ASSUME UNCHANGED vars PROVE KeepInv'
    <2>1. UNCHANGED <<cmd, flags, arg, item, session, pc, waiting, extended,
                      inbox, outbox, ncpExt, linked, up, stored, clean>>
      BY ONLY <1>7, Zenon DEF vars, progVars, lineVars, ncpVars
    <2>2. Request(0)' = Request(0)
      BY ONLY <2>1, RequestSame
    <2>3. Answered' = Answered /\ Matching' = Matching
      BY ONLY <2>1, <2>2, Zenon DEF Answered, Matching
    <2>4. Asked' = Asked
          /\ Wire(ncpExt, Request(0)[1])' = Wire(ncpExt, Request(0)[1])
      BY ONLY <2>1, <2>2, Zenon DEF Asked, Wire
    <2>5. OneRequest' = OneRequest
      BY ONLY <2>1, <2>4, Zenon DEF OneRequest
    <2>6. OneAnswer' = OneAnswer
      BY ONLY <2>1, <2>3, Zenon DEF OneAnswer
    <2>7. OneAtATime' = OneAtATime
      BY ONLY <2>1, <2>5, <2>6, Zenon DEF OneAtATime
    <2>8. NothingStored' = NothingStored
      BY ONLY <2>1, <2>3, Zenon DEF NothingStored
    <2> QED BY ONLY KeepInv, <2>1, <2>7, <2>8, Zenon DEF KeepInv
  <1> QED BY ONLY TypeInv, KeepInv, [Next]_vars, Steps, KeepAsk, KeepCall,
                  KeepNcp, <1>1, <1>2, <1>3, <1>4, <1>5, <1>6, <1>7, Zenon
          DEF Call

(* What KeepsNetwork says of a step.                                       *)
LEMMA Keeps ==
  ASSUME TypeInv, KeepInv, [Next]_vars, clean, clean', stored # NoNetwork
  PROVE  stored' = stored /\ (up => sec' = sec)
  <1>1. OneAtATime /\ NothingStored
    BY ONLY KeepInv, clean, Zenon DEF KeepInv
  <1>2. ASSUME NcpCommand PROVE UNCHANGED <<stored, sec>>
    <2>1. outbox # <<>>
      BY ONLY TypeInv, <1>2, NcpMoves
    <2>2. /\ OneRequest /\ pc \in Places
          /\ Asked.frameID \in Queries \cup Writes =>
               Asked.frameID = Request(0)[1]
      BY ONLY TypeInv, KeepInv, clean, <2>1, CleanRequest
    <2>3. pc # "secure" /\ pc # "form"
      BY ONLY <1>1, <2>2, stored # NoNetwork, Zenon
         DEF NothingStored, OneRequest
    <2>4. Asked.frameID \notin {frameIDSetInitialSecurityState,
                                frameIDFormNetwork}
      BY ONLY <2>2, <2>3, PlaceIDs, Zenon DEF Writes
    <2>5. ~NcpForm /\ ~NcpSecure
      BY ONLY <2>4, Zenon DEF NcpForm, NcpSecure, Takes
    <2> QED BY ONLY <1>2, <2>5, NcpSteps, Zenon
  <1>3. ASSUME Call PROVE UNCHANGED <<stored, sec>>
    <2>1. \E a \in Answers : Return(a)
      BY ONLY <1>3, CallMoves, Zenon
    <2> QED BY ONLY <2>1, Zenon DEF Return, ncpVars
  <1>4. ~Reset
    BY ONLY <1>1, Zenon DEF OneAtATime, Reset
  <1>5. ~NoConnection /\ ~Kill /\ ~NcpRestart /\ \A c \in Commands : ~Start(c)
    BY ONLY clean', Zenon DEF NoConnection, Kill, NcpRestart, Start
  <1>6. ASSUME Negotiate \/ Ask \/ UNCHANGED vars
        PROVE  UNCHANGED <<stored, sec>>
    BY ONLY <1>6, Zenon DEF Negotiate, Ask, vars, ncpVars
  <1> QED BY ONLY [Next]_vars, Steps, <1>2, <1>3, <1>4, <1>5, <1>6, Zenon
          DEF Call

(* While nothing has gone wrong since its reset, no command replaces the   *)
(* network that is stored, and none touches the security of one that is    *)
(* active: network init sets one up only where the NCP has none.           *)
THEOREM KeepsNetworkTheorem == Spec => KeepsNetwork
  <1>1. Init => KeepInv
    BY ONLY TRUE, Zenon DEF Init, KeepInv
  <1>2. Spec => []KeepInv
    BY <1>1, KeepStep, TypeAlways, PTL DEF Spec
  <1>3. TypeInv /\ KeepInv /\ [Next]_vars =>
          [clean /\ clean' /\ stored # NoNetwork =>
             stored' = stored /\ (up => sec' = sec)]_vars
    BY ONLY Keeps, Zenon
  <1> QED BY <1>2, <1>3, TypeAlways, PTL DEF Spec, KeepsNetwork

==============================================================================
