----------------------------- MODULE EzspCommands -----------------------------
(***************************************************************************)
(* The bytes of EZSP: the two frame formats (src/ezsp/frame.go), and what  *)
(* the wrappers of Command (src/ezsp/ezsp.go) write into the parameters of *)
(* a request and read from those of a response.  A wrapper yields a value  *)
(* or an error; the text of errors is left out.                            *)
(***************************************************************************)
EXTENDS Integers, Sequences

Byte == 0 .. 255

(* uint16.                                                                 *)
Word == {v \in Nat : v < 65536}

(* commands.go.                                                            *)
frameIDNetworkInit == 23
frameIDNetworkState == 24
frameIDFormNetwork == 30
frameIDPermitJoining == 34
frameIDGetEUI64 == 38
frameIDGetNodeID == 39
frameIDGetNetworkParameters == 40
frameIDGetConfigurationValue == 82
frameIDSetConfigurationValue == 83
frameIDSetInitialSecurityState == 104
frameIDGetEndpoint == 302
frameIDGetEndpointCount == 303
frameIDGetEndpointDescription == 304
frameIDGetEndpointCluster == 305

extendedFormatMarker == 1

(* encoding/binary.LittleEndian, and the conversion int8.                  *)
PutUint16(v) == <<v % 256, (v \div 256) % 256>>

Uint16(s, i) == s[i] + 256 * s[i + 1]

Int8(b) == IF b < 128 THEN b ELSE b - 256

Repeat(b, n) == [k \in 1 .. n |-> b]

From(s, i) == SubSeq(s, i, Len(s))

------------------------------------------------------------------------------
(* Frames.                                                                 *)

(* A frame ID of more than one byte.                                       *)
BugEncodeLegacy(seq, frameID, params) == <<seq, 0, frameID>> \o params

encodeLegacy(seq, frameID, params) == <<seq, 0, frameID % 256>> \o params

encodeExtended(seq, frameID, params) ==
  <<seq, 0, extendedFormatMarker>> \o PutUint16(frameID) \o params

Err == [ok |-> FALSE, v |-> 0]

Ok(v) == [ok |-> TRUE, v |-> v]

decodeLegacy(data) ==
  IF Len(data) < 3 THEN Err
  ELSE Ok([seq |-> data[1], frameID |-> data[3], params |-> From(data, 4)])

decodeExtended(data) ==
  IF Len(data) < 5 THEN Err
  ELSE Ok([seq |-> data[1], frameID |-> Uint16(data, 4),
           params |-> From(data, 6)])

encode(extended, seq, frameID, params) ==
  IF extended THEN encodeExtended(seq, frameID, params)
  ELSE encodeLegacy(seq, frameID, params)

decode(extended, data) ==
  IF extended THEN decodeExtended(data) ELSE decodeLegacy(data)

------------------------------------------------------------------------------
(* Parameters of requests.                                                 *)

NetworkInitParams == PutUint16(0)

(* np: the parameters of a network, after their conversion to uint16, int8 *)
(* and uint8.  A shift by 32 or more leaves no bit of the mask.            *)
ChannelMask(channel) ==
  [k \in 1 .. 4 |-> IF channel \div 8 = k - 1
                    THEN <<1, 2, 4, 8, 16, 32, 64, 128>>[(channel % 8) + 1]
                    ELSE 0]

(* Transmit power and channel in the wrong order.                          *)
BugFormNetworkParams(np) ==
  np.extendedPanID \o PutUint16(np.panID)
    \o <<np.radioChannel, np.radioTxPower % 256>>
    \o Repeat(0, 4) \o ChannelMask(np.radioChannel)

FormNetworkParams(np) ==
  np.extendedPanID \o PutUint16(np.panID)
    \o <<np.radioTxPower % 256, np.radioChannel>>
    \o Repeat(0, 4) \o ChannelMask(np.radioChannel)

(* EmberHavePreconfiguredKey, EmberHaveNetworkKey,                         *)
(* EmberTrustCenterGlobalLinkKey and EmberHaveTrustCenterEUI64.            *)
securityBitmask == 256 + 512 + 4 + 64

SetInitialSecurityStateParams(linkKey, networkKey) ==
  PutUint16(securityBitmask) \o linkKey \o networkKey \o Repeat(0, 9)

SetConfigurationValueParams(id, value) == <<id>> \o PutUint16(value)

------------------------------------------------------------------------------
(* Responses.                                                              *)

(* Wrappers whose response is a status.                                    *)
Status(resp) == IF Len(resp) < 1 \/ resp[1] # 0 THEN Err ELSE Ok(0)

GetNodeID(resp) == IF Len(resp) < 2 THEN Err ELSE Ok(Uint16(resp, 1))

GetEUI64(resp) == IF Len(resp) < 8 THEN Err ELSE Ok(SubSeq(resp, 1, 8))

NetworkState(resp) == IF Len(resp) < 1 THEN Err ELSE Ok(resp[1])

(* The tail, too, is read from where it was before version 14.             *)
BugGetNetworkParameters(resp) ==
  IF Len(resp) < 22 \/ resp[1] # 0 THEN Err
  ELSE Ok([nodeType |-> resp[2],
           extendedPanID |-> SubSeq(resp, 3, 10),
           panID |-> Uint16(resp, 11),
           radioTxPower |-> Int8(resp[13]),
           radioChannel |-> resp[14]])

(* Transmit power and channel are counted from the end.                    *)
GetNetworkParameters(resp) ==
  IF Len(resp) < 22 \/ resp[1] # 0 THEN Err
  ELSE Ok([nodeType |-> resp[2],
           extendedPanID |-> SubSeq(resp, 3, 10),
           panID |-> Uint16(resp, 11),
           radioTxPower |-> Int8(resp[Len(resp) - 9]),
           radioChannel |-> resp[Len(resp) - 8]])

(* Responses of a status and then, from the second byte, a value.          *)
GetConfigurationValue(resp) ==
  IF Len(resp) < 3 \/ resp[1] # 0 THEN Err ELSE Ok(Uint16(resp, 2))

GetEndpointCount(resp) ==
  IF Len(resp) < 2 \/ resp[1] # 0 \/ resp[2] > 240 THEN Err ELSE Ok(resp[2])

GetEndpoint(resp) == IF Len(resp) < 2 \/ resp[1] # 0 THEN Err ELSE Ok(resp[2])

GetEndpointDescription(resp) ==
  IF Len(resp) < 8 \/ resp[1] # 0 THEN Err
  ELSE Ok([profileID |-> Uint16(resp, 2), deviceID |-> Uint16(resp, 4),
           deviceVersion |-> resp[6],
           inputClusterCount |-> resp[7], outputClusterCount |-> resp[8]])

GetEndpointCluster(resp) ==
  IF Len(resp) < 3 \/ resp[1] # 0 THEN Err ELSE Ok(Uint16(resp, 2))
==============================================================================
