------------------------------- MODULE AshFrame -------------------------------
(***************************************************************************)
(* Bytes of ASH that need no exclusive or of two variables: the reserved   *)
(* bytes and byte stuffing, and the control byte (src/ash/frame.go).       *)
(***************************************************************************)
EXTENDS Integers, SequencesExt

Byte == 0 .. 255

byteFlag == 126
byteEscape == 125
byteXON == 17
byteXOFF == 19
byteCancel == 24
byteSubstitute == 26

(* 0x18 is not escaped.                                                    *)
BugIsReserved(b) ==
  b \in {byteFlag, byteEscape, byteXON, byteXOFF, byteSubstitute}

isReserved(b) ==
  b \in {byteFlag, byteEscape, byteXON, byteXOFF, byteCancel, byteSubstitute}

(* b ^ 0x20.                                                               *)
Flip(b) == IF (b \div 32) % 2 = 0 THEN b + 32 ELSE b - 32

stuff(data) ==
  FlattenSeq([k \in DOMAIN data |->
    IF isReserved(data[k]) THEN <<byteEscape, Flip(data[k])>> ELSE <<data[k]>>])

(* An escape byte changes the next byte; the last byte is kept as it is.   *)
unstuff(data) ==
  LET add(acc, b) ==
        IF acc.escaped THEN [out |-> Append(acc.out, Flip(b)), escaped |-> FALSE]
        ELSE IF b = byteEscape THEN [acc EXCEPT !.escaped = TRUE]
        ELSE [acc EXCEPT !.out = Append(@, b)]
      all == FoldLeft(add, [out |-> <<>>, escaped |-> FALSE], data)
  IN IF all.escaped THEN Append(all.out, byteEscape) ELSE all.out

------------------------------------------------------------------------------
(* Control bytes.                                                          *)

frameTypeNAK == 160
frameTypeRST == 192
frameTypeRSTACK == 193
frameTypeERROR == 194

frameType(control) ==
  CASE control < 128 -> "DATA"
    [] control \in 128 .. frameTypeNAK - 1 -> "ACK"
    [] control \in frameTypeNAK .. frameTypeRST - 1 -> "NAK"
    [] control = frameTypeRST -> "RST"
    [] control = frameTypeRSTACK -> "RSTACK"
    [] control = frameTypeERROR -> "ERROR"
    [] OTHER -> "other"

dataControlByte(frmNum, ackNum, reTx) ==
  16 * (frmNum % 8) + (IF reTx THEN 8 ELSE 0) + (ackNum % 8)

ackControlByte(ackNum) == 128 + (ackNum % 8)

(* The numbers of a DATA frame the wrong way round.                        *)
BugParseControl(control) ==
  [frmNum |-> IF control < 128 THEN control % 8 ELSE 0,
   ackNum |-> (control \div 16) % 8,
   bit3 |-> (control \div 8) % 2 = 1]

(* parseDataControl and parseACKControl: bit 3 is reTx or nRdy.            *)
parseControl(control) ==
  [frmNum |-> IF control < 128 THEN (control \div 16) % 8 ELSE 0,
   ackNum |-> control % 8,
   bit3 |-> (control \div 8) % 2 = 1]
==============================================================================
