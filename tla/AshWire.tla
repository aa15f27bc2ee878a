-------------------------------- MODULE AshWire --------------------------------
(***************************************************************************)
(* From frame to frame over a line that damages bytes: encoding (CRC,      *)
(* randomization, stuffing; src/ash/frame.go), the line, the reader's byte *)
(* loop (AshReader) and decodeFrame.  The sender encodes as the host does; *)
(* it is host or NCP.  AshConn and AshLink take for granted what is        *)
(* checked here: a frame arrives as it was sent or not at all.             *)
(***************************************************************************)
EXTENDS AshReader, Bitwise

CONSTANTS
  Messages,    \* what is sent, and how many CANCEL bytes before it
  Singles,     \* what is sent only as the first message and the last one
  Noise,       \* bytes that may appear on the line, or replace another
  MaxSent,     \* bound: messages sent
  MaxDamage    \* bound: bytes damaged

ASSUME WireAssumption ==
  /\ Messages \cup Singles \subseteq
       [type : {"DATA", "ACK", "NAK", "RST", "RSTACK"},
        frmNum : 0 .. 7, ackNum : 0 .. 7, reTx : BOOLEAN,
        payload : Seq(Byte), cancels : Nat]
  /\ Noise \subseteq Byte
  /\ MaxSent \in Nat /\ MaxDamage \in Nat

VARIABLES
  sent,      \* the messages
  line,      \* bytes under way, with the message and the part they are of
  damage,    \* bytes damaged so far
  hit,       \* the parts of messages that were
  got        \* frames that decodeFrame has accepted

wireVars == <<sent, line, damage, hit, got>>
vars == <<readerVars, wireVars>>

------------------------------------------------------------------------------
(* Randomization and CRC.                                                  *)

lfsrSeed == 66
lfsrPolynomial == 184

nextLFSR(state) ==
  IF state % 2 = 1 THEN (state \div 2) ^^ lfsrPolynomial ELSE state \div 2

(* The sequence that starts from the seed with every frame.                *)
lfsr[k \in Nat] == IF k = 1 THEN lfsrSeed ELSE nextLFSR(lfsr[k - 1])

randomize(data) == [k \in DOMAIN data |-> data[k] ^^ lfsr[k]]

crcShift(crc) ==
  IF crc >= 32768 THEN ((2 * crc) % 65536) ^^ 4129 ELSE 2 * crc

crcTable == [b \in Byte |-> FoldLeft(LAMBDA crc, k : crcShift(crc), 256 * b,
                                     [k \in 1 .. 8 |-> k])]

crcCCITT(data) ==
  FoldLeft(LAMBDA crc, b :
             ((crc * 256) % 65536) ^^ crcTable[(crc \div 256) ^^ b],
           65535, data)

(* The values of the tests (frame_test.go:17, 37, 128, 269).               *)
ASSUME TestVectors ==
  /\ crcCCITT(<<192>>) = 14524
  /\ [k \in 1 .. 10 |-> lfsr[k]] = <<66, 33, 168, 84, 42, 21, 178, 89, 148, 74>>
  /\ unstuff(<<1, 125, 94, 2, 125, 93, 3>>) = <<1, 126, 2, 125, 3>>
  /\ dataControlByte(2, 3, TRUE) = 43

withCRC(frame) == frame \o <<crcCCITT(frame) \div 256, crcCCITT(frame) % 256>>

------------------------------------------------------------------------------
(* Frames on the line: encodeDataFrame, which randomizes the payload,      *)
(* encodeACK and encodeRST; NAK and RSTACK are the NCP's.                  *)

controlByte(m) ==
  CASE m.type = "DATA" -> dataControlByte(m.frmNum, m.ackNum, m.reTx)
    [] m.type = "ACK" -> ackControlByte(m.ackNum)
    [] m.type = "NAK" -> 32 + ackControlByte(m.ackNum)
    [] m.type = "RST" -> frameTypeRST
    [] m.type = "RSTACK" -> frameTypeRSTACK

encodeFrame(m) ==
  stuff(withCRC(<<controlByte(m)>> \o
    (IF m.type = "DATA" THEN randomize(m.payload) ELSE m.payload)))

cancelBytes(n) == [k \in 1 .. n |-> byteSubstitute]

Encoded == [m \in Messages \cup Singles |-> encodeFrame(m)]

(* The CRC is not verified.                                                *)
BugDecodeFrame(raw) ==
  LET data == SubSeq(raw, 2, Len(raw) - 2) IN
  [ok |-> TRUE, control |-> raw[1],
   payload |-> IF frameType(raw[1]) = "DATA" THEN randomize(data) ELSE data]

decodeFrame(raw) ==
  LET n == Len(raw)
      data == SubSeq(raw, 2, n - 2)
  IN
  IF n < 3 THEN [ok |-> FALSE]
  ELSE IF crcCCITT(SubSeq(raw, 1, n - 2)) # 256 * raw[n - 1] + raw[n]
  THEN [ok |-> FALSE]
  ELSE [ok |-> TRUE, control |-> raw[1],
        payload |-> IF frameType(raw[1]) = "DATA" THEN randomize(data) ELSE data]

(* What Send and Recv read from a frame.                                   *)
Got(d) ==
  LET type == frameType(d.control)
      c == IF type \in {"DATA", "ACK", "NAK"} THEN parseControl(d.control)
           ELSE [frmNum |-> 0, ackNum |-> 0, bit3 |-> FALSE]
  IN [type |-> type, frmNum |-> c.frmNum, ackNum |-> c.ackNum,
      reTx |-> c.bit3, payload |-> d.payload]

------------------------------------------------------------------------------
Init ==
  /\ ReaderInit
  /\ sent = <<>> /\ line = <<>> /\ damage = 0 /\ hit = {} /\ got = <<>>

(* The bytes of part p of the i-th message.                                *)
Marked(bytes, i, p) ==
  [k \in DOMAIN bytes |-> [byte |-> bytes[k], of |-> <<i, p>>]]

(* The next message is written when the line has delivered the last: that  *)
(* the line keeps the order makes this no restriction.                     *)
Send ==
  /\ line = <<>> /\ Len(sent) < MaxSent
  /\ sent # <<>> => sent[1] \in Messages
  /\ \E m \in IF sent = <<>> THEN Messages \cup Singles ELSE Messages :
       LET i == Len(sent) + 1 IN
       /\ sent' = Append(sent, m)
       /\ line' = Marked(cancelBytes(m.cancels), i, "cancels")
                    \o Marked(Encoded[m], i, "frame")
                    \o Marked(<<byteFlag>>, i, "flag")
  /\ UNCHANGED <<readerVars, damage, hit, got>>

(* The reader gets the next byte.                                          *)
Read ==
  /\ line # <<>>
  /\ ReadByte(Head(line).byte)
  /\ line' = Tail(line)
  /\ UNCHANGED <<sent, damage, hit, got>>

Damage ==
  /\ line # <<>> /\ damage < MaxDamage
  /\ damage' = damage + 1
  /\ hit' = hit \cup {Head(line).of}
  /\ UNCHANGED <<sent, got>>

(* The next byte with one bit changed, or another byte in its place.       *)
Change ==
  /\ Damage
  /\ \E b \in {Head(line).byte ^^ (2 ^ k) : k \in 0 .. 7} \cup Noise :
       ReadByte(b)
  /\ line' = Tail(line)

Lose ==
  /\ Damage
  /\ line' = Tail(line)
  /\ UNCHANGED readerVars

(* A byte before the next one.                                             *)
Insert ==
  /\ Damage
  /\ \E b \in Noise : ReadByte(b)
  /\ UNCHANGED line

(* recvFrame: a frame that does not decode is dropped.                     *)
Receive ==
  /\ frames # <<>> /\ frames' = Tail(frames)
  /\ LET d == decodeFrame(Head(frames)) IN
     got' = IF d.ok THEN Append(got, Got(d)) ELSE got
  /\ UNCHANGED <<frameBuf, sent, line, damage, hit>>

Next == Send \/ Read \/ Change \/ Lose \/ Insert \/ Receive

Spec == Init /\ [][Next]_vars

------------------------------------------------------------------------------
(* What was written into a frame.                                          *)
Frame(m) ==
  [type |-> m.type, frmNum |-> m.frmNum, ackNum |-> m.ackNum, reTx |-> m.reTx,
   payload |-> m.payload]

(* s is t with some elements left out.                                     *)
Within(s, t) ==
  \E f \in [DOMAIN s -> DOMAIN t] :
    /\ \A i, j \in DOMAIN s : i < j => f[i] < f[j]
    /\ \A i \in DOMAIN s : s[i] = t[f[i]]

(* Messages that must arrive: no byte of the frame and its flag damaged,   *)
(* the frame no larger than the buffer, and before it the flag of the last *)
(* frame or CANCEL bytes.                                                  *)
Safe(i) ==
  LET m == sent[i] IN
  /\ <<i, "frame">> \notin hit /\ <<i, "flag">> \notin hit
  /\ Len(Encoded[m]) <= maxFrameSize
  /\ \/ i = 1 \/ <<i - 1, "flag">> \notin hit \/ m.cancels > 0
  /\ <<i, "cancels">> \notin hit

SafeFrames ==
  LET arrive == SelectSeq([i \in DOMAIN sent |-> i], Safe) IN
  [k \in DOMAIN arrive |-> Frame(sent[arrive[k]])]

(* The state of the reader, and what decodeFrame returns.                  *)
WireTypeOK ==
  /\ ReaderTypeOK
  /\ damage \in 0 .. MaxDamage
  /\ \A k \in DOMAIN got :
       got[k].ackNum \in 0 .. 7 /\ got[k].payload \in Seq(Byte)

(* Nothing is made up: whichever MaxDamage bytes are damaged, and with     *)
(* what is left of a frame that is too large, the frames that decodeFrame  *)
(* accepts are frames that were sent, in order, each once: ash.go:380-391. *)
(* For one damaged byte: two can make a frame whose CRC matches.           *)
NothingForged == Within(got, [i \in DOMAIN sent |-> Frame(sent[i])])

(* The reader resynchronizes: damage costs the frame it hits and at most   *)
(* the next, which is safe too if CANCEL bytes come before it, as they do  *)
(* before RST (ash.go:69).                                                 *)
SafeArrive == line = <<>> /\ frames = <<>> => Within(SafeFrames, got)
==============================================================================
