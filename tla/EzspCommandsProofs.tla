-------------------------- MODULE EzspCommandsProofs --------------------------
(* What the bytes of EzspCommands say when they are read again.            *)
EXTENDS EzspCommands, Queues

------------------------------------------------------------------------------
(* Bytes.                                                                  *)

Low(v) == v % 256

High(v) == (v \div 256) % 256

LEMMA ByteOf == \A v \in Int : Low(v) \in Byte /\ High(v) \in Byte
  BY DEF Byte, Low, High

LEMMA ByteKept == \A b \in Byte : Low(b) = b
  BY DEF Byte, Low

LEMMA Uint16Bytes == \A v \in Word : Low(v) + 256 * High(v) = v
  <1> SUFFICES ASSUME NEW v \in Word PROVE Low(v) + 256 * High(v) = v
    OBVIOUS
  <1>1. PICK d \in Nat, r \in Nat : d = v \div 256 /\ r = v % 256
    BY DEF Word
  <1>2. r + 256 * d = v
    BY <1>1 DEF Word
  <1>3. d \in Byte
    BY <1>1 DEF Word, Byte
  <1>4. d % 256 = d
    BY ONLY <1>3, ByteKept DEF Low
  <1>5. High(v) = d
    BY ONLY <1>1, <1>4 DEF High
  <1>6. Low(v) = r
    BY ONLY <1>1 DEF Low
  <1> QED BY ONLY <1>2, <1>5, <1>6

LEMMA BytesWord == \A a, b \in Byte : a \in Word /\ a + 256 * b \in Word
  BY DEF Byte, Word

LEMMA Int8Byte == \A v \in -128 .. 127 : Int8(v % 256) = v
  BY DEF Int8

LEMMA Int8Type == \A b \in Byte : Int8(b) \in -128 .. 127
  BY DEF Int8, Byte

------------------------------------------------------------------------------
(* Sequences.                                                              *)

(* The provers are to know of a concatenation what Joined says only.       *)
Cat(s, t) == s \o t

LEMMA Joined ==
  ASSUME NEW S, NEW s \in Seq(S), NEW t \in Seq(S)
  PROVE  /\ Cat(s, t) \in Seq(S)
         /\ Len(s) \in Nat /\ Len(t) \in Nat
         /\ Len(Cat(s, t)) = Len(s) + Len(t)
         /\ \A i \in 1 .. Len(s) : Cat(s, t)[i] = s[i]
         /\ \A i \in 1 .. Len(t) : Cat(s, t)[Len(s) + i] = t[i]
  <1>1. /\ s \o t \in Seq(S) /\ Len(s \o t) = Len(s) + Len(t)
        /\ \A i \in 1 .. Len(s) + Len(t) :
             (s \o t)[i] = IF i <= Len(s) THEN s[i] ELSE t[i - Len(s)]
    BY ConcatProperties
  <1>2. Len(s) \in Nat /\ Len(t) \in Nat
    BY LenProperties
  <1>3. \A i \in 1 .. Len(t) : (s \o t)[Len(s) + i] = t[i]
    <2> SUFFICES ASSUME NEW i \in 1 .. Len(t)
                 PROVE  (s \o t)[Len(s) + i] = t[i]
      OBVIOUS
    <2>1. /\ Len(s) + i \in 1 .. Len(s) + Len(t) /\ ~ (Len(s) + i <= Len(s))
          /\ (Len(s) + i) - Len(s) = i
      BY <1>2
    <2> QED BY <1>1, <2>1
  <1>4. \A i \in 1 .. Len(s) : (s \o t)[i] = s[i]
    BY <1>1, <1>2
  <1> QED BY <1>1, <1>2, <1>3, <1>4, Zenon DEF Cat

LEMMA CatLen ==
  \A s, t \in Seq(Byte) :
    /\ Cat(s, t) \in Seq(Byte) /\ Len(s) \in Nat /\ Len(t) \in Nat
    /\ Len(Cat(s, t)) = Len(s) + Len(t)
  BY Joined

LEMMA CatLeft ==
  \A s, t \in Seq(Byte) : \A i \in 1 .. Len(s) : Cat(s, t)[i] = s[i]
  BY Joined

LEMMA CatRight ==
  \A s, t \in Seq(Byte) : \A i \in 1 .. Len(t) : Cat(s, t)[Len(s) + i] = t[i]
  BY Joined

(* What is left of a sequence behind its first m elements.                 *)
LEMMA FromRest ==
  ASSUME NEW S, NEW s \in Seq(S), NEW m \in 0 .. Len(s)
  PROVE  /\ From(s, m + 1) \in Seq(S) /\ Len(s) \in Nat
         /\ Len(From(s, m + 1)) = Len(s) - m
         /\ \A i \in 1 .. Len(s) - m : From(s, m + 1)[i] = s[m + i]
  <1>1. Len(s) \in Nat /\ \A i \in 1 .. Len(s) : s[i] \in S
    BY LenProperties
  <1>2. \A i \in m + 1 .. Len(s) : s[i] \in S
    BY <1>1
  <1>3. m + 1 \in Int /\ Len(s) \in Int
    BY <1>1
  <1>4. /\ SubSeq(s, m + 1, Len(s)) \in Seq(S)
        /\ Len(SubSeq(s, m + 1, Len(s))) =
             IF m + 1 <= Len(s) THEN Len(s) - (m + 1) + 1 ELSE 0
        /\ \A i \in 1 .. Len(s) - (m + 1) + 1 :
             SubSeq(s, m + 1, Len(s))[i] = s[(m + 1) + i - 1]
    BY <1>2, <1>3, SubSeqProperties
  <1>5. Len(s) - (m + 1) + 1 = Len(s) - m /\ (m + 1 <= Len(s) \/ Len(s) - m = 0)
    BY <1>1
  <1>6. \A i \in 1 .. Len(s) - m : (m + 1) + i - 1 = m + i
    BY <1>1
  <1> QED BY <1>1, <1>4, <1>5, <1>6 DEF From

LEMMA FromJoined ==
  ASSUME NEW S, NEW s \in Seq(S), NEW t \in Seq(S)
  PROVE  From(Cat(s, t), Len(s) + 1) = t
  <1>1. /\ Cat(s, t) \in Seq(S) /\ Len(s) \in Nat /\ Len(t) \in Nat
        /\ Len(Cat(s, t)) = Len(s) + Len(t)
        /\ \A i \in 1 .. Len(t) : Cat(s, t)[Len(s) + i] = t[i]
    BY Joined
  <1>2. Len(s) \in 0 .. Len(Cat(s, t)) /\ Len(Cat(s, t)) - Len(s) = Len(t)
    BY <1>1
  <1>3. /\ From(Cat(s, t), Len(s) + 1) \in Seq(S)
        /\ Len(From(Cat(s, t), Len(s) + 1)) = Len(t)
        /\ \A i \in 1 .. Len(t) :
             From(Cat(s, t), Len(s) + 1)[i] = Cat(s, t)[Len(s) + i]
    BY <1>1, <1>2, FromRest
  <1> QED BY <1>1, <1>3, SeqEqual

LEMMA Triple ==
  ASSUME NEW S, NEW a \in S, NEW b \in S, NEW c \in S
  PROVE  /\ <<a, b, c>> \in Seq(S) /\ Len(<<a, b, c>>) = 3
         /\ <<a, b, c>>[1] = a /\ <<a, b, c>>[2] = b /\ <<a, b, c>>[3] = c
  OBVIOUS

(* A sequence is a function on its indices.                                *)
LEMMA IsSeq ==
  ASSUME NEW S, NEW n \in Nat, NEW f \in [1 .. n -> S]
  PROVE  f \in Seq(S) /\ Len(f) = n
  OBVIOUS

LEMMA PutUint16Bytes ==
  ASSUME NEW v \in Int
  PROVE  /\ PutUint16(v) \in Seq(Byte) /\ Len(PutUint16(v)) = 2
         /\ PutUint16(v)[1] = Low(v) /\ PutUint16(v)[2] = High(v)
  <1>1. PutUint16(v) = <<Low(v), High(v)>>
    BY DEF PutUint16, Low, High
  <1>2. Low(v) \in Byte /\ High(v) \in Byte
    BY ByteOf
  <1> QED BY <1>1, <1>2

LEMMA Uint16Read ==
  ASSUME NEW v \in Word, NEW s, NEW i \in Int,
         s[i] = Low(v), s[i + 1] = High(v)
  PROVE  Uint16(s, i) = v
  BY Uint16Bytes DEF Uint16

LEMMA RepeatBytes ==
  ASSUME NEW b \in Byte, NEW n \in Nat
  PROVE  /\ Repeat(b, n) \in Seq(Byte) /\ Len(Repeat(b, n)) = n
         /\ \A i \in 1 .. n : Repeat(b, n)[i] = b
  <1>1. Repeat(b, n) \in [1 .. n -> Byte]
    BY DEF Repeat
  <1> QED BY <1>1, IsSeq DEF Repeat

------------------------------------------------------------------------------
(* Frames.                                                                 *)

LEMMA LegacyRoundTrip ==
  ASSUME NEW fid \in Word, NEW p \in Seq(Byte)
  PROVE  /\ encodeLegacy(0, fid, p) \in Seq(Byte)
         /\ decodeLegacy(encodeLegacy(0, fid, p)) =
              Ok([seq |-> 0, frameID |-> Low(fid), params |-> p])
  <1>1. PICK h \in Seq(Byte) : /\ h = <<0, 0, Low(fid)>> /\ Len(h) = 3
                               /\ h[1] = 0 /\ h[3] = Low(fid)
    <2>1. Low(fid) \in Byte /\ 0 \in Byte
      BY ByteOf DEF Word, Byte
    <2> DEFINE h == <<0, 0, Low(fid)>>
    <2>2. h \in Seq(Byte) /\ Len(h) = 3 /\ h[1] = 0 /\ h[3] = Low(fid)
      BY <2>1, Triple
    <2> QED BY <2>2, Zenon
  <1>2. PICK f : f = Cat(h, p)
    OBVIOUS
  <1>3. /\ f \in Seq(Byte) /\ Len(p) \in Nat /\ Len(f) = Len(h) + Len(p)
        /\ \A i \in 1 .. Len(h) : f[i] = h[i]
    BY <1>2, Joined
  <1>4. f[1] = 0 /\ f[3] = Low(fid) /\ ~ (Len(f) < 3)
    BY <1>1, <1>3
  <1>5. From(f, 4) = p
    <2>1. From(f, Len(h) + 1) = p
      BY <1>2, FromJoined
    <2>2. Len(h) + 1 = 4
      BY <1>1
    <2> QED BY <2>1, <2>2, Zenon
  <1>6. encodeLegacy(0, fid, p) = f
    BY <1>1, <1>2, Zenon DEF encodeLegacy, Low, Cat
  <1>7. decodeLegacy(f) = Ok([seq |-> 0, frameID |-> Low(fid), params |-> p])
    BY <1>4, <1>5, Zenon DEF decodeLegacy
  <1> QED BY <1>3, <1>6, <1>7, Zenon

LEMMA ExtendedRoundTrip ==
  ASSUME NEW fid \in Word, NEW p \in Seq(Byte)
  PROVE  /\ encodeExtended(0, fid, p) \in Seq(Byte)
         /\ decodeExtended(encodeExtended(0, fid, p)) =
              Ok([seq |-> 0, frameID |-> fid, params |-> p])
  <1>1. PICK u \in Seq(Byte) : /\ u = PutUint16(fid) /\ Len(u) = 2
                               /\ u[1] = Low(fid) /\ u[2] = High(fid)
    <2>1. fid \in Int
      BY DEF Word
    <2> QED BY <2>1, PutUint16Bytes
  <1>2. PICK m \in Seq(Byte) : /\ m = <<0, 0, extendedFormatMarker>>
                               /\ Len(m) = 3 /\ m[1] = 0
    <2>1. 0 \in Byte /\ extendedFormatMarker \in Byte
      BY DEF Byte, extendedFormatMarker
    <2> DEFINE m == <<0, 0, extendedFormatMarker>>
    <2>2. m \in Seq(Byte) /\ Len(m) = 3 /\ m[1] = 0
      BY <2>1, Triple
    <2> QED BY <2>2, Zenon
  <1>3. PICK h : h = Cat(m, u)
    OBVIOUS
  <1>4. /\ h \in Seq(Byte) /\ Len(h) = 5
        /\ h[1] = 0 /\ h[4] = Low(fid) /\ h[5] = High(fid)
    <2>1. /\ h \in Seq(Byte) /\ Len(h) = Len(m) + Len(u)
          /\ \A i \in 1 .. Len(m) : h[i] = m[i]
          /\ \A i \in 1 .. Len(u) : h[Len(m) + i] = u[i]
      <3>1. /\ Cat(m, u) \in Seq(Byte) /\ Len(Cat(m, u)) = Len(m) + Len(u)
            /\ \A i \in 1 .. Len(m) : Cat(m, u)[i] = m[i]
        BY Joined
      <3>2. \A i \in 1 .. Len(u) : Cat(m, u)[Len(m) + i] = u[i]
        BY Joined
      <3> QED BY <1>3, <3>1, <3>2, Zenon
    <2>2. 1 \in 1 .. Len(u) /\ 2 \in 1 .. Len(u)
      BY <1>1
    <2>3. h[Len(m) + 1] = u[1] /\ h[Len(m) + 2] = u[2]
      BY <2>1, <2>2, Zenon
    <2>4. h[4] = u[1] /\ h[5] = u[2]
      BY <1>2, <2>3
    <2> QED BY <1>1, <1>2, <2>1, <2>4
  <1>5. PICK f : f = Cat(h, p)
    OBVIOUS
  <1>6. /\ f \in Seq(Byte) /\ Len(p) \in Nat /\ Len(f) = Len(h) + Len(p)
        /\ \A i \in 1 .. Len(h) : f[i] = h[i]
    BY <1>4, <1>5, Joined, ZenonT(60)
  <1>7. f[1] = 0 /\ f[4] = Low(fid) /\ f[5] = High(fid) /\ ~ (Len(f) < 5)
    BY <1>4, <1>6
  <1>8. From(f, 6) = p
    <2>1. From(f, Len(h) + 1) = p
      BY <1>4, <1>5, FromJoined
    <2>2. Len(h) + 1 = 6
      BY <1>4
    <2> QED BY <2>1, <2>2, Zenon
  <1>9. Uint16(f, 4) = fid
    <2>1. f[4 + 1] = High(fid)
      BY <1>7
    <2> QED BY <1>7, <2>1, Uint16Read
  <1>10. encodeExtended(0, fid, p) = f
    BY <1>1, <1>2, <1>3, <1>5, Zenon DEF encodeExtended, Cat
  <1>11. decodeExtended(f) = Ok([seq |-> 0, frameID |-> fid, params |-> p])
    BY <1>7, <1>8, <1>9, Zenon DEF decodeExtended
  <1> QED BY <1>6, <1>10, <1>11, Zenon

(* The frame ID a frame has when it is decoded in the format it was        *)
(* encoded in.                                                             *)
Wire(e, fid) == IF e THEN fid ELSE Low(fid)

(* What is decoded in the format it was encoded in is what was encoded;    *)
(* of a frame ID the legacy format keeps the low byte.                     *)
THEOREM FrameRoundTrip ==
  ASSUME NEW e \in BOOLEAN, NEW fid \in Word, NEW p \in Seq(Byte)
  PROVE  /\ encode(e, 0, fid, p) \in Seq(Byte)
         /\ decode(e, encode(e, 0, fid, p)) =
              Ok([seq |-> 0, frameID |-> Wire(e, fid), params |-> p])
  <1>1. CASE e
    BY <1>1, ExtendedRoundTrip DEF encode, decode, Wire
  <1>2. CASE ~e
    BY <1>2, LegacyRoundTrip DEF encode, decode, Wire
  <1> QED BY <1>1, <1>2

(* What is decoded from bytes.                                             *)
LEMMA Decoded ==
  ASSUME NEW e \in BOOLEAN, NEW f \in Seq(Byte), decode(e, f).ok
  PROVE  decode(e, f).v.params \in Seq(Byte) /\ decode(e, f).v.frameID \in Word
  <1>1. Len(f) \in Nat /\ \A i \in 1 .. Len(f) : f[i] \in Byte
    BY LenProperties
  <1>2. CASE e
    <2>1. /\ ~ (Len(f) < 5)
          /\ decode(e, f).v.params = From(f, 6)
          /\ decode(e, f).v.frameID = Uint16(f, 4)
      <3>1. decode(e, f) =
              IF Len(f) < 5 THEN [ok |-> FALSE, v |-> 0]
              ELSE [ok |-> TRUE, v |-> [seq |-> f[1], frameID |-> Uint16(f, 4),
                                        params |-> From(f, 6)]]
        BY <1>2, Zenon DEF decode, decodeExtended, Err, Ok
      <3>2. ~ (Len(f) < 5)
        BY ONLY <3>1, decode(e, f).ok
      <3> QED BY ONLY <3>1, <3>2
    <2>2. From(f, 5 + 1) \in Seq(Byte)
      <3>1. 5 \in 0 .. Len(f)
        BY <1>1, <2>1
      <3> QED BY <3>1, FromRest
    <2>3. f[4] \in Byte /\ f[5] \in Byte
      BY <1>1, <2>1
    <2>4. Uint16(f, 4) \in Word
      <3>1. f[4] + 256 * f[5] \in Word
        BY ONLY <2>3, BytesWord
      <3>2. 4 + 1 = 5
        OBVIOUS
      <3> QED BY ONLY <3>1, <3>2, Zenon DEF Uint16
    <2>5. From(f, 6) \in Seq(Byte)
      <3>1. 5 + 1 = 6
        OBVIOUS
      <3> QED BY <2>2, <3>1, Zenon
    <2> QED BY <2>1, <2>4, <2>5
  <1>3. CASE ~e
    <2>1. /\ ~ (Len(f) < 3)
          /\ decode(e, f).v.params = From(f, 4)
          /\ decode(e, f).v.frameID = f[3]
      <3>1. decode(e, f) =
              IF Len(f) < 3 THEN [ok |-> FALSE, v |-> 0]
              ELSE [ok |-> TRUE, v |-> [seq |-> f[1], frameID |-> f[3],
                                        params |-> From(f, 4)]]
        BY <1>3, Zenon DEF decode, decodeLegacy, Err, Ok
      <3>2. ~ (Len(f) < 3)
        BY ONLY <3>1, decode(e, f).ok
      <3> QED BY ONLY <3>1, <3>2
    <2>2. From(f, 3 + 1) \in Seq(Byte)
      <3>1. 3 \in 0 .. Len(f)
        BY <1>1, <2>1
      <3> QED BY <3>1, FromRest
    <2>3. f[3] \in Word
      <3>1. f[3] \in Byte
        BY ONLY <1>1, <2>1
      <3> QED BY ONLY <3>1, BytesWord
    <2>4. From(f, 4) \in Seq(Byte)
      <3>1. 3 + 1 = 4
        OBVIOUS
      <3> QED BY <2>2, <3>1, Zenon
    <2> QED BY <2>1, <2>3, <2>4
  <1> QED BY <1>2, <1>3

------------------------------------------------------------------------------
(* Parameters of requests.                                                 *)

LEMMA MaskBytes ==
  ASSUME NEW c \in Byte
  PROVE  ChannelMask(c) \in Seq(Byte) /\ Len(ChannelMask(c)) = 4
  <1> DEFINE bits == <<1, 2, 4, 8, 16, 32, 64, 128>>
             bit == bits[(c % 8) + 1]
  <1>1. bit \in Byte
    <2>1. PICK r \in 0 .. 7 : r = c % 8
      BY DEF Byte
    <2>2. bits[r + 1] \in Byte
      BY DEF Byte
    <2> QED BY <2>1, <2>2, Zenon
  <1> HIDE DEF bits, bit
  <1>2. [k \in 1 .. 4 |-> IF c \div 8 = k - 1 THEN bit ELSE 0]
        \in [1 .. 4 -> Byte]
    BY <1>1 DEF Byte
  <1>3. ChannelMask(c) = [k \in 1 .. 4 |-> IF c \div 8 = k - 1 THEN bit ELSE 0]
    BY DEF ChannelMask, bit, bits
  <1>4. ChannelMask(c) \in [1 .. 4 -> Byte]
    BY <1>2, <1>3, Zenon
  <1> QED BY <1>4, IsSeq

(* The network key is in the second half of the parameters.                *)
LEMMA SecurityParams ==
  ASSUME NEW lk \in Seq(Byte), NEW nk \in Seq(Byte),
         Len(lk) = 16, Len(nk) = 16
  PROVE  /\ SetInitialSecurityStateParams(lk, nk) \in Seq(Byte)
         /\ SetInitialSecurityStateParams(lk, nk)[19] = nk[1]
  <1>1. PICK a : a = PutUint16(securityBitmask)
    OBVIOUS
  <1>2. a \in Seq(Byte) /\ Len(a) = 2
    <2>1. securityBitmask \in Int
      BY DEF securityBitmask
    <2> QED BY <1>1, <2>1, PutUint16Bytes
  <1>3. PICK z : z = Repeat(0, 9)
    OBVIOUS
  <1>4. z \in Seq(Byte)
    <2>1. 0 \in Byte
      BY DEF Byte
    <2> QED BY <1>3, <2>1, RepeatBytes
  <1>5. PICK b : b = Cat(a, lk)
    OBVIOUS
  <1>6. b \in Seq(Byte) /\ Len(b) = 18
    <2>1. b \in Seq(Byte) /\ Len(b) = Len(a) + Len(lk)
      BY <1>2, <1>5, CatLen
    <2> QED BY <1>2, <2>1
  <1>7. PICK c : c = Cat(b, nk)
    OBVIOUS
  <1>8. c \in Seq(Byte) /\ Len(c) = 34 /\ c[19] = nk[1]
    <2>1. c \in Seq(Byte) /\ Len(c) = Len(b) + Len(nk)
      BY <1>6, <1>7, CatLen
    <2>2. \A i \in 1 .. Len(nk) : c[Len(b) + i] = nk[i]
      BY <1>6, <1>7, CatRight
    <2>3. c[Len(b) + 1] = nk[1]
      BY <2>2
    <2> QED BY <1>6, <2>1, <2>3
  <1>9. Cat(c, z) \in Seq(Byte) /\ Cat(c, z)[19] = c[19]
    <2>1. 19 \in 1 .. Len(c)
      BY <1>8
    <2> QED BY <1>4, <1>8, <2>1, CatLen, CatLeft
  <1>10. SetInitialSecurityStateParams(lk, nk) = Cat(c, z)
    BY <1>1, <1>3, <1>5, <1>7, Zenon DEF SetInitialSecurityStateParams, Cat
  <1> QED BY <1>8, <1>9, <1>10, Zenon

(* What formNetwork is asked to form can be read from its parameters.      *)
THEOREM FormRoundTrip ==
  ASSUME NEW np, np.extendedPanID \in Seq(Byte), Len(np.extendedPanID) = 8,
         np.panID \in Int, np.radioTxPower \in Int, np.radioChannel \in Byte,
         NEW p, p = FormNetworkParams(np)
  PROVE  /\ p \in Seq(Byte) /\ p[12] = np.radioChannel
         /\ SubSeq(p, 1, 8) = np.extendedPanID
         /\ np.panID \in Word => Uint16(p, 9) = np.panID
         /\ np.radioTxPower \in -128 .. 127 => Int8(p[11]) = np.radioTxPower
  <1> DEFINE x == np.extendedPanID
             panID == np.panID
             tx == np.radioTxPower
             c == np.radioChannel
  <1>0. /\ x \in Seq(Byte) /\ Len(x) = 8
        /\ panID \in Int /\ tx \in Int /\ c \in Byte
    OBVIOUS
  <1>a. p = x \o PutUint16(panID) \o <<tx % 256, c>> \o Repeat(0, 4)
              \o ChannelMask(c)
    BY Zenon DEF FormNetworkParams
  <1> HIDE DEF x, panID, tx, c
  <1>1. PICK u : u = PutUint16(panID)
    OBVIOUS
  <1>2. /\ u \in Seq(Byte) /\ Len(u) = 2 /\ u[1] = Low(panID)
        /\ u[2] = High(panID)
    BY ONLY <1>0, <1>1, PutUint16Bytes
  <1>3. PICK t : t = <<Low(tx), c>>
    OBVIOUS
  <1>4. t \in Seq(Byte) /\ Len(t) = 2 /\ t[1] = Low(tx) /\ t[2] = c
    <2>1. Low(tx) \in Byte
      BY ONLY <1>0, ByteOf
    <2> QED BY ONLY <1>0, <1>3, <2>1
  <1>5. PICK z : z = Repeat(0, 4)
    OBVIOUS
  <1>6. z \in Seq(Byte) /\ Len(z) = 4
    <2>1. 0 \in Byte
      BY DEF Byte
    <2> QED BY <1>5, <2>1, RepeatBytes
  <1>7. PICK m : m = ChannelMask(c)
    OBVIOUS
  <1>8. m \in Seq(Byte) /\ Len(m) = 4
    BY ONLY <1>0, <1>7, MaskBytes
  <1>9. PICK a : a = Cat(x, u)
    OBVIOUS
  <1>10. /\ a \in Seq(Byte) /\ Len(a) = 10 /\ a[9] = u[1] /\ a[10] = u[2]
         /\ \A i \in 1 .. 8 : a[i] = x[i]
    <2>1. /\ a \in Seq(Byte) /\ Len(a) = Len(x) + Len(u)
          /\ \A i \in 1 .. Len(x) : a[i] = x[i]
      BY ONLY <1>0, <1>2, <1>9, CatLen, CatLeft
    <2>2. \A i \in 1 .. Len(u) : a[Len(x) + i] = u[i]
      BY ONLY <1>0, <1>2, <1>9, CatRight
    <2>3. a[Len(x) + 1] = u[1] /\ a[Len(x) + 2] = u[2]
      BY <1>2, <2>2
    <2> QED BY ONLY <1>0, <1>2, <2>1, <2>3
  <1>11. PICK b : b = Cat(a, t)
    OBVIOUS
  <1>12. /\ b \in Seq(Byte) /\ Len(b) = 12 /\ b[11] = t[1] /\ b[12] = t[2]
         /\ \A i \in 1 .. 10 : b[i] = a[i]
    <2>1. /\ b \in Seq(Byte) /\ Len(b) = Len(a) + Len(t)
          /\ \A i \in 1 .. Len(a) : b[i] = a[i]
      BY <1>4, <1>10, <1>11, CatLen, CatLeft
    <2>2. \A i \in 1 .. Len(t) : b[Len(a) + i] = t[i]
      BY <1>4, <1>10, <1>11, CatRight
    <2>3. b[Len(a) + 1] = t[1] /\ b[Len(a) + 2] = t[2]
      BY <1>4, <2>2
    <2> QED BY <1>4, <1>10, <2>1, <2>3
  <1>13. PICK d : d = Cat(b, z)
    OBVIOUS
  <1>14. /\ d \in Seq(Byte) /\ Len(d) = 16
         /\ \A i \in 1 .. 12 : d[i] = b[i]
    <2>1. /\ d \in Seq(Byte) /\ Len(d) = Len(b) + Len(z)
          /\ \A i \in 1 .. Len(b) : d[i] = b[i]
      BY <1>6, <1>12, <1>13, CatLen, CatLeft
    <2> QED BY <1>6, <1>12, <2>1
  <1>15. PICK q : q = Cat(d, m)
    OBVIOUS
  <1>16. /\ q \in Seq(Byte) /\ Len(q) = 20
         /\ \A i \in 1 .. 16 : q[i] = d[i]
    <2>1. /\ q \in Seq(Byte) /\ Len(q) = Len(d) + Len(m)
          /\ \A i \in 1 .. Len(d) : q[i] = d[i]
      BY ONLY <1>8, <1>14, <1>15, CatLen, CatLeft
    <2> QED BY ONLY <1>8, <1>14, <2>1
  <1>17. /\ q[9] = Low(panID) /\ q[10] = High(panID) /\ q[11] = Low(tx)
         /\ q[12] = c /\ \A i \in 1 .. 8 : q[i] = x[i]
    <2>1. /\ q[9] = d[9] /\ q[10] = d[10] /\ q[11] = d[11] /\ q[12] = d[12]
          /\ \A i \in 1 .. 8 : q[i] = d[i]
      BY ONLY <1>16
    <2>2. /\ d[9] = b[9] /\ d[10] = b[10] /\ d[11] = b[11] /\ d[12] = b[12]
          /\ \A i \in 1 .. 8 : d[i] = b[i]
      BY ONLY <1>14
    <2>3. /\ b[9] = a[9] /\ b[10] = a[10]
          /\ \A i \in 1 .. 8 : b[i] = a[i]
      BY ONLY <1>12
    <2>4. \A i \in 1 .. 8 : q[i] = x[i]
      <3> SUFFICES ASSUME NEW i \in 1 .. 8 PROVE q[i] = x[i]
        OBVIOUS
      <3>1. q[i] = d[i] /\ d[i] = b[i] /\ b[i] = a[i] /\ a[i] = x[i]
        BY ONLY <1>10, <2>1, <2>2, <2>3, i \in 1 .. 8, Zenon
      <3> QED BY ONLY <3>1
    <2>5. q[9] = Low(panID) /\ q[10] = High(panID)
      BY ONLY <1>2, <1>10, <2>1, <2>2, <2>3
    <2>6. q[11] = Low(tx) /\ q[12] = c
      BY ONLY <1>4, <1>12, <2>1, <2>2
    <2> QED BY ONLY <2>4, <2>5, <2>6
  <1>18. SubSeq(q, 1, 8) = x
    <2>1. \A i \in 1 .. 8 : q[i] \in Byte
      <3>1. \A i \in 1 .. Len(q) : q[i] \in Byte
        BY ONLY <1>16, LenProperties
      <3> QED BY ONLY <1>16, <3>1
    <2>2. \A i \in 1 .. 8 : SubSeq(q, 1, 8)[i] = q[i]
      <3>1. \A i \in 1 .. 8 - 1 + 1 : SubSeq(q, 1, 8)[i] = q[1 + i - 1]
        BY ONLY <2>1, SubSeqProperties
      <3>2. \A i \in 1 .. 8 : 1 + i - 1 = i
        OBVIOUS
      <3> QED BY ONLY <3>1, <3>2
    <2>3. SubSeq(q, 1, 8) \in Seq(Byte) /\ Len(SubSeq(q, 1, 8)) = 8
      BY ONLY <2>1, SubSeqProperties
    <2>4. \A i \in 1 .. 8 : SubSeq(q, 1, 8)[i] = x[i]
      BY ONLY <1>17, <2>2
    <2>5. x \in Seq(Byte) /\ Len(x) = 8
      BY ONLY <1>0
    <2> QED BY ONLY <2>3, <2>4, <2>5, SeqEqual
  <1>19. panID \in Word => Uint16(q, 9) = panID
    <2>1. q[9 + 1] = High(panID)
      BY ONLY <1>17
    <2> QED BY ONLY <1>17, <2>1, Uint16Read
  <1>20. tx \in -128 .. 127 => Int8(q[11]) = tx
    BY ONLY <1>17, Int8Byte DEF Low
  <1>21. p = q
    BY ONLY <1>a, <1>1, <1>3, <1>5, <1>7, <1>9, <1>11, <1>13, <1>15, Zenon
    DEF Cat, Low
  <1> QED BY ONLY <1>16, <1>17, <1>18, <1>19, <1>20, <1>21, Zenon
          DEF x, panID, tx, c
------------------------------------------------------------------------------
(* The parameters of the network in a response.                            *)

(* A response with the parameters of a network; m is what some versions    *)
(* have between the PAN ID and the transmit power.                         *)
ParametersResponse(nodeType, x, panID, m, tx, c) ==
  <<0, nodeType>> \o x \o PutUint16(panID) \o m \o <<tx % 256, c>>
    \o Repeat(0, 8)

(* Whatever a version puts between the PAN ID and the transmit power, the  *)
(* parameters that were written into the response are read from it: the    *)
(* last of them are found from its end (ezsp.go:264).                      *)
THEOREM ParametersRoundTrip ==
  ASSUME NEW nodeType \in Byte, NEW x \in Seq(Byte), Len(x) = 8,
         NEW panID \in Word, NEW m \in Seq(Byte),
         NEW tx \in -128 .. 127, NEW c \in Byte
  PROVE  GetNetworkParameters(
             ParametersResponse(nodeType, x, panID, m, tx, c)) =
           Ok([nodeType |-> nodeType, extendedPanID |-> x, panID |-> panID,
               radioTxPower |-> tx, radioChannel |-> c])
  <1>1. 0 \in Byte /\ panID \in Int /\ tx % 256 \in Byte /\ 8 \in Nat
    BY ONLY panID \in Word, tx \in -128 .. 127 DEF Byte, Word
  <1>2. PICK h : h = <<0, nodeType>>
    BY ONLY TRUE, Zenon
  <1>3. h \in Seq(Byte) /\ Len(h) = 2 /\ h[1] = 0 /\ h[2] = nodeType
    BY ONLY <1>1, <1>2, nodeType \in Byte
  <1>4. PICK u : u = PutUint16(panID)
    BY ONLY TRUE, Zenon
  <1>5. /\ u \in Seq(Byte) /\ Len(u) = 2
        /\ u[1] = Low(panID) /\ u[2] = High(panID)
    BY ONLY <1>1, <1>4, PutUint16Bytes
  <1>6. PICK t : t = <<tx % 256, c>>
    BY ONLY TRUE, Zenon
  <1>7. t \in Seq(Byte) /\ Len(t) = 2 /\ t[1] = tx % 256 /\ t[2] = c
    <2>1. PICK v \in Byte : v = tx % 256
      BY ONLY <1>1, Zenon
    <2> QED BY ONLY <1>6, <2>1, c \in Byte
  <1>8. PICK z : z = Repeat(0, 8)
    BY ONLY TRUE, Zenon
  <1>9. z \in Seq(Byte) /\ Len(z) = 8
    <2>1. Repeat(0, 8) \in Seq(Byte) /\ Len(Repeat(0, 8)) = 8
      <3>1. 0 \in Byte /\ 8 \in Nat
        BY ONLY <1>1, Zenon
      <3> QED BY ONLY <3>1, RepeatBytes, ZenonT(60)
    <2> QED BY ONLY <1>8, <2>1, Zenon
  <1>10. PICK l \in Nat : l = Len(m)
    BY ONLY m \in Seq(Byte), CatLen
  <1>11. PICK a : a = Cat(h, x)
    BY ONLY TRUE, Zenon
  <1>12. /\ a \in Seq(Byte) /\ Len(a) = 10 /\ a[1] = 0 /\ a[2] = nodeType
        /\ \A i \in 1 .. 8 : a[2 + i] = x[i]
    <2>1. /\ a \in Seq(Byte) /\ Len(a) = 2 + 8
          /\ \A i \in 1 .. 2 : a[i] = h[i]
          /\ \A i \in 1 .. 8 : a[2 + i] = x[i]
      <3>1. /\ a \in Seq(Byte) /\ Len(a) = Len(h) + Len(x)
            /\ \A i \in 1 .. Len(h) : a[i] = h[i]
        BY ONLY <1>3, <1>11, x \in Seq(Byte), Len(x) = 8, CatLen, CatLeft
      <3>2. \A i \in 1 .. Len(x) : a[Len(h) + i] = x[i]
        BY ONLY <1>3, <1>11, x \in Seq(Byte), Len(x) = 8, CatRight
      <3>3. Len(h) = 2 /\ Len(x) = 8
        BY ONLY <1>3, <1>11, x \in Seq(Byte), Len(x) = 8
      <3> QED BY ONLY <3>1, <3>2, <3>3, Zenon
    <2>2. a[1] = h[1] /\ a[2] = h[2]
      BY ONLY <2>1
    <2> QED BY ONLY <1>3, <2>1, <2>2
  <1>13. PICK b : b = Cat(a, u)
    BY ONLY TRUE, Zenon
  <1>14. /\ b \in Seq(Byte) /\ Len(b) = 12
        /\ b[11] = Low(panID) /\ b[12] = High(panID)
        /\ \A i \in 1 .. 10 : b[i] = a[i]
    <2>1. /\ b \in Seq(Byte) /\ Len(b) = 10 + 2
          /\ \A i \in 1 .. 10 : b[i] = a[i]
          /\ \A i \in 1 .. 2 : b[10 + i] = u[i]
      <3>1. /\ b \in Seq(Byte) /\ Len(b) = Len(a) + Len(u)
            /\ \A i \in 1 .. Len(a) : b[i] = a[i]
        BY ONLY <1>5, <1>12, <1>13, CatLen, CatLeft, ZenonT(60)
      <3>2. \A i \in 1 .. Len(u) : b[Len(a) + i] = u[i]
        BY ONLY <1>5, <1>12, <1>13, CatRight
      <3>3. Len(a) = 10 /\ Len(u) = 2
        BY ONLY <1>5, <1>12, <1>13
      <3> QED BY ONLY <3>1, <3>2, <3>3, Zenon
    <2>2. b[10 + 1] = u[1] /\ b[10 + 2] = u[2]
      BY ONLY <2>1
    <2> QED BY ONLY <1>5, <2>1, <2>2
  <1>15. PICK d : d = Cat(b, m)
    BY ONLY TRUE, Zenon
  <1>16. /\ d \in Seq(Byte) /\ Len(d) = 12 + l
        /\ \A i \in 1 .. 12 : d[i] = b[i]
    <2>1. /\ d \in Seq(Byte) /\ Len(d) = Len(b) + Len(m)
          /\ \A i \in 1 .. Len(b) : d[i] = b[i]
      BY ONLY <1>10, <1>14, <1>15, m \in Seq(Byte), CatLen, CatLeft
    <2>2. Len(b) = 12 /\ Len(m) = l
      BY ONLY <1>10, <1>14, <1>15, m \in Seq(Byte)
    <2> QED BY ONLY <2>1, <2>2, Zenon
  <1>17. PICK e : e = Cat(d, t)
    BY ONLY TRUE, Zenon
  <1>18. /\ e \in Seq(Byte) /\ Len(e) = 14 + l
        /\ e[13 + l] = tx % 256 /\ e[14 + l] = c
        /\ \A i \in 1 .. 12 : e[i] = d[i]
    <2>1. /\ e \in Seq(Byte) /\ Len(e) = (12 + l) + 2
          /\ \A i \in 1 .. 12 + l : e[i] = d[i]
          /\ \A i \in 1 .. 2 : e[(12 + l) + i] = t[i]
      <3>1. /\ e \in Seq(Byte) /\ Len(e) = Len(d) + Len(t)
            /\ \A i \in 1 .. Len(d) : e[i] = d[i]
        BY ONLY <1>7, <1>16, <1>17, CatLen, CatLeft, ZenonT(60)
      <3>2. \A i \in 1 .. Len(t) : e[Len(d) + i] = t[i]
        BY ONLY <1>7, <1>16, <1>17, CatRight, ZenonT(60)
      <3>3. Len(d) = 12 + l /\ Len(t) = 2
        BY ONLY <1>7, <1>16, <1>17
      <3> QED BY ONLY <3>1, <3>2, <3>3, Zenon
    <2>2. /\ e[(12 + l) + 1] = t[1] /\ e[(12 + l) + 2] = t[2]
          /\ \A i \in 1 .. 12 : i \in 1 .. 12 + l
      BY ONLY <1>10, <2>1
    <2>3. (12 + l) + 1 = 13 + l /\ (12 + l) + 2 = 14 + l
      BY ONLY <1>10
    <2>4. /\ e[13 + l] = t[1] /\ e[14 + l] = t[2]
          /\ \A i \in 1 .. 12 : e[i] = d[i]
      BY ONLY <2>1, <2>2, <2>3, Zenon
    <2>5. e \in Seq(Byte) /\ Len(e) = 14 + l
      BY ONLY <1>10, <2>1
    <2> QED BY ONLY <1>7, <2>4, <2>5
  <1>19. PICK r : r = Cat(e, z)
    BY ONLY TRUE, Zenon
  <1>20. /\ r \in Seq(Byte) /\ Len(r) = 22 + l
         /\ \A i \in 1 .. 14 + l : r[i] = e[i]
    <2>1. /\ r \in Seq(Byte) /\ Len(r) = (14 + l) + 8
          /\ \A i \in 1 .. 14 + l : r[i] = e[i]
      <3>1. /\ r \in Seq(Byte) /\ Len(r) = Len(e) + Len(z)
            /\ \A i \in 1 .. Len(e) : r[i] = e[i]
        BY ONLY <1>9, <1>18, <1>19, CatLen, CatLeft,
                ZenonT(60)
      <3>2. Len(e) = 14 + l /\ Len(z) = 8
        BY ONLY <1>9, <1>18, <1>19
      <3> QED BY ONLY <3>1, <3>2, Zenon
    <2> QED BY ONLY <1>10, <2>1
  <1>21. /\ r[1] = 0 /\ r[2] = nodeType
         /\ r[11] = Low(panID) /\ r[12] = High(panID)
         /\ r[13 + l] = tx % 256 /\ r[14 + l] = c
         /\ \A i \in 1 .. 8 : r[2 + i] = x[i]
    <2>1. /\ \A i \in 1 .. 12 : r[i] = e[i]
          /\ r[13 + l] = e[13 + l] /\ r[14 + l] = e[14 + l]
      <3>1. /\ \A i \in 1 .. 12 : i \in 1 .. 14 + l
            /\ 13 + l \in 1 .. 14 + l /\ 14 + l \in 1 .. 14 + l
        BY ONLY <1>10
      <3> QED BY ONLY <1>20, <3>1, Zenon
    <2>2. /\ \A i \in 1 .. 12 : r[i] = b[i]
      <3>1. /\ \A i \in 1 .. 12 : r[i] = e[i]
            /\ \A i \in 1 .. 12 : e[i] = d[i]
            /\ \A i \in 1 .. 12 : d[i] = b[i]
        BY ONLY <1>16, <1>18, <2>1, Zenon
      <3> QED BY ONLY <3>1, Zenon
    <2>3. \A i \in 1 .. 10 : r[i] = a[i]
      <3>1. \A i \in 1 .. 10 : i \in 1 .. 12
        OBVIOUS
      <3>2. \A i \in 1 .. 10 : b[i] = a[i]
        BY ONLY <1>14, Zenon
      <3> QED BY ONLY <2>2, <3>1, <3>2, Zenon
    <2>4. \A i \in 1 .. 8 : r[2 + i] = x[i]
      <3>1. \A i \in 1 .. 8 : 2 + i \in 1 .. 10
        OBVIOUS
      <3> QED BY ONLY <1>12, <2>3, <3>1, Zenon
    <2>5. r[1] = a[1] /\ r[2] = a[2] /\ r[11] = b[11] /\ r[12] = b[12]
      BY ONLY <2>2, <2>3
    <2> QED BY ONLY <1>12, <1>14, <1>18, <2>1, <2>4, <2>5, Zenon
  <1>22. SubSeq(r, 3, 10) = x
    <2>1. \A i \in 3 .. 10 : r[i] \in Byte
      <3>1. \A i \in 1 .. Len(r) : r[i] \in Byte
        BY ONLY <1>20, LenProperties
      <3> QED BY ONLY <1>10, <1>20, <3>1
    <2>2. /\ SubSeq(r, 3, 10) \in Seq(Byte) /\ Len(SubSeq(r, 3, 10)) = 8
          /\ \A i \in 1 .. 8 : SubSeq(r, 3, 10)[i] = r[3 + i - 1]
      <3>1. /\ SubSeq(r, 3, 10) \in Seq(Byte)
            /\ Len(SubSeq(r, 3, 10)) = IF 3 <= 10 THEN 10 - 3 + 1 ELSE 0
            /\ \A i \in 1 .. 10 - 3 + 1 : SubSeq(r, 3, 10)[i] = r[3 + i - 1]
        BY ONLY <2>1, SubSeqProperties
      <3> QED BY ONLY <3>1
    <2>3. \A i \in 1 .. 8 : SubSeq(r, 3, 10)[i] = x[i]
      <3> SUFFICES ASSUME NEW i \in 1 .. 8
                   PROVE  SubSeq(r, 3, 10)[i] = x[i]
        OBVIOUS
      <3>1. SubSeq(r, 3, 10)[i] = r[3 + i - 1] /\ 3 + i - 1 = 2 + i
        BY ONLY <2>2
      <3>2. r[2 + i] = x[i]
        BY ONLY <1>21
      <3> QED BY ONLY <3>1, <3>2
    <2> QED BY ONLY <2>2, <2>3, x \in Seq(Byte), Len(x) = 8, SeqEqual
  <1>23. Uint16(r, 11) = panID
    BY ONLY <1>21, panID \in Word, Uint16Read
  <1>24. Int8(tx % 256) = tx
    BY ONLY tx \in -128 .. 127, Int8Byte
  <1>25. /\ ~ (Len(r) < 22) /\ Len(r) - 9 = 13 + l /\ Len(r) - 8 = 14 + l
    BY ONLY <1>10, <1>20
  <1>26. GetNetworkParameters(r) =
           Ok([nodeType |-> nodeType, extendedPanID |-> x, panID |-> panID,
               radioTxPower |-> tx, radioChannel |-> c])
    BY ONLY <1>21, <1>22, <1>23, <1>24, <1>25 DEF GetNetworkParameters
  <1> QED BY ONLY <1>26, <1>2, <1>4, <1>6, <1>8, <1>11,
                  <1>13, <1>15, <1>17, <1>19, Zenon
          DEF Cat, ParametersResponse

==============================================================================
