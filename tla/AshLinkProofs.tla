---------------------------- MODULE AshLinkProofs ----------------------------
(* Theorems about AshLink: the host inside it is AshConn, no request is    *)
(* carried out twice or out of order, and it implements AshService.        *)
EXTENDS AshLink, AshConnProofs

------------------------------------------------------------------------------
(* Sequences of frames under Append and Tail.                              *)

LEMMA AppendFrames ==
  ASSUME NEW w \in Seq(Frame), NEW f \in Frame
  PROVE  /\ Append(w, f) \in Seq(Frame) /\ Len(w) \in Nat
         /\ DOMAIN w = 1 .. Len(w)
         /\ Len(Append(w, f)) = Len(w) + 1
         /\ DOMAIN Append(w, f) = 1 .. Len(w) + 1
         /\ \A i \in 1 .. Len(w) : Append(w, f)[i] = w[i]
         /\ Append(w, f)[Len(w) + 1] = f
  BY AppendProperties, LenProperties

LEMMA TailFrames ==
  ASSUME NEW w \in Seq(Frame), w # <<>>
  PROVE  /\ Tail(w) \in Seq(Frame) /\ Head(w) \in Frame /\ Head(w) = w[1]
         /\ Len(w) \in Nat \ {0} /\ DOMAIN w = 1 .. Len(w)
         /\ Len(Tail(w)) = Len(w) - 1 /\ DOMAIN Tail(w) = 1 .. Len(w) - 1
         /\ \A i \in 1 .. Len(w) - 1 : Tail(w)[i] = w[i + 1]
  <1>1. /\ Tail(w) \in Seq(Frame) /\ Head(w) \in Frame
        /\ Len(Tail(w)) = Len(w) - 1
        /\ \A i \in 1 .. Len(Tail(w)) : Tail(w)[i] = w[i + 1]
    BY HeadTailProperties
  <1>2. Head(w) = w[1] /\ Len(w) \in Nat \ {0} /\ DOMAIN w = 1 .. Len(w)
    BY EmptySeq, LenProperties
  <1>3. DOMAIN Tail(w) = 1 .. Len(w) - 1
    BY <1>1, LenProperties
  <1> QED BY <1>1, <1>2, <1>3

(* The request ids of a wire that holds requests only are numbers.         *)
LEMMA IdTypes ==
  ASSUME NEW w \in Seq(Frame), NEW n \in Nat, Requests(w, n)
  PROVE  \A i \in DOMAIN w : IsRequest(w, i) => w[i].pay.id \in 1 .. n
  BY DEF Requests

(* A control frame at the end of the wire disturbs nothing but, if it is a *)
(* RST, the copies before it.                                              *)
LEMMA AppendControl ==
  ASSUME NEW w \in Seq(Frame), NEW f \in Frame, f.type # "DATA",
         NEW n \in Nat, NEW last \in Nat, NEW rx \in Num, NEW g \in Num,
         NEW v, v = Append(w, f)
  PROVE  /\ Requests(w, n) => Requests(v, n)
         /\ Ordered(w) => Ordered(v)
         /\ FreshOrCopy(w, last, rx) => FreshOrCopy(v, last, rx)
         /\ f.type # "RST" /\ CopiesOf(w, n, g) => CopiesOf(v, n, g)
         /\ f.type # "RST" /\ NoRst(w, 1, Len(w)) => NoRst(v, 1, Len(v))
  <1>1. /\ v \in Seq(Frame) /\ Len(w) \in Nat /\ DOMAIN w = 1 .. Len(w)
        /\ Len(v) = Len(w) + 1 /\ DOMAIN v = 1 .. Len(w) + 1
        /\ \A i \in 1 .. Len(w) : v[i] = w[i]
        /\ v[Len(w) + 1] = f
    BY AppendFrames
  <1>2. \A i \in DOMAIN v : IsRequest(v, i) =>
          i \in DOMAIN w /\ IsRequest(w, i) /\ v[i] = w[i]
    BY <1>1 DEF IsRequest
  <1>3. Requests(w, n) => Requests(v, n)
    BY <1>2 DEF Requests
  <1>4. \A a \in Nat \ {0}, b \in 1 .. Len(w) : NoRst(w, a, b) => NoRst(v, a, b)
    BY <1>1 DEF NoRst
  <1>5. Ordered(w) => Ordered(v)
    <2> SUFFICES ASSUME Ordered(w), NEW i \in DOMAIN v, NEW j \in DOMAIN v,
                        i < j, IsRequest(v, i), IsRequest(v, j)
                 PROVE  /\ v[i].pay.id <= v[j].pay.id
                        /\ v[i].pay.id = v[j].pay.id =>
                             v[i].frm = v[j].frm /\ NoRst(v, i, j)
      BY DEF Ordered
    <2>1. /\ i \in DOMAIN w /\ IsRequest(w, i) /\ v[i] = w[i]
          /\ j \in DOMAIN w /\ IsRequest(w, j) /\ v[j] = w[j]
      BY <1>2
    <2>2. i \in Nat \ {0} /\ j \in 1 .. Len(w)
      BY <1>1, <2>1
    <2> QED BY <1>4, <2>1, <2>2 DEF Ordered
  <1>6. FreshOrCopy(w, last, rx) => FreshOrCopy(v, last, rx)
    <2> SUFFICES ASSUME FreshOrCopy(w, last, rx), NEW i \in DOMAIN v,
                        IsRequest(v, i)
                 PROVE  /\ last <= v[i].pay.id
                        /\ v[i].pay.id = last =>
                             NextNum(v[i].frm) = rx /\ NoRst(v, 1, i)
      BY DEF FreshOrCopy
    <2>1. i \in DOMAIN w /\ IsRequest(w, i) /\ v[i] = w[i]
      BY <1>2
    <2>2. i \in 1 .. Len(w)
      BY <1>1, <2>1
    <2> QED BY <1>4, <2>1, <2>2 DEF FreshOrCopy
  <1>7. f.type # "RST" /\ CopiesOf(w, n, g) => CopiesOf(v, n, g)
    <2> SUFFICES ASSUME f.type # "RST", CopiesOf(w, n, g), NEW i \in DOMAIN v,
                        IsRequest(v, i), v[i].pay.id = n
                 PROVE  v[i].frm = g /\ NoRst(v, i, Len(v))
      BY DEF CopiesOf
    <2>1. i \in DOMAIN w /\ IsRequest(w, i) /\ v[i] = w[i]
      BY <1>2
    <2>2. w[i].frm = g /\ NoRst(w, i, Len(w))
      BY <2>1 DEF CopiesOf
    <2> QED BY <1>1, <2>1, <2>2 DEF NoRst
  <1>8. f.type # "RST" /\ NoRst(w, 1, Len(w)) => NoRst(v, 1, Len(v))
    BY <1>1 DEF NoRst
  <1> QED BY <1>3, <1>5, <1>6, <1>7, <1>8

(* A copy of request n, the last one made, at the end of the wire.         *)
LEMMA AppendRequest ==
  ASSUME NEW w \in Seq(Frame), NEW f \in Frame, f.type = "DATA",
         NEW n \in Nat \ {0}, f.pay = Req(n),
         NEW last \in Nat, NEW rx \in Num, last <= n,
         NEW v, v = Append(w, f),
         Requests(w, n), Ordered(w), FreshOrCopy(w, last, rx),
         CopiesOf(w, n, f.frm),
         last = n => NextNum(f.frm) = rx /\ NoRst(w, 1, Len(w))
  PROVE  /\ Requests(v, n) /\ Ordered(v) /\ FreshOrCopy(v, last, rx)
         /\ CopiesOf(v, n, f.frm)
         /\ last = n => NoRst(v, 1, Len(v))
  <1>1. /\ v \in Seq(Frame) /\ Len(w) \in Nat /\ DOMAIN w = 1 .. Len(w)
        /\ Len(v) = Len(w) + 1 /\ DOMAIN v = 1 .. Len(w) + 1
        /\ \A i \in 1 .. Len(w) : v[i] = w[i]
        /\ v[Len(w) + 1] = f
    BY AppendFrames
  <1>2. \A i \in DOMAIN v : IsRequest(v, i) =>
          \/ i \in DOMAIN w /\ IsRequest(w, i) /\ v[i] = w[i]
          \/ i = Len(w) + 1 /\ v[i] = f
    BY <1>1 DEF IsRequest
  <1>3. f.pay.kind = "req" /\ f.pay.id = n
    BY DEF Req
  <1>4. \A a \in Nat \ {0}, b \in 1 .. Len(w) : NoRst(w, a, b) => NoRst(v, a, b)
    BY <1>1 DEF NoRst
  <1>5. \A a \in Nat \ {0} : NoRst(w, a, Len(w)) => NoRst(v, a, Len(w) + 1)
    BY <1>1 DEF NoRst
  <1>6. NoRst(v, Len(w) + 1, Len(w) + 1)
    BY <1>1 DEF NoRst
  <1>7. Requests(v, n)
    BY <1>2, <1>3 DEF Requests
  <1>8. Ordered(v)
    <2> SUFFICES ASSUME NEW i \in DOMAIN v, NEW j \in DOMAIN v,
                        i < j, IsRequest(v, i), IsRequest(v, j)
                 PROVE  /\ v[i].pay.id <= v[j].pay.id
                        /\ v[i].pay.id = v[j].pay.id =>
                             v[i].frm = v[j].frm /\ NoRst(v, i, j)
      BY DEF Ordered
    <2>1. i \in 1 .. Len(w) /\ IsRequest(w, i) /\ v[i] = w[i]
      BY <1>1, <1>2
    <2>2. CASE j \in DOMAIN w
      <3>1. IsRequest(w, j) /\ v[j] = w[j] /\ j \in 1 .. Len(w)
        BY <1>1, <1>2, <2>2
      <3> QED BY <1>1, <1>4, <2>1, <3>1 DEF Ordered
    <2>3. CASE j = Len(w) + 1
      <3>1. w[i].pay.id \in 1 .. n
        BY <1>1, <2>1 DEF Requests
      <3>2. w[i].pay.id = n => w[i].frm = f.frm /\ NoRst(w, i, Len(w))
        BY <1>1, <2>1 DEF CopiesOf
      <3> QED BY <1>1, <1>3, <1>5, <2>1, <2>3, <3>1, <3>2
    <2> QED BY <1>1, <2>2, <2>3
  <1>9. FreshOrCopy(v, last, rx)
    <2> SUFFICES ASSUME NEW i \in DOMAIN v, IsRequest(v, i)
                 PROVE  /\ last <= v[i].pay.id
                        /\ v[i].pay.id = last =>
                             NextNum(v[i].frm) = rx /\ NoRst(v, 1, i)
      BY DEF FreshOrCopy
    <2>1. CASE i \in DOMAIN w /\ IsRequest(w, i) /\ v[i] = w[i]
      BY <1>1, <1>4, <2>1 DEF FreshOrCopy
    <2>2. CASE i = Len(w) + 1 /\ v[i] = f
      BY <1>3, <1>5, <2>2
    <2> QED BY <1>2, <2>1, <2>2
  <1>10. CopiesOf(v, n, f.frm)
    <2> SUFFICES ASSUME NEW i \in DOMAIN v, IsRequest(v, i), v[i].pay.id = n
                 PROVE  v[i].frm = f.frm /\ NoRst(v, i, Len(v))
      BY DEF CopiesOf
    <2>1. CASE i \in DOMAIN w /\ IsRequest(w, i) /\ v[i] = w[i]
      BY <1>1, <1>5, <2>1 DEF CopiesOf
    <2>2. CASE i = Len(w) + 1 /\ v[i] = f
      BY <1>1, <1>6, <2>2
    <2> QED BY <1>2, <2>1, <2>2
  <1>11. last = n => NoRst(v, 1, Len(v))
    BY <1>1, <1>5
  <1> QED BY <1>7, <1>8, <1>9, <1>10, <1>11

(* The first frame leaves the wire, whoever takes it.                      *)
LEMMA TailKeeps ==
  ASSUME NEW w \in Seq(Frame), w # <<>>, NEW v, v = Tail(w),
         NEW n \in Nat, NEW last \in Nat, NEW rx \in Num, NEW g \in Num
  PROVE  /\ Requests(w, n) => Requests(v, n)
         /\ Ordered(w) => Ordered(v)
         /\ FreshOrCopy(w, last, rx) => FreshOrCopy(v, last, rx)
         /\ CopiesOf(w, n, g) => CopiesOf(v, n, g)
         /\ NoRst(w, 1, Len(w)) => NoRst(v, 1, Len(v))
  <1>1. /\ v \in Seq(Frame) /\ Len(w) \in Nat \ {0} /\ DOMAIN w = 1 .. Len(w)
        /\ Len(v) = Len(w) - 1 /\ DOMAIN v = 1 .. Len(w) - 1
        /\ \A i \in 1 .. Len(w) - 1 : v[i] = w[i + 1]
    BY TailFrames
  <1>2. \A i \in DOMAIN v : i + 1 \in DOMAIN w /\ v[i] = w[i + 1]
                            /\ (IsRequest(v, i) => IsRequest(w, i + 1))
    BY <1>1 DEF IsRequest
  <1>3. \A a \in Nat \ {0}, b \in DOMAIN v :
          NoRst(w, a + 1, b + 1) => NoRst(v, a, b)
    <2> SUFFICES ASSUME NEW a \in Nat \ {0}, NEW b \in DOMAIN v,
                        NoRst(w, a + 1, b + 1), NEW k \in a .. b
                 PROVE  v[k].type # "RST"
      BY DEF NoRst
    <2>1. k \in DOMAIN v /\ k + 1 \in a + 1 .. b + 1
      BY <1>1
    <2> QED BY <1>2, <2>1 DEF NoRst
  <1>4. Requests(w, n) => Requests(v, n)
    BY <1>2 DEF Requests
  <1>5. Ordered(w) => Ordered(v)
    <2> SUFFICES ASSUME Ordered(w), NEW i \in DOMAIN v, NEW j \in DOMAIN v,
                        i < j, IsRequest(v, i), IsRequest(v, j)
                 PROVE  /\ v[i].pay.id <= v[j].pay.id
                        /\ v[i].pay.id = v[j].pay.id =>
                             v[i].frm = v[j].frm /\ NoRst(v, i, j)
      BY DEF Ordered
    <2>1. i + 1 \in DOMAIN w /\ j + 1 \in DOMAIN w /\ i + 1 < j + 1
          /\ i \in Nat \ {0}
      BY <1>1
    <2>2. /\ v[i] = w[i + 1] /\ IsRequest(w, i + 1)
          /\ v[j] = w[j + 1] /\ IsRequest(w, j + 1)
      BY <1>2
    <2>3. /\ w[i + 1].pay.id <= w[j + 1].pay.id
          /\ w[i + 1].pay.id = w[j + 1].pay.id =>
               w[i + 1].frm = w[j + 1].frm /\ NoRst(w, i + 1, j + 1)
      BY <2>1, <2>2 DEF Ordered
    <2> QED BY <1>3, <2>1, <2>2, <2>3
  <1>6. FreshOrCopy(w, last, rx) => FreshOrCopy(v, last, rx)
    <2> SUFFICES ASSUME FreshOrCopy(w, last, rx), NEW i \in DOMAIN v,
                        IsRequest(v, i)
                 PROVE  /\ last <= v[i].pay.id
                        /\ v[i].pay.id = last =>
                             NextNum(v[i].frm) = rx /\ NoRst(v, 1, i)
      BY DEF FreshOrCopy
    <2>1. i + 1 \in DOMAIN w /\ v[i] = w[i + 1] /\ IsRequest(w, i + 1)
      BY <1>2
    <2>2. /\ last <= w[i + 1].pay.id
          /\ w[i + 1].pay.id = last =>
               NextNum(w[i + 1].frm) = rx /\ NoRst(w, 1, i + 1)
      BY <2>1 DEF FreshOrCopy
    <2>3. NoRst(w, 1, i + 1) => NoRst(w, 2, i + 1)
      BY <1>1 DEF NoRst
    <2>4. NoRst(w, 2, i + 1) => NoRst(v, 1, i)
      BY <1>3
    <2> QED BY <2>1, <2>2, <2>3, <2>4
  <1>7. CopiesOf(w, n, g) => CopiesOf(v, n, g)
    <2> SUFFICES ASSUME CopiesOf(w, n, g), NEW i \in DOMAIN v,
                        IsRequest(v, i), v[i].pay.id = n
                 PROVE  v[i].frm = g /\ NoRst(v, i, Len(v))
      BY DEF CopiesOf
    <2>1. i + 1 \in DOMAIN w /\ v[i] = w[i + 1] /\ IsRequest(w, i + 1)
      BY <1>2
    <2>2. w[i + 1].frm = g /\ NoRst(w, i + 1, Len(w))
      BY <2>1 DEF CopiesOf
    <2>3. Len(v) \in DOMAIN v /\ Len(w) = Len(v) + 1 /\ i \in Nat \ {0}
      BY <1>1
    <2> QED BY <1>3, <2>1, <2>2, <2>3
  <1>8. NoRst(w, 1, Len(w)) => NoRst(v, 1, Len(v))
    BY <1>1 DEF NoRst
  <1> QED BY <1>4, <1>5, <1>6, <1>7, <1>8

(* The NCP takes a request whose number it expects: it is a new one, and   *)
(* any copy of it that follows will not be expected any more.              *)
LEMMA TailAccepted ==
  ASSUME NEW w \in Seq(Frame), w # <<>>, NEW n \in Nat,
         Requests(w, n), Ordered(w),
         NEW last \in Nat, NEW rx \in Num, FreshOrCopy(w, last, rx),
         Head(w).type = "DATA", Head(w).frm = rx
  PROVE  /\ Head(w).pay.id \in 1 .. n /\ last < Head(w).pay.id
         /\ FreshOrCopy(Tail(w), Head(w).pay.id, NextNum(rx))
  <1> DEFINE v == Tail(w)
  <1>1. /\ v \in Seq(Frame) /\ Head(w) = w[1]
        /\ Len(w) \in Nat \ {0} /\ DOMAIN w = 1 .. Len(w)
        /\ Len(v) = Len(w) - 1 /\ DOMAIN v = 1 .. Len(w) - 1
        /\ \A i \in 1 .. Len(w) - 1 : v[i] = w[i + 1]
    BY TailFrames
  <1>2. 1 \in DOMAIN w /\ IsRequest(w, 1)
    BY <1>1 DEF IsRequest
  <1>3. w[1].pay.id \in 1 .. n /\ last <= w[1].pay.id
    BY <1>2 DEF Requests, FreshOrCopy
  <1>4. w[1].pay.id # last
    <2>1. NextNum(rx) # rx
      BY ConstantsAssumption DEF NextNum, Num
    <2> QED BY <1>1, <1>2, <2>1 DEF FreshOrCopy
  <1>5. FreshOrCopy(v, w[1].pay.id, NextNum(rx))
    <2> SUFFICES ASSUME NEW i \in DOMAIN v, IsRequest(v, i)
                 PROVE  /\ w[1].pay.id <= v[i].pay.id
                        /\ v[i].pay.id = w[1].pay.id =>
                             NextNum(v[i].frm) = NextNum(rx) /\ NoRst(v, 1, i)
      BY DEF FreshOrCopy
    <2>1. /\ i + 1 \in DOMAIN w /\ 1 < i + 1 /\ i \in 1 .. Len(w) - 1
          /\ v[i] = w[i + 1] /\ IsRequest(w, i + 1)
      BY <1>1 DEF IsRequest
    <2>2. /\ w[1].pay.id <= w[i + 1].pay.id
          /\ w[1].pay.id = w[i + 1].pay.id =>
               w[1].frm = w[i + 1].frm /\ NoRst(w, 1, i + 1)
      BY <1>2, <2>1 DEF Ordered
    <2>3. NoRst(w, 1, i + 1) => NoRst(v, 1, i)
      BY <1>1, <2>1 DEF NoRst
    <2> QED BY <1>1, <2>1, <2>2, <2>3
  <1> HIDE DEF v
  <1>6. last < w[1].pay.id
    BY <1>3, <1>4
  <1> QED BY <1>1, <1>3, <1>5, <1>6 DEF v

(* The NCP takes a RST: no copy of a request carried out is behind it.     *)
LEMMA TailReset ==
  ASSUME NEW w \in Seq(Frame), w # <<>>, Head(w).type = "RST",
         NEW last \in Nat, NEW rx \in Num, NEW ry \in Num,
         FreshOrCopy(w, last, rx)
  PROVE  FreshOrCopy(Tail(w), last, ry)
  <1> DEFINE v == Tail(w)
  <1>1. /\ Head(w) = w[1] /\ Len(w) \in Nat \ {0} /\ DOMAIN w = 1 .. Len(w)
        /\ DOMAIN v = 1 .. Len(w) - 1
        /\ \A i \in 1 .. Len(w) - 1 : v[i] = w[i + 1]
    BY TailFrames
  <1> SUFFICES ASSUME NEW i \in DOMAIN v, IsRequest(v, i)
               PROVE  last <= v[i].pay.id /\ v[i].pay.id # last
    BY DEF FreshOrCopy
  <1>2. /\ i + 1 \in DOMAIN w /\ 1 \in 1 .. i + 1
        /\ v[i] = w[i + 1] /\ IsRequest(w, i + 1)
    BY <1>1 DEF IsRequest
  <1>3. ~ NoRst(w, 1, i + 1)
    BY <1>1, <1>2 DEF NoRst
  <1> QED BY <1>2, <1>3 DEF FreshOrCopy

------------------------------------------------------------------------------
(* Types, and the link as an instance of the open connection.              *)

LEMMA MessageTypes ==
  /\ \A k \in 0 .. MaxCalls : Req(k) \in Message /\ Resp(k) \in Message
  /\ Callback \in Message
  BY LinkAssumption DEF Req, Resp, Callback, Message

LEMMA NumZero == 0 \in Num
  BY ConstantsAssumption DEF Num

(* What the NCP sends is a frame that the open environment may send.       *)
LEMMA EmitIsArrival ==
  ASSUME NEW f \in Frame, Reply(f) \/ Emit(f)
  PROVE  \/ UNCHANGED toHost
         \/ /\ Len(toHost) < RxCap
            /\ \E g \in Arrivals : toHost' = Append(toHost, g)
  <1>1. ControlFrame("BAD", 0) \in Frame
    BY NumZero, FrameTypes DEF FrameType
  <1> QED BY <1>1, LinkAssumption DEF Reply, Emit

LEMMA ReleaseType ==
  ASSUME LinkTypeOK, NEW a
  PROVE  Release(a) \in Seq([frm : Num, pay : Message])
  <1> DEFINE S == [frm : Num, pay : Message]
             upTo == {i \in DOMAIN unacked : NextNum(unacked[i].frm) = a}
             c == CHOOSE i \in upTo : TRUE
  <1>1. unacked \in Seq(S)
    BY DEF LinkTypeOK
  <1>2. CASE upTo = {}
    BY <1>1, <1>2 DEF Release
  <1>3. CASE upTo # {}
    <2>1. c \in upTo
      BY <1>3
    <2>2. Len(unacked) \in Nat /\ DOMAIN unacked = 1 .. Len(unacked)
          /\ \A i \in 1 .. Len(unacked) : unacked[i] \in S
      BY <1>1, LenProperties, ElementOfSeq
    <2>3. c \in 1 .. Len(unacked)
      BY <2>1, <2>2
    <2>4. Release(a) = SubSeq(unacked, c + 1, Len(unacked))
      BY <1>3 DEF Release
    <2> HIDE DEF c
    <2>5. c + 1 \in Int /\ Len(unacked) \in Int
          /\ \A i \in c + 1 .. Len(unacked) : unacked[i] \in S
      BY <2>2, <2>3
    <2> HIDE DEF S
    <2>6. SubSeq(unacked, c + 1, Len(unacked)) \in Seq(S)
      BY <2>5, SubSeqProperties
    <2> QED BY <2>4, <2>6 DEF S
  <1> QED BY <1>2, <1>3

(* Seen from the host, every step of the NCP is one of the environment.    *)
LEMMA NcpStepIsEnv == LinkTypeOK /\ NcpStep => Env
  <1> SUFFICES ASSUME LinkTypeOK, NcpStep PROVE Env
    OBVIOUS
  <1> DEFINE Took == UNCHANGED toNcp \/ (toNcp # <<>> /\ toNcp' = Tail(toNcp))
             Sent == \/ UNCHANGED toHost
                     \/ /\ Len(toHost) < RxCap
                        /\ \E g \in Arrivals : toHost' = Append(toHost, g)
  <1> USE DEF LinkTypeOK, numbers, readerVars, callVars, ncpVars
  <1>1. Took /\ Sent => Env
    BY DEF NcpStep, Env
  <1>2. \A a \in Num : /\ ControlFrame("ACK", a) \in Frame
                       /\ ControlFrame("NAK", a) \in Frame
                       /\ ControlFrame("RSTACK", a) \in Frame
    BY FrameTypes DEF FrameType
  <1>3. \A f \in Num, r \in BOOLEAN, p \in Message :
          DataFrame(f, ncpRx, r, p) \in Frame
    BY FrameTypes, LinkAssumption
  <1>4. CASE NcpReset
    <2>1. Reply(ControlFrame("RSTACK", 0)) /\ ControlFrame("RSTACK", 0) \in Frame
      BY <1>2, <1>4, NumZero DEF NcpReset
    <2> QED BY <1>1, <1>4, <2>1, EmitIsArrival DEF NcpReset, Taken
  <1>5. CASE NcpAccept
    <2>1. NextNum(ncpRx) \in Num
      BY NextNumType
    <2>2. Reply(ControlFrame("ACK", NextNum(ncpRx)))
      BY <1>5 DEF NcpAccept
    <2> QED BY <1>1, <1>2, <1>5, <2>1, <2>2, EmitIsArrival DEF NcpAccept, Taken
  <1>6. CASE NcpDuplicate
    <2>1. Reply(ControlFrame("ACK", ncpRx)) /\ ControlFrame("ACK", ncpRx) \in Frame
      BY <1>2, <1>6 DEF NcpDuplicate
    <2> QED BY <1>1, <1>6, <2>1, EmitIsArrival DEF NcpDuplicate, Taken
  <1>7. CASE NcpRefuse
    <2>1. Reply(ControlFrame("NAK", ncpRx)) /\ ControlFrame("NAK", ncpRx) \in Frame
      BY <1>2, <1>7 DEF NcpRefuse
    <2> QED BY <1>1, <1>7, <2>1, EmitIsArrival DEF NcpRefuse, Taken
  <1>8. CASE NcpAcked
    BY <1>1, <1>8 DEF NcpAcked, Taken
  <1>9. CASE NcpMisses
    <2>1. ControlFrame("NAK", ncpRx) \in Frame
      BY <1>2
    <2>2. Sent
      <3>1. CASE UNCHANGED toHost
        BY <3>1
      <3>2. CASE Reply(ControlFrame("NAK", ncpRx))
        BY <2>1, <3>2, EmitIsArrival
      <3> QED BY <1>9, <3>1, <3>2 DEF NcpMisses
    <2> QED BY <1>1, <1>9, <2>2 DEF NcpMisses, Taken
  <1>10. CASE NcpSend
    <2>1. Head(pend) \in Message
      BY <1>10, SeqFacts DEF NcpSend
    <2>2. DataFrame(ncpTx, ncpRx, FALSE, Head(pend)) \in Frame
      BY <1>3, <2>1
    <2> QED BY <1>1, <1>10, <2>2, EmitIsArrival DEF NcpSend
  <1>11. CASE NcpRetransmit
    <2>1. Head(unacked) \in [frm : Num, pay : Message]
      BY <1>11, SeqFacts DEF NcpRetransmit
    <2>2. DataFrame(Head(unacked).frm, ncpRx, TRUE, Head(unacked).pay) \in Frame
      BY <1>3, <2>1
    <2> QED BY <1>1, <1>11, <2>2, EmitIsArrival DEF NcpRetransmit
  <1>12. CASE NcpCallback
    BY <1>1, <1>12 DEF NcpCallback
  <1>13. CASE NcpRestart
    <2>1. Emit(ControlFrame("RSTACK", 0)) /\ ControlFrame("RSTACK", 0) \in Frame
      BY <1>2, <1>13, NumZero DEF NcpRestart
    <2> QED BY <1>1, <1>13, <2>1, EmitIsArrival DEF NcpRestart
  <1> QED
    BY <1>4, <1>5, <1>6, <1>7, <1>8, <1>9, <1>10, <1>11, <1>12, <1>13
    DEF NcpStep

LEMMA LinkStepIsConnStep == LinkTypeOK /\ [LinkNext]_linkVars => [Next]_vars
  <1> SUFFICES ASSUME LinkTypeOK, [LinkNext]_linkVars PROVE [Next]_vars
    OBVIOUS
  <1>1. CASE AppNew \/ AppReset \/ AppRecv \/ AppClose
    BY <1>1 DEF AppNew, AppReset, AppRecv, AppClose, Next, CloseStep
  <1>2. CASE AppSend
    <2>1. nsent + 1 \in 0 .. MaxCalls
      BY <1>2, LinkAssumption DEF AppSend, LinkTypeOK
    <2>2. Req(nsent + 1) \in Payload
      BY <2>1, MessageTypes, LinkAssumption
    <2> QED BY <1>2, <2>2 DEF AppSend, Next
  <1>3. CASE HostStep
    BY <1>3 DEF HostStep, Next, CloseStep
  <1>4. CASE NcpStep
    BY <1>4, NcpStepIsEnv DEF Next
  <1>5. CASE UNCHANGED linkVars
    BY <1>5 DEF linkVars
  <1> QED BY <1>1, <1>2, <1>3, <1>4, <1>5 DEF LinkNext
------------------------------------------------------------------------------
(* The types of the NCP's variables.                                       *)

(* LinkTypeOK without TypeOK.                                              *)
NcpTypeOK ==
  /\ nsent \in 0 .. MaxCalls
  /\ executed \in Seq(1 .. MaxCalls)
  /\ ncpRx \in Num /\ ncpTx \in Num
  /\ unacked \in Seq([frm : Num, pay : Message])
  /\ pend \in Seq(Message)

LEMMA AcceptType ==
  ASSUME LinkTypeOK, Requests(toNcp, nsent), NcpAccept
  PROVE  /\ Head(toNcp).pay.id \in 1 .. MaxCalls
         /\ executed' \in Seq(1 .. MaxCalls)
         /\ pend' \in Seq(Message)
  <1> DEFINE k == Head(toNcp).pay.id
  <1>1. toNcp \in Seq(Frame) /\ toNcp # <<>> /\ nsent \in 0 .. MaxCalls
    BY DEF LinkTypeOK, TypeOK, NcpAccept, Taken
  <1>2. Head(toNcp) = toNcp[1] /\ 1 \in DOMAIN toNcp
    BY <1>1, TailFrames
  <1>3. IsRequest(toNcp, 1)
    BY <1>2 DEF NcpAccept, Taken, IsRequest
  <1>4. k \in 1 .. nsent
    BY <1>2, <1>3 DEF Requests
  <1>5. k \in 1 .. MaxCalls /\ k \in 0 .. MaxCalls
    BY <1>1, <1>4, LinkAssumption
  <1>6. executed' = Append(executed, k) /\ pend' = Append(pend, Resp(k))
    BY DEF NcpAccept
  <1>7. executed \in Seq(1 .. MaxCalls) /\ pend \in Seq(Message)
    BY DEF LinkTypeOK
  <1>8. Resp(k) \in Message
    BY <1>5, MessageTypes
  <1> HIDE DEF k
  <1>9. executed' \in Seq(1 .. MaxCalls) /\ pend' \in Seq(Message)
    BY <1>5, <1>6, <1>7, <1>8, SeqFacts
  <1> QED BY <1>5, <1>9 DEF k

LEMMA NcpTypeStep ==
  LinkTypeOK /\ Requests(toNcp, nsent) /\ NcpStep => NcpTypeOK'
  <1> SUFFICES ASSUME LinkTypeOK, Requests(toNcp, nsent), NcpStep
               PROVE  NcpTypeOK'
    OBVIOUS
  <1> USE DEF LinkTypeOK, NcpTypeOK, ncpVars
  <1>1. nsent' = nsent
    BY DEF NcpStep
  <1>2. /\ 0 \in Num /\ <<>> \in Seq([frm : Num, pay : Message])
        /\ <<>> \in Seq(Message)
    BY NumZero
  <1>3. CASE NcpReset
    BY <1>1, <1>2, <1>3 DEF NcpReset
  <1>4. CASE NcpAccept
    <2>1. NextNum(ncpRx) \in Num
      BY NextNumType
    <2>2. Release(Head(toNcp).ack) \in Seq([frm : Num, pay : Message])
      BY ReleaseType
    <2>3. executed' \in Seq(1 .. MaxCalls) /\ pend' \in Seq(Message)
      BY <1>4, AcceptType
    <2> QED BY <1>1, <1>4, <2>1, <2>2, <2>3 DEF NcpAccept
  <1>5. CASE NcpDuplicate \/ NcpRefuse \/ NcpMisses \/ NcpRetransmit
    BY <1>1, <1>5 DEF NcpDuplicate, NcpRefuse, NcpMisses, NcpRetransmit
  <1>6. CASE NcpAcked
    <2>1. Release(Head(toNcp).ack) \in Seq([frm : Num, pay : Message])
      BY ReleaseType
    <2> QED BY <1>1, <1>6, <2>1 DEF NcpAcked
  <1>7. CASE NcpSend
    <2>1. Head(pend) \in Message /\ Tail(pend) \in Seq(Message)
      BY <1>7, SeqFacts DEF NcpSend
    <2>2. [frm |-> ncpTx, pay |-> Head(pend)] \in [frm : Num, pay : Message]
      BY <2>1
    <2>3. Append(unacked, [frm |-> ncpTx, pay |-> Head(pend)])
            \in Seq([frm : Num, pay : Message])
      BY <2>2, SeqFacts
    <2>4. NextNum(ncpTx) \in Num
      BY NextNumType
    <2> QED BY <1>1, <1>7, <2>1, <2>3, <2>4 DEF NcpSend
  <1>8. CASE NcpCallback
    <2>1. Append(pend, Callback) \in Seq(Message)
      BY MessageTypes, SeqFacts
    <2> QED BY <1>1, <1>8, <2>1 DEF NcpCallback
  <1>9. CASE NcpRestart
    BY <1>1, <1>2, <1>9 DEF NcpRestart
  <1> QED
    BY <1>3, <1>4, <1>5, <1>6, <1>7, <1>8, <1>9 DEF NcpStep

LEMMA LinkTypeStep ==
  LinkTypeOK /\ Requests(toNcp, nsent) /\ [LinkNext]_linkVars => LinkTypeOK'
  <1> SUFFICES ASSUME LinkTypeOK, Requests(toNcp, nsent), [LinkNext]_linkVars
               PROVE  LinkTypeOK'
    OBVIOUS
  <1>1. TypeOK'
    BY LinkStepIsConnStep, TypeStep DEF LinkTypeOK
  <1>2. NcpTypeOK'
    <2> USE DEF LinkTypeOK, NcpTypeOK, ncpVars
    <2>1. CASE AppNew \/ AppReset \/ AppRecv \/ AppClose \/ HostStep
      BY <2>1 DEF AppNew, AppReset, AppRecv, AppClose, HostStep
    <2>2. CASE AppSend
      BY <2>2, LinkAssumption DEF AppSend
    <2>3. CASE NcpStep
      BY <2>3, NcpTypeStep
    <2>4. CASE UNCHANGED linkVars
      BY <2>4 DEF linkVars
    <2> QED BY <2>1, <2>2, <2>3, <2>4 DEF LinkNext
  <1> QED BY <1>1, <1>2 DEF LinkTypeOK, NcpTypeOK
------------------------------------------------------------------------------
(* What a step may do to the frames on their way to the NCP.  The host's   *)
(* steps fall into three kinds.                                            *)

(* Nothing, and a Send that is in progress was so before.                  *)
Quiet ==
  /\ UNCHANGED toNcp
  /\ op' \in {"tx", "wait"} =>
       op \in {"tx", "wait"} /\ sending' = sending /\ frmNum' = frmNum

(* A RST or an ACK is written, and no Send is in progress.                 *)
WritesControl ==
  /\ op' \notin {"tx", "wait"}
  /\ \E f \in Frame : f.type # "DATA" /\ toNcp' = Append(toNcp, f)

(* Send writes a copy of its request.                                      *)
WritesRequest ==
  /\ op \in {"tx", "wait"} /\ sending' = sending /\ frmNum' = frmNum
  /\ \E f \in Frame : /\ f.type = "DATA" /\ f.frm = frmNum /\ f.pay = sending
                      /\ toNcp' = Append(toNcp, f)

LEMMA HostStepKinds ==
  TypeOK /\ (CallStep \/ ReaderStep \/ CloseReturn)
    => Quiet \/ WritesControl \/ WritesRequest
  <1> SUFFICES ASSUME TypeOK, CallStep \/ ReaderStep \/ CloseReturn
               PROVE  Quiet \/ WritesControl \/ WritesRequest
    OBVIOUS
  <1> USE DEF numbers, callVars, readerVars
  <1>1. CASE Drain \/ DrainClosed \/ DrainDone \/ WaitAck \/ Skip \/ CtxDone
    BY <1>1 DEF Drain, DrainClosed, DrainDone, WaitAck, Skip, CtxDone, Quiet,
                vars
  <1>2. CASE WriteRst
    <2>1. ControlFrame("RST", 0) \in Frame /\ ControlFrame("RST", 0).type = "RST"
      BY NumZero, FrameTypes DEF FrameType, ControlFrame
    <2>2. CASE Write(ControlFrame("RST", 0)) /\ op' = "rstack"
      BY <2>1, <2>2 DEF WritesControl, Write
    <2>3. CASE WriteFails /\ Return("write", NoPayload)
      BY <2>3 DEF WriteFails, Return, Quiet
    <2> QED BY <1>2, <2>2, <2>3 DEF WriteRst
  <1>3. CASE ResetOk \/ ResetError \/ ConnReset \/ CtxReturn \/ ClosedReturn
    BY <1>3 DEF ResetOk, ResetError, ConnReset, CtxReturn, ClosedReturn, Return,
                Quiet
  <1>4. CASE ResetOther \/ ResetTimeout
    BY <1>4 DEF ResetOther, ResetTimeout, NextAttempt, Return, Quiet
  <1>5. CASE Transmit
    <2> DEFINE f == DataFrame(frmNum, ackNum, tries > 0, sending)
    <2>1. sending \in Payload
      BY <1>5 DEF Transmit, TypeOK
    <2>2. f \in Frame
      <3>1. (tries > 0) \in BOOLEAN /\ frmNum \in Num /\ ackNum \in Num
        BY DEF TypeOK
      <3> QED BY <2>1, <3>1, FrameTypes
    <2>3. f.type = "DATA" /\ f.frm = frmNum /\ f.pay = sending
      BY DEF DataFrame
    <2>4. CASE Write(f) /\ UNCHANGED sending
      <3>1. op \in {"tx", "wait"} /\ sending' = sending /\ frmNum' = frmNum
        BY <1>5, <2>4 DEF Transmit
      <3>2. toNcp' = Append(toNcp, f)
        BY <2>4 DEF Write
      <3> HIDE DEF f
      <3> QED BY <2>2, <2>3, <3>1, <3>2 DEF WritesRequest
    <2>5. CASE WriteFails /\ Return("write", NoPayload)
      BY <2>5 DEF WriteFails, Return, Quiet
    <2> QED BY <1>5, <2>4, <2>5 DEF Transmit
  <1>6. CASE WaitNak \/ WaitTimeout
    BY <1>6 DEF WaitNak, WaitTimeout, Retry, Return, Quiet
  <1>7. CASE WaitData \/ RecvData
    <2> DEFINE h == Head(frames)
               a == ControlFrame("ACK", NextNum(h.frm))
    <2>1. h \in Frame /\ op' = "idle" /\ Acknowledge(h)
      BY <1>7, ReceiveType DEF WaitData, RecvData, Return
    <2>2. h.frm \in Num
      BY <2>1 DEF Frame
    <2>3. NextNum(h.frm) \in Num
      BY <2>2, NextNumType
    <2>4. a \in Frame
      BY <2>3, FrameTypes DEF FrameType
    <2>5. a.type = "ACK"
      BY DEF ControlFrame
    <2>6. CASE Write(a)
      BY <2>1, <2>4, <2>5, <2>6 DEF Write, WritesControl
    <2>7. CASE WriteFails
      BY <2>1, <2>7 DEF WriteFails, Quiet
    <2> QED BY <2>1, <2>6, <2>7 DEF Acknowledge
  <1>8. CASE ReaderRead \/ ReaderPush \/ ReaderQuit \/ ReaderError \/ CloseReturn
    BY <1>8 DEF ReaderRead, ReaderPush, ReaderQuit, ReaderError, CloseReturn,
                Quiet
  <1> QED
    BY <1>1, <1>2, <1>3, <1>4, <1>5, <1>6, <1>7, <1>8 DEF CallStep, ReaderStep

------------------------------------------------------------------------------
(* The inductive invariant, in two parts.                                  *)

WireInv ==
  /\ Requests(toNcp, nsent) /\ Ordered(toNcp)
  /\ FreshOrCopy(toNcp, LastRun, ncpRx)
  /\ Retransmittable

RunInv ==
  /\ \A i \in DOMAIN executed : executed[i] <= nsent
  /\ InOrderOnce

LEMMA InOrderInvParts == InOrderInv <=> LinkTypeOK /\ WireInv /\ RunInv
  BY DEF InOrderInv, WireInv, RunInv

LEMMA LastRunType ==
  ASSUME LinkTypeOK, RunInv
  PROVE  /\ LastRun \in Nat /\ LastRun <= nsent
         /\ \A i \in DOMAIN executed : executed[i] \in Nat /\ executed[i] <= LastRun
  <1>0. executed \in Seq(1 .. MaxCalls)
    BY DEF LinkTypeOK
  <1>1. /\ Len(executed) \in Nat /\ DOMAIN executed = 1 .. Len(executed)
        /\ \A i \in 1 .. Len(executed) : executed[i] \in 1 .. MaxCalls
        /\ (executed = <<>> <=> Len(executed) = 0)
    BY <1>0, LenProperties, ElementOfSeq, EmptySeq
  <1>2. nsent \in Nat
    BY LinkAssumption DEF LinkTypeOK
  <1>3. CASE executed = <<>>
    BY <1>1, <1>2, <1>3 DEF LastRun
  <1>4. CASE executed # <<>>
    <2>1. LastRun = executed[Len(executed)] /\ Len(executed) \in DOMAIN executed
      BY <1>1, <1>4 DEF LastRun
    <2>2. LastRun \in Nat /\ LastRun <= nsent
      BY <1>1, <2>1, LinkAssumption DEF RunInv
    <2>3. ASSUME NEW i \in DOMAIN executed
          PROVE  executed[i] \in Nat /\ executed[i] <= LastRun
      <3>1. executed[i] \in Nat /\ (i = Len(executed) \/ i < Len(executed))
        BY <1>1, LinkAssumption
      <3>2. i < Len(executed) => executed[i] < executed[Len(executed)]
        BY <2>1 DEF RunInv, InOrderOnce
      <3> QED BY <2>1, <2>2, <3>1, <3>2
    <2> QED BY <2>2, <2>3
  <1> QED BY <1>3, <1>4
(* The steps that leave the NCP and the number of requests alone.          *)
LEMMA HostWireStep ==
  ASSUME LinkTypeOK, WireInv, RunInv,
         UNCHANGED <<nsent, executed, ncpRx>>,
         Quiet \/ WritesControl \/ WritesRequest
  PROVE  WireInv'
  <1>1. /\ nsent \in Nat /\ ncpRx \in Num /\ frmNum \in Num
        /\ toNcp \in Seq(Frame)
    BY LinkAssumption DEF LinkTypeOK, TypeOK
  <1>2. LastRun \in Nat /\ LastRun <= nsent /\ LastRun' = LastRun
    BY LastRunType DEF LastRun
  <1>3. CASE Quiet
    <2>1. Retransmittable'
      BY <1>2, <1>3 DEF WireInv, Retransmittable, Quiet
    <2> QED BY <1>2, <1>3, <2>1 DEF WireInv, Quiet
  <1>4. CASE WritesControl
    <2> PICK f \in Frame : f.type # "DATA" /\ toNcp' = Append(toNcp, f)
      BY <1>4 DEF WritesControl
    <2>1. /\ Requests(toNcp', nsent) /\ Ordered(toNcp')
          /\ FreshOrCopy(toNcp', LastRun, ncpRx)
      BY <1>1, <1>2, AppendControl DEF WireInv
    <2>2. Retransmittable'
      BY <1>4 DEF Retransmittable, WritesControl
    <2> QED BY <1>2, <2>1, <2>2 DEF WireInv
  <1>5. CASE WritesRequest
    <2> PICK f \in Frame : /\ f.type = "DATA" /\ f.frm = frmNum
                           /\ f.pay = sending /\ toNcp' = Append(toNcp, f)
      BY <1>5 DEF WritesRequest
    <2>1. /\ nsent >= 1 /\ sending = Req(nsent)
          /\ CopiesOf(toNcp, nsent, frmNum)
          /\ LastRun = nsent =>
               NextNum(frmNum) = ncpRx /\ NoRst(toNcp, 1, Len(toNcp))
      BY <1>5 DEF WritesRequest, WireInv, Retransmittable
    <2>2. /\ Requests(toNcp', nsent) /\ Ordered(toNcp')
          /\ FreshOrCopy(toNcp', LastRun, ncpRx)
          /\ CopiesOf(toNcp', nsent, frmNum)
          /\ LastRun = nsent => NoRst(toNcp', 1, Len(toNcp'))
      <3>1. nsent \in Nat \ {0} /\ f.pay = Req(nsent)
        BY <1>1, <2>1
      <3>2. /\ CopiesOf(toNcp, nsent, f.frm)
            /\ LastRun = nsent =>
                 NextNum(f.frm) = ncpRx /\ NoRst(toNcp, 1, Len(toNcp))
        BY <2>1
      <3>3. /\ Requests(toNcp, nsent) /\ Ordered(toNcp)
            /\ FreshOrCopy(toNcp, LastRun, ncpRx)
        BY DEF WireInv
      <3>4. /\ Requests(toNcp', nsent) /\ Ordered(toNcp')
            /\ FreshOrCopy(toNcp', LastRun, ncpRx)
            /\ CopiesOf(toNcp', nsent, f.frm)
            /\ LastRun = nsent => NoRst(toNcp', 1, Len(toNcp'))
        BY <1>1, <1>2, <3>1, <3>2, <3>3, AppendRequest
      <3> QED BY <3>4
    <2>3. sending' = sending /\ frmNum' = frmNum
      BY <1>5 DEF WritesRequest
    <2>4. Retransmittable'
      BY <1>2, <2>1, <2>2, <2>3 DEF Retransmittable
    <2> QED BY <1>2, <2>2, <2>4 DEF WireInv
  <1> QED BY <1>3, <1>4, <1>5

(* A new request has no copies yet, and was not carried out.               *)
LEMMA AskWireStep ==
  ASSUME LinkTypeOK, WireInv, RunInv, AppSend
  PROVE  WireInv' /\ RunInv'
  <1>1. nsent \in Nat /\ nsent' = nsent + 1 /\ nsent' \in Nat
        /\ UNCHANGED <<executed, ncpRx, toNcp, frmNum>>
        /\ sending' = Req(nsent')
    BY LinkAssumption
    DEF LinkTypeOK, AppSend, CallSend, ncpVars, numbers
  <1>2. LastRun \in Nat /\ LastRun <= nsent /\ LastRun' = LastRun
        /\ \A i \in DOMAIN executed : executed[i] \in Nat
    BY <1>1, LastRunType DEF LastRun
  <1>3. \A i \in DOMAIN toNcp : IsRequest(toNcp, i) =>
          toNcp[i].pay.kind = "req" /\ toNcp[i].pay.id \in 1 .. nsent
    BY DEF WireInv, Requests
  <1>4. Requests(toNcp, nsent')
    BY <1>1, <1>3 DEF Requests
  <1>5. CopiesOf(toNcp, nsent', frmNum)
    BY <1>1, <1>3 DEF CopiesOf
  <1>6. Retransmittable'
    <2>1. nsent' >= 1 /\ LastRun # nsent'
      BY <1>1, <1>2
    <2> QED BY <1>1, <1>2, <1>5, <2>1 DEF Retransmittable
  <1>7. WireInv'
    BY <1>1, <1>2, <1>4, <1>6 DEF WireInv
  <1>8. RunInv'
    BY <1>1, <1>2 DEF RunInv, InOrderOnce
  <1> QED BY <1>7, <1>8

(* The NCP takes a frame and neither carries it out nor resets.            *)
LEMMA TakeWireStep ==
  ASSUME LinkTypeOK, WireInv, RunInv,
         toNcp # <<>>, toNcp' = Tail(toNcp),
         UNCHANGED <<op, sending, frmNum, nsent, executed, ncpRx>>
  PROVE  WireInv'
  <1>1. /\ nsent \in Nat /\ ncpRx \in Num /\ frmNum \in Num
        /\ toNcp \in Seq(Frame)
    BY LinkAssumption DEF LinkTypeOK, TypeOK
  <1>2. LastRun \in Nat /\ LastRun' = LastRun
    BY LastRunType DEF LastRun
  <1>3. /\ Requests(toNcp', nsent) /\ Ordered(toNcp')
        /\ FreshOrCopy(toNcp', LastRun, ncpRx)
        /\ CopiesOf(toNcp, nsent, frmNum) => CopiesOf(toNcp', nsent, frmNum)
        /\ NoRst(toNcp, 1, Len(toNcp)) => NoRst(toNcp', 1, Len(toNcp'))
    BY <1>1, <1>2, TailKeeps DEF WireInv
  <1>4. Retransmittable'
    BY <1>2, <1>3 DEF WireInv, Retransmittable
  <1> QED BY <1>2, <1>3, <1>4 DEF WireInv

(* The NCP forgets its numbers: no request it carried out can follow.      *)
LEMMA ResetWireStep ==
  ASSUME LinkTypeOK, WireInv, RunInv, NcpReset,
         UNCHANGED <<op, sending, frmNum, nsent>>
  PROVE  WireInv'
  <1>1. /\ nsent \in Nat /\ ncpRx \in Num /\ frmNum \in Num /\ 0 \in Num
        /\ toNcp \in Seq(Frame) /\ toNcp # <<>> /\ Head(toNcp).type = "RST"
        /\ toNcp' = Tail(toNcp) /\ ncpRx' = 0 /\ executed' = executed
    BY NumZero, LinkAssumption DEF LinkTypeOK, TypeOK, NcpReset, Taken
  <1>2. LastRun \in Nat /\ LastRun' = LastRun
    BY <1>1, LastRunType DEF LastRun
  <1>3. /\ Requests(toNcp', nsent) /\ Ordered(toNcp')
        /\ CopiesOf(toNcp, nsent, frmNum) => CopiesOf(toNcp', nsent, frmNum)
    BY <1>1, <1>2, TailKeeps DEF WireInv
  <1>4. FreshOrCopy(toNcp', LastRun, 0)
    BY <1>1, <1>2, TailReset DEF WireInv
  <1>5. ~ NoRst(toNcp, 1, Len(toNcp))
    BY <1>1, TailFrames DEF NoRst
  <1>6. Retransmittable'
    BY <1>1, <1>2, <1>3, <1>5 DEF WireInv, Retransmittable
  <1> QED BY <1>1, <1>2, <1>3, <1>4, <1>6 DEF WireInv

(* The NCP carries out a request: it is later than all it has carried out. *)
LEMMA AcceptWireStep ==
  ASSUME LinkTypeOK, WireInv, RunInv, NcpAccept,
         UNCHANGED <<op, sending, frmNum, nsent>>
  PROVE  WireInv' /\ RunInv'
  <1> DEFINE k == Head(toNcp).pay.id
  <1>1. /\ nsent \in Nat /\ ncpRx \in Num /\ frmNum \in Num
        /\ toNcp \in Seq(Frame) /\ toNcp # <<>> /\ Head(toNcp).type = "DATA"
        /\ Head(toNcp).frm = ncpRx
        /\ toNcp' = Tail(toNcp) /\ ncpRx' = NextNum(ncpRx)
        /\ executed' = Append(executed, k)
        /\ executed \in Seq(1 .. MaxCalls)
    BY LinkAssumption DEF LinkTypeOK, TypeOK, NcpAccept, Taken
  <1>2. /\ LastRun \in Nat /\ LastRun <= nsent
        /\ \A i \in DOMAIN executed : executed[i] \in Nat
                                      /\ executed[i] <= LastRun
    BY LastRunType
  <1>3. k \in 1 .. nsent /\ LastRun < k
        /\ FreshOrCopy(toNcp', k, NextNum(ncpRx))
    BY <1>1, <1>2, TailAccepted DEF WireInv
  <1>4. k \in 1 .. MaxCalls
    BY AcceptType DEF WireInv
  <1>5. /\ Requests(toNcp', nsent) /\ Ordered(toNcp')
        /\ CopiesOf(toNcp, nsent, frmNum) => CopiesOf(toNcp', nsent, frmNum)
    BY <1>1, <1>2, TailKeeps DEF WireInv
  <1>6. op \in {"tx", "wait"} /\ k = nsent =>
          frmNum = ncpRx /\ NoRst(toNcp', 1, Len(toNcp'))
    <2> SUFFICES ASSUME op \in {"tx", "wait"}, k = nsent
                 PROVE  frmNum = ncpRx /\ NoRst(toNcp', 1, Len(toNcp'))
      OBVIOUS
    <2>1. 1 \in DOMAIN toNcp /\ Head(toNcp) = toNcp[1] /\ IsRequest(toNcp, 1)
      BY <1>1, TailFrames DEF IsRequest
    <2>2. frmNum = ncpRx /\ NoRst(toNcp, 1, Len(toNcp))
      BY <1>1, <2>1 DEF WireInv, Retransmittable, CopiesOf
    <2> QED BY <1>1, <1>2, <2>2, TailKeeps
  <1> HIDE DEF k
  <1>7. /\ Len(executed) \in Nat /\ DOMAIN executed = 1 .. Len(executed)
        /\ DOMAIN executed' = 1 .. Len(executed) + 1
        /\ Len(executed') = Len(executed) + 1
        /\ \A i \in 1 .. Len(executed) : executed'[i] = executed[i]
        /\ executed'[Len(executed) + 1] = k
    BY <1>1, <1>4, AppendProperties, LenProperties
  <1>8. LastRun' = k
    <2>1. executed' # <<>>
      BY <1>7
    <2> QED BY <1>7, <2>1 DEF LastRun
  <1>9. Retransmittable'
    BY <1>1, <1>5, <1>6, <1>8 DEF WireInv, Retransmittable
  <1>10. WireInv'
    BY <1>1, <1>3, <1>5, <1>8, <1>9 DEF WireInv
  <1>11. RunInv'
    <2>1. \A i \in DOMAIN executed' : executed'[i] <= nsent'
      BY <1>1, <1>2, <1>3, <1>7
    <2>2. ASSUME NEW i \in DOMAIN executed', NEW j \in DOMAIN executed', i < j
          PROVE  executed'[i] < executed'[j]
      <3>1. i \in 1 .. Len(executed) /\ executed'[i] = executed[i]
        BY <1>7, <2>2
      <3>2. CASE j \in 1 .. Len(executed)
        BY <1>7, <2>2, <3>1, <3>2 DEF RunInv, InOrderOnce
      <3>3. CASE j = Len(executed) + 1
        BY <1>2, <1>3, <1>7, <3>1, <3>3
      <3> QED BY <1>7, <3>2, <3>3
    <2> QED BY <2>1, <2>2 DEF RunInv, InOrderOnce
  <1> QED BY <1>10, <1>11

LEMMA NcpWireStep ==
  ASSUME LinkTypeOK, WireInv, RunInv, NcpStep, "ncpReset" \notin LinkFaults
  PROVE  WireInv' /\ RunInv'
  <1>1. UNCHANGED <<op, sending, frmNum, nsent>>
    BY DEF NcpStep, callVars, numbers
  <1> USE DEF ncpVars
  <1>2. UNCHANGED executed => RunInv'
    BY <1>1 DEF RunInv, InOrderOnce
  <1>3. CASE NcpReset
    BY <1>1, <1>2, <1>3, ResetWireStep DEF NcpReset
  <1>4. CASE NcpAccept
    BY <1>1, <1>4, AcceptWireStep
  <1>5. CASE NcpDuplicate \/ NcpRefuse \/ NcpAcked \/ NcpMisses
    <2>1. toNcp # <<>> /\ toNcp' = Tail(toNcp) /\ UNCHANGED <<executed, ncpRx>>
      BY <1>5 DEF NcpDuplicate, NcpRefuse, NcpAcked, NcpMisses, Taken
    <2> QED BY <1>1, <1>2, <2>1, TakeWireStep
  <1>6. CASE NcpSend \/ NcpRetransmit \/ NcpCallback
    <2>1. UNCHANGED <<toNcp, executed, ncpRx>>
      BY <1>6 DEF NcpSend, NcpRetransmit, NcpCallback
    <2>2. Quiet
      BY <1>1, <2>1 DEF Quiet
    <2> QED BY <1>1, <1>2, <2>1, <2>2, HostWireStep
  <1>7. ~ NcpRestart
    BY DEF NcpRestart
  <1> QED BY <1>3, <1>4, <1>5, <1>6, <1>7 DEF NcpStep

LEMMA InOrderStep ==
  ASSUME "ncpReset" \notin LinkFaults, InOrderInv, [LinkNext]_linkVars
  PROVE  InOrderInv'
  <1>1. LinkTypeOK /\ WireInv /\ RunInv
    BY InOrderInvParts
  <1>2. LinkTypeOK'
    BY <1>1, LinkTypeStep DEF WireInv
  <1>3. WireInv' /\ RunInv'
    <2> USE DEF ncpVars
    <2>1. UNCHANGED <<nsent, executed>> => RunInv'
      BY <1>1 DEF RunInv, InOrderOnce
    <2>2. CASE AppNew \/ AppReset \/ AppRecv \/ AppClose
      <3>1. Quiet /\ UNCHANGED <<nsent, executed, ncpRx>>
        BY <2>2 DEF AppNew, AppReset, AppRecv, AppClose, New, CallReset,
                    CallRecv, Close, Quiet, callVars, numbers
      <3> QED BY <1>1, <2>1, <3>1, HostWireStep
    <2>3. CASE AppSend
      BY <1>1, <2>3, AskWireStep
    <2>4. CASE HostStep
      <3>1. Quiet \/ WritesControl \/ WritesRequest
        BY <1>1, <2>4, HostStepKinds DEF HostStep, LinkTypeOK
      <3>2. UNCHANGED <<nsent, executed, ncpRx>>
        BY <2>4 DEF HostStep
      <3> QED BY <1>1, <2>1, <3>1, <3>2, HostWireStep
    <2>5. CASE NcpStep
      BY <1>1, <2>5, NcpWireStep
    <2>6. CASE UNCHANGED linkVars
      <3>1. Quiet /\ UNCHANGED <<nsent, executed, ncpRx>>
        BY <2>6 DEF linkVars, vars, callVars, numbers, Quiet
      <3> QED BY <1>1, <2>1, <3>1, HostWireStep
    <2> QED BY <2>2, <2>3, <2>4, <2>5, <2>6 DEF LinkNext
  <1> QED BY <1>2, <1>3, InOrderInvParts DEF InOrderInv, WireInv, RunInv

LEMMA InOrderInit == LinkInit => InOrderInv
  <1> SUFFICES ASSUME LinkInit PROVE InOrderInv
    OBVIOUS
  <1>1. TypeOK
    BY TypeInit DEF LinkInit
  <1>2. LinkTypeOK
    BY <1>1, NumZero, LinkAssumption DEF LinkInit, LinkTypeOK
  <1>3. toNcp = <<>> /\ executed = <<>> /\ op = "idle"
    BY DEF LinkInit, Init
  <1>4. WireInv
    BY <1>3 DEF WireInv, Requests, Ordered, FreshOrCopy, Retransmittable
  <1>5. RunInv
    BY <1>3 DEF RunInv, InOrderOnce
  <1> QED BY <1>2, <1>4, <1>5, InOrderInvParts
(* The NCP never carries out a request twice or out of order, and the      *)
(* facts about the wire that make it so always hold, for every number of   *)
(* requests, every modulus of the frame numbers, every channel and line    *)
(* capacity, whatever is lost, cancelled or reset by the host              *)
(* (ash.go:159-186 and 211-254), unless the NCP restarts by itself.        *)
THEOREM InOrderTheorem ==
  ASSUME "ncpReset" \notin LinkFaults
  PROVE  LinkSpec => []InOrderInv
  <1>1. InOrderInv /\ [LinkNext]_linkVars => InOrderInv'
    BY InOrderStep
  <1> QED BY <1>1, InOrderInit, PTL DEF LinkSpec

THEOREM InOrderOnceTheorem ==
  ASSUME "ncpReset" \notin LinkFaults
  PROVE  LinkSpec => []InOrderOnce
  <1>1. InOrderInv => InOrderOnce
    BY DEF InOrderInv
  <1> QED BY <1>1, InOrderTheorem, PTL
------------------------------------------------------------------------------
(* The link is an instance of the open connection, restarts of the NCP     *)
(* included.  Its own invariant is weaker than InOrderInv: only requests   *)
(* are on their way to the NCP, so that what it queues has its type.       *)
OnlyRequests ==
  /\ LinkTypeOK
  /\ Requests(toNcp, nsent)
  /\ op \in {"tx", "wait"} => nsent >= 1 /\ sending = Req(nsent)

LEMMA OnlyRequestsStep == OnlyRequests /\ [LinkNext]_linkVars => OnlyRequests'
  <1> SUFFICES ASSUME OnlyRequests, [LinkNext]_linkVars PROVE OnlyRequests'
    OBVIOUS
  <1> USE DEF ncpVars
  <1>1. LinkTypeOK'
    BY LinkTypeStep DEF OnlyRequests
  <1>2. /\ LinkTypeOK /\ TypeOK /\ nsent \in Nat /\ ncpRx \in Num /\ frmNum \in Num
        /\ toNcp \in Seq(Frame) /\ Requests(toNcp, nsent)
    BY LinkAssumption DEF OnlyRequests, LinkTypeOK, TypeOK
  <1>3. ASSUME Quiet, UNCHANGED nsent
        PROVE  OnlyRequests'
    BY <1>1, <1>3 DEF OnlyRequests, Quiet
  <1>4. CASE AppNew \/ AppReset \/ AppRecv \/ AppClose
    <2>1. Quiet /\ UNCHANGED nsent
      BY <1>4 DEF AppNew, AppReset, AppRecv, AppClose, New, CallReset,
                  CallRecv, Close, Quiet, callVars, numbers
    <2> QED BY <1>3, <2>1
  <1>5. CASE AppSend
    <2>1. nsent' = nsent + 1 /\ UNCHANGED toNcp /\ sending' = Req(nsent')
      BY <1>5 DEF AppSend, CallSend
    <2>2. Requests(toNcp', nsent')
      BY <1>2, <2>1 DEF Requests
    <2> QED BY <1>1, <1>2, <2>1, <2>2 DEF OnlyRequests
  <1>6. CASE HostStep
    <2>1. nsent' = nsent /\ (Quiet \/ WritesControl \/ WritesRequest)
      BY <1>2, <1>6, HostStepKinds DEF HostStep
    <2>2. CASE WritesControl
      <3> PICK f \in Frame : f.type # "DATA" /\ toNcp' = Append(toNcp, f)
        BY <2>2 DEF WritesControl
      <3>1. Requests(toNcp', nsent)
        BY <1>2, AppendControl
      <3> QED BY <1>1, <2>1, <2>2, <3>1 DEF OnlyRequests, WritesControl
    <2>3. CASE WritesRequest
      <3> PICK f \in Frame : /\ f.type = "DATA" /\ f.frm = frmNum
                             /\ f.pay = sending /\ toNcp' = Append(toNcp, f)
        BY <2>3 DEF WritesRequest
      <3>1. nsent >= 1 /\ f.pay = Req(nsent) /\ sending' = Req(nsent)
        BY <2>3 DEF WritesRequest, OnlyRequests
      <3>2. f.pay.kind = "req" /\ f.pay.id \in 1 .. nsent
        BY <1>2, <3>1 DEF Req
      <3>3. \A i \in DOMAIN toNcp' :
              \/ i \in DOMAIN toNcp /\ toNcp'[i] = toNcp[i]
              \/ toNcp'[i] = f
        BY <1>2, AppendFrames
      <3>4. Requests(toNcp', nsent)
        BY <1>2, <3>2, <3>3 DEF Requests, IsRequest
      <3> QED BY <1>1, <2>1, <3>1, <3>4 DEF OnlyRequests
    <2> QED BY <1>3, <2>1, <2>2, <2>3
  <1>7. CASE NcpStep
    <2>1. UNCHANGED <<op, sending, frmNum, nsent>>
      BY <1>7 DEF NcpStep, callVars, numbers
    <2>2. UNCHANGED toNcp \/ (toNcp # <<>> /\ toNcp' = Tail(toNcp))
      BY <1>2, <1>7, NcpStepIsEnv DEF Env
    <2>3. Requests(toNcp', nsent)
      BY <1>2, <2>2, TailKeeps
    <2> QED BY <1>1, <2>1, <2>3 DEF OnlyRequests
  <1>8. CASE UNCHANGED linkVars
    <2>1. Quiet /\ UNCHANGED nsent
      BY <1>8 DEF linkVars, vars, callVars, numbers, Quiet
    <2> QED BY <1>3, <2>1
  <1> QED BY <1>4, <1>5, <1>6, <1>7, <1>8 DEF LinkNext

LEMMA OnlyRequestsInit == LinkInit => OnlyRequests
  <1> SUFFICES ASSUME LinkInit PROVE OnlyRequests
    OBVIOUS
  <1>1. LinkTypeOK
    BY TypeInit, NumZero, LinkAssumption DEF LinkInit, LinkTypeOK
  <1>2. toNcp = <<>> /\ op = "idle"
    BY DEF LinkInit, Init
  <1> QED BY <1>1, <1>2 DEF OnlyRequests, Requests

(* The types of the whole link.                                            *)
THEOREM LinkTypeCorrect == LinkSpec => []LinkTypeOK
  <1>1. OnlyRequests => LinkTypeOK
    BY DEF OnlyRequests
  <1> QED BY <1>1, OnlyRequestsInit, OnlyRequestsStep, PTL DEF LinkSpec

(* Every behaviour of the link is one of the open connection of AshConn:   *)
(* what is shown of that for any environment holds with this NCP.          *)
THEOREM LinkIsConn == LinkSpec => Spec
  <1>1. LinkInit => Init
    BY DEF LinkInit
  <1>2. OnlyRequests /\ [LinkNext]_linkVars => [Next]_vars
    BY LinkStepIsConnStep DEF OnlyRequests
  <1> QED
    BY <1>1, <1>2, OnlyRequestsInit, OnlyRequestsStep, PTL DEF LinkSpec, Spec

(* So frmNum and ackNum move only with an answer in the link, too.         *)
THEOREM LinkNumbersTheorem == LinkSpec => NumbersFollowAnswers
  BY LinkIsConn, NumbersTheorem, PTL

------------------------------------------------------------------------------
(* AshLink implements AshService: a request of an application that stops   *)
(* at the first error gets its own answer, or fails.                       *)

(* What the promise of Send rests on: the application ends a connection at *)
(* the first error, as the CLI does but for config and endpoints; the ACKs *)
(* of the host are written and arrive, the NCP does not retransmit what    *)
(* may have arrived, sends nothing that nobody asked for, and does not     *)
(* restart by itself.                                                      *)
Envelope ==
  /\ ~CarriesOn
  /\ "write" \notin Faults
  /\ LinkFaults \cap {"loseAck", "early", "callback", "ncpReset"} = {}

(* The frames on their way to the caller.                                  *)
Incoming == frames \o buf \o toHost

(* Of a sequence of frames: no frame of type t,                            *)
Without(w, t) == \A i \in DOMAIN w : w[i].type # t

(* no DATA behind an RSTACK, no RST behind DATA,                           *)
FreshAfterReset(w) ==
  \A i, j \in DOMAIN w :
    i < j /\ w[i].type = "RSTACK" => w[j].type # "DATA"

ResetBeforeData(w) ==
  \A i, j \in DOMAIN w : i < j /\ IsRequest(w, i) => w[j].type # "RST"

(* at most one frame with DATA, and that has number f and carries p,       *)
AtMostOne(w, f, p) ==
  /\ \A i \in DOMAIN w : w[i].type = "DATA" => w[i].frm = f /\ w[i].pay = p
  /\ \A i, j \in DOMAIN w :
       w[i].type = "DATA" /\ w[j].type = "DATA" => i = j

(* one ACK, naming a, ahead of every request but those of number k,        *)
AckAhead(w, a, k) ==
  \E i \in DOMAIN w :
    /\ w[i].type = "ACK" /\ w[i].ack = a
    /\ \A j \in DOMAIN w :
         /\ w[j].type = "ACK" => j = i
         /\ IsRequest(w, j) /\ w[j].pay.id # k => i < j

(* requests of numbers in K only.                                          *)
RequestsIn(w, K) ==
  \A i \in DOMAIN w : IsRequest(w, i) => w[i].pay.id \in K

(* A connection up to the end of its Reset, and one whose calls have all   *)
(* succeeded so far.                                                       *)
Opening ==
  /\ closing = "open"
  /\ op \in {"drain", "rst", "rstack"} \/ (op = "idle" /\ result.call = "none")

Talking ==
  /\ closing = "open"
  /\ \/ op \in {"tx", "wait", "recv"}
     \/ op = "idle" /\ result.call # "none" /\ result.out \in {"ok", "data"}

PlaceInv ==
  /\ reader # "push" => buf = <<>>
  /\ closing = "closed" => reader = "exited"
  /\ closing # "open" => op = "idle"
  /\ result.call = "none" => result.out = "none"

(* Only RSTs are on their way to the NCP.  Once it has answered one it has *)
(* nothing to send, and nothing it sent follows the answer.                *)
OpenInv ==
  /\ \A i \in DOMAIN toNcp : toNcp[i].type = "RST"
  /\ FreshAfterReset(Incoming)
  /\ Without(Incoming, "RSTACK") \/ (unacked = <<>> /\ pend = <<>> /\ ncpTx = 0)

(* The four stages of an exchange: the NCP has nothing to say;             *)
Silent ==
  /\ pend = <<>> /\ unacked = <<>> /\ ncpTx = ackNum
  /\ Without(Incoming, "DATA") /\ Without(toNcp, "ACK")
  /\ Without(toNcp, "RST") \/ ackNum = 0

Answering ==
  /\ op \in {"tx", "wait"} /\ LastRun = nsent
  /\ Without(toNcp, "ACK") /\ Without(toNcp, "RST")

(* it is to answer this request;                                           *)
Queued ==
  /\ Answering
  /\ pend = <<Resp(nsent)>> /\ unacked = <<>> /\ ncpTx = ackNum
  /\ Without(Incoming, "DATA")

(* it has answered, and at most one copy of that is on its way;            *)
Replied ==
  /\ Answering
  /\ pend = <<>> /\ unacked = <<[frm |-> ackNum, pay |-> Resp(nsent)]>>
  /\ ncpTx = NextNum(ackNum)
  /\ AtMostOne(Incoming, ackNum, Resp(nsent))

(* the caller has the answer, and its ACK is ahead of the next request.    *)
Acknowledging ==
  /\ pend = <<>> /\ \E p \in Message : \E f \in Num :
       unacked = <<[frm |-> f, pay |-> p]>> /\ NextNum(f) = ackNum
  /\ ncpTx = ackNum
  /\ Without(Incoming, "DATA") /\ Without(toNcp, "RST")
  /\ AckAhead(toNcp, ackNum, LastRun)

Current == IF op \in {"tx", "wait"} THEN {LastRun, nsent} ELSE {LastRun}

TalkInv ==
  /\ ResetBeforeData(toNcp) /\ RequestsIn(toNcp, Current)
  /\ Silent \/ Queued \/ Replied \/ Acknowledging

ServiceInv == PlaceInv /\ (Opening => OpenInv) /\ (Talking => TalkInv)

------------------------------------------------------------------------------
(* Sequences.                                                              *)

LEMMA ConcatFrames ==
  ASSUME NEW a \in Seq(Frame), NEW b \in Seq(Frame)
  PROVE  /\ a \o b \in Seq(Frame) /\ Len(a) \in Nat /\ Len(b) \in Nat
         /\ Len(a \o b) = Len(a) + Len(b)
         /\ DOMAIN (a \o b) = 1 .. Len(a) + Len(b)
         /\ \A i \in 1 .. Len(a) : (a \o b)[i] = a[i]
         /\ \A i \in 1 .. Len(b) : (a \o b)[Len(a) + i] = b[i]
  <1>1. /\ a \o b \in Seq(Frame) /\ Len(a \o b) = Len(a) + Len(b)
        /\ \A i \in 1 .. Len(a) + Len(b) :
             (a \o b)[i] = IF i <= Len(a) THEN a[i] ELSE b[i - Len(a)]
    BY ConcatProperties
  <1>2. Len(a) \in Nat /\ Len(b) \in Nat
    BY LenProperties
  <1>3. DOMAIN (a \o b) = 1 .. Len(a) + Len(b)
    BY <1>1, LenProperties
  <1>4. \A i \in 1 .. Len(a) : (a \o b)[i] = a[i]
    BY <1>1, <1>2
  <1>5. ASSUME NEW i \in 1 .. Len(b) PROVE (a \o b)[Len(a) + i] = b[i]
    <2>1. /\ Len(a) + i \in 1 .. Len(a) + Len(b) /\ ~ (Len(a) + i <= Len(a))
          /\ (Len(a) + i) - Len(a) = i
      BY <1>2
    <2> QED BY <1>1, <2>1
  <1> QED BY <1>1, <1>2, <1>3, <1>4, <1>5

LEMMA ConcatThree ==
  ASSUME NEW a \in Seq(Frame), NEW b \in Seq(Frame), NEW c \in Seq(Frame)
  PROVE  (a \o b) \o c = a \o (b \o c)
  BY ONLY ConcatAssociative

LEMMA NoFrames == <<>> \in Seq(Frame) /\ DOMAIN <<>> = {}
  <1>1. <<>> \in Seq(Frame) /\ Len(<<>>) = 0
    BY EmptySeq
  <1>2. DOMAIN <<>> = 1 .. 0
    BY <1>1, LenProperties
  <1> QED BY <1>2

(* A frame moves up in a queue before another queue.                       *)
LEMMA ConcatTail ==
  ASSUME NEW a \in Seq(Frame), a # <<>>, NEW b \in Seq(Frame)
  PROVE  a \o b # <<>> /\ Head(a \o b) = Head(a) /\ Tail(a \o b) = Tail(a) \o b
  <1>1. /\ Tail(a) \in Seq(Frame) /\ Head(a) = a[1] /\ Len(a) \in Nat \ {0}
        /\ Len(Tail(a)) = Len(a) - 1
        /\ \A i \in 1 .. Len(a) - 1 : Tail(a)[i] = a[i + 1]
    BY TailFrames
  <1>2. PICK c \in Seq(Frame) : c = a \o b
    BY ConcatFrames
  <1>3. /\ Len(c) = Len(a) + Len(b) /\ Len(b) \in Nat
        /\ \A i \in 1 .. Len(a) : c[i] = a[i]
        /\ \A i \in 1 .. Len(b) : c[Len(a) + i] = b[i]
    BY <1>2, ConcatFrames
  <1>4. c # <<>>
    BY <1>1, <1>3, EmptySeq
  <1>5. /\ Tail(c) \in Seq(Frame) /\ Head(c) = c[1] /\ Len(Tail(c)) = Len(c) - 1
        /\ \A i \in 1 .. Len(c) - 1 : Tail(c)[i] = c[i + 1]
    BY <1>4, TailFrames
  <1>6. PICK d \in Seq(Frame) : d = Tail(a) \o b
    BY <1>1, ConcatFrames
  <1>7. /\ Len(d) = Len(a) - 1 + Len(b)
        /\ \A i \in 1 .. Len(a) - 1 : d[i] = Tail(a)[i]
        /\ \A i \in 1 .. Len(b) : d[Len(a) - 1 + i] = b[i]
    BY <1>1, <1>6, ConcatFrames
  <1>8. ASSUME NEW i \in 1 .. Len(d) PROVE Tail(c)[i] = d[i]
    <2>1. CASE i \in 1 .. Len(a) - 1
      BY <1>1, <1>3, <1>5, <1>7, <2>1
    <2>2. CASE i \notin 1 .. Len(a) - 1
      <3>1. PICK k \in 1 .. Len(b) : i = Len(a) - 1 + k
        <4>1. i \in Int /\ i - (Len(a) - 1) \in 1 .. Len(b)
          BY <1>1, <1>3, <1>7, <2>2
        <4>2. i = Len(a) - 1 + (i - (Len(a) - 1))
          BY <1>1, <4>1
        <4> QED BY <4>1, <4>2
      <3>2. d[i] = b[k] /\ c[Len(a) + k] = b[k]
        BY <1>3, <1>7, <3>1
      <3>3. i + 1 = Len(a) + k /\ i \in 1 .. Len(c) - 1
        BY <1>1, <1>3, <1>7, <3>1
      <3> QED BY <1>5, <3>2, <3>3
    <2> QED BY <2>1, <2>2
  <1>9. Tail(c) = d
    BY <1>3, <1>5, <1>6, <1>7, <1>8, SeqEqual
  <1>10. Head(c) = Head(a)
    BY <1>1, <1>3, <1>5
  <1> QED BY <1>2, <1>4, <1>6, <1>9, <1>10

LEMMA ConcatAppend ==
  ASSUME NEW a \in Seq(Frame), NEW b \in Seq(Frame), NEW f \in Frame
  PROVE  a \o Append(b, f) = Append(a \o b, f)
  <1>1. <<f>> \in Seq(Frame) /\ a \o b \in Seq(Frame)
    BY ConcatFrames
  <1>2. Append(b, f) = b \o <<f>> /\ Append(a \o b, f) = (a \o b) \o <<f>>
    BY <1>1, AppendIsConcat
  <1>3. (a \o b) \o <<f>> = a \o (b \o <<f>>)
    BY <1>1, ConcatThree
  <1> QED BY <1>2, <1>3

(* A frame goes from the head of a queue to the end of the one before.     *)
LEMMA ConcatMove ==
  ASSUME NEW a \in Seq(Frame), NEW b \in Seq(Frame), b # <<>>
  PROVE  Append(a, Head(b)) \o Tail(b) = a \o b
  <1>1. /\ Tail(b) \in Seq(Frame) /\ Head(b) \in Frame /\ Head(b) = b[1]
        /\ Len(b) \in Nat \ {0} /\ Tail(b) = SubSeq(b, 2, Len(b))
    BY TailFrames, TailIsSubSeq
  <1>2. <<Head(b)>> \in Seq(Frame)
    BY <1>1
  <1>3. b = <<Head(b)>> \o Tail(b)
    <2>1. SubSeq(b, 1, Len(b)) = <<b[1]>> \o SubSeq(b, 1 + 1, Len(b))
      <3>1. 1 \in 1 .. Len(b) /\ Len(b) \in 1 .. Len(b)
        BY <1>1
      <3> QED BY <3>1, SubSeqRecursiveFirst
    <2>2. SubSeq(b, 1, Len(b)) = b
      BY SubSeqFull
    <2> QED BY <1>1, <2>1, <2>2
  <1>4. Append(a, Head(b)) = a \o <<Head(b)>>
    BY <1>1, AppendIsConcat
  <1>5. (a \o <<Head(b)>>) \o Tail(b) = a \o (<<Head(b)>> \o Tail(b))
    BY <1>1, <1>2, ConcatThree
  <1> QED BY <1>3, <1>4, <1>5

(* The frames of one Read.                                                 *)
LEMMA ConcatSplit ==
  ASSUME NEW a \in Seq(Frame), NEW c \in Seq(Frame), NEW n \in 0 .. Len(c)
  PROVE  /\ SubSeq(c, 1, n) \in Seq(Frame)
         /\ SubSeq(c, n + 1, Len(c)) \in Seq(Frame)
         /\ (a \o SubSeq(c, 1, n)) \o SubSeq(c, n + 1, Len(c)) = a \o c
  <1>1. Len(c) \in Nat /\ \A i \in 1 .. Len(c) : c[i] \in Frame
    BY LenProperties, ElementOfSeq
  <1>2. SubSeq(c, 1, n) \in Seq(Frame)
    <2>1. \A i \in 1 .. n : c[i] \in Frame
      BY <1>1
    <2> QED BY <1>1, <2>1, SubSeqProperties
  <1>3. SubSeq(c, n + 1, Len(c)) \in Seq(Frame)
    <2>1. n + 1 \in Int /\ \A i \in n + 1 .. Len(c) : c[i] \in Frame
      BY <1>1
    <2> QED BY <1>1, <2>1, SubSeqProperties
  <1>4. SubSeq(c, 1, n) \o SubSeq(c, n + 1, Len(c)) = c
    <2>1. /\ 1 \in 1 .. Len(c) + 1 /\ n \in 1 - 1 .. Len(c)
          /\ Len(c) \in n .. Len(c)
      BY <1>1
    <2>2. SubSeq(c, 1, n) \o SubSeq(c, n + 1, Len(c)) = SubSeq(c, 1, Len(c))
      BY <2>1, ConcatAdjacentSubSeq
    <2> QED BY <2>2, SubSeqFull
  <1>5. ASSUME NEW s \in Seq(Frame), NEW t \in Seq(Frame), s \o t = c
        PROVE  (a \o s) \o t = a \o c
    <2>1. (a \o s) \o t = a \o (s \o t)
      BY ConcatThree
    <2> QED BY ONLY <1>5, <2>1, Zenon
  <1>6. PICK s \in Seq(Frame), t \in Seq(Frame) :
          s = SubSeq(c, 1, n) /\ t = SubSeq(c, n + 1, Len(c))
    BY ONLY <1>2, <1>3, Zenon
  <1>7. s \o t = c
    BY ONLY <1>4, <1>6, Zenon
  <1>8. (a \o s) \o t = a \o c
    BY ONLY <1>5, <1>7, Zenon
  <1> QED BY ONLY <1>6, <1>8, Zenon

------------------------------------------------------------------------------
(* What is on its way to the caller, under the steps that touch it.        *)

LEMMA IncomingType ==
  ASSUME TypeOK
  PROVE  /\ frames \in Seq(Frame) /\ buf \in Seq(Frame) /\ toHost \in Seq(Frame)
         /\ frames \o buf \in Seq(Frame) /\ Incoming \in Seq(Frame)
  <1>1. frames \in Seq(Frame) /\ buf \in Seq(Frame) /\ toHost \in Seq(Frame)
    BY DEF TypeOK
  <1>2. frames \o buf \in Seq(Frame)
    BY <1>1, ConcatFrames
  <1>3. Incoming \in Seq(Frame)
    BY <1>1, <1>2, ConcatFrames DEF Incoming
  <1> QED BY <1>1, <1>2, <1>3

LEMMA IncomingTaken ==
  ASSUME TypeOK, frames # <<>>, frames' = Tail(frames),
         UNCHANGED <<buf, toHost>>
  PROVE  /\ Incoming # <<>> /\ Head(Incoming) = Head(frames)
         /\ Incoming' = Tail(Incoming)
  <1>1. /\ frames \o buf # <<>> /\ Head(frames \o buf) = Head(frames)
        /\ Tail(frames \o buf) = Tail(frames) \o buf
    BY IncomingType, ConcatTail
  <1>2. /\ (frames \o buf) \o toHost # <<>>
        /\ Head((frames \o buf) \o toHost) = Head(frames \o buf)
        /\ Tail((frames \o buf) \o toHost) = Tail(frames \o buf) \o toHost
    BY <1>1, IncomingType, ConcatTail
  <1>3. Incoming' = (Tail(frames) \o buf) \o toHost
    BY DEF Incoming
  <1> QED BY <1>1, <1>2, <1>3 DEF Incoming

LEMMA IncomingSent ==
  ASSUME TypeOK, NEW f \in Frame, toHost' = Append(toHost, f),
         UNCHANGED <<frames, buf>>
  PROVE  Incoming' = Append(Incoming, f)
  BY IncomingType, ConcatAppend DEF Incoming

LEMMA IncomingRead ==
  ASSUME TypeOK, PlaceInv, ReaderRead \/ ReaderPush
  PROVE  Incoming' = Incoming
  <1>1. CASE ReaderRead
    <2>1. PICK n \in 0 .. ReadChunk :
            /\ n <= Len(toHost) /\ buf' = SubSeq(toHost, 1, n)
            /\ toHost' = SubSeq(toHost, n + 1, Len(toHost))
      BY <1>1 DEF ReaderRead
    <2>2. n \in 0 .. Len(toHost)
      BY <2>1, IncomingType, LenProperties
    <2>3. (frames \o buf') \o toHost' = frames \o toHost
      BY <2>1, <2>2, IncomingType, ConcatSplit
    <2>4. frames' = frames /\ buf = <<>>
      BY <1>1 DEF ReaderRead, PlaceInv
    <2>5. frames \o buf = frames
      BY <2>4, IncomingType, ConcatEmptySeq
    <2> QED BY <2>3, <2>4, <2>5 DEF Incoming
  <1>2. CASE ReaderPush
    <2>1. /\ buf # <<>> /\ frames' = Append(frames, Head(buf))
          /\ buf' = Tail(buf) /\ toHost' = toHost
      BY <1>2 DEF ReaderPush
    <2>2. Append(frames, Head(buf)) \o Tail(buf) = frames \o buf
      BY <2>1, IncomingType, ConcatMove
    <2> QED BY <2>1, <2>2 DEF Incoming
  <1> QED BY <1>1, <1>2

(* A flush leaves a prefix.                                                *)
LEMMA IncomingFlushed ==
  ASSUME TypeOK, toHost' = <<>>, UNCHANGED <<frames, buf>>
  PROVE  /\ Incoming' = frames \o buf
         /\ DOMAIN Incoming' \subseteq DOMAIN Incoming
         /\ \A i \in DOMAIN Incoming' : Incoming'[i] = Incoming[i]
  <1>1. Incoming' = (frames \o buf) \o <<>>
    BY DEF Incoming
  <1>2. Incoming' = frames \o buf
    BY <1>1, IncomingType, ConcatEmptySeq
  <1>3. PICK c \in Seq(Frame) : c = frames \o buf
    BY IncomingType
  <1>4. /\ Len(c) \in Nat /\ Len(toHost) \in Nat
        /\ DOMAIN (c \o toHost) = 1 .. Len(c) + Len(toHost)
        /\ \A i \in 1 .. Len(c) : (c \o toHost)[i] = c[i]
    BY IncomingType, ConcatFrames
  <1>5. DOMAIN c = 1 .. Len(c)
    BY LenProperties
  <1> QED BY <1>2, <1>3, <1>4, <1>5 DEF Incoming

------------------------------------------------------------------------------
(* What is said of a sequence, when its first frame leaves and when one    *)
(* more is added.                                                          *)

LEMMA TakenFacts ==
  ASSUME NEW w \in Seq(Frame), w # <<>>, NEW v, v = Tail(w)
  PROVE  /\ \A t : Without(w, t) => Without(v, t)
         /\ FreshAfterReset(w) => FreshAfterReset(v)
         /\ FreshAfterReset(w) /\ Head(w).type = "RSTACK" => Without(v, "DATA")
         /\ ResetBeforeData(w) => ResetBeforeData(v)
         /\ ResetBeforeData(w) /\ Head(w).type = "DATA" => Without(v, "RST")
         /\ \A K : RequestsIn(w, K) => RequestsIn(v, K)
         /\ \A K : RequestsIn(w, K) /\ Head(w).type = "DATA" =>
                     Head(w).pay.id \in K
  <1>1. /\ Head(w) = w[1] /\ Len(w) \in Nat \ {0} /\ DOMAIN w = 1 .. Len(w)
        /\ DOMAIN v = 1 .. Len(w) - 1
        /\ \A i \in 1 .. Len(w) - 1 : v[i] = w[i + 1]
    BY TailFrames
  <1>2. /\ 1 \in DOMAIN w
        /\ \A i \in DOMAIN v : i + 1 \in DOMAIN w /\ v[i] = w[i + 1] /\ 1 < i + 1
    BY <1>1
  <1>3. \A i, j \in DOMAIN v : i < j => i + 1 < j + 1
    BY <1>1
  <1>4. \A t : Without(w, t) => Without(v, t)
    BY <1>2 DEF Without
  <1>5. FreshAfterReset(w) => FreshAfterReset(v)
    BY ONLY <1>2, <1>3 DEF FreshAfterReset
  <1>6. FreshAfterReset(w) /\ Head(w).type = "RSTACK" => Without(v, "DATA")
    BY ONLY <1>1, <1>2 DEF FreshAfterReset, Without
  <1>7. ResetBeforeData(w) => ResetBeforeData(v)
    BY ONLY <1>2, <1>3 DEF ResetBeforeData, IsRequest
  <1>8. ResetBeforeData(w) /\ Head(w).type = "DATA" => Without(v, "RST")
    BY ONLY <1>1, <1>2 DEF ResetBeforeData, Without, IsRequest
  <1>9. \A K : RequestsIn(w, K) => RequestsIn(v, K)
    BY ONLY <1>2 DEF RequestsIn, IsRequest
  <1>10. \A K : RequestsIn(w, K) /\ Head(w).type = "DATA" =>
                  Head(w).pay.id \in K
    BY ONLY <1>1, <1>2 DEF RequestsIn, IsRequest
  <1> QED BY <1>4, <1>5, <1>6, <1>7, <1>8, <1>9, <1>10

(* At most one copy of the answer, and one ACK.                            *)
LEMMA TakenOne ==
  ASSUME NEW w \in Seq(Frame), w # <<>>, NEW v, v = Tail(w), NEW f, NEW p
  PROVE  /\ AtMostOne(w, f, p) => AtMostOne(v, f, p)
         /\ AtMostOne(w, f, p) /\ Head(w).type = "DATA" =>
              Head(w).frm = f /\ Head(w).pay = p /\ Without(v, "DATA")
         /\ AckAhead(w, f, p) /\ Head(w).type # "ACK" => AckAhead(v, f, p)
         /\ AckAhead(w, f, p) /\ Head(w).type = "ACK" =>
              Head(w).ack = f /\ Without(v, "ACK")
         /\ AckAhead(w, f, p) /\ Head(w).type = "DATA" => Head(w).pay.id = p
  <1>1. /\ Head(w) = w[1] /\ Len(w) \in Nat \ {0} /\ DOMAIN w = 1 .. Len(w)
        /\ DOMAIN v = 1 .. Len(w) - 1
        /\ \A i \in 1 .. Len(w) - 1 : v[i] = w[i + 1]
    BY TailFrames
  <1>2. /\ 1 \in DOMAIN w
        /\ \A i \in DOMAIN v : i + 1 \in DOMAIN w /\ v[i] = w[i + 1] /\ i + 1 # 1
    BY <1>1
  <1>3. \A i, j \in DOMAIN v : i + 1 = j + 1 => i = j
    BY <1>1
  <1>4. AtMostOne(w, f, p) => AtMostOne(v, f, p)
    BY ONLY <1>2, <1>3 DEF AtMostOne
  <1>5. AtMostOne(w, f, p) /\ Head(w).type = "DATA" =>
          Head(w).frm = f /\ Head(w).pay = p /\ Without(v, "DATA")
    BY ONLY <1>1, <1>2 DEF AtMostOne, Without
  <1>6. ASSUME AckAhead(w, f, p)
        PROVE  /\ Head(w).type # "ACK" => AckAhead(v, f, p)
               /\ Head(w).type = "ACK" => Head(w).ack = f /\ Without(v, "ACK")
               /\ Head(w).type = "DATA" => Head(w).pay.id = p
    <2>1. PICK i \in DOMAIN w :
            /\ w[i].type = "ACK" /\ w[i].ack = f
            /\ \A j \in DOMAIN w :
                 /\ w[j].type = "ACK" => j = i
                 /\ IsRequest(w, j) /\ w[j].pay.id # p => i < j
      BY <1>6 DEF AckAhead
    <2>2. Head(w).type = "ACK" => Head(w).ack = f /\ Without(v, "ACK")
      BY ONLY <1>1, <1>2, <2>1 DEF Without
    <2>3. Head(w).type = "DATA" => Head(w).pay.id = p
      BY ONLY <1>1, <1>2, <2>1 DEF IsRequest
    <2>4. ASSUME Head(w).type # "ACK" PROVE AckAhead(v, f, p)
      <3>1. /\ i - 1 \in DOMAIN v /\ (i - 1) + 1 = i
            /\ v[i - 1] = w[i]
        BY ONLY <1>1, <2>1, <2>4
      <3>2. ASSUME NEW j \in DOMAIN v
            PROVE  /\ v[j].type = "ACK" => j = i - 1
                   /\ IsRequest(v, j) /\ v[j].pay.id # p => i - 1 < j
        <4>1. /\ j \in Nat /\ i \in Nat /\ j + 1 \in DOMAIN w /\ v[j] = w[j + 1]
          BY ONLY <1>1, <2>1, <3>2
        <4>2. v[j].type = "ACK" => j + 1 = i
          BY ONLY <2>1, <4>1
        <4>3. IsRequest(v, j) /\ v[j].pay.id # p => i < j + 1
          BY ONLY <2>1, <4>1 DEF IsRequest
        <4> QED BY ONLY <4>1, <4>2, <4>3
      <3> QED BY ONLY <2>1, <3>1, <3>2 DEF AckAhead
    <2> QED BY <2>2, <2>3, <2>4
  <1> QED BY <1>4, <1>5, <1>6

LEMMA AddedFacts ==
  ASSUME NEW w \in Seq(Frame), NEW f \in Frame, NEW v, v = Append(w, f)
  PROVE  /\ \A t : Without(w, t) /\ f.type # t => Without(v, t)
         /\ FreshAfterReset(w) /\ (f.type # "DATA" \/ Without(w, "RSTACK")) =>
              FreshAfterReset(v)
         /\ ResetBeforeData(w) /\ f.type # "RST" => ResetBeforeData(v)
         /\ \A K : RequestsIn(w, K) /\ (f.type = "DATA" => f.pay.id \in K) =>
                     RequestsIn(v, K)
  <1>1. /\ Len(w) \in Nat /\ DOMAIN w = 1 .. Len(w)
        /\ DOMAIN v = 1 .. Len(w) + 1
        /\ \A i \in 1 .. Len(w) : v[i] = w[i]
        /\ v[Len(w) + 1] = f
    BY AppendFrames
  <1>2. \A i \in DOMAIN v : \/ i \in DOMAIN w /\ v[i] = w[i]
                            \/ i = Len(w) + 1 /\ v[i] = f
    BY ONLY <1>1
  <1>3. \A i, j \in DOMAIN v : i < j => i \in DOMAIN w /\ v[i] = w[i]
    BY ONLY <1>1
  <1>4. \A t : Without(w, t) /\ f.type # t => Without(v, t)
    BY ONLY <1>2 DEF Without
  <1>5. FreshAfterReset(w) /\ (f.type # "DATA" \/ Without(w, "RSTACK")) =>
          FreshAfterReset(v)
    BY ONLY <1>2, <1>3 DEF FreshAfterReset, Without
  <1>6. ResetBeforeData(w) /\ f.type # "RST" => ResetBeforeData(v)
    BY ONLY <1>2, <1>3 DEF ResetBeforeData, IsRequest
  <1>7. \A K : RequestsIn(w, K) /\ (f.type = "DATA" => f.pay.id \in K) =>
                 RequestsIn(v, K)
    BY ONLY <1>2 DEF RequestsIn, IsRequest
  <1> QED BY <1>4, <1>5, <1>6, <1>7

LEMMA AddedOne ==
  ASSUME NEW w \in Seq(Frame), NEW f \in Frame, NEW v, v = Append(w, f)
  PROVE  /\ Without(w, "DATA") /\ f.type = "DATA" => AtMostOne(v, f.frm, f.pay)
         /\ \A a, p : AtMostOne(w, a, p) /\ f.type # "DATA" => AtMostOne(v, a, p)
         /\ \A k : Without(w, "ACK") /\ RequestsIn(w, {k}) /\ f.type = "ACK" =>
                     AckAhead(v, f.ack, k)
         /\ \A a, k : AckAhead(w, a, k) /\ f.type # "ACK" => AckAhead(v, a, k)
  <1>1. /\ Len(w) \in Nat /\ DOMAIN w = 1 .. Len(w)
        /\ DOMAIN v = 1 .. Len(w) + 1
        /\ \A i \in 1 .. Len(w) : v[i] = w[i]
        /\ v[Len(w) + 1] = f
    BY AppendFrames
  <1>2. /\ \A i \in DOMAIN v : \/ i \in DOMAIN w /\ v[i] = w[i]
                               \/ i = Len(w) + 1 /\ v[i] = f
        /\ Len(w) + 1 \in DOMAIN v
        /\ \A i \in DOMAIN w : i \in DOMAIN v /\ v[i] = w[i] /\ i < Len(w) + 1
    BY ONLY <1>1
  <1>3. Without(w, "DATA") /\ f.type = "DATA" => AtMostOne(v, f.frm, f.pay)
    BY ONLY <1>2 DEF AtMostOne, Without
  <1>4. \A a, p : AtMostOne(w, a, p) /\ f.type # "DATA" => AtMostOne(v, a, p)
    BY ONLY <1>2 DEF AtMostOne
  <1>5. ASSUME NEW k, Without(w, "ACK"), RequestsIn(w, {k}), f.type = "ACK"
        PROVE  AckAhead(v, f.ack, k)
    <2>1. \A j \in DOMAIN v : v[j].type = "ACK" => j = Len(w) + 1
      BY ONLY <1>2, <1>5 DEF Without
    <2>2. \A j \in DOMAIN v : IsRequest(v, j) => v[j].pay.id = k
      BY ONLY <1>2, <1>5 DEF RequestsIn, IsRequest
    <2> QED BY ONLY <1>1, <1>2, <1>5, <2>1, <2>2 DEF AckAhead
  <1>6. ASSUME NEW a, NEW k, AckAhead(w, a, k), f.type # "ACK"
        PROVE  AckAhead(v, a, k)
    <2>1. PICK i \in DOMAIN w :
            /\ w[i].type = "ACK" /\ w[i].ack = a
            /\ \A j \in DOMAIN w :
                 /\ w[j].type = "ACK" => j = i
                 /\ IsRequest(w, j) /\ w[j].pay.id # k => i < j
      BY ONLY <1>6 DEF AckAhead
    <2>2. i \in DOMAIN v /\ v[i] = w[i] /\ i < Len(w) + 1
      BY ONLY <1>2, <2>1
    <2>3. \A j \in DOMAIN v : v[j].type = "ACK" => j = i
      BY ONLY <1>2, <1>6, <2>1
    <2>4. \A j \in DOMAIN v : IsRequest(v, j) /\ v[j].pay.id # k => i < j
      BY ONLY <1>2, <2>1, <2>2 DEF IsRequest
    <2> QED BY ONLY <2>1, <2>2, <2>3, <2>4 DEF AckAhead
  <1> QED BY <1>3, <1>4, <1>5, <1>6

------------------------------------------------------------------------------
(* The host's steps.                                                       *)

LEMMA PlaceStep ==
  ASSUME TypeOK, PlaceInv, LinkNext
  PROVE  PlaceInv'
  <1> USE DEF PlaceInv, callVars, numbers, readerVars, ncpVars
  <1>1. CASE AppNew
    BY <1>1 DEF AppNew, New, NoResult
  <1>2. CASE AppReset \/ AppSend \/ AppRecv
    BY <1>2 DEF AppReset, AppSend, AppRecv, CallReset, CallSend, CallRecv, NoResult
  <1>3. CASE AppClose
    BY <1>3 DEF AppClose, Close
  <1>4. CASE NcpStep
    BY <1>4 DEF NcpStep
  <1>5. CASE CallStep
    <2>1. UNCHANGED readerVars
      BY <1>5 DEF CallStep, vars, Drain, DrainClosed, DrainDone, WriteRst, ResetOk,
         ResetError, ResetOther, ResetTimeout, Transmit, WaitAck, WaitNak,
         WaitTimeout, WaitData, RecvData, Skip, ConnReset, CtxReturn,
         ClosedReturn, CtxDone
    <2>2. op # "idle"
      BY <1>5 DEF CallStep, Drain, DrainClosed, DrainDone, WriteRst, ResetOk,
         ResetError, ResetOther, ResetTimeout, Transmit, WaitAck, WaitNak,
         WaitTimeout, WaitData, RecvData, Skip, ConnReset, CtxReturn,
         ClosedReturn, CtxDone
    <2>3. result' = result \/ result'.call # "none"
      BY <1>5 DEF CallStep, vars, Drain, DrainClosed, DrainDone, WriteRst, ResetOk,
         ResetError, ResetOther, ResetTimeout, Transmit, WaitAck, WaitNak,
         WaitTimeout, WaitData, RecvData, Skip, ConnReset, CtxReturn,
         ClosedReturn, CtxDone, NextAttempt, Retry, Return
    <2> QED BY <2>1, <2>2, <2>3
  <1>6. CASE ReaderRead
    <2>1. PICK n \in 0 .. ReadChunk :
            /\ buf' = SubSeq(toHost, 1, n)
            /\ reader' = IF n = 0 THEN NextRead ELSE "push"
      BY <1>6 DEF ReaderRead
    <2>2. n = 0 => buf' = <<>>
      BY <2>1, SubSeqEmpty
    <2> QED BY <1>6, <2>1, <2>2 DEF ReaderRead, NextRead
  <1>7. CASE ReaderPush
    BY <1>7 DEF ReaderPush, NextRead
  <1>8. CASE ReaderQuit \/ ReaderError \/ CloseReturn
    BY <1>8 DEF ReaderQuit, ReaderError, CloseReturn
  <1> QED BY <1>1, <1>2, <1>3, <1>4, <1>5, <1>6, <1>7, <1>8
          DEF LinkNext, HostStep, ReaderStep

LEMMA TalkParts ==
  TalkInv => /\ ResetBeforeData(toNcp) /\ RequestsIn(toNcp, Current)
             /\ Silent \/ Queued \/ Replied \/ Acknowledging
  BY DEF TalkInv

(* The caller takes at most one frame and goes no further than it was.     *)
LEMMA CallerMoves ==
  ASSUME TypeOK, ServiceInv, PlaceInv',
         \/ Incoming' = Incoming
         \/ Incoming # <<>> /\ Incoming' = Tail(Incoming),
         UNCHANGED <<toNcp, executed, ncpTx, unacked, pend, ackNum, nsent>>,
         Opening' => Opening,
         Talking' => Talking /\ (op' \in {"tx", "wait"} <=> op \in {"tx", "wait"})
  PROVE  ServiceInv'
  <1>1. Incoming \in Seq(Frame)
    BY IncomingType
  <1>2. /\ \A t : Without(Incoming, t) => Without(Incoming', t)
        /\ FreshAfterReset(Incoming) => FreshAfterReset(Incoming')
        /\ \A f, p : AtMostOne(Incoming, f, p) => AtMostOne(Incoming', f, p)
    BY <1>1, TakenFacts, TakenOne
  <1>3. LastRun' = LastRun
    BY DEF LastRun
  <1>4. Opening' => OpenInv'
    BY <1>2 DEF ServiceInv, OpenInv
  <1>5. ASSUME Talking' PROVE TalkInv'
    <2>1. Talking /\ (op' \in {"tx", "wait"} <=> op \in {"tx", "wait"}) /\ TalkInv
      BY <1>5 DEF ServiceInv
    <2>2. Current' = Current
      BY <1>3, <2>1 DEF Current
    <2>3. Silent => Silent'
      BY <1>2 DEF Silent
    <2>4. Queued => Queued'
      BY <1>2, <1>3, <2>1 DEF Queued, Answering
    <2>5. Replied => Replied'
      BY <1>2, <1>3, <2>1 DEF Replied, Answering
    <2>6. Acknowledging => Acknowledging'
      BY <1>2, <1>3 DEF Acknowledging
    <2> QED BY <2>1, <2>2, <2>3, <2>4, <2>5, <2>6 DEF TalkInv
  <1> QED BY <1>4, <1>5 DEF ServiceInv

(* A call that fails ends the connection.                                  *)
LEMMA GivesUpTalking ==
  ASSUME NEW out, out \notin {"ok", "data"}, NEW p, Return(out, p)
  PROVE  ~Opening' /\ ~Talking'
  BY DEF Return, Opening, Talking

LEMMA NotClosing ==
  ASSUME PlaceInv, op # "idle"
  PROVE  /\ closing = "open"
         /\ op \in {"drain", "rst", "rstack"} => Opening
         /\ op \in {"tx", "wait", "recv"} => Talking
  BY DEF PlaceInv, Opening, Talking

LEMMA QuietHostStep ==
  ASSUME TypeOK, ServiceInv, PlaceInv', UNCHANGED <<ncpVars, nsent>>,
         \/ Drain \/ DrainClosed \/ DrainDone \/ ResetError \/ ResetOther
         \/ ResetTimeout \/ WaitAck \/ WaitNak \/ WaitTimeout \/ Skip
         \/ ConnReset \/ CtxReturn \/ ClosedReturn \/ CtxDone
         \/ ReaderStep \/ CloseReturn
  PROVE  ServiceInv'
  <1>1. PlaceInv /\ UNCHANGED <<executed, ncpTx, unacked, pend, nsent>>
    BY DEF ServiceInv, ncpVars
  <1> DEFINE Stays == /\ Opening' => Opening
                      /\ Talking' => /\ Talking
                                     /\ op' \in {"tx", "wait"} <=>
                                          op \in {"tx", "wait"}
             Takes == \/ Incoming' = Incoming
                      \/ Incoming # <<>> /\ Incoming' = Tail(Incoming)
  <1>2. Stays /\ Takes /\ UNCHANGED <<toNcp, ackNum>> => ServiceInv'
    BY <1>1, CallerMoves
  <1>3. UNCHANGED <<frames, buf, toHost>> => Takes
    BY DEF Incoming
  <1>4. frames # <<>> /\ frames' = Tail(frames) /\ UNCHANGED <<buf, toHost>> => Takes
    BY IncomingTaken
  <1> USE DEF callVars, numbers, readerVars, vars, Receive
  <1>5. CASE Drain \/ DrainClosed \/ DrainDone \/ ResetError \/ ResetOther
             \/ ResetTimeout \/ WaitAck \/ WaitNak \/ WaitTimeout \/ Skip
             \/ ConnReset \/ CtxReturn \/ ClosedReturn \/ CtxDone
    <2>1. UNCHANGED <<toNcp, ackNum, closing, buf, toHost>>
      BY <1>5 DEF Drain, DrainClosed, DrainDone, ResetError, ResetOther, ResetTimeout,
         WaitAck, WaitNak, WaitTimeout, Skip, ConnReset, CtxReturn,
         ClosedReturn, CtxDone
    <2>2. frames' = frames \/ (frames # <<>> /\ frames' = Tail(frames))
      BY <1>5 DEF Drain, DrainClosed, DrainDone, ResetError, ResetOther, ResetTimeout,
         WaitAck, WaitNak, WaitTimeout, Skip, ConnReset, CtxReturn,
         ClosedReturn, CtxDone
    <2>3. \/ op \in {"drain", "rst", "rstack"} /\ op' \in {"drain", "rst", "rstack"}
          \/ op \in {"tx", "wait"} /\ op' \in {"tx", "wait"}
          \/ op' = op /\ result' = result
          \/ \E out \in Outcome \ {"ok", "data"} : Return(out, NoPayload)
      BY <1>5 DEF Drain, DrainClosed, DrainDone, ResetError, ResetOther, ResetTimeout,
         WaitAck, WaitNak, WaitTimeout, Skip, ConnReset, CtxReturn,
         ClosedReturn, CtxDone, NextAttempt, Retry, Outcome
    <2>4. Stays
      <3>1. CASE \E out \in Outcome \ {"ok", "data"} : Return(out, NoPayload)
        BY <3>1, GivesUpTalking
      <3>2. CASE ~ \E out \in Outcome \ {"ok", "data"} : Return(out, NoPayload)
        BY <2>1, <2>3, <3>2 DEF Opening, Talking
      <3> QED BY <3>1, <3>2
    <2> QED BY <1>2, <1>3, <1>4, <2>1, <2>2, <2>4
  <1>6. CASE ReaderRead \/ ReaderPush
    <2>1. UNCHANGED <<toNcp, ackNum, closing, op, result>>
      BY <1>6 DEF ReaderRead, ReaderPush
    <2>2. Stays
      BY <2>1 DEF Opening, Talking
    <2> QED BY <1>1, <1>2, <1>6, <2>1, <2>2, IncomingRead
  <1>7. CASE ReaderQuit \/ CloseReturn
    <2>1. ~Opening' /\ ~Talking'
      BY <1>7 DEF ReaderQuit, CloseReturn, Opening, Talking
    <2> QED BY <2>1 DEF ServiceInv
  <1>8. CASE ReaderError
    <2>1. UNCHANGED <<toNcp, ackNum, closing, op, result, frames, buf, toHost>>
      BY <1>8 DEF ReaderError
    <2>2. Stays
      BY <2>1 DEF Opening, Talking
    <2> QED BY <1>2, <1>3, <2>1, <2>2
  <1> QED BY <1>5, <1>6, <1>7, <1>8 DEF ReaderStep

(* RSTs are all that is written before a Reset has ended.                  *)
LEMMA WriteRstStep ==
  ASSUME TypeOK, ServiceInv, PlaceInv', UNCHANGED <<ncpVars, nsent>>, WriteRst
  PROVE  ServiceInv'
  <1>1. CASE Return("write", NoPayload)
    BY <1>1, GivesUpTalking DEF ServiceInv
  <1>2. CASE ~Return("write", NoPayload)
    <2>1. /\ op = "rst" /\ op' = "rstack"
          /\ toNcp' = Append(toNcp, ControlFrame("RST", 0))
          /\ UNCHANGED <<frames, buf, toHost>>
      BY <1>2 DEF WriteRst, Write, readerVars
    <2>2. OpenInv /\ ~Talking'
      BY <2>1, NotClosing DEF ServiceInv, Talking
    <2>3. toNcp \in Seq(Frame) /\ ControlFrame("RST", 0) \in Frame
      BY FrameTypes, NumZero DEF TypeOK, FrameType
    <2>4. \A i \in DOMAIN toNcp' : toNcp'[i].type = "RST"
      <3>1. /\ DOMAIN toNcp = 1 .. Len(toNcp) /\ Len(toNcp) \in Nat
            /\ DOMAIN toNcp' = 1 .. Len(toNcp) + 1
            /\ \A i \in 1 .. Len(toNcp) : toNcp'[i] = toNcp[i]
            /\ toNcp'[Len(toNcp) + 1] = ControlFrame("RST", 0)
        BY <2>1, <2>3, AppendFrames
      <3> QED BY <2>2, <3>1 DEF OpenInv, ControlFrame
    <2>5. Incoming' = Incoming /\ UNCHANGED <<unacked, pend, ncpTx>>
      BY <2>1 DEF Incoming, ncpVars
    <2> QED BY <2>2, <2>4, <2>5 DEF ServiceInv, OpenInv
  <1> QED BY <1>1, <1>2

(* The first answer to a RST that the caller sees finds NCP and line clean *)
(* of what was there before.                                               *)
LEMMA ResetOkStep ==
  ASSUME TypeOK, ServiceInv, PlaceInv', UNCHANGED <<ncpVars, nsent>>, ResetOk
  PROVE  ServiceInv'
  <1>1. /\ op = "rstack" /\ op' = "idle" /\ result'.call = "reset"
        /\ frames # <<>> /\ Head(frames).type = "RSTACK" /\ frames' = Tail(frames)
        /\ ackNum' = 0 /\ UNCHANGED <<buf, toHost, toNcp>>
    BY DEF ResetOk, Receive, Return, readerVars
  <1>2. OpenInv /\ ~Opening'
    BY <1>1, NotClosing DEF ServiceInv, Opening
  <1>3. /\ Incoming \in Seq(Frame) /\ Incoming # <<>>
        /\ Head(Incoming).type = "RSTACK" /\ Incoming' = Tail(Incoming)
    BY <1>1, IncomingType, IncomingTaken
  <1>4. Without(Incoming', "DATA")
    BY <1>2, <1>3, TakenFacts DEF OpenInv
  <1>5. unacked = <<>> /\ pend = <<>> /\ ncpTx = 0
    <2>1. Head(Incoming) = Incoming[1] /\ 1 \in DOMAIN Incoming
      BY <1>3, TailFrames
    <2> QED BY <1>2, <1>3, <2>1 DEF OpenInv, Without
  <1>6. Silent'
    BY <1>1, <1>2, <1>4, <1>5 DEF Silent, OpenInv, Without, ncpVars
  <1>7. ResetBeforeData(toNcp') /\ RequestsIn(toNcp', Current')
    BY <1>1, <1>2 DEF OpenInv, ResetBeforeData, RequestsIn, IsRequest
  <1> QED BY <1>2, <1>6, <1>7 DEF ServiceInv, TalkInv

(* A request, or a copy of it, goes out.                                   *)
LEMMA TransmitStep ==
  ASSUME TypeOK, ServiceInv, Retransmittable, PlaceInv',
         UNCHANGED <<ncpVars, nsent>>, Transmit
  PROVE  ServiceInv'
  <1>1. CASE Return("write", NoPayload)
    BY <1>1, GivesUpTalking DEF ServiceInv
  <1>2. CASE ~Return("write", NoPayload)
    <2> DEFINE f == DataFrame(frmNum, ackNum, tries > 0, sending)
    <2>1. /\ op = "tx" /\ op' = "wait" /\ toNcp' = Append(toNcp, f)
          /\ UNCHANGED <<frames, buf, toHost, ackNum>>
      BY <1>2 DEF Transmit, Write, readerVars, numbers
    <2>2. TalkInv /\ ~Opening'
      BY <2>1, NotClosing DEF ServiceInv, Opening
    <2>3. toNcp \in Seq(Frame) /\ f \in Frame
      <3>1. /\ toNcp \in Seq(Frame) /\ frmNum \in Num /\ ackNum \in Num
            /\ sending \in Payload /\ (tries > 0) \in BOOLEAN
        BY <2>1 DEF TypeOK
      <3> QED BY <3>1, FrameTypes
    <2>4. f.type = "DATA" /\ f.pay.id = nsent
      BY <2>1 DEF Retransmittable, Req, DataFrame
    <2>5. /\ Incoming' = Incoming /\ LastRun' = LastRun /\ Current' = Current
          /\ UNCHANGED <<unacked, pend, ncpTx, nsent>>
      BY <2>1 DEF Incoming, ncpVars, LastRun, Current
    <2>6. nsent \in Current
      BY <2>1 DEF Current
    <2> HIDE DEF f
    <2>7. ResetBeforeData(toNcp') /\ RequestsIn(toNcp', Current)
      BY <2>1, <2>2, <2>3, <2>4, <2>6, AddedFacts, TalkParts
    <2>8. /\ Without(toNcp, "ACK") => Without(toNcp', "ACK")
          /\ Without(toNcp, "RST") => Without(toNcp', "RST")
          /\ \A a, k : AckAhead(toNcp, a, k) => AckAhead(toNcp', a, k)
      BY <2>1, <2>3, <2>4, AddedFacts, AddedOne
    <2>9. Silent => Silent'
      BY <2>1, <2>5, <2>8 DEF Silent
    <2>10. Queued => Queued'
      BY <2>1, <2>5, <2>8 DEF Queued, Answering
    <2>11. Replied => Replied'
      BY <2>1, <2>5, <2>8 DEF Replied, Answering
    <2>12. Acknowledging => Acknowledging'
      BY <2>1, <2>5, <2>8 DEF Acknowledging
    <2>13. TalkInv'
      BY <2>2, <2>5, <2>7, <2>9, <2>10, <2>11, <2>12 DEF TalkInv
    <2> QED BY <2>2, <2>13 DEF ServiceInv
  <1> QED BY <1>1, <1>2

(* A DATA frame that the caller may take is the answer to the request of   *)
(* the call in progress, and the one expected; there is no other.          *)
LEMMA OwnAnswer ==
  ASSUME TypeOK, ServiceInv, op \in {"wait", "recv"}, frames # <<>>,
         Head(frames).type = "DATA"
  PROVE  /\ Talking /\ TalkInv /\ Replied /\ op = "wait"
         /\ Head(frames).frm = ackNum /\ Head(frames).pay = Resp(nsent)
         /\ frames' = Tail(frames) /\ UNCHANGED <<buf, toHost>> =>
              Without(Incoming', "DATA")
  <1>1. Talking /\ TalkInv
    BY NotClosing DEF ServiceInv
  <1>2. /\ Incoming \in Seq(Frame) /\ Incoming # <<>>
        /\ Head(Incoming) = Head(frames)
    <2>1. /\ frames \o buf # <<>> /\ Head(frames \o buf) = Head(frames)
      BY IncomingType, ConcatTail
    <2> QED BY <2>1, IncomingType, ConcatTail DEF Incoming
  <1>3. ~Without(Incoming, "DATA")
    <2>1. Head(Incoming) = Incoming[1] /\ 1 \in DOMAIN Incoming
      BY <1>2, TailFrames
    <2> QED BY <1>2, <2>1 DEF Without
  <1>4. Replied
    BY <1>1, <1>3, TalkParts DEF Silent, Queued, Acknowledging
  <1>5. AtMostOne(Incoming, ackNum, Resp(nsent)) /\ op = "wait"
    BY <1>4 DEF Replied, Answering
  <1>6. /\ Head(Incoming).frm = ackNum /\ Head(Incoming).pay = Resp(nsent)
        /\ Without(Tail(Incoming), "DATA")
    BY <1>2, <1>5, TakenOne
  <1>7. frames' = Tail(frames) /\ UNCHANGED <<buf, toHost>> =>
          Incoming' = Tail(Incoming)
    BY IncomingTaken
  <1> QED BY <1>1, <1>2, <1>4, <1>5, <1>6, <1>7

LEMMA NoAnswerInRecv == TypeOK /\ ServiceInv => ~RecvData
  BY OwnAnswer DEF RecvData, Receive

LEMMA WaitDataStep ==
  ASSUME "write" \notin Faults, LinkTypeOK, ServiceInv, PlaceInv',
         UNCHANGED <<ncpVars, nsent>>, WaitData
  PROVE  ServiceInv'
  <1> DEFINE f == ControlFrame("ACK", NextNum(ackNum))
  <1>1. /\ op = "wait" /\ frames # <<>> /\ Head(frames).type = "DATA"
        /\ frames' = Tail(frames) /\ UNCHANGED <<buf, toHost>>
        /\ op' = "idle" /\ result'.call = "send"
    BY DEF WaitData, Receive, Return, readerVars
  <1>2. /\ TypeOK /\ toNcp \in Seq(Frame) /\ ackNum \in Num /\ nsent \in 0 .. MaxCalls
    BY DEF LinkTypeOK, TypeOK
  <1>3. /\ TalkInv /\ Replied /\ Head(frames).frm = ackNum
        /\ Without(Incoming', "DATA")
    BY <1>1, <1>2, OwnAnswer
  <1>4. /\ ackNum' = NextNum(ackNum) /\ toNcp' = Append(toNcp, f)
    BY <1>3 DEF WaitData, Acknowledge, Write, WriteFails
  <1>5. f \in Frame /\ f.type = "ACK" /\ f.ack = NextNum(ackNum)
    BY <1>2, FrameTypes, NextNumType DEF FrameType, ControlFrame
  <1>6. /\ Current = {LastRun} /\ Current' = {LastRun}
        /\ LastRun' = LastRun /\ UNCHANGED <<unacked, pend, ncpTx, nsent>>
    BY <1>1, <1>3 DEF Current, LastRun, Replied, Answering, ncpVars
  <1> HIDE DEF f
  <1>7. /\ ResetBeforeData(toNcp') /\ RequestsIn(toNcp', Current')
        /\ Without(toNcp', "RST")
    <2>1. /\ ResetBeforeData(toNcp) /\ RequestsIn(toNcp, {LastRun})
          /\ Without(toNcp, "RST")
      BY <1>3, <1>6, TalkParts DEF Replied, Answering
    <2> QED BY <1>2, <1>4, <1>5, <1>6, <2>1, AddedFacts
  <1>8. AckAhead(toNcp', ackNum', LastRun')
    <2>1. RequestsIn(toNcp, {LastRun}) /\ Without(toNcp, "ACK")
      BY <1>3, <1>6, TalkParts DEF Replied, Answering
    <2>2. AckAhead(toNcp', f.ack, LastRun)
      BY <1>2, <1>4, <1>5, <2>1, AddedOne
    <2> QED BY <1>4, <1>5, <1>6, <2>2
  <1>9. Acknowledging'
    <2>1. Resp(nsent) \in Message
      BY <1>2, MessageTypes
    <2> QED BY <1>2, <1>3, <1>4, <1>6, <1>7, <1>8, <2>1 DEF Acknowledging, Replied
  <1>10. ~Opening'
    BY <1>1 DEF Opening
  <1> QED BY <1>7, <1>9, <1>10 DEF ServiceInv, TalkInv

------------------------------------------------------------------------------
(* The application's steps.                                                *)

(* A command finds the line empty, both ways.                              *)
LEMMA AppNewStep ==
  ASSUME TypeOK, ServiceInv, PlaceInv', AppNew
  PROVE  ServiceInv'
  <1>1. /\ toNcp' = <<>> /\ frames' = <<>> /\ toHost' = <<>> /\ buf' = buf
        /\ closing = "closed" /\ op' = "idle" /\ result'.call = "none"
    BY DEF AppNew, New, NoResult
  <1>2. buf = <<>>
    BY <1>1 DEF ServiceInv, PlaceInv
  <1>3. <<>> \in Seq(Frame) /\ DOMAIN <<>> = {}
    BY NoFrames
  <1>4. <<>> \o <<>> = <<>>
    BY <1>3, ConcatEmptySeq
  <1>5. Incoming' = <<>>
    BY <1>1, <1>2, <1>4 DEF Incoming
  <1>6. (\A i \in DOMAIN toNcp' : toNcp'[i].type = "RST")
        /\ FreshAfterReset(Incoming') /\ Without(Incoming', "RSTACK")
    BY ONLY <1>1, <1>3, <1>5 DEF FreshAfterReset, Without
  <1>7. OpenInv'
    BY <1>6 DEF OpenInv
  <1>8. ~Talking'
    BY <1>1 DEF Talking
  <1> QED BY <1>7, <1>8 DEF ServiceInv

(* Reset is the first call: its flush takes frames nobody will miss.       *)
LEMMA AppResetStep ==
  ASSUME ~CarriesOn, TypeOK, ServiceInv, PlaceInv', AppReset
  PROVE  ServiceInv'
  <1>1. /\ closing = "open" /\ op = "idle" /\ result.call = "none"
        /\ op' = "drain" /\ UNCHANGED <<toNcp, ncpVars, frames, buf>>
        /\ toHost' = <<>> \/ UNCHANGED toHost
    BY DEF AppReset, CallReset, readerVars
  <1>2. OpenInv /\ ~Talking'
    BY <1>1 DEF ServiceInv, Opening, Talking
  <1>3. \A t : Without(Incoming, t) => Without(Incoming', t)
    <2>1. CASE toHost' = <<>>
      BY <1>1, <2>1, IncomingFlushed DEF Without
    <2>2. CASE UNCHANGED toHost
      BY <1>1, <2>2 DEF Incoming
    <2> QED BY <1>1, <2>1, <2>2
  <1>4. FreshAfterReset(Incoming')
    <2>1. CASE toHost' = <<>>
      BY <1>1, <1>2, <2>1, IncomingFlushed DEF OpenInv, FreshAfterReset
    <2>2. CASE UNCHANGED toHost
      BY <1>1, <1>2, <2>2 DEF Incoming, OpenInv
    <2> QED BY <1>1, <2>1, <2>2
  <1>5. OpenInv'
    BY <1>1, <1>2, <1>3, <1>4 DEF OpenInv, ncpVars
  <1> QED BY <1>2, <1>5 DEF ServiceInv

LEMMA AppSendStep ==
  ASSUME ~CarriesOn, TypeOK, ServiceInv, PlaceInv', AppSend
  PROVE  ServiceInv'
  <1>1. /\ closing = "open" /\ op = "idle" /\ op' = "tx"
        /\ result.out \in {"ok", "data"} /\ nsent' = nsent + 1
        /\ UNCHANGED <<toNcp, ncpVars, frames, buf, toHost, ackNum>>
    BY DEF AppSend, MayAsk, CallSend, readerVars, numbers
  <1>2. Talking /\ ~Opening'
    BY <1>1 DEF ServiceInv, PlaceInv, Talking, Opening
  <1>3. TalkInv /\ (Silent \/ Acknowledging)
    BY <1>1, <1>2, TalkParts DEF ServiceInv, Queued, Replied, Answering
  <1>4. Incoming' = Incoming /\ LastRun' = LastRun
    BY <1>1 DEF Incoming, LastRun, ncpVars
  <1>5. RequestsIn(toNcp', Current')
    <2>1. RequestsIn(toNcp, {LastRun})
      BY <1>1, <1>3, TalkParts DEF Current
    <2>2. RequestsIn(toNcp, {LastRun, nsent'})
      BY <2>1 DEF RequestsIn
    <2> QED BY <1>1, <1>4, <2>2 DEF Current
  <1>6. Silent' \/ Acknowledging'
    BY <1>1, <1>3, <1>4 DEF Silent, Acknowledging, ncpVars
  <1> QED BY <1>1, <1>2, <1>3, <1>5, <1>6, TalkParts DEF ServiceInv, TalkInv

LEMMA AppOtherStep ==
  ASSUME ~CarriesOn, TypeOK, ServiceInv, PlaceInv', AppRecv \/ AppClose
  PROVE  ServiceInv'
  <1>1. CASE AppRecv
    <2>1. /\ closing = "open" /\ op = "idle" /\ op' = "recv"
          /\ result.out \in {"ok", "data"}
          /\ UNCHANGED <<toNcp, ncpVars, frames, buf, toHost, ackNum, nsent>>
      BY <1>1 DEF AppRecv, MayAsk, CallRecv, readerVars, numbers
    <2>2. Talking /\ ~Opening'
      BY <2>1 DEF ServiceInv, PlaceInv, Talking, Opening
    <2> QED BY <2>1, <2>2, CallerMoves DEF Incoming, ncpVars
  <1>2. CASE AppClose
    <2>1. ~Opening' /\ ~Talking'
      BY <1>2 DEF AppClose, Close, Opening, Talking
    <2> QED BY <2>1 DEF ServiceInv
  <1> QED BY <1>1, <1>2

------------------------------------------------------------------------------
(* The NCP's steps.                                                        *)

LEMMA IncomingReply ==
  ASSUME TypeOK, NEW f \in Frame, Reply(f) \/ Emit(f), UNCHANGED <<frames, buf>>
  PROVE  \/ Incoming' = Incoming
         \/ \E g \in Frame : g \in {f, ControlFrame("BAD", 0)}
                             /\ Incoming' = Append(Incoming, g)
  <1>1. ControlFrame("BAD", 0) \in Frame
    BY NumZero, FrameTypes DEF FrameType
  <1>2. \/ toHost' = toHost
        \/ \E g \in {f, ControlFrame("BAD", 0)} : toHost' = Append(toHost, g)
    BY DEF Reply, Emit
  <1>3. CASE toHost' = toHost
    BY <1>3 DEF Incoming
  <1>4. CASE \E g \in {f, ControlFrame("BAD", 0)} : toHost' = Append(toHost, g)
    BY <1>1, <1>4, IncomingSent
  <1> QED BY <1>2, <1>3, <1>4

(* What the NCP sends leaves of what was said of the frames before it.     *)
LEMMA ReplyFacts ==
  ASSUME TypeOK, NEW f \in Frame, Reply(f) \/ Emit(f), UNCHANGED <<frames, buf>>
  PROVE  /\ \A t : Without(Incoming, t) /\ f.type # t /\ t # "BAD" =>
                     Without(Incoming', t)
         /\ FreshAfterReset(Incoming) /\
              (f.type # "DATA" \/ Without(Incoming, "RSTACK")) =>
                FreshAfterReset(Incoming')
         /\ \A a, p : AtMostOne(Incoming, a, p) /\ f.type # "DATA" =>
                        AtMostOne(Incoming', a, p)
         /\ Without(Incoming, "DATA") => AtMostOne(Incoming', f.frm, f.pay)
  <1>1. Incoming \in Seq(Frame)
    BY IncomingType
  <1>2. Without(Incoming, "DATA") => \A a, p : AtMostOne(Incoming, a, p)
    BY DEF Without, AtMostOne
  <1>3. CASE Incoming' = Incoming
    BY <1>2, <1>3
  <1>4. ASSUME NEW g \in Frame, g \in {f, ControlFrame("BAD", 0)},
               Incoming' = Append(Incoming, g)
        PROVE  /\ \A t : Without(Incoming, t) /\ f.type # t /\ t # "BAD" =>
                           Without(Incoming', t)
               /\ FreshAfterReset(Incoming) /\
                    (f.type # "DATA" \/ Without(Incoming, "RSTACK")) =>
                      FreshAfterReset(Incoming')
               /\ \A a, p : AtMostOne(Incoming, a, p) /\ f.type # "DATA" =>
                              AtMostOne(Incoming', a, p)
               /\ Without(Incoming, "DATA") =>
                    AtMostOne(Incoming', f.frm, f.pay)
    <2>1. g = f \/ g.type = "BAD"
      BY <1>4 DEF ControlFrame
    <2>2. /\ \A t : Without(Incoming, t) /\ g.type # t => Without(Incoming', t)
          /\ FreshAfterReset(Incoming) /\
               (g.type # "DATA" \/ Without(Incoming, "RSTACK")) =>
                 FreshAfterReset(Incoming')
      BY <1>1, <1>4, AddedFacts
    <2>3. /\ Without(Incoming, "DATA") /\ g.type = "DATA" =>
               AtMostOne(Incoming', g.frm, g.pay)
          /\ \A a, p : AtMostOne(Incoming, a, p) /\ g.type # "DATA" =>
                         AtMostOne(Incoming', a, p)
      BY <1>1, <1>4, AddedOne
    <2> QED BY ONLY <1>2, <2>1, <2>2, <2>3
  <1> QED BY <1>3, <1>4, IncomingReply

(* The NCP's steps leave the host where it is.                             *)
HostStays == UNCHANGED <<callVars, numbers, readerVars, frames, nsent>>

LEMMA HostStaysFacts ==
  ASSUME HostStays
  PROVE  /\ UNCHANGED <<frames, buf, op, ackNum, nsent>>
         /\ Opening' = Opening /\ Talking' = Talking
  BY DEF HostStays, callVars, numbers, readerVars, Opening, Talking

(* A frame that is no ACK is gone, and the NCP has answered at most with   *)
(* an ACK or NAK: the exchange is at the stage at which it was.            *)
LEMMA NcpQuietStep ==
  ASSUME TypeOK, ServiceInv, PlaceInv', HostStays, UNCHANGED ncpVars,
         toNcp # <<>>, Head(toNcp).type # "ACK", toNcp' = Tail(toNcp),
         \/ UNCHANGED toHost
         \/ \E f \in Frame : f.type \in {"ACK", "NAK"} /\ Reply(f)
  PROVE  ServiceInv'
  <1>1. /\ UNCHANGED <<frames, buf, op, ackNum, nsent, executed, unacked, pend, ncpTx>>
        /\ Opening' = Opening /\ Talking' = Talking
        /\ LastRun' = LastRun /\ Current' = Current
    BY HostStaysFacts DEF ncpVars, LastRun, Current
  <1>2. /\ Without(Incoming, "DATA") => Without(Incoming', "DATA")
        /\ Without(Incoming, "RSTACK") => Without(Incoming', "RSTACK")
        /\ FreshAfterReset(Incoming) => FreshAfterReset(Incoming')
        /\ \A f, p : AtMostOne(Incoming, f, p) => AtMostOne(Incoming', f, p)
    <2>1. CASE UNCHANGED toHost
      BY <1>1, <2>1 DEF Incoming
    <2>2. CASE \E f \in Frame : f.type \in {"ACK", "NAK"} /\ Reply(f)
      BY <1>1, <2>2, ReplyFacts
    <2> QED BY <2>1, <2>2
  <1>3. toNcp \in Seq(Frame)
    BY DEF TypeOK
  <1>4. /\ \A t : Without(toNcp, t) => Without(toNcp', t)
        /\ ResetBeforeData(toNcp) => ResetBeforeData(toNcp')
        /\ \A K : RequestsIn(toNcp, K) => RequestsIn(toNcp', K)
        /\ \A a, k : AckAhead(toNcp, a, k) => AckAhead(toNcp', a, k)
    BY <1>3, TakenFacts, TakenOne
  <1>5. (\A i \in DOMAIN toNcp : toNcp[i].type = "RST") =>
          \A i \in DOMAIN toNcp' : toNcp'[i].type = "RST"
    BY <1>3, TailFrames
  <1>6. OpenInv => OpenInv'
    BY <1>1, <1>2, <1>5 DEF OpenInv
  <1>7. Silent => Silent'
    BY <1>1, <1>2, <1>4 DEF Silent
  <1>8. Queued => Queued'
    BY <1>1, <1>2, <1>4 DEF Queued, Answering
  <1>9. Replied => Replied'
    BY <1>1, <1>2, <1>4 DEF Replied, Answering
  <1>10. Acknowledging => Acknowledging'
    BY <1>1, <1>2, <1>4 DEF Acknowledging
  <1>11. TalkInv => TalkInv'
    BY <1>1, <1>4, <1>7, <1>8, <1>9, <1>10 DEF TalkInv
  <1> QED BY <1>1, <1>6, <1>11 DEF ServiceInv

(* A RST empties the NCP.  Once the host talks, RSTs that Reset wrote in   *)
(* vain are all that can still come, ahead of the first request.           *)
LEMMA NcpResetStep ==
  ASSUME TypeOK, ServiceInv, PlaceInv', HostStays, NcpReset
  PROVE  ServiceInv'
  <1> DEFINE f == ControlFrame("RSTACK", 0)
  <1>1. /\ UNCHANGED <<frames, buf, op, ackNum, nsent>>
        /\ Opening' = Opening /\ Talking' = Talking
    BY HostStaysFacts
  <1>2. /\ toNcp \in Seq(Frame) /\ toNcp # <<>> /\ Head(toNcp).type = "RST"
        /\ toNcp' = Tail(toNcp)
        /\ unacked' = <<>> /\ pend' = <<>> /\ ncpTx' = 0 /\ executed' = executed
        /\ Reply(f)
    BY DEF TypeOK, NcpReset, Taken
  <1>3. f \in Frame /\ f.type = "RSTACK"
    BY NumZero, FrameTypes DEF FrameType, ControlFrame
  <1>4. LastRun' = LastRun /\ Current' = Current
    BY <1>1, <1>2 DEF LastRun, Current
  <1>5. Head(toNcp) = toNcp[1] /\ 1 \in DOMAIN toNcp
    BY <1>2, TailFrames
  <1> HIDE DEF f
  <1>6. /\ FreshAfterReset(Incoming) => FreshAfterReset(Incoming')
        /\ Without(Incoming, "DATA") => Without(Incoming', "DATA")
    BY <1>1, <1>2, <1>3, ReplyFacts
  <1>7. OpenInv => OpenInv'
    BY <1>2, <1>6, TailFrames DEF OpenInv
  <1>8. ASSUME TalkInv PROVE TalkInv'
    <2>1. ~Without(toNcp, "RST")
      BY <1>2, <1>5 DEF Without
    <2>2. Silent /\ ackNum = 0
      BY <1>8, <2>1, TalkParts
         DEF Silent, Queued, Replied, Acknowledging, Answering
    <2>3. /\ \A t : Without(toNcp, t) => Without(toNcp', t)
          /\ ResetBeforeData(toNcp) => ResetBeforeData(toNcp')
          /\ \A K : RequestsIn(toNcp, K) => RequestsIn(toNcp', K)
      BY <1>2, TakenFacts
    <2>4. Silent'
      BY <1>1, <1>2, <1>6, <2>2, <2>3 DEF Silent
    <2> QED BY <1>4, <1>8, <2>3, <2>4 DEF TalkInv
  <1> QED BY <1>1, <1>7, <1>8 DEF ServiceInv

(* The request that the NCP carries out is that of the call in progress:   *)
(* copies of the one before are no longer expected, and ahead of the new   *)
(* request comes the ACK of the last answer.                               *)
LEMMA NcpAcceptStep ==
  ASSUME LinkTypeOK, WireInv, RunInv, ServiceInv, PlaceInv', HostStays, NcpAccept
  PROVE  ServiceInv'
  <1> DEFINE k == Head(toNcp).pay.id
             f == ControlFrame("ACK", ncpRx')
  <1>1. /\ UNCHANGED <<frames, buf, op, ackNum, nsent>>
        /\ Opening' = Opening /\ Talking' = Talking
    BY HostStaysFacts
  <1>2. /\ TypeOK /\ toNcp \in Seq(Frame) /\ toNcp # <<>>
        /\ Head(toNcp).type = "DATA" /\ Head(toNcp).frm = ncpRx
        /\ toNcp' = Tail(toNcp)
        /\ nsent \in Nat /\ ncpRx \in Num /\ executed \in Seq(1 .. MaxCalls)
        /\ executed' = Append(executed, k) /\ ncpRx' = NextNum(ncpRx)
        /\ pend' = Append(pend, Resp(k)) /\ unacked' = Release(Head(toNcp).ack)
        /\ ncpTx' = ncpTx /\ Reply(f)
    BY LinkAssumption DEF LinkTypeOK, TypeOK, NcpAccept, Taken
  <1>3. Head(toNcp) = toNcp[1] /\ 1 \in DOMAIN toNcp
    BY <1>2, TailFrames
  <1>4. CASE Opening
    BY <1>2, <1>3, <1>4 DEF ServiceInv, OpenInv
  <1>5. CASE ~Opening /\ ~Talking
    BY <1>1, <1>5 DEF ServiceInv
  <1>6. CASE ~Opening /\ Talking
    <2>1. TalkInv
      BY <1>6 DEF ServiceInv
    <2>2. LastRun \in Nat /\ LastRun <= nsent
      BY LastRunType
    <2>3. /\ k \in 1 .. nsent /\ LastRun < k
          /\ FreshOrCopy(toNcp', k, NextNum(ncpRx))
      BY <1>2, <2>2, TailAccepted DEF WireInv
    <2>4. k \in Current
      BY <1>2, <2>1, TakenFacts, TalkParts
    <2>5. k # LastRun
      BY <2>2, <2>3
    <2>6. op \in {"tx", "wait"} /\ k = nsent /\ LastRun # nsent
      BY <2>4, <2>5 DEF Current
    <2>7. Silent
      <3>1. ~AckAhead(toNcp, ackNum, LastRun)
        BY <1>2, <2>5, TakenOne
      <3> QED BY <2>1, <2>6, <3>1, TalkParts
              DEF Queued, Replied, Acknowledging, Answering
    <2>8. LastRun' = nsent
      <3>1. k \in 1 .. MaxCalls
        BY AcceptType DEF WireInv
      <3>2. Len(executed') = Len(executed) + 1 /\ executed'[Len(executed) + 1] = k
            /\ executed' # <<>>
        BY <1>2, <3>1, AppendProperties, LenProperties
      <3> QED BY <2>6, <3>2 DEF LastRun
    <2>9. /\ \A t : Without(toNcp, t) => Without(toNcp', t)
          /\ ResetBeforeData(toNcp') /\ Without(toNcp', "RST")
          /\ RequestsIn(toNcp', Current)
      BY <1>2, <2>1, TakenFacts, TalkParts
    <2>10. RequestsIn(toNcp', Current')
      <3>1. ASSUME NEW i \in DOMAIN toNcp', IsRequest(toNcp', i)
            PROVE  toNcp'[i].pay.id = nsent
        <4>1. k <= toNcp'[i].pay.id
          BY <2>3, <3>1 DEF FreshOrCopy
        <4>2. toNcp'[i].pay.id \in {LastRun, nsent}
          BY <2>6, <2>9, <3>1 DEF RequestsIn, Current
        <4> QED BY <1>2, <2>2, <2>3, <2>6, <4>1, <4>2
      <3>2. nsent \in Current'
        BY <1>1, <2>8 DEF Current
      <3> QED BY <3>1, <3>2 DEF RequestsIn
    <2>11. f \in Frame /\ f.type = "ACK"
      BY <1>2, FrameTypes, NextNumType DEF FrameType, ControlFrame
    <2>12. Without(Incoming', "DATA")
      <3>1. Without(Incoming, "DATA")
        BY <2>7 DEF Silent
      <3> HIDE DEF f
      <3> QED BY <1>1, <1>2, <2>11, <3>1, ReplyFacts
    <2>13. unacked' = <<>> /\ pend' = <<Resp(nsent)>>
      <3>1. unacked = <<>> /\ pend = <<>>
        BY <2>7 DEF Silent
      <3>2. DOMAIN unacked = {}
        BY <3>1
      <3>3. Release(Head(toNcp).ack) = unacked
        BY <3>2 DEF Release
      <3> QED BY <1>2, <2>6, <3>1, <3>3
    <2>14. Queued'
      BY <1>1, <1>2, <2>6, <2>7, <2>8, <2>9, <2>12, <2>13
         DEF Queued, Answering, Silent
    <2> QED BY <1>1, <1>6, <2>9, <2>10, <2>14 DEF ServiceInv, TalkInv
  <1> QED BY <1>4, <1>5, <1>6

LEMMA NcpAckedStep ==
  ASSUME TypeOK, ServiceInv, PlaceInv', HostStays, NcpAcked
  PROVE  ServiceInv'
  <1>1. /\ UNCHANGED <<frames, buf, op, ackNum, nsent>>
        /\ Opening' = Opening /\ Talking' = Talking
    BY HostStaysFacts
  <1>2. /\ toNcp \in Seq(Frame) /\ toNcp # <<>> /\ Head(toNcp).type = "ACK"
        /\ toNcp' = Tail(toNcp) /\ unacked' = Release(Head(toNcp).ack)
        /\ UNCHANGED <<toHost, executed, ncpRx, ncpTx, pend>>
    BY DEF TypeOK, NcpAcked, Taken
  <1>3. Head(toNcp) = toNcp[1] /\ 1 \in DOMAIN toNcp
    BY <1>2, TailFrames
  <1>4. LastRun' = LastRun /\ Current' = Current /\ Incoming' = Incoming
    BY <1>1, <1>2 DEF LastRun, Current, Incoming
  <1>5. ~OpenInv
    BY <1>2, <1>3 DEF OpenInv
  <1>6. ASSUME TalkInv PROVE TalkInv'
    <2>1. ~Without(toNcp, "ACK")
      BY <1>2, <1>3 DEF Without
    <2>2. Acknowledging
      BY <1>6, <2>1, TalkParts DEF Silent, Queued, Replied, Answering
    <2>3. Head(toNcp).ack = ackNum /\ Without(toNcp', "ACK")
      BY <1>2, <2>2, TakenOne DEF Acknowledging
    <2>4. /\ Without(toNcp', "RST") /\ ResetBeforeData(toNcp')
          /\ RequestsIn(toNcp', Current)
      BY <1>2, <1>6, <2>2, TakenFacts, TalkParts DEF Acknowledging
    <2>5. unacked' = <<>>
      <3>1. PICK p \in Message, n \in Num :
              unacked = <<[frm |-> n, pay |-> p]>> /\ NextNum(n) = ackNum
        BY <2>2 DEF Acknowledging
      <3>2. {i \in DOMAIN unacked : NextNum(unacked[i].frm) = ackNum} = {1}
        BY <3>1
      <3>3. Release(ackNum) = SubSeq(unacked, 1 + 1, Len(unacked))
        BY <3>2 DEF Release
      <3>4. Len(unacked) = 1 /\ unacked \in Seq([frm : Num, pay : Message])
        BY <3>1
      <3>5. SubSeq(unacked, 2, 1) = <<>>
        BY SubSeqEmpty
      <3> QED BY <1>2, <2>3, <3>3, <3>4, <3>5
    <2>6. Silent'
      BY <1>1, <1>2, <1>4, <2>2, <2>3, <2>4, <2>5 DEF Silent, Acknowledging
    <2> QED BY <1>4, <2>4, <2>6 DEF TalkInv
  <1> QED BY <1>1, <1>5, <1>6 DEF ServiceInv

(* What the NCP has to send is the answer to the call in progress.         *)
LEMMA NcpSendStep ==
  ASSUME LinkTypeOK, ServiceInv, PlaceInv', HostStays, NcpSend
  PROVE  ServiceInv'
  <1> DEFINE f == DataFrame(ncpTx, ncpRx, FALSE, Head(pend))
  <1>1. /\ UNCHANGED <<frames, buf, op, ackNum, nsent>>
        /\ Opening' = Opening /\ Talking' = Talking
    BY HostStaysFacts
  <1>2. /\ TypeOK /\ pend # <<>> /\ Emit(f)
        /\ unacked' = Append(unacked, [frm |-> ncpTx, pay |-> Head(pend)])
        /\ pend' = Tail(pend) /\ ncpTx' = NextNum(ncpTx)
        /\ UNCHANGED <<toNcp, executed, ncpRx>>
    BY DEF LinkTypeOK, NcpSend
  <1>3. f \in Frame /\ f.type = "DATA" /\ f.frm = ncpTx /\ f.pay = Head(pend)
    <2>1. ncpTx \in Num /\ ncpRx \in Num /\ Head(pend) \in Message
      BY <1>2, SeqFacts DEF LinkTypeOK
    <2>2. f \in Frame
      BY <2>1, FrameTypes, LinkAssumption
    <2> QED BY <2>2 DEF DataFrame
  <1>4. LastRun' = LastRun /\ Current' = Current
    BY <1>1, <1>2 DEF LastRun, Current
  <1> HIDE DEF f
  <1>5. OpenInv => OpenInv'
    <2> SUFFICES ASSUME OpenInv PROVE OpenInv'
      OBVIOUS
    <2>1. Without(Incoming, "RSTACK") /\ FreshAfterReset(Incoming)
      BY <1>2 DEF OpenInv
    <2>2. Without(Incoming', "RSTACK") /\ FreshAfterReset(Incoming')
      BY <1>1, <1>2, <1>3, <2>1, ReplyFacts
    <2> QED BY <1>2, <2>2 DEF OpenInv
  <1>6. ASSUME TalkInv PROVE TalkInv'
    <2>1. Queued
      BY <1>2, <1>6, TalkParts DEF Silent, Replied, Acknowledging
    <2>2. /\ pend = <<Resp(nsent)>> /\ unacked = <<>> /\ ncpTx = ackNum
          /\ Without(Incoming, "DATA")
      BY <2>1 DEF Queued
    <2>3. AtMostOne(Incoming', ncpTx, Head(pend))
      BY <1>1, <1>2, <1>3, <2>2, ReplyFacts
    <2>4. Head(pend) = Resp(nsent) /\ Tail(pend) = <<>>
      BY <2>2
    <2>5. unacked' = <<[frm |-> ackNum, pay |-> Resp(nsent)]>>
      BY <1>2, <2>2, <2>4
    <2>6. Replied'
      BY <1>1, <1>2, <1>4, <2>1, <2>2, <2>3, <2>4, <2>5
         DEF Replied, Queued, Answering
    <2> QED BY <1>2, <1>4, <1>6, <2>6, TalkParts DEF TalkInv
  <1> QED BY <1>1, <1>5, <1>6 DEF ServiceInv

(* A frame on its way to the caller is in one of the three places.         *)
LEMMA IncomingPlaces ==
  ASSUME TypeOK, NEW i \in DOMAIN Incoming
  PROVE  \E q \in {toHost, buf, frames} : \E j \in DOMAIN q : Incoming[i] = q[j]
  <1>1. ASSUME NEW a \in Seq(Frame), NEW b \in Seq(Frame), NEW n \in DOMAIN (a \o b)
        PROVE  \/ \E j \in DOMAIN a : (a \o b)[n] = a[j]
               \/ \E j \in DOMAIN b : (a \o b)[n] = b[j]
    <2>1. /\ Len(a) \in Nat /\ Len(b) \in Nat /\ n \in 1 .. Len(a) + Len(b)
          /\ DOMAIN a = 1 .. Len(a) /\ DOMAIN b = 1 .. Len(b)
          /\ \A m \in 1 .. Len(a) : (a \o b)[m] = a[m]
          /\ \A m \in 1 .. Len(b) : (a \o b)[Len(a) + m] = b[m]
      BY ConcatFrames, LenProperties
    <2>2. CASE n <= Len(a)
      BY <2>1, <2>2
    <2>3. CASE n > Len(a)
      <3>1. n - Len(a) \in 1 .. Len(b) /\ Len(a) + (n - Len(a)) = n
        BY <2>1, <2>3
      <3> QED BY <2>1, <3>1
    <2> QED BY <2>1, <2>2, <2>3
  <1>2. \/ \E j \in DOMAIN (frames \o buf) : Incoming[i] = (frames \o buf)[j]
        \/ \E j \in DOMAIN toHost : Incoming[i] = toHost[j]
    BY <1>1, IncomingType DEF Incoming
  <1>3. CASE \E j \in DOMAIN (frames \o buf) : Incoming[i] = (frames \o buf)[j]
    <2>1. PICK j \in DOMAIN (frames \o buf) : Incoming[i] = (frames \o buf)[j]
      BY <1>3
    <2>2. \/ \E n \in DOMAIN frames : (frames \o buf)[j] = frames[n]
          \/ \E n \in DOMAIN buf : (frames \o buf)[j] = buf[n]
      BY <1>1, IncomingType
    <2> QED BY <2>1, <2>2
  <1> QED BY <1>2, <1>3

(* The NCP repeats its answer only when neither the last copy nor an ACK   *)
(* of it is on its way, so the caller never meets two copies.              *)
LEMMA NcpRetransmitStep ==
  ASSUME "early" \notin LinkFaults, LinkTypeOK, ServiceInv, PlaceInv',
         HostStays, NcpRetransmit
  PROVE  ServiceInv'
  <1> DEFINE f == DataFrame(Head(unacked).frm, ncpRx, TRUE, Head(unacked).pay)
  <1>1. /\ UNCHANGED <<frames, buf, op, ackNum, nsent>>
        /\ Opening' = Opening /\ Talking' = Talking
    BY HostStaysFacts
  <1>2. /\ TypeOK /\ unacked # <<>> /\ ~OnTheWay /\ Emit(f)
        /\ UNCHANGED <<toNcp, executed, ncpRx, ncpTx, unacked, pend>>
    BY DEF LinkTypeOK, NcpRetransmit, ncpVars
  <1>3. /\ f \in Frame /\ f.type = "DATA" /\ f.frm = Head(unacked).frm
        /\ f.pay = Head(unacked).pay
    <2>1. ncpRx \in Num /\ Head(unacked) \in [frm : Num, pay : Message]
      BY <1>2, SeqFacts DEF LinkTypeOK
    <2>2. f \in Frame
      BY <2>1, FrameTypes, LinkAssumption
    <2> QED BY <2>2 DEF DataFrame
  <1>4. LastRun' = LastRun /\ Current' = Current
    BY <1>1, <1>2 DEF LastRun, Current
  <1> HIDE DEF f
  <1>5. OpenInv => OpenInv'
    <2> SUFFICES ASSUME OpenInv PROVE OpenInv'
      OBVIOUS
    <2>1. Without(Incoming, "RSTACK") /\ FreshAfterReset(Incoming)
      BY <1>2 DEF OpenInv
    <2>2. Without(Incoming', "RSTACK") /\ FreshAfterReset(Incoming')
      BY <1>1, <1>2, <1>3, <2>1, ReplyFacts
    <2> QED BY <1>2, <2>2 DEF OpenInv
  <1>6. ASSUME TalkInv PROVE TalkInv'
    <2>1. Replied
      <3>1. ~AckAhead(toNcp, ackNum, LastRun)
        BY <1>2 DEF OnTheWay, AckAhead
      <3> QED BY <1>2, <1>6, <3>1, TalkParts DEF Silent, Queued, Acknowledging
    <2>2. /\ unacked = <<[frm |-> ackNum, pay |-> Resp(nsent)]>>
          /\ AtMostOne(Incoming, ackNum, Resp(nsent))
      BY <2>1 DEF Replied
    <2>3. Head(unacked).frm = ackNum /\ Head(unacked).pay = Resp(nsent)
      BY <2>2
    <2>4. Without(Incoming, "DATA")
      <3> SUFFICES ASSUME NEW i \in DOMAIN Incoming, Incoming[i].type = "DATA"
                   PROVE  FALSE
        BY DEF Without
      <3>1. Incoming[i].frm = Head(unacked).frm
        BY <2>2, <2>3 DEF AtMostOne
      <3>2. \E q \in {toHost, buf, frames} : \E j \in DOMAIN q :
              q[j].type = "DATA" /\ q[j].frm = Head(unacked).frm
        BY <1>2, <3>1, IncomingPlaces
      <3> QED BY <1>2, <3>2 DEF OnTheWay
    <2>5. AtMostOne(Incoming', ackNum, Resp(nsent))
      BY <1>1, <1>2, <1>3, <2>3, <2>4, ReplyFacts
    <2>6. Replied'
      BY <1>1, <1>2, <1>4, <2>1, <2>5 DEF Replied, Answering
    <2> QED BY <1>2, <1>4, <1>6, <2>6, TalkParts DEF TalkInv
  <1> QED BY <1>1, <1>5, <1>6 DEF ServiceInv

LEMMA NcpServiceStep ==
  ASSUME Envelope, LinkTypeOK, WireInv, RunInv, ServiceInv, PlaceInv', NcpStep
  PROVE  ServiceInv'
  <1>1. HostStays /\ TypeOK
    BY DEF NcpStep, HostStays, LinkTypeOK
  <1>2. /\ "loseAck" \notin LinkFaults /\ "early" \notin LinkFaults
        /\ ~NcpCallback /\ ~NcpRestart
    BY DEF Envelope, NcpCallback, NcpRestart
  <1>3. /\ ControlFrame("ACK", ncpRx) \in Frame /\ ControlFrame("NAK", ncpRx) \in Frame
        /\ ControlFrame("ACK", ncpRx).type = "ACK"
        /\ ControlFrame("NAK", ncpRx).type = "NAK"
    BY FrameTypes DEF LinkTypeOK, FrameType, ControlFrame
  <1>4. CASE NcpDuplicate \/ NcpRefuse
    <2>1. /\ toNcp # <<>> /\ Head(toNcp).type # "ACK" /\ toNcp' = Tail(toNcp)
          /\ UNCHANGED ncpVars
          /\ Reply(ControlFrame("ACK", ncpRx)) \/ Reply(ControlFrame("NAK", ncpRx))
      BY <1>4 DEF NcpDuplicate, NcpRefuse, Taken
    <2>2. \E f \in Frame : f.type \in {"ACK", "NAK"} /\ Reply(f)
      BY <1>3, <2>1
    <2> QED BY <1>1, <2>1, <2>2, NcpQuietStep
  <1>5. CASE NcpMisses
    <2>1. /\ toNcp # <<>> /\ Head(toNcp).type # "ACK" /\ toNcp' = Tail(toNcp)
          /\ UNCHANGED ncpVars
          /\ UNCHANGED toHost \/ Reply(ControlFrame("NAK", ncpRx))
      BY <1>2, <1>5 DEF NcpMisses, Taken
    <2>2. \/ UNCHANGED toHost
          \/ \E f \in Frame : f.type \in {"ACK", "NAK"} /\ Reply(f)
      BY <1>3, <2>1
    <2> QED BY <1>1, <2>1, <2>2, NcpQuietStep
  <1>6. CASE NcpReset
    BY <1>1, <1>6, NcpResetStep
  <1>7. CASE NcpAccept
    BY <1>1, <1>7, NcpAcceptStep
  <1>8. CASE NcpAcked
    BY <1>1, <1>8, NcpAckedStep
  <1>9. CASE NcpSend
    BY <1>1, <1>9, NcpSendStep
  <1>10. CASE NcpRetransmit
    BY <1>1, <1>2, <1>10, NcpRetransmitStep
  <1> QED BY <1>2, <1>4, <1>5, <1>6, <1>7, <1>8, <1>9, <1>10 DEF NcpStep

------------------------------------------------------------------------------
(* The invariant.                                                          *)

LEMMA ServiceInit == LinkInit => ServiceInv
  <1> SUFFICES ASSUME LinkInit PROVE ServiceInv
    OBVIOUS
  <1>1. /\ op = "idle" /\ result = NoResult /\ reader = "read" /\ closing = "open"
        /\ buf = <<>> /\ frames = <<>> /\ toHost = <<>> /\ toNcp = <<>>
        /\ unacked = <<>> /\ pend = <<>> /\ ncpTx = 0
    BY DEF LinkInit, Init
  <1>2. PlaceInv /\ ~Talking
    BY <1>1 DEF PlaceInv, Talking, NoResult
  <1>3. <<>> \in Seq(Frame) /\ DOMAIN <<>> = {}
    BY NoFrames
  <1>4. <<>> \o <<>> = <<>>
    BY <1>3, ConcatEmptySeq
  <1>5. Incoming = <<>>
    BY <1>1, <1>4 DEF Incoming
  <1>6. (\A i \in DOMAIN toNcp : toNcp[i].type = "RST")
        /\ FreshAfterReset(Incoming)
    BY ONLY <1>1, <1>3, <1>5 DEF FreshAfterReset
  <1>7. OpenInv
    BY <1>1, <1>6 DEF OpenInv
  <1> QED BY <1>2, <1>7 DEF ServiceInv

LEMMA HostServiceStep ==
  ASSUME Envelope, LinkTypeOK, WireInv, ServiceInv, PlaceInv', HostStep
  PROVE  ServiceInv'
  <1>1. TypeOK /\ UNCHANGED <<ncpVars, nsent>> /\ "write" \notin Faults
    BY DEF LinkTypeOK, HostStep, Envelope
  <1>2. CASE \/ Drain \/ DrainClosed \/ DrainDone \/ ResetError \/ ResetOther
             \/ ResetTimeout \/ WaitAck \/ WaitNak \/ WaitTimeout \/ Skip
             \/ ConnReset \/ CtxReturn \/ ClosedReturn \/ CtxDone
             \/ ReaderStep \/ CloseReturn
    BY <1>1, <1>2, QuietHostStep
  <1>3. CASE WriteRst
    BY <1>1, <1>3, WriteRstStep
  <1>4. CASE ResetOk
    BY <1>1, <1>4, ResetOkStep
  <1>5. CASE Transmit
    BY <1>1, <1>5, TransmitStep DEF WireInv
  <1>6. CASE WaitData
    BY <1>1, <1>6, WaitDataStep
  <1>7. ~RecvData
    BY <1>1, NoAnswerInRecv
  <1> QED BY <1>2, <1>3, <1>4, <1>5, <1>6, <1>7 DEF HostStep, CallStep

LEMMA ServiceStep ==
  ASSUME Envelope, InOrderInv, ServiceInv, [LinkNext]_linkVars
  PROVE  ServiceInv'
  <1>1. /\ LinkTypeOK /\ WireInv /\ RunInv /\ TypeOK /\ PlaceInv /\ ~CarriesOn
    BY InOrderInvParts DEF LinkTypeOK, ServiceInv, Envelope
  <1>2. CASE UNCHANGED linkVars
    BY <1>2 DEF linkVars, vars, callVars, numbers, readerVars, ncpVars,
       ServiceInv, PlaceInv, Opening, Talking, OpenInv, TalkInv, Incoming,
       Current, LastRun, Silent, Queued, Replied, Acknowledging, Answering
  <1>3. CASE LinkNext
    <2>1. PlaceInv'
      BY <1>1, <1>3, PlaceStep
    <2>2. CASE HostStep
      BY <1>1, <2>1, <2>2, HostServiceStep
    <2>3. CASE NcpStep
      BY <1>1, <2>1, <2>3, NcpServiceStep
    <2> QED BY <1>1, <1>3, <2>1, <2>2, <2>3, AppNewStep, AppResetStep,
               AppSendStep, AppOtherStep DEF LinkNext
  <1> QED BY <1>2, <1>3

------------------------------------------------------------------------------
(* What the caller sees.                                                   *)

Busy == op \in {"tx", "wait"}

LEMMA ReturnSeen ==
  ASSUME NEW out, NEW p, Return(out, p)
  PROVE  /\ op' = "idle" /\ ~Busy' /\ result'.out = out /\ result'.pay = p
         /\ result'.call = "send" <=> Busy
  BY DEF Return, Busy

(* A step of the host but the receipt of an answer leaves the call as it   *)
(* was or has it fail.                                                     *)
LEMMA HostSeen ==
  ASSUME TypeOK, ServiceInv, CallStep \/ ReaderStep \/ CloseReturn, ~WaitData
  PROVE  \/ (Busy' <=> Busy) /\ result' = result
         \/ /\ op # "idle" /\ ~Busy' /\ result'.out # "data"
            /\ result'.call = "send" <=> Busy
  <1> USE DEF callVars, vars
  <1>1. CASE \/ Drain \/ DrainClosed \/ DrainDone \/ WaitAck \/ Skip \/ CtxDone
             \/ ReaderStep \/ CloseReturn
    BY <1>1 DEF Busy, Drain, DrainClosed, DrainDone, WaitAck, Skip, CtxDone,
       ReaderStep, ReaderRead, ReaderPush, ReaderQuit, ReaderError, CloseReturn
  <1>2. CASE \/ WriteRst \/ ResetOk \/ ResetError \/ ResetOther \/ ResetTimeout
             \/ Transmit \/ WaitNak \/ WaitTimeout \/ ConnReset \/ CtxReturn
             \/ ClosedReturn
    <2>1. \/ op = "rst" /\ op' = "rstack" /\ result' = result
          \/ op = "rstack" /\ op' = "rst" /\ result' = result
          \/ Busy /\ Busy' /\ result' = result
          \/ op # "idle" /\ \E out \in Outcome \ {"data"} : Return(out, NoPayload)
      BY <1>2 DEF WriteRst, ResetOk, ResetError, ResetOther, ResetTimeout,
         Transmit, WaitNak, WaitTimeout, ConnReset, CtxReturn, ClosedReturn,
         NextAttempt, Retry, Outcome, Busy
    <2>2. CASE \E out \in Outcome \ {"data"} : Return(out, NoPayload)
      BY <2>1, <2>2, ReturnSeen DEF Busy
    <2> QED BY <2>1, <2>2 DEF Busy
  <1>3. ~RecvData
    BY NoAnswerInRecv
  <1> QED BY <1>1, <1>2, <1>3 DEF CallStep

LEMMA AnswerSeen ==
  ASSUME LinkTypeOK, ServiceInv, WaitData
  PROVE  /\ Busy /\ ~Busy' /\ LastRun = nsent /\ Head(frames).frm = ackNum
         /\ result'.call = "send" /\ result'.out = "data"
         /\ result'.pay = Resp(nsent)
  <1>1. /\ TypeOK /\ op = "wait" /\ frames # <<>> /\ Head(frames).type = "DATA"
        /\ Return("data", Head(frames).pay)
    BY DEF LinkTypeOK, WaitData, Receive
  <1>2. /\ Replied /\ Head(frames).frm = ackNum
        /\ Head(frames).pay = Resp(nsent)
    BY <1>1, OwnAnswer
  <1> QED BY <1>1, <1>2, ReturnSeen DEF Busy, Replied, Answering

(* The steps that no answer comes from.                                    *)
LEMMA NoAnswer ==
  ASSUME LinkTypeOK, ServiceInv, [LinkNext]_linkVars, result' # result, ~WaitData
  PROVE  result'.out # "data"
  <1>1. CASE HostStep
    BY <1>1, HostSeen DEF HostStep, LinkTypeOK
  <1>2. CASE AppNew \/ AppReset \/ AppSend \/ AppRecv
    BY <1>2 DEF AppNew, AppReset, AppSend, AppRecv, New, CallReset, CallSend,
       CallRecv, NoResult
  <1>3. CASE AppClose \/ NcpStep \/ UNCHANGED linkVars
    BY <1>3 DEF AppClose, Close, NcpStep, linkVars, vars, callVars
  <1> QED BY <1>1, <1>2, <1>3 DEF LinkNext

(* Within the envelope every invariant of this module and of AshLinkProofs *)
(* holds.                                                                  *)
LEMMA ServiceInvHolds ==
  ASSUME Envelope
  PROVE  LinkSpec => []ServiceInv
  <1>1. InOrderInv /\ ServiceInv /\ [LinkNext]_linkVars => ServiceInv'
    BY ServiceStep
  <1>2. LinkSpec => []InOrderInv
    BY InOrderTheorem DEF Envelope
  <1> QED BY <1>1, <1>2, ServiceInit, PTL DEF LinkSpec

(* Within the envelope, the DATA frame handed to a caller is always the    *)
(* one whose number ackNum names (ash.go:45), for every modulus of the     *)
(* numbers and every capacity: waitForResponse (ash.go:211-254) does not   *)
(* compare the two, so this rests on what can be on its way.               *)
THEOREM AcceptsExpectedTheorem ==
  ASSUME Envelope
  PROVE  LinkSpec => AcceptsExpected
  <1>1. ASSUME InOrderInv, ServiceInv, [LinkNext]_linkVars
        PROVE  [result' # result /\ result'.out = "data" =>
                  Head(frames).frm = ackNum]_linkVars
    <2>1. LinkTypeOK
      BY <1>1 DEF InOrderInv
    <2> QED BY <1>1, <2>1, NoAnswer, AnswerSeen
  <1>2. LinkSpec => []InOrderInv
    BY InOrderTheorem DEF Envelope
  <1> QED BY <1>1, <1>2, ServiceInvHolds, PTL DEF LinkSpec, AcceptsExpected

(* Within the envelope Send hands its caller the response to this Send's   *)
(* request and to no other (ash.go:156).  Outside of it this fails: the    *)
(* run link_stale.                                                         *)
THEOREM CorrelatedTheorem ==
  ASSUME Envelope
  PROVE  LinkSpec => []Correlated
  <1>1. LinkInit => Correlated
    BY DEF LinkInit, Init, NoResult, Correlated
  <1>2. ASSUME InOrderInv, ServiceInv, Correlated, [LinkNext]_linkVars
        PROVE  Correlated'
    <2>1. LinkTypeOK
      BY <1>2 DEF InOrderInv
    <2>2. CASE WaitData
      <3>1. nsent' = nsent
        BY <1>2, <2>2 DEF LinkNext, HostStep, NcpStep, AppNew, AppReset, AppSend,
           AppRecv, AppClose, linkVars, WaitData, CallSend
      <3> QED BY <1>2, <2>1, <2>2, <3>1, AnswerSeen DEF Correlated, Resp
    <2>3. CASE ~WaitData /\ result' # result
      BY <1>2, <2>1, <2>3, NoAnswer DEF Correlated
    <2>4. CASE ~WaitData /\ result' = result
      <3>1. CASE AppSend
        BY <3>1 DEF AppSend, CallSend, NoResult, Correlated
      <3>2. CASE ~AppSend
        <4>1. nsent' = nsent
          BY <1>2, <3>2 DEF LinkNext, HostStep, NcpStep, AppNew, AppReset,
             AppRecv, AppClose, linkVars
        <4> QED BY <1>2, <2>4, <4>1 DEF Correlated, Resp
      <3> QED BY <3>1, <3>2
    <2> QED BY <2>2, <2>3, <2>4
  <1>3. LinkSpec => []InOrderInv
    BY InOrderTheorem DEF Envelope
  <1> QED BY <1>1, <1>2, <1>3, ServiceInvHolds, PTL DEF LinkSpec

------------------------------------------------------------------------------
(* The refinement.                                                         *)

Status ==
  IF Busy THEN "busy"
  ELSE IF Answered THEN "answered"
  ELSE IF result.call = "send" THEN "failed" ELSE "none"

Answer == IF Answered THEN result.pay.id ELSE 0

(* The actions of AshService in the link's terms.                          *)
LEMMA ServiceActions ==
  /\ Service!SInit <=>
       nsent = 0 /\ executed = <<>> /\ Status = "none" /\ Answer = 0
  /\ Service!Ask <=>
       /\ Status # "busy" /\ nsent < MaxCalls
       /\ nsent' = nsent + 1 /\ Status' = "busy" /\ Answer' = 0
       /\ UNCHANGED executed
  /\ \A k : Service!Run(k) <=>
       /\ executed # <<>> => k > executed[Len(executed)]
       /\ executed' = Append(executed, k)
       /\ UNCHANGED <<nsent, Status, Answer>>
  /\ Service!Answer <=>
       /\ Status = "busy"
       /\ \E i \in DOMAIN executed : executed[i] = nsent
       /\ Status' = "answered" /\ Answer' = nsent
       /\ UNCHANGED <<nsent, executed>>
  /\ Service!Fail <=>
       /\ Status = "busy" /\ Status' = "failed" /\ Answer' = 0
       /\ UNCHANGED <<nsent, executed>>
  /\ Service!Forget <=>
       /\ Status # "busy" /\ Status' = "none" /\ Answer' = 0
       /\ UNCHANGED <<nsent, executed>>
  /\ UNCHANGED Service!svars <=> UNCHANGED <<nsent, executed, Status, Answer>>
  BY DEF Service!SInit, Service!Ask, Service!Run, Service!Answer, Service!Fail,
     Service!Forget, Service!svars, Status, Answer, Busy, Answered

(* A step that keeps Status, Answer and the requests is none of the        *)
(* service; the others are one of its actions.                             *)
LEMMA ServiceSteps ==
  ASSUME Service!Ask \/ (\E k \in 1 .. nsent : Service!Run(k))
           \/ Service!Answer \/ Service!Fail \/ Service!Forget
           \/ UNCHANGED <<nsent, executed, Status, Answer>>
  PROVE  [Service!SNext]_(Service!svars)
  BY ServiceActions DEF Service!SNext

LEMMA AppMaps ==
  ASSUME PlaceInv, AppNew \/ AppReset \/ AppSend \/ AppRecv \/ AppClose
  PROVE  [Service!SNext]_(Service!svars)
  <1> USE DEF ncpVars, Status, Answer, Busy, Answered
  <1>1. CASE AppNew \/ AppReset \/ AppRecv
    <2>1. /\ op = "idle" /\ op' \notin {"tx", "wait"} /\ result' = NoResult
          /\ UNCHANGED <<nsent, executed>>
      BY <1>1 DEF AppNew, AppReset, AppRecv, New, CallReset, CallRecv
    <2>2. Status # "busy" /\ Status' = "none" /\ Answer' = 0
      BY <2>1 DEF NoResult
    <2> HIDE DEF Status, Answer
    <2> QED BY <2>1, <2>2, ServiceActions, ServiceSteps
  <1>2. CASE AppSend
    <2>1. /\ op = "idle" /\ op' = "tx" /\ result' = NoResult
          /\ nsent < MaxCalls /\ nsent' = nsent + 1 /\ executed' = executed
      BY <1>2 DEF AppSend, CallSend
    <2>2. Status # "busy" /\ Status' = "busy" /\ Answer' = 0
      BY <2>1 DEF NoResult
    <2> HIDE DEF Status, Answer
    <2> QED BY <2>1, <2>2, ServiceActions, ServiceSteps
  <1>3. CASE AppClose
    <2>1. UNCHANGED <<op, result, nsent, executed>>
      BY <1>3 DEF AppClose, Close, callVars
    <2>2. UNCHANGED <<nsent, executed, Status, Answer>>
      BY <2>1
    <2> HIDE DEF Status, Answer
    <2> QED BY <2>2, ServiceSteps
  <1> QED BY <1>1, <1>2, <1>3

(* An answer in the link is one of the service: the last request carried   *)
(* out is that of the call.  Every other end of a Send is a failure.       *)
LEMMA HostMaps ==
  ASSUME LinkTypeOK, WireInv, ServiceInv, NoResultYet, HostStep
  PROVE  [Service!SNext]_(Service!svars)
  <1>1. TypeOK /\ UNCHANGED <<nsent, executed>>
    BY DEF LinkTypeOK, HostStep, ncpVars
  <1>2. CASE WaitData
    <2>1. /\ Busy /\ ~Busy' /\ LastRun = nsent
          /\ result'.call = "send" /\ result'.out = "data"
          /\ result'.pay = Resp(nsent)
      BY <1>2, AnswerSeen
    <2>2. Status = "busy" /\ Status' = "answered" /\ Answer' = nsent
      BY <1>1, <2>1 DEF Status, Answer, Answered, Resp
    <2>3. \E i \in DOMAIN executed : executed[i] = nsent
      <3>1. nsent >= 1
        BY <2>1 DEF Busy, WireInv, Retransmittable
      <3>2. nsent # 0
        BY <3>1
      <3>3. /\ executed # <<>> /\ executed \in Seq(1 .. MaxCalls)
            /\ executed[Len(executed)] = nsent
        BY <2>1, <3>2 DEF LastRun, LinkTypeOK
      <3>4. Len(executed) \in DOMAIN executed
        BY <3>3, EmptySeq, LenProperties
      <3> QED BY <3>3, <3>4
    <2> QED BY <1>1, <2>2, <2>3, ServiceActions, ServiceSteps
  <1>3. CASE ~WaitData
    <2>1. \/ (Busy' <=> Busy) /\ result' = result
          \/ /\ op # "idle" /\ ~Busy' /\ result'.out # "data"
             /\ result'.call = "send" <=> Busy
      BY <1>1, <1>3, HostSeen DEF HostStep
    <2>2. CASE (Busy' <=> Busy) /\ result' = result
      <3>1. UNCHANGED <<nsent, executed, Status, Answer>>
        BY <1>1, <2>2 DEF Status, Answer, Answered
      <3> QED BY <3>1, ServiceSteps
    <2>3. CASE /\ op # "idle" /\ ~Busy' /\ result'.out # "data"
               /\ result'.call = "send" <=> Busy
      <3>1. result.call = "none" /\ ~Answered /\ ~Answered'
        BY <2>3 DEF NoResultYet, NoResult, Answered
      <3>2. CASE Busy
        <4>1. Status = "busy" /\ Status' = "failed" /\ Answer' = 0
          BY <2>3, <3>1, <3>2 DEF Status, Answer
        <4> QED BY <1>1, <4>1, ServiceActions, ServiceSteps
      <3>3. CASE ~Busy
        <4>1. Status = "none" /\ Status' = "none" /\ Answer = 0 /\ Answer' = 0
          BY <2>3, <3>1, <3>3 DEF Status, Answer
        <4> QED BY <1>1, <4>1, ServiceSteps
      <3> QED BY <3>2, <3>3
    <2> QED BY <2>1, <2>2, <2>3
  <1> QED BY <1>2, <1>3

(* The NCP carries out requests in the order of the calls.                 *)
LEMMA NcpMaps ==
  ASSUME LinkTypeOK, WireInv, RunInv, NcpStep
  PROVE  [Service!SNext]_(Service!svars)
  <1>1. UNCHANGED <<op, result, nsent>>
    BY DEF NcpStep, callVars
  <1>2. UNCHANGED <<nsent, Status, Answer>>
    BY <1>1 DEF Status, Answer, Answered, Busy
  <1>3. CASE NcpAccept
    <2> DEFINE k == Head(toNcp).pay.id
    <2>1. /\ toNcp \in Seq(Frame) /\ toNcp # <<>> /\ nsent \in Nat /\ ncpRx \in Num
          /\ Head(toNcp).type = "DATA" /\ Head(toNcp).frm = ncpRx
          /\ executed' = Append(executed, k)
      BY <1>3, LinkAssumption DEF LinkTypeOK, TypeOK, NcpAccept, Taken
    <2>2. LastRun \in Nat /\ LastRun <= nsent
      BY LastRunType
    <2>3. k \in 1 .. nsent /\ LastRun < k
      BY <2>1, <2>2, TailAccepted DEF WireInv
    <2>4. executed # <<>> => k > executed[Len(executed)]
      BY <2>1, <2>2, <2>3 DEF LastRun
    <2> HIDE DEF k
    <2>5. Service!Run(k)
      BY <1>2, <2>1, <2>4, ServiceActions
    <2> QED BY <2>3, <2>5, ServiceSteps
  <1>4. CASE ~NcpAccept
    <2>1. executed' = executed
      BY <1>4 DEF NcpStep, NcpReset, NcpDuplicate, NcpRefuse, NcpAcked, NcpMisses,
         NcpSend, NcpRetransmit, NcpCallback, NcpRestart, ncpVars
    <2> QED BY <1>2, <2>1, ServiceSteps
  <1> QED BY <1>3, <1>4

(* Within the envelope the link implements AshService: a request is        *)
(* carried out at most once and in the order of the calls, and Send's      *)
(* answer is that of its own request (ash.go:154-186), for any number of   *)
(* requests, whatever else is lost, damaged, refused or cancelled.         *)
THEOREM ImplementsServiceTheorem ==
  ASSUME Envelope
  PROVE  LinkSpec => ImplementsService
  <1>1. LinkInit => Service!SInit
    <2> SUFFICES ASSUME LinkInit PROVE Service!SInit
      OBVIOUS
    <2>1. nsent = 0 /\ executed = <<>> /\ op = "idle" /\ result = NoResult
      BY DEF LinkInit, Init
    <2>2. Status = "none" /\ Answer = 0
      BY <2>1 DEF Status, Answer, Answered, Busy, NoResult
    <2> QED BY <2>1, <2>2, ServiceActions
  <1>2. ASSUME InOrderInv, ServiceInv, NoResultYet, [LinkNext]_linkVars
        PROVE  [Service!SNext]_(Service!svars)
    <2>1. LinkTypeOK /\ WireInv /\ RunInv /\ PlaceInv
      BY <1>2, InOrderInvParts DEF ServiceInv
    <2>2. CASE UNCHANGED linkVars
      <3>1. UNCHANGED <<nsent, executed, op, result>>
        BY <2>2 DEF linkVars, vars, callVars, ncpVars
      <3>2. UNCHANGED <<nsent, executed, Status, Answer>>
        BY <3>1 DEF Status, Answer, Answered, Busy
      <3> QED BY <3>2, ServiceSteps
    <2>3. CASE AppNew \/ AppReset \/ AppSend \/ AppRecv \/ AppClose
      BY <2>1, <2>3, AppMaps
    <2>4. CASE HostStep
      BY <1>2, <2>1, <2>4, HostMaps
    <2>5. CASE NcpStep
      BY <2>1, <2>5, NcpMaps
    <2> QED BY <1>2, <2>2, <2>3, <2>4, <2>5 DEF LinkNext
  <1>3. LinkSpec => []NoResultYet
    <2>1. Init => NoResultYet
      BY DEF Init, NoResultYet
    <2> QED BY <2>1, LinkIsConn, NoResultYetStep, PTL DEF Spec
  <1>4. LinkSpec => []InOrderInv
    BY InOrderTheorem DEF Envelope
  <1> QED BY <1>1, <1>2, <1>3, <1>4, ServiceInvHolds, PTL
          DEF LinkSpec, ImplementsService, Service!SSpec
==============================================================================
