------------------------------- MODULE Queues -------------------------------
(* Facts about sequences used as queues: what Append and Tail leave where. *)
(* The proofs about the client and the CLI share them.                     *)
EXTENDS Integers, Sequences, TLAPS, SequenceTheorems

LEMMA QueueType ==
  ASSUME NEW S, NEW q \in Seq(S)
  PROVE  /\ Len(q) \in Nat /\ DOMAIN q = 1 .. Len(q)
         /\ \A i \in 1 .. Len(q) : q[i] \in S
         /\ q = <<>> <=> Len(q) = 0
  BY EmptySeq, LenProperties

LEMMA QueueEmpty ==
  ASSUME NEW S
  PROVE  <<>> \in Seq(S) /\ Len(<<>>) = 0 /\ DOMAIN <<>> = {}
  <1>1. <<>> \in Seq(S) /\ Len(<<>>) = 0
    BY EmptySeq
  <1>2. DOMAIN <<>> = 1 .. 0
    BY <1>1, LenProperties
  <1> QED BY <1>1, <1>2

LEMMA QueueAppend ==
  ASSUME NEW S, NEW q \in Seq(S), NEW x \in S
  PROVE  /\ Append(q, x) \in Seq(S)
         /\ Len(q) \in Nat /\ DOMAIN q = 1 .. Len(q)
         /\ Len(Append(q, x)) = Len(q) + 1
         /\ DOMAIN Append(q, x) = 1 .. Len(q) + 1
         /\ \A i \in 1 .. Len(q) : Append(q, x)[i] = q[i]
         /\ Append(q, x)[Len(q) + 1] = x
  BY AppendProperties, LenProperties

LEMMA QueueTail ==
  ASSUME NEW S, NEW q \in Seq(S), q # <<>>
  PROVE  /\ Tail(q) \in Seq(S) /\ Head(q) \in S /\ Head(q) = q[1]
         /\ Len(q) \in Nat \ {0} /\ DOMAIN q = 1 .. Len(q)
         /\ Len(Tail(q)) = Len(q) - 1 /\ DOMAIN Tail(q) = 1 .. Len(q) - 1
         /\ \A i \in 1 .. Len(q) - 1 : Tail(q)[i] = q[i + 1]
  <1>1. /\ Tail(q) \in Seq(S) /\ Head(q) \in S
        /\ Len(Tail(q)) = Len(q) - 1
        /\ \A i \in 1 .. Len(Tail(q)) : Tail(q)[i] = q[i + 1]
    BY HeadTailProperties
  <1>2. Head(q) = q[1] /\ Len(q) \in Nat \ {0} /\ DOMAIN q = 1 .. Len(q)
    BY EmptySeq, LenProperties
  <1>3. DOMAIN Tail(q) = 1 .. Len(q) - 1
    BY <1>1, LenProperties
  <1> QED BY <1>1, <1>2, <1>3

(* What moving the content of a queue of at most one to another leaves.    *)
LEMMA QueueMove ==
  ASSUME NEW S, NEW q \in Seq(S), NEW h \in Seq(S), Len(h) <= 1
  PROVE  /\ q \o h \in Seq(S) /\ Len(q) \in Nat /\ Len(h) \in Nat
         /\ Len(q \o h) = Len(q) + Len(h)
         /\ DOMAIN (q \o h) = 1 .. Len(q) + Len(h)
         /\ \A i \in 1 .. Len(q) : (q \o h)[i] = q[i]
         /\ Len(h) = 1 => (q \o h)[Len(q) + 1] = h[1]
  <1>1. /\ q \o h \in Seq(S) /\ Len(q \o h) = Len(q) + Len(h)
        /\ \A i \in 1 .. Len(q) + Len(h) :
             (q \o h)[i] = IF i <= Len(q) THEN q[i] ELSE h[i - Len(q)]
    BY ConcatProperties
  <1>2. Len(q) \in Nat /\ Len(h) \in Nat
    BY LenProperties
  <1>3. DOMAIN (q \o h) = 1 .. Len(q) + Len(h)
    BY <1>1, LenProperties
  <1>4. Len(h) = 1 => (q \o h)[Len(q) + 1] = h[1]
    <2> SUFFICES ASSUME Len(h) = 1 PROVE (q \o h)[Len(q) + 1] = h[1]
      OBVIOUS
    <2>1. Len(q) + 1 \in 1 .. Len(q) + Len(h) /\ ~ (Len(q) + 1 <= Len(q))
          /\ (Len(q) + 1) - Len(q) = 1
      BY <1>2
    <2> QED BY <1>1, <2>1
  <1> QED BY <1>1, <1>2, <1>3, <1>4
=============================================================================
