------------------------------ MODULE AshService ------------------------------
(***************************************************************************)
(* What Conn.Send promises the EZSP layer (src/ash/ash.go:154-158): a      *)
(* request is carried out at most once, in the order of the calls, and an  *)
(* answer is the answer to the request of that very call.  A call may fail *)
(* instead; then its request has been, or may still be, carried out or     *)
(* not.                                                                    *)
(***************************************************************************)
EXTENDS Naturals, Sequences

CONSTANT MaxCalls

VARIABLES
  asked,      \* how many requests the caller has made
  ran,        \* the requests carried out, in order
  status,     \* "busy" while a call is in progress, else how the last ended
  answer      \* the request that the last answer answers, 0 if none

svars == <<asked, ran, status, answer>>

SInit == asked = 0 /\ ran = <<>> /\ status = "none" /\ answer = 0

Ask ==
  /\ status # "busy" /\ asked < MaxCalls
  /\ asked' = asked + 1 /\ status' = "busy" /\ answer' = 0
  /\ UNCHANGED ran

Run(k) ==
  /\ ran # <<>> => k > ran[Len(ran)]
  /\ ran' = Append(ran, k)
  /\ UNCHANGED <<asked, status, answer>>

Answer ==
  /\ status = "busy"
  /\ \E i \in DOMAIN ran : ran[i] = asked
  /\ status' = "answered" /\ answer' = asked
  /\ UNCHANGED <<asked, ran>>

Fail ==
  /\ status = "busy"
  /\ status' = "failed" /\ answer' = 0
  /\ UNCHANGED <<asked, ran>>

(* Reset and Recv make no request; the outcome of the last one goes.       *)
Forget ==
  /\ status # "busy"
  /\ status' = "none" /\ answer' = 0
  /\ UNCHANGED <<asked, ran>>

SNext == Ask \/ (\E k \in 1 .. asked : Run(k)) \/ Answer \/ Fail \/ Forget

SSpec == SInit /\ [][SNext]_svars
==============================================================================
