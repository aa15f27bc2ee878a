------------------------------- MODULE AshLink -------------------------------
(***************************************************************************)
(* An application, the host's ash.Conn and the NCP joined by a serial line *)
(* that may lose or damage frames.  The host is AshConn, step for step.    *)
(* The NCP is external: its firmware is not in the repository, so it is    *)
(* modelled from what ash.go expects of it (ash.go:154-254, the frames of  *)
(* ash_test.go) and from UG101, which frame.go:6 names: a go-back-N        *)
(* receiver that acknowledges a duplicate, refuses a frame out of order    *)
(* with a NAK, forgets everything on RST, and retransmits what is not      *)
(* acknowledged.  The application is a command of cmd/zigboo: it resets    *)
(* the connection, then issues requests one at a time.                     *)
(***************************************************************************)
EXTENDS AshConn

CONSTANTS
  MaxCalls,     \* bound: requests made
  NcpWindow,    \* DATA frames the NCP sends without waiting for an ACK
  PendCap,      \* bound: messages the NCP queues
  CarriesOn,    \* the application goes on after a request that failed
  LinkFaults    \* what may go wrong between the host and the NCP

VARIABLES
  nsent,        \* requests made, the number of the last
  executed,     \* the requests the NCP carried out, in order
  ncpRx,        \* frame number the NCP expects
  ncpTx,        \* frame number of the NCP's next DATA frame
  unacked,      \* the NCP's DATA frames sent and not acknowledged
  pend          \* the NCP's messages to be sent

ncpVars == <<executed, ncpRx, ncpTx, unacked, pend>>
linkVars == <<vars, ncpVars, nsent>>

Message == [kind : {"req", "resp", "cb"}, id : 0 .. MaxCalls]
Req(k) == [kind |-> "req", id |-> k]
Resp(k) == [kind |-> "resp", id |-> k]
Callback == [kind |-> "cb", id |-> 0]

ASSUME LinkAssumption ==
  /\ MaxCalls \in Nat /\ NcpWindow \in Nat \ {0} /\ PendCap \in Nat
  /\ CarriesOn \in BOOLEAN
  /\ LinkFaults \subseteq
       {"lose",      \* any frame but an ACK of the host may be lost or damaged
        "loseAck",   \* an ACK of the host may
        "early",     \* the NCP retransmits although its frame is on the way
        "callback",  \* the NCP sends messages nobody asked for
        "ncpReset",  \* the NCP restarts by itself
        "mute"}      \* and the RSTACK that tells of it may be lost
  /\ Payload = Message
  /\ Arrivals = Frame

LinkInit ==
  /\ Init
  /\ nsent = 0 /\ executed = <<>>
  /\ ncpRx = 0 /\ ncpTx = 0 /\ unacked = <<>> /\ pend = <<>>

------------------------------------------------------------------------------
(* The application: a command of the CLI, and after it the next one.  Each *)
(* opens a connection, resets it first and closes it when it is done; most *)
(* end at the first error, config and endpoints go on to the next request. *)
(* A command finds what the last one wrote gone from the line.             *)

MayAsk ==
  \/ result.out \in {"ok", "data"}
  \/ CarriesOn /\ result.call \in {"send", "recv"}

AppNew == toNcp = <<>> /\ New /\ UNCHANGED <<ncpVars, nsent>>

AppReset ==
  /\ closing = "open" /\ (result.call = "none" \/ CarriesOn)
  /\ CallReset
  /\ UNCHANGED <<ncpVars, nsent>>

AppClose ==
  /\ op = "idle" /\ Close
  /\ UNCHANGED <<ncpVars, nsent>>

AppSend ==
  /\ closing = "open" /\ MayAsk /\ nsent < MaxCalls
  /\ CallSend(Req(nsent + 1))
  /\ nsent' = nsent + 1
  /\ UNCHANGED ncpVars

AppRecv == closing = "open" /\ MayAsk /\ CallRecv /\ UNCHANGED <<ncpVars, nsent>>

------------------------------------------------------------------------------
(* The NCP.                                                                *)

(* The NCP sends one frame.  A port that nobody has open keeps nothing.    *)
Emit(f) ==
  \/ Len(toHost) < RxCap /\ toHost' = Append(toHost, f)
  \/ /\ "lose" \in LinkFaults /\ Len(toHost) < RxCap
     /\ toHost' \in {toHost, Append(toHost, ControlFrame("BAD", 0))}
  \/ closing = "closed" /\ UNCHANGED toHost

(* The NCP answers a frame at once.  There is no flow control (configure   *)
(* in unix.go), so what does not fit in the port's buffer is lost.         *)
Reply(f) == Emit(f) \/ (Len(toHost) = RxCap /\ UNCHANGED toHost)

Arrives == toHost' # toHost /\ toHost'[Len(toHost')].type # "BAD"

(* An acknowledgement frees every frame up to the one it names.            *)
Release(a) ==
  LET upTo == {i \in DOMAIN unacked : NextNum(unacked[i].frm) = a}
  IN  IF upTo = {} THEN unacked
      ELSE SubSeq(unacked, (CHOOSE i \in upTo : TRUE) + 1, Len(unacked))

Taken(T) ==
  /\ toNcp # <<>> /\ Head(toNcp).type \in T
  /\ toNcp' = Tail(toNcp)

NcpReset ==
  /\ Taken({"RST"})
  /\ ncpRx' = 0 /\ ncpTx' = 0 /\ unacked' = <<>> /\ pend' = <<>>
  /\ Reply(ControlFrame("RSTACK", 0))
  /\ UNCHANGED executed

NcpAccept ==
  /\ Taken({"DATA"}) /\ Head(toNcp).frm = ncpRx
  /\ executed' = Append(executed, Head(toNcp).pay.id)
  /\ ncpRx' = NextNum(ncpRx)
  /\ pend' = Append(pend, Resp(Head(toNcp).pay.id))
  /\ unacked' = Release(Head(toNcp).ack)
  /\ Reply(ControlFrame("ACK", ncpRx'))
  /\ UNCHANGED ncpTx

NcpDuplicate ==
  /\ Taken({"DATA"}) /\ Head(toNcp).frm # ncpRx /\ Head(toNcp).reTx
  /\ Reply(ControlFrame("ACK", ncpRx))
  /\ UNCHANGED ncpVars

NcpRefuse ==
  /\ Taken({"DATA"}) /\ Head(toNcp).frm # ncpRx /\ ~Head(toNcp).reTx
  /\ Reply(ControlFrame("NAK", ncpRx))
  /\ UNCHANGED ncpVars

NcpAcked ==
  /\ Taken({"ACK"})
  /\ unacked' = Release(Head(toNcp).ack)
  /\ UNCHANGED <<toHost, executed, ncpRx, ncpTx, pend>>

(* A frame lost on its way leaves no trace; a damaged one draws a NAK.     *)
NcpMisses ==
  /\ \/ "lose" \in LinkFaults /\ Taken(FrameType \ {"ACK"})
     \/ "loseAck" \in LinkFaults /\ Taken({"ACK"})
  /\ UNCHANGED toHost \/ Reply(ControlFrame("NAK", ncpRx))
  /\ UNCHANGED ncpVars

NcpSend ==
  /\ pend # <<>> /\ Len(unacked) < NcpWindow
  /\ Emit(DataFrame(ncpTx, ncpRx, FALSE, Head(pend)))
  /\ unacked' = Append(unacked, [frm |-> ncpTx, pay |-> Head(pend)])
  /\ pend' = Tail(pend)
  /\ ncpTx' = NextNum(ncpTx)
  /\ UNCHANGED <<toNcp, executed, ncpRx>>

(* The NCP's oldest frame, or its acknowledgement, is still on its way.    *)
OnTheWay ==
  \/ \E q \in {toHost, buf, frames} : \E i \in DOMAIN q :
       q[i].type = "DATA" /\ q[i].frm = Head(unacked).frm
  \/ \E i \in DOMAIN toNcp : toNcp[i].type = "ACK"

NcpRetransmit ==
  /\ unacked # <<>> /\ ("early" \in LinkFaults \/ ~OnTheWay)
  /\ Emit(DataFrame(Head(unacked).frm, ncpRx, TRUE, Head(unacked).pay))
  /\ UNCHANGED <<toNcp, ncpVars>>

NcpCallback ==
  /\ "callback" \in LinkFaults /\ Len(pend) < PendCap
  /\ pend' = Append(pend, Callback)
  /\ UNCHANGED <<toHost, toNcp, executed, ncpRx, ncpTx, unacked>>

NcpRestart ==
  /\ "ncpReset" \in LinkFaults
  /\ ncpRx' = 0 /\ ncpTx' = 0 /\ unacked' = <<>> /\ pend' = <<>>
  /\ Emit(ControlFrame("RSTACK", 0))
  /\ Arrives \/ closing = "closed" \/ "mute" \in LinkFaults
  /\ UNCHANGED <<toNcp, executed>>

NcpStep ==
  /\ \/ NcpReset \/ NcpAccept \/ NcpDuplicate \/ NcpRefuse \/ NcpAcked
     \/ NcpMisses \/ NcpSend \/ NcpRetransmit \/ NcpCallback \/ NcpRestart
  /\ UNCHANGED <<callVars, numbers, readerVars, frames, nsent>>

------------------------------------------------------------------------------
HostStep ==
  (CallStep \/ ReaderStep \/ CloseReturn) /\ UNCHANGED <<ncpVars, nsent>>

LinkNext ==
  \/ AppNew \/ AppReset \/ AppSend \/ AppRecv \/ AppClose
  \/ HostStep \/ NcpStep

LinkSpec == LinkInit /\ [][LinkNext]_linkVars

(* Fairness: the host's, as in AshConn!FairSpec; the NCP processes what    *)
(* arrives, sends what it has queued and keeps retransmitting; and the     *)
(* line, however bad, does not lose every copy of a frame for ever.        *)
Delivers(A) == A /\ Arrives
LinkFairSpec ==
  /\ LinkSpec
  /\ WF_linkVars(HostStep /\ (WriteRst \/ Transmit))
  /\ WF_linkVars(HostStep /\ Drain) /\ SF_linkVars(HostStep /\ DrainDone)
  /\ WF_linkVars(HostStep /\ CtxReturn)
  /\ WF_linkVars(HostStep /\ (ResetTimeout \/ WaitTimeout))
  /\ WF_linkVars(HostStep /\ WaitData)
  /\ WF_linkVars(HostStep /\ (WaitAck \/ WaitNak \/ Skip \/ ConnReset))
  /\ WF_linkVars(HostStep /\ ReaderRead) /\ WF_linkVars(HostStep /\ ReaderPush)
  /\ WF_linkVars(NcpStep /\ toNcp' # toNcp)
  /\ SF_linkVars(NcpStep /\ Delivers(NcpSend))
  /\ SF_linkVars(NcpStep /\ Delivers(NcpRetransmit))

------------------------------------------------------------------------------
(* The NCP's variables have their types, and so have the host's.           *)
LinkTypeOK ==
  /\ TypeOK
  /\ nsent \in 0 .. MaxCalls
  /\ executed \in Seq(1 .. MaxCalls)
  /\ ncpRx \in Num /\ ncpTx \in Num
  /\ unacked \in Seq([frm : Num, pay : Message])
  /\ pend \in Seq(Message)

(* Whatever is lost, damaged, retransmitted, cancelled or reset, the NCP   *)
(* carries out no request twice and none out of order: the copies of a     *)
(* request share the number frmNum that Send leaves alone until it         *)
(* returns, and a RST never comes between two copies.                      *)
InOrderOnce ==
  \A i, j \in DOMAIN executed : i < j => executed[i] < executed[j]

(* Why InOrderOnce holds, as facts about the frames w still on their way   *)
(* to the NCP; n is the number of requests made, last the last one carried *)
(* out, rx the number the NCP expects.                                     *)
IsRequest(w, i) == w[i].type = "DATA"
NoRst(w, a, b) == \A k \in a .. b : w[k].type # "RST"

Requests(w, n) ==
  \A i \in DOMAIN w : IsRequest(w, i) =>
    w[i].pay.kind = "req" /\ w[i].pay.id \in 1 .. n

(* Requests are on the wire in the order they were made; the copies of one *)
(* carry one number and have no RST among them.                            *)
Ordered(w) ==
  \A i, j \in DOMAIN w : i < j /\ IsRequest(w, i) /\ IsRequest(w, j) =>
    /\ w[i].pay.id <= w[j].pay.id
    /\ w[i].pay.id = w[j].pay.id => w[i].frm = w[j].frm /\ NoRst(w, i, j)

(* What is still to come was not carried out, or is a copy of the last     *)
(* request that was, and then the NCP will see that it is one.             *)
FreshOrCopy(w, last, rx) ==
  \A i \in DOMAIN w : IsRequest(w, i) =>
    /\ last <= w[i].pay.id
    /\ w[i].pay.id = last => NextNum(w[i].frm) = rx /\ NoRst(w, 1, i)

(* The copies of request n carry the number f, and no RST follows them.    *)
CopiesOf(w, n, f) ==
  \A i \in DOMAIN w : IsRequest(w, i) /\ w[i].pay.id = n =>
    w[i].frm = f /\ NoRst(w, i, Len(w))

LastRun == IF executed = <<>> THEN 0 ELSE executed[Len(executed)]

Retransmittable ==
  op \in {"tx", "wait"} =>
    /\ nsent >= 1 /\ sending = Req(nsent)
    /\ CopiesOf(toNcp, nsent, frmNum)
    /\ LastRun = nsent =>
         NextNum(frmNum) = ncpRx /\ NoRst(toNcp, 1, Len(toNcp))

(* The inductive form of InOrderOnce (without restarts of the NCP).        *)
InOrderInv ==
  /\ LinkTypeOK
  /\ Requests(toNcp, nsent) /\ Ordered(toNcp)
  /\ FreshOrCopy(toNcp, LastRun, ncpRx)
  /\ Retransmittable
  /\ \A i \in DOMAIN executed : executed[i] <= nsent
  /\ InOrderOnce

(* Send's response is the response to this Send's request (ash.go:156:     *)
(* "waits for an ACK and the corresponding response DATA frame").          *)
Correlated ==
  result.call = "send" /\ result.out = "data" => result.pay = Resp(nsent)

(* The DATA frame handed to the caller is the one whose number ackNum      *)
(* names (ash.go:45: "next expected incoming frame number"): none is       *)
(* delivered twice and none is skipped.                                    *)
AcceptsExpected ==
  [][result' # result /\ result'.out = "data" =>
       Head(frames).frm = ackNum]_linkVars

(* Every Send comes to an end without the help of its context.             *)
SendReturns == op \in {"tx", "wait"} ~> op = "idle"

(* The link is the service of AshService.                                  *)
Answered == result.call = "send" /\ result.out = "data"
Service == INSTANCE AshService WITH
  asked <- nsent,
  ran <- executed,
  status <- IF op \in {"tx", "wait"} THEN "busy"
            ELSE IF Answered THEN "answered"
            ELSE IF result.call = "send" THEN "failed" ELSE "none",
  answer <- IF Answered THEN result.pay.id ELSE 0

ImplementsService == Service!SSpec
==============================================================================
