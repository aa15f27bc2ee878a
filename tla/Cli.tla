---------------------------------- MODULE Cli ----------------------------------
(***************************************************************************)
(* The commands of cmd/zigboo (src/cmd/zigboo/main.go), one process after  *)
(* the other, and what they do to the network that the NCP keeps in its    *)
(* non-volatile memory.  Every command resets the NCP, negotiates, and     *)
(* makes calls of ezsp.Client; what it does next depends on what they      *)
(* return.  A call may fail, whether or not the NCP got the request, and   *)
(* answers it even later; the process may die at any point.                *)
(*                                                                         *)
(* Client and NCP exchange EZSP frames, byte by byte (EzspCommands), in    *)
(* order and at most once (AshLink: InOrderOnce).  The NCP is external.    *)
(* Command returns the first frame with its frame ID; scans, and the steps *)
(* of the negotiation, are in EzspClient.                                  *)
(***************************************************************************)
EXTENDS EzspCommands, SequencesExt

CONSTANTS
  Commands,       \* the commands that are run
  Settings,       \* flags of network init: PAN ID, channel, transmit power
  PanIDs,         \* what rand.Read may yield for a PAN ID
  Durations,      \* flags of permit-join
  IDs,            \* arguments of config get and set, -1 if no ID
  AllConfigIDs,   \* the IDs that config list asks for, in order
  SetValue,       \* the value given to config set
  Defaults,       \* the NCP's configuration after a reset
  Endpoints,      \* its endpoints: number, clusters in and out
  NcpKinds,       \* the NCP: its version, whether it resumes by itself
  Faults,         \* what may go wrong
  MaxSessions     \* bound: commands run

legacyVersionThreshold == 9

ASSUME CliAssumption ==
  /\ Commands \subseteq {"reset", "version", "info", "state", "init", "permit",
                         "endpoints", "list", "get", "set"}
  /\ Settings \subseteq [panID : Int, channel : Int, txPower : Int]
  /\ PanIDs \subseteq Word /\ Durations \subseteq Byte
  /\ IDs \subseteq Byte \cup {-1} /\ SetValue \in Word
  /\ AllConfigIDs \in Seq(Byte) /\ Len(AllConfigIDs) \in 1 .. 255
  /\ NcpKinds \subseteq [version : Nat, resumes : BOOLEAN]
  /\ Faults \subseteq {"lose",     \* a request is lost
                       "fail",     \* a call ends without its answer
                       "refuse",   \* the NCP refuses a command
                       "short",    \* a response is cut short
                       "restart",  \* the NCP restarts by itself
                       "kill"}     \* the process dies
  /\ MaxSessions \in Byte         \* bytes of a key, see Key

(* What the NCP keeps fits its frames.                                     *)
ASSUME NcpAssumption ==
  /\ DOMAIN Defaults \subseteq Byte
  /\ Defaults \in [DOMAIN Defaults -> Word]
  /\ Endpoints \in Seq([ep : Byte, clusters : Seq(Seq(Word))])
  /\ Len(Endpoints) <= 255
  /\ \A k \in DOMAIN Endpoints :
       /\ Len(Endpoints[k].clusters) = 2
       /\ \A l \in 1 .. 2 : Len(Endpoints[k].clusters[l]) <= 255

VARIABLES
  cmd,         \* the command
  flags,       \* the flags of network init
  arg,         \* the argument or flag of the other commands
  pc,          \* the call it is at, "idle" if there is no process
  waiting,     \* the request is written
  item,        \* where a listing stands
  exit,        \* how the last command ended
  said,        \* what it claims
  shown,       \* what it lists
  session,     \* commands run so far
  extended,
  outbox,      \* frames on their way to the NCP
  inbox,       \* frames on their way to the client
  ncp,         \* version, resumes
  linked,      \* the connection was not reset under the client
  ncpExt, up, sec, joining, config,
  stored,      \* the network in non-volatile memory, NoNetwork if none
  before,      \* the one that was stored after this command's reset
  clean        \* since this command's reset nothing went wrong

progVars == <<cmd, flags, arg, item, exit, said, shown, session>>
lineVars == <<outbox, inbox>>
ncpVars == <<ncp, linked, ncpExt, up, sec, joining, config, stored>>
vars == <<progVars, pc, waiting, extended, lineVars, ncpVars, before, clean>>

NoNetwork == [formed |-> 0]

NoFlags == [panID |-> 0, channel |-> 0, txPower |-> 0]

NoItem ==
  [n |-> 0, i |-> 0, ep |-> 0, counts |-> <<0, 0>>, list |-> 1, j |-> 0]

(* A network key made in session s, and the link key all networks share.   *)
Key(s) == Repeat(s, 16)

ZigbeeHALinkKey ==
  <<90, 105, 103, 66, 101, 101, 65, 108, 108, 105, 97, 110, 99, 101, 48, 57>>

Places == {"nodeId", "eui64", "tryInit", "state", "params", "guard", "init",
           "secure", "form", "restore", "permit", "count", "endpoint",
           "description", "cluster", "value", "set"}

Init ==
  /\ cmd = "none" /\ flags = NoFlags /\ arg = 0
  /\ pc = "idle" /\ waiting = FALSE
  /\ item = NoItem /\ exit = "none" /\ said = "none" /\ shown = <<>>
  /\ session = 0 /\ extended = FALSE
  /\ outbox = <<>> /\ inbox = <<>>
  /\ ncp \in NcpKinds /\ linked = FALSE /\ ncpExt = FALSE
  /\ up = FALSE /\ sec = 0 /\ joining = 0 /\ config = Defaults
  /\ stored = NoNetwork /\ before = NoNetwork
  /\ clean = FALSE

------------------------------------------------------------------------------
(* How a command goes on and ends.                                         *)

GoTo(place) == pc' = place /\ UNCHANGED <<exit, said>>

Claim(claim, place) == said' = claim /\ pc' = place /\ UNCHANGED exit

Exit(claim) == pc' = "idle" /\ exit' = "ok" /\ said' = claim

Fail == pc' = "idle" /\ exit' = "error" /\ UNCHANGED said

Args(c) ==
  CASE c = "permit" -> Durations
    [] c \in {"get", "set"} -> IDs
    [] OTHER -> {0}

(* A new process; openConn.  What is left of the one before, the NCP has   *)
(* done by now or never does.                                              *)
Start(c) ==
  /\ pc = "idle" /\ session < MaxSessions
  /\ cmd' = c /\ arg' \in Args(c) /\ session' = session + 1
  /\ flags' \in IF c = "init" THEN Settings ELSE {NoFlags}
  /\ pc' = "reset"
  /\ exit' = "none" /\ said' = "none" /\ shown' = <<>> /\ item' = NoItem
  /\ extended' = FALSE /\ clean' = FALSE
  /\ outbox' = <<>> /\ inbox' = <<>>
  /\ UNCHANGED <<waiting, ncpVars, before>>

(* The NCP starts: no network, unless it resumes one by itself.            *)
Boot ==
  /\ up' = (ncp.resumes /\ stored # NoNetwork)
  /\ sec' = 0 /\ joining' = 0 /\ config' = Defaults
  /\ ncpExt' = FALSE
  /\ outbox' = <<>> /\ inbox' = <<>>
  /\ UNCHANGED <<ncp, stored>>

(* Conn.Reset.                                                             *)
Reset ==
  /\ pc = "reset"
  /\ Boot /\ linked' = TRUE
  /\ clean' = TRUE /\ before' = stored
  /\ IF cmd = "reset" THEN Exit("reset") ELSE GoTo("negotiate")
  /\ UNCHANGED <<cmd, flags, arg, item, shown, session, waiting, extended>>

(* What the command asks first.                                            *)
First ==
  [info |-> "nodeId", state |-> "tryInit", init |-> "guard",
   permit |-> "restore", endpoints |-> "count",
   list |-> "value", get |-> "value", set |-> "set"]

(* NegotiateVersion.  An argument that is no ID is found out only now.     *)
Negotiate ==
  /\ pc = "negotiate" /\ linked
  /\ extended' = (ncp.version >= legacyVersionThreshold)
  /\ ncpExt' = extended'
  /\ IF cmd = "version" THEN Exit("version")
     ELSE IF arg = -1 THEN Fail
     ELSE GoTo(First[cmd])
  /\ UNCHANGED <<cmd, flags, arg, item, shown, session, waiting, lineVars,
                 ncp, linked, up, sec, joining, config, stored, before, clean>>

(* Reset or NegotiateVersion returns an error.                             *)
NoConnection ==
  /\ pc \in {"reset", "negotiate"} /\ ("fail" \in Faults \/ ~linked)
  /\ Fail
  /\ clean' = FALSE
  /\ UNCHANGED <<cmd, flags, arg, item, shown, session, waiting, extended,
                 lineVars, ncpVars, before>>

(* The process is killed, its connection gone.                             *)
Kill ==
  /\ "kill" \in Faults /\ pc # "idle"
  /\ pc' = "idle" /\ waiting' = FALSE /\ exit' = "killed"
  /\ clean' = FALSE
  /\ UNCHANGED <<cmd, flags, arg, item, said, shown, session, extended,
                 lineVars, ncpVars, before>>
------------------------------------------------------------------------------
(* Calls: Ask writes the request of the place where the command is, and    *)
(* the action of that place takes what Command returns.                    *)

(* int8(v).                                                                *)
ToInt8(v) == Int8(v % 256)

(* The random PAN ID is used as it comes.                                  *)
BugParameters(f, random) ==
  [extendedPanID |-> Repeat(0, 8),
   panID |-> IF f.panID % 65536 # 65535 THEN f.panID % 65536
             ELSE random,
   radioTxPower |-> ToInt8(f.txPower),
   radioChannel |-> f.channel % 256]

(* uint16, int8 and uint8 of the flags.  PAN ID 0xFFFF stands for a random *)
(* one, which is neither 0 nor 0xFFFF.                                     *)
Parameters(f, random) ==
  [extendedPanID |-> Repeat(0, 8),
   panID |-> IF f.panID % 65536 # 65535 THEN f.panID % 65536
             ELSE IF random \in {0, 65535} THEN 6754
             ELSE random,
   radioTxPower |-> ToInt8(f.txPower),
   radioChannel |-> f.channel % 256]

ConfigID == IF cmd = "list" THEN AllConfigIDs[item.i + 1] ELSE arg

(* Frame ID and parameters; random is for formNetwork.                     *)
Request(random) ==
  CASE pc = "nodeId" -> <<frameIDGetNodeID, <<>>>>
    [] pc = "eui64" -> <<frameIDGetEUI64, <<>>>>
    [] pc \in {"state", "guard"} -> <<frameIDNetworkState, <<>>>>
    [] pc = "params" -> <<frameIDGetNetworkParameters, <<>>>>
    [] pc \in {"tryInit", "init", "restore"} ->
         <<frameIDNetworkInit, NetworkInitParams>>
    [] pc = "secure" ->
         <<frameIDSetInitialSecurityState,
           SetInitialSecurityStateParams(ZigbeeHALinkKey, Key(session))>>
    [] pc = "form" ->
         <<frameIDFormNetwork, FormNetworkParams(Parameters(flags, random))>>
    [] pc = "permit" -> <<frameIDPermitJoining, <<arg>>>>
    [] pc = "count" -> <<frameIDGetEndpointCount, <<>>>>
    [] pc = "endpoint" -> <<frameIDGetEndpoint, <<item.i>>>>
    [] pc = "description" -> <<frameIDGetEndpointDescription, <<item.ep>>>>
    [] pc = "cluster" ->
         <<frameIDGetEndpointCluster, <<item.ep, item.list - 1, item.j>>>>
    [] pc = "value" -> <<frameIDGetConfigurationValue, <<ConfigID>>>>
    [] pc = "set" -> <<frameIDSetConfigurationValue,
                       SetConfigurationValueParams(arg, SetValue)>>

Ask ==
  /\ pc \in Places /\ ~waiting
  /\ waiting' = TRUE
  /\ \/ /\ linked
        /\ \E random \in IF pc = "form" THEN PanIDs ELSE {0} :
             LET r == Request(random) IN
             outbox' = Append(outbox, encode(extended, 0, r[1], r[2]))
        /\ UNCHANGED clean
     \/ /\ "lose" \in Faults \/ ~linked
        /\ clean' = FALSE /\ UNCHANGED outbox
  /\ UNCHANGED <<progVars, pc, extended, inbox, ncpVars, before>>

(* What Command may return: the first frame with the frame ID it wants,    *)
(* the ones before it skipped, or an error, which is as it must be if no   *)
(* answer can come.  The sequence number is 0 because none is looked at.   *)
Matching ==
  {k \in DOMAIN inbox : LET d == decode(extended, inbox[k]) IN
     d.ok /\ d.v.frameID = Request(0)[1]}

Unanswered == outbox = <<>> /\ Matching = {}

Answers ==
  {[got |-> TRUE, params |-> decode(extended, inbox[k]).v.params,
    rest |-> From(inbox, k + 1)] : k \in {m \in Matching : m = Min(Matching)}}
    \cup
  IF "fail" \in Faults \/ ~linked \/ Unanswered
  THEN {[got |-> FALSE, params |-> <<>>, rest |-> inbox]} ELSE {}

Return(a) ==
  /\ waiting /\ waiting' = FALSE
  /\ inbox' = a.rest
  /\ clean' = (clean /\ (a.got \/ Unanswered))
  /\ UNCHANGED <<cmd, flags, arg, session, extended, outbox, ncpVars, before>>

Parsed(Parse(_), a) == IF a.got THEN Parse(a.params) ELSE Err

Quiet == UNCHANGED <<item, shown>>

Show(entry) == shown' = Append(shown, entry)

(* A call of which only the status counts.                                 *)
StatusCall(place, Good, Bad) ==
  /\ pc = place
  /\ \E a \in Answers :
       /\ Return(a)
       /\ IF Parsed(Status, a).ok THEN Good ELSE Bad
  /\ Quiet

------------------------------------------------------------------------------
(* info.                                                                   *)

NodeId ==
  /\ pc = "nodeId"
  /\ \E a \in Answers :
       /\ Return(a)
       /\ LET r == Parsed(GetNodeID, a) IN
          IF r.ok THEN GoTo("eui64") /\ Show(r.v) ELSE Fail /\ UNCHANGED shown
  /\ UNCHANGED item

Eui64 ==
  /\ pc = "eui64"
  /\ \E a \in Answers :
       /\ Return(a)
       /\ LET r == Parsed(GetEUI64, a) IN
          IF r.ok THEN Exit("info") /\ Show(r.v) ELSE Fail /\ UNCHANGED shown
  /\ UNCHANGED item

------------------------------------------------------------------------------
(* network state, and the details that network init ends with.             *)

(* The error of networkInit is ignored.                                    *)
TryInit == StatusCall("tryInit", GoTo("state"), GoTo("state"))

joinedNetwork == 2

(* NetworkState in runNetworkState and in printNetworkDetails.             *)
State ==
  /\ pc = "state"
  /\ \E a \in Answers :
       /\ Return(a)
       /\ LET r == Parsed(NetworkState, a) IN
          IF ~r.ok THEN Fail /\ UNCHANGED shown
          ELSE /\ Show(r.v)
               /\ IF cmd = "state" /\ r.v = 0 THEN Exit("noNetwork")
                  ELSE GoTo("params")
  /\ UNCHANGED item

Params ==
  /\ pc = "params"
  /\ \E a \in Answers :
       /\ Return(a)
       /\ LET r == Parsed(GetNetworkParameters, a) IN
          IF ~r.ok THEN Fail /\ UNCHANGED shown
          ELSE /\ Show(r.v)
               /\ Exit(IF cmd = "state" THEN "network" ELSE said)
  /\ UNCHANGED item

------------------------------------------------------------------------------
(* network init.                                                           *)

Guard ==
  /\ pc = "guard"
  /\ \E a \in Answers :
       /\ Return(a)
       /\ LET r == Parsed(NetworkState, a) IN
          IF ~r.ok THEN Fail
          ELSE IF r.v = joinedNetwork THEN Claim("active", "state")
          ELSE GoTo("init")
  /\ Quiet

(* The network is set up anew whether or not one could be resumed.         *)
BugInitNetwork == StatusCall("init", GoTo("secure"), GoTo("secure"))

(* Any error is taken for "no stored network".                             *)
InitNetwork == StatusCall("init", Claim("resumed", "state"), GoTo("secure"))

(* The error of setInitialSecurityState is ignored.                        *)
BugSecure == StatusCall("secure", GoTo("form"), GoTo("form"))

Secure == StatusCall("secure", GoTo("form"), Fail)

(* The error of formNetwork is not returned.                               *)
BugForm ==
  StatusCall("form", Claim("formed", "state"),
             Claim("formed", "state"))

Form == StatusCall("form", Claim("formed", "state"), Fail)

------------------------------------------------------------------------------
(* network permit-join.                                                    *)

(* networkInit is tried until it succeeds.                                 *)
BugRestore == StatusCall("restore", GoTo("permit"), GoTo("restore"))

Restore == StatusCall("restore", GoTo("permit"), Fail)

Permit ==
  StatusCall("permit", Exit(IF arg = 0 THEN "closed" ELSE "open"),
             Fail)

------------------------------------------------------------------------------
(* endpoints.  A loop over the endpoints, in it one over each of the two   *)
(* lists of clusters; an error skips an endpoint or the rest of a list.    *)

More(it) == it.j < it.counts[it.list]

NextEndpoint(it) == [NoItem EXCEPT !.n = it.n, !.i = it.i + 1]

(* The output clusters are forgotten.                                      *)
BugNextCluster(it) == IF More(it) THEN it ELSE NextEndpoint(it)

NextCluster(it) ==
  IF More(it) THEN it
  ELSE IF it.list = 1 /\ it.counts[2] > 0 THEN [it EXCEPT !.list = 2, !.j = 0]
  ELSE NextEndpoint(it)

Loop(it) ==
  /\ item' = it
  /\ IF More(it) THEN GoTo("cluster")
     ELSE IF it.i < it.n THEN GoTo("endpoint")
     ELSE Exit("endpoints")

Line(what, of, v) == [what |-> what, of |-> of, v |-> v]

Count ==
  /\ pc = "count"
  /\ \E a \in Answers :
       /\ Return(a)
       /\ LET r == Parsed(GetEndpointCount, a) IN
          IF r.ok THEN Loop([NoItem EXCEPT !.n = r.v])
          ELSE Fail /\ UNCHANGED item
  /\ UNCHANGED shown

Endpoint ==
  /\ pc = "endpoint"
  /\ \E a \in Answers :
       /\ Return(a)
       /\ LET r == Parsed(GetEndpoint, a) IN
          IF r.ok
          THEN /\ GoTo("description") /\ item' = [item EXCEPT !.ep = r.v]
               /\ UNCHANGED shown
          ELSE Loop(NextEndpoint(item)) /\ Show(Line("no endpoint", item.i, 0))

Description ==
  /\ pc = "description"
  /\ \E a \in Answers :
       /\ Return(a)
       /\ LET r == Parsed(GetEndpointDescription, a) IN
          IF r.ok
          THEN /\ Loop(NextCluster([item EXCEPT !.counts =
                     <<r.v.inputClusterCount, r.v.outputClusterCount>>]))
               /\ Show(Line("endpoint", item.ep, r.v.profileID))
          ELSE /\ Loop(NextEndpoint(item))
               /\ Show(Line("no description", item.ep, 0))

Cluster ==
  /\ pc = "cluster"
  /\ \E a \in Answers :
       /\ Return(a)
       /\ LET r == Parsed(GetEndpointCluster, a)
              j == IF r.ok THEN item.j + 1 ELSE item.counts[item.list] IN
          /\ Loop(NextCluster([item EXCEPT !.j = j]))
          /\ Show(Line(IF r.ok THEN "cluster" ELSE "no cluster",
                       item.list, r.v))

------------------------------------------------------------------------------
(* config.                                                                 *)

(* list says "unsupported" whatever the error was, and goes on.            *)
Value ==
  /\ pc = "value"
  /\ \E a \in Answers :
       /\ Return(a)
       /\ LET r == Parsed(GetConfigurationValue, a) IN
          \/ /\ cmd = "get"
             /\ IF r.ok THEN Exit("get") /\ Show(Line("value", ConfigID, r.v))
                ELSE Fail /\ UNCHANGED shown
             /\ UNCHANGED item
          \/ /\ cmd = "list"
             /\ Show(Line(IF r.ok THEN "value" ELSE "unsupported",
                          ConfigID, r.v))
             /\ item' = [item EXCEPT !.i = @ + 1]
             /\ IF item'.i < Len(AllConfigIDs) THEN GoTo("value")
                ELSE Exit("list")

SetConfig == StatusCall("set", Exit("set"), Fail)

------------------------------------------------------------------------------
(* The NCP.                                                                *)

Asked == decode(ncpExt, Head(outbox)).v

Takes(F) == outbox # <<>> /\ Asked.frameID \in F /\ outbox' = Tail(outbox)

Reply(fid, params) == inbox' = Append(inbox, encode(ncpExt, 0, fid, params))

Accept == Reply(Asked.frameID, <<0>>)

emberNotJoined == 147

Refuse == Reply(Asked.frameID, <<emberNotJoined>>)

NcpFrame == UNCHANGED <<progVars, pc, waiting, extended, before, ncp, linked,
                        ncpExt>>

NcpNetworkInit ==
  /\ Takes({frameIDNetworkInit})
  /\ IF stored # NoNetwork /\ ~up THEN Accept /\ up' = TRUE
     ELSE Refuse /\ UNCHANGED up
  /\ NcpFrame /\ UNCHANGED <<sec, joining, config, stored, clean>>

NcpSecure ==
  /\ Takes({frameIDSetInitialSecurityState})
  /\ Accept
  /\ sec' = Asked.params[19]
  /\ NcpFrame /\ UNCHANGED <<up, joining, config, stored, clean>>

(* It forms a network over one that is stored but not up.                  *)
NcpForm ==
  /\ Takes({frameIDFormNetwork})
  /\ LET p == Asked.params
         possible == ~up /\ p[12] \in 11 .. 26
                         /\ SubSeq(p, 17, 20) = ChannelMask(p[12])
     IN
     \/ /\ possible
        /\ Accept
        /\ up' = TRUE
        /\ stored' = [extendedPanID |-> SubSeq(p, 1, 8),
                      panID |-> Uint16(p, 9),
                      radioTxPower |-> Int8(p[11]), radioChannel |-> p[12],
                      key |-> sec, formed |-> session]
     \/ ~possible /\ Refuse /\ UNCHANGED <<up, stored>>
  /\ NcpFrame /\ UNCHANGED <<sec, joining, config, clean>>

NcpPermit ==
  /\ Takes({frameIDPermitJoining})
  /\ IF up THEN Accept /\ joining' = Asked.params[1]
     ELSE Refuse /\ UNCHANGED joining
  /\ NcpFrame /\ UNCHANGED <<up, sec, config, stored, clean>>

NcpSetConfig ==
  /\ Takes({frameIDSetConfigurationValue})
  /\ IF Asked.params[1] \in DOMAIN config
     THEN Accept /\ config' = [config EXCEPT
                      ![Asked.params[1]] = Uint16(Asked.params, 2)]
     ELSE Refuse /\ UNCHANGED config
  /\ NcpFrame /\ UNCHANGED <<up, sec, joining, stored, clean>>

(* A field that version 14 has and earlier ones have not.                  *)
NetworkParametersResponse ==
  IF ~up THEN <<emberNotJoined>> \o Repeat(0, 21)
  ELSE <<0, 1>> \o stored.extendedPanID \o PutUint16(stored.panID)
         \o (IF ncp.version >= 14 THEN Repeat(7, 3) ELSE <<>>)
         \o <<stored.radioTxPower % 256, stored.radioChannel>> \o Repeat(0, 8)

(* The node ID without a network, 0xFFFE.                                  *)
noNodeID == 65534

(* What it answers to a command that changes nothing.                      *)
Answer(fid, p) ==
  LET of == {k \in DOMAIN Endpoints : Endpoints[k].ep = p[1]}
      e == Endpoints[CHOOSE k \in of : TRUE]
      none == <<1>>
  IN
  CASE fid = frameIDNetworkState -> <<IF up THEN joinedNetwork ELSE 0>>
    [] fid = frameIDGetNodeID -> PutUint16(IF up THEN 0 ELSE noNodeID)
    [] fid = frameIDGetEUI64 -> [k \in 1 .. 8 |-> k]
    [] fid = frameIDGetNetworkParameters -> NetworkParametersResponse
    [] fid = frameIDGetConfigurationValue ->
         IF p[1] \in DOMAIN config THEN <<0>> \o PutUint16(config[p[1]])
         ELSE <<1, 0, 0>>
    [] fid = frameIDGetEndpointCount -> <<0, Len(Endpoints)>>
    [] fid = frameIDGetEndpoint ->
         IF p[1] < Len(Endpoints) THEN <<0, Endpoints[p[1] + 1].ep>> ELSE none
    [] fid = frameIDGetEndpointDescription ->
         IF of = {} THEN none
         ELSE <<0>> \o PutUint16(260) \o PutUint16(5)
                \o <<1, Len(e.clusters[1]), Len(e.clusters[2])>>
    [] fid = frameIDGetEndpointCluster ->
         IF of = {} THEN none
         ELSE IF p[3] < Len(e.clusters[p[2] + 1])
         THEN <<0>> \o PutUint16(e.clusters[p[2] + 1][p[3] + 1])
         ELSE none

Queries ==
  {frameIDNetworkState, frameIDGetNodeID, frameIDGetEUI64,
   frameIDGetNetworkParameters, frameIDGetConfigurationValue,
   frameIDGetEndpointCount, frameIDGetEndpoint, frameIDGetEndpointDescription,
   frameIDGetEndpointCluster}

Writes ==
  {frameIDNetworkInit, frameIDSetInitialSecurityState, frameIDFormNetwork,
   frameIDPermitJoining, frameIDSetConfigurationValue}

NcpQuery ==
  /\ Takes(Queries)
  /\ Reply(Asked.frameID, Answer(Asked.frameID, Asked.params))
  /\ NcpFrame /\ UNCHANGED <<up, sec, joining, config, stored, clean>>

(* The response is shorter than it is in any version.  (One of version 14  *)
(* that lacks 1 to 3 bytes would pass for whole: ezsp.go:264.)             *)
NcpShort ==
  /\ "short" \in Faults /\ Takes(Queries)
  /\ LET whole == Answer(Asked.frameID, Asked.params) IN
     \E n \in 0 .. Min({Len(whole), 22}) - 1 :
       Reply(Asked.frameID, SubSeq(whole, 1, n))
  /\ clean' = FALSE
  /\ NcpFrame /\ UNCHANGED <<up, sec, joining, config, stored>>

NcpRefuse ==
  /\ "refuse" \in Faults /\ Takes(Writes)
  /\ Refuse
  /\ clean' = FALSE
  /\ NcpFrame /\ UNCHANGED <<up, sec, joining, config, stored>>

(* A command it does not know, as the legacy format makes of some: 0x58.   *)
NcpUnknown ==
  /\ Takes(Byte \ (Queries \cup Writes))
  /\ Reply(88, <<49>>)
  /\ NcpFrame /\ UNCHANGED <<up, sec, joining, config, stored, clean>>

(* It starts again by itself, and refuses all until the version is set.    *)
NcpRestart ==
  /\ "restart" \in Faults /\ linked
  /\ Boot /\ linked' = FALSE
  /\ clean' = FALSE
  /\ UNCHANGED <<progVars, pc, waiting, extended, before>>

------------------------------------------------------------------------------
Step ==
  \/ Reset \/ Negotiate \/ NoConnection \/ Ask
  \/ NodeId \/ Eui64 \/ TryInit \/ State \/ Params
  \/ Guard \/ InitNetwork \/ Secure \/ Form \/ Restore \/ Permit
  \/ Count \/ Endpoint \/ Description \/ Cluster \/ Value \/ SetConfig

NcpStep ==
  \/ NcpNetworkInit \/ NcpSecure \/ NcpForm \/ NcpPermit \/ NcpSetConfig
  \/ NcpQuery \/ NcpShort \/ NcpRefuse \/ NcpUnknown \/ NcpRestart

Next == (\E c \in Commands : Start(c)) \/ Step \/ Kill \/ NcpStep

Spec == Init /\ [][Next]_vars

(* The process runs, and every call ends at the latest with its timeout.   *)
FairSpec == Spec /\ WF_vars(Step)

------------------------------------------------------------------------------
Network ==
  [extendedPanID : {Repeat(0, 8)}, panID : Word,
   radioTxPower : -128 .. 127, radioChannel : 11 .. 26,
   key : 0 .. MaxSessions, formed : 1 .. MaxSessions]

(* Every variable has its type.                                            *)
TypeOK ==
  /\ cmd \in Commands \cup {"none"}
  /\ cmd = "none" \/ arg \in Args(cmd)
  /\ flags \in Settings \cup {NoFlags}
  /\ pc \in Places \cup {"idle", "reset", "negotiate"} /\ waiting \in BOOLEAN
  /\ item.i \in 0 .. 255 /\ item.j \in 0 .. 255 /\ item.ep \in Byte
  /\ exit \in {"none", "ok", "error", "killed"}
  /\ session \in 0 .. MaxSessions /\ extended \in BOOLEAN
  /\ \A k \in DOMAIN outbox : outbox[k] \in Seq(Byte)
  /\ \A k \in DOMAIN inbox : inbox[k] \in Seq(Byte)
  /\ ncp \in NcpKinds /\ linked \in BOOLEAN /\ ncpExt \in BOOLEAN
  /\ up \in BOOLEAN /\ sec \in 0 .. MaxSessions /\ joining \in Byte
  /\ stored = NoNetwork \/ stored \in Network
  /\ before = NoNetwork \/ before \in Network
  /\ clean \in BOOLEAN

(* While nothing has gone wrong since its reset no command replaces the    *)
(* network that is stored, and none touches the security of one that is    *)
(* active (main.go:292, 301, 304).  With one answer of networkInit that is *)
(* missing, or an error, network init forms a new network over the old.    *)
KeepsNetwork ==
  [][clean /\ clean' /\ stored # NoNetwork =>
       stored' = stored /\ (up => sec' = sec)]_vars

(* Whatever fails, is refused, restarted or killed in between: the key of  *)
(* a network is the one that was made for it, in the same run of network   *)
(* init (ezsp.go:296, "must have security state configured").              *)
FormedSecured == stored # NoNetwork => stored.key = stored.formed

(* A network is formed with what the flags say if that is in their range,  *)
(* and with a PAN ID that is not reserved if none is given.                *)
FormedAsAsked ==
  stored # NoNetwork /\ stored.formed = session =>
    /\ flags.channel \in Byte => stored.radioChannel = flags.channel
    /\ flags.txPower \in -128 .. 127 => stored.radioTxPower = flags.txPower
    /\ flags.panID \in Word \ {65535} => stored.panID = flags.panID
    /\ flags.panID = 65535 => stored.panID \notin {0, 65535}

Printed ==
  [nodeType |-> 1, extendedPanID |-> stored.extendedPanID,
   panID |-> stored.panID, radioTxPower |-> stored.radioTxPower,
   radioChannel |-> stored.radioChannel]

(* What a command says of the NCP is so, whatever went wrong on the way:   *)
(* formed, resumed, open, set, the addresses and parameters it prints; and *)
(* that no network is stored, when nothing went wrong.                     *)
SaysTruth ==
  /\ said = "formed" => stored # NoNetwork /\ stored.formed = session
  /\ said \in {"resumed", "active"} => stored # NoNetwork /\ stored = before
  /\ said = "noNetwork" /\ clean => stored = NoNetwork
  /\ said \in {"open", "closed"} /\ linked => up /\ joining = arg
  /\ said = "set" /\ linked => config[arg] = SetValue
  /\ said = "info" /\ linked =>
       shown = <<IF up THEN 0 ELSE noNodeID, [k \in 1 .. 8 |-> k]>>
  /\ cmd \in {"state", "init"} /\ Len(shown) = 2 =>
       stored # NoNetwork /\ shown[2] = Printed

(* A command in which nothing goes wrong succeeds, wherever the ones       *)
(* before it were interrupted, but for what it cannot do: a channel that   *)
(* does not exist, permit-join without a network or on an NCP that has     *)
(* resumed it, IDs that are unknown or unsupported, endpoints in the       *)
(* legacy format, which has no room for their frame IDs (frame.go:20).     *)
CleanSucceeds ==
  exit = "error" /\ clean =>
    \/ cmd = "init" /\ flags.channel % 256 \notin 11 .. 26
    \/ cmd = "permit" /\ (stored = NoNetwork \/ ncp.resumes)
    \/ cmd \in {"get", "set"} /\ arg \notin DOMAIN Defaults
    \/ cmd = "endpoints" /\ ~extended

ListedValue(id) ==
  IF id \in DOMAIN config THEN Line("value", id, config[id])
  ELSE Line("unsupported", id, 0)

(* The lines of an endpoint: itself, its input and its output clusters.    *)
Lines(e) == 1 + Len(e.clusters[1]) + Len(e.clusters[2])

ListedLine(e, k) ==
  LET inputs == Len(e.clusters[1]) IN
  IF k = 1 THEN Line("endpoint", e.ep, 260)
  ELSE IF k <= 1 + inputs THEN Line("cluster", 1, e.clusters[1][k - 1])
  ELSE Line("cluster", 2, e.clusters[2][k - 1 - inputs])

(* s is the first n endpoints, one after the other: at[k] lines are before *)
(* those of endpoint k + 1.                                                *)
ListsEndpoints(s, n) ==
  \E at \in [0 .. n -> 0 .. Len(s)] :
    /\ at[0] = 0 /\ at[n] = Len(s)
    /\ \A k \in 1 .. n :
         /\ at[k] = at[k - 1] + Lines(Endpoints[k])
         /\ \A l \in 1 .. Lines(Endpoints[k]) :
              s[at[k - 1] + l] = ListedLine(Endpoints[k], l)

(* A listing names every ID in turn even if some could not be read; if     *)
(* nothing went wrong it is the NCP's, all of it and in order.             *)
ListsAll ==
  exit = "ok" =>
    /\ cmd = "list" => [k \in DOMAIN shown |-> shown[k].of] = AllConfigIDs
    /\ cmd = "list" /\ clean =>
         shown = [k \in DOMAIN AllConfigIDs |-> ListedValue(AllConfigIDs[k])]
    /\ cmd = "get" /\ clean => shown = <<ListedValue(arg)>>
    /\ cmd = "endpoints" /\ clean => ListsEndpoints(shown, Len(Endpoints))

(* Every command comes to an end.                                          *)
CommandEnds == pc # "idle" ~> pc = "idle"
==============================================================================
