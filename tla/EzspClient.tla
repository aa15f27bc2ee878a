------------------------------ MODULE EzspClient ------------------------------
(***************************************************************************)
(* ezsp.Client (src/ezsp/ezsp.go): version negotiation, Command and its    *)
(* skipping of callbacks, and scans, whose results a goroutine reads while *)
(* the flag scanning keeps commands out.  Below the client is an ash.Conn  *)
(* seen from above: Send writes a request and returns the next DATA frame, *)
(* Recv returns the next DATA frame, in the order the NCP sent them        *)
(* (AshLink says when that holds).  One goroutine calls the client, as in  *)
(* cmd/zigboo and as Conn asks for (ash.go:43).  The NCP is external.      *)
(*                                                                         *)
(* A frame carries its frame ID and format, and, in the place of its       *)
(* parameters, what the properties tell apart: the number of the request   *)
(* it answers or of the scan it belongs to.  The EZSP sequence number is   *)
(* left out: the client never looks at the one of a response.              *)
(***************************************************************************)
EXTENDS Integers, Sequences

CONSTANTS
  Commands,       \* frame IDs of the commands but startScan and version
  ResultsCap,     \* capacity of the results channel (16 in the code)
  NcpVersions,    \* the protocol version the NCP may have
  Does,           \* what the application does besides calling in turn
  Faults,         \* what may go wrong
  MaxCalls,       \* bound: requests made
  MaxResults,     \* bound: results of one scan
  MaxCallbacks,   \* bound: callbacks that belong to no scan
  InboxCap        \* bound: DATA frames of the NCP not yet received

legacyVersionThreshold == 9

ASSUME ClientAssumption ==
  /\ Commands \cap {"version", "startScan", "result", "complete", "status",
                   "invalid"} = {}
  /\ ResultsCap \in Nat \ {0} /\ InboxCap \in Nat \ {0}
  /\ NcpVersions \subseteq Nat \ {0} /\ NcpVersions # {}
  /\ MaxCalls \in Nat /\ MaxResults \in Nat /\ MaxCallbacks \in Nat
  /\ Does \subseteq {"scan",         \* scans
                     "meanwhile",    \* calls while its scan is running
                     "carryOn",      \* goes on after a call that failed
                     "abandon",      \* stops reading the results of a scan
                     "renegotiate"}  \* negotiates more than once
  /\ Faults \subseteq {"lose",       \* requests, or the connection, are lost
                       "refuse",     \* the NCP may not answer to version
                       "cancel"}     \* a scan's context may be cancelled

VARIABLES
  pc,          \* where the caller is, see Where
  want, id,    \* the frame ID and the number of its request
  out, ans,    \* what its last call returned: outcome, request answered
  extended, version, scanning,
  goroutine,   \* where the scan goroutine is, see Goroutine
  held,        \* the result it is about to push
  results, errCh,
  closed,      \* results and errCh are closed
  scanCtxDone, \* the context given to the scan is done
  scanId,      \* the request that started the scan
  reading,     \* its caller is ranging over results
  got,         \* what that caller received
  scanOut,     \* how the scan ended for it
  ncalls,      \* requests made, the number of the last
  outbox,      \* requests on their way to the NCP
  inbox,       \* DATA frames on their way to the client
  ncpVersion, ncpExt,
  ncpScan,     \* the scan the NCP is running, 0 if none
  reported,    \* how many results of each scan it has sent
  callbacks    \* callbacks sent so far

callerVars == <<pc, want, id, out, ans, ncalls>>
modeVars == <<extended, version>>
scanVars == <<goroutine, held, results, errCh, closed, scanCtxDone, scanId>>
readVars == <<reading, got, scanOut>>
ncpVars == <<ncpVersion, ncpExt, ncpScan, reported, callbacks>>
vars == <<callerVars, modeVars, scanning, scanVars, readVars, outbox, inbox,
          ncpVars>>

(* "ready": past Command's check, "send": in Conn.Send, "recv": in         *)
(* Conn.Recv after a callback, "started": startScan succeeded, "neg1" and  *)
(* "neg2": in Conn.Send for a phase of NegotiateVersion.                   *)
Where == {"idle", "ready", "send", "recv", "started", "neg1", "neg2"}

(* "recv": in Conn.Recv, "push": at results <-, "return": at the deferred  *)
(* function, "unlock": channels closed, the flag not yet cleared.          *)
Goroutine == {"none", "recv", "push", "return", "unlock"}

FrameId ==
  Commands \cup {"version", "startScan", "result", "complete", "status",
                 "invalid"}

Request == [fid : Commands \cup {"version", "startScan"},
            tag : 0 .. MaxCalls, ext : BOOLEAN]

Frame == [fid : FrameId, tag : Nat, n : 0 .. MaxResults, ok : BOOLEAN,
          ext : BOOLEAN]

Init ==
  /\ pc = "idle" /\ want = "version" /\ id = 0 /\ ncalls = 0
  /\ out = "none" /\ ans = 0
  /\ extended = FALSE /\ version = 0 /\ scanning = FALSE
  /\ goroutine = "none" /\ held = <<>> /\ results = <<>> /\ errCh = <<>>
  /\ closed = FALSE /\ scanCtxDone = FALSE /\ scanId = 0
  /\ reading = FALSE /\ got = <<>> /\ scanOut = "none"
  /\ outbox = <<>> /\ inbox = <<>>
  /\ ncpVersion \in NcpVersions /\ ncpExt = FALSE
  /\ ncpScan = 0 /\ callbacks = 0
  /\ reported = [k \in 0 .. MaxCalls |-> 0]

------------------------------------------------------------------------------
(* The connection, seen from above.                                        *)

Write(r) ==
  \/ outbox' = Append(outbox, r)
  \/ "lose" \in Faults /\ UNCHANGED outbox

Receive(F) == inbox # <<>> /\ Head(inbox).fid \in F /\ inbox' = Tail(inbox)

(* A frame in the wrong format decodes to some other frame ID, or not.     *)
Understood(f) == f.ext = extended

Return(o, a) ==
  /\ pc' = "idle"
  /\ out' = o /\ ans' = a

------------------------------------------------------------------------------
(* The CLI negotiates first, gives up at the first error, and does nothing *)
(* else while it reads the results of a scan.                              *)
MayCall ==
  /\ pc = "idle"
  /\ "failed" \in {out, scanOut} => "carryOn" \in Does
  /\ reading => "meanwhile" \in Does

(* NegotiateVersion.  It does not look at scanning, nor at frame IDs.      *)

NegotiateVersion ==
  /\ version = 0 \/ "renegotiate" \in Does
  /\ MayCall
  /\ pc' = "neg1" /\ want' = "version"
  /\ id' = 0 /\ out' = "none" /\ ans' = 0
  /\ Write([fid |-> "version", tag |-> 0, ext |-> FALSE])
  /\ UNCHANGED <<ncalls, modeVars, scanning, scanVars, readVars, inbox,
                 ncpVars>>

(* The version a response claims; in some other frame it may be anything,  *)
(* but invalidCommand is shorter than a version response.                  *)
Claims(ext) ==
  IF Head(inbox).fid = "version" /\ Head(inbox).ext = ext
  THEN {Head(inbox).tag}
  ELSE IF Head(inbox).fid = "invalid" THEN {}
  ELSE NcpVersions

Phase1Legacy ==
  /\ pc = "neg1" /\ Receive(FrameId)
  /\ version' \in {v \in Claims(FALSE) : v < legacyVersionThreshold}
  /\ Return("ok", 0)
  /\ UNCHANGED <<want, id, ncalls, extended, scanning, scanVars, readVars,
                 outbox, ncpVars>>

(* The client goes on speaking legacy.                                     *)
BugPhase1Extended ==
  /\ pc = "neg1" /\ Receive(FrameId)
  /\ \E v \in Claims(FALSE) : v >= legacyVersionThreshold
  /\ pc' = "neg2"
  /\ Write([fid |-> "version", tag |-> 0, ext |-> TRUE])
  /\ UNCHANGED <<want, id, out, ans, ncalls, modeVars, scanning, scanVars,
                 readVars, ncpVars>>

Phase1Extended ==
  /\ pc = "neg1" /\ Receive(FrameId)
  /\ \E v \in Claims(FALSE) : v >= legacyVersionThreshold
  /\ extended' = TRUE
  /\ pc' = "neg2"
  /\ Write([fid |-> "version", tag |-> 0, ext |-> TRUE])
  /\ UNCHANGED <<want, id, out, ans, ncalls, version, scanning, scanVars,
                 readVars, ncpVars>>

Phase2 ==
  /\ pc = "neg2" /\ Receive(FrameId)
  /\ version' \in Claims(TRUE)
  /\ Return("ok", 0)
  /\ UNCHANGED <<want, id, ncalls, extended, scanning, scanVars, readVars,
                 outbox, ncpVars>>

------------------------------------------------------------------------------
(* Command.                                                                *)

Wants ==
  Commands \cup {f \in {"startScan"} : "scan" \in Does}

(* The check is forgotten.                                                 *)
BugCommand(f) ==
  /\ MayCall /\ version # 0 /\ ncalls < MaxCalls
  /\ pc' = "ready" /\ want' = f
  /\ ncalls' = ncalls + 1 /\ id' = ncalls + 1
  /\ out' = "none" /\ ans' = 0
  /\ scanOut' = "none"
  /\ UNCHANGED <<modeVars, scanning, scanVars, reading, got, outbox, inbox,
                 ncpVars>>

Command(f) ==
  /\ MayCall /\ version # 0 /\ ncalls < MaxCalls /\ ~scanning
  /\ pc' = "ready" /\ want' = f
  /\ ncalls' = ncalls + 1 /\ id' = ncalls + 1
  /\ out' = "none" /\ ans' = 0
  /\ scanOut' = "none"
  /\ UNCHANGED <<modeVars, scanning, scanVars, reading, got, outbox, inbox,
                 ncpVars>>

(* ErrScanInProgress.                                                      *)
Busy ==
  /\ MayCall /\ scanning
  /\ Return("busy", 0)
  /\ UNCHANGED <<want, id, ncalls, modeVars, scanning, scanVars, readVars,
                 outbox, inbox, ncpVars>>

SendRequest ==
  /\ pc = "ready"
  /\ pc' = "send"
  /\ Write([fid |-> want, tag |-> id, ext |-> extended])
  /\ UNCHANGED <<want, id, out, ans, ncalls, modeVars, scanning, scanVars,
                 readVars, inbox, ncpVars>>

(* The first frame is the response, whatever its frame ID.                 *)
BugResponse ==
  /\ pc \in {"send", "recv"} /\ Receive(FrameId)
  /\ want # "startScan"
  /\ Return(IF Head(inbox).ok THEN "ok" ELSE "refused", Head(inbox).tag)
  /\ UNCHANGED <<want, id, ncalls, modeVars, scanning, scanVars, readVars,
                 outbox, ncpVars>>

(* The frame ID matches.  A status but success is an error of the caller's *)
(* command, to startScan as to all that have one.                          *)
Response ==
  /\ pc \in {"send", "recv"}
  /\ Receive({want}) /\ Understood(Head(inbox))
  /\ want = "startScan" => ~Head(inbox).ok
  /\ Return(IF Head(inbox).ok THEN "ok" ELSE "refused", Head(inbox).tag)
  /\ UNCHANGED <<want, id, ncalls, modeVars, scanning, scanVars, readVars,
                 outbox, ncpVars>>

ScanResponse ==
  /\ pc \in {"send", "recv"} /\ want = "startScan"
  /\ Receive({"startScan"}) /\ Understood(Head(inbox)) /\ Head(inbox).ok
  /\ pc' = "started"
  /\ ans' = Head(inbox).tag
  /\ UNCHANGED <<want, id, out, ncalls, modeVars, scanning, scanVars, readVars,
                 outbox, ncpVars>>

SkipCallback ==
  /\ pc \in {"send", "recv"} /\ Receive(FrameId)
  /\ Head(inbox).fid # want \/ ~Understood(Head(inbox))
  /\ pc' = "recv"
  /\ UNCHANGED <<want, id, out, ans, ncalls, modeVars, scanning, scanVars,
                 readVars, outbox, ncpVars>>

(* What Send returned is no version response.                              *)
BadVersion ==
  /\ pc \in {"neg1", "neg2"} /\ Receive(FrameId)
  /\ Head(inbox).fid # "version" \/ Head(inbox).ext # (pc = "neg2")
  /\ Return("failed", 0)
  /\ UNCHANGED <<want, id, ncalls, modeVars, scanning, scanVars, readVars,
                 outbox, ncpVars>>

(* The timeout covers Send only.                                           *)
BugCallFails ==
  /\ pc \in {"send", "neg1", "neg2"}
  /\ Return("failed", 0)
  /\ UNCHANGED <<want, id, ncalls, modeVars, scanning, scanVars, readVars,
                 outbox, inbox, ncpVars>>

(* Send or Recv fails: the command timeout, the caller's context, or a     *)
(* connection lost, reset or closed.                                       *)
CallFails ==
  /\ pc \in {"send", "recv", "neg1", "neg2"}
  /\ Return("failed", 0)
  /\ UNCHANGED <<want, id, ncalls, modeVars, scanning, scanVars, readVars,
                 outbox, inbox, ncpVars>>
------------------------------------------------------------------------------
(* StartEnergyScan and StartActiveScan after startScan, the goroutine they *)
(* start, and the caller that ranges over its results.                     *)

StartScan ==
  /\ pc = "started"
  /\ Return("ok", ans)
  /\ scanning' = TRUE /\ goroutine' = "recv" /\ scanId' = id
  /\ results' = <<>> /\ errCh' = <<>> /\ closed' = FALSE
  /\ scanCtxDone' = FALSE
  /\ reading' = TRUE /\ got' = <<>> /\ scanOut' = "none"
  /\ UNCHANGED <<want, id, ncalls, modeVars, held, outbox, inbox, ncpVars>>

ScanCtxDone ==
  /\ "cancel" \in Faults /\ goroutine # "none" /\ ~scanCtxDone
  /\ scanCtxDone' = TRUE
  /\ UNCHANGED <<callerVars, modeVars, scanning, goroutine, held, results,
                 errCh, closed, scanId, readVars, outbox, inbox, ncpVars>>

ScanResult ==
  /\ goroutine = "recv" /\ Receive({"result"}) /\ Understood(Head(inbox))
  /\ goroutine' = "push" /\ held' = <<Head(inbox)>>
  /\ UNCHANGED <<callerVars, modeVars, scanning, results, errCh, closed,
                 scanCtxDone, scanId, readVars, outbox, ncpVars>>

(* A result that finds no room is dropped.                                 *)
BugPush ==
  /\ goroutine = "push"
  /\ results' = IF Len(results) < ResultsCap THEN results \o held ELSE results
  /\ goroutine' = "recv" /\ held' = <<>>
  /\ UNCHANGED <<callerVars, modeVars, scanning, errCh, closed, scanCtxDone,
                 scanId, readVars, outbox, inbox, ncpVars>>

(* results <- r waits for room, and for nothing else.                      *)
Push ==
  /\ goroutine = "push" /\ Len(results) < ResultsCap
  /\ results' = results \o held
  /\ goroutine' = "recv" /\ held' = <<>>
  /\ UNCHANGED <<callerVars, modeVars, scanning, errCh, closed, scanCtxDone,
                 scanId, readVars, outbox, inbox, ncpVars>>

(* The goroutine goes on after a scan that completed with a bad status.    *)
BugScanComplete ==
  /\ goroutine = "recv" /\ Receive({"complete"}) /\ Understood(Head(inbox))
  /\ goroutine' = IF Head(inbox).ok THEN "return" ELSE "recv"
  /\ errCh' = IF Head(inbox).ok THEN errCh ELSE Append(errCh, "status")
  /\ UNCHANGED <<callerVars, modeVars, scanning, held, results, closed,
                 scanCtxDone, scanId, readVars, outbox, ncpVars>>

ScanComplete ==
  /\ goroutine = "recv" /\ Receive({"complete"}) /\ Understood(Head(inbox))
  /\ goroutine' = "return"
  /\ errCh' = IF Head(inbox).ok THEN errCh ELSE Append(errCh, "status")
  /\ UNCHANGED <<callerVars, modeVars, scanning, held, results, closed,
                 scanCtxDone, scanId, readVars, outbox, ncpVars>>

(* Another callback, one that cannot be decoded, or a result too short.    *)
ScanSkip ==
  /\ goroutine = "recv" /\ Receive(FrameId)
  /\ Head(inbox).fid \notin {"result", "complete"} \/ ~Understood(Head(inbox))
  /\ UNCHANGED <<callerVars, modeVars, scanning, scanVars, readVars, outbox,
                 ncpVars>>

(* The goroutine tries Recv again.                                         *)
BugScanRecvFails ==
  /\ goroutine = "recv" /\ scanCtxDone
  /\ UNCHANGED vars

(* Recv returns an error: the context is done, or the connection is lost.  *)
ScanRecvFails ==
  /\ goroutine = "recv" /\ (scanCtxDone \/ "lose" \in Faults)
  /\ goroutine' = "return" /\ errCh' = Append(errCh, "recv")
  /\ UNCHANGED <<callerVars, modeVars, scanning, held, results, closed,
                 scanCtxDone, scanId, readVars, outbox, inbox, ncpVars>>

CloseChannels ==
  /\ goroutine = "return"
  /\ goroutine' = "unlock" /\ closed' = TRUE
  /\ UNCHANGED <<callerVars, modeVars, scanning, held, results, errCh,
                 scanCtxDone, scanId, readVars, outbox, inbox, ncpVars>>

ClearScanning ==
  /\ goroutine = "unlock"
  /\ goroutine' = "none" /\ scanning' = FALSE
  /\ UNCHANGED <<callerVars, modeVars, held, results, errCh, closed,
                 scanCtxDone, scanId, readVars, outbox, inbox, ncpVars>>

(* for r := range results.                                                 *)
ReadResult ==
  /\ reading /\ pc = "idle" /\ results # <<>>
  /\ got' = Append(got, Head(results)) /\ results' = Tail(results)
  /\ UNCHANGED <<callerVars, modeVars, scanning, goroutine, held, errCh, closed,
                 scanCtxDone, scanId, reading, scanOut, outbox, inbox, ncpVars>>

(* The loop ends, and errCh says how the scan did.                         *)
ReadEnd ==
  /\ reading /\ pc = "idle" /\ results = <<>> /\ closed
  /\ reading' = FALSE
  /\ scanOut' = IF errCh = <<>> THEN "ok" ELSE "failed"
  /\ UNCHANGED <<callerVars, modeVars, scanning, scanVars, got, outbox, inbox,
                 ncpVars>>

Abandon ==
  /\ "abandon" \in Does /\ reading /\ pc = "idle"
  /\ reading' = FALSE
  /\ UNCHANGED <<callerVars, modeVars, scanning, scanVars, got, scanOut, outbox,
                 inbox, ncpVars>>

------------------------------------------------------------------------------
(* The NCP.                                                                *)

Emit(f) == Len(inbox) < InboxCap /\ inbox' = Append(inbox, f)

Reply(fid, tag, n, ok, ext) ==
  Emit([fid |-> fid, tag |-> tag, n |-> n, ok |-> ok, ext |-> ext])

Takes(F) == outbox # <<>> /\ Head(outbox).fid \in F /\ outbox' = Tail(outbox)

(* It answers version in the format of the command, and keeps to it; or it *)
(* answers invalidCommand.                                                 *)
NcpVersionCommand ==
  /\ Takes({"version"})
  /\ \/ /\ ncpExt' = Head(outbox).ext
        /\ Reply("version", ncpVersion, 0, TRUE, Head(outbox).ext)
     \/ /\ "refuse" \in Faults /\ UNCHANGED ncpExt
        /\ Reply("invalid", 0, 0, FALSE, Head(outbox).ext)
  /\ UNCHANGED <<callerVars, modeVars, scanning, scanVars, readVars,
                 ncpVersion, ncpScan, reported, callbacks>>

NcpCommand ==
  /\ Takes(Commands)
  /\ \E ok \in BOOLEAN :
       Reply(Head(outbox).fid, Head(outbox).tag, 0, ok, ncpExt)
  /\ UNCHANGED <<callerVars, modeVars, scanning, scanVars, readVars, ncpVars>>

NcpStartScan ==
  /\ Takes({"startScan"})
  /\ \/ /\ ncpScan = 0
        /\ Reply("startScan", Head(outbox).tag, 0, TRUE, ncpExt)
        /\ ncpScan' = Head(outbox).tag
     \/ /\ Reply("startScan", Head(outbox).tag, 0, FALSE, ncpExt)
        /\ UNCHANGED ncpScan
  /\ UNCHANGED <<callerVars, modeVars, scanning, scanVars, readVars,
                 ncpVersion, ncpExt, reported, callbacks>>

NcpResult ==
  /\ ncpScan # 0 /\ reported[ncpScan] < MaxResults
  /\ reported' = [reported EXCEPT ![ncpScan] = @ + 1]
  /\ Reply("result", ncpScan, reported'[ncpScan], TRUE, ncpExt)
  /\ UNCHANGED <<callerVars, modeVars, scanning, scanVars, readVars, outbox,
                 ncpVersion, ncpExt, ncpScan, callbacks>>

NcpComplete ==
  /\ ncpScan # 0
  /\ \E ok \in BOOLEAN : Reply("complete", ncpScan, 0, ok, ncpExt)
  /\ ncpScan' = 0
  /\ UNCHANGED <<callerVars, modeVars, scanning, scanVars, readVars, outbox,
                 ncpVersion, ncpExt, reported, callbacks>>

(* stackStatusHandler, for one.  After a reset of the NCP there is none    *)
(* before the network is up, so not during the negotiation.  A result of a *)
(* scan that is too short is one too: everyone skips it.                   *)
NcpCallback ==
  /\ callbacks < MaxCallbacks /\ version # 0
  /\ Reply("status", 0, 0, TRUE, ncpExt)
  /\ callbacks' = callbacks + 1
  /\ UNCHANGED <<callerVars, modeVars, scanning, scanVars, readVars, outbox,
                 ncpVersion, ncpExt, ncpScan, reported>>

------------------------------------------------------------------------------
CallerStep ==
  \/ SendRequest \/ Response \/ ScanResponse \/ SkipCallback
  \/ CallFails \/ StartScan
  \/ Phase1Legacy \/ Phase1Extended \/ Phase2 \/ BadVersion

GoroutineStep ==
  \/ ScanResult \/ Push \/ ScanComplete \/ ScanSkip \/ ScanRecvFails
  \/ CloseChannels \/ ClearScanning

NcpStep ==
  \/ NcpVersionCommand \/ NcpCommand \/ NcpStartScan
  \/ NcpResult \/ NcpComplete \/ NcpCallback

Next ==
  \/ NegotiateVersion \/ (\E f \in Wants : Command(f)) \/ Busy \/ CallerStep
  \/ ScanCtxDone \/ GoroutineStep
  \/ ReadResult \/ ReadEnd \/ Abandon
  \/ NcpStep

Spec == Init /\ [][Next]_vars

(* Goroutines run; a call in Send or Recv ends at the latest when its      *)
(* timeout of 5 s fires; a select whose context is done takes that branch. *)
(* Nothing makes the NCP answer or a scan complete.                        *)
FairSpec ==
  /\ Spec
  /\ WF_vars(CallerStep) /\ WF_vars(CallFails)
  /\ WF_vars(GoroutineStep) /\ SF_vars(scanCtxDone /\ ScanRecvFails)
  /\ WF_vars(ReadResult) /\ WF_vars(ReadEnd)

------------------------------------------------------------------------------
(* Every variable has its type; the goroutine never finds errCh, which has *)
(* room for one error, full.                                               *)
TypeOK ==
  /\ pc \in Where /\ want \in Commands \cup {"version", "startScan"}
  /\ id \in 0 .. MaxCalls /\ ncalls \in 0 .. MaxCalls
  /\ out \in {"none", "ok", "refused", "busy", "failed"} /\ ans \in Nat
  /\ extended \in BOOLEAN /\ version \in Nat /\ scanning \in BOOLEAN
  /\ goroutine \in Goroutine
  /\ held \in Seq(Frame) /\ results \in Seq(Frame) /\ got \in Seq(Frame)
  /\ Len(results) <= ResultsCap
  /\ errCh \in Seq({"status", "recv"}) /\ Len(errCh) <= 1
  /\ closed \in BOOLEAN /\ scanCtxDone \in BOOLEAN /\ scanId \in 0 .. MaxCalls
  /\ reading \in BOOLEAN /\ scanOut \in {"none", "ok", "failed"}
  /\ outbox \in Seq(Request) /\ inbox \in Seq(Frame)
  /\ ncpVersion \in NcpVersions /\ ncpExt \in BOOLEAN
  /\ ncpScan \in 0 .. MaxCalls /\ reported \in [0 .. MaxCalls -> 0 .. MaxResults]
  /\ callbacks \in 0 .. MaxCallbacks

(* The scan goroutine and the caller are never both in the connection: one *)
(* would take the other's frames, and its numbers have no lock (the plan   *)
(* of the scan commands, line 558; ash.go:43).                             *)
OneInConn ==
  ~ (goroutine = "recv" /\ pc \in {"send", "recv", "neg1", "neg2"})

(* A scan delivers results of its own only, in order and without a gap,    *)
(* and, if it ends without an error, all the NCP reported, however slow    *)
(* its reader is and whatever callbacks come in between.  A result that is *)
(* too short is none: the code drops it, and the scan may still end        *)
(* without an error (ezsp.go:586, 637).                                    *)
CompleteScan ==
  /\ \A i \in DOMAIN got : got[i].tag = scanId /\ got[i].n = i
  /\ scanOut = "ok" => Len(got) = reported[scanId]

(* Command returns the response to its own request.                        *)
AnswersOwn ==
  out \in {"ok", "refused"} => ans = id

(* Client and NCP speak the same format once the version is negotiated.    *)
FormatsAgree ==
  version # 0 =>
    extended = ncpExt /\ extended = (version >= legacyVersionThreshold)

(* When the caller has seen the end of its scan, commands are accepted     *)
(* again (TestScanExclusivity, ezsp_test.go:1312).                         *)
FreeAfterScan == scanOut # "none" /\ ~reading => ~scanning

(* A call of Command or NegotiateVersion comes to an end.                  *)
CallsReturn == pc # "idle" ~> pc = "idle"

(* Once its context is done the scan of a reader that goes on reading      *)
(* ends, and commands are accepted again.                                  *)
CancelEndsScan == scanCtxDone /\ scanning ~> ~scanning \/ ~reading

(* Cancelling the context terminates the goroutine of a scan (the plan of  *)
(* the scan commands, line 559).                                           *)
CancelTerminates == scanCtxDone /\ goroutine # "none" ~> goroutine = "none"
==============================================================================
