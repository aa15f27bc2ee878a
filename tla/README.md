# zigboo in TLA+

Specifications, model-checking instances and proofs for
[zigboo](../src/README.md), a command line tool that talks to a Zigbee network
co-processor (NCP) over a serial port. They follow the code in `src/`, file and
line given in `PROJECT.json` (`map`), and are meant to be kept beside it.

- [The system](#the-system)
- [The modules](#the-modules)
- [What the runs check](#what-the-runs-check)
- [What is proved](#what-is-proved)
- [What disagrees with its documentation](#what-disagrees-with-its-documentation)
- [What is not modelled](#what-is-not-modelled)
- [Plan](#plan)

## The system

```
 cmd/zigboo          one goroutine: open, reset, negotiate, then commands
    |  Command, NegotiateVersion, Start*Scan         ^ results, errCh (channels)
 ezsp.Client         the caller's goroutine          + one goroutine per scan
    |  Send, Recv, Reset, Close
 ash.Conn            the caller's goroutine          + the reader goroutine
    |  Write, Flush                                  ^ frames (channel, 8)
 serial.Port         Read returns within 100 ms, possibly with nothing
    |
   NCP               firmware, not in the repository
```

| Component | State | Operations | Hard behaviour | Correct when |
|---|---|---|---|---|
| `ash.Conn` (`ash/ash.go`) | `frmNum`, `ackNum`, the `frames` channel, the reader's buffer, the locals of a call in progress | `New`, `Reset`, `Send`/`waitForResponse`, `Recv`, `Close`, the reader's loop | two goroutines and a bounded channel; selects over context, channel and timer; retransmission; shutdown while either side blocks | calls end, `Close` ends, numbers move only with an answer |
| the ASH link | the above, what is on the line, the NCP's numbers and queues | the above and the NCP's receiver and transmitter | loss, damage, duplicates, resets, a request given up half way | a request runs at most once and in order; an answer is that of its own request |
| framing (`ash/frame.go`, `reader` in `ash/ash.go`) | the reader's frame buffer | encode, decode, stuff, randomize; the byte loop | damaged or oversized input, lost delimiters | what is decoded was sent; damage costs a frame or two, no more |
| `serial` | a file descriptor | `Open`, `Read`, `Write`, `Flush`, `Close` | `VMIN=0, VTIME=1`: a read that returns nothing | configuration only |
| `ezsp.Client` (`ezsp/ezsp.go`) | `seq`, `extended`, `version`, `scanning`; the results and error channels of a scan | `NegotiateVersion`, `Command`, `startScan`, `Start*Scan`, `runEnergyScan`, `runActiveScan` | callbacks between responses; a goroutine that owns the connection during a scan; a results channel that fills up; cancellation | a response goes to its own command, a scan delivers all its results, commands come back after it |
| EZSP commands (`ezsp/frame.go`, `ezsp/ezsp.go`, `ezsp/types.go`) | none | two frame formats; fourteen wrappers of `Command` that encode parameters and parse a response | byte offsets that depend on the version, short responses, frame IDs that the legacy format cuts | what is read is what the NCP said |
| CLI (`cmd/zigboo/main.go`) | none but its connection | one sequence of calls per command | what it does after an error; the next process after one that was interrupted | a stored network survives, a new one is what was asked for and has its key, what is printed is so |

Interaction is by calls downwards, by channels upwards (`frames`, `results`,
`errCh`), and by two shared fields: `scanning`, under a mutex, and the frame
numbers, under the rule that only one goroutine is in the connection
(`ash.go:43`).

## The modules

| Module | Models | Used by |
|---|---|---|
| `AshConn` | `ash.Conn`: the caller, the reader, `Close` and `New`, against a far side that may take and send anything | `MCAshConn`, `AshLink`, `AshConnProofs` |
| `AshService` | what `Send` promises: at most once, in order, the right answer | `AshLink` (refinement) |
| `AshLink` | `AshConn`, an application like the CLI's commands, an external NCP and a bad line | `MCAshLink`, `AshLinkProofs` |
| `EzspClient` | `ezsp.Client` and its scan goroutine over a connection seen from above, with an external NCP | `MCEzspClient`, `EzspClientProofs` |
| `EzspCommands` | both frame formats, parameters and responses of the commands, as operators on bytes | `Cli`, `EzspCommandsProofs` |
| `Cli` | the commands of the CLI, one process after the other, against an NCP with a network in its memory | `MCCli`, `CliProofs`, `CliTruthProofs`, `CliCleanProofs` |
| `AshFrame` | reserved bytes, stuffing, control bytes, as operators | `AshReader` |
| `AshReader` | the byte loop of the reader goroutine | `AshWire` |
| `AshWire` | CRC, randomization, frames as they are written, the line byte by byte, the reader and `decodeFrame` | `MCWire` |
| `AshConnProofs`, `AshLinkProofs`, `EzspClientProofs`, `EzspCommandsProofs`, `CliProofs`, `CliTruthProofs`, `CliCleanProofs` | theorems | |
| `Queues` | lemmas on `Append`, `Head` and `Tail` of a sequence used as a queue | `EzspClientProofs`, `CliProofs` |
| `MCAshConn`, `MCAshLink`, `MCEzspClient`, `MCCli`, `MCWire` | definitions for the `.cfg` files | |

They look at one system from three heights. `AshWire` shows what `AshConn`
takes for granted, that a frame arrives as it was sent or not at all;
`AshConn` and `AshLink` show what `EzspClient` and `Cli` take for granted, that
requests reach the NCP in order and at most once; `EzspClient` has callbacks and
the scan goroutine, `Cli` the bytes and what the commands decide.

### AshConn

`op` is where the caller's goroutine stands; a step takes it from one point at
which it can block or be overtaken (a select, a write, the top of a loop) to
the next, so every branch of every select is an action or a disjunct of one.

| State | Code |
|---|---|
| `op` = `drain`, `rst`, `rstack` | the drain loop, the top of the attempt loop and the select of `Reset` |
| `op` = `tx`, `wait` | the write in `Send`, the select of `waitForResponse` |
| `op` = `recv` | the select of `Recv` |
| `tries`, `acked`, `sending` | `attempt` or `failures`, `acked`, `data` |
| `reader` = `read`, `push`, `exited`; `buf` | in `port.Read`; in the select around `c.frames <- raw`, with the frames of that read not pushed yet; returned, which closes `frames` |
| `closing` | `Close`: not called, in `wg.Wait()`, returned |
| `toHost`, `toNcp` | the two directions of the serial line |

A frame is a record of type, numbers, the reTx bit and a payload; one that
`decodeFrame` refuses is of type `BAD`, an RSTACK without its two bytes is
`SHORT`. Timers have no durations: a timer that is running may fire. `Faults`
says what goes wrong on the host's side: `cancel` (a context is done), `write`,
`read`, `flush` (that call fails).

A context that is cancelled before the call is one whose `CtxDone` comes first;
`CtxReturn` and the frame that is ready compete, as in Go's select.

### AshLink

`AppNew` to `AppRecv` are the commands of the CLI: each opens a connection,
resets it, makes requests numbered 1, 2, ... one at a time, and closes it. With
`CarriesOn` the application goes on after a failed call, as `config list` and
any user of the package may; without it the process ends at the first error and
the next one starts on a freshly opened port whose unread input is gone
(`AppNew`).

The NCP is external. Its receiver expects `ncpRx`, acknowledges what it
accepts, acknowledges a repetition (reTx) of something else, refuses anything
else with a NAK, and forgets everything on RST; its transmitter keeps up to
`NcpWindow` unacknowledged frames and retransmits the oldest. `LinkFaults`:
`lose` (any frame but the host's ACKs is lost or damaged), `loseAck` (those
too), `early` (the NCP retransmits although its frame or the ACK of it is on
its way), `callback` (DATA nobody asked for), `ncpReset` (the NCP restarts by
itself), `mute` (and the RSTACK by which it tells may be lost). There is no
flow control (`serial/unix.go:104`), so a reply that does not fit in the
receiving buffer is lost (`Reply`).

The host's part of a step is an action of `AshConn` as it is, and the NCP's
part is one of `AshConn`'s `Env`: theorem `LinkIsConn`.

### EzspClient

`pc` is where the caller stands, `goroutine` where the scan goroutine does.
Below is a connection that delivers DATA frames in the order the NCP sent them,
with `Send` and `Recv` both returning the next one: `AshLink` says when that is
so. Conversions are modelled by what they do as far as the properties tell:
`Understood` (a frame in the other format decodes to some other frame ID, so it
is skipped), `Claims` (`parseVersionResponse` never looks at the frame ID, so
another frame in the place of the version response yields any version or an
error). The EZSP sequence number is left out because the client discards the
one of every frame it decodes. A response carries the number of the request it
answers, a result the number of its scan and its place in it. A result that is
too short (`ezsp.go:586`, `637`) is dropped by the code, and the scan may still end
without an error. In the model it is a `NcpCallback`, which everyone skips, and not
one of the results `reported`: `CompleteScan` is about those that are long enough.

`Does` says what the application does besides calling in turn: `scan`,
`meanwhile` (calls while its scan runs), `carryOn` (after an error), `abandon`
(stops reading results), `renegotiate`. The CLI does `scan`, and `carryOn` in
`config list`. `Faults`: `lose` (a request does not reach the NCP, or the
connection fails under the goroutine), `refuse` (the NCP answers `version` with
invalidCommand), `cancel` (the scan's context is done).

### AshFrame, AshReader, AshWire

| State | Code |
|---|---|
| `frameBuf`, `frames` | `frameBuf[:frameLen]` and the channel of the reader |
| `line` | the bytes between a write and the reader, each with the message and the part of it (CANCEL bytes, frame, flag) it belongs to |
| `sent`, `got` | ghosts: what was written, and what `decodeFrame` accepted |
| `damage`, `hit` | how many bytes were damaged, and in which parts |

A step is one byte: read as it is (`Read`), with a bit flipped or another byte
in its place (`Change`), gone (`Lose`), or one more (`Insert`); the four
branches of `ReadByte` are those of the `switch` in `reader`. CRC, LFSR and
stuffing are computed, on the values of `frame_test.go` too (`TestVectors`).
The sender encodes like the host; what only the NCP sends (NAK, RSTACK) is
encoded likewise. `AshReader` and `AshFrame` do without bitwise operators, so
that they can be proved about.

### EzspCommands, Cli

A command of the CLI is a sequence of places (`pc`), one for each call of the
client, named after it; at each, `Ask` writes the request, encoded to bytes, and
the action of the place takes an answer, parses it and decides where to go on.

| State | Code |
|---|---|
| `cmd`, `flags`, `arg` | the command, the flags of `network init`, the argument or flag of the others |
| `pc`, `waiting` | the call `run...` is at; it is in `Command` |
| `item` | the loop variables of `endpoints` and `config list` |
| `exit`, `said`, `shown` | the result of `run...`, what it prints: a claim, and the values |
| `extended` | `Client.extended` |
| `outbox`, `inbox` | EZSP frames on their way |
| `up`, `stored`, `sec`, `joining`, `config`, `ncpExt` | the NCP: network active, network in non-volatile memory, key material set, join window, configuration, format. `stored` has two fields more, the session in which its key was made and that in which it was formed |
| `linked` | the NCP has not restarted under the client |
| `clean`, `before` | ghosts: nothing went wrong since this command's reset; what was stored then |

`Answers` is what `Command` may return: the first frame with its frame ID (late
ones of the call before included), or an error, which can come at any time
(`"fail"`), before or after the NCP has carried out the request. The other
`Faults`: `lose` (the request does not arrive), `refuse` (an error status),
`short` (a response of fewer bytes than any version has), `restart` (the NCP
loses its state and, its RSTACK seen, all that follows fails), `kill` (the
process dies at any point).

The NCP is external and does what the code counts on: after a reset it has no
active network until networkInit resumes the stored one (`main.go:243`), or it
resumes by itself (`ncp.resumes`), which is what the guard at `main.go:291` is
for; formNetwork replaces what is stored and takes the key that was set last.

## What the runs check

Constants not named keep the role of the code's value and are smaller: the
channel of 8 frames is 1, the 5 transmissions are 1 to 3, the 3 RSTs are 1 or 2,
numbers modulo 8 are modulo 2 to 4, the results channel of 16 is 1. Small
capacities and moduli make the queues fill, the retries run out and the numbers
wrap within a few steps; what holds for other values is said by the theorems.

| Run | Checks | Instance |
|---|---|---|
| `conn_open` | `TypeOK`, `NumbersFollowAnswers`, `WaitsReturn`, `CloseReturns`, `GivesUp` | every call, every fault, every kind of frame from the far side at any time |
| `link_exec` | `LinkTypeOK`, `InOrderOnce`, `InOrderInv` | 3 requests modulo 2 (so that numbers wrap and a stale copy can look fresh), loss and damage both ways, early retransmissions, an application that carries on after failures |
| `link_service` | `AcceptsExpected`, `ImplementsService` | 4 requests modulo 3, window 2, 3 transmissions, loss and damage both ways |
| `link_live` | `SendReturns` | 1 request per run of the application, loss and damage, callbacks, restarts of the NCP |
| `ezsp_scan` | `TypeOK`, `OneInConn`, `CompleteScan`, `AnswersOwn`, `FormatsAgree`, `CallsReturn`, `CancelEndsScan` | 3 calls (two scans and a command), 3 results each with room for 1, one callback, NCPs of version 8 and 13, scans cancelled and abandoned |
| `cli_store` | `TypeOK`, `FormedSecured`, `FormedAsAsked`, `SaysTruth`, `CleanSucceeds`, `ListsAll`, `KeepsNetwork`, `CommandEnds` | 3 processes of any command (enough to form a network, break it off and come back), every fault, NCPs of version 8, 13 (which resumes by itself) and 14 (with the longer response), flags in and out of range, two endpoints of which one has no input clusters, three configuration IDs of which the NCP lacks one |
| `wire` | `WireTypeOK`, `NothingForged`, `SafeArrive` | 3 frames and one damaged byte anywhere; a buffer of 12 bytes, which a fourth message exceeds; frames full of reserved bytes; each of the 128 DATA control bytes |

The remaining runs (`conn_spin`, `link_stale`, `link_dup`, `ezsp_busy`,
`ezsp_leak`) each end in a counterexample: see
[below](#what-disagrees-with-its-documentation).

Every property has a mutant: a definition `Bug...` that stands before the one it
imitates and carries one plausible mistake (a dropped `& 0x07`, a retransmission
with a new number, a check that is forgotten). With it in place of the original
the property fails under the same configuration.

The envelope of `link_service` is what the code needs to keep its promise
(`Envelope` in `AshLinkProofs`): the application stops at the first error, the
host's ACKs are written and arrive, the NCP sends nothing that nobody asked
for, does not restart by itself, and does not retransmit early, which is a lost
ACK by another name. Whether the flush of `Reset` succeeds, reads fail or the
application calls `Recv` makes no difference, as the proof shows. Two of these
bounds have a run that breaks the promise beyond them (`link_stale`,
`link_dup`). The others can be tried by widening a configuration:

| Change | Then |
|---|---|
| `"callback"` and `PendCap = 1` in `link_service` | `ImplementsService` fails: the callback ends the `Send`, whose request may be lost and is not retransmitted (`ash.go:238`) |
| `"ncpReset"` in `link_exec` | `InOrderOnce` fails: the NCP has forgotten the number of a request that it carried out |
| `"mute"` in `link_live` | `SendReturns` fails: a request that was acknowledged before the NCP restarted waits for its context (`ash.go:248`) |
| `"renegotiate"` in `ezsp_scan` | `OneInConn` fails: `NegotiateVersion` does not look at `scanning` (`ezsp.go:79`); so does `FormatsAgree`, since a callback is taken for the version response |
| `"carryOn"` in `ezsp_scan` | `AnswersOwn` fails: responses are told apart by frame ID only (`ezsp.go:176`); so does `FormatsAgree`, after a negotiation that failed half way (`ezsp.go:109`) |
| `KeepsNetwork` without `clean` | fails: the answer of networkInit is late or lost, `network init` takes that for "no stored network" (`main.go:303`), and forms a new one over it. The plan of the lifecycle commands, line 234, has "Let error propagate; user re-runs `network init` which resumes" for this case |
| `NcpShort` with responses of 22 bytes or more | `SaysTruth` fails: a response of version 14 that lacks 1 to 3 bytes passes for an old one, and the transmit power is read from elsewhere (`ezsp.go:264`) |
| `ListsAll` without `clean` | fails: `config list` goes on after a call that failed, and its late answer is listed under the next ID (`main.go:565`) |
| `MaxDamage = 2` in `wire` | `NothingForged` fails: damage that makes an escape byte shortens the frame, and its 16-bit CRC can match by chance. One damaged byte always shows |

The deadlock check is off (`CHECK_DEADLOCK FALSE`) where the system may really
stop: in the EZSP runs, where an NCP that has nothing to send and an
application that has made all its calls leave nothing to do, in `cli_store`
after the last process, and in `wire` after the last frame.

### Fairness

Assumed of the code (`FairSpec`, `LinkFairSpec`): goroutines run; `Read` returns
within 100 ms (`unix.go:119`); a write ends, since the line has no flow control;
a running timer fires; a select with a ready branch takes one, at random, so a
branch that is ready again and again is taken (a done context). The default
branch of the drain loop has strong fairness: a 115200 baud line does not refill
the channel faster than a loop empties it. In `EzspClient`, a call is ended by
the context with the 5 s timeout that `Command` and `sendRaw` make
(`ezsp.go:154`, `677`): weak fairness of `CallFails`. Nothing is assumed of the
caller, except that one which reads results goes on reading until it stops for
good. In `Cli` the process runs, and a call returns at the latest with its
timeout (`WF` of `Step`).

Assumed of the NCP, in `AshLink` only: it processes what arrives, and of the
copies of a frame that it keeps sending one arrives (strong fairness of the send
that is delivered). In `AshConn`, `EzspClient` and `Cli` the NCP owes
nothing.

`WF` of `DrainClosed`, the spinning step, is not needed: it changes nothing, so
that a `Reset` in this state never returns is stuttering, and TLC finds it in
`conn_spin`.

## What is proved

With TLAPS, for all values of the constants that satisfy the named assumptions
of the modules (`ConstantsAssumption`, `LinkAssumption`, `ClientAssumption`,
`CliAssumption`, `NcpAssumption`), and so whatever goes wrong that a model knows
of:

### Connection and link

| Theorem | Statement |
|---|---|
| `ConnTypeCorrect` | `Spec => []TypeOK` |
| `NumbersTheorem` | `Spec => NumbersFollowAnswers` |
| `LinkTypeCorrect` | `LinkSpec => []LinkTypeOK` |
| `LinkIsConn` | `LinkSpec => Spec`: the link implements the open connection, with the identity as the mapping |
| `LinkNumbersTheorem` | `LinkSpec => NumbersFollowAnswers`, from the last one |
| `InOrderTheorem` | `LinkSpec => []InOrderInv`, if `"ncpReset"` is not in `LinkFaults` |
| `InOrderOnceTheorem` | `LinkSpec => []InOrderOnce`, under the same assumption |
| `AcceptsExpectedTheorem` | `LinkSpec => AcceptsExpected`, if `Envelope` |
| `CorrelatedTheorem` | `LinkSpec => []Correlated`, if `Envelope` |
| `ImplementsServiceTheorem` | `LinkSpec => ImplementsService`, if `Envelope` |

`TypeOK` is inductive: `frmNum` and `ackNum` stay below `SeqMod`, and the
channel does not exceed its capacity because `ReaderPush` waits. For
`NumbersTheorem` one more fact is needed, `NoResultYet`: while a call is in
progress `result` is `NoResult`, so a step that changes `result` is the one in
which the call returns. What it says of `ackNum`, that it follows the frame that
was handed over even if its ACK could not be written, is what lets the next frame
out acknowledge it; of the numbers after an unsolicited RSTACK it says nothing
([below](#what-disagrees-with-its-documentation)).

`InOrderOnce` says nothing of what is still on the wire, so it is not inductive.
`InOrderInv` adds what makes it so:

- requests are on the wire in the order they were made, and the copies of one
  carry one number and have no RST among them (`Ordered`);
- whatever is still to come is newer than the last request carried out, or a
  copy of it, and a copy carries the number before the one the NCP expects, so
  that it is told apart (`FreshOrCopy`);
- the Send in progress can put further copies behind those (`Retransmittable`).

A restart of the NCP is excluded because it breaks this: `ncpRx` becomes zero
under a copy that has the number zero, and the request runs twice.

The proof that a step preserves it goes by the kinds of step that touch the wire
(`HostWireStep`, `AskWireStep`, `TakeWireStep`, `ResetWireStep`,
`AcceptWireStep`), over lemmas on `Append` and `Tail`. `LinkTypeCorrect` needs
one invariant of its own, `OnlyRequests`: what the NCP carries out is a request
because the host writes DATA frames with requests only.

`waitForResponse` looks at neither the number nor the content of a DATA frame,
so that an answer is the right one because no other can be on its way.
`ServiceInv` says so of the frames on their way to the caller (in the channel,
in the reader's hands, on the line, in this order: `Incoming`):

- until `Reset` has ended (`OpenInv`) only RSTs are on their way to the NCP, no
  DATA is behind an RSTACK, and from the first RSTACK on the NCP has nothing to
  send. So the first RSTACK that the caller takes leaves a clean line, although
  more of them may follow, and although what the port or the channel held
  before may be left (a flush that fails, a drain that is overtaken by the
  reader);
- from then on, as long as no call has failed (`TalkInv`), an exchange is at
  one of four stages. The NCP is `Silent`; the answer to the call in progress
  is `Queued`; it is `Replied`, with at most one copy on its way; the caller
  has it, and the host's ACK is ahead of the next request (`Acknowledging`), so
  that the NCP forgets the answer before it has another one to give.

The stages are tied to the numbers on both sides (`ncpTx`, `ackNum`) and, by
`InOrderInv`, to what the NCP has carried out: copies of an answered request
that are still on the line are no longer expected. A loss of ACKs, an early
copy or a callback each break a stage, and a call after an error starts in none
of them. In the refinement `NcpAccept` is `Run`, `WaitData` is `Answer`, any
other end of a `Send` is `Fail`, `AppSend` is `Ask`, and a call of `Reset` or
`Recv` and a new connection are `Forget`.

### Client

| Theorem (`EzspClientProofs`) | Statement | If |
|---|---|---|
| `ClientTypeCorrect` | `Spec => []TypeOK` | |
| `OneInConnTheorem` | `Spec => []OneInConn` | `NegotiatesOnce` |
| `AnswersOwnTheorem` | `Spec => []AnswersOwn` | `StopsAtErrors` |
| `FormatsAgreeTheorem` | `Spec => []FormatsAgree` | both |
| `CompleteScanTheorem` | `Spec => []CompleteScan` | both |

`NegotiatesOnce` is `"renegotiate" \notin Does`, `StopsAtErrors` is `"carryOn"
\notin Does`. The CLI negotiates once per process (`main.go:74`) and ends it at
the first error; `config list` and `endpoints`, which go on, make no scan. Both
are needed: see the table of [what fails](#what-the-runs-check) with
`"renegotiate"` or `"carryOn"`. What else `Does` holds, all `Faults`, the
numbers of calls, results and callbacks and the capacity of the channels are
arbitrary.

The invariants build on one another:

- `ConnInv`: `scanning` is set as long as there is a goroutine, and a caller
  beyond `Command`'s check finds it cleared. `OneInConn` alone is not
  inductive: it does not say why the caller could not have got there.
- `OwnInv`: between calls, as long as none has failed, no request and no
  response is under way; in a call at most its own request or its own response.
- `FormatInv`: what each phase of the negotiation may find on the line; once it
  has succeeded both formats follow from the version, and every frame under way
  is in that format.
- `ScanInv`: the stream of a scan is cut in four (handed on, in the channel,
  held by the goroutine, in the inbox), each in order and continuing the one
  before; the completion is behind the last result, and the NCP is done with
  the scan when it is on its way. `CompleteScan` only speaks of the first of
  these.

### Commands and CLI

| Theorem | Statement |
|---|---|
| `FrameRoundTrip` (`EzspCommandsProofs`) | `decode` yields what `encode` was given, in both formats, but for the high byte of a frame ID in the legacy one |
| `FormRoundTrip` | PAN ID, transmit power and channel are in the bytes of a formNetwork as they were given, for every value of their width |
| `ParametersRoundTrip` | the network parameters that were put in a response are read from it, whatever a version adds before the last of them |
| `CliTypeCorrect` (`CliProofs`) | `Spec => []TypeOK` |
| `FormedSecuredTheorem` | `Spec => []FormedSecured` |
| `FormedAsAskedTheorem` | `Spec => []FormedAsAsked` |
| `KeepsNetworkTheorem` | `Spec => KeepsNetwork` |
| `SaysTruthTheorem` (`CliTruthProofs`) | `Spec => []SaysTruth` |
| `CleanSucceedsTheorem` (`CliCleanProofs`) | `Spec => []CleanSucceeds`, if `FewEndpoints` |
| `ListsAllTheorem` | `Spec => []ListsAll`, if `DistinctEndpoints` |

`FewEndpoints` is `Len(Endpoints) <= 240`: there are no more endpoint numbers,
and the code refuses a count that is higher (`ezsp.go:422`), whatever else went
well. `DistinctEndpoints` says that no two of the NCP's endpoints have one
number, which is all by which the code asks for a description or a cluster
(`ezsp.go:451`, `477`). The instance of `cli_store` satisfies both.

These hold for any flags, arguments, configuration and endpoints, any number of
commands up to 255 (`MaxSessions`: `Key` has the number of the session in its
bytes), NCPs of any version, and all `Faults`.

- `TypeInv`: the NCP answers what it finds in the bytes of a request, so that
  its state has a type only if the requests do. `LineInv` says that every frame
  on its way to the NCP is one that this command makes (`Sent`), in the NCP's
  format, and what it says; it rests on the two round trips.
- `SecInv`: a formNetwork is on its way only if the NCP has the security of
  this session, and so is a positive answer to setInitialSecurityState. The
  second part carries the first: an answer that is late, or that of a request
  the NCP has forgotten in a restart, would let `network init` go on to form a
  network without its key. A restart resets the connection and empties the
  line, and that is what saves it (`linked`).
- `AskedInv`: no stored network is younger than the session, so a new session
  does not find one that claims to be its own.
- `KeepInv`: as long as nothing went wrong one frame is on its way at a time,
  the request of the place at which the command is or its answer
  (`OneAtATime`), and where a network is set up the NCP has said, and it is
  still so, that none is up and none is stored (`NothingStored`).
- `TruthInv`: what is said is about an NCP that goes on changing, so an answer
  that was true when it was given must still be so when the command believes
  it, and after. `AsksTrue` says what the requests on the line ask for,
  `SaysTrue` what the answers on it say, of the NCP as it is now. What could
  undo an answer is a late request of the same command that the NCP takes only
  now; of these only formNetwork changes what is stored, and `FormsOnce` says
  that it or its answer is on the line, never both, until the command has its
  answer or has ended. So once `network init` speaks of a network (`Settled`)
  none is formed any more. `SaidInv` and `ClaimInv` say what a command has
  claimed and printed at each place, and that it is so; `TriedInv`, with
  `KeepInv`, is what "no network" needs: that a network that is stored has been
  brought up by then, if nothing went wrong. As in the runs, a response that is
  cut short is shorter than it is in any version (`NcpShort`).
- `CleanInv`: if nothing went wrong, the request on the line is the one that
  the place of the command makes (`AskedHere`), and the answer on the line is
  whole and positive wherever the command relies on it (`Told`); a query is
  answered with what the NCP is when the answer is taken (`AnsweredTruly`), so
  that the parser, of which `EzspCommandsProofs` says what it reads, accepts
  it. `Ready` is what a command counts on at a place: that the network is up
  before the join window is opened, or that it is not, or resumed by itself,
  before it is restored. `CleanSucceeds` only speaks of ended commands; what
  remains for an error is then one of the cases that it excuses.
- `ListsInv`: `config list` has listed the first `item.i` IDs, each with its
  value (`ListKept`), and nothing that it lists changes meanwhile. What
  `endpoints` has listed is all of the endpoints before the one it is at
  (`Between`), followed by the clusters of that one that it has read
  (`Within`), and the counters of both loops (`main.go:486` to `538`) are what
  says how many these are. The first rests on nothing but the loop, so an entry
  of `config list` is under its own ID whatever went wrong; the values, and
  `endpoints`, need `CleanInv`.

### Only model-checked

- Liveness (`WaitsReturn`, `CloseReturns`, `GivesUp`, `SendReturns`,
  `CallsReturn`, `CancelEndsScan`, `CommandEnds`), which is out of the prover's
  reach.
- `WireTypeOK`, `NothingForged` and `SafeArrive`: `AshWire` computes CRC and
  randomization with bitwise and recursive operators, which the prover does not
  read. That a CRC detects one damaged byte is in any case a computation.

## What disagrees with its documentation

| Run | Code | Says |
|---|---|---|
| `conn_spin` | `ash.go:82`: `Reset` spins on the closed channel of a reader that has gone | `ash_test.go:178` expects an error from a `Reset` with a done context |
| `link_stale` | `ash.go:224`: the response to the request before is returned | `ash.go:156`, "the corresponding response DATA frame" |
| `link_dup` | `ash.go:225`: a retransmission of the NCP is delivered again | `ash.go:45`, "next expected incoming frame number" |
| `ezsp_busy` | `ezsp.go:563`: channels are closed before `scanning` is cleared | `ezsp_test.go:1307`; plan of the scan commands, line 354, gives the other order |
| `ezsp_leak` | `ezsp.go:590`: `results <- r` does not watch the context | plan of the scan commands, line 559, "terminates goroutine" |
| none | `ash.go:240`, `307`: an unsolicited RSTACK ends the call and leaves `frmNum` and `ackNum`, although the NCP begins at zero | plan 2026-03-01, line 258 (ticked), "clear state, return connection-reset error" |

The last one can be read off `ConnReset`, which `conn_open` and `link_live` take.
`SendReturns` says that the call ends; `NumbersFollowAnswers` leaves open what the
numbers are then, and only the next `Reset` makes both zero.

`EzspClient` shows two more, as the table above says: the plan 2026-03-01, line
327, has "correlation by sequence number", and the plan of the scan commands,
line 558, has "Scan exclusivity flag prevents concurrent access". A late RSTACK
to the first of two RSTs makes the next `Send` fail with `ErrConnectionReset`,
which `frame.go:46` calls unsolicited; `AshService` allows a call to fail.

Smaller things that the byte-level and CLI models had to follow:

- After an overflow the rest of the frame is collected as if a frame began
  there (`ash.go:389`); the plan 2026-03-01, line 208, resynchronizes on the
  next flag. `NothingForged` says that the CRC refuses that rest.
- XON and XOFF that arrive unescaped are collected as data (`ash.go:384`).
- `network state` prints "no network" of an NCP that has one if its networkInit
  failed, since that error is dropped (`main.go:245`).
- On an NCP that resumes its network by itself networkInit is refused, and
  `permit-join` fails (`main.go:397`).
- `endpoints` cannot work below EZSP 9, where its frame IDs do not fit
  (`ezsp/frame.go:20`), and `config list` prints "unsupported" for any error.
- The flags of `network init` are not checked: channel 267 is channel 11, and a
  channel of 32 or more has an empty channel mask (`main.go:325`,
  `ezsp.go:313`).
- What `config set` sets is gone with the reset of the next command.

## What is not modelled

- `termios` configuration and the opening of the device: operating system calls.
- Formatting: names of statuses, node types and configuration IDs, the look-up
  of an ID by its name (an argument is an ID or is not), messages and layout,
  and the `flag` package. Configuration IDs are three, not forty-one.
- The bytes of scan requests, results and of the version command: `EzspClient`
  has their control flow.
- Read chunks: `AshWire` reads byte by byte, and what happens to the rest of a
  chunk at a shutdown is in `AshConn`.
- Several goroutines calling one client: `Conn` forbids it (`ash.go:43`) and the
  CLI has one.
- Durations. That 5 s is less than 5 times 1.6 s shows as a `CallFails` that may
  come at any moment.

## Plan

1. Done: all modules and runs; the proofs of `AshConn`, of `AshLink` and its
   refinement of `AshService`, of `EzspClient`, and of `Cli` that its variables
   have their types, what becomes of a network, that what it says is so, that a
   command in which nothing goes wrong succeeds, and that a listing is complete.
2. `AshReader`: that the buffer never outgrows its array, for every size and
   every input.
3. `EzspClient` over the link itself, instead of over a connection seen from
   above, with small bounds.
