------------------------------- MODULE AshReader -------------------------------
(***************************************************************************)
(* The byte loop of the reader goroutine (reader, src/ash/ash.go): it      *)
(* splits what the line delivers into raw frames.  AshConn has the same    *)
(* goroutine with whole frames for bytes, and how it starts and ends.      *)
(***************************************************************************)
EXTENDS AshFrame

CONSTANTS maxFrameSize, FrameChanCap

ASSUME ReaderAssumption == maxFrameSize \in Nat /\ FrameChanCap \in Nat

VARIABLES
  frameBuf,   \* frameBuf[:frameLen]
  frames      \* the channel

readerVars == <<frameBuf, frames>>

ReaderInit == frameBuf = <<>> /\ frames = <<>>

(* A flag: what was collected is unstuffed and, but for a short rest,      *)
(* pushed; the loop waits for room.  A frame of no bytes is none.          *)
EndOfFrame(b) ==
  /\ b = byteFlag
  /\ LET raw == unstuff(frameBuf) IN
     IF Len(raw) >= 3
     THEN Len(frames) < FrameChanCap /\ frames' = Append(frames, raw)
     ELSE UNCHANGED frames
  /\ frameBuf' = <<>>

(* The bytes collected so far are kept.                                    *)
BugDiscard(b) == b \in {byteSubstitute, byteCancel} /\ UNCHANGED readerVars

Discard(b) ==
  /\ b \in {byteSubstitute, byteCancel}
  /\ frameBuf' = <<>> /\ UNCHANGED frames

Content(b) == b \notin {byteFlag, byteSubstitute, byteCancel}

(* One byte more than there is room for.                                   *)
BugCollect(b) ==
  /\ Content(b) /\ Len(frameBuf) <= maxFrameSize
  /\ frameBuf' = Append(frameBuf, b) /\ UNCHANGED frames

Collect(b) ==
  /\ Content(b) /\ Len(frameBuf) < maxFrameSize
  /\ frameBuf' = Append(frameBuf, b) /\ UNCHANGED frames

(* Too large: the buffer is emptied and this byte dropped, and what        *)
(* follows is collected as if a frame began there.                         *)
Overflow(b) ==
  /\ Content(b) /\ Len(frameBuf) >= maxFrameSize
  /\ frameBuf' = <<>> /\ UNCHANGED frames

ReadByte(b) == EndOfFrame(b) \/ Discard(b) \/ Collect(b) \/ Overflow(b)

(* The buffer is the array of the code: it holds bytes that are no         *)
(* delimiter, and no more of them than it has room for (ash.go:326, 383).  *)
ReaderTypeOK ==
  /\ frameBuf \in Seq(Byte)
  /\ \A k \in DOMAIN frameBuf : Content(frameBuf[k])
  /\ Len(frameBuf) <= maxFrameSize
  /\ Len(frames) <= FrameChanCap
==============================================================================
