-------------------------------- MODULE Wire --------------------------------
(***************************************************************************)
(* Frames on a TCP connection (frame.cpp).  A frame travels as two units,  *)
(* its header and its payload, which the network hands over one by one or  *)
(* together.  What the checks of decode_frame make of the bytes of a unit  *)
(* (magic, version, type, length, checksums) is the unit's `verdict`.      *)
(***************************************************************************)
EXTENDS Naturals, Sequences

CONSTANT MaxBuffered     \* kMaxBufferedBytes, in units: one frame of the largest size

ASSUME MaxBufferedAssumption == MaxBuffered \in Nat /\ MaxBuffered >= 2

\* The checks of the header are made before the payload is there; a failed one ends them.
HeaderVerdicts == {"Complete", "Corrupt", "UnsupportedVersion", "InvalidType", "Oversized"}
PayloadVerdicts == {"Complete", "Corrupt"}

\* encode_frame, and what may happen to the bytes on the way.
EncodeFrame(frame, header, payload) ==
  << [part |-> "header", verdict |-> header, frame |-> frame],
     [part |-> "payload", verdict |-> payload, frame |-> frame] >>
Sound(frame) == EncodeFrame(frame, "Complete", "Complete")

\* decode_frame looks at the front of the buffer.
DecodeFrame(units) ==
  IF \/ units = <<>>
     \/ units[1].verdict = "Complete" /\ Len(units) = 1
  THEN [status |-> "NeedMore"]
  ELSE [status |-> IF units[1].verdict # "Complete" THEN units[1].verdict ELSE units[2].verdict,
        frame  |-> units[1].frame]

\* FrameStream: the bytes held, how many of them were consumed, and the sticky failure.
NewStream == [buffer |-> <<>>, offset |-> 0, poisoned |-> FALSE]

Remaining(stream) == SubSeq(stream.buffer, stream.offset + 1, Len(stream.buffer))

\* Mutant: the consumed bytes are kept and count against the bound.
FeedKeepingConsumed(stream, units) ==
  IF stream.poisoned \/ Len(stream.buffer) + Len(units) > MaxBuffered
  THEN [stream EXCEPT !.poisoned = TRUE]
  ELSE [stream EXCEPT !.buffer = @ \o units]

\* FrameStream::feed drops what was consumed, then refuses to grow past the bound.
Feed(stream, units) ==
  IF stream.poisoned THEN stream
  ELSE LET kept == Remaining(stream)
       IN IF Len(kept) + Len(units) > MaxBuffered
          THEN [buffer |-> kept, offset |-> 0, poisoned |-> TRUE]
          ELSE [buffer |-> kept \o units, offset |-> 0, poisoned |-> FALSE]

\* FrameStream::next, as the outcome and the stream after it.
NextOutcome(stream) ==
  IF stream.poisoned THEN [status |-> "Corrupt"] ELSE DecodeFrame(Remaining(stream))
AfterNext(stream) ==
  LET status == NextOutcome(stream).status
  IN CASE status = "Complete" -> [stream EXCEPT !.offset = @ + 2]
       [] status = "NeedMore" -> stream
       [] OTHER               -> [stream EXCEPT !.poisoned = TRUE]
=============================================================================
