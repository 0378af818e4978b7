-------------------------------- MODULE WsFrame --------------------------------
(***************************************************************************)
(* The WebSocket frames of internal/cdp/client.go: writeFrame and          *)
(* writePongFrame, which write them, and readFrame, which reads them.      *)
(*                                                                         *)
(* A stream is a sequence of units: the bytes of a header and of its       *)
(* extended length, a mask of four bytes, and a payload, which is its      *)
(* text, its length and the mask it was combined with.                     *)
(***************************************************************************)
EXTENDS Integers, Sequences

NoMask == "none"
Payload(text, length, mask) == [text |-> text, length |-> length, mask |-> mask]

maxWSFrameSize == 32 * 1024 * 1024

\* Bound on the lengths: TLC's integers.
MaxLength == 2147483647

\* BigEndian.PutUint16 and PutUint64.
Byte(unit, value) == (value \div unit) % 256
Uint16(value) == <<Byte(256, value), Byte(1, value)>>
Uint64(value) ==
  <<0, 0, 0, 0, Byte(16777216, value), Byte(65536, value), Byte(256, value), Byte(1, value)>>

-----------------------------------------------------------------------------
(* Writing *)

Text == 129
Pong == 138

\* Mutant: the first length that takes eight bytes is given two.
ShortLength(length) ==
  IF length < 126 THEN <<length + 128>>
  ELSE IF length <= 65536 THEN <<126 + 128>> \o Uint16(length)
  ELSE <<127 + 128>> \o Uint64(length)

LengthBytes(length) ==
  IF length < 126 THEN <<length + 128>>
  ELSE IF length < 65536 THEN <<126 + 128>> \o Uint16(length)
  ELSE <<127 + 128>> \o Uint64(length)

writeFrame(text, length, mask) ==
  <<Text>> \o LengthBytes(length) \o <<mask, Payload(text, length, mask)>>

\* A pong carries at most 125 bytes of the ping's payload.
writePongFrame(text, length, mask) ==
  LET kept == IF length > 125 THEN 125 ELSE length
  IN  <<Pong, kept + 128, mask, Payload(text, kept, mask)>>

-----------------------------------------------------------------------------
(* Reading *)

\* int(binary.BigEndian.Uint64(ext)) against the limit: the first byte holds the
\* sign, and a negative number is not over the limit.
Negative(ext) == ext[1] >= 128
Over(ext) ==
  ~Negative(ext) /\ \/ \E i \in 1 .. 4 : ext[i] > 0
                    \/ ext[5] > 2
                    \/ ext[5] = 2 /\ \E i \in 6 .. 8 : ext[i] > 0
Value16(ext) == 256 * ext[1] + ext[2]
Value64(ext) == 16777216 * ext[5] + 65536 * ext[6] + 256 * ext[7] + ext[8]  \* when not over

Error == [op |-> "error"]
Panic == [op |-> "panic"]

\* The payload that follows, when the stream has one of this length: a length
\* that is misread takes bytes of the next frame or leaves some.
Rest(op, masked, length, stream) ==
  LET mask == IF masked /\ stream # << >> THEN Head(stream) ELSE NoMask
      left == IF masked /\ stream # << >> THEN Tail(stream) ELSE stream
  IN  IF left = << >> THEN Error
      ELSE IF Head(left).length # length THEN [op |-> "garbled"]
      ELSE IF op = 8 THEN Error
      ELSE [op |-> op, length |-> length, rest |-> Tail(left),
            text |-> IF Head(left).mask = mask THEN Head(left).text ELSE "garbled"]

\* The length, in the header or in the bytes after it, and what follows.
ExtLen(code) == CASE code = 126 -> 2 [] code = 127 -> 8 [] OTHER -> 0
Extended(op, masked, code, ext, after) ==
  CASE code = 126 -> Rest(op, masked, Value16(ext), after)
    [] code = 127 -> IF Negative(ext) THEN Panic
                     ELSE IF Over(ext) THEN Error
                     ELSE Rest(op, masked, Value64(ext), after)
    [] OTHER -> Rest(op, masked, code, after)

\* One frame; FIN is not looked at.
readFrame(stream) ==
  IF Len(stream) < 2 THEN Error
  ELSE LET code == stream[2] % 128
           n    == ExtLen(code)
       IN  IF Len(stream) < 2 + n THEN Error
           ELSE Extended(stream[1] % 16, stream[2] >= 128, code,
                         SubSeq(stream, 3, 2 + n), SubSeq(stream, 3 + n, Len(stream)))

-----------------------------------------------------------------------------
(* RFC 6455, for the other end *)

\* The ways to write a length, in the header's second byte and in those after it.
Forms(length) ==
  (IF length < 126 THEN {<<length, << >> >>} ELSE {})
    \cup (IF length < 65536 THEN {<<126, Uint16(length)>>} ELSE {})
    \cup {<<127, Uint64(length)>>}

\* A frame as a peer may write it: masked or not, its length in any form that holds it.
Masks == {NoMask, "mask"}
Following(text, length, mask) ==
  IF mask = NoMask THEN <<Payload(text, length, mask)>> ELSE <<mask, Payload(text, length, mask)>>
PeerFrame(op, text, length, mask, form) ==
  <<128 + op, form[1] + IF mask = NoMask THEN 0 ELSE 128>> \o form[2] \o Following(text, length, mask)
PeerFrames(op, text, length) ==
  {PeerFrame(op, text, length, mask, form) : mask \in Masks, form \in Forms(length)}

Lengths == {0, 1, 125, 126, 127, 65535, 65536, maxWSFrameSize - 1, maxWSFrameSize,
            maxWSFrameSize + 1, MaxLength}

\* Lengths of eight bytes that are too large for an int or for a read.
HugeLengths == {<<b1, b2, 0, 0, b5, 0, 0, 0>> : b1 \in {0, 127}, b2 \in {0, 1}, b5 \in {0, 3}}
                 \ {<<0, 0, 0, 0, 0, 0, 0, 0>>}

\* What the client writes is the one frame that a peer reads as it was meant, a pong
\* no longer than a control frame may be; what a peer writes is read whole, with
\* nothing of what is next on the stream, up to the limit, and refused above it.
Crosses(length, next) ==
  /\ writeFrame("text", length, "mask") \in PeerFrames(1, "text", length)
  /\ LET kept == IF length <= 125 THEN length ELSE 125
     IN  writePongFrame("text", length, "mask") \in PeerFrames(10, "text", kept)
  /\ \A op \in {0, 1, 2, 9, 10} : \A frame \in PeerFrames(op, "text", length) :
       readFrame(frame \o next) =
         IF length <= maxWSFrameSize
           THEN [op |-> op, length |-> length, text |-> "text", rest |-> next]
           ELSE Error
  /\ \A frame \in PeerFrames(8, "text", length) : readFrame(frame \o next) = Error

\* It is so at every boundary of the length encodings, and a length above the limit
\* is refused in whatever form it comes (maxWSFrameSize).
FramesCross ==
  /\ \A length \in Lengths, next \in PeerFrames(1, "next", 126) : Crosses(length, next)
  /\ \A ext \in HugeLengths : readFrame(<<129, 127>> \o ext) = Error
=============================================================================
