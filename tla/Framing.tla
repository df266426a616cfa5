------------------------------ MODULE Framing ------------------------------
(***************************************************************************)
(* The frames of a gRPC-Web body on the wire: encodeFrame() of the server  *)
(* (src/src/protocol/grpc_web/server/server.ts) writes them one after the  *)
(* other, the network cuts their bytes anywhere, and the ChunkParser of    *)
(* the client (src/src/protocol/grpc_web/client/private/chunk_parser.ts)   *)
(* puts them together again.                                               *)
(*                                                                         *)
(* Bytes are numbers below 256.  A call of parse() is synchronous, so it   *)
(* is one action.  What else is in the trailers than a byte that           *)
(* decodeASCII() refuses does not matter here.                             *)
(***************************************************************************)
EXTENDS Integers, Sequences, SequencesExt

CONSTANTS
  Payloads,     \* payloads of the messages
  TrailerData,  \* payloads of the trailers
  MaxMessages,  \* bound: messages in a body
  ChunkSizes    \* bound: sizes of the chunks that arrive, the last one aside

Byte == 0..255

\* A length of four bytes: a Buffer cannot be longer, and writeUInt32BE() would throw.
Fits(n) == n \div 16777216 < 256

ASSUME FramingAssumption ==
  /\ Payloads \union TrailerData \subseteq Seq(Byte)
  /\ \A data \in Payloads \union TrailerData : Fits(Len(data))
  /\ MaxMessages \in Nat
  /\ ChunkSizes \subseteq Nat

VARIABLES
  body,      \* the frames the server sends: messages, then trailers
  received,  \* how many bytes of it were handed to parse()
  buffer,    \* ChunkParser.buffer; null and empty are treated alike
  position,  \* ChunkParser.position
  chunks,    \* history: the frames returned by parse()
  threw      \* history: whether parse() threw

vars == <<body, received, buffer, position, chunks, threw>>

(***************************************************************************)
(* The server.                                                             *)
(***************************************************************************)
HEADER_SIZE == 5
TRAILER_FLAG == 128

Frames == [flag : {0}, data : Payloads] \union [flag : {TRAILER_FLAG}, data : TrailerData]

UInt32BE(n) ==
  <<n \div 16777216, (n \div 65536) % 256, (n \div 256) % 256, n % 256>>

encodeFrame(frame) == <<frame.flag>> \o UInt32BE(Len(frame.data)) \o frame.data

Written(frames) == FlattenSeq([i \in DOMAIN frames |-> encodeFrame(frames[i])])

wire == Written(body)

(***************************************************************************)
(* The parser.                                                             *)
(***************************************************************************)
hasEnoughBytes(buf, pos, count) == Len(buf) - pos >= count

readLengthFromHeader(buf, pos) ==
  ((buf[pos + 2] * 256 + buf[pos + 3]) * 256 + buf[pos + 4]) * 256 + buf[pos + 5]

isTrailerHeader(buf, pos) == buf[pos + 1] >= TRAILER_FLAG

isValidHeaderAscii(b) == b \in {9, 10, 13} \union 32..126

HasFrame(buf, pos) ==
  /\ hasEnoughBytes(buf, pos, HEADER_SIZE)
  /\ hasEnoughBytes(buf, pos, HEADER_SIZE + readLengthFromHeader(buf, pos))

FrameEnd(buf, pos) == pos + HEADER_SIZE + readLengthFromHeader(buf, pos)

FrameAt(buf, pos) ==
  [flag |-> IF isTrailerHeader(buf, pos) THEN TRAILER_FLAG ELSE 0,
   data |-> SubSeq(buf, pos + HEADER_SIZE + 1, FrameEnd(buf, pos))]

\* A turn of the loop of parse(), unless the loop is over: one more frame is read, if
\* it is there, and trailers are the last one.
Turn(buf, read) ==
  IF read.over \/ ~HasFrame(buf, read.end) THEN read
  ELSE [frames |-> Append(read.frames, FrameAt(buf, read.end)),
        end |-> FrameEnd(buf, read.end),
        over |-> isTrailerHeader(buf, read.end)]

\* What parse() reads: it leaves its loop before a turn that has no header to read.
ParseFrom(buf) ==
  LET turns[n \in Nat] ==
        IF n = 0 THEN [frames |-> <<>>, end |-> 0, over |-> FALSE]
        ELSE Turn(buf, turns[n - 1])
  IN  turns[Len(buf) \div HEADER_SIZE]

Garbled(frame) ==
  frame.flag = TRAILER_FLAG /\ \E i \in DOMAIN frame.data : ~isValidHeaderAscii(frame.data[i])

\* Mutants: what is left of the last chunk is dropped, or kept once too often.
RefilledDrops(bytes) == bytes
RefilledKeeps(bytes) == buffer \o bytes

\* The buffer of the next call: what is left of the last one, then the chunk.
Refilled(bytes) == SubSeq(buffer, position + 1, Len(buffer)) \o bytes

\* Mutant: trailers that are not printable are returned like others.
ParseUnchecked(k) ==
  /\ received + k <= Len(wire)
  /\ received' = received + k
  /\ buffer' = Refilled(SubSeq(wire, received + 1, received + k))
  /\ position' = ParseFrom(buffer').end
  /\ chunks' = chunks \o ParseFrom(buffer').frames
  /\ UNCHANGED <<body, threw>>

\* Mutant: parse() throws, but its caller gets the messages before the trailers.
ParseSalvages(k) ==
  /\ received + k <= Len(wire)
  /\ received' = received + k
  /\ buffer' = Refilled(SubSeq(wire, received + 1, received + k))
  /\ LET parsed == ParseFrom(buffer') IN
     /\ position' = parsed.end
     /\ chunks' = chunks \o SelectSeq(parsed.frames, LAMBDA frame : ~Garbled(frame))
     /\ threw' = (threw \/ \E i \in DOMAIN parsed.frames : Garbled(parsed.frames[i]))
  /\ UNCHANGED body

\* parse(): trailers that are not printable make it throw, and the frames it has
\* read are lost with it.
Parse(k) ==
  /\ received + k <= Len(wire)
  /\ received' = received + k
  /\ buffer' = Refilled(SubSeq(wire, received + 1, received + k))
  /\ LET parsed == ParseFrom(buffer') IN
     /\ position' = parsed.end
     /\ \/ /\ \E i \in DOMAIN parsed.frames : Garbled(parsed.frames[i])
           /\ threw' = TRUE
           /\ UNCHANGED chunks
        \/ /\ \A i \in DOMAIN parsed.frames : ~Garbled(parsed.frames[i])
           /\ chunks' = chunks \o parsed.frames
           /\ UNCHANGED threw
  /\ UNCHANGED body

Messages == [flag : {0}, data : Payloads]

TypeOK ==
  /\ body \in Seq(Frames)
  /\ received \in 0..Len(wire)
  /\ buffer \in Seq(Byte)
  /\ position \in 0..Len(buffer)
  /\ chunks \in Seq(Frames)
  /\ threw \in BOOLEAN

Init ==
  /\ \E n \in 0..MaxMessages, t \in TrailerData : \E messages \in [1..n -> Messages] :
       body = Append(messages, [flag |-> TRAILER_FLAG, data |-> t])
  /\ received = 0
  /\ buffer = <<>>
  /\ position = 0
  /\ chunks = <<>>
  /\ threw = FALSE

\* The network cuts a chunk of one of the sizes, or delivers what is left.
Next == \E k \in ChunkSizes \union {Len(wire) - received} : Parse(k)

Spec == Init /\ [][Next]_vars

-----------------------------------------------------------------------------
(***************************************************************************)
(* Properties.                                                             *)
(***************************************************************************)
\* The reference: the frames whose last byte is among the first n of the body,
\* however these were cut.
EndOf(i) == Len(Written(SubSeq(body, 1, i)))
Whole(n) == CHOOSE m \in 0..Len(body) :
              /\ EndOf(m) <= n
              /\ m < Len(body) => EndOf(m + 1) > n

\* However the network cuts the body, inside a header or a length or between two
\* frames, parse() has returned the frames that arrived whole, as they were
\* sent, and no other; trailers it cannot read excepted (chunk_parser.ts:112-177).
CutsDoNotMatter == ~threw => chunks = SubSeq(body, 1, Whole(received))

\* The parser keeps no more than the beginning of one frame to itself, so that its
\* buffer does not grow with the stream (chunk_parser.ts:119-134).
NothingIsRetained ==
  Len(buffer) - position = received - EndOf(Whole(received))

\* Trailers that cannot be read make parse() throw; what it returned before is a
\* beginning of the body still (chunk_parser.ts:34-43, 167-172).
GarbledTrailersThrow ==
  /\ IsPrefix(chunks, body)
  /\ received = Len(wire) => (threw <=> Garbled(Last(body)))

\* One call of parse(): it returns the frames that its chunk completes, none, one or
\* more, or throws if trailers that cannot be read are among them, and all of them are
\* lost (chunk_parser.ts:123-177).  GrpcWebStream sees no more of the bytes.
ChunkIsItsFrames ==
  [][LET next == SubSeq(body, Whole(received) + 1, Whole(received')) IN
     \/ /\ \E i \in DOMAIN next : Garbled(next[i])
        /\ threw' /\ UNCHANGED chunks
     \/ /\ \A i \in DOMAIN next : ~Garbled(next[i])
        /\ chunks' = chunks \o next /\ UNCHANGED threw]_vars
=============================================================================
