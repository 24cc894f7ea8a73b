----------------------------- MODULE FrameStream -----------------------------
(***************************************************************************)
(* Reassembly of the notification stream into frames, in the Python client *)
(* and in its Kotlin and Swift ports.  A frame is a length byte that counts *)
(* every byte after it, an opcode, a payload and a checksum; nothing marks *)
(* where a frame starts, so a stream that does not parse is given up.      *)
(***************************************************************************)
EXTENDS Integers, FiniteSetsExt, SequencesExt

CONSTANTS
    Alphabet,         \* the bytes a chunk may hold
    MaxFrame,       \* maximum_frame_size
    MaxChunk,       \* bound: bytes of one notification
    MaxStream       \* bound: bytes received between two resets

ASSUME StreamAssumption ==
    /\ Alphabet \subseteq 0 .. 255 /\ MaxFrame \in 3 .. 256
    /\ MaxChunk \in Nat /\ MaxStream \in Nat

VARIABLES
    received,       \* the bytes of the stream since the last reset
    decoder         \* each port's buffer, the frames it returned, its error

streamVars == <<received, decoder>>

Ports == {"python", "kotlin", "swift"}
Payload(frame) == SubSeq(frame, 3, Len(frame) - 1)

(* decode_packet: the checksum is the sum of opcode and payload, reduced   *)
(* once at the end.                                                        *)
PythonDecodes(raw) ==
    /\ Len(raw) >= 3
    /\ raw[1] >= 2
    /\ Len(raw) = raw[1] + 1
    /\ Last(raw) = FoldSeq(LAMBDA byte, sum : sum + byte, raw[2], Payload(raw)) % 256

(* Slip: the sum is not reduced. *)
ChecksumUnreduced(frame) == FoldSeq(+, frame[2], Payload(frame))

(* The ports reduce after every byte: Kotlin by masking, Swift by wrapping *)
(* addition on an 8-bit integer.                                           *)
Checksum(frame) ==
    FoldSeq(LAMBDA byte, sum : (sum + byte) % 256, frame[2], Payload(frame))

KotlinDecodes(frame) ==
    /\ Len(frame) >= 3
    /\ frame[1] >= 2
    /\ Len(frame) = frame[1] + 1
    /\ Last(frame) = Checksum(frame)

SwiftDecodes(data) ==
    /\ Len(data) >= 3
    /\ data[1] >= 2
    /\ Len(data) = data[1] + 1
    /\ Last(data) = Checksum(data)

Decodes(port, frame) ==
    CASE port = "python" -> PythonDecodes(frame)
      [] port = "kotlin" -> KotlinDecodes(frame)
      [] port = "swift" -> SwiftDecodes(frame)

(* The loop every port runs over its buffer: cut off a frame while one is  *)
(* complete; a bad length or a frame that does not decode empties the      *)
(* buffer and raises, and the frames already cut in this call are lost.    *)
Corrupt == [frames |-> <<>>, buffer |-> <<>>, failed |-> TRUE]
Reassembled(port, buffer) ==
    LET from[at \in 1 .. Len(buffer) + 1] ==
          LET rest == SubSeq(buffer, at, Len(buffer))
              total == rest[1] + 1
              after == from[at + total] IN
          IF rest = <<>> THEN [frames |-> <<>>, buffer |-> rest, failed |-> FALSE]
          ELSE IF rest[1] < 2 \/ total > MaxFrame THEN Corrupt
          ELSE IF Len(rest) < total
               THEN [frames |-> <<>>, buffer |-> rest, failed |-> FALSE]
          ELSE IF ~Decodes(port, SubSeq(rest, 1, total)) \/ after.failed THEN Corrupt
          ELSE [after EXCEPT !.frames = <<SubSeq(rest, 1, total)>> \o @]
    IN from[1]

(* FrameAssembler.feed, IncrementalFrameDecoder.append and .feed *)
PythonFeed(buffer, chunk) == Reassembled("python", buffer \o chunk)
KotlinAppend(buffer, chunk) == Reassembled("kotlin", buffer \o chunk)
SwiftFeed(buffer, chunk) == Reassembled("swift", buffer \o chunk)

Fed(port, chunk) ==
    LET result == CASE port = "python" -> PythonFeed(decoder[port].buffer, chunk)
                    [] port = "kotlin" -> KotlinAppend(decoder[port].buffer, chunk)
                    [] port = "swift" -> SwiftFeed(decoder[port].buffer, chunk)
    IN [result EXCEPT !.frames = decoder[port].frames \o @]

Empty == [frames |-> <<>>, buffer |-> <<>>, failed |-> FALSE]

StreamInit == received = <<>> /\ decoder = [p \in Ports |-> Empty]

(* One notification, of any length, reaches the three decoders. *)
Notification ==
    /\ \A p \in Ports : ~decoder[p].failed
    /\ \E chunk \in BoundedSeq(Alphabet, MaxChunk) :
         /\ Len(received) + Len(chunk) <= MaxStream
         /\ received' = received \o chunk
         /\ decoder' = [p \in Ports |-> Fed(p, chunk)]

(* reset(): the session starts over on a new connection. *)
ResetStream ==
    /\ received # <<>>
    /\ received' = <<>>
    /\ decoder' = [p \in Ports |-> Empty]

StreamNext == Notification \/ ResetStream
StreamSpec == StreamInit /\ [][StreamNext]_streamVars

-----------------------------------------------------------------------------
(* What a frame is, and what may still become one. *)
Frame(bytes) ==
    /\ Len(bytes) \in 3 .. MaxFrame
    /\ bytes[1] = Len(bytes) - 1
    /\ Last(bytes) = FoldSeq(+, 0, SubSeq(bytes, 2, Len(bytes) - 1)) % 256
Begins(bytes) == bytes = <<>> \/ (bytes[1] \in 2 .. MaxFrame - 1 /\ Len(bytes) <= bytes[1])

(* A stream is intact when it can be cut into frames and the beginning of  *)
(* one.                                                                    *)
Intact(bytes) ==
    \E cuts \in SUBSET (0 .. Len(bytes)) :
        /\ 0 \in cuts
        /\ \A c \in cuts :
             LET later == {d \in cuts : d > c} IN
             IF later = {} THEN Begins(SubSeq(bytes, c + 1, Len(bytes)))
             ELSE Frame(SubSeq(bytes, c + 1, Min(later)))

(* Chunking is irrelevant: however the stream was split or coalesced into  *)
(* notifications, each of the three decoders has returned exactly the      *)
(* frames the stream is made of, kept exactly its unfinished tail, and     *)
(* raised if and only if the stream cannot be cut into frames.             *)
StreamDecoded ==
    \A p \in Ports :
        /\ decoder[p].failed = ~Intact(received)
        /\ IF decoder[p].failed THEN decoder[p].buffer = <<>>
           ELSE /\ FlattenSeq(decoder[p].frames) \o decoder[p].buffer = received
                /\ \A i \in DOMAIN decoder[p].frames : Frame(decoder[p].frames[i])
                /\ Begins(decoder[p].buffer)
=============================================================================
