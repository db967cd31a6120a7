----------------------------- MODULE EventDecoder -----------------------------
(* The decoder of the upstream's binary event stream (kiro/parser).  A frame  *)
(* is two cells of the wire, its prelude and the rest, so a chunk may end in  *)
(* the middle of a frame; each cell is [frame, half].  The kinds of a frame:  *)
(*   ok        well formed                                                    *)
(*   crc       the prelude is right, the message checksum is not, or parsing  *)
(*             the headers ends in HeaderParseFailed                          *)
(*   prelude   the prelude is corrupt, its length is not; or parsing the      *)
(*             headers ends in any other error, which is recovered from alike *)
(*   range     the prelude is corrupt, its length is out of range             *)
(*   long      the prelude is corrupt and claims CLAIMED cells                *)
(* The length is compared with the buffer before the checksum is looked at.   *)
EXTENDS Naturals, Sequences, SequencesExt

CONSTANTS
    MAX_ERRORS,     \* DEFAULT_MAX_ERRORS
    MAX_BUFFER,     \* DEFAULT_MAX_BUFFER_SIZE, in cells
    CLAIMED         \* the length a corrupt prelude claims, in cells

ASSUME DecoderAssumption ==
    /\ MAX_ERRORS \in Nat \ {0}
    /\ MAX_BUFFER \in Nat /\ MAX_BUFFER >= 4    \* two frames at least
    /\ CLAIMED \in Nat \ (0 .. 2)

NewDecoder == [buffer |-> <<>>, state |-> "Ready", error_count |-> 0]

Cells(frame) == <<[frame |-> frame, half |-> 1], [frame |-> frame, half |-> 2]>>

(* A chunk that does not fit is dropped as a whole, and leaves the state.   *)
Feed(d, data) ==
    IF Len(d.buffer) + Len(data) > MAX_BUFFER THEN d
    ELSE [d EXCEPT !.buffer = @ \o data,
                   !.state = IF @ = "Recovering" THEN "Ready" ELSE @]

(* The length that the prelude at the head claims.  Read one byte off, as   *)
(* after a skipped byte, a length is about 256 times what it was.           *)
ClaimedLength(cell) ==
    CASE cell.half = 2 \/ cell.frame.kind = "long" -> CLAIMED
      [] cell.half = 1 /\ cell.frame.kind = "range" -> 0
      [] OTHER -> 2

(* A checksum that is right: behind the head is the rest of its own frame.     *)
RestFollows(buffer) == buffer[2] = [frame |-> Head(buffer).frame, half |-> 2]

(* parse_frame on a non-empty buffer: "frame", "none" (wait for more), or a *)
(* "prelude" or "data" error.                                               *)
ParseFrame(buffer) ==
    LET head == Head(buffer)
    IN IF Len(buffer) < ClaimedLength(head) THEN "none"
       ELSE IF head.half = 2 \/ head.frame.kind \in {"prelude", "range", "long"} THEN "prelude"
       ELSE IF head.frame.kind = "crc" \/ ~RestFollows(buffer) THEN "data"
       ELSE "frame"

Advance(d, n) == [d EXCEPT !.buffer = SubSeq(@, n + 1, Len(@))]

(* try_recover: one cell after a prelude error, the frame after a data error *)
TryRecover(d, error) == Advance(d, IF error = "data" THEN 2 ELSE 1)

FailedUnbounded(d, error) ==
    [TryRecover([d EXCEPT !.error_count = @ + 1], error) EXCEPT !.state = "Recovering"]

(* The outcome of an error: stopped for good, or recovering until the next  *)
(* chunk is fed.                                                            *)
Failed(d, error) ==
    LET d1 == [d EXCEPT !.error_count = @ + 1]
    IN IF d1.error_count >= MAX_ERRORS THEN [d1 EXCEPT !.state = "Stopped"]
       ELSE [TryRecover(d1, error) EXCEPT !.state = "Recovering"]

(* decode_iter: s is [decoder, frames], the frames decoded so far, oldest    *)
(* first.  The next frame, if it is whole and right.                        *)
Decoding(d) == d.state \notin {"Stopped", "Recovering"} /\ d.buffer # <<>>

DecodeNext(s) ==
    IF Decoding(s.decoder) /\ ParseFrame(s.decoder.buffer) = "frame"
      THEN [decoder |-> [Advance(s.decoder, 2) EXCEPT !.state = "Ready", !.error_count = 0],
            frames |-> Append(s.frames, Head(s.decoder.buffer).frame)]
      ELSE s

(* It ends when data runs out, and at the first error: what is behind a     *)
(* corrupt frame waits for the next chunk.                                  *)
DecodeEnd(d) ==
    IF ~Decoding(d) \/ ParseFrame(d.buffer) = "none"
      THEN [d EXCEPT !.state = IF @ \in {"Stopped", "Recovering"} THEN @ ELSE "Ready"]
      ELSE Failed(d, ParseFrame(d.buffer))

(* Run to its end: a frame takes cells of the buffer, so there are not more *)
(* frames than cells.                                                       *)
DecodeIter(d) ==
    LET after[k \in 0 .. Len(d.buffer)] ==
          IF k = 0 THEN [decoder |-> d, frames |-> <<>>] ELSE DecodeNext(after[k - 1])
        all == after[Len(d.buffer)]
    IN [all EXCEPT !.decoder = DecodeEnd(@)]

=============================================================================
