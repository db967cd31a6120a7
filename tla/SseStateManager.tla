--------------------------- MODULE SseStateManager ---------------------------
(* The state machine every outgoing event passes (anthropic/stream.rs,      *)
(* SseStateManager).  Its operators take and return a record c that has     *)
(* the manager's fields and `out`, the events emitted so far:               *)
(*   blocks   the content blocks, in the order of their index: the index is *)
(*            always taken and started in one go, so position i of this     *)
(*            sequence is index i - 1                                       *)
(*   started, delta_sent, ended   message_start, message_delta and          *)
(*            message_stop have been emitted                                *)
(*   stop_reason, has_tool_use                                              *)
EXTENDS Naturals, Sequences, SequencesExt

NoReason == "none"

InitManager ==
    [blocks |-> <<>>, started |-> FALSE, delta_sent |-> FALSE, ended |-> FALSE,
     stop_reason |-> NoReason, has_tool_use |-> FALSE, out |-> <<>>]

Emit(c, event) == [c EXCEPT !.out = Append(@, event)]

IsOpen(c, i) == i \in DOMAIN c.blocks /\ c.blocks[i].open

IsBlockOpenOfType(c, i, type) == IsOpen(c, i) /\ c.blocks[i].type = type

HasNonThinkingBlocks(c) == \E i \in DOMAIN c.blocks : c.blocks[i].type # "thinking"

GetStopReason(c) ==
    IF c.stop_reason # NoReason THEN c.stop_reason
    ELSE IF c.has_tool_use THEN "tool_use" ELSE "end_turn"

(* The stops of the blocks in set S.  The code walks a hash map: any order  *)
(* is possible, and no property depends on it.                              *)
Stops(indices) == [k \in DOMAIN indices |-> [ev |-> "stop", at |-> indices[k]]]

StopAll(c, S) ==
    [c EXCEPT !.blocks = [i \in DOMAIN @ |->
                  IF i \in S THEN [@[i] EXCEPT !.open = FALSE] ELSE @[i]],
              !.out = @ \o Stops(SetToSeq(S))]

MessageStart(c) ==
    IF c.started THEN c ELSE Emit([c EXCEPT !.started = TRUE], [ev |-> "message_start"])

(* A tool_use block first closes the text blocks that are still open.       *)
ClosingText(c, type) ==
    IF type = "tool_use"
      THEN StopAll([c EXCEPT !.has_tool_use = TRUE],
                   {i \in DOMAIN c.blocks : IsBlockOpenOfType(c, i, "text")})
      ELSE c

(* next_block_index followed by content_block_start at that index.          *)
ContentBlockStart(c, type) ==
    Emit([ClosingText(c, type) EXCEPT !.blocks = Append(@, [type |-> type, open |-> TRUE])],
         [ev |-> "start", at |-> Len(c.blocks) + 1, type |-> type])

(* A delta for a block that is not open is dropped.                         *)
ContentBlockDelta(c, i, kind, data) ==
    IF IsOpen(c, i) THEN Emit(c, [ev |-> kind, at |-> i, data |-> data]) ELSE c

ContentBlockStop(c, i) == IF IsOpen(c, i) THEN StopAll(c, {i}) ELSE c

MessageDelta(c) ==
    IF c.delta_sent THEN c
    ELSE Emit([c EXCEPT !.delta_sent = TRUE],
              [ev |-> "message_delta", reason |-> GetStopReason(c)])

MessageStop(c) ==
    IF c.ended THEN c ELSE Emit([c EXCEPT !.ended = TRUE], [ev |-> "message_stop"])

(* generate_final_events of the manager.                                    *)
FinalMessageEvents(c) ==
    MessageStop(MessageDelta(StopAll(c, {i \in DOMAIN c.blocks : IsOpen(c, i)})))

=============================================================================
