------------------------------ MODULE MCSseStream ------------------------------
(* One response in each of a few scenarios, each of which lets the upstream    *)
(* use the features that meet in one part of the code.                         *)
EXTENDS SseStream

Plain == [thinking |-> FALSE, live |-> TRUE, split |-> FALSE, texts |-> {<<"word">>},
          events |-> {}, corrupt |-> {}]

MCToolIds == {<<"tooluse", 1>>}

MCScenarios ==
    { \* <thinking> tags, cut anywhere, around text and tool calls
      [Plain EXCEPT !.thinking = TRUE, !.events = {"tool"},
                    !.texts = @ \cup {<<"nl">>, <<"thO">>, <<"ing">>, <<"thO", "ing">>,
                                     <<"thC">>, <<"thC", "ing">>}],
      \* reasoning events, redacted ones, a window that fills up
      [Plain EXCEPT !.thinking = TRUE, !.live = FALSE,
                    !.events = {"reasoning", "redacted", "tool", "too_long", "window_full"}],
      \* both in one response
      [Plain EXCEPT !.thinking = TRUE, !.events = {"reasoning", "redacted"},
                    !.texts = @ \cup {<<"nl">>, <<"thO", "ing">>, <<"thC">>, <<"thC", "ing">>}],
      \* <invoke> blocks in the text, among narrative, stray lines and code fences
      [Plain EXCEPT !.texts = @ \cup {<<"nl">>, <<"stray">>, <<"fence">>, <<"inv">>, <<"oke">>,
                                     <<"inv", "oke">>, <<"invC">>,
                                     <<"word", "inv", "oke", "invC">>}],
      \* blocks that name an unknown tool, beside structured calls and reasoning
      [Plain EXCEPT !.events = {"reasoning", "tool"},
                    !.texts = @ \cup {<<"inv">>, <<"okeU">>, <<"invC">>, <<"inv", "oke">>}],
      \* <tool_use> XML in the text
      [Plain EXCEPT !.texts = @ \cup {<<"tool">>, <<"toolX">>, <<"use">>, <<"word", "toolX">>,
                                     <<"tool", "use">>, <<"use", "word", "tool">>}],
      \* corrupt frames, and chunks that end inside a frame
      [Plain EXCEPT !.split = TRUE, !.corrupt = {"crc", "prelude", "range", "long"}] }

-------------------------------------------------------------------------------
(* Type invariant: the decoder tolerates MAX_ERRORS errors in a row and then   *)
(* stops for good, its buffer is bounded, the tripped repeat guard counts no   *)
(* further, and every index the context keeps names a block of its own kind.   *)
TypeOKStream ==
    /\ decoder.state \in {"Ready", "Recovering", "Stopped"}
    /\ decoder.error_count \in 0 .. MAX_ERRORS
    /\ decoder.error_count = MAX_ERRORS <=> decoder.state = "Stopped"
    /\ Len(decoder.buffer) <= MAX_BUFFER
    /\ ctx.repeat_run \in 0 .. REPEAT_GUARD_TRIP_THRESHOLD
    /\ ctx.text_block_index # 0 => ctx.blocks[ctx.text_block_index].type = "text"
    /\ ctx.thinking_block_index # 0 =>
          ctx.blocks[ctx.thinking_block_index].type = "thinking"
    /\ \A id \in DOMAIN ctx.tool_block_indices :
          ctx.blocks[ctx.tool_block_indices[id]].type = "tool_use"
    /\ stream \in {"open", "finished", "gone"}
    /\ status \in {"none", "success", "error"}

-------------------------------------------------------------------------------
(* A client of the Messages API, reading the events one by one.                *)
DeltaType == [text |-> "text", thinking |-> "thinking", signature |-> "thinking",
              input |-> "tool_use"]

Client0 == [phase |-> "none", blocks |-> <<>>]

Broken == [phase |-> "broken", blocks |-> <<>>]

AllStopped(m) == \A i \in DOMAIN m.blocks : m.blocks[i].state = "stopped"

(* A block is "empty" until its first delta; a signed thinking block and a     *)
(* tool_use that has its input take no further delta.                          *)
Read(m, e) ==
    CASE e.ev = "message_start" /\ m.phase = "none" -> [m EXCEPT !.phase = "content"]
      [] e.ev = "start" /\ m.phase = "content" /\ e.at = Len(m.blocks) + 1 ->
           [m EXCEPT !.blocks = Append(@, [type |-> e.type, state |-> "open"])]
      [] /\ e.ev \in DOMAIN DeltaType
         /\ m.phase = "content"
         /\ e.at \in DOMAIN m.blocks
         /\ m.blocks[e.at] = [type |-> DeltaType[e.ev], state |-> "open"] ->
           [m EXCEPT !.blocks[e.at].state =
               IF e.ev \in {"signature", "input"} THEN "complete" ELSE "open"]
      [] /\ e.ev = "stop"
         /\ m.phase = "content"
         /\ e.at \in DOMAIN m.blocks
         /\ m.blocks[e.at].state # "stopped"
         /\ m.blocks[e.at].type = "tool_use" => m.blocks[e.at].state = "complete" ->
           [m EXCEPT !.blocks[e.at].state = "stopped"]
      [] e.ev = "message_delta" /\ m.phase = "content" /\ AllStopped(m) ->
           [m EXCEPT !.phase = "delta"]
      [] e.ev = "message_stop" /\ m.phase = "delta" -> [m EXCEPT !.phase = "stopped"]
      [] e.ev = "error" /\ m.phase = "stopped" -> m
      [] OTHER -> Broken

(* The client after it has read the events.                                    *)
ReadAll(events) ==
    LET after[i \in 0 .. Len(events)] ==
          IF i = 0 THEN Client0 ELSE Read(after[i - 1], events[i])
    IN after[Len(events)]

(* Wherever the chunks are cut, the client reads a message: one message_start  *)
(* first; blocks numbered in order; deltas only to an open block of their      *)
(* kind, none after a signature; one stop per block; one message_delta once    *)
(* all are stopped, then message_stop; and the message is complete when the    *)
(* stream has finished (the rules on SseStateManager; the thinking deltas      *)
(* bypass its checks).  Not so when a redacted event came inside a block that  *)
(* a <thinking> tag opened: process_redacted_content closes the block and      *)
(* leaves in_thinking_block set, and the next text is a delta to the closed    *)
(* block.  The converter asks for tags and for native reasoning at once.       *)
ClientReadsMessage ==
    LET m == ReadAll(Delivered)
    IN "redacted" \notin ctx.mixed =>
          /\ m.phase # "broken"
          /\ stream = "finished" => m.phase = "stopped"

-------------------------------------------------------------------------------
Before(these, those) == \A m \in these, n \in those : m < n

Rising(text) ==
    \A i, j \in DOMAIN text :
        i < j /\ text[i].k = "word" /\ text[j].k = "word" => text[i].n < text[j].n

Deltas(out, kind) == {i \in DOMAIN out : out[i].ev = kind}

SentWords(out, kind) == UNION {WordsIn(out[i].data) : i \in Deltas(out, kind)}

SentInOrder(out, kind) ==
    \A i \in Deltas(out, kind) :
        /\ Rising(out[i].data)
        /\ \A j \in Deltas(out, kind) :
              i < j => Before(WordsIn(out[i].data), WordsIn(out[j].data))

(* No word is swallowed: a word that reached the context was sent, as text or  *)
(* as thinking, or is in one of the three buffers, behind the text that was    *)
(* sent, or a filter discarded it; at the end the buffers are empty.  Text is  *)
(* sent in order, each word once, and thinking too, except after a reasoning   *)
(* event inside a tagged block, which is sent at once while the words before   *)
(* it may still be in thinking_buffer.  (emit_text_delta_raw reopens a text    *)
(* block that a tool call closed, so as not to swallow text.)                  *)
NoWordSwallowed ==
    LET text == SentWords(ctx.out, "text")
        thinking == SentWords(ctx.out, "thinking")
        buffered == ctx.invoke_sniff_buffer \o ctx.thinking_buffer \o ctx.filter.buffer
        held == WordsIn(buffered)
        known == text \cup thinking \cup held
    IN /\ SentInOrder(ctx.out, "text") /\ Rising(buffered)
       /\ "reasoning" \notin ctx.mixed => SentInOrder(ctx.out, "thinking")
       /\ text \cap thinking = {} /\ thinking \cap held = {} /\ Before(text, held)
       /\ known \cap ctx.dropped = {}
       /\ stream = "finished" => buffered = <<>>
       /\ sent.corrupt = 0 /\ sent.half = <<>> =>
             /\ decoder.buffer = <<>>
             /\ known \cup ctx.dropped = sent.words
             /\ scenario.texts = {<<"word">>} => ctx.dropped = {}

(* A tool call reaches the client exactly when its last fragment came and the  *)
(* whole was valid JSON, once whatever is repeated; a call that was cut short  *)
(* or is not JSON makes the stream end in an error event and the request count *)
(* as an error (ToolJsonAccumulator, generate_final_events).                   *)
OnlyWholeToolCalls ==
    LET calls == {i \in DOMAIN ctx.out : ctx.out[i].ev = "input" /\ ctx.out[i].data \in ToolIds}
    IN /\ {ctx.out[i].data : i \in calls} = ctx.done
       /\ Cardinality(calls) = Cardinality(ctx.done)
       /\ stream = "finished" /\ (DOMAIN ctx.tools \cup ctx.spoilt # {}) =>
             status = "error" /\ \E i \in DOMAIN ctx.out : ctx.out[i].ev = "error"

(* A call is recovered from text only outside a code fence of the text the     *)
(* client has been sent, however fence and block were cut into chunks          *)
(* (fence_open_after; test_invoke_fence_split_across_chunks).  Not so once the *)
(* repeat guard has tripped: it discards the fences of the text from there on, *)
(* and calls are recovered still.                                              *)
NoCallFromCodeFence ==
    \A i \in DOMAIN ctx.out :
        LET text == FlattenSeq([j \in 1 .. i |->
                       IF ctx.out[j].ev = "text" THEN ctx.out[j].data ELSE <<>>])
            fences == {j \in DOMAIN text : text[j].k = "fence" /\ StartsLine(text, j)}
        IN /\ ctx.out[i].ev = "input" /\ ctx.out[i].data \notin ToolIds
           /\ ~ctx.repeat_tripped
           => Cardinality(fences) % 2 = 0

-------------------------------------------------------------------------------
(* What the heuristics on <invoke> promise: a block in the middle of a line is *)
(* text that talks about a call, and is not executed                           *)
(* (test_invoke_midsentence_not_captured).  No recovered call directly follows *)
(* a delivered piece that does not end a line.                                 *)
MidsentenceInvokeNotCaptured ==
    \A i, j \in DOMAIN ctx.out :
        /\ ctx.out[i].ev = "input" /\ ctx.out[i].data \notin ToolIds
        /\ ctx.out[j].ev = "text"
        => \A p \in Range(ctx.out[j].data) :
              p.n + 1 = ctx.out[i].data[2] => p.k \in EndsLine

(* What try_recover promises: after a prelude error the decoder scans byte by  *)
(* byte for the next frame, and after a data error it skips the frame.  One    *)
(* corrupt frame does not stop the decoder for good.                           *)
CorruptFrameSkipped == sent.corrupt <= 1 => decoder.state # "Stopped"

=============================================================================
