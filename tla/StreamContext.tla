----------------------------- MODULE StreamContext -----------------------------
(* The translation of Kiro events into Anthropic events (anthropic/stream.rs,  *)
(* StreamContext): operators from a context record c to a context record, one  *)
(* per method that changes it.  c has the fields of SseStateManager and        *)
(*   filter       [buffer, stripping] of ToolUseXmlLeakFilter                  *)
(*   thinking_enabled, thinking_buffer, in_thinking_block, thinking_extracted  *)
(*   thinking_block_index, text_block_index       0 for None                   *)
(*   invoke_sniff_buffer, code_fence_open                                      *)
(*   mid_line     fence_scan_partial is not blank                              *)
(*   repeat_run, repeat_tripped                   the repeat guard             *)
(*   tools        per tool id: the fragments buffered are valid JSON so far    *)
(*   tool_block_indices, tool_json_error                                       *)
(* and four histories: `dropped`, the words the filters discarded; `done` and  *)
(* `spoilt`, the ids of the structured calls whose last fragment came, with    *)
(* and without valid JSON; and `mixed`, the native thinking events that came   *)
(* while a block opened by a <thinking> tag was open.                          *)
(*                                                                             *)
(* Text is a sequence of pieces [k, n], n the number of the piece in order of  *)
(* arrival.  A tag is two pieces, so that a chunk can end inside it:           *)
(*   <thinking> = thO ing    </thinking> = thC ing    <tool_use> = tool use    *)
(*   </tool_use> = toolX use    <invoke name=..> = inv oke (a tool of the      *)
(*   request) or inv okeU (an unknown one)    </invoke> = invC                 *)
(* nl is a blank line, stray a line holding only `call`, fence a line of       *)
(* three back-quotes, word a word that ends no line.                           *)
EXTENDS SseStateManager, FiniteSets

CONSTANTS
    REPEAT_GUARD_TRIP_THRESHOLD,    \* stray lines in a row that trip the guard
    MAX_INVOKE_HOLD                 \* MAX_INVOKE_HOLD_BYTES, in pieces

ASSUME StreamAssumption ==
    /\ REPEAT_GUARD_TRIP_THRESHOLD \in Nat \ {0}
    /\ MAX_INVOKE_HOLD \in Nat

PieceKinds ==
    {"word", "nl", "stray", "fence", "thO", "thC", "ing", "tool", "toolX", "use",
     "inv", "oke", "okeU", "invC"}
OpensAngle == {"thO", "thC", "tool", "toolX", "inv", "invC"}
ClosesAngle == {"ing", "use", "oke", "okeU", "invC"}
EndsLine == {"nl", "stray", "fence"}

(* Lengths of the tags a buffer may end inside, in pieces.                     *)
START_TAG == 2
END_TAG == 3

NewContext(thinking) ==
    LET context ==
          [filter |-> [buffer |-> <<>>, stripping |-> FALSE],
           thinking_enabled |-> thinking, thinking_buffer |-> <<>>,
           in_thinking_block |-> FALSE, thinking_extracted |-> FALSE,
           thinking_block_index |-> 0, text_block_index |-> 0,
           invoke_sniff_buffer |-> <<>>, code_fence_open |-> FALSE, mid_line |-> FALSE,
           repeat_run |-> 0, repeat_tripped |-> FALSE,
           tools |-> <<>>, tool_block_indices |-> <<>>, tool_json_error |-> FALSE,
           dropped |-> {}, done |-> {}, spoilt |-> {}, mixed |-> {}]
    IN [f \in DOMAIN InitManager \cup DOMAIN context |->
           IF f \in DOMAIN context THEN context[f] ELSE InitManager[f]]

Upto(s, i) == SubSeq(s, 1, i)
From(s, i) == SubSeq(s, i, Len(s))
IsBlank(text) == \A i \in DOMAIN text : text[i].k \in {"nl"}
WordsIn(text) == {text[i].n : i \in {j \in DOMAIN text : text[j].k = "word"}}
Drop(c, text) == [c EXCEPT !.dropped = @ \cup WordsIn(text)]

(* The first position in S, 0 for none.                                        *)
FirstOf(S) == IF S = {} THEN 0 ELSE CHOOSE i \in S : \A j \in S : i <= j
LastOf(S) == IF S = {} THEN 0 ELSE CHOOSE i \in S : \A j \in S : i >= j

Pairs(s, first, seconds) ==
    {i \in 1 .. Len(s) - 1 : s[i].k = first /\ s[i + 1].k \in seconds}

(* A tag next to an angle bracket or a back-quote is quoted, not real.         *)
QuotedBefore(s, i) == i > 1 /\ s[i - 1].k \in ClosesAngle
QuotedAfter(s, i) == i < Len(s) /\ s[i + 1].k \in OpensAngle \cup {"fence"}

-------------------------------------------------------------------------------
(* ToolUseXmlLeakFilter.                                                       *)

(* filter: everything between an opening and its closing tag is dropped, and   *)
(* half a tag at the end is kept for the next chunk.  s is [rest, out, lost,   *)
(* stripping]: what is still to be scanned, what passed and what is dropped.   *)
LeakTag(s) == IF s.stripping THEN "toolX" ELSE "tool"

Passed(s, text) ==
    [s EXCEPT !.out = IF s.stripping THEN @ ELSE @ \o text,
              !.lost = IF s.stripping THEN @ \o text ELSE @]

(* The text up to the next tag, and the tag.                                   *)
StripNext(s) ==
    LET at == FirstOf(Pairs(s.rest, LeakTag(s), {"use"}))
    IN IF at = 0 THEN s
       ELSE [Passed(s, Upto(s.rest, at - 1))
               EXCEPT !.rest = From(s.rest, at + 2), !.stripping = ~s.stripping]

(* Every tag of the text: a tag is more than one piece, so there are not more  *)
(* tags than pieces.                                                           *)
StripLeaks(text, stripping) ==
    LET after[k \in 0 .. Len(text)] ==
          IF k = 0 THEN [rest |-> text, out |-> <<>>, lost |-> <<>>, stripping |-> stripping]
          ELSE StripNext(after[k - 1])
    IN after[Len(text)]

KeptTag(s) == IF s.rest # <<>> /\ Last(s.rest).k = LeakTag(s) THEN 1 ELSE 0

StripRest(s) ==
    LET keep == Len(s.rest) - KeptTag(s)
        end == Passed(s, Upto(s.rest, keep))
    IN [out |-> end.out, dropped |-> end.lost,
        filter |-> [buffer |-> From(s.rest, keep + 1), stripping |-> s.stripping]]

Filter(f, content) == StripRest(StripLeaks(f.buffer \o content, f.stripping))

-------------------------------------------------------------------------------
(* Text that leaves: repeat guard, code fence, text block.                     *)

(* Whether position i of a text starts a line of that text.                    *)
StartsLine(text, i) == i = 1 \/ text[i - 1].k \in EndsLine

(* repeat_guard_filter: g is [kept, run, tripped] so far.                      *)
GuardPiece(text, g, i) ==
    LET p == text[i]
        isStray == p.k = "stray" /\ StartsLine(text, i)
        run == IF isStray THEN g.run + 1
               ELSE IF p.k = "nl" /\ StartsLine(text, i) THEN g.run ELSE 0
    IN IF g.tripped THEN g
       ELSE IF isStray /\ run >= REPEAT_GUARD_TRIP_THRESHOLD
              THEN [g EXCEPT !.run = run, !.tripped = TRUE]
       ELSE [g EXCEPT !.kept = Append(@, p), !.run = run]

RepeatGuardFilter(c, text) ==
    LET guard[i \in 0 .. Len(text)] ==
          IF i = 0 THEN [kept |-> <<>>, run |-> c.repeat_run, tripped |-> c.repeat_tripped]
          ELSE GuardPiece(text, guard[i - 1], i)
    IN guard[Len(text)]

(* advance_code_fence_state over text: f is [open, mid].                       *)
FencePiece(f, p) ==
    [open |-> IF p.k = "fence" /\ ~f.mid THEN ~f.open ELSE f.open,
     mid |-> p.k \notin EndsLine]

FenceWithin(c, text) ==
    FoldLeft(FencePiece, [open |-> FALSE, mid |-> c.mid_line], text)

FenceAfter(c, text) ==
    FoldLeft(FencePiece, [open |-> c.code_fence_open, mid |-> c.mid_line], text)

TextBlockReused(c) ==
    IF c.text_block_index # 0 THEN c
    ELSE [ContentBlockStart(c, "text") EXCEPT !.text_block_index = Len(c.blocks) + 1]

(* The text block to write to: a closed one is forgotten and a new one opened. *)
TextBlock(c) ==
    IF IsBlockOpenOfType(c, c.text_block_index, "text") THEN c
    ELSE [ContentBlockStart(c, "text") EXCEPT !.text_block_index = Len(c.blocks) + 1]

(* The guard's verdict g on text, and the code fence after what is kept.       *)
Guarded(c, text, g) ==
    [Drop(c, From(text, Len(g.kept) + 1))
        EXCEPT !.repeat_run = g.run, !.repeat_tripped = g.tripped]

Fenced(c, fence) == [c EXCEPT !.code_fence_open = fence.open, !.mid_line = fence.mid]

WriteText(c, text) == ContentBlockDelta(c, c.text_block_index, "text", text)

EmitKept(c, kept) ==
    IF kept = <<>> THEN c ELSE WriteText(TextBlock(Fenced(c, FenceAfter(c, kept))), kept)

EmitGuarded(c, text, g) == EmitKept(Guarded(c, text, g), g.kept)

EmitTextDeltaRaw(c, text) == EmitGuarded(c, text, RepeatGuardFilter(c, text))

-------------------------------------------------------------------------------
(* Tool calls.                                                                 *)

(* emit_completed_tool_use: the block of an id that was used before is found   *)
(* again, closed, and the manager drops what is written to it.                 *)
EmitCompletedToolUse(c, id) ==
    IF id \in DOMAIN c.tool_block_indices
      THEN ClosingText(c, "tool_use")
      ELSE LET c1 == [ContentBlockStart(c, "tool_use") EXCEPT
                        !.tool_block_indices =
                            [i \in DOMAIN @ \cup {id} |->
                                IF i = id THEN Len(c.blocks) + 1 ELSE @[i]]]
               at == Len(c.blocks) + 1
           IN ContentBlockStop(ContentBlockDelta(c1, at, "input", id), at)

(* The id of a call recovered from text: a fresh one, named by the piece that  *)
(* opened it.                                                                  *)
RecoveredId(piece) == <<"toolu", piece.n>>

-------------------------------------------------------------------------------
(* Recovering <invoke> blocks from text.                                       *)

InvokeOpens(buf) == Pairs(buf, "inv", {"oke", "okeU"})

FindInvokeStart(buf) == FirstOf({i \in InvokeOpens(buf) : ~QuotedBefore(buf, i)})

(* The last closing tag before the next opening one.                           *)
FindInvokeBlockEnd(buf, start) ==
    LET next == FirstOf({i \in InvokeOpens(buf) : i > start})
        boundary == IF next = 0 THEN Len(buf) + 1 ELSE next
    IN LastOf({i \in start .. boundary - 1 : buf[i].k = "invC"})

(* strip_trailing_stray_tokens: text up to the stray tokens it ends in, each   *)
(* on a line of its own, blank lines among them.                               *)
IsStrayLine(text, i) == text[i].k = "stray" /\ StartsLine(text, i)

TrailingStray(text) ==
    {i \in DOMAIN text :
        /\ IsStrayLine(text, i)
        /\ \A j \in i .. Len(text) : text[j].k = "nl" \/ IsStrayLine(text, j)}

StripTrailingStray(before) ==
    IF TrailingStray(before) = {} THEN before
    ELSE Upto(before, FirstOf(TrailingStray(before)) - 1)

InvokeLooksLikeRealLeak(before) == before = <<>> \/ Last(before).k \in EndsLine

(* partial_invoke_tag_suffix_len: from the last `<`, if no `>` follows it.     *)
PartialInvokeTagSuffix(buf) ==
    LET lt == LastOf({i \in DOMAIN buf : buf[i].k \in OpensAngle})
    IN IF lt # 0 /\ \A i \in lt .. Len(buf) : buf[i].k \notin ClosesAngle
         THEN Len(buf) - lt + 1 ELSE 0

HoldInvoke(c, buf) == [c EXCEPT !.invoke_sniff_buffer = buf]

(* An <invoke> after this text stands at the start of a line, outside a fence. *)
CouldBeCall(c, before) ==
    InvokeLooksLikeRealLeak(before) /\ ~FenceAfter(c, before).open

(* The recovery of a complete block buf[start..end]: the call if it stands at  *)
(* the start of a line, outside a code fence, and names a tool of the request; *)
(* otherwise text.                                                             *)
TakeInvoke(c, buf, before, start, end) ==
    IF CouldBeCall(c, before) /\ buf[start + 1].k = "oke"
      THEN EmitCompletedToolUse(
             EmitTextDeltaRaw(Drop(c, SubSeq(buf, Len(before) + 1, end)), before),
             RecoveredId(buf[start]))
      ELSE EmitTextDeltaRaw(c, Upto(buf, end))

(* A block that has not ended: held if it could still become a call.           *)
HoldOpenInvoke(c, buf, before, start, flush) ==
    LET upto == Upto(buf, start - 1)
        rest == From(buf, start)
    IN IF ~CouldBeCall(c, before) THEN EmitTextDeltaRaw(c, buf)
       ELSE IF flush \/ Len(rest) > MAX_INVOKE_HOLD
              THEN EmitTextDeltaRaw(EmitTextDeltaRaw(c, upto), rest)
       ELSE HoldInvoke(EmitTextDeltaRaw(c, upto), rest)

(* drain_invoke_sniff_buffer: s is [ctx, buf], buf what is left of the buffer  *)
(* taken out of the context.  One round of its loop, for a block that is       *)
(* complete.                                                                   *)
DrainNext(s) ==
    LET start == FindInvokeStart(s.buf)
        end == FindInvokeBlockEnd(s.buf, start)
        before == StripTrailingStray(Upto(s.buf, start - 1))
    IN IF start = 0 \/ end = 0 THEN s
       ELSE [ctx |-> TakeInvoke(s.ctx, s.buf, before, start, end),
             buf |-> From(s.buf, end + 1)]

(* All complete blocks: there are not more of them than pieces.                *)
DrainBlocks(c, buf) ==
    LET after[k \in 0 .. Len(buf)] ==
          IF k = 0 THEN [ctx |-> c, buf |-> buf] ELSE DrainNext(after[k - 1])
    IN after[Len(buf)]

(* What follows the last complete block.                                       *)
DrainRest(s, flush) ==
    LET start == FindInvokeStart(s.buf)
        before == StripTrailingStray(Upto(s.buf, start - 1))
        upto == Len(s.buf) - IF flush THEN 0 ELSE PartialInvokeTagSuffix(s.buf)
    IN IF start # 0 THEN HoldOpenInvoke(s.ctx, s.buf, before, start, flush)
       ELSE HoldInvoke(EmitTextDeltaRaw(s.ctx, Upto(s.buf, upto)), From(s.buf, upto + 1))

DrainInvokeSniffBuffer(c, flush) ==
    DrainRest(DrainBlocks(HoldInvoke(c, <<>>), c.invoke_sniff_buffer), flush)

CreateTextDeltaEvents(c, text) ==
    IF text = <<>> THEN c
    ELSE DrainInvokeSniffBuffer(HoldInvoke(c, c.invoke_sniff_buffer \o text), FALSE)

-------------------------------------------------------------------------------
(* Thinking.                                                                   *)

IsThinkingBlockOpen(c) == IsBlockOpenOfType(c, c.thinking_block_index, "thinking")

(* A thinking or signature delta is written without asking the manager.        *)
ThinkingDelta(c, text) ==
    IF c.thinking_block_index = 0 THEN c
    ELSE Emit(c, [ev |-> "thinking", at |-> c.thinking_block_index, data |-> text])

SignAndStop(c) ==
    IF c.thinking_block_index = 0 THEN c
    ELSE ContentBlockStop(
           Emit(ThinkingDelta(c, <<>>), [ev |-> "signature", at |-> c.thinking_block_index]),
           c.thinking_block_index)

StartThinkingBlock(c) ==
    [ContentBlockStart(c, "thinking") EXCEPT !.thinking_block_index = Len(c.blocks) + 1]

CloseThinkingBlockUnchecked(c) == SignAndStop(c)

CloseOpenThinkingBlock(c) == IF IsThinkingBlockOpen(c) THEN SignAndStop(c) ELSE c

CloseOpenTextBlock(c) ==
    ContentBlockStop([c EXCEPT !.text_block_index = 0],
                     IF IsBlockOpenOfType(c, c.text_block_index, "text")
                       THEN c.text_block_index ELSE 0)

FindThinkingStart(buf) ==
    FirstOf({i \in Pairs(buf, "thO", {"ing"}) :
                ~QuotedBefore(buf, i) /\ ~QuotedAfter(buf, i + 1)})

EndTags(buf) ==
    {i \in Pairs(buf, "thC", {"ing"}) : ~QuotedBefore(buf, i) /\ ~QuotedAfter(buf, i + 1)}

(* find_real_thinking_end_tag: followed by a blank line; a tag with nothing    *)
(* after it yet ends the search.                                               *)
FindThinkingEnd(buf) ==
    FirstOf({i \in EndTags(buf) : i + 2 <= Len(buf) /\ buf[i + 2].k = "nl"})

FindThinkingEndAtBufferEnd(buf) ==
    FirstOf({i \in EndTags(buf) : IsBlank(From(buf, i + 2))})

EndThinking(c, end) ==
    LET text == Upto(c.thinking_buffer, end - 1)
        c1 == IF text = <<>> THEN c ELSE ThinkingDelta(c, text)
    IN SignAndStop([c1 EXCEPT !.in_thinking_block = FALSE, !.thinking_extracted = TRUE])

(* The text after a closing tag at the end of the buffer is blank.             *)
EndThinkingAtBufferEnd(c) ==
    [EndThinking(c, FindThinkingEndAtBufferEnd(c.thinking_buffer)) EXCEPT !.thinking_buffer = <<>>]

FlushThinkingText(c) ==
    CreateTextDeltaEvents([c EXCEPT !.thinking_buffer = <<>>], c.thinking_buffer)

(* process_content_with_thinking, once the content is in the buffer: its loop  *)
(* enters at most one thinking block, leaves at most one, and then sends what  *)
(* cannot be the beginning of a tag.                                           *)
EnterTagged(c) ==
    LET start == FindThinkingStart(c.thinking_buffer)
        before == Upto(c.thinking_buffer, start - 1)
    IN IF c.in_thinking_block \/ c.thinking_extracted \/ start = 0 THEN c
       ELSE StartThinkingBlock(
              [(IF IsBlank(before) THEN c ELSE CreateTextDeltaEvents(c, before))
                 EXCEPT !.in_thinking_block = TRUE,
                        !.thinking_buffer = From(c.thinking_buffer, start + START_TAG)])

LeaveTagged(c) ==
    LET end == FindThinkingEnd(c.thinking_buffer)
    IN IF ~c.in_thinking_block \/ end = 0 THEN c
       ELSE [EndThinking(c, end) EXCEPT !.thinking_buffer = From(@, end + END_TAG)]

SendBuffered(c) ==
    LET buf == c.thinking_buffer
        sent == Upto(buf, Len(buf) - IF c.in_thinking_block THEN END_TAG ELSE START_TAG)
        kept == [c EXCEPT !.thinking_buffer = From(buf, Len(sent) + 1)]
    IN CASE c.in_thinking_block -> IF sent = <<>> THEN c ELSE ThinkingDelta(kept, sent)
         [] ~c.in_thinking_block /\ c.thinking_extracted -> FlushThinkingText(c)
         [] OTHER -> IF IsBlank(sent) THEN c ELSE CreateTextDeltaEvents(kept, sent)

ProcessContentWithThinking(c) == SendBuffered(LeaveTagged(EnterTagged(c)))

ProcessText(c, text) ==
    IF c.thinking_enabled
      THEN ProcessContentWithThinking([c EXCEPT !.thinking_buffer = @ \o text])
      ELSE CreateTextDeltaEvents(c, text)

(* A native thinking block ends when something else begins.                    *)
LeaveNativeThinking(c) == IF c.in_thinking_block THEN c ELSE CloseOpenThinkingBlock(c)

-------------------------------------------------------------------------------
(* The events.                                                                 *)

Filtered(c, filtered) ==
    Drop([c EXCEPT !.filter = filtered.filter], filtered.dropped)

ProcessFiltered(c, text) ==
    IF text = <<>> THEN c ELSE ProcessText(LeaveNativeThinking(c), text)

ProcessAssistantResponse(c, content) ==
    LET filtered == Filter(c.filter, content)
    IN ProcessFiltered(Filtered(c, filtered), filtered.out)

(* ensure_thinking_block: buffered text goes out first.                        *)
EnsureThinkingBlock(c) ==
    IF IsThinkingBlockOpen(c) THEN c
    ELSE LET c1 == [c EXCEPT !.thinking_buffer = <<>>]
             c2 == IF IsBlank(c.thinking_buffer) THEN c1
                   ELSE CreateTextDeltaEvents(c1, c.thinking_buffer)
         IN StartThinkingBlock([CloseOpenTextBlock(c2) EXCEPT !.thinking_extracted = TRUE])

(* Neither event looks at in_thinking_block.                                   *)
Mixed(c, native) == IF c.in_thinking_block THEN [c EXCEPT !.mixed = @ \cup {native}] ELSE c

ProcessReasoningContent(c, text) ==
    IF c.thinking_enabled THEN ThinkingDelta(EnsureThinkingBlock(Mixed(c, "reasoning")), text)
    ELSE CreateTextDeltaEvents(c, text)

ProcessRedactedContent(c) ==
    IF ~c.thinking_enabled THEN c
    ELSE LET c1 == CloseOpenTextBlock(CloseOpenThinkingBlock(Mixed(c, "redacted")))
         IN ContentBlockStop(ContentBlockStart(c1, "redacted_thinking"), Len(c1.blocks) + 1)

(* The thinking and the text that come before a tool call.                     *)
EndThinkingIfTagged(c) ==
    IF c.in_thinking_block /\ FindThinkingEndAtBufferEnd(c.thinking_buffer) # 0
      THEN EndThinkingAtBufferEnd(c) ELSE c

FlushSniffedText(c) ==
    IF c.thinking_enabled /\ ~c.in_thinking_block /\ ~c.thinking_extracted
      THEN FlushThinkingText(c) ELSE c

BeforeToolUse(c) ==
    FlushSniffedText(EndThinkingIfTagged(LeaveNativeThinking([c EXCEPT !.has_tool_use = TRUE])))

SetToolJsonErrorNot(c) == c    \* a mutant: the flag is not set

SetToolJsonError(c) == [c EXCEPT !.tool_json_error = TRUE, !.stop_reason = "error"]

(* ToolJsonAccumulator::push: no fragment of the call so far spoilt its JSON.  *)
WholeCall(c, id, valid) == valid /\ (id \in DOMAIN c.tools => c.tools[id])

(* One fragment of a structured call, and the call if this was the last one    *)
(* and the whole is valid JSON.                                                *)
CompleteCall(c, id, whole) ==
    IF whole THEN EmitCompletedToolUse([c EXCEPT !.done = @ \cup {id}], id)
    ELSE SetToolJsonError([c EXCEPT !.spoilt = @ \cup {id}])

TakeFragment(c, id, whole, stop) ==
    IF stop THEN CompleteCall([c EXCEPT !.tools = [i \in DOMAIN @ \ {id} |-> @[i]]], id, whole)
    ELSE [c EXCEPT !.tools =
            [i \in DOMAIN @ \cup {id} |-> IF i = id THEN whole ELSE @[i]]]

ProcessToolUse(c, id, valid, stop) ==
    TakeFragment(BeforeToolUse(c), id, WholeCall(c, id, valid), stop)

ProcessKiroEvent(c, event) ==
    CASE event.type = "text" -> ProcessAssistantResponse(c, event.text)
      [] event.type = "reasoning" -> ProcessReasoningContent(c, event.text)
      [] event.type = "redacted" -> ProcessRedactedContent(c)
      [] event.type = "tool" -> ProcessToolUse(c, event.id, event.valid, event.stop)
      [] event.type = "window_full" -> [c EXCEPT !.stop_reason = "model_context_window_exceeded"]
      [] event.type = "too_long" -> [c EXCEPT !.stop_reason = "max_tokens"]

-------------------------------------------------------------------------------
GenerateInitialEvents(c) ==
    LET c1 == MessageStart(c)
    IN IF c.thinking_enabled THEN c1
       ELSE [ContentBlockStart(c1, "text") EXCEPT !.text_block_index = 1]

(* What is left in the thinking buffer when the stream ends.                   *)
FlushThinkingBuffer(c) ==
    CASE c.thinking_buffer = <<>> -> c
      [] c.thinking_buffer # <<>> /\ ~c.in_thinking_block -> FlushThinkingText(c)
      [] c.thinking_buffer # <<>> /\ c.in_thinking_block ->
           IF FindThinkingEndAtBufferEnd(c.thinking_buffer) # 0 THEN EndThinkingAtBufferEnd(c)
           ELSE SignAndStop([ThinkingDelta(c, c.thinking_buffer) EXCEPT !.thinking_buffer = <<>>])

(* A response of thinking only gets a text block of one blank.                 *)
PadThinkingOnly(c) ==
    IF c.thinking_block_index # 0 /\ ~HasNonThinkingBlocks(c)
      THEN CreateTextDeltaEvents([c EXCEPT !.stop_reason = "max_tokens"], <<[k |-> "nl", n |-> 0]>>)
      ELSE c

(* finish of the accumulator: a call whose last fragment never came.           *)
CheckUnfinishedTools(c) ==
    IF ~c.tool_json_error /\ DOMAIN c.tools # {} THEN SetToolJsonError(c) ELSE c

FinishFilter(c) ==
    LET c1 == [c EXCEPT !.filter = [buffer |-> <<>>, stripping |-> FALSE]]
    IN IF c.filter.buffer = <<>> THEN c1 ELSE ProcessText(c1, c.filter.buffer)

FlushBuffers(c) ==
    DrainInvokeSniffBuffer(
        PadThinkingOnly(FlushThinkingBuffer(LeaveNativeThinking(FinishFilter(c)))), TRUE)

ErrorEvent(c) == IF c.tool_json_error THEN Emit(c, [ev |-> "error"]) ELSE c

GenerateFinalEvents(c) == ErrorEvent(FinalMessageEvents(CheckUnfinishedTools(FlushBuffers(c))))

=============================================================================
