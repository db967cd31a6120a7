------------------------------- MODULE FrontEnds -------------------------------
(* src/anthropic/openai.rs and responses.rs: the Chat Completions and the      *)
(* Responses APIs, translated to a Messages request and back.                  *)
EXTENDS Converter

(* push_merged: Anthropic turns alternate, and an empty turn is no turn.       *)
PushReplaces(merged, role, blocks) ==
    IF blocks = <<>> THEN merged
    ELSE IF merged # <<>> /\ Last(merged).role = role
    THEN [merged EXCEPT ![Len(merged)].content = blocks]
    ELSE Append(merged, [role |-> role, content |-> blocks])

PushMerged(merged, role, blocks) ==
    IF blocks = <<>> THEN merged
    ELSE IF merged # <<>> /\ Last(merged).role = role
         THEN [merged EXCEPT ![Len(merged)].content = @ \o blocks]
         ELSE Append(merged, [role |-> role, content |-> blocks])

(* Of images only data: URLs can be passed on.                                 *)
ContentBlocks(parts) ==
    Those(parts, LAMBDA p : \/ p.k = "text"
                            \/ p.k = "image" /\ p.img.format # "remote")

ToolUse(call) ==
    [k |-> "tool_use", id |-> call.id, name |-> call.name, input |-> call.input]

(* The images of a tool's output are left out: only its text is collected.     *)
ToolResult(id, parts) ==
    [k |-> "tool_result", id |-> id,
     content |-> <<[k |-> "text", text |-> Texts(OfKind(parts, "text"))]>>]

-------------------------------------------------------------------------------
(* Chat Completions.                                                           *)
AddChatMessage(merged, m) ==
    CASE m.role = "user" -> PushMerged(merged, "user", ContentBlocks(m.content))
      [] m.role = "assistant" ->
           PushMerged(merged, "assistant",
                      ContentBlocks(m.content)
                      \o [i \in DOMAIN m.tool_calls |-> ToolUse(m.tool_calls[i])])
      [] m.role = "tool" ->
           PushMerged(merged, "user", <<ToolResult(m.tool_call_id, m.content)>>)
      [] OTHER -> merged        \* system and developer go to the system prompt

OpenaiToAnthropic(messages) == Accumulate(AddChatMessage, <<>>, messages)

(* What every translated answer is parsed into.                                *)
ParseAnthropicMessage(answer) ==
    LET searches == OfKind(answer.content, "server_tool_use")
        calls == OfKind(answer.content, "tool_use")
    IN [text |-> Texts(OfKind(answer.content, "text")),
        tool_calls |-> [i \in DOMAIN calls |->
                           [id |-> calls[i].id, name |-> calls[i].name,
                            input |-> calls[i].input]],
        thinking |-> Texts(OfKind(answer.content, "thinking")) \o answer.kiro_thinking,
        web_searches |-> [i \in DOMAIN searches |-> searches[i].query],
        finish_reason |->
            CASE answer.stop_reason = "tool_use" -> "tool_calls"
              [] answer.stop_reason \in {"max_tokens", "model_context_window_exceeded"} ->
                   "length"
              [] OTHER -> IF calls # <<>> THEN "tool_calls" ELSE "stop"]

TextPart(text) == IF text = <<>> THEN <<>> ELSE <<[k |-> "text", text |-> text]>>

BuildCompletionJson(p) ==
    [role |-> "assistant", content |-> TextPart(p.text), tool_calls |-> p.tool_calls,
     finish_reason |-> p.finish_reason]

(* A role chunk, a text chunk, a chunk per call with its index, a final chunk. *)
BuildStreamSse(p) ==
    <<[k |-> "role"]>>
    \o (IF p.text = <<>> THEN <<>> ELSE <<[k |-> "content", text |-> p.text]>>)
    \o [i \in DOMAIN p.tool_calls |-> [k |-> "call", index |-> i, call |-> p.tool_calls[i]]]
    \o <<[k |-> "finish", reason |-> p.finish_reason]>>

(* A client of the stream puts the message together again.                     *)
ReadChatChunk(m, chunk) ==
    CASE chunk.k = "content" -> [m EXCEPT !.content = TextPart(chunk.text)]
      [] chunk.k = "call" /\ chunk.index = Len(m.tool_calls) + 1 ->
           [m EXCEPT !.tool_calls = Append(@, chunk.call)]
      [] chunk.k = "finish" -> [m EXCEPT !.finish_reason = chunk.reason]
      [] OTHER -> m

ReadChatStream(chunks) ==
    Accumulate(ReadChatChunk, [role |-> "assistant", content |-> <<>>, tool_calls |-> <<>>,
                               finish_reason |-> "none"], chunks)

-------------------------------------------------------------------------------
(* Responses: the tools.  A namespace is flattened into the names the model    *)
(* sees; hosted web_search and other types are skipped.                        *)
FlatToolName(namespace, name) ==
    IF namespace = "" THEN name ELSE namespace \o "__" \o name

DeclaredIn(entries, namespace) ==
    LET kept == Those(entries, LAMBDA e : e.type \in {"function", "custom"})
    IN [i \in DOMAIN kept |->
           [kind |-> kept[i].type, name |-> kept[i].name, namespace |-> namespace]]

ConvertResponsesTools(entries) ==
    FlattenSeq([i \in DOMAIN entries |->
        IF entries[i].type = "namespace" THEN DeclaredIn(entries[i].tools, entries[i].name)
        ELSE DeclaredIn(<<entries[i]>>, "")])

Flat(d) == FlatToolName(d.namespace, d.name)

ToolKinds(declared) ==
    Accumulate(LAMBDA kinds, d : (Flat(d) :> d) @@ kinds, <<>>, declared)

(* The model always can search: alone, web_search gets a companion, which      *)
(* sends the request through the loop.                                         *)
WithWebSearch(names) ==
    IF names = <<>> THEN <<"noop", "web_search">>
    ELSE IF "web_search" \in Range(names) THEN names
    ELSE Append(names, "web_search")

ResponsesToolNames(declared) ==
    WithWebSearch([i \in DOMAIN declared |-> Flat(declared[i])])

-------------------------------------------------------------------------------
(* Responses: the input items.                                                 *)
TranslateInputItem(merged, item) ==
    CASE item.type = "function_call" ->
           PushMerged(merged, "assistant",
               <<ToolUse([id |-> item.call_id, name |-> FlatToolName(item.namespace, item.name),
                          input |-> item.arguments])>>)
      [] item.type = "custom_tool_call" ->
           PushMerged(merged, "assistant",
               <<ToolUse([id |-> item.call_id, name |-> FlatToolName(item.namespace, item.name),
                          input |-> [input |-> item.input]])>>)
      [] item.type \in {"function_call_output", "custom_tool_call_output"} ->
           PushMerged(merged, "user", <<ToolResult(item.call_id, item.output)>>)
      [] item.type = "message" /\ item.role \in {"user", "assistant"} ->
           PushMerged(merged, item.role, ContentBlocks(item.content))
      [] OTHER -> merged     \* reasoning, web_search_call and compaction items

ResponsesToAnthropic(items) == Accumulate(TranslateInputItem, <<>>, items)

-------------------------------------------------------------------------------
(* Responses: the answer, as a list of output items.                           *)
CustomInputText(input) ==
    IF Has(input, "input") THEN input.input
    ELSE IF Cardinality(DOMAIN input) = 1 THEN input[CHOOSE key \in DOMAIN input : TRUE]
    ELSE ToString(input)

CallItemFlat(call, kinds) ==
    [type |-> "function_call", call_id |-> call.id, name |-> call.name, namespace |-> "",
     arguments |-> call.input]

CallItem(call, kinds) ==
    LET d == IF call.name \in DOMAIN kinds THEN kinds[call.name]
             ELSE [kind |-> "function", name |-> call.name, namespace |-> ""]
    IN IF d.kind = "custom"
       THEN [type |-> "custom_tool_call", call_id |-> call.id, name |-> d.name,
             namespace |-> d.namespace, input |-> CustomInputText(call.input)]
       ELSE [type |-> "function_call", call_id |-> call.id, name |-> d.name,
             namespace |-> d.namespace, arguments |-> call.input]

BuildView(p, kinds) ==
    (IF p.thinking = <<>> THEN <<>> ELSE <<[type |-> "reasoning", summary |-> p.thinking]>>)
    \o [i \in DOMAIN p.web_searches |->
           [type |-> "web_search_call", query |-> p.web_searches[i]]]
    \o (IF p.text = <<>> THEN <<>>
        ELSE <<[type |-> "message", role |-> "assistant", content |-> TextPart(p.text)]>>)
    \o [i \in DOMAIN p.tool_calls |-> CallItem(p.tool_calls[i], kinds)]

(* The events of one item: added, its deltas, done with the complete item.     *)
Deltas ==
    [message |-> <<"content_part.added", "output_text.delta", "output_text.done",
                   "content_part.done">>,
     function_call |-> <<"function_call_arguments.delta", "function_call_arguments.done">>,
     custom_tool_call |-> <<"custom_tool_call_input.delta", "custom_tool_call_input.done">>,
     reasoning |-> <<"reasoning_summary_text.delta", "reasoning_summary_text.done">>,
     web_search_call |-> <<>>]

ItemEvents(item, index) ==
    <<[ev |-> "output_item.added", index |-> index]>>
    \o [i \in DOMAIN Deltas[item.type] |-> [ev |-> Deltas[item.type][i], index |-> index]]
    \o <<[ev |-> "output_item.done", index |-> index, item |-> item]>>

BuildResponsesSse(output, finish_reason) ==
    <<[ev |-> "created"], [ev |-> "in_progress"]>>
    \o FlattenSeq([i \in DOMAIN output |-> ItemEvents(output[i], i)])
    \o <<[ev |-> IF finish_reason = "length" THEN "incomplete" ELSE "completed"]>>

(* codex takes its items from the done events alone.                           *)
ReadResponsesStream(events) ==
    LET done == Those(events, LAMBDA e : e.ev = "output_item.done")
    IN [i \in DOMAIN done |-> done[i].item]
===============================================================================
