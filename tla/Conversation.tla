------------------------------ MODULE Conversation ------------------------------
(* A client that keeps a conversation in its own protocol, the proxy that      *)
(* sends it to the upstream turn by turn (post_messages and the two front ends *)
(* before it), and an upstream that answers, calls tools, or fails.  The       *)
(* client really executes the calls it is given; it may also answer one twice, *)
(* forget early items, drop a tool, or keep half an answer.                    *)
EXTENDS WebSearchLoop

CONSTANTS
    Scenarios    \* api, mode, tools, ..., what client and upstream may do, and the
                 \* bounds max_turns (requests) and max_items (the client's own items)

IsSeq(s) == s \in Seq({s[i] : i \in DOMAIN s})

ASSUME ScenariosAssumption ==
    \A s \in Scenarios :
        /\ s.api \in {"messages", "chat", "responses"}
        /\ \A kinds \in s.says \cup s.returns : IsSeq(kinds)
        /\ IsSeq(s.tools)
        /\ s.api = "responses" =>
              \A i \in DOMAIN s.tools : s.tools[i].type = "namespace" => IsSeq(s.tools[i].tools)
        /\ \A r \in s.rounds : IsSeq(r.uses) /\ IsSeq(r.invokes)

VARIABLES
    conf,        \* the scenario
    tools,       \* the tools the client declares
    items,       \* the client's conversation, in the items of its API
    phase,       \* client | fast | upstream | search
    payload,     \* the Messages request being served
    request,     \* the Kiro request made of it
    loop,        \* the locals of run_web_search_loop
    answer,      \* the last answer
    calls,       \* what the upstream really called, by id, whether it was cut off, and
                 \* whether a search loop received it
    metered,     \* credits the upstream metered for the request being served
    records,     \* usage records
    count        \* turns begun, items added, and names used up

vars == <<conf, tools, items, phase, payload, request, loop, answer, calls, metered,
          records, count>>

Loop0 == [round |-> 0, retries |-> 0, presentation |-> <<>>, thinking |-> <<>>,
          outcome |-> [uses |-> <<>>], searched |-> <<>>]

NoAnswer == [status |-> "none", content |-> <<>>, stop_reason |-> "none",
             kiro_thinking |-> <<>>]

Init ==
    /\ conf \in Scenarios
    /\ tools = conf.tools
    /\ items = <<>>
    /\ phase = "client"
    /\ payload = <<>>
    /\ request = Refused("none")
    /\ loop = Loop0
    /\ answer = NoAnswer
    /\ calls = <<>>
    /\ metered = 0
    /\ records = <<>>
    /\ count = [turns |-> 0, items |-> 0, names |-> 0]

-------------------------------------------------------------------------------
(* The client's items.                                                         *)
Name(n) == ToString(count.names + n)

Parts(kinds) ==
    [i \in DOMAIN kinds |->
        IF kinds[i] = "text" THEN [k |-> "text", text |-> <<Name(i)>>]
        ELSE [k |-> "image", img |-> conf.images[kinds[i]]]]

Item(role, parts) ==
    CASE conf.api = "messages" -> [role |-> role, content |-> parts]
      [] conf.api = "chat" -> [role |-> role, content |-> parts, tool_calls |-> <<>>]
      [] conf.api = "responses" -> [type |-> "message", role |-> role, content |-> parts]

ResultItem(id, parts) ==
    CASE conf.api = "messages" ->
           [role |-> "user",
            content |-> <<[k |-> "tool_result", id |-> id, content |-> parts]>>]
      [] conf.api = "chat" -> [role |-> "tool", tool_call_id |-> id, content |-> parts]
      [] conf.api = "responses" ->
           [type |-> "function_call_output", call_id |-> id, output |-> parts]

ItemCalls(item) ==
    CASE conf.api = "messages" -> Ids(OfKind(item.content, "tool_use"))
      [] conf.api = "chat" -> IF item.role = "assistant" THEN Ids(item.tool_calls) ELSE {}
      [] conf.api = "responses" ->
           IF item.type \in {"function_call", "custom_tool_call"} THEN {item.call_id} ELSE {}

ItemResults(item) ==
    CASE conf.api = "messages" -> Ids(OfKind(item.content, "tool_result"))
      [] conf.api = "chat" -> IF item.role = "tool" THEN {item.tool_call_id} ELSE {}
      [] conf.api = "responses" ->
           IF item.type = "function_call_output" THEN {item.call_id} ELSE {}

Called == UNION {ItemCalls(items[i]) : i \in DOMAIN items}
Returned == UNION {ItemResults(items[i]) : i \in DOMAIN items}

Idle == <<phase, payload, request, loop, answer, calls, metered, records>>

Adds(new, names) ==
    /\ phase = "client"
    /\ count.items < conf.max_items
    /\ items' = items \o new
    /\ count' = [count EXCEPT !.items = @ + 1, !.names = @ + names]
    /\ UNCHANGED <<conf, tools, Idle>>

ClientSays == \E kinds \in conf.says : Adds(<<Item("user", Parts(kinds))>>, Len(kinds))

ClientReturns ==
    \E id \in Called, kinds \in conf.returns :
        /\ "repeat" \in conf.faults \/ id \notin Returned
        /\ Adds(<<ResultItem(id, Parts(kinds))>>, Len(kinds))

ClientKeepsPartial ==
    /\ "partial" \in conf.faults
    /\ Adds(<<Item("assistant", Parts(<<"text">>))>>, 1)

ClientForgets ==
    /\ phase = "client"
    /\ "forget" \in conf.faults
    /\ Len(items) > 1
    /\ items' = Tail(items)
    /\ UNCHANGED <<conf, tools, count, Idle>>

ClientUndeclares ==
    /\ phase = "client"
    /\ "undeclare" \in conf.faults
    /\ tools # <<>>
    /\ tools' = Tail(tools)
    /\ UNCHANGED <<conf, items, count, Idle>>

-------------------------------------------------------------------------------
(* A request arrives.                                                          *)
ToMessages ==
    CASE conf.api = "messages" -> items
      [] conf.api = "chat" -> OpenaiToAnthropic(items)
      [] conf.api = "responses" -> ResponsesToAnthropic(items)

DeclaredNames ==
    IF conf.api = "responses" THEN ResponsesToolNames(ConvertResponsesTools(tools)) ELSE tools

(* is_native_web_search_tool: whether a tool of that name is the upstream's    *)
(* search or the client's own function, which its tool_type tells.  Chat tools *)
(* have none; Responses adds the native one unless the client declares its own.*)
NativeSearch ==
    CASE conf.api = "messages" -> conf.native
      [] conf.api = "chat" -> FALSE
      [] conf.api = "responses" ->
           \A d \in Range(ConvertResponsesTools(tools)) : Flat(d) # "web_search"

HasWebSearchTool == NativeSearch /\ DeclaredNames = <<"web_search">>

HasWebSearchAmongTools ==
    /\ NativeSearch
    /\ Len(DeclaredNames) > 1
    /\ "web_search" \in Range(DeclaredNames)

Record(status, credits) == records' = Append(records, [status |-> status, credits |-> credits])

Ends == phase' = "client" /\ answer' = [NoAnswer EXCEPT !.status = "error"]

FailsUnrecorded(credits) ==
    Ends /\ UNCHANGED <<conf, tools, items, payload, request, loop, records>>

Fails(credits) ==
    /\ Ends
    /\ Record("error", credits)
    /\ UNCHANGED <<conf, tools, items, payload, request, loop>>

Begin(messages) ==
    /\ payload' = messages
    /\ loop' = Loop0
    /\ metered' = 0
    /\ count' = [count EXCEPT !.turns = @ + 1]
    /\ UNCHANGED <<conf, tools, items, calls>>

(* Chat and Responses refuse an empty conversation before post_messages.       *)
RefusedByFrontEnd(messages) ==
    /\ messages = <<>>
    /\ Ends
    /\ UNCHANGED <<request, records>>

RefusedByConversion(converted) ==
    /\ converted.error # "none"
    /\ request' = converted
    /\ Ends
    /\ Record("error", 0)

GoesToUpstream(converted) ==
    /\ converted.error = "none"
    /\ request' = converted
    /\ phase' = "upstream"
    /\ UNCHANGED <<answer, records>>

Serve(messages) ==
    \/ RefusedByFrontEnd(messages)
    \/ /\ messages # <<>>
       /\ HasWebSearchTool
       /\ phase' = "fast"
       /\ UNCHANGED <<request, answer, records>>
    \/ /\ messages # <<>>
       /\ ~HasWebSearchTool
       /\ \E converted \in {ConvertRequest(messages, DeclaredNames, conf.mode)} :
             RefusedByConversion(converted) \/ GoesToUpstream(converted)

ClientSends ==
    /\ phase = "client"
    /\ items # <<>>
    /\ count.turns < conf.max_turns
    /\ \E messages \in {ToMessages} : Begin(messages) /\ Serve(messages)

-------------------------------------------------------------------------------
(* An answer leaves, and the client appends it to its conversation.            *)
ChatItem(message) ==
    [role |-> "assistant", content |-> message.content, tool_calls |-> message.tool_calls]

ChatAnswer(p) ==
    <<ChatItem(IF conf.stream THEN ReadChatStream(BuildStreamSse(p))
               ELSE BuildCompletionJson(p))>>

ResponsesAnswer(p, view) ==
    IF conf.stream THEN ReadResponsesStream(BuildResponsesSse(view, p.finish_reason)) ELSE view

AnswerItems(a) ==
    CASE conf.api = "messages" -> <<[role |-> "assistant", content |-> a.content]>>
      [] conf.api = "chat" -> ChatAnswer(ParseAnthropicMessage(a))
      [] conf.api = "responses" ->
           ResponsesAnswer(ParseAnthropicMessage(a),
               BuildView(ParseAnthropicMessage(a), ToolKinds(ConvertResponsesTools(tools))))

Deliver(content, stop_reason, thinking, credits) ==
    /\ answer' = [status |-> "success", content |-> content, stop_reason |-> stop_reason,
                  kiro_thinking |-> thinking]
    /\ \E new \in {AnswerItems([answer EXCEPT !.content = content, !.stop_reason = stop_reason,
                                             !.kiro_thinking = thinking])} :
          items' = items \o new
    /\ phase' = "client"
    /\ Record("success", credits)

(* handle_websearch_request: one search, for the first text of the first       *)
(* message; its events are a text, the search, its results, and a summary.     *)
FastQuery ==
    IF payload[1].content # <<>> /\ payload[1].content[1].k = "text"
    THEN payload[1].content[1].text ELSE <<>>

FastSearch ==
    /\ phase = "fast"
    /\ UNCHANGED <<calls, metered, count>>
    /\ \/ /\ FastQuery # <<>>
          /\ Deliver(<<[k |-> "text", text |-> <<"[decision]">>]>>
                     \o Presentation([name |-> "web_search", input |-> FastQuery], TRUE)
                     \o <<[k |-> "text", text |-> <<"[summary]">>]>>,
                     "end_turn", <<>>, 0)
          /\ UNCHANGED <<conf, tools, payload, request, loop>>
       \/ (FastQuery = <<>> \/ "search" \in conf.faults) /\ Fails(0)

-------------------------------------------------------------------------------
(* The upstream answers: texts and ids get names of their own, the calls are   *)
(* restored for the client.  The last call of a broken answer is cut off, or   *)
(* its input is no JSON: the loop reads it as a call without arguments.        *)
Cut(r, i) == r.broken /\ i = Len(r.uses)
KeepsPartialInput(r, i) == r.uses[i].input
Received(r, i) == IF Cut(r, i) THEN <<>> ELSE r.uses[i].input

Restored(r) ==
    [text |-> IF r.text THEN <<Name(0)>> ELSE <<>>,
     thinking |-> IF r.thinking THEN <<"t" \o Name(0)>> ELSE <<>>,
     override |-> r.override,
     uses |-> [i \in DOMAIN r.uses |->
                  RestoreToolUse([r.uses[i] EXCEPT !.id = "c" \o Name(i),
                                                   !.input = Received(r, i)],
                                 request.names)],
     invokes |-> [i \in DOMAIN r.invokes |->
                     RestoreToolUse([r.invokes[i] EXCEPT !.id = "v" \o Name(i)], request.names)
                     @@ [kiro_name |-> r.invokes[i].name]]]

Originals(r) ==
    [id \in {"c" \o Name(i) : i \in DOMAIN r.uses} |->
        LET i == CHOOSE i \in DOMAIN r.uses : id = "c" \o Name(i)
        IN r.uses[i] @@ [cut |-> Cut(r, i), searching |-> HasWebSearchAmongTools]]
    @@ [id \in {"v" \o Name(i) : i \in DOMAIN r.invokes} |->
           r.invokes[CHOOSE i \in DOMAIN r.invokes : id = "v" \o Name(i)] 
           @@ [cut |-> FALSE, searching |-> HasWebSearchAmongTools]]

Known == KnownToolNames(DeclaredNames, conf.mode)

(* handle_non_stream_request: a call that is cut off or no JSON fails the       *)
(* request.                                                                    *)
BuildNonStreamContent(out) ==
    IF conf.thinking
    THEN (IF out.thinking = <<>> THEN <<>> ELSE <<[k |-> "thinking", text |-> out.thinking]>>)
         \o TextPart(out.text)
    ELSE TextPart(IF out.text = <<>> THEN out.thinking ELSE out.text)

DirectAnswer(r, out) ==
    IF r.broken THEN Fails(0)
    ELSE /\ Deliver(BuildNonStreamContent(out) \o out.uses,
                    IF out.uses # <<>> /\ out.override = "none" THEN "tool_use"
                    ELSE IF out.override = "none" THEN "end_turn" ELSE out.override,
                    <<>>, metered')
         /\ UNCHANGED <<conf, tools, payload, request, loop>>

(* One round of the loop: retried when empty after a tool result, fed back     *)
(* when it only searches, delivered otherwise.                                 *)
Accepted(out) ==
    [loop EXCEPT !.outcome = out, !.thinking = @ \o out.thinking, !.searched = <<>>]

NextSearch(l) ==
    {i \in DOMAIN l.outcome.uses : i > Len(l.searched) /\ IsSearch(l.outcome.uses[i])}

Flush(l) ==
    \E content \in {BuildFlushContent(l.presentation, l.outcome, l.searched, Known)} :
        /\ Deliver(content, ResolveFlushStopReason(l.outcome, content), l.thinking, metered')
        /\ UNCHANGED <<conf, tools, payload, request>>

LoopAccepts(l) ==
    /\ loop' = l
    /\ IF NextSearch(l) = {} THEN Flush(l)
       ELSE /\ phase' = "search"
            /\ UNCHANGED <<conf, tools, items, payload, request, answer, records>>

LoopRound(out) ==
    CASE EmptyToolResultDisposition(payload, out, loop.retries) = "accept" ->
           \E l \in {Accepted(out)} : LoopAccepts(l)
      [] EmptyToolResultDisposition(payload, out, loop.retries) = "retry" ->
           /\ loop' = [loop EXCEPT !.retries = @ + 1]
           /\ UNCHANGED <<conf, tools, items, phase, payload, request, answer, records>>
      [] OTHER ->
           /\ Ends
           /\ Record("error", metered')
           /\ UNCHANGED <<conf, tools, items, payload, request, loop>>

UpstreamAnswers ==
    /\ phase = "upstream"
    /\ \E r \in conf.rounds :
          /\ \A i \in DOMAIN r.uses : r.uses[i].name \in Range(request.tools)
          /\ metered' = metered + 1
          /\ calls' = Originals(r) @@ calls
          /\ count' = [count EXCEPT !.names = @ + 1 + Len(r.uses) + Len(r.invokes)]
          /\ \E out \in {Restored(r)} :
                IF HasWebSearchAmongTools THEN LoopRound(out) ELSE DirectAnswer(r, out)

(* The provider gives up, or the stream breaks off after some metering.        *)
UpstreamFails ==
    /\ phase = "upstream"
    /\ "upstream" \in conf.faults
    /\ Fails(0)
    /\ metered' \in {metered, metered + 1}
    /\ UNCHANGED <<calls, count>>

-------------------------------------------------------------------------------
(* The searches of a round run one after the other; one failure fails all.     *)
Searched(found) ==
    [loop EXCEPT !.searched =
        [i \in 1 .. Min(NextSearch(loop)) |->
            IF i <= Len(@) THEN @[i] ELSE i = Min(NextSearch(loop)) /\ found]]

Presented(l) ==
    FlattenSeq([i \in DOMAIN l.outcome.uses |->
                   Presentation(l.outcome.uses[i], l.searched[i])])

NextRound(l) ==
    /\ payload' = AppendSearchRound(payload, l.outcome, l.searched)
    /\ loop' = [l EXCEPT !.round = @ + 1, !.retries = 0,
                         !.presentation = @ \o Presented(l)]
    /\ \E converted \in {ConvertRequest(payload', DeclaredNames, conf.mode)} :
          RefusedByConversion(converted) \/ GoesToUpstream(converted)
    /\ UNCHANGED <<conf, tools, items>>

SearchReturns ==
    /\ phase = "search"
    /\ UNCHANGED <<metered, calls, count>>
    /\ \E found \in BOOLEAN : \E l \in {Searched(found)} :
          IF NextSearch(l) # {}
          THEN loop' = l /\ UNCHANGED <<conf, tools, items, phase, payload, request, answer,
                                        records>>
          ELSE IF ShouldSearchRound(l.round, l.outcome.uses) THEN NextRound(l)
          ELSE loop' = l /\ Flush(l)

SearchFails ==
    /\ phase = "search"
    /\ "search" \in conf.faults
    /\ Fails(metered)
    /\ UNCHANGED <<metered, calls, count>>

-------------------------------------------------------------------------------
Next ==
    \/ ClientSays \/ ClientReturns \/ ClientKeepsPartial \/ ClientForgets
    \/ ClientUndeclares \/ ClientSends
    \/ FastSearch \/ UpstreamAnswers \/ UpstreamFails \/ SearchReturns \/ SearchFails

Spec == Init /\ [][Next]_vars
===============================================================================
