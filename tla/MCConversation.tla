----------------------------- MODULE MCConversation -----------------------------
(* One conversation in each of a few scenarios: an API, a tool mode, a set of  *)
(* tools, what the client may do wrong, and what the upstream may answer.      *)
EXTENDS Conversation

MCLowered ==
    [Write |-> "write", Edit |-> "edit", Bash |-> "bash", Read |-> "read", Glob |-> "glob",
     Grep |-> "grep", LS |-> "ls", WebSearch |-> "websearch", Lookup |-> "lookup"]

MCShortened == [agents__a_very_long_name |-> "agents__a_very_l_1a2b",
                a_long_name |-> "a_long_n_3c4d"]

MCImages == [shot |-> [format |-> "png", data |-> "d1"],
             copy |-> [format |-> "jpeg", data |-> "d1"],
             tiff |-> [format |-> "tiff", data |-> "d2"],
             link |-> [format |-> "remote", data |-> "d3"]]

Call(name, input) == [id |-> "", name |-> name, input |-> input]

Says == [text |-> TRUE, thinking |-> FALSE, uses |-> <<>>, invokes |-> <<>>,
         override |-> "none", broken |-> FALSE]

Silent == [Says EXCEPT !.text = FALSE]

Calling(uses) == [Silent EXCEPT !.uses = uses]

Broken(r) == [r EXCEPT !.broken = TRUE]

Base == [api |-> "messages", native |-> TRUE, mode |-> CLAUDE_CODE, stream |-> FALSE, thinking |-> FALSE,
         tools |-> <<>>, images |-> MCImages, says |-> {<<"text">>}, returns |-> {<<"text">>},
         faults |-> {}, rounds |-> {Says}, max_turns |-> 2, max_items |-> 3]

Lines == {[path |-> "p", start_line |-> s, end_line |-> e, explanation |-> "why"] :
             s \in {4}, e \in {2, 5}}
         \cup {[path |-> "p", end_line |-> 3, explanation |-> "why"],
               [path |-> "p", explanation |-> "why"]}

(* The builtin tools of Claude Code, called in Kiro's terms.                   *)
BuiltinCalls ==
    {Call("read_file", input) : input \in Lines}
    \cup {Call("fs_write", [path |-> "p", text |-> "x"]),
          Call("str_replace", [path |-> "p", oldStr |-> "a", newStr |-> "b"]),
          Call("execute_bash", [command |-> "c"]),
          Call("file_search", [query |-> "q", excludePattern |-> "e", explanation |-> "why"]),
          Call("grep_search", [query |-> "q", includePattern |-> "i", caseSensitive |-> TRUE]),
          Call("list_directory", [path |-> "p", depth |-> 2, explanation |-> "why"])}

Search == Call("web_search", [query |-> "q"])

Agent(input) == Call("agents__a_very_l_1a2b", input)
Patch(input) == Call("apply_patch", input)

MCScenarios ==
    { \* Claude Code's own tools, each called with what its Kiro twin takes
      [Base EXCEPT !.tools = <<"Read", "Write", "Edit", "Bash", "Glob", "Grep", "LS",
                               "fs_append", "Lookup">>,
                   !.max_items = 4,
                   !.rounds = {Calling(<<c>>) : c \in BuiltinCalls}],
      \* parallel calls, and a client that repeats, forgets, undeclares
      [Base EXCEPT !.tools = <<"Lookup", "a_long_name">>, !.thinking = TRUE,
                   !.faults = {"repeat", "forget", "undeclare", "partial", "upstream"},
                   !.rounds = {[Says EXCEPT !.thinking = TRUE],
                               Calling(<<Call("Lookup", [q |-> "1"]),
                                         Call("a_long_n_3c4d", [q |-> "2"])>>),
                               [Says EXCEPT !.broken = TRUE, !.override = "max_tokens"]}],
      \* images, repeated and unsupported, in messages and in results
      [Base EXCEPT !.mode = RAW, !.tools = <<"Bash">>, !.max_turns = 3, !.max_items = 4,
                   !.says = {<<"shot">>, <<"copy", "tiff">>, <<"text">>},
                   !.returns = {<<"shot">>, <<"text", "copy">>},
                   !.rounds = {Says, Calling(<<Call("Bash", [command |-> "c"])>>)}],
      \* Chat Completions, streamed and not
      [Base EXCEPT !.api = "chat", !.stream = TRUE, !.tools = <<"Read", "a_long_name">>,
                   !.says = {<<"text">>, <<"link">>, <<"shot", "text">>},
                   !.faults = {"forget", "partial"},
                   !.rounds = {Says, Silent,
                               Calling(<<Call("a_long_n_3c4d", [q |-> "1"]),
                                         Call("read_file", [path |-> "p"])>>)}],
      \* Responses: namespaces, custom tools, searches, leaked calls
      [Base EXCEPT !.api = "responses", !.stream = TRUE,
                   !.tools = <<[type |-> "custom", name |-> "apply_patch"],
                               [type |-> "namespace", name |-> "agents",
                                tools |-> <<[type |-> "function", name |-> "a_very_long_name"],
                                            [type |-> "namespace", name |-> "deeper"]>>],
                               [type |-> "web_search", name |-> ""]>>,
                   !.faults = {"search"}, !.max_items = 2,
                   !.rounds = {[Says EXCEPT !.thinking = TRUE],
                               Calling(<<Patch([input |-> "x"]), Agent([q |-> "1"])>>),
                               [Says EXCEPT !.uses = <<Search>>],
                               [Says EXCEPT !.uses = <<Agent([q |-> "1"]), Search>>,
                                            !.invokes = <<Agent([q |-> "1"]),
                                                          Patch([patch |-> "y"]),
                                                          Search>>],
                               [Silent EXCEPT !.override = "max_tokens"]}],
      \* the loop for a Messages client: up to the limit, failing, mixed with its own call
      [Base EXCEPT !.tools = <<"web_search", "Lookup">>, !.faults = {"search"},
                   !.max_items = 2,
                   !.rounds = {Says, Silent, Calling(<<Search>>),
                               Calling(<<Search, Call("Lookup", [q |-> "1"])>>)}],
      \* the same, with calls that are cut off
      [Base EXCEPT !.tools = <<"web_search", "Lookup">>, !.max_items = 2,
                   !.rounds = {Broken(Calling(<<Search>>)),
                               Broken(Calling(<<Search, Call("Lookup", [q |-> "1"])>>))}],
      [Base EXCEPT !.api = "responses",
                   !.tools = <<[type |-> "custom", name |-> "apply_patch"]>>,
                   !.rounds = {Calling(<<Patch([input |-> "x"])>>),
                               Broken(Calling(<<Patch([input |-> "x"])>>))}],
      \* a search function of the client's own
      [Base EXCEPT !.native = FALSE, !.tools = <<"web_search", "Lookup">>,
                   !.rounds = {Says, Calling(<<Search, Call("Lookup", [q |-> "1"])>>)}],
      [Base EXCEPT !.api = "responses",
                   !.tools = <<[type |-> "function", name |-> "web_search"]>>,
                   !.rounds = {Says, Calling(<<Search>>)}],
      \* the same with parallel searches
      [Base EXCEPT !.tools = <<"Lookup", "web_search">>, !.max_turns = 1, !.max_items = 1,
                   !.rounds = {Says, Calling(<<Search, Search>>)}],
      \* a leaked call that nothing maps, found when the next round is converted
      [Base EXCEPT !.tools = <<"web_search", "Read">>, !.max_items = 1,
                   !.rounds = {[Says EXCEPT !.invokes = <<Call("Read", [pages |-> "1"])>>],
                               Calling(<<Search>>)}],
      \* only searches; nothing declared at all
      [Base EXCEPT !.tools = <<"web_search">>, !.says = {<<"text">>, <<"shot">>},
                   !.faults = {"search", "undeclare"}],
      [Base EXCEPT !.api = "responses", !.rounds = {Says, Calling(<<Search>>)}],
      \* two tools whose names agree but for case, both called, neither kept
      [Base EXCEPT !.tools = <<"Lookup", "lookup">>, !.faults = {"undeclare"},
                   !.max_turns = 3,
                   !.rounds = {Calling(<<Call("Lookup", [q |-> "1"])>>),
                               Calling(<<Call("lookup", [q |-> "1"])>>)}] }

-------------------------------------------------------------------------------
Asked == phase = "upstream"

(* The upstream refuses a call without its result and a result without its     *)
(* call: whatever the client repeated, forgot or left out, every call of the   *)
(* request has a result in the history or in the current message, none has two *)
(* there, and every result of the current message has its call.                *)
EveryCallAnswered ==
    Asked =>
        LET uses == Ids(UsesOf(request.history))
            now == request.current.results
        IN /\ uses \subseteq Ids(ResultsOf(request.history)) \cup Ids(now)
           /\ Ids(now) \subseteq uses \ Ids(ResultsOf(request.history))
           /\ Cardinality(Ids(now)) = Len(now)

(* User and assistant alternate from the system pair to the last answer        *)
(* (unless the client's conversation begins with an assistant's message), an   *)
(* assistant that calls tools also says something, the tool of every call is   *)
(* declared, and no tool of the request twice, whatever the case: two that     *)
(* differ in case only are both placeholders.                                  *)
HistoryWellFormed ==
    Asked =>
        LET h == request.history
            lower == [i \in DOMAIN request.tools |-> ToLower(request.tools[i])]
        IN /\ payload[1].role = "user" =>
                 \A i \in DOMAIN h : h[i].role = IF i % 2 = 1 THEN "user" ELSE "assistant"
           /\ Last(h).role = "assistant"
           /\ \A i \in DOMAIN h : h[i].uses # <<>> => h[i].text # <<>>
           /\ \A u \in Range(UsesOf(h)) : ToLower(u.name) \in Range(lower)
           /\ \A i, j \in DOMAIN lower :
                 i # j /\ lower[i] = lower[j] =>
                    /\ request.tools[i] # request.tools[j]
                    /\ request.tools[i] \notin Range(ConvertTools(DeclaredNames, conf.mode))

(* The upstream is told of its calls what it called: read back by the client,  *)
(* the call of the history is the call the upstream made, through renamed and  *)
(* shortened tools, rewritten arguments, namespaces and free-text tools.  One  *)
(* that was cut off, or was no JSON, is told back only after a search loop,    *)
(* and then as a call without arguments (decode_round), never with a part of   *)
(* them; outside the loop the request fails and there is no such call.         *)
Told(call) == IF call.cut THEN <<>> ELSE call.input

FreeText(input) ==
    IF DOMAIN input \in {{}, {"input"}, {"patch"}} THEN CustomInputText(input) ELSE ""

CallsRepeated ==
    Asked =>
        \A u \in Range(UsesOf(request.history)) :
            u.id \in DOMAIN calls =>
                /\ u.name = calls[u.id].name
                /\ \/ /\ FreeText(u.input) # ""
                      /\ FreeText(u.input) = FreeText(Told(calls[u.id]))
                   \/ MapToolInputFromKiro(u.name, u.input)
                        = MapToolInputFromKiro(u.name, Told(calls[u.id]))
                /\ calls[u.id].cut => calls[u.id].searching

(* Nothing the client says is lost, repeated or moved: the texts of its items  *)
(* up to the last one that counts as a user's are the texts of the request, in *)
(* their order, the proxy's own remarks aside.                                 *)
Remarks == {"[system]", "[identity ack]", "OK", " ", "[image omitted]", "[image attached]"}

ItemText(item) ==
    CASE conf.api = "responses" ->
           IF item.type = "message" THEN Texts(OfKind(item.content, "text")) ELSE <<>>
      [] conf.api = "chat" /\ item.role = "tool" -> <<>>
      [] OTHER -> Texts(OfKind(item.content, "thinking")) \o Texts(OfKind(item.content, "text"))

IsUserItem(item) ==
    CASE conf.api = "responses" ->
           \/ item.type = "function_call_output"
           \/ item.type = "message" /\ item.role = "user" /\ ContentBlocks(item.content) # <<>>
      [] conf.api = "chat" ->
           \/ item.role = "tool"
           \/ item.role = "user" /\ ContentBlocks(item.content) # <<>>
      [] OTHER -> item.role = "user"

SaidByClient ==
    LET last == Max({i \in DOMAIN items : IsUserItem(items[i])})
    IN FlattenSeq([i \in 1 .. last |-> ItemText(items[i])])

NothingSaidIsLost ==
    Asked /\ loop.round = 0 =>
        SelectSeq(FlattenSeq([i \in DOMAIN request.history |-> request.history[i].text])
                  \o request.current.text,
                  LAMBDA t : t \notin Remarks) = SaidByClient

(* An image is sent, and in the history once: the same screenshot, wherever it *)
(* comes again, in a message or in a tool result, is replaced by a remark.     *)
ImagesIn(blocks) ==
    LET own == OfKind(blocks, "image")
        results == OfKind(blocks, "tool_result")
    IN {own[i].img : i \in DOMAIN own}
       \cup UNION {{p.img : p \in Range(OfKind(results[i].content, "image"))} :
                      i \in DOMAIN results}

ImagesSentOnce ==
    Asked =>
        LET sent == FlattenSeq([i \in DOMAIN request.history |-> request.history[i].images])
            shown == UNION {ImagesIn(payload[i].content) : i \in DOMAIN payload}
        IN /\ Cardinality(Range(sent)) = Len(sent)
           /\ {img.data : img \in {s \in shown : s.format \in Formats}}
                = Range(sent) \cup Range(request.current.images)

(* What the client is given to execute: a web search never (it has no executor *)
(* for it, unless the tool is a function of its own), a call that also leaked into the text once, and stop_reason asks   *)
(* for a tool exactly when there is one.                                       *)
ToExecute == OfKind(answer.content, "tool_use")

OnlyClientCalls ==
    answer.status = "success" =>
        /\ NativeSearch => \A i \in DOMAIN ToExecute : ~IsSearch(ToExecute[i])
        /\ \A i, j \in DOMAIN ToExecute : i # j => ~SameCall(ToExecute[i], ToExecute[j])
        /\ answer.stop_reason \in {"tool_use", "end_turn"} =>
              (answer.stop_reason = "tool_use" <=> ToExecute # <<>>)

(* A Responses client reads every call in the form it declared the tool in:    *)
(* codex refuses a call whose kind, name or namespace is not the declared one. *)
CallsAsDeclared ==
    conf.api = "responses" =>
        LET declared == ConvertResponsesTools(conf.tools)
        IN \A i \in DOMAIN items :
              ItemCalls(items[i]) # {} =>
                  \E d \in Range(declared) :
                      /\ KiroName(Flat(d), conf.mode) = calls[items[i].call_id].name
                      /\ items[i].name = d.name
                      /\ items[i].namespace = d.namespace
                      /\ items[i].type = IF d.kind = "custom" THEN "custom_tool_call"
                                         ELSE "function_call"

(* Every request that reaches post_messages is recorded once, when it ends,    *)
(* and a recorded success carries all the credits its rounds and retries cost. *)
RecordedOnce ==
    [][ /\ Len(records') <= Len(records) + 1
        /\ phase # "client" => (phase' = "client" <=> records' # records)
        /\ (phase # "client" /\ phase' = "client") =>
              /\ Last(records').status = answer'.status
              /\ answer'.status = "success" => Last(records').credits = metered' ]_vars

(* However often the upstream asks for a search or answers with nothing: a     *)
(* request is answered within the calls its rounds and their retries allow.    *)
AnsweredWithinBudget ==
    metered <= (MAX_WEB_SEARCH_ROUNDS + 1) * (MAX_EMPTY_TOOL_RESULT_RETRIES + 1)
===============================================================================
