------------------------------- MODULE Converter -------------------------------
(* src/anthropic/converter.rs: what a Messages request becomes for the         *)
(* upstream, and what an upstream tool call becomes for the client.  A text is *)
(* a sequence of opaque fragments (the code joins them with line breaks); a    *)
(* tool's input is a function from argument names to values, JSON nulls left   *)
(* out.                                                                        *)
EXTENDS Integers, Sequences, FiniteSets, SequencesExt, TLC

CONSTANTS
    Lowered,    \* the lower-case form of the tool names that have upper-case letters
    Shortened   \* what shorten_tool_name makes of the names over TOOL_NAME_MAX_LEN

CLAUDE_CODE == "claude-code"
RAW == "raw"

ToLower(name) == IF name \in DOMAIN Lowered THEN Lowered[name] ELSE name

(* The loops of the code, as recursive functions.                              *)
Accumulate(Step(_, _), base, seq) ==
    LET after[i \in 0 .. Len(seq)] == IF i = 0 THEN base ELSE Step(after[i - 1], seq[i])
    IN after[Len(seq)]

Selected(seq, chosen) ==
    LET after[i \in 0 .. Len(seq)] ==
            IF i = 0 THEN <<>>
            ELSE IF i \in chosen THEN Append(after[i - 1], seq[i]) ELSE after[i - 1]
    IN after[Len(seq)]

Those(seq, Test(_)) == Selected(seq, {i \in DOMAIN seq : Test(seq[i])})

-------------------------------------------------------------------------------
(* Names of tools.  A name map sends a Kiro name to the client's name.         *)
Builtin ==
    [Write |-> "fs_write", Edit |-> "str_replace", Bash |-> "execute_bash",
     Read |-> "read_file", Glob |-> "file_search", Grep |-> "grep_search",
     LS |-> "list_directory", WebSearch |-> "web_search"]

IsBuiltin(name, mode) == mode = CLAUDE_CODE /\ name \in DOMAIN Builtin

KiroName(name, mode) ==
    IF IsBuiltin(name, mode) THEN Builtin[name]
    ELSE IF name \in DOMAIN Shortened THEN Shortened[name] ELSE name

(* The first client name keeps a builtin's entry; a long name overwrites its.  *)
NoteName(map, name, mode) ==
    IF IsBuiltin(name, mode) THEN map @@ (Builtin[name] :> name)
    ELSE IF name \in DOMAIN Shortened THEN (Shortened[name] :> name) @@ map
    ELSE map

-------------------------------------------------------------------------------
(* Inputs of tools.  A table names, for each argument to produce, the          *)
(* arguments it may come from; the first one present wins.                     *)
Rekey(obj, table) ==
    [key \in {k \in DOMAIN table : \E i \in DOMAIN table[k] : table[k][i] \in DOMAIN obj} |->
        obj[table[key][CHOOSE i \in DOMAIN table[key] :
                          /\ table[key][i] \in DOMAIN obj
                          /\ \A j \in 1 .. i - 1 : table[key][j] \notin DOMAIN obj]]]

ToKiroKeys ==
    [Write |-> [path |-> <<"file_path", "path">>, text |-> <<"content", "text">>],
     Edit |-> [path |-> <<"file_path", "path">>, oldStr |-> <<"old_string", "oldStr">>,
               newStr |-> <<"new_string", "newStr">>],
     Bash |-> [command |-> <<"command">>, timeout |-> <<"timeout">>],
     Read |-> [path |-> <<"file_path", "path">>, explanation |-> <<"explanation">>],
     Glob |-> [query |-> <<"pattern", "query">>,
               excludePattern |-> <<"excludePattern", "exclude">>,
               explanation |-> <<"explanation">>],
     Grep |-> [query |-> <<"pattern", "query">>, includePattern |-> <<"glob", "includePattern">>,
               excludePattern |-> <<"excludePattern", "exclude">>,
               caseSensitive |-> <<"caseSensitive", "case_sensitive">>,
               explanation |-> <<"explanation">>],
     LS |-> [path |-> <<"path">>, depth |-> <<"depth">>, explanation |-> <<"explanation">>],
     WebSearch |-> [query |-> <<"query">>]]

FromKiroKeys ==
    [fs_write |-> [file_path |-> <<"path", "file_path">>, content |-> <<"text", "content">>],
     str_replace |-> [file_path |-> <<"path", "file_path">>,
                      old_string |-> <<"oldStr", "old_string">>,
                      new_string |-> <<"newStr", "new_string">>],
     execute_bash |-> [command |-> <<"command">>, timeout |-> <<"timeout">>],
     read_file |-> [file_path |-> <<"path", "file_path">>],
     file_search |-> [pattern |-> <<"query", "pattern">>],
     grep_search |-> [pattern |-> <<"query", "pattern">>, glob |-> <<"includePattern", "glob">>,
                      case_sensitive |-> <<"caseSensitive", "case_sensitive">>],
     list_directory |-> [path |-> <<"path">>],
     web_search |-> [query |-> <<"query">>]]

Has(obj, key) == key \in DOMAIN obj

(* Read: offset and limit become the first and the last line, and back.        *)
LinesToKiro(obj) ==
    (IF Has(obj, "offset") THEN [start_line |-> obj.offset] ELSE <<>>)
    @@ (IF ~Has(obj, "limit") THEN <<>>
        ELSE [end_line |-> IF Has(obj, "offset") THEN obj.offset + obj.limit - 1
                           ELSE obj.limit])

LimitShort(obj) ==
    (IF Has(obj, "start_line") THEN [offset |-> obj.start_line] ELSE <<>>)
    @@ (IF Has(obj, "end_line") THEN [limit |-> obj.end_line] ELSE <<>>)

LinesFromKiro(obj) ==
    LET limit == IF Has(obj, "start_line") THEN obj.end_line - obj.start_line + 1
                 ELSE obj.end_line
    IN (IF Has(obj, "start_line") THEN [offset |-> obj.start_line] ELSE <<>>)
       @@ (IF Has(obj, "end_line") /\ limit > 0 THEN [limit |-> limit] ELSE <<>>)

(* Kiro's schema requires an explanation of these three.                       *)
Explained == {"Read", "Glob", "LS"}

(* Read.pages has no equivalent: the whole request is refused.                 *)
Unmappable(name, obj, mode) == IsBuiltin(name, mode) /\ name = "Read" /\ Has(obj, "pages")

MapToolInputToKiro(name, obj, mode) ==
    IF ~IsBuiltin(name, mode) THEN obj
    ELSE Rekey(obj, ToKiroKeys[name])
         @@ (IF name = "Read" THEN LinesToKiro(obj) ELSE <<>>)
         @@ (IF name \in Explained THEN [explanation |-> "mapped"] ELSE <<>>)

(* On the way back the Kiro name decides.                                      *)
MapToolInputFromKiro(name, obj) ==
    IF name \notin DOMAIN FromKiroKeys THEN obj
    ELSE Rekey(obj, FromKiroKeys[name])
         @@ (IF name = "read_file" THEN LinesFromKiro(obj) ELSE <<>>)

RestoreToolUse(use, names) ==
    [k |-> "tool_use", id |-> use.id,
     name |-> IF use.name \in DOMAIN names THEN names[use.name] ELSE use.name,
     input |-> MapToolInputFromKiro(use.name, use.input)]

-------------------------------------------------------------------------------
(* User content.  `c` collects texts, images and tool results; in the history, *)
(* where dedup is on, an image seen before is replaced by a remark.            *)
Omitted == <<"[image omitted]">>
Attached == <<"[image attached]">>
Blank == <<" ">>

Formats == {"jpeg", "png", "gif", "webp"}

Content0(seen, dedup) ==
    [text |-> <<>>, part |-> <<>>, had_image |-> FALSE, images |-> <<>>,
     results |-> <<>>, seen |-> seen, dedup |-> dedup]

ExtractImage(c, img, into) ==
    IF img.format \notin Formats THEN c
    ELSE IF c.dedup /\ img.data \in c.seen THEN [c EXCEPT ![into] = @ \o Omitted]
    ELSE [c EXCEPT !.images = Append(@, img.data),
                   !.seen = IF c.dedup THEN @ \cup {img.data} ELSE @]

ResultPart(c, part) ==
    IF part.k = "text" THEN [c EXCEPT !.part = @ \o part.text]
    ELSE ExtractImage([c EXCEPT !.had_image = TRUE], part.img, "part")

CloseResult(c, block) ==
    [c EXCEPT !.results = Append(@, [id |-> block.id,
                  text |-> IF c.part = <<>> /\ c.had_image THEN Attached ELSE c.part])]

ProcessBlock(c, block) ==
    CASE block.k = "text" -> [c EXCEPT !.text = @ \o block.text]
      [] block.k = "image" -> ExtractImage(c, block.img, "text")
      [] block.k = "tool_result" ->
           CloseResult(Accumulate(ResultPart, [c EXCEPT !.part = <<>>, !.had_image = FALSE],
                                  block.content), block)
      [] OTHER -> c

ProcessMessageContent(blocks, seen, dedup) ==
    Accumulate(ProcessBlock, Content0(seen, dedup), blocks)

UserEntry(c) ==
    [role |-> "user", text |-> c.text, images |-> c.images, results |-> c.results,
     uses |-> <<>>]

(* Assistant content: the thinking, the text, and the calls in Kiro's terms;   *)
(* the upstream wants a text beside calls.                                     *)
OfKind(blocks, kind) == Those(blocks, LAMBDA b : b.k = kind)

Texts(blocks) == FlattenSeq([i \in DOMAIN blocks |-> blocks[i].text])

ConvertAssistantMessage(msg, mode) ==
    LET calls == OfKind(msg.content, "tool_use")
    IN [text |-> Texts(OfKind(msg.content, "thinking")) \o Texts(OfKind(msg.content, "text")),
        uses |-> [i \in DOMAIN calls |->
                     [id |-> calls[i].id, name |-> KiroName(calls[i].name, mode),
                      input |-> MapToolInputToKiro(calls[i].name, calls[i].input, mode)]]]

AssistantEntry(text, uses) ==
    [role |-> "assistant", text |-> IF text = <<>> /\ uses # <<>> THEN Blank ELSE text,
     images |-> <<>>, results |-> <<>>, uses |-> uses]

MergeAssistantMessages(msgs, mode) ==
    AssistantEntry(FlattenSeq([i \in DOMAIN msgs |-> ConvertAssistantMessage(msgs[i], mode).text]),
                   FlattenSeq([i \in DOMAIN msgs |-> ConvertAssistantMessage(msgs[i], mode).uses]))

-------------------------------------------------------------------------------
(* The history: consecutive messages of one role form one run and one entry.   *)
AddToRuns(runs, msg) ==
    IF msg.role \notin {"user", "assistant"} THEN runs
    ELSE IF runs # <<>> /\ Last(runs)[1].role = msg.role
         THEN [runs EXCEPT ![Len(runs)] = Append(@, msg)]
         ELSE Append(runs, <<msg>>)

(* The client's system prompt, the thinking prefix and the identity policy,    *)
(* which always is there, and the upstream's promise to keep to it.            *)
SystemPair ==
    << [role |-> "user", text |-> <<"[system]">>, images |-> <<>>, results |-> <<>>,
        uses |-> <<>>],
       [role |-> "assistant", text |-> <<"[identity ack]">>, images |-> <<>>,
        results |-> <<>>, uses |-> <<>>] >>

Ok == AssistantEntry(<<"OK">>, <<>>)

ForgetsImages(h, run, mode) ==
    LET c == ProcessMessageContent(FlattenSeq([i \in DOMAIN run |-> run[i].content]), {}, TRUE)
    IN [h EXCEPT !.entries = Append(@, IF run[1].role = "user" THEN UserEntry(c)
                                       ELSE MergeAssistantMessages(run, mode))]

AddRun(h, run, mode) ==
    IF run[1].role = "assistant"
    THEN [h EXCEPT !.entries = Append(@, MergeAssistantMessages(run, mode))]
    ELSE LET c == ProcessMessageContent(FlattenSeq([i \in DOMAIN run |-> run[i].content]),
                                        h.seen, TRUE)
         IN [entries |-> Append(h.entries, UserEntry(c)), seen |-> c.seen]

BuildHistory(messages, mode) ==
    LET runs == Accumulate(AddToRuns, <<>>, Front(messages))
        built == Accumulate(LAMBDA h, run : AddRun(h, run, mode),
                            [entries |-> SystemPair, seen |-> {}], runs).entries
    IN IF Last(built).role = "user" THEN Append(built, Ok) ELSE built

-------------------------------------------------------------------------------
(* Pairing of calls and results.                                               *)
UsesOf(history) == FlattenSeq([i \in DOMAIN history |-> history[i].uses])
ResultsOf(history) == FlattenSeq([i \in DOMAIN history |-> history[i].results])
Ids(seq) == {seq[i].id : i \in DOMAIN seq}

(* A result of the current message stays if it answers a call of the history   *)
(* that nothing before it answers; a call that nothing answers is an orphan.   *)
Keep(kept, result, unpaired) ==
    IF result.id \in unpaired \ Ids(kept) THEN Append(kept, result) ELSE kept

ValidateToolPairing(history, results) ==
    LET unpaired == Ids(UsesOf(history)) \ Ids(ResultsOf(history))
    IN Accumulate(LAMBDA kept, result : Keep(kept, result, unpaired), <<>>, results)

KeepsOrphans(history, kept) == history

RemoveOrphanedToolUses(history, kept) ==
    LET answered == Ids(ResultsOf(history)) \cup Ids(kept)
    IN [i \in DOMAIN history |->
           [history[i] EXCEPT !.uses = Those(@, LAMBDA u : u.id \in answered)]]

-------------------------------------------------------------------------------
(* Tools.  Kiro ignores the case of a name: the first of a kind wins.          *)
Hidden(name, mode) == mode = CLAUDE_CODE /\ name = "fs_append"

AddTool(tools, name, mode) ==
    IF \/ Hidden(name, mode)
       \/ \E i \in DOMAIN tools : ToLower(tools[i]) = ToLower(KiroName(name, mode))
    THEN tools ELSE Append(tools, KiroName(name, mode))

ConvertTools(declared, mode) ==
    Accumulate(LAMBDA tools, name : AddTool(tools, name, mode), <<>>, declared)

(* A call of the history needs a tool of that name among the request's.        *)
NoPlaceholders(tools, history) == {}

Placeholders(tools, history) ==
    {u.name : u \in Range(UsesOf(history))}
    \ {n \in {u.name : u \in Range(UsesOf(history))} :
          \E i \in DOMAIN tools : ToLower(tools[i]) = ToLower(n)}

-------------------------------------------------------------------------------
(* convert_request.  Messages after the last user message are dropped.         *)
UserPositions(messages) == {i \in DOMAIN messages : messages[i].role = "user"}

UpToLastUser(messages) ==
    SubSeq(messages, 1, CHOOSE i \in UserPositions(messages) :
                            \A j \in UserPositions(messages) : j <= i)

CalledNames(messages) ==
    LET assistants == Those(Front(messages), LAMBDA m : m.role = "assistant")
        calls == FlattenSeq([i \in DOMAIN assistants |->
                                OfKind(assistants[i].content, "tool_use")])
    IN [i \in DOMAIN calls |-> calls[i].name]

HasUnmappable(messages, mode) ==
    \E i \in 1 .. Len(messages) - 1 :
        /\ messages[i].role = "assistant"
        /\ \E b \in Range(messages[i].content) :
              b.k = "tool_use" /\ Unmappable(b.name, b.input, mode)

Refused(error) == [error |-> error]

Paired(history, content, tools, names, kept) ==
    LET paired == RemoveOrphanedToolUses(history, kept)
    IN [error |-> "none",
        history |-> paired,
        current |-> [UserEntry(content) EXCEPT !.results = kept],
        tools |-> tools \o SetToSeq(Placeholders(tools, paired)),
        names |-> names]

Assemble(history, content, tools, names) ==
    Paired(history, content, tools, names, ValidateToolPairing(history, content.results))

NoteNames(called, map, mode) ==
    Accumulate(LAMBDA m, name : NoteName(m, name, mode), map, called)

DeclaredNameMap(declared, mode) ==
    NoteNames(Those(declared, LAMBDA n : ~Hidden(n, mode)), <<>>, mode)

(* The names a leaked <invoke> block may have to be reclaimed.                 *)
KnownToolNames(declared, mode) == Range(declared) \cup DOMAIN DeclaredNameMap(declared, mode)

ConvertPrepared(messages, declared, mode) ==
    Assemble(BuildHistory(messages, mode),
             ProcessMessageContent(Last(messages).content, {}, FALSE),
             ConvertTools(declared, mode),
             NoteNames(CalledNames(messages), DeclaredNameMap(declared, mode), mode))

ConvertRequest(messages, declared, mode) ==
    IF UserPositions(messages) = {} THEN Refused("EmptyMessages")
    ELSE IF HasUnmappable(UpToLastUser(messages), mode) THEN Refused("UnsupportedToolMapping")
    ELSE ConvertPrepared(UpToLastUser(messages), declared, mode)
===============================================================================
