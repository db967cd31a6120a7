----------------------------- MODULE WebSearchLoop -----------------------------
(* src/anthropic/websearch_loop.rs: what one round of the loop that answers    *)
(* web searches itself does with what the upstream sent.  A round is           *)
(*   [text, thinking, invokes, uses, override]:                                *)
(* its text, the calls that leaked into the text as <invoke> blocks, and the   *)
(* structured calls, as the client would read them.                            *)
EXTENDS FrontEnds

CONSTANTS MAX_WEB_SEARCH_ROUNDS, MAX_EMPTY_TOOL_RESULT_RETRIES

ASSUME WebSearchAssumption ==
    MAX_WEB_SEARCH_ROUNDS \in Nat /\ MAX_EMPTY_TOOL_RESULT_RETRIES \in Nat

IsSearch(use) == use.name = "web_search"

SearchesForever(round_idx, uses) == uses # <<>> /\ \A i \in DOMAIN uses : IsSearch(uses[i])

ShouldSearchRound(round_idx, uses) ==
    /\ uses # <<>>
    /\ \A i \in DOMAIN uses : IsSearch(uses[i])
    /\ round_idx < MAX_WEB_SEARCH_ROUNDS

LastMessageHasToolResult(messages) ==
    Last(messages).role = "user" /\ OfKind(Last(messages).content, "tool_result") # <<>>

EmptyToolResultDisposition(messages, round, retries) ==
    IF \/ ~LastMessageHasToolResult(messages)
       \/ round.text # <<>> \/ round.invokes # <<>> \/ round.uses # <<>>
       \/ round.override # "none"
    THEN "accept"
    ELSE IF retries < MAX_EMPTY_TOOL_RESULT_RETRIES THEN "retry" ELSE "fail"

-------------------------------------------------------------------------------
(* What the client sees of a search.                                           *)
Presentation(use, found) ==
    << [k |-> "server_tool_use", name |-> use.name, query |-> use.input],
       [k |-> "web_search_tool_result", found |-> found] >>

(* The round goes back to the upstream: its calls, and a result for each.      *)
AppendSearchRound(messages, round, searched) ==
    messages \o
    << [role |-> "assistant", content |-> TextPart(round.text) \o round.uses],
       [role |-> "user",
        content |-> [i \in DOMAIN round.uses |->
                        [k |-> "tool_result", id |-> round.uses[i].id,
                         content |-> <<[k |-> "text",
                                        text |-> IF searched[i] THEN <<"[results]">>
                                                 ELSE <<"[no results]">>]>>]]] >>

(* A leaked block is reclaimed when its tool was declared, web_search aside,   *)
(* unless the same call arrived structured as well.                            *)
SameCall(a, b) == a.name = b.name /\ a.input = b.input

ReclaimedTwice(round, known) ==
    Those(round.invokes, LAMBDA use : use.kiro_name \in known \ {"web_search"})

Reclaimed(round, known) ==
    Those(round.invokes,
          LAMBDA use : /\ use.kiro_name \in known \ {"web_search"}
                       /\ ~\E i \in DOMAIN round.uses :
                              SameCall(use, round.uses[i]) /\ ~IsSearch(round.uses[i]))

Verbatim(round, known) ==
    FlattenSeq([i \in DOMAIN round.invokes |->
        IF round.invokes[i].kiro_name \in known \ {"web_search"} THEN <<>>
        ELSE <<"[invoke]">>])

BuildFlushContent(presentation, round, searched, known) ==
    presentation
    \o TextPart(round.text \o Verbatim(round, known))
    \o LET calls == Reclaimed(round, known)
       IN [i \in DOMAIN calls |-> ToolUse(calls[i])]
    \o FlattenSeq([i \in DOMAIN round.uses |->
           IF IsSearch(round.uses[i]) THEN Presentation(round.uses[i], searched[i])
           ELSE <<round.uses[i]>>])

ResolveFlushStopReason(round, content) ==
    IF round.override # "none" THEN round.override
    ELSE IF \/ \E i \in DOMAIN content : content[i].k = "tool_use" /\ ~IsSearch(content[i])
            \/ \E i \in DOMAIN round.uses : ~IsSearch(round.uses[i])
         THEN "tool_use" ELSE "end_turn"
===============================================================================
