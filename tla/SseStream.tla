------------------------------- MODULE SseStream -------------------------------
(* One streaming request (anthropic/handlers.rs, create_sse_stream and         *)
(* create_buffered_sse_stream): chunks of the upstream's body go through the   *)
(* decoder, every decoded event through the context, and what the context      *)
(* emits to the client, at once or, in the buffered variant, when the body     *)
(* has ended.  The environment writes frames whose shape a scenario limits.    *)
EXTENDS EventDecoder, StreamContext

CONSTANTS
    Scenarios,      \* what the upstream may send in one run, see ScenarioOK
    ToolIds,        \* ids of structured calls: pairs, as RecoveredId gives
    MAX_EVENTS      \* bound: frames in a response

(* A scenario: thinking requested or not, live or buffered, the texts an event *)
(* may carry, the other events, the kinds of corrupt frame, and whether a      *)
(* chunk may end inside a frame.  The upstream marks thinking with tags in the *)
(* text, with reasoning events of its own, or both.                            *)
ScenarioOK(s) ==
    /\ {s.thinking, s.live, s.split} \subseteq BOOLEAN
    /\ \A t \in s.texts : t \in Seq(PieceKinds) /\ t # <<>>
    /\ s.events \subseteq {"reasoning", "redacted", "tool", "window_full", "too_long"}
    /\ s.corrupt \subseteq {"crc", "prelude", "range", "long"}

(* The id of a recovered call is made up: `toolu_` and a fresh uuid.           *)
ASSUME ToolIdAssumption == \A id \in ToolIds : id[1] # "toolu"

ASSUME ScenarioAssumption == \A s \in Scenarios : ScenarioOK(s)

VARIABLES
    scenario,
    sent,       \* the upstream: pieces and frames written, corrupt frames among them,
                \* the half of a frame not yet written, and (history) the words
    decoder,
    ctx,        \* the StreamContext
    stream,     \* "open", "finished", or "gone" when the client went away
    status      \* what the usage record says: "none", "success", "error"

vars == <<scenario, sent, decoder, ctx, stream, status>>

Init ==
    /\ scenario \in Scenarios
    /\ sent = [pieces |-> 0, frames |-> 0, half |-> <<>>, corrupt |-> 0, words |-> {}]
    /\ decoder = NewDecoder
    /\ ctx = GenerateInitialEvents(NewContext(scenario.thinking))
    /\ stream = "open"
    /\ status = "none"

-------------------------------------------------------------------------------
(* The frames the upstream may write next.                                     *)

Numbered(kinds) == [i \in DOMAIN kinds |-> [k |-> kinds[i], n |-> sent.pieces + i]]

TextEvents == {[type |-> "text", text |-> Numbered(t)] : t \in scenario.texts}

ToolEvents ==
    {[type |-> "tool", id |-> id, valid |-> v, stop |-> st] :
        id \in ToolIds, v \in BOOLEAN, st \in BOOLEAN}

NextEvents ==
    TextEvents
    \cup (IF "reasoning" \in scenario.events
            THEN {[type |-> "reasoning", text |-> Numbered(<<"word">>)]} ELSE {})
    \cup (IF "tool" \in scenario.events THEN ToolEvents ELSE {})
    \cup {[type |-> t] : t \in scenario.events \ {"reasoning", "tool"}}

NextFrames ==
    IF sent.frames = MAX_EVENTS THEN {}
    ELSE {[kind |-> k, event |-> e] : k \in {"ok"} \cup scenario.corrupt, e \in NextEvents}

EventText(event) == IF event.type \in {"text", "reasoning"} THEN event.text ELSE <<>>

SentFrame(frame, half) ==
    [pieces |-> sent.pieces + Len(EventText(frame.event)),
     frames |-> sent.frames + 1,
     half |-> half,
     corrupt |-> sent.corrupt + IF frame.kind = "ok" THEN 0 ELSE 1,
     words |-> sent.words \cup WordsIn(EventText(frame.event))]

(* One chunk of the body arrives (Some(Ok(chunk))): it is fed, every frame     *)
(* that can be decoded is, and the events go through the context in order.     *)
ProcessFrames(frames) ==
    LET after[k \in 0 .. Len(frames)] ==
          IF k = 0 THEN ctx ELSE ProcessKiroEvent(after[k - 1], frames[k].event)
    IN after[Len(frames)]

Receive(data) ==
    /\ stream = "open"
    /\ LET decoded == DecodeIter(Feed(decoder, data))
       IN /\ decoder' = decoded.decoder
          /\ ctx' = ProcessFrames(decoded.frames)
    /\ UNCHANGED <<scenario, stream, status>>

(* A chunk of one frame, after the rest of the last one if that was split.     *)
ReceiveFrame ==
    \E frame \in NextFrames :
        /\ Receive(sent.half \o Cells(frame))
        /\ sent' = SentFrame(frame, <<>>)

(* The chunk ends inside the frame.                                            *)
ReceivePart ==
    /\ scenario.split
    /\ \E frame \in NextFrames :
        /\ Receive(sent.half \o <<Cells(frame)[1]>>)
        /\ sent' = SentFrame(frame, <<Cells(frame)[2]>>)

(* The chunk holds the rest of a frame and nothing else.                       *)
ReceiveRest ==
    /\ sent.half # <<>>
    /\ Receive(sent.half)
    /\ sent' = [sent EXCEPT !.half = <<>>]

(* The body ends (None): the final events, and one usage record.               *)
BodyEnds ==
    /\ stream = "open"
    /\ sent.half = <<>>
    /\ ctx' = GenerateFinalEvents(ctx)
    /\ status' = IF ctx'.tool_json_error THEN "error" ELSE "success"
    /\ stream' = "finished"
    /\ UNCHANGED <<scenario, sent, decoder>>

(* Reading the body fails (Some(Err)), possibly inside a frame.                *)
BodyFails ==
    /\ stream = "open"
    /\ ctx' = GenerateFinalEvents(ctx)
    /\ status' = "error"
    /\ stream' = "finished"
    /\ UNCHANGED <<scenario, sent, decoder>>

(* The client goes away: the stream is dropped, and nothing is recorded.       *)
ClientLeaves ==
    /\ stream = "open"
    /\ stream' = "gone"
    /\ UNCHANGED <<scenario, sent, decoder, ctx, status>>

Next ==
    \/ ReceiveFrame
    \/ ReceivePart
    \/ ReceiveRest
    \/ BodyEnds
    \/ BodyFails
    \/ ClientLeaves

Spec == Init /\ [][Next]_vars

(* What the client has been sent: the buffered variant waits for the end       *)
(* (BufferedStreamContext.event_buffer).                                       *)
Delivered == IF scenario.live \/ stream = "finished" THEN ctx.out ELSE <<>>

=============================================================================
