---------------------------- MODULE SseStream_proofs ----------------------------
(* Proofs about the translation of a response, for every scenario, any ids of  *)
(* calls and all thresholds: whatever the upstream sends and however it is cut *)
(* into chunks and frames, the client reads a well-formed message.             *)
EXTENDS MCSseStream, SequenceTheorems, FiniteSetTheorems, WellFoundedInduction, TLAPS

-------------------------------------------------------------------------------
(* Induction, for scans over a sequence.                                       *)

(* A nonempty set of naturals has a least element.                             *)
LEMMA LeastNat ==
    ASSUME NEW S, S \subseteq Nat, S # {}
    PROVE  \E m \in S : \A n \in S : m <= n
<1>1. PICK m \in S : \A n \in S : ~ (<<n, m>> \in OpToRel(<, Nat))
  BY NatLessThanWellFounded, WFMin
<1>2. ASSUME NEW n \in S, n < m PROVE FALSE
  <2>1. n \in Nat /\ m \in Nat
    OBVIOUS
  <2>2. <<n, m>> \in OpToRel(<, Nat)
    BY <1>2, <2>1 DEF OpToRel
  <2> QED
    BY <1>1, <2>2
<1>3. \A n \in S : m <= n
  BY <1>2
<1> QED
  BY <1>3

LEMMA UpTo ==
    ASSUME NEW n \in Nat, NEW G, 0 \in G,
           \A k \in 1 .. n : k - 1 \in G => k \in G
    PROVE  \A k \in 0 .. n : k \in G
<1> DEFINE Bad == {k \in 0 .. n : k \notin G}
<1> SUFFICES ASSUME Bad # {} PROVE FALSE
  OBVIOUS
<1>1. PICK b \in Bad : \A k \in Bad : b <= k
  <2>1. Bad \subseteq Nat
    OBVIOUS
  <2> HIDE DEF Bad
  <2> QED
    BY <2>1, LeastNat
<1>2. b \in 1 .. n /\ b - 1 \in 0 .. n
  OBVIOUS
<1>3. b - 1 \in G
  BY <1>1, <1>2
<1> QED
  BY <1>2, <1>3

-------------------------------------------------------------------------------
(* The client.                                                                 *)

(* What the client is after each of the first n events.                        *)
ReadsUpto(m, events, n) ==
    m = [i \in 0 .. n |-> IF i = 0 THEN Client0 ELSE Read(m[i - 1], events[i])]

LEMMA ReadsExists ==
    ASSUME NEW events, NEW n \in Nat
    PROVE  \E m : ReadsUpto(m, events, n)
<1> DEFINE G == {k \in 0 .. n : \E m : ReadsUpto(m, events, k)}
<1>1. 0 \in G
  <2>1. ReadsUpto([i \in 0 .. 0 |-> Client0], events, 0)
    BY DEF ReadsUpto
  <2> QED
    BY <2>1
<1>2. ASSUME NEW k \in 1 .. n, k - 1 \in G PROVE k \in G
  <2>1. PICK m : ReadsUpto(m, events, k - 1)
    BY <1>2
  <2> DEFINE e == [i \in 0 .. k |-> IF i = k THEN Read(m[k - 1], events[k]) ELSE m[i]]
  <2>2. \A i \in 0 .. k : e[i] = IF i = 0 THEN Client0 ELSE Read(e[i - 1], events[i])
    BY <2>1 DEF ReadsUpto
  <2>3. ReadsUpto(e, events, k)
    BY <2>2 DEF ReadsUpto
  <2> QED
    BY <2>3
<1>3. \A k \in 0 .. n : k \in G
  <2> HIDE DEF G
  <2> QED
    BY <1>1, <1>2, UpTo
<1> QED
  BY <1>3

LEMMA ReadAllIs ==
    ASSUME NEW events, Len(events) \in Nat
    PROVE  \E m : ReadsUpto(m, events, Len(events)) /\ ReadAll(events) = m[Len(events)]
<1> DEFINE m == CHOOSE m : ReadsUpto(m, events, Len(events))
<1>1. ReadsUpto(m, events, Len(events))
  BY ReadsExists
<1>2. ReadAll(events) = m[Len(events)]
  BY Zenon DEF ReadAll, ReadsUpto
<1> QED
  BY <1>1, <1>2

LEMMA ReadAppend ==
    ASSUME NEW S, NEW events \in Seq(S), NEW e \in S
    PROVE  ReadAll(Append(events, e)) = Read(ReadAll(events), e)
<1> DEFINE more == Append(events, e)
           n == Len(events)
<1>1. n \in Nat /\ Len(more) = n + 1
  OBVIOUS
<1>2. \A i \in 1 .. n : more[i] = events[i]
  OBVIOUS
<1>3. more[n + 1] = e
  OBVIOUS
<1>4. PICK m : ReadsUpto(m, events, n) /\ ReadAll(events) = m[n]
  BY <1>1, ReadAllIs
<1> HIDE DEF more
<1>5. PICK l : ReadsUpto(l, more, n + 1) /\ ReadAll(more) = l[n + 1]
  <2>1. Len(more) \in Nat
    BY <1>1
  <2>2. PICK l : ReadsUpto(l, more, Len(more)) /\ ReadAll(more) = l[Len(more)]
    BY <2>1, ReadAllIs
  <2> QED
    BY <1>1, <2>2
<1> HIDE DEF n
<1> DEFINE G == {k \in 0 .. n : l[k] = m[k]}
<1>6. 0 \in G
  BY <1>1, <1>4, <1>5 DEF ReadsUpto
<1>7. ASSUME NEW k \in 1 .. n, k - 1 \in G PROVE k \in G
  <2>1. l[k] = Read(l[k - 1], more[k]) /\ m[k] = Read(m[k - 1], events[k])
    BY <1>1, <1>4, <1>5 DEF ReadsUpto
  <2> QED
    BY <2>1, <1>2, <1>7
<1>8. l[n] = m[n]
  <2>1. \A k \in 0 .. n : k \in G
    <3> HIDE DEF G
    <3> QED
      BY <1>1, <1>6, <1>7, UpTo
  <2> QED
    BY <1>1, <2>1
<1>9. l[n + 1] = Read(l[n], more[n + 1])
  BY <1>1, <1>5 DEF ReadsUpto
<1> QED
  BY <1>3, <1>4, <1>5, <1>8, <1>9 DEF more

LEMMA ReadNothing == ReadAll(<<>>) = Client0
<1>1. Len(<<>>) = 0
  OBVIOUS
<1>2. PICK m : ReadsUpto(m, <<>>, 0) /\ ReadAll(<<>>) = m[0]
  BY <1>1, ReadAllIs
<1> QED
  BY <1>2 DEF ReadsUpto

(* The events of t after those of s, one by one.                               *)
LEMMA ReadConcat ==
    ASSUME NEW S, NEW s \in Seq(S), NEW t \in Seq(S)
    PROVE  \E m : /\ m[0] = ReadAll(s) /\ ReadAll(s \o t) = m[Len(t)]
                  /\ \A k \in 1 .. Len(t) : m[k] = Read(m[k - 1], t[k])
<1> DEFINE n == Len(s)
           all == s \o t
<1>1. n \in Nat /\ Len(t) \in Nat /\ Len(all) = n + Len(t)
  BY ConcatProperties, LenProperties
<1>2. \A i \in 1 .. n : all[i] = s[i]
  BY <1>1, ConcatProperties
<1>3. \A k \in 1 .. Len(t) : all[n + k] = t[k]
  BY <1>1, ConcatProperties
<1> HIDE DEF all
<1>4. PICK m : ReadsUpto(m, s, n) /\ ReadAll(s) = m[n]
  BY <1>1, ReadAllIs
<1>5. PICK l : ReadsUpto(l, all, n + Len(t)) /\ ReadAll(all) = l[n + Len(t)]
  <2>1. Len(all) \in Nat
    BY <1>1
  <2>2. PICK l : ReadsUpto(l, all, Len(all)) /\ ReadAll(all) = l[Len(all)]
    BY <2>1, ReadAllIs
  <2> QED
    BY <1>1, <2>2
<1> HIDE DEF n
<1>6. \A i \in 1 .. n + Len(t) : l[i] = Read(l[i - 1], all[i])
  <2> TAKE i \in 1 .. n + Len(t)
  <2>1. i \in 0 .. n + Len(t) /\ i # 0
    BY <1>1
  <2> QED
    BY <2>1, <1>5 DEF ReadsUpto
<1>7. \A i \in 1 .. n : m[i] = Read(m[i - 1], s[i])
  BY <1>1, <1>4 DEF ReadsUpto
<1> DEFINE G == {k \in 0 .. n : l[k] = m[k]}
<1>8. 0 \in G
  BY <1>1, <1>4, <1>5 DEF ReadsUpto
<1>9. ASSUME NEW k \in 1 .. n, k - 1 \in G PROVE k \in G
  <2>1. l[k] = Read(l[k - 1], all[k]) /\ m[k] = Read(m[k - 1], s[k])
    BY <1>1, <1>6, <1>7
  <2> QED
    BY <2>1, <1>2, <1>9
<1>10. l[n] = m[n]
  <2>1. \A k \in 0 .. n : k \in G
    <3> HIDE DEF G
    <3> QED
      BY <1>1, <1>8, <1>9, UpTo
  <2> QED
    BY <1>1, <2>1
<1>11. ASSUME NEW k \in 1 .. Len(t) PROVE l[n + k] = Read(l[n + (k - 1)], t[k])
  <2>1. n + k \in 1 .. n + Len(t) /\ (n + k) - 1 = n + (k - 1)
    BY <1>1
  <2> DEFINE i == n + k
  <2>2. i \in 1 .. n + Len(t) /\ i - 1 = n + (k - 1)
    BY <2>1
  <2> HIDE DEF i
  <2>3. l[i] = Read(l[i - 1], all[i])
    BY <2>2, <1>6
  <2>4. l[i] = Read(l[n + (k - 1)], all[i])
    BY <2>2, <2>3
  <2> QED
    BY <2>4, <1>3 DEF i
<1> DEFINE r == [k \in 0 .. Len(t) |-> l[n + k]]
<1>12. r[0] = ReadAll(s) /\ ReadAll(all) = r[Len(t)]
  BY <1>1, <1>4, <1>5, <1>10
<1>13. \A k \in 1 .. Len(t) : r[k] = Read(r[k - 1], t[k])
  <2> TAKE k \in 1 .. Len(t)
  <2>1. k - 1 \in 0 .. Len(t) /\ k \in 0 .. Len(t)
    BY <1>1
  <2> QED
    BY <2>1, <1>11
<1> HIDE DEF r
<1> QED
  BY <1>12, <1>13 DEF all

-------------------------------------------------------------------------------
(* Events sent.                                                                *)

IsSeq(s) == \E S : s \in Seq(S)

(* out is followed by events of these kinds.                                   *)
Adds(out, more, kinds) ==
    /\ IsSeq(out) /\ IsSeq(more)
    /\ Len(out) <= Len(more)
    /\ \A i \in 1 .. Len(out) : more[i] = out[i]
    /\ \A i \in Len(out) + 1 .. Len(more) : more[i].ev \in kinds

LEMMA LenIsNat == ASSUME NEW s, IsSeq(s) PROVE Len(s) \in Nat /\ DOMAIN s = 1 .. Len(s)
BY DEF IsSeq

LEMMA AddsNothing == ASSUME NEW out, NEW kinds, IsSeq(out) PROVE Adds(out, out, kinds)
BY LenIsNat DEF Adds

LEMMA AddsMore ==
    ASSUME NEW a, NEW b, NEW c, NEW J, NEW K, Adds(a, b, J), Adds(b, c, K)
    PROVE  Adds(a, c, J \cup K)
<1>1. Len(a) \in Nat /\ Len(b) \in Nat /\ Len(c) \in Nat
  BY LenIsNat DEF Adds
<1>2. \A i \in 1 .. Len(a) : c[i] = a[i]
  BY <1>1 DEF Adds
<1>3. \A i \in Len(a) + 1 .. Len(c) : c[i].ev \in J \cup K
  <2> TAKE i \in Len(a) + 1 .. Len(c)
  <2>1. CASE i <= Len(b)
    <3>1. i \in 1 .. Len(b) /\ i \in Len(a) + 1 .. Len(b)
      BY <1>1, <2>1
    <3> QED
      BY <3>1 DEF Adds
  <2>2. CASE ~ (i <= Len(b))
    BY <1>1, <2>2 DEF Adds
  <2> QED
    BY <2>1, <2>2
<1> QED
  BY <1>1, <1>2, <1>3 DEF Adds

LEMMA AppendAdds ==
    ASSUME NEW out, IsSeq(out), NEW e
    PROVE  /\ Adds(out, Append(out, e), {e.ev})
           /\ Len(Append(out, e)) = Len(out) + 1 /\ Append(out, e)[Len(out) + 1] = e
           /\ ReadAll(Append(out, e)) = Read(ReadAll(out), e)
<1>1. PICK S : out \in Seq(S)
  BY DEF IsSeq
<1> DEFINE T == S \cup {e}
<1>2. out \in Seq(T) /\ e \in T
  BY <1>1, SeqMonotonic
<1> HIDE DEF T
<1>3. /\ Append(out, e) \in Seq(T) /\ Len(Append(out, e)) = Len(out) + 1
      /\ \A i \in 1 .. Len(out) : Append(out, e)[i] = out[i]
      /\ Append(out, e)[Len(out) + 1] = e
  BY <1>2, AppendProperties
<1>4. Len(out) \in Nat
  BY LenIsNat
<1>5. ReadAll(Append(out, e)) = Read(ReadAll(out), e)
  BY <1>2, ReadAppend
<1> HIDE DEF IsSeq
<1>6. IsSeq(Append(out, e))
  BY <1>3 DEF IsSeq
<1> QED
  BY <1>3, <1>4, <1>5, <1>6 DEF Adds

-------------------------------------------------------------------------------
(* The state manager.                                                          *)

Fields ==
    {"blocks", "started", "delta_sent", "ended", "stop_reason", "has_tool_use", "out",
     "filter", "thinking_enabled", "thinking_buffer", "in_thinking_block",
     "thinking_extracted", "thinking_block_index", "text_block_index",
     "invoke_sniff_buffer", "code_fence_open", "mid_line", "repeat_run",
     "repeat_tripped", "tools", "tool_block_indices", "tool_json_error", "dropped", "done", "spoilt", "mixed"}

BlockTypes == {"text", "thinking", "tool_use", "redacted_thinking"}

(* The blocks as a client sees them that has read all; those in X are complete *)
(* and not stopped yet.                                                        *)
Seen(blocks, X) ==
    [i \in DOMAIN blocks |->
        [type |-> blocks[i].type,
         state |-> IF ~ blocks[i].open THEN "stopped"
                   ELSE IF i \in X THEN "complete" ELSE "open"]]

(* No redacted event came inside a block that a <thinking> tag opened.         *)
Clean(c) == "redacted" \notin c.mixed

(* What the client has read is what the manager keeps of the message.          *)
Managed(c, X) ==
    /\ DOMAIN c = Fields
    /\ c.blocks \in Seq([type : BlockTypes, open : BOOLEAN])
    /\ c.started = TRUE /\ c.delta_sent = FALSE /\ c.ended = FALSE
    /\ IsSeq(c.out)
    /\ Clean(c) => ReadAll(c.out) = [phase |-> "content", blocks |-> Seen(c.blocks, X)]

Keeps(c, d, F) == DOMAIN d = DOMAIN c /\ \A f \in Fields \ F : d[f] = c[f]

LEMMA SeenIs ==
    ASSUME NEW blocks \in Seq([type : BlockTypes, open : BOOLEAN]), NEW X
    PROVE  /\ Seen(blocks, X) \in Seq([type : BlockTypes, state : {"stopped", "complete", "open"}])
           /\ DOMAIN Seen(blocks, X) = 1 .. Len(blocks)
           /\ Len(Seen(blocks, X)) = Len(blocks)
           /\ \A i \in 1 .. Len(blocks) :
                 Seen(blocks, X)[i] =
                     [type |-> blocks[i].type,
                      state |-> IF ~ blocks[i].open THEN "stopped"
                                ELSE IF i \in X THEN "complete" ELSE "open"]
<1>1. DOMAIN blocks = 1 .. Len(blocks) /\ Len(blocks) \in Nat
  BY LenProperties
<1>2. Seen(blocks, X) \in Seq([type : BlockTypes, state : {"stopped", "complete", "open"}])
  <2> DEFINE T == [type : BlockTypes, state : {"stopped", "complete", "open"}]
  <2>1. \A i \in 1 .. Len(blocks) : blocks[i] \in [type : BlockTypes, open : BOOLEAN]
    BY <1>1, ElementOfSeq
  <2>2. \A i \in 1 .. Len(blocks) :
           [type |-> blocks[i].type,
            state |-> IF ~ blocks[i].open THEN "stopped"
                      ELSE IF i \in X THEN "complete" ELSE "open"] \in T
    BY <2>1
  <2> HIDE DEF T
  <2>3. Seen(blocks, X) \in [1 .. Len(blocks) -> T]
    BY <1>1, <2>2 DEF Seen
  <2>4. Seen(blocks, X) \in Seq(T)
    BY <1>1, <2>3, SeqDef
  <2> QED
    BY <2>4 DEF T
<1> QED
  BY <1>1, <1>2, LenProperties DEF Seen

(* One event more, when the client can read it.                                *)
LEMMA EmitKeeps ==
    ASSUME NEW c, NEW X, NEW Y, NEW e, Managed(c, X),
           Clean(c) => Read([phase |-> "content", blocks |-> Seen(c.blocks, X)], e)
              = [phase |-> "content", blocks |-> Seen(c.blocks, Y)]
    PROVE  /\ Managed(Emit(c, e), Y) /\ Keeps(c, Emit(c, e), {"out"})
           /\ Adds(c.out, Emit(c, e).out, {e.ev})
           /\ Emit(c, e).out = Append(c.out, e)
<1> DEFINE d == Emit(c, e)
<1>1. /\ DOMAIN d = Fields /\ d.out = Append(c.out, e)
      /\ \A f \in Fields \ {"out"} : d[f] = c[f]
  BY DEF Emit, Managed, Fields
<1>2. /\ d.blocks = c.blocks /\ d.started = c.started /\ d.delta_sent = c.delta_sent
      /\ d.ended = c.ended /\ d.mixed = c.mixed
  BY <1>1 DEF Fields
<1>3. /\ Adds(c.out, Append(c.out, e), {e.ev})
      /\ ReadAll(Append(c.out, e)) = Read(ReadAll(c.out), e)
  BY AppendAdds DEF Managed
<1> HIDE DEF d
<1>4. IsSeq(d.out)
  BY <1>1, <1>3 DEF Adds
<1> QED
  <2>1. Managed(d, Y)
    BY <1>1, <1>2, <1>3, <1>4 DEF Managed, Clean
  <2>2. Keeps(c, d, {"out"})
    BY <1>1 DEF Keeps, Managed
  <2> QED
    BY <1>1, <1>3, <2>1, <2>2 DEF d

Blocks == Seq([type : BlockTypes, open : BOOLEAN])

Reading(blocks, X) == [phase |-> "content", blocks |-> Seen(blocks, X)]

LEMMA ReadingIs ==
    ASSUME NEW blocks \in Blocks, NEW X
    PROVE  /\ DOMAIN Reading(blocks, X) = {"phase", "blocks"}
           /\ Reading(blocks, X).phase = "content"
           /\ Reading(blocks, X).blocks = Seen(blocks, X)
           /\ DOMAIN blocks = 1 .. Len(blocks) /\ Len(blocks) \in Nat
           /\ DOMAIN Seen(blocks, X) = 1 .. Len(blocks)
           /\ Len(Seen(blocks, X)) = Len(blocks)
           /\ \A i \in 1 .. Len(blocks) :
                 /\ blocks[i] \in [type : BlockTypes, open : BOOLEAN]
                 /\ Seen(blocks, X)[i] =
                        [type |-> blocks[i].type,
                         state |-> IF ~ blocks[i].open THEN "stopped"
                                   ELSE IF i \in X THEN "complete" ELSE "open"]
<1>1. DOMAIN blocks = 1 .. Len(blocks) /\ Len(blocks) \in Nat
  BY LenProperties DEF Blocks
<1>2. \A i \in 1 .. Len(blocks) : blocks[i] \in [type : BlockTypes, open : BOOLEAN]
  BY ElementOfSeq DEF Blocks
<1>3. /\ DOMAIN Seen(blocks, X) = 1 .. Len(blocks)
      /\ Len(Seen(blocks, X)) = Len(blocks)
      /\ \A i \in 1 .. Len(blocks) :
            Seen(blocks, X)[i] =
                [type |-> blocks[i].type,
                 state |-> IF ~ blocks[i].open THEN "stopped"
                           ELSE IF i \in X THEN "complete" ELSE "open"]
  BY SeenIs, Zenon DEF Blocks
<1> QED
  BY <1>1, <1>2, <1>3 DEF Reading

(* What the client does with a delta to a block it can take.                   *)
LEMMA ReadsDelta ==
    ASSUME NEW m, NEW e, m.phase = "content", NEW kind \in DOMAIN DeltaType, e.ev = kind,
           e.at \in DOMAIN m.blocks,
           m.blocks[e.at] = [type |-> DeltaType[kind], state |-> "open"]
    PROVE  Read(m, e) = [m EXCEPT !.blocks[e.at].state =
                            IF kind \in {"signature", "input"} THEN "complete" ELSE "open"]
<1>1. kind \in {"text", "thinking", "signature", "input"}
  BY DEF DeltaType
<1> QED
  BY <1>1 DEF Read

(* A text or thinking delta to an open block of its type.                      *)
LEMMA ReadDelta ==
    ASSUME NEW blocks \in Blocks, NEW X, NEW i \in 1 .. Len(blocks),
           blocks[i].open, i \notin X,
           NEW kind \in {"text", "thinking"}, blocks[i].type = kind, NEW data
    PROVE  Read(Reading(blocks, X), [ev |-> kind, at |-> i, data |-> data])
              = Reading(blocks, X)
<1> DEFINE m == Reading(blocks, X)
           e == [ev |-> kind, at |-> i, data |-> data]
<1>1. i \in DOMAIN m.blocks /\ m.blocks[i] = [type |-> kind, state |-> "open"]
  BY ReadingIs
<1>2. m.phase = "content" /\ DOMAIN m = {"phase", "blocks"}
  BY ReadingIs
<1>3. Read(m, e) = [m EXCEPT !.blocks[i].state = "open"]
  <2>1. kind \in DOMAIN DeltaType /\ DeltaType[kind] = kind
    BY DEF DeltaType
  <2>2. e.ev = kind /\ e.at = i
    OBVIOUS
  <2> HIDE DEF m, e
  <2> QED
    BY <1>1, <1>2, <2>1, <2>2, ReadsDelta
<1>4. [m EXCEPT !.blocks[i].state = "open"] = m
  <2>1. [m.blocks EXCEPT ![i].state = "open"] = m.blocks
    <3>1. [m.blocks[i] EXCEPT !.state = "open"] = m.blocks[i]
      BY <1>1
    <3>2. m.blocks = [j \in DOMAIN blocks |-> m.blocks[j]]
      BY DEF Reading, Seen
    <3> HIDE DEF m
    <3> QED
      BY <1>1, <3>1, <3>2
  <2> QED
    BY <2>1, <1>2 DEF Reading
<1> QED
  BY <1>3, <1>4

(* The input of a call, the signature of a thinking block.                     *)
LEMMA ReadComplete ==
    ASSUME NEW blocks \in Blocks, NEW i \in 1 .. Len(blocks), blocks[i].open,
           NEW e, e.at = i,
           \/ e.ev = "signature" /\ blocks[i].type = "thinking"
           \/ e.ev = "input" /\ blocks[i].type = "tool_use"
    PROVE  Read(Reading(blocks, {}), e) = Reading(blocks, {i})
<1> DEFINE m == Reading(blocks, {})
<1>1. i \in DOMAIN m.blocks /\ m.blocks[i] = [type |-> blocks[i].type, state |-> "open"]
  BY ReadingIs
<1>2. m.phase = "content" /\ DOMAIN m = {"phase", "blocks"}
  BY ReadingIs
<1>3. Read(m, e) = [m EXCEPT !.blocks[i].state = "complete"]
  <2>1. /\ e.ev \in DOMAIN DeltaType /\ DeltaType[e.ev] = blocks[i].type
        /\ e.ev \in {"signature", "input"}
    BY DEF DeltaType
  <2> HIDE DEF m
  <2> DEFINE kind == e.ev
  <2>2. /\ kind \in DOMAIN DeltaType /\ e.at \in DOMAIN m.blocks
        /\ m.blocks[e.at] = [type |-> DeltaType[kind], state |-> "open"]
    BY <1>1, <2>1
  <2>3. Read(m, e) = [m EXCEPT !.blocks[e.at].state =
                         IF kind \in {"signature", "input"} THEN "complete" ELSE "open"]
    BY <1>2, <2>2, ReadsDelta
  <2> QED
    BY <2>1, <2>3
<1>4. [m.blocks EXCEPT ![i].state = "complete"] = Seen(blocks, {i})
  <2>1. m.blocks = Seen(blocks, {})
    BY DEF Reading
  <2>2. ASSUME NEW j \in DOMAIN blocks
        PROVE  [m.blocks EXCEPT ![i].state = "complete"][j] = Seen(blocks, {i})[j]
    BY <2>1, <1>1 DEF Seen
  <2> QED
    BY <2>1, <2>2 DEF Seen
<1> QED
  BY <1>3, <1>4 DEF Reading

(* A stop of an open block; that of a call comes after its input.              *)
LEMMA ReadStop ==
    ASSUME NEW blocks \in Blocks, NEW X, NEW i \in 1 .. Len(blocks), blocks[i].open,
           blocks[i].type = "tool_use" => i \in X
    PROVE  Read(Reading(blocks, X), [ev |-> "stop", at |-> i])
              = Reading([blocks EXCEPT ![i].open = FALSE], X \ {i})
<1> DEFINE m == Reading(blocks, X)
           e == [ev |-> "stop", at |-> i]
           b == [blocks EXCEPT ![i].open = FALSE]
<1>1. /\ i \in DOMAIN m.blocks /\ i \in DOMAIN blocks
      /\ m.blocks[i] = [type |-> blocks[i].type,
                        state |-> IF i \in X THEN "complete" ELSE "open"]
  BY ReadingIs
<1>2. m.phase = "content" /\ DOMAIN m = {"phase", "blocks"}
  BY ReadingIs
<1>3. Read(m, e) = [m EXCEPT !.blocks[i].state = "stopped"]
  <2> HIDE DEF m
  <2> QED
    BY <1>1, <1>2 DEF Read, DeltaType
<1>4. [m.blocks EXCEPT ![i].state = "stopped"] = Seen(b, X \ {i})
  <2>1. m.blocks = Seen(blocks, X)
    BY DEF Reading
  <2>2. DOMAIN b = DOMAIN blocks
    OBVIOUS
  <2>3. ASSUME NEW j \in DOMAIN blocks
        PROVE  [m.blocks EXCEPT ![i].state = "stopped"][j] = Seen(b, X \ {i})[j]
    <3>1. blocks[j] \in [type : BlockTypes, open : BOOLEAN]
      BY ReadingIs
    <3>2. CASE j = i
      <4>1. b[j].type = blocks[j].type /\ b[j].open = FALSE
        BY <1>1, <3>1, <3>2
      <4>2. Seen(b, X \ {i})[j] = [type |-> blocks[j].type, state |-> "stopped"]
        BY <2>2, <4>1 DEF Seen
      <4>3. [m.blocks EXCEPT ![i].state = "stopped"][j]
              = [type |-> blocks[j].type, state |-> "stopped"]
        BY <1>1, <3>2
      <4> QED
        BY <4>2, <4>3
    <3>3. CASE j # i
      <4>1. b[j] = blocks[j]
        BY <1>1, <3>3
      <4>2. Seen(b, X \ {i})[j] = Seen(blocks, X)[j]
        BY <2>2, <3>3, <4>1 DEF Seen
      <4>3. [m.blocks EXCEPT ![i].state = "stopped"][j] = m.blocks[j]
        <5>1. j \in DOMAIN m.blocks
          BY <2>1 DEF Seen
        <5> QED
          BY <3>3, <5>1
      <4> QED
        BY <2>1, <4>2, <4>3
    <3> QED
      BY <3>2, <3>3
  <2> HIDE DEF b
  <2> QED
    BY <2>1, <2>2, <2>3 DEF Seen
<1> QED
  BY <1>3, <1>4 DEF Reading

(* A block starts at the next index.                                           *)
LEMMA ReadStart ==
    ASSUME NEW blocks \in Blocks, NEW type \in BlockTypes
    PROVE  Read(Reading(blocks, {}), [ev |-> "start", at |-> Len(blocks) + 1, type |-> type])
              = Reading(Append(blocks, [type |-> type, open |-> TRUE]), {})
<1> DEFINE m == Reading(blocks, {})
           e == [ev |-> "start", at |-> Len(blocks) + 1, type |-> type]
           b == Append(blocks, [type |-> type, open |-> TRUE])
           seen == [type |-> type, state |-> "open"]
<1>1. Len(m.blocks) = Len(blocks) /\ m.blocks = Seen(blocks, {})
  BY ReadingIs
<1>2. m.phase = "content" /\ DOMAIN m = {"phase", "blocks"}
  BY ReadingIs
<1>3. Read(m, e) = [m EXCEPT !.blocks = Append(@, seen)]
  <2> HIDE DEF m
  <2> QED
    BY <1>1, <1>2 DEF Read, DeltaType
<1>4. Append(m.blocks, seen) = Seen(b, {})
  <2>1. Len(blocks) \in Nat /\ DOMAIN blocks = 1 .. Len(blocks)
    BY LenProperties DEF Blocks
  <2>2. /\ DOMAIN b = 1 .. Len(blocks) + 1
        /\ \A j \in 1 .. Len(blocks) : b[j] = blocks[j]
        /\ b[Len(blocks) + 1] = [type |-> type, open |-> TRUE]
    BY <2>1, AppendProperties, LenProperties DEF Blocks
  <2>3. /\ DOMAIN Append(m.blocks, seen) = 1 .. Len(blocks) + 1
        /\ \A j \in 1 .. Len(blocks) : Append(m.blocks, seen)[j] = m.blocks[j]
        /\ Append(m.blocks, seen)[Len(blocks) + 1] = seen
        /\ Append(m.blocks, seen) = [j \in 1 .. Len(blocks) + 1 |-> Append(m.blocks, seen)[j]]
    <3>1. Seen(blocks, {}) \in Seq([type : BlockTypes, state : {"stopped", "complete", "open"}])
      BY SeenIs DEF Blocks
    <3>2. seen \in [type : BlockTypes, state : {"stopped", "complete", "open"}]
      OBVIOUS
    <3> QED
      BY <1>1, <3>1, <3>2, AppendProperties, LenProperties
  <2> HIDE DEF b
  <2>4. ASSUME NEW j \in 1 .. Len(blocks) + 1 PROVE Append(m.blocks, seen)[j] = Seen(b, {})[j]
    <3>1. Seen(b, {})[j] = [type |-> b[j].type,
                            state |-> IF ~ b[j].open THEN "stopped" ELSE "open"]
      BY <2>2 DEF Seen
    <3>2. CASE j \in 1 .. Len(blocks)
      <4>1. Seen(blocks, {})[j] = [type |-> blocks[j].type,
                                   state |-> IF ~ blocks[j].open THEN "stopped" ELSE "open"]
        BY <2>1, <3>2 DEF Seen
      <4> QED
        BY <1>1, <2>2, <2>3, <3>1, <3>2, <4>1
    <3>3. CASE j = Len(blocks) + 1
      BY <2>2, <2>3, <3>1, <3>3
    <3>4. j \in 1 .. Len(blocks) \/ j = Len(blocks) + 1
      BY <2>1
    <3> HIDE DEF m, seen
    <3> QED
      BY <3>2, <3>3, <3>4
  <2> QED
    BY <2>2, <2>3, <2>4 DEF Seen
<1> QED
  BY <1>3, <1>4, <1>2 DEF Reading

-------------------------------------------------------------------------------
(* Stops of several blocks.                                                    *)

Closed(blocks, S) ==
    [i \in DOMAIN blocks |-> IF i \in S THEN [blocks[i] EXCEPT !.open = FALSE] ELSE blocks[i]]

LEMMA ClosedIs ==
    ASSUME NEW blocks \in Blocks, NEW S
    PROVE  /\ Closed(blocks, S) \in Blocks /\ Len(Closed(blocks, S)) = Len(blocks)
           /\ DOMAIN Closed(blocks, S) = 1 .. Len(blocks)
           /\ \A i \in 1 .. Len(blocks) :
                 /\ Closed(blocks, S)[i].type = blocks[i].type
                 /\ Closed(blocks, S)[i].open = (blocks[i].open /\ i \notin S)
                 /\ i \notin S => Closed(blocks, S)[i] = blocks[i]
<1>1. DOMAIN blocks = 1 .. Len(blocks) /\ Len(blocks) \in Nat
  BY LenProperties DEF Blocks
<1>2. \A i \in 1 .. Len(blocks) : blocks[i] \in [type : BlockTypes, open : BOOLEAN]
  BY ElementOfSeq DEF Blocks
<1> DEFINE T == [type : BlockTypes, open : BOOLEAN]
<1>3. \A i \in 1 .. Len(blocks) :
         (IF i \in S THEN [blocks[i] EXCEPT !.open = FALSE] ELSE blocks[i]) \in T
  BY <1>2
<1>4. \A i \in 1 .. Len(blocks) :
         /\ Closed(blocks, S)[i].type = blocks[i].type
         /\ Closed(blocks, S)[i].open = (blocks[i].open /\ i \notin S)
         /\ i \notin S => Closed(blocks, S)[i] = blocks[i]
  BY <1>1, <1>2 DEF Closed
<1> HIDE DEF T
<1>5. Closed(blocks, S) \in [1 .. Len(blocks) -> T]
  BY <1>1, <1>3 DEF Closed
<1>6. Closed(blocks, S) \in Seq(T)
  BY <1>1, <1>5, SeqDef
<1>7. Len(Closed(blocks, S)) = Len(blocks) /\ DOMAIN Closed(blocks, S) = 1 .. Len(blocks)
  BY <1>1, <1>5, <1>6, LenProperties
<1> QED
  BY <1>4, <1>6, <1>7 DEF Blocks, T

(* A sequence of the members of a finite set, each once.                       *)
LEMMA Listed ==
    ASSUME NEW S, IsFiniteSet(S)
    PROVE  LET f == SetToSeq(S)
               n == Cardinality(S)
           IN /\ n \in Nat /\ f \in [1 .. n -> S]
              /\ \A a, b \in 1 .. n : f[a] = f[b] => a = b
              /\ \A s \in S : \E a \in 1 .. n : f[a] = s
<1> DEFINE f == SetToSeq(S)
           n == Cardinality(S)
<1>1. n \in Nat /\ ExistsBijection(1 .. n, S)
  BY FS_CardinalityType
<1>2. \E g \in [1 .. n -> S] : IsInjective(g)
  BY <1>1 DEF ExistsBijection, Bijection, Injection
<1>3. f \in [1 .. n -> S] /\ IsInjective(f)
  BY <1>2, Zenon DEF SetToSeq
<1>4. f \in Injection(1 .. n, S)
  BY <1>3 DEF Injection
<1>5. Cardinality(1 .. n) = n
  BY <1>1, FS_Interval
<1> HIDE DEF f
<1>6. f \in Surjection(1 .. n, S)
  BY <1>4, <1>5, FS_Injection
<1>7. \A s \in S : \E a \in 1 .. n : f[a] = s
  BY <1>6 DEF Surjection
<1> QED
  BY <1>1, <1>3, <1>7 DEF IsInjective, f

(* What the client reads of the stops of open blocks.                          *)
LEMMA ReadStops ==
    ASSUME NEW blocks \in Blocks, NEW X, NEW n \in Nat,
           NEW f \in [1 .. n -> {i \in DOMAIN blocks : blocks[i].open}],
           \A a, b \in 1 .. n : f[a] = f[b] => a = b,
           \A a \in 1 .. n : blocks[f[a]].type = "tool_use" => f[a] \in X,
           NEW m, m[0] = Reading(blocks, X),
           \A k \in 1 .. n : m[k] = Read(m[k - 1], [ev |-> "stop", at |-> f[k]])
    PROVE  m[n] = Reading(Closed(blocks, {f[a] : a \in 1 .. n}), X \ {f[a] : a \in 1 .. n})
<1> DEFINE S(k) == {f[a] : a \in 1 .. k}
           G == {k \in 0 .. n : m[k] = Reading(Closed(blocks, S(k)), X \ S(k))}
<1>1. 0 \in G
  <2>1. S(0) = {}
    OBVIOUS
  <2>2. Closed(blocks, {}) = blocks
    <3>1. DOMAIN blocks = 1 .. Len(blocks) /\ blocks = [i \in 1 .. Len(blocks) |-> blocks[i]]
      BY LenProperties DEF Blocks
    <3>2. \A i \in 1 .. Len(blocks) :
             (IF i \in {} THEN [blocks[i] EXCEPT !.open = FALSE] ELSE blocks[i]) = blocks[i]
      OBVIOUS
    <3> QED
      BY <3>1, <3>2, Zenon DEF Closed
  <2>3. X \ {} = X
    OBVIOUS
  <2> HIDE DEF S
  <2>4. m[0] = Reading(Closed(blocks, S(0)), X \ S(0))
    BY <2>1, <2>2, <2>3
  <2> QED
    BY <2>4
<1>2. ASSUME NEW k \in 1 .. n, k - 1 \in G PROVE k \in G
  <2> DEFINE T == S(k - 1)
             b == Closed(blocks, T)
             i == f[k]
  <2>1. S(k) = T \cup {i}
    <3>1. 1 .. k = (1 .. (k - 1)) \cup {k}
      OBVIOUS
    <3> QED
      BY <3>1
  <2>2. i \notin T
    <3>1. \A a \in 1 .. (k - 1) : a \in 1 .. n /\ a # k
      OBVIOUS
    <3> QED
      BY <3>1
  <2>3. i \in 1 .. Len(blocks) /\ blocks[i].open
    BY ReadingIs
  <2> HIDE DEF T, i
  <2>4. /\ b \in Blocks /\ i \in 1 .. Len(b) /\ b[i].open
        /\ b[i].type = blocks[i].type
    BY <2>2, <2>3, ClosedIs
  <2>5. b[i].type = "tool_use" => i \in X \ T
    BY <2>2, <2>4 DEF i
  <2>6. Read(Reading(b, X \ T), [ev |-> "stop", at |-> i])
          = Reading([b EXCEPT ![i].open = FALSE], (X \ T) \ {i})
    <3> HIDE DEF b
    <3> QED
      BY <2>4, <2>5, ReadStop
  <2>7. [b EXCEPT ![i].open = FALSE] = Closed(blocks, T \cup {i})
    <3>1. DOMAIN blocks = 1 .. Len(blocks) /\ DOMAIN b = 1 .. Len(blocks)
      BY ReadingIs, ClosedIs
    <3>2. ASSUME NEW j \in 1 .. Len(blocks)
          PROVE  [b EXCEPT ![i].open = FALSE][j] = Closed(blocks, T \cup {i})[j]
      <4>1. CASE j = i
        BY <2>2, <2>3, <3>1, <4>1 DEF Closed
      <4>2. CASE j # i
        BY <2>2, <2>3, <3>1, <4>2 DEF Closed
      <4> QED
        BY <4>1, <4>2
    <3> DEFINE l == [b EXCEPT ![i].open = FALSE]
               r == Closed(blocks, T \cup {i})
    <3>3. l = [j \in 1 .. Len(blocks) |-> l[j]]
      BY <3>1
    <3>4. r = [j \in 1 .. Len(blocks) |-> r[j]]
      BY <3>1 DEF Closed
    <3>5. \A j \in 1 .. Len(blocks) : l[j] = r[j]
      BY <3>2
    <3> HIDE DEF l, r
    <3>6. l = r
      BY <3>3, <3>4, <3>5
    <3> QED
      BY <3>6 DEF l, r
  <2>8. (X \ T) \ {i} = X \ (T \cup {i})
    OBVIOUS
  <2>9. m[k - 1] = Reading(b, X \ T)
    BY <1>2 DEF T
  <2>10. m[k] = Read(m[k - 1], [ev |-> "stop", at |-> i])
    BY DEF i
  <2>11. m[k] = Reading(Closed(blocks, T \cup {i}), X \ (T \cup {i}))
    BY <2>6, <2>7, <2>8, <2>9, <2>10
  <2> HIDE DEF S
  <2>12. m[k] = Reading(Closed(blocks, S(k)), X \ S(k))
    BY <2>1, <2>11
  <2> QED
    BY <2>12
<1>3. \A k \in 0 .. n : k \in G
  <2> HIDE DEF G
  <2> QED
    BY <1>1, <1>2, UpTo
<1>4. n \in G
  BY <1>3
<1> QED
  BY <1>4

LEMMA StopAllKeeps ==
    ASSUME NEW c, NEW X, Managed(c, X),
           NEW S, S \subseteq {i \in DOMAIN c.blocks : c.blocks[i].open},
           \A i \in S : c.blocks[i].type = "tool_use" => i \in X
    PROVE  /\ Managed(StopAll(c, S), X \ S) /\ Keeps(c, StopAll(c, S), {"blocks", "out"})
           /\ Adds(c.out, StopAll(c, S).out, {"stop"})
           /\ StopAll(c, S).blocks = Closed(c.blocks, S)
<1> DEFINE d == StopAll(c, S)
           f == SetToSeq(S)
           n == Cardinality(S)
           stops == Stops(f)
           events == [ev : {"stop"}, at : DOMAIN c.blocks]
<1>1. c.blocks \in Blocks /\ IsSeq(c.out) /\ DOMAIN c = Fields
  BY DEF Managed, Blocks
<1>2. IsFiniteSet(S)
  <2>1. DOMAIN c.blocks = 1 .. Len(c.blocks) /\ Len(c.blocks) \in Nat
    BY <1>1, ReadingIs
  <2>2. IsFiniteSet(1 .. Len(c.blocks))
    BY <2>1, FS_Interval
  <2> QED
    BY <2>1, <2>2, FS_Subset
<1>3. /\ n \in Nat /\ f \in [1 .. n -> S]
      /\ \A a, b \in 1 .. n : f[a] = f[b] => a = b
      /\ \A s \in S : \E a \in 1 .. n : f[a] = s
  BY <1>2, Listed
<1> HIDE DEF f, n
<1>4. /\ stops \in Seq(events) /\ Len(stops) = n
      /\ \A k \in 1 .. n : stops[k] = [ev |-> "stop", at |-> f[k]]
  <2>1. stops = [k \in 1 .. n |-> [ev |-> "stop", at |-> f[k]]]
    BY <1>3 DEF Stops
  <2>2. \A k \in 1 .. n : [ev |-> "stop", at |-> f[k]] \in events
    BY <1>3
  <2> HIDE DEF stops, events
  <2>3. stops \in [1 .. n -> events]
    BY <2>1, <2>2
  <2>4. stops \in Seq(events)
    BY <1>3, <2>3, SeqDef
  <2> QED
    BY <1>3, <2>1, <2>3, <2>4, LenProperties
<1> HIDE DEF stops, events
<1>5. PICK T : c.out \in Seq(T)
  BY <1>1 DEF IsSeq
<1> DEFINE U == T \cup events
<1>6. c.out \in Seq(U) /\ stops \in Seq(U)
  BY <1>4, <1>5, SeqMonotonic
<1> HIDE DEF U
<1>7. PICK m : /\ m[0] = ReadAll(c.out) /\ ReadAll(c.out \o stops) = m[n]
               /\ \A k \in 1 .. n : m[k] = Read(m[k - 1], stops[k])
  <2> DEFINE o == c.out
  <2>1. o \in Seq(U) /\ stops \in Seq(U)
    BY <1>6
  <2> HIDE DEF o
  <2>2. \E m : /\ m[0] = ReadAll(o) /\ ReadAll(o \o stops) = m[Len(stops)]
               /\ \A k \in 1 .. Len(stops) : m[k] = Read(m[k - 1], stops[k])
    BY <2>1, ReadConcat
  <2> QED
    BY <1>4, <2>2 DEF o
<1>8. Clean(c) => m[n] = Reading(Closed(c.blocks, S), X \ S)
  <2> HAVE Clean(c)
  <2>1. S = {f[a] : a \in 1 .. n}
    BY <1>3
  <2>2. m[0] = Reading(c.blocks, X)
    BY <1>7 DEF Managed, Reading
  <2>3. \A k \in 1 .. n : m[k] = Read(m[k - 1], [ev |-> "stop", at |-> f[k]])
    BY <1>4, <1>7
  <2>4. f \in [1 .. n -> {i \in DOMAIN c.blocks : c.blocks[i].open}]
    BY <1>3
  <2>5. \A a \in 1 .. n : c.blocks[f[a]].type = "tool_use" => f[a] \in X
    BY <1>3
  <2> DEFINE R == {f[a] : a \in 1 .. n}
  <2>6. m[n] = Reading(Closed(c.blocks, R), X \ R)
    BY <1>1, <1>3, <2>2, <2>3, <2>4, <2>5, ReadStops, SMTT(30)
  <2> HIDE DEF R
  <2>7. S = R
    BY <2>1 DEF R
  <2> QED
    BY <2>6, <2>7
<1>9. /\ DOMAIN d = Fields /\ d.out = c.out \o stops
      /\ d.blocks = Closed(c.blocks, S)
      /\ \A g \in Fields \ {"blocks", "out"} : d[g] = c[g]
  BY <1>1 DEF StopAll, Closed, Fields, stops, f
<1>10. d.started = c.started /\ d.delta_sent = c.delta_sent /\ d.ended = c.ended
  BY <1>9 DEF Fields
<1> HIDE DEF d
<1>11. d.blocks \in Blocks
  BY <1>1, <1>9, ClosedIs
<1>12. Adds(c.out, d.out, {"stop"})
  <2> DEFINE more == c.out \o stops
  <2>1. /\ more \in Seq(U) /\ Len(more) = Len(c.out) + n
        /\ \A i \in 1 .. Len(c.out) : more[i] = c.out[i]
        /\ \A i \in Len(c.out) + 1 .. Len(c.out) + n : more[i] = stops[i - Len(c.out)]
    <3>1. Len(c.out) \in Nat /\ Len(c.out) + Len(stops) = Len(c.out) + n
      BY <1>4, <1>6, LenProperties
    <3>2. more \in Seq(U) /\ Len(more) = Len(c.out) + Len(stops)
      BY <1>6, ConcatProperties, Zenon
    <3>3. \A i \in 1 .. Len(c.out) + Len(stops) :
             more[i] = IF i <= Len(c.out) THEN c.out[i] ELSE stops[i - Len(c.out)]
      BY <1>6, ConcatProperties, Zenon
    <3> HIDE DEF more
    <3> DEFINE o == c.out
               l == Len(o)
    <3>4. /\ l \in Nat /\ Len(stops) = n
          /\ \A i \in 1 .. l + n : more[i] = IF i <= l THEN o[i] ELSE stops[i - l]
      BY <1>4, <3>1, <3>3
    <3> HIDE DEF l
    <3>5. /\ \A i \in 1 .. l : more[i] = o[i]
          /\ \A i \in l + 1 .. l + n : more[i] = stops[i - l]
      BY <1>3, <3>4
    <3> QED
      BY <3>2, <3>4, <3>5 DEF l
  <2> HIDE DEF more
  <2>2. Len(c.out) \in Nat
    BY <1>6, LenProperties
  <2>3. \A i \in Len(c.out) + 1 .. Len(more) : more[i].ev = "stop"
    <3> TAKE i \in Len(c.out) + 1 .. Len(more)
    <3>1. i - Len(c.out) \in 1 .. n
      BY <1>3, <2>1, <2>2
    <3>2. more[i] = [ev |-> "stop", at |-> f[i - Len(c.out)]]
      BY <1>4, <2>1, <3>1
    <3> QED
      BY <3>2
  <2>4. d.out = more
    BY <1>9 DEF more
  <2>5. IsSeq(more) /\ IsSeq(c.out)
    BY <2>1, <1>1 DEF IsSeq
  <2> QED
    BY <1>3, <2>1, <2>2, <2>3, <2>4, <2>5 DEF Adds
<1>13. Managed(d, X \ S)
  <2>1. IsSeq(d.out)
    BY <1>12 DEF Adds
  <2>2. d.mixed = c.mixed
    BY <1>9 DEF Fields
  <2>3. Clean(d) => ReadAll(d.out) = [phase |-> "content", blocks |-> Seen(d.blocks, X \ S)]
    BY <1>7, <1>8, <1>9, <2>2 DEF Reading, Clean
  <2> QED
    BY <1>9, <1>10, <1>11, <2>1, <2>3 DEF Managed, Blocks
<1>14. Keeps(c, d, {"blocks", "out"})
  BY <1>1, <1>9 DEF Keeps
<1> QED
  BY <1>9, <1>12, <1>13, <1>14 DEF d

-------------------------------------------------------------------------------
(* What the manager's operations keep.                                         *)

ManagerFields == {"blocks", "started", "delta_sent", "ended", "out", "mixed"}

LEMMA ManagedSame ==
    ASSUME NEW c, NEW X, NEW d, NEW F, Managed(c, X), Keeps(c, d, F),
           F \cap ManagerFields = {}
    PROVE  Managed(d, X) /\ d.blocks = c.blocks /\ d.out = c.out
<1>1. \A f \in ManagerFields : d[f] = c[f]
  BY DEF Keeps, Fields, ManagerFields
<1>2. /\ d.blocks = c.blocks /\ d.started = c.started /\ d.delta_sent = c.delta_sent
      /\ d.ended = c.ended /\ d.out = c.out /\ d.mixed = c.mixed
  BY <1>1 DEF ManagerFields
<1> QED
  BY <1>2 DEF Managed, Keeps, Clean

LEMMA KeepsMore ==
    ASSUME NEW b, NEW c, NEW d, NEW F, NEW G, Keeps(b, c, F), Keeps(c, d, G)
    PROVE  Keeps(b, d, F \cup G)
BY DEF Keeps

(* Blocks are added, or stopped.                                               *)
Onward(b, d) ==
    /\ Len(b) <= Len(d)
    /\ \A i \in 1 .. Len(b) : d[i].type = b[i].type /\ (d[i].open => b[i].open)

(* The same, and no thinking block is stopped.                                 *)
Grow(b, d) ==
    /\ Onward(b, d)
    /\ \A i \in 1 .. Len(b) : b[i].type = "thinking" => d[i].open = b[i].open

LEMMA GrowMore ==
    ASSUME NEW a \in Blocks, NEW b \in Blocks, NEW d \in Blocks, Grow(a, b), Grow(b, d)
    PROVE  Grow(a, d)
<1>1. Len(a) \in Nat /\ Len(b) \in Nat /\ Len(d) \in Nat
  BY ReadingIs
<1> QED
  BY <1>1 DEF Grow, Onward

LEMMA OnwardMore ==
    ASSUME NEW a \in Blocks, NEW b \in Blocks, NEW d \in Blocks, Onward(a, b), Onward(b, d)
    PROVE  Onward(a, d)
<1>1. Len(a) \in Nat /\ Len(b) \in Nat /\ Len(d) \in Nat
  BY ReadingIs
<1> QED
  BY <1>1 DEF Onward

LEMMA ClosedOnward ==
    ASSUME NEW blocks \in Blocks, NEW S
    PROVE  Onward(blocks, Closed(blocks, S)) /\ Len(Closed(blocks, S)) = Len(blocks)
<1> DEFINE b == Closed(blocks, S)
<1>1. Len(blocks) \in Nat
  BY ReadingIs
<1>2. /\ Len(b) = Len(blocks)
      /\ \A i \in 1 .. Len(blocks) :
            /\ b[i].type = blocks[i].type
            /\ b[i].open = (blocks[i].open /\ i \notin S)
  BY ClosedIs
<1> HIDE DEF b
<1>3. \A i \in 1 .. Len(blocks) : b[i].open => blocks[i].open
  BY <1>2
<1> QED
  BY <1>1, <1>2, <1>3 DEF Onward, b

LEMMA GrowNothing == ASSUME NEW b \in Blocks PROVE Grow(b, b)
BY ReadingIs DEF Grow, Onward

LEMMA ClosingKeeps ==
    ASSUME NEW c, Managed(c, {}), NEW type
    PROVE  /\ Managed(ClosingText(c, type), {})
           /\ Keeps(c, ClosingText(c, type), {"blocks", "out", "has_tool_use"})
           /\ Adds(c.out, ClosingText(c, type).out, {"stop"})
           /\ Grow(c.blocks, ClosingText(c, type).blocks)
           /\ Len(ClosingText(c, type).blocks) = Len(c.blocks)
           /\ type # "tool_use" => ClosingText(c, type).blocks = c.blocks
<1>1. c.blocks \in Blocks /\ IsSeq(c.out) /\ DOMAIN c = Fields
  BY DEF Managed, Blocks
<1>2. CASE type # "tool_use"
  <2>1. ClosingText(c, type) = c
    BY <1>2 DEF ClosingText
  <2>2. Keeps(c, c, {"blocks", "out", "has_tool_use"})
    BY DEF Keeps
  <2>3. Adds(c.out, c.out, {"stop"}) /\ Grow(c.blocks, c.blocks)
    BY <1>1, AddsNothing, GrowNothing
  <2> QED
    BY <2>1, <2>2, <2>3
<1>3. CASE type = "tool_use"
  <2> DEFINE c1 == [c EXCEPT !.has_tool_use = TRUE]
             S == {i \in DOMAIN c.blocks : IsBlockOpenOfType(c, i, "text")}
             d == StopAll(c1, S)
  <2>1. Keeps(c, c1, {"has_tool_use"})
    BY <1>1 DEF Keeps, Fields
  <2>2. Managed(c1, {}) /\ c1.blocks = c.blocks /\ c1.out = c.out
    BY <2>1, ManagedSame DEF ManagerFields
  <2>3. /\ S \subseteq {i \in DOMAIN c.blocks : c.blocks[i].open}
        /\ \A i \in S : c.blocks[i].type = "text"
    BY DEF IsBlockOpenOfType, IsOpen
  <2> HIDE DEF S, c1
  <2>4. /\ Managed(d, {} \ S) /\ Keeps(c1, d, {"blocks", "out"})
        /\ Adds(c.out, d.out, {"stop"}) /\ d.blocks = Closed(c.blocks, S)
    <3>1. \A i \in S : c1.blocks[i].type = "tool_use" => i \in {}
      BY <2>2, <2>3
    <3>2. S \subseteq {i \in DOMAIN c1.blocks : c1.blocks[i].open}
      BY <2>2, <2>3
    <3>3. /\ Managed(d, {} \ S) /\ Keeps(c1, d, {"blocks", "out"})
          /\ Adds(c1.out, d.out, {"stop"}) /\ d.blocks = Closed(c1.blocks, S)
      BY <2>2, <3>1, <3>2, StopAllKeeps
    <3> QED
      BY <2>2, <3>3
  <2>5. Managed(d, {})
    <3>1. {} \ S = {}
      OBVIOUS
    <3> QED
      BY <2>4, <3>1
  <2>6. Keeps(c, d, {"blocks", "out", "has_tool_use"})
    <3>1. Keeps(c, d, {"has_tool_use"} \cup {"blocks", "out"})
      BY <2>1, <2>4, KeepsMore
    <3> QED
      BY <3>1 DEF Keeps
  <2>7. Grow(c.blocks, d.blocks) /\ Len(d.blocks) = Len(c.blocks)
    <3>1. Len(c.blocks) \in Nat /\ DOMAIN c.blocks = 1 .. Len(c.blocks)
      BY <1>1, ReadingIs
    <3>2. /\ Len(d.blocks) = Len(c.blocks)
          /\ \A i \in 1 .. Len(c.blocks) :
                /\ d.blocks[i].type = c.blocks[i].type
                /\ d.blocks[i].open = (c.blocks[i].open /\ i \notin S)
                /\ i \notin S => d.blocks[i] = c.blocks[i]
      BY <1>1, <2>4, ClosedIs
    <3> QED
      BY <2>3, <3>1, <3>2 DEF Grow, Onward
  <2>8. ClosingText(c, type) = d
    BY <1>3 DEF ClosingText, S, c1
  <2> QED
    BY <1>3, <2>4, <2>5, <2>6, <2>7, <2>8
<1> QED
  BY <1>2, <1>3

LEMMA StartKeeps ==
    ASSUME NEW c, Managed(c, {}), NEW type \in BlockTypes
    PROVE  LET d == ContentBlockStart(c, type)
           IN /\ Managed(d, {}) /\ Keeps(c, d, {"blocks", "out", "has_tool_use"})
              /\ Adds(c.out, d.out, {"start", "stop"})
              /\ Grow(c.blocks, d.blocks)
              /\ Len(c.blocks) \in Nat /\ Len(d.blocks) = Len(c.blocks) + 1
              /\ d.blocks[Len(c.blocks) + 1] = [type |-> type, open |-> TRUE]
              /\ type # "tool_use" => \A i \in 1 .. Len(c.blocks) : d.blocks[i] = c.blocks[i]
<1> DEFINE c1 == ClosingText(c, type)
           new == [type |-> type, open |-> TRUE]
           b == Append(c1.blocks, new)
           c2 == [c1 EXCEPT !.blocks = Append(@, new)]
           e == [ev |-> "start", at |-> Len(c.blocks) + 1, type |-> type]
           d == Emit(c2, e)
<1>1. /\ Managed(c1, {}) /\ Keeps(c, c1, {"blocks", "out", "has_tool_use"})
      /\ Adds(c.out, c1.out, {"stop"}) /\ Grow(c.blocks, c1.blocks)
      /\ Len(c1.blocks) = Len(c.blocks)
      /\ type # "tool_use" => c1.blocks = c.blocks
  BY ClosingKeeps
<1>2. c.blocks \in Blocks /\ c1.blocks \in Blocks
  BY <1>1 DEF Managed, Blocks
<1>3. Len(c.blocks) \in Nat /\ DOMAIN c = Fields /\ DOMAIN c1 = Fields
  BY <1>1, <1>2, ReadingIs DEF Managed
<1> HIDE DEF c1
<1>4. /\ b \in Blocks /\ Len(b) = Len(c.blocks) + 1
      /\ \A i \in 1 .. Len(c.blocks) : b[i] = c1.blocks[i]
      /\ b[Len(c.blocks) + 1] = new
  <2>1. new \in [type : BlockTypes, open : BOOLEAN]
    OBVIOUS
  <2> HIDE DEF new
  <2> QED
    BY <1>1, <1>2, <2>1, AppendProperties DEF Blocks
<1>5. Read(Reading(c1.blocks, {}), e) = Reading(b, {})
  BY <1>1, <1>2, ReadStart
<1> HIDE DEF b
<1>6. /\ DOMAIN c2 = Fields /\ c2.blocks = b
      /\ \A f \in Fields \ {"blocks"} : c2[f] = c1[f]
  BY <1>3 DEF Fields, b
<1> HIDE DEF c2, e
<1>7. /\ DOMAIN d = Fields /\ d.out = Append(c1.out, e) /\ d.blocks = b
      /\ \A f \in Fields \ {"blocks", "out"} : d[f] = c1[f]
  <2>1. c2.out = c1.out
    BY <1>6 DEF Fields
  <2> QED
    BY <1>6, <2>1 DEF Emit, Fields
<1>8. /\ Adds(c1.out, Append(c1.out, e), {e.ev})
      /\ ReadAll(Append(c1.out, e)) = Read(ReadAll(c1.out), e)
  BY <1>1, AppendAdds DEF Managed
<1> HIDE DEF d
<1>9. Managed(d, {})
  <2>1. /\ d.started = c1.started /\ d.delta_sent = c1.delta_sent /\ d.ended = c1.ended
        /\ d.mixed = c1.mixed
    BY <1>7 DEF Fields
  <2>2. Clean(d) => ReadAll(d.out) = Reading(b, {})
    BY <1>1, <1>5, <1>7, <1>8, <2>1 DEF Managed, Reading, Clean
  <2>3. IsSeq(d.out)
    BY <1>7, <1>8 DEF Adds
  <2> QED
    BY <1>1, <1>4, <1>7, <2>1, <2>2, <2>3 DEF Managed, Reading, Blocks
<1>10. Keeps(c, d, {"blocks", "out", "has_tool_use"})
  BY <1>1, <1>3, <1>7 DEF Keeps
<1>11. Adds(c.out, d.out, {"start", "stop"})
  <2>1. e.ev = "start"
    BY DEF e
  <2>2. Adds(c.out, d.out, {"stop"} \cup {"start"})
    BY <1>1, <1>7, <1>8, <2>1, AddsMore
  <2>3. {"stop"} \cup {"start"} = {"start", "stop"}
    OBVIOUS
  <2> QED
    BY <2>2, <2>3
<1>12. Grow(c.blocks, d.blocks)
  BY <1>1, <1>3, <1>4, <1>7 DEF Grow, Onward
<1>13. type # "tool_use" => \A i \in 1 .. Len(c.blocks) : d.blocks[i] = c.blocks[i]
  BY <1>1, <1>4, <1>7
<1>14. d = ContentBlockStart(c, type)
  BY DEF ContentBlockStart, d, c2, e, c1
<1> QED
  BY <1>3, <1>4, <1>7, <1>9, <1>10, <1>11, <1>12, <1>13, <1>14

-------------------------------------------------------------------------------
(* The context.                                                                *)

Texts(K) == Seq([k : K, n : Nat])

OpenKinds(c) ==
    \A i \in 1 .. Len(c.blocks) : c.blocks[i].open => c.blocks[i].type \in {"text", "thinking"}

(* An index the context keeps names a block of its own kind.                   *)
Indexes(c, i, type) == i # 0 => i \in 1 .. Len(c.blocks) /\ c.blocks[i].type = type

Indexed(c) ==
    /\ Indexes(c, c.text_block_index, "text")
    /\ Indexes(c, c.thinking_block_index, "thinking")
    /\ \A id \in DOMAIN c.tool_block_indices :
          /\ c.tool_block_indices[id] \in 1 .. Len(c.blocks)
          /\ c.blocks[c.tool_block_indices[id]].type = "tool_use"

(* The inputs sent are those of the calls that have a block, each once.        *)
Called(c) ==
    LET inputs == {i \in 1 .. Len(c.out) : c.out[i].ev = "input"}
    IN /\ \A i \in inputs : c.out[i].data \in DOMAIN c.tool_block_indices
       /\ \A id \in DOMAIN c.tool_block_indices : \E i \in inputs : c.out[i].data = id
       /\ \A i, j \in inputs : c.out[i].data = c.out[j].data => i = j

(* What waits in the buffers.                                                  *)
Worded(c, K) ==
    /\ c.thinking_buffer \in Texts(K) /\ c.invoke_sniff_buffer \in Texts(K)
    /\ c.filter \in [buffer : Texts(K), stripping : BOOLEAN]

GuardOK(run, tripped) ==
    /\ run \in 0 .. REPEAT_GUARD_TRIP_THRESHOLD /\ tripped \in BOOLEAN
    /\ ~ tripped => run < REPEAT_GUARD_TRIP_THRESHOLD

Core(c, K) ==
    /\ Managed(c, {}) /\ OpenKinds(c) /\ Indexed(c) /\ Called(c) /\ Worded(c, K)
    /\ GuardOK(c.repeat_run, c.repeat_tripped)

LEMMA IndexedSame ==
    ASSUME NEW c, NEW d, Indexed(c), Managed(c, {}), Managed(d, {}),
           Onward(c.blocks, d.blocks),
           d.text_block_index = c.text_block_index,
           d.thinking_block_index = c.thinking_block_index,
           d.tool_block_indices = c.tool_block_indices
    PROVE  Indexed(d)
<1>1. Len(c.blocks) \in Nat /\ Len(d.blocks) \in Nat
  BY ReadingIs DEF Managed, Blocks
<1>2. \A i \in 1 .. Len(c.blocks) :
         i \in 1 .. Len(d.blocks) /\ d.blocks[i].type = c.blocks[i].type
  BY <1>1 DEF Onward
<1>3. \A i, type : Indexes(c, i, type) => Indexes(d, i, type)
  BY <1>2 DEF Indexes
<1>4. \A id \in DOMAIN d.tool_block_indices :
         /\ d.tool_block_indices[id] \in 1 .. Len(d.blocks)
         /\ d.blocks[d.tool_block_indices[id]].type = "tool_use"
  BY <1>2 DEF Indexed
<1> QED
  BY <1>3, <1>4 DEF Indexed

LEMMA CalledSame ==
    ASSUME NEW c, NEW d, NEW kinds, Called(c), Adds(c.out, d.out, kinds), "input" \notin kinds,
           d.tool_block_indices = c.tool_block_indices
    PROVE  Called(d)
<1>1. Len(c.out) \in Nat /\ Len(d.out) \in Nat
  BY LenIsNat DEF Adds
<1> DEFINE I == {i \in 1 .. Len(c.out) : c.out[i].ev = "input"}
           J == {i \in 1 .. Len(d.out) : d.out[i].ev = "input"}
<1>2. J = I
  BY <1>1 DEF Adds
<1>3. \A i \in I : d.out[i] = c.out[i]
  BY DEF Adds
<1>4. /\ \A i \in I : c.out[i].data \in DOMAIN c.tool_block_indices
      /\ \A id \in DOMAIN c.tool_block_indices : \E i \in I : c.out[i].data = id
      /\ \A i, j \in I : c.out[i].data = c.out[j].data => i = j
  BY DEF Called
<1> HIDE DEF I, J
<1>5. /\ \A i \in J : d.out[i].data \in DOMAIN d.tool_block_indices
      /\ \A id \in DOMAIN d.tool_block_indices : \E i \in J : d.out[i].data = id
      /\ \A i, j \in J : d.out[i].data = d.out[j].data => i = j
  BY <1>2, <1>3, <1>4
<1> QED
  BY <1>5 DEF Called, J

(* A step of the manager, of the indices and of the buffers.                   *)
LEMMA CoreStep ==
    ASSUME NEW c, NEW K, Core(c, K), NEW d, Managed(d, {}), Onward(c.blocks, d.blocks),
           \A i \in Len(c.blocks) + 1 .. Len(d.blocks) :
               d.blocks[i].open => d.blocks[i].type \in {"text", "thinking"},
           d.tool_block_indices = c.tool_block_indices,
           NEW kinds, Adds(c.out, d.out, kinds), "input" \notin kinds,
           Indexed(d), Worded(d, K), GuardOK(d.repeat_run, d.repeat_tripped)
    PROVE  Core(d, K)
<1>1. Len(c.blocks) \in Nat /\ Len(d.blocks) \in Nat
  BY ReadingIs DEF Core, Managed, Blocks
<1>2. OpenKinds(d)
  BY <1>1 DEF Core, OpenKinds, Onward
<1>3. Called(d)
  BY CalledSame DEF Core
<1> QED
  BY <1>2, <1>3 DEF Core

(* Fields that are not part of Core.                                           *)
Free == {"stop_reason", "has_tool_use", "thinking_enabled", "in_thinking_block",
         "thinking_extracted", "code_fence_open", "mid_line", "tools", "tool_json_error",
         "dropped", "done", "spoilt"}

Buffers == {"filter", "thinking_buffer", "invoke_sniff_buffer"}

LEMMA CoreFields ==
    ASSUME NEW c, NEW K, Core(c, K), NEW d, NEW F, Keeps(c, d, F),
           F \cap ({"tool_block_indices", "text_block_index", "thinking_block_index"}
                     \cup ManagerFields) = {},
           Worded(d, K), GuardOK(d.repeat_run, d.repeat_tripped)
    PROVE  Core(d, K) /\ d.blocks = c.blocks /\ d.out = c.out
<1>1. Managed(d, {}) /\ d.blocks = c.blocks /\ d.out = c.out
  <2>1. F \cap ManagerFields = {}
    OBVIOUS
  <2> QED
    BY <2>1, ManagedSame DEF Core
<1>2. c.blocks \in Blocks /\ IsSeq(c.out)
  BY DEF Core, Managed, Blocks
<1>3. Onward(c.blocks, d.blocks)
  BY <1>1, <1>2, GrowNothing DEF Grow
<1>4. Adds(c.out, d.out, {})
  BY <1>1, <1>2, AddsNothing
<1>5. /\ d.tool_block_indices = c.tool_block_indices
      /\ d.text_block_index = c.text_block_index
      /\ d.thinking_block_index = c.thinking_block_index
  BY DEF Keeps, Fields
<1>6. Indexed(d)
  BY <1>1, <1>3, <1>5, IndexedSame DEF Core
<1>7. Len(c.blocks) \in Nat
  BY <1>2, ReadingIs
<1>8. \A i \in Len(c.blocks) + 1 .. Len(d.blocks) : FALSE
  BY <1>1, <1>7
<1> QED
  BY <1>1, <1>3, <1>4, <1>5, <1>6, <1>8, CoreStep

LEMMA CoreFree ==
    ASSUME NEW c, NEW K, Core(c, K), NEW d, NEW F, Keeps(c, d, F), F \subseteq Free
    PROVE  Core(d, K) /\ d.blocks = c.blocks /\ d.out = c.out
<1>1. \A f \in Buffers \cup {"repeat_run", "repeat_tripped"} : d[f] = c[f]
  BY DEF Keeps, Fields, Free, Buffers
<1>2. Worded(d, K) /\ GuardOK(d.repeat_run, d.repeat_tripped)
  BY <1>1 DEF Core, Worded, Buffers
<1>3. F \cap ({"tool_block_indices", "text_block_index", "thinking_block_index"}
                \cup ManagerFields) = {}
  BY DEF Free, ManagerFields
<1> QED
  BY <1>2, <1>3, CoreFields

(* The steps of the text path.                                                 *)
TextFields ==
    {"blocks", "out", "has_tool_use", "text_block_index", "invoke_sniff_buffer",
     "code_fence_open", "mid_line", "repeat_run", "repeat_tripped", "tool_block_indices",
     "dropped"}

TextStep(c, d) ==
    /\ Keeps(c, d, TextFields)
    /\ Grow(c.blocks, d.blocks)
    /\ DOMAIN d.tool_block_indices \cap ToolIds = DOMAIN c.tool_block_indices \cap ToolIds

LEMMA TextStepMore ==
    ASSUME NEW a, NEW b, NEW c, NEW K, Core(a, K), Core(b, K), Core(c, K),
           TextStep(a, b), TextStep(b, c)
    PROVE  TextStep(a, c)
<1>1. Grow(a.blocks, c.blocks)
  BY GrowMore DEF TextStep, Core, Managed, Blocks
<1>2. Keeps(a, c, TextFields)
  BY DEF TextStep, Keeps
<1> QED
  BY <1>1, <1>2 DEF TextStep

LEMMA TextStepNothing ==
    ASSUME NEW c, NEW K, Core(c, K)
    PROVE  TextStep(c, c)
BY GrowNothing DEF TextStep, Keeps, Core, Managed, Blocks

-------------------------------------------------------------------------------
(* Deltas, stops and new blocks.                                               *)

LEMMA CoreBlocks ==
    ASSUME NEW c, NEW K, Core(c, K)
    PROVE  /\ c.blocks \in Blocks /\ Len(c.blocks) \in Nat /\ DOMAIN c.blocks = 1 .. Len(c.blocks)
           /\ IsSeq(c.out) /\ DOMAIN c = Fields
           /\ \A i \in 1 .. Len(c.blocks) : c.blocks[i] \in [type : BlockTypes, open : BOOLEAN]
<1>1. c.blocks \in Blocks /\ IsSeq(c.out) /\ DOMAIN c = Fields
  BY DEF Core, Managed, Blocks
<1> QED
  BY <1>1, ReadingIs

(* A text or thinking delta to an open block of its type.                      *)
LEMMA DeltaCore ==
    ASSUME NEW c, NEW K, Core(c, K), NEW i \in 1 .. Len(c.blocks), c.blocks[i].open,
           NEW kind \in {"text", "thinking"}, c.blocks[i].type = kind, NEW data
    PROVE  LET d == Emit(c, [ev |-> kind, at |-> i, data |-> data])
           IN Core(d, K) /\ Keeps(c, d, {"out"}) /\ d.blocks = c.blocks /\ TextStep(c, d)
<1> DEFINE e == [ev |-> kind, at |-> i, data |-> data]
           d == Emit(c, e)
<1>1. c.blocks \in Blocks /\ Len(c.blocks) \in Nat /\ Managed(c, {})
  BY CoreBlocks DEF Core
<1>2. Read(Reading(c.blocks, {}), e) = Reading(c.blocks, {})
  BY <1>1, ReadDelta
<1>3. e.ev = kind
  OBVIOUS
<1> HIDE DEF e
<1>4. Managed(d, {}) /\ Keeps(c, d, {"out"}) /\ Adds(c.out, d.out, {kind})
  <2>1. Read([phase |-> "content", blocks |-> Seen(c.blocks, {})], e)
           = [phase |-> "content", blocks |-> Seen(c.blocks, {})]
    BY <1>2, Zenon DEF Reading
  <2>2. Managed(d, {}) /\ Keeps(c, d, {"out"}) /\ Adds(c.out, d.out, {e.ev})
    BY <1>1, <2>1, EmitKeeps, Zenon
  <2> QED
    BY <1>3, <2>2
<1> HIDE DEF d
<1>5. \A f \in Fields \ {"out"} : d[f] = c[f]
  BY <1>4 DEF Keeps
<1>6. /\ d.blocks = c.blocks /\ d.tool_block_indices = c.tool_block_indices
      /\ d.text_block_index = c.text_block_index
      /\ d.thinking_block_index = c.thinking_block_index
      /\ d.thinking_buffer = c.thinking_buffer /\ d.filter = c.filter
      /\ d.invoke_sniff_buffer = c.invoke_sniff_buffer
      /\ d.repeat_run = c.repeat_run /\ d.repeat_tripped = c.repeat_tripped
  BY <1>5 DEF Fields
<1>7. Grow(c.blocks, d.blocks) /\ Onward(c.blocks, d.blocks)
  BY <1>1, <1>6, GrowNothing DEF Grow
<1>8. Indexed(d)
  BY <1>1, <1>4, <1>6, <1>7, IndexedSame DEF Core
<1>9. Worded(d, K) /\ GuardOK(d.repeat_run, d.repeat_tripped)
  BY <1>6 DEF Core, Worded
<1>10. \A j \in Len(c.blocks) + 1 .. Len(d.blocks) : FALSE
  BY <1>1, <1>6
<1>11. Core(d, K)
  BY <1>4, <1>6, <1>7, <1>8, <1>9, <1>10, CoreStep
<1>12. TextStep(c, d)
  BY <1>4, <1>6, <1>7 DEF TextStep, Keeps, TextFields
<1> QED
  BY <1>4, <1>6, <1>11, <1>12 DEF d, e

(* An event that is no input, to a client that is past following.              *)
LEMMA UnreadCore ==
    ASSUME NEW c, NEW K, Core(c, K), ~ Clean(c), NEW e, e.ev # "input"
    PROVE  Core(Emit(c, e), K) /\ Keeps(c, Emit(c, e), {"out"})
           /\ Emit(c, e).blocks = c.blocks /\ Emit(c, e).mixed = c.mixed
<1> DEFINE d == Emit(c, e)
<1>1. c.blocks \in Blocks /\ Len(c.blocks) \in Nat /\ Managed(c, {})
  BY CoreBlocks DEF Core
<1>2. Managed(d, {}) /\ Keeps(c, d, {"out"}) /\ Adds(c.out, d.out, {e.ev})
  BY <1>1, EmitKeeps
<1> HIDE DEF d
<1>3. \A f \in Fields \ {"out"} : d[f] = c[f]
  BY <1>2 DEF Keeps
<1>4. /\ d.blocks = c.blocks /\ d.tool_block_indices = c.tool_block_indices
      /\ d.text_block_index = c.text_block_index
      /\ d.thinking_block_index = c.thinking_block_index
      /\ d.thinking_buffer = c.thinking_buffer /\ d.filter = c.filter
      /\ d.invoke_sniff_buffer = c.invoke_sniff_buffer
      /\ d.repeat_run = c.repeat_run /\ d.repeat_tripped = c.repeat_tripped
      /\ d.mixed = c.mixed
  BY <1>3 DEF Fields
<1>5. Onward(c.blocks, d.blocks)
  BY <1>1, <1>4, GrowNothing DEF Grow
<1>6. Indexed(d)
  BY <1>1, <1>2, <1>4, <1>5, IndexedSame DEF Core
<1>7. Worded(d, K) /\ GuardOK(d.repeat_run, d.repeat_tripped)
  BY <1>4 DEF Core, Worded
<1>8. \A j \in Len(c.blocks) + 1 .. Len(d.blocks) : FALSE
  BY <1>1, <1>4
<1>9. "input" \notin {e.ev}
  OBVIOUS
<1>10. Core(d, K)
  BY <1>2, <1>4, <1>5, <1>6, <1>7, <1>8, <1>9, CoreStep
<1> QED
  BY <1>2, <1>4, <1>10 DEF d

(* A native event inside a block that a <thinking> tag opened.                 *)
LEMMA MixedCore ==
    ASSUME NEW c, NEW K, Core(c, K), NEW native
    PROVE  LET d == Mixed(c, native)
           IN /\ Core(d, K) /\ Keeps(c, d, {"mixed"}) /\ d.mixed \subseteq c.mixed \cup {native}
              /\ ~ c.in_thinking_block => d = c
              /\ c.in_thinking_block => d.mixed = c.mixed \cup {native}
<1> DEFINE d == Mixed(c, native)
<1>1. CASE ~ c.in_thinking_block
  <2>1. d = c
    BY <1>1 DEF Mixed
  <2> QED
    BY <1>1, <2>1 DEF Keeps
<1>2. CASE c.in_thinking_block
  <2>1. DOMAIN c = Fields
    BY CoreBlocks
  <2>2. d = [c EXCEPT !.mixed = @ \cup {native}]
    BY <1>2 DEF Mixed
  <2>3. Keeps(c, d, {"mixed"}) /\ d.mixed = c.mixed \cup {native}
    BY <2>1, <2>2 DEF Keeps, Fields
  <2> HIDE DEF d
  <2>4. /\ d.blocks = c.blocks /\ d.tool_block_indices = c.tool_block_indices
        /\ d.started = c.started /\ d.delta_sent = c.delta_sent /\ d.ended = c.ended
        /\ d.out = c.out
        /\ d.text_block_index = c.text_block_index
        /\ d.thinking_block_index = c.thinking_block_index
        /\ d.thinking_buffer = c.thinking_buffer /\ d.filter = c.filter
        /\ d.invoke_sniff_buffer = c.invoke_sniff_buffer
        /\ d.repeat_run = c.repeat_run /\ d.repeat_tripped = c.repeat_tripped
    BY <2>3 DEF Keeps, Fields
  <2>5. Clean(d) => Clean(c)
    BY <2>3 DEF Clean
  <2>6. Managed(d, {})
    BY <2>1, <2>3, <2>4, <2>5 DEF Core, Managed, Keeps
  <2>7. Core(d, K)
    BY <2>4, <2>6 DEF Core, OpenKinds, Indexed, Indexes, Called, Worded
  <2> QED
    BY <1>2, <2>3, <2>7 DEF d
<1> QED
  BY <1>1, <1>2

(* Any blocks but calls may be stopped.                                        *)
LEMMA StopCore ==
    ASSUME NEW c, NEW K, Core(c, K), NEW S, S \subseteq {i \in DOMAIN c.blocks : c.blocks[i].open}
    PROVE  LET d == StopAll(c, S)
           IN Core(d, K) /\ Keeps(c, d, {"blocks", "out"}) /\ d.blocks = Closed(c.blocks, S)
<1> DEFINE d == StopAll(c, S)
<1>1. /\ c.blocks \in Blocks /\ Len(c.blocks) \in Nat /\ Managed(c, {})
      /\ DOMAIN c.blocks = 1 .. Len(c.blocks)
  BY CoreBlocks DEF Core
<1>2. \A i \in S : c.blocks[i].type # "tool_use"
  BY <1>1 DEF Core, OpenKinds
<1>3. /\ Managed(d, {} \ S) /\ Keeps(c, d, {"blocks", "out"})
      /\ Adds(c.out, d.out, {"stop"}) /\ d.blocks = Closed(c.blocks, S)
  BY <1>1, <1>2, StopAllKeeps
<1>4. Managed(d, {})
  <2>1. {} \ S = {}
    OBVIOUS
  <2> QED
    BY <1>3, <2>1
<1> HIDE DEF d
<1>5. /\ d.tool_block_indices = c.tool_block_indices
      /\ d.text_block_index = c.text_block_index
      /\ d.thinking_block_index = c.thinking_block_index
      /\ d.thinking_buffer = c.thinking_buffer /\ d.filter = c.filter
      /\ d.invoke_sniff_buffer = c.invoke_sniff_buffer
      /\ d.repeat_run = c.repeat_run /\ d.repeat_tripped = c.repeat_tripped
  BY <1>3 DEF Keeps, Fields
<1>6. Onward(c.blocks, d.blocks) /\ Len(d.blocks) = Len(c.blocks)
  BY <1>1, <1>3, ClosedOnward
<1>7. Indexed(d)
  BY <1>1, <1>4, <1>5, <1>6, IndexedSame DEF Core
<1>8. Worded(d, K) /\ GuardOK(d.repeat_run, d.repeat_tripped)
  BY <1>5 DEF Core, Worded
<1>9. \A j \in Len(c.blocks) + 1 .. Len(d.blocks) : FALSE
  BY <1>1, <1>6
<1>10. Core(d, K)
  BY <1>3, <1>4, <1>5, <1>6, <1>7, <1>8, <1>9, CoreStep
<1> QED
  BY <1>3, <1>10 DEF d

(* The start of a text or thinking block, whose index the context may keep.    *)
LEMMA StartCore ==
    ASSUME NEW c, NEW K, Core(c, K), NEW type \in {"text", "thinking"},
           NEW F, F \subseteq {"text_block_index", "thinking_block_index"},
           NEW d, Keeps(ContentBlockStart(c, type), d, F),
           \/ d.text_block_index = c.text_block_index
           \/ type = "text" /\ d.text_block_index = Len(c.blocks) + 1,
           \/ d.thinking_block_index = c.thinking_block_index
           \/ type = "thinking" /\ d.thinking_block_index = Len(c.blocks) + 1
    PROVE  /\ Core(d, K) /\ Grow(c.blocks, d.blocks)
           /\ Keeps(c, d, {"blocks", "out", "has_tool_use"} \cup F)
           /\ Len(d.blocks) = Len(c.blocks) + 1
           /\ d.blocks[Len(c.blocks) + 1] = [type |-> type, open |-> TRUE]
<1> DEFINE s == ContentBlockStart(c, type)
<1>1. /\ c.blocks \in Blocks /\ Len(c.blocks) \in Nat /\ Managed(c, {})
      /\ type \in BlockTypes
  BY CoreBlocks DEF Core, BlockTypes
<1>2. /\ Managed(s, {}) /\ Keeps(c, s, {"blocks", "out", "has_tool_use"})
      /\ Adds(c.out, s.out, {"start", "stop"})
      /\ Grow(c.blocks, s.blocks) /\ Len(s.blocks) = Len(c.blocks) + 1
      /\ s.blocks[Len(c.blocks) + 1] = [type |-> type, open |-> TRUE]
  BY <1>1, StartKeeps
<1> HIDE DEF s
<1>3. Managed(d, {}) /\ d.blocks = s.blocks /\ d.out = s.out
  <2>1. F \cap ManagerFields = {}
    BY DEF ManagerFields
  <2> QED
    BY <1>2, <2>1, ManagedSame DEF s
<1>4. Keeps(c, d, {"blocks", "out", "has_tool_use"} \cup F)
  BY <1>2, KeepsMore DEF s
<1>5. /\ d.tool_block_indices = c.tool_block_indices
      /\ d.thinking_buffer = c.thinking_buffer /\ d.filter = c.filter
      /\ d.invoke_sniff_buffer = c.invoke_sniff_buffer
      /\ d.repeat_run = c.repeat_run /\ d.repeat_tripped = c.repeat_tripped
  BY <1>4 DEF Keeps, Fields
<1>6. Onward(c.blocks, d.blocks)
  BY <1>2, <1>3 DEF Grow
<1>7. Indexed(d)
  <2> DEFINE n == Len(c.blocks)
  <2>1. \A i \in 1 .. n : i \in 1 .. Len(d.blocks) /\ d.blocks[i].type = c.blocks[i].type
    BY <1>1, <1>2, <1>3, <1>6 DEF Onward
  <2>2. n + 1 \in 1 .. Len(d.blocks) /\ d.blocks[n + 1].type = type
    BY <1>1, <1>2, <1>3
  <2>3. Indexes(d, d.text_block_index, "text")
    BY <2>1, <2>2 DEF Core, Indexed, Indexes
  <2>4. Indexes(d, d.thinking_block_index, "thinking")
    BY <2>1, <2>2 DEF Core, Indexed, Indexes
  <2>5. \A id \in DOMAIN d.tool_block_indices :
           /\ d.tool_block_indices[id] \in 1 .. Len(d.blocks)
           /\ d.blocks[d.tool_block_indices[id]].type = "tool_use"
    BY <1>5, <2>1 DEF Core, Indexed
  <2> QED
    BY <2>3, <2>4, <2>5 DEF Indexed
<1>8. Worded(d, K) /\ GuardOK(d.repeat_run, d.repeat_tripped)
  BY <1>5 DEF Core, Worded
<1>9. \A j \in Len(c.blocks) + 1 .. Len(d.blocks) :
         d.blocks[j].open => d.blocks[j].type \in {"text", "thinking"}
  <2> TAKE j \in Len(c.blocks) + 1 .. Len(d.blocks)
  <2>1. j = Len(c.blocks) + 1
    BY <1>1, <1>2, <1>3
  <2> QED
    BY <1>2, <1>3, <2>1
<1>10. Core(d, K)
  BY <1>2, <1>3, <1>5, <1>6, <1>7, <1>8, <1>9, CoreStep
<1> QED
  BY <1>2, <1>3, <1>4, <1>10

LEMMA TextBlockCore ==
    ASSUME NEW c, NEW K, Core(c, K)
    PROVE  Core(TextBlock(c), K) /\ TextStep(c, TextBlock(c))
<1>1. CASE IsBlockOpenOfType(c, c.text_block_index, "text")
  BY <1>1, TextStepNothing DEF TextBlock
<1>2. CASE ~ IsBlockOpenOfType(c, c.text_block_index, "text")
  <2> DEFINE s == ContentBlockStart(c, "text")
             d == [s EXCEPT !.text_block_index = Len(c.blocks) + 1]
  <2>1. Keeps(c, s, {"blocks", "out", "has_tool_use"})
    <3>1. Managed(c, {}) /\ "text" \in BlockTypes
      BY DEF Core, BlockTypes
    <3> QED
      BY <3>1, StartKeeps
  <2> HIDE DEF s
  <2>2. DOMAIN c = Fields /\ DOMAIN s = Fields
    BY <2>1, CoreBlocks DEF Keeps
  <2>3. /\ Keeps(s, d, {"text_block_index"}) /\ d.text_block_index = Len(c.blocks) + 1
        /\ d.thinking_block_index = c.thinking_block_index
    BY <2>1, <2>2 DEF Keeps, Fields
  <2> HIDE DEF d
  <2>4. /\ Core(d, K) /\ Grow(c.blocks, d.blocks)
        /\ Keeps(c, d, {"blocks", "out", "has_tool_use"} \cup {"text_block_index"})
    BY <2>3, StartCore DEF s
  <2>5. d.tool_block_indices = c.tool_block_indices
    BY <2>4 DEF Keeps, Fields
  <2>6. TextStep(c, d)
    BY <2>4, <2>5 DEF TextStep, Keeps, TextFields
  <2> QED
    BY <1>2, <2>4, <2>6 DEF TextBlock, d, s
<1> QED
  BY <1>1, <1>2

LEMMA WriteTextCore ==
    ASSUME NEW c, NEW K, Core(c, K), NEW text
    PROVE  Core(WriteText(c, text), K) /\ TextStep(c, WriteText(c, text))
<1> DEFINE i == c.text_block_index
<1>1. CASE IsOpen(c, i)
  <2>1. DOMAIN c.blocks = 1 .. Len(c.blocks) /\ Len(c.blocks) \in Nat
    BY CoreBlocks
  <2>2. i \in 1 .. Len(c.blocks) /\ c.blocks[i].open /\ c.blocks[i].type = "text"
    BY <1>1, <2>1 DEF IsOpen, Core, Indexed, Indexes
  <2>3. WriteText(c, text) = Emit(c, [ev |-> "text", at |-> i, data |-> text])
    BY <1>1 DEF WriteText, ContentBlockDelta
  <2> HIDE DEF i
  <2> QED
    BY <2>2, <2>3, DeltaCore
<1>2. CASE ~ IsOpen(c, i)
  <2>1. WriteText(c, text) = c
    BY <1>2 DEF WriteText, ContentBlockDelta
  <2> QED
    BY <2>1, TextStepNothing
<1> QED
  BY <1>1, <1>2

-------------------------------------------------------------------------------
(* Text that leaves.                                                           *)

GuardUpto(m, c, text, n) ==
    m = [i \in 0 .. n |-> IF i = 0 THEN [kept |-> <<>>, run |-> c.repeat_run, tripped |-> c.repeat_tripped]
                          ELSE GuardPiece(text, m[i - 1], i)]

LEMMA GuardExists ==
    ASSUME NEW c, NEW text, NEW n \in Nat
    PROVE  \E m : GuardUpto(m, c, text, n)
<1> DEFINE G == {k \in 0 .. n : \E m : GuardUpto(m, c, text, k)}
<1>1. 0 \in G
  <2>1. GuardUpto([i \in 0 .. 0 |-> [kept |-> <<>>, run |-> c.repeat_run, tripped |-> c.repeat_tripped]],
                  c, text, 0)
    BY DEF GuardUpto
  <2> QED
    BY <2>1
<1>2. ASSUME NEW k \in 1 .. n, k - 1 \in G PROVE k \in G
  <2>1. PICK m : GuardUpto(m, c, text, k - 1)
    BY <1>2
  <2> DEFINE e == [i \in 0 .. k |-> IF i = k THEN GuardPiece(text, m[k - 1], k) ELSE m[i]]
  <2>2. \A i \in 0 .. k :
           e[i] = IF i = 0 THEN [kept |-> <<>>, run |-> c.repeat_run, tripped |-> c.repeat_tripped]
                  ELSE GuardPiece(text, e[i - 1], i)
    BY <2>1 DEF GuardUpto
  <2>3. GuardUpto(e, c, text, k)
    BY <2>2 DEF GuardUpto
  <2> QED
    BY <2>3
<1>3. \A k \in 0 .. n : k \in G
  <2> HIDE DEF G
  <2> QED
    BY <1>1, <1>2, UpTo
<1> QED
  BY <1>3

(* The guard counts to its threshold, trips there, and counts no further.      *)
LEMMA GuardCounts ==
    ASSUME NEW c, NEW text, Len(text) \in Nat, GuardOK(c.repeat_run, c.repeat_tripped)
    PROVE  GuardOK(RepeatGuardFilter(c, text).run, RepeatGuardFilter(c, text).tripped)
<1> DEFINE n == Len(text)
           m == CHOOSE m : GuardUpto(m, c, text, n)
<1>1. GuardUpto(m, c, text, n)
  BY GuardExists
<1>2. RepeatGuardFilter(c, text) = m[n]
  BY Zenon DEF RepeatGuardFilter, GuardUpto
<1> HIDE DEF m, n
<1> DEFINE State(g) == DOMAIN g = {"kept", "run", "tripped"} /\ GuardOK(g.run, g.tripped)
           G == {k \in 0 .. n : State(m[k])}
<1>3. n \in Nat
  BY DEF n
<1>4. 0 \in G
  <2>1. m[0] = [kept |-> <<>>, run |-> c.repeat_run, tripped |-> c.repeat_tripped]
    BY <1>1, <1>3 DEF GuardUpto
  <2> QED
    BY <1>3, <2>1
<1>5. ASSUME NEW k \in 1 .. n, k - 1 \in G PROVE k \in G
  <2> DEFINE g == m[k - 1]
             h == m[k]
  <2>1. h = GuardPiece(text, g, k)
    BY <1>1, <1>3 DEF GuardUpto
  <2>2. DOMAIN g = {"kept", "run", "tripped"} /\ GuardOK(g.run, g.tripped)
    BY <1>5
  <2> HIDE DEF g, h
  <2>3. DOMAIN h = {"kept", "run", "tripped"} /\ GuardOK(h.run, h.tripped)
    <3> DEFINE p == text[k]
               isStray == p.k = "stray" /\ StartsLine(text, k)
               run == IF isStray THEN g.run + 1
                      ELSE IF p.k = "nl" /\ StartsLine(text, k) THEN g.run ELSE 0
    <3>1. h = IF g.tripped THEN g
              ELSE IF isStray /\ run >= REPEAT_GUARD_TRIP_THRESHOLD
                     THEN [g EXCEPT !.run = run, !.tripped = TRUE]
              ELSE [g EXCEPT !.kept = Append(@, p), !.run = run]
      BY <2>1 DEF GuardPiece
    <3>2. ~ g.tripped => /\ run \in 0 .. REPEAT_GUARD_TRIP_THRESHOLD
                         /\ ~ isStray => run < REPEAT_GUARD_TRIP_THRESHOLD
      <4> HIDE DEF isStray
      <4> QED
        BY <2>2, StreamAssumption DEF GuardOK
    <3> HIDE DEF isStray, run, p
    <3>3. CASE g.tripped
      BY <2>2, <3>1, <3>3
    <3>4. CASE ~ g.tripped /\ isStray /\ run >= REPEAT_GUARD_TRIP_THRESHOLD
      <4>1. /\ h.run = run /\ h.tripped = TRUE /\ DOMAIN h = DOMAIN g
        BY <2>2, <3>1, <3>4
      <4> QED
        BY <2>2, <3>2, <3>4, <4>1 DEF GuardOK
    <3>5. CASE ~ g.tripped /\ ~ (isStray /\ run >= REPEAT_GUARD_TRIP_THRESHOLD)
      <4>1. /\ h.run = run /\ h.tripped = g.tripped /\ DOMAIN h = DOMAIN g
        BY <2>2, <3>1, <3>5
      <4>2. run < REPEAT_GUARD_TRIP_THRESHOLD
        BY <3>2, <3>5, StreamAssumption
      <4> QED
        BY <2>2, <3>2, <3>5, <4>1, <4>2 DEF GuardOK
    <3> QED
      BY <3>3, <3>4, <3>5
  <2> QED
    BY <2>3 DEF h
<1>6. \A k \in 0 .. n : k \in G
  <2> HIDE DEF G
  <2> QED
    BY <1>3, <1>4, <1>5, UpTo
<1>7. n \in G
  BY <1>3, <1>6
<1> QED
  BY <1>2, <1>7

LEMMA GuardedCore ==
    ASSUME NEW c, NEW K, Core(c, K), NEW text, Len(text) \in Nat
    PROVE  LET d == Guarded(c, text, RepeatGuardFilter(c, text))
           IN Core(d, K) /\ TextStep(c, d)
<1> DEFINE g == RepeatGuardFilter(c, text)
           c1 == Guarded(c, text, g)
<1>1. GuardOK(g.run, g.tripped)
  BY GuardCounts DEF Core
<1> HIDE DEF g
<1>2. DOMAIN c = Fields
  BY CoreBlocks
<1>3. Core(c1, K) /\ TextStep(c, c1)
  <2>1. /\ Keeps(c, c1, {"dropped", "repeat_run", "repeat_tripped"})
        /\ c1.repeat_run = g.run /\ c1.repeat_tripped = g.tripped
    BY <1>2 DEF Guarded, Drop, Keeps, Fields
  <2> HIDE DEF c1
  <2>2. Worded(c1, K)
    <3>1. /\ c1.thinking_buffer = c.thinking_buffer /\ c1.filter = c.filter
          /\ c1.invoke_sniff_buffer = c.invoke_sniff_buffer
      BY <2>1 DEF Keeps, Fields
    <3> QED
      BY <3>1 DEF Core, Worded
  <2>3. Core(c1, K) /\ c1.blocks = c.blocks
    <3>1. {"dropped", "repeat_run", "repeat_tripped"}
            \cap ({"tool_block_indices", "text_block_index", "thinking_block_index"}
                     \cup ManagerFields) = {}
      BY DEF ManagerFields
    <3> QED
      BY <1>1, <2>1, <2>2, <3>1, CoreFields
  <2>4. Grow(c.blocks, c1.blocks)
    BY <2>3, CoreBlocks, GrowNothing
  <2>5. TextStep(c, c1)
    BY <2>1, <2>4 DEF TextStep, Keeps, Fields, TextFields
  <2> QED
    BY <2>3, <2>5
<1> QED
  BY <1>3 DEF g, c1

LEMMA EmitTextCore ==
    ASSUME NEW c, NEW K, Core(c, K), NEW text, Len(text) \in Nat
    PROVE  Core(EmitTextDeltaRaw(c, text), K) /\ TextStep(c, EmitTextDeltaRaw(c, text))
<1> DEFINE g == RepeatGuardFilter(c, text)
           c1 == Guarded(c, text, g)
           c2 == Fenced(c1, FenceAfter(c1, g.kept))
           d == EmitKept(c1, g.kept)
<1>3. Core(c1, K) /\ TextStep(c, c1)
  BY GuardedCore
<1> HIDE DEF g, c1
<1>4. Core(c2, K) /\ TextStep(c1, c2)
  <2>1. Keeps(c1, c2, {"code_fence_open", "mid_line"})
    <3>1. DOMAIN c1 = Fields
      BY <1>3, CoreBlocks
    <3> QED
      BY <3>1 DEF Fenced, Keeps, Fields
  <2> HIDE DEF c2
  <2>2. Core(c2, K) /\ c2.blocks = c1.blocks
    BY <1>3, <2>1, CoreFree DEF Free
  <2>3. Grow(c1.blocks, c2.blocks)
    BY <1>3, <2>2, CoreBlocks, GrowNothing
  <2> QED
    BY <2>1, <2>2, <2>3 DEF TextStep, Keeps, Fields, TextFields
<1> HIDE DEF c2
<1>5. Core(WriteText(TextBlock(c2), g.kept), K) /\ TextStep(c2, WriteText(TextBlock(c2), g.kept))
  <2>1. Core(TextBlock(c2), K) /\ TextStep(c2, TextBlock(c2))
    BY <1>4, TextBlockCore
  <2> DEFINE b == TextBlock(c2)
  <2> HIDE DEF b
  <2>2. Core(b, K) /\ TextStep(c2, b)
    BY <2>1 DEF b
  <2>3. Core(WriteText(b, g.kept), K) /\ TextStep(b, WriteText(b, g.kept))
    BY <2>2, WriteTextCore
  <2> QED
    BY <1>4, <2>2, <2>3, TextStepMore DEF b
<1>6. Core(d, K) /\ TextStep(c, d)
  <2>1. CASE g.kept = <<>>
    <3>1. d = c1
      BY <2>1 DEF EmitKept
    <3> QED
      BY <1>3, <3>1
  <2>2. CASE g.kept # <<>>
    <3>1. d = WriteText(TextBlock(c2), g.kept)
      BY <2>2 DEF EmitKept, c2
    <3>2. Core(d, K) /\ TextStep(c2, d)
      BY <1>5, <3>1
    <3> HIDE DEF d
    <3>3. TextStep(c1, d)
      BY <1>3, <1>4, <3>2, TextStepMore
    <3> QED
      BY <1>3, <3>2, <3>3, TextStepMore
  <2> QED
    BY <2>1, <2>2
<1>7. EmitTextDeltaRaw(c, text) = d
  BY DEF EmitTextDeltaRaw, EmitGuarded, c1, g
<1> QED
  BY <1>6, <1>7

-------------------------------------------------------------------------------
(* Calls.                                                                      *)

LEMMA CalledNew ==
    ASSUME NEW c, NEW d, NEW e, NEW id, Called(c), IsSeq(c.out),
           e.ev = "input", e.data = id,
           d.out = Append(c.out, e), id \notin DOMAIN c.tool_block_indices,
           DOMAIN d.tool_block_indices = DOMAIN c.tool_block_indices \cup {id}
    PROVE  Called(d)
<1> DEFINE n == Len(c.out)
           I == {i \in 1 .. Len(c.out) : c.out[i].ev = "input"}
           J == {i \in 1 .. Len(d.out) : d.out[i].ev = "input"}
<1>1. /\ n \in Nat /\ Len(d.out) = n + 1 /\ d.out[n + 1] = e
      /\ \A i \in 1 .. n : d.out[i] = c.out[i]
  <2> DEFINE o == c.out
             p == Append(o, e)
  <2>1. IsSeq(o) /\ d.out = p
    OBVIOUS
  <2> HIDE DEF o
  <2>2. /\ Adds(o, p, {e.ev}) /\ Len(p) = Len(o) + 1 /\ p[Len(o) + 1] = e
    BY <2>1, AppendAdds
  <2> HIDE DEF p
  <2>3. Len(o) \in Nat /\ \A i \in 1 .. Len(o) : p[i] = o[i]
    BY <2>1, <2>2, LenIsNat DEF Adds
  <2> QED
    BY <2>1, <2>2, <2>3 DEF o
<1>2. J = I \cup {n + 1}
  <2>1. 1 .. Len(d.out) = (1 .. n) \cup {n + 1}
    BY <1>1
  <2> QED
    BY <1>1, <2>1
<1>3. \A i \in I : i # n + 1 /\ d.out[i] = c.out[i]
  BY <1>1
<1>4. /\ \A i \in I : c.out[i].data \in DOMAIN c.tool_block_indices
      /\ \A k \in DOMAIN c.tool_block_indices : \E i \in I : c.out[i].data = k
      /\ \A i, j \in I : c.out[i].data = c.out[j].data => i = j
  BY DEF Called
<1> HIDE DEF I, J
<1>5. \A i \in J : d.out[i].data \in DOMAIN d.tool_block_indices
  BY <1>1, <1>2, <1>3, <1>4
<1>6. \A k \in DOMAIN d.tool_block_indices : \E i \in J : d.out[i].data = k
  BY <1>1, <1>2, <1>3, <1>4
<1>7. ASSUME NEW i \in J, NEW j \in J, d.out[i].data = d.out[j].data PROVE i = j
  <2>1. \A k \in I : d.out[k].data # id
    BY <1>3, <1>4
  <2>2. d.out[n + 1].data = id
    BY <1>1
  <2>3. CASE i \in I /\ j \in I
    BY <1>3, <1>4, <1>7, <2>3
  <2>4. CASE ~ (i \in I /\ j \in I)
    BY <1>2, <1>7, <2>1, <2>2, <2>4
  <2> QED
    BY <2>3, <2>4
<1> QED
  BY <1>5, <1>6, <1>7 DEF Called, J

ToolStep(c, d, id) ==
    /\ Keeps(c, d, {"blocks", "out", "has_tool_use", "tool_block_indices"})
    /\ Grow(c.blocks, d.blocks)
    /\ DOMAIN d.tool_block_indices = DOMAIN c.tool_block_indices \cup {id}

(* The block of a call that was not seen before.                               *)
LEMMA NewCall ==
    ASSUME NEW c, NEW K, Core(c, K), NEW id, id \notin DOMAIN c.tool_block_indices
    PROVE  Core(EmitCompletedToolUse(c, id), K) /\ ToolStep(c, EmitCompletedToolUse(c, id), id)
<1> DEFINE n == Len(c.blocks)
           at == n + 1
           s == ContentBlockStart(c, "tool_use")
           c1 == [s EXCEPT !.tool_block_indices =
                      [i \in DOMAIN @ \cup {id} |-> IF i = id THEN at ELSE @[i]]]
           e == [ev |-> "input", at |-> at, data |-> id]
           c2 == Emit(c1, e)
           d == StopAll(c2, {at})
<1>1. /\ c.blocks \in Blocks /\ n \in Nat /\ Managed(c, {}) /\ "tool_use" \in BlockTypes
  BY CoreBlocks DEF Core, BlockTypes
<1>2. /\ Managed(s, {}) /\ Keeps(c, s, {"blocks", "out", "has_tool_use"})
      /\ Adds(c.out, s.out, {"start", "stop"})
      /\ Grow(c.blocks, s.blocks) /\ Len(s.blocks) = n + 1
      /\ s.blocks[n + 1] = [type |-> "tool_use", open |-> TRUE]
  BY <1>1, StartKeeps
<1> HIDE DEF s, n
<1>3. /\ s.tool_block_indices = c.tool_block_indices /\ DOMAIN s = Fields
  BY <1>2, CoreBlocks DEF Keeps, Fields
<1>4. Called(s)
  BY <1>2, <1>3, CalledSame DEF Core
<1>5. /\ Keeps(s, c1, {"tool_block_indices"})
      /\ DOMAIN c1.tool_block_indices = DOMAIN c.tool_block_indices \cup {id}
      /\ c1.tool_block_indices[id] = at
      /\ \A k \in DOMAIN c.tool_block_indices : c1.tool_block_indices[k] = c.tool_block_indices[k]
  BY <1>3 DEF Keeps, Fields
<1> HIDE DEF c1
<1>6. Managed(c1, {}) /\ c1.blocks = s.blocks /\ c1.out = s.out
  BY <1>2, <1>5, ManagedSame DEF ManagerFields
<1>7. /\ c1.blocks \in Blocks /\ DOMAIN c1.blocks = 1 .. n + 1
      /\ at \in 1 .. Len(c1.blocks) /\ c1.blocks[at] = [type |-> "tool_use", open |-> TRUE]
      /\ Len(c1.blocks) = n + 1
  <2>1. c1.blocks \in Blocks
    BY <1>6 DEF Managed, Blocks
  <2> QED
    BY <1>1, <1>2, <1>6, <2>1, ReadingIs
<1>8. /\ e.ev = "input" /\ e.at = at /\ e.data = id
      /\ Read(Reading(c1.blocks, {}), e) = Reading(c1.blocks, {at})
  <2>1. e.ev = "input" /\ e.at = at /\ e.data = id
    OBVIOUS
  <2> HIDE DEF e
  <2> QED
    BY <1>7, <2>1, ReadComplete
<1> HIDE DEF e, c2
<1>9. /\ Managed(c2, {at}) /\ Keeps(c1, c2, {"out"}) /\ c2.out = Append(c1.out, e)
      /\ c2.blocks = c1.blocks
  <2>1. /\ Managed(c2, {at}) /\ Keeps(c1, c2, {"out"}) /\ c2.out = Append(c1.out, e)
    <3> DEFINE Y == {at}
    <3>1. Read(Reading(c1.blocks, {}), e) = Reading(c1.blocks, Y)
      BY <1>8
    <3> HIDE DEF Y
    <3>2. Read([phase |-> "content", blocks |-> Seen(c1.blocks, {})], e)
            = [phase |-> "content", blocks |-> Seen(c1.blocks, Y)]
      BY <3>1 DEF Reading
    <3> HIDE DEF c2
    <3>3. c2 = Emit(c1, e)
      BY DEF c2
    <3>4. Managed(c2, Y) /\ Keeps(c1, c2, {"out"}) /\ c2.out = Append(c1.out, e)
      <4>1. Managed(c1, {})
        BY <1>6
      <4>2. Managed(Emit(c1, e), Y) /\ Keeps(c1, Emit(c1, e), {"out"})
            /\ Emit(c1, e).out = Append(c1.out, e)
        BY <3>2, <4>1, EmitKeeps, Zenon
      <4> QED
        BY <3>3, <4>2
    <3> QED
      BY <3>4 DEF Y
  <2> QED
    BY <2>1 DEF Keeps, Fields
<1> HIDE DEF c2, at
<1>10. /\ Managed(d, {at} \ {at}) /\ Keeps(c2, d, {"blocks", "out"})
       /\ Adds(c2.out, d.out, {"stop"}) /\ d.blocks = Closed(c2.blocks, {at})
  <2>1. {at} \subseteq {i \in DOMAIN c2.blocks : c2.blocks[i].open}
    BY <1>7, <1>9, ReadingIs
  <2> QED
    BY <1>9, <2>1, StopAllKeeps
<1> HIDE DEF d
<1>11. Managed(d, {})
  <2>1. {at} \ {at} = {}
    OBVIOUS
  <2> QED
    BY <1>10, <2>1
<1>12. Keeps(c, d, {"blocks", "out", "has_tool_use", "tool_block_indices"})
  BY <1>2, <1>5, <1>9, <1>10 DEF Keeps
<1>13. d.tool_block_indices = c1.tool_block_indices
  BY <1>9, <1>10 DEF Keeps, Fields
<1>14. Called(d)
  <2>1. IsSeq(s.out)
    BY <1>2 DEF Adds
  <2>2. c2.tool_block_indices = c1.tool_block_indices
    BY <1>9 DEF Keeps, Fields
  <2>3. Called(c2)
    BY <1>3, <1>4, <1>5, <1>6, <1>8, <1>9, <2>1, <2>2, CalledNew
  <2> QED
    BY <1>10, <1>13, <2>2, <2>3, CalledSame
<1>15. /\ Len(d.blocks) = n + 1 /\ d.blocks[at].type = "tool_use" /\ ~ d.blocks[at].open
       /\ \A i \in 1 .. n : d.blocks[i] = s.blocks[i]
  <2>1. /\ Len(d.blocks) = n + 1
        /\ \A i \in 1 .. n + 1 :
              /\ d.blocks[i].type = c1.blocks[i].type
              /\ d.blocks[i].open = (c1.blocks[i].open /\ i \notin {at})
              /\ i \notin {at} => d.blocks[i] = c1.blocks[i]
    BY <1>7, <1>9, <1>10, ClosedIs
  <2>2. at \in 1 .. n + 1 /\ \A i \in 1 .. n : i \in 1 .. n + 1 /\ i \notin {at}
    BY <1>1 DEF at
  <2>3. d.blocks[at].type = "tool_use" /\ d.blocks[at].open = FALSE
    <3>1. /\ d.blocks[at].type = c1.blocks[at].type
          /\ d.blocks[at].open = (c1.blocks[at].open /\ at \notin {at})
      BY <2>1, <2>2
    <3>2. (c1.blocks[at].open /\ at \notin {at}) = FALSE
      OBVIOUS
    <3>3. d.blocks[at].open = FALSE
      BY <3>1, <3>2, Zenon
    <3>4. c1.blocks[at].type = "tool_use"
      BY <1>7
    <3> QED
      BY <3>1, <3>3, <3>4
  <2>4. \A i \in 1 .. n : d.blocks[i] = s.blocks[i]
    BY <1>6, <2>1, <2>2
  <2> QED
    BY <2>1, <2>3, <2>4
<1>16. Grow(c.blocks, d.blocks)
  BY <1>1, <1>2, <1>15 DEF Grow, Onward, n
<1>17. OpenKinds(d)
  <2> SUFFICES ASSUME NEW i \in 1 .. Len(d.blocks), d.blocks[i].open
               PROVE  d.blocks[i].type \in {"text", "thinking"}
    BY DEF OpenKinds
  <2>1. i \in 1 .. n
    BY <1>1, <1>15 DEF at
  <2>2. c.blocks[i].open /\ d.blocks[i].type = c.blocks[i].type
    BY <1>16, <2>1 DEF Grow, Onward, n
  <2> QED
    BY <2>1, <2>2 DEF Core, OpenKinds, n
<1>18. Indexed(d)
  <2>1. \A i \in 1 .. n : i \in 1 .. Len(d.blocks) /\ d.blocks[i].type = c.blocks[i].type
    BY <1>1, <1>15, <1>16 DEF Grow, Onward, n
  <2>2. /\ d.text_block_index = c.text_block_index
        /\ d.thinking_block_index = c.thinking_block_index
    BY <1>12 DEF Keeps, Fields
  <2>3. \A i, type : Indexes(c, i, type) => Indexes(d, i, type)
    BY <2>1 DEF Indexes, n
  <2>4. ASSUME NEW k \in DOMAIN d.tool_block_indices
        PROVE  /\ d.tool_block_indices[k] \in 1 .. Len(d.blocks)
               /\ d.blocks[d.tool_block_indices[k]].type = "tool_use"
    <3>1. CASE k = id
      BY <1>1, <1>5, <1>13, <1>15, <3>1 DEF at
    <3>2. CASE k # id
      BY <1>5, <1>13, <2>1, <3>2 DEF Core, Indexed, n
    <3> QED
      BY <3>1, <3>2
  <2> QED
    BY <2>2, <2>3, <2>4 DEF Indexed, Core
<1>19. Core(d, K)
  <2>1. /\ d.thinking_buffer = c.thinking_buffer /\ d.filter = c.filter
        /\ d.invoke_sniff_buffer = c.invoke_sniff_buffer
        /\ d.repeat_run = c.repeat_run /\ d.repeat_tripped = c.repeat_tripped
    BY <1>12 DEF Keeps, Fields
  <2>2. Worded(d, K) /\ GuardOK(d.repeat_run, d.repeat_tripped)
    BY <2>1 DEF Core, Worded
  <2> QED
    BY <1>11, <1>14, <1>17, <1>18, <2>2 DEF Core
<1>20. EmitCompletedToolUse(c, id) = d
  <2>1. ContentBlockDelta(c1, at, "input", id) = c2
    BY <1>7 DEF ContentBlockDelta, IsOpen, c2, e, at
  <2>2. ContentBlockStop(c2, at) = d
    BY <1>7, <1>9 DEF ContentBlockStop, IsOpen, d
  <2> QED
    BY <2>1, <2>2 DEF EmitCompletedToolUse, c1, s, n, at
<1>21. ToolStep(c, d, id)
  BY <1>5, <1>12, <1>13, <1>16 DEF ToolStep
<1> QED
  BY <1>19, <1>20, <1>21

LEMMA CallCore ==
    ASSUME NEW c, NEW K, Core(c, K), NEW id
    PROVE  Core(EmitCompletedToolUse(c, id), K) /\ ToolStep(c, EmitCompletedToolUse(c, id), id)
<1>1. CASE id \notin DOMAIN c.tool_block_indices
  BY <1>1, NewCall
<1>2. CASE id \in DOMAIN c.tool_block_indices
  <2> DEFINE d == ClosingText(c, "tool_use")
  <2>1. EmitCompletedToolUse(c, id) = d
    BY <1>2 DEF EmitCompletedToolUse
  <2>2. /\ Managed(d, {}) /\ Keeps(c, d, {"blocks", "out", "has_tool_use"})
        /\ Adds(c.out, d.out, {"stop"}) /\ Grow(c.blocks, d.blocks)
        /\ Len(d.blocks) = Len(c.blocks)
    BY ClosingKeeps DEF Core
  <2> HIDE DEF d
  <2>3. /\ d.tool_block_indices = c.tool_block_indices
        /\ d.text_block_index = c.text_block_index
        /\ d.thinking_block_index = c.thinking_block_index
        /\ d.thinking_buffer = c.thinking_buffer /\ d.filter = c.filter
        /\ d.invoke_sniff_buffer = c.invoke_sniff_buffer
        /\ d.repeat_run = c.repeat_run /\ d.repeat_tripped = c.repeat_tripped
    BY <2>2 DEF Keeps, Fields
  <2>4. Indexed(d) /\ Onward(c.blocks, d.blocks)
    BY <2>2, <2>3, IndexedSame DEF Core, Grow
  <2>5. Worded(d, K) /\ GuardOK(d.repeat_run, d.repeat_tripped)
    BY <2>3 DEF Core, Worded
  <2>6. \A i \in Len(c.blocks) + 1 .. Len(d.blocks) : FALSE
    BY <2>2, CoreBlocks
  <2>7. Core(d, K)
    BY <2>2, <2>3, <2>4, <2>5, <2>6, CoreStep
  <2>8. ToolStep(c, d, id)
    <3>1. DOMAIN d.tool_block_indices = DOMAIN c.tool_block_indices \cup {id}
      BY <1>2, <2>3
    <3> QED
      BY <2>2, <3>1 DEF ToolStep, Keeps
  <2> QED
    BY <2>1, <2>7, <2>8
<1> QED
  BY <1>1, <1>2

LEMMA StopBlockCore ==
    ASSUME NEW c, NEW K, Core(c, K), NEW i
    PROVE  /\ Core(ContentBlockStop(c, i), K)
           /\ Keeps(c, ContentBlockStop(c, i), {"blocks", "out"})
<1>1. CASE IsOpen(c, i)
  <2> DEFINE S == {i}
  <2>1. S \subseteq {j \in DOMAIN c.blocks : c.blocks[j].open}
    BY <1>1 DEF IsOpen
  <2> HIDE DEF S
  <2>2. Core(StopAll(c, S), K) /\ Keeps(c, StopAll(c, S), {"blocks", "out"})
    BY <2>1, StopCore
  <2> QED
    BY <1>1, <2>2 DEF ContentBlockStop, S
<1>2. CASE ~ IsOpen(c, i)
  BY <1>2 DEF ContentBlockStop, Keeps
<1> QED
  BY <1>1, <1>2

(* A client that follows the thinking: it is in an open block.                 *)
Following(c) == Clean(c) => IsThinkingBlockOpen(c)

(* A thinking block that is open is signed and stopped.                        *)
LEMMA SignOpenCore ==
    ASSUME NEW c, NEW K, Core(c, K), IsThinkingBlockOpen(c)
    PROVE  Core(SignAndStop(c), K) /\ Keeps(c, SignAndStop(c), {"blocks", "out"})
<1> DEFINE i == c.thinking_block_index
           e1 == [ev |-> "thinking", at |-> i, data |-> <<>>]
           c1 == Emit(c, e1)
           e == [ev |-> "signature", at |-> i]
           c2 == Emit(c1, e)
           X == {i}
           d == StopAll(c2, X)
<1>1. /\ i \in 1 .. Len(c.blocks) /\ c.blocks[i].open /\ c.blocks[i].type = "thinking"
      /\ i # 0 /\ Len(c.blocks) \in Nat
  <2>1. DOMAIN c.blocks = 1 .. Len(c.blocks) /\ Len(c.blocks) \in Nat
    BY CoreBlocks
  <2> QED
    BY <2>1 DEF IsThinkingBlockOpen, IsBlockOpenOfType, IsOpen
<1>2. e.ev = "signature" /\ e.at = i
  OBVIOUS
<1> HIDE DEF i
<1>3. Core(c1, K) /\ Keeps(c, c1, {"out"}) /\ c1.blocks = c.blocks
  BY <1>1, DeltaCore DEF i
<1> HIDE DEF c1, e
<1>4. c1.blocks \in Blocks /\ DOMAIN c1.blocks = 1 .. Len(c1.blocks) /\ Managed(c1, {})
  BY <1>3, CoreBlocks DEF Core
<1>5. Managed(c2, X) /\ Keeps(c1, c2, {"out"}) /\ Adds(c1.out, c2.out, {"signature"})
  <2>1. Read(Reading(c1.blocks, {}), e) = Reading(c1.blocks, X)
    BY <1>1, <1>2, <1>3, <1>4, ReadComplete
  <2> HIDE DEF X, c2
  <2>2. Read([phase |-> "content", blocks |-> Seen(c1.blocks, {})], e)
          = [phase |-> "content", blocks |-> Seen(c1.blocks, X)]
    BY <2>1 DEF Reading
  <2>3. /\ Managed(Emit(c1, e), X) /\ Keeps(c1, Emit(c1, e), {"out"})
        /\ Adds(c1.out, Emit(c1, e).out, {e.ev})
    BY <1>4, <2>2, EmitKeeps, Zenon
  <2> QED
    BY <1>2, <2>3 DEF c2
<1> HIDE DEF c2
<1>6. c2.blocks = c1.blocks
  BY <1>5 DEF Keeps, Fields
<1>7. /\ Managed(d, X \ X) /\ Keeps(c2, d, {"blocks", "out"})
      /\ Adds(c2.out, d.out, {"stop"}) /\ d.blocks = Closed(c2.blocks, X)
  <2>1. X \subseteq {j \in DOMAIN c2.blocks : c2.blocks[j].open}
    BY <1>1, <1>3, <1>4, <1>6
  <2>2. \A j \in X : c2.blocks[j].type = "tool_use" => j \in X
    OBVIOUS
  <2> HIDE DEF X
  <2> QED
    BY <1>5, <2>1, <2>2, StopAllKeeps
<1>8. Managed(d, {})
  <2>1. X \ X = {}
    OBVIOUS
  <2> QED
    BY <1>7, <2>1
<1> HIDE DEF d, X
<1>9. Keeps(c, d, {"blocks", "out"}) /\ Keeps(c1, d, {"blocks", "out"})
  BY <1>3, <1>5, <1>7 DEF Keeps
<1>10. /\ d.tool_block_indices = c1.tool_block_indices
       /\ d.text_block_index = c1.text_block_index
       /\ d.thinking_block_index = c1.thinking_block_index
       /\ d.thinking_buffer = c1.thinking_buffer /\ d.filter = c1.filter
       /\ d.invoke_sniff_buffer = c1.invoke_sniff_buffer
       /\ d.repeat_run = c1.repeat_run /\ d.repeat_tripped = c1.repeat_tripped
  BY <1>9 DEF Keeps, Fields
<1>11. Onward(c1.blocks, d.blocks) /\ Len(d.blocks) = Len(c1.blocks)
  BY <1>4, <1>6, <1>7, ClosedOnward
<1>12. Indexed(d)
  BY <1>3, <1>4, <1>8, <1>10, <1>11, IndexedSame DEF Core
<1>13. Worded(d, K) /\ GuardOK(d.repeat_run, d.repeat_tripped)
  BY <1>3, <1>10 DEF Core, Worded
<1>14. \A j \in Len(c1.blocks) + 1 .. Len(d.blocks) : FALSE
  BY <1>1, <1>3, <1>11
<1>15. Adds(c1.out, d.out, {"signature"} \cup {"stop"})
  BY <1>5, <1>7, AddsMore
<1>16. Core(d, K)
  BY <1>3, <1>8, <1>10, <1>11, <1>12, <1>13, <1>14, <1>15, CoreStep
<1>17. SignAndStop(c) = d
  <2>1. ThinkingDelta(c, <<>>) = c1
    BY <1>1 DEF ThinkingDelta, c1, i
  <2>2. ContentBlockStop(c2, i) = d
    BY <1>1, <1>3, <1>4, <1>6 DEF ContentBlockStop, IsOpen, d, X
  <2> QED
    BY <1>1, <2>1, <2>2 DEF SignAndStop, c2, e, i
<1> QED
  BY <1>9, <1>16, <1>17

(* The same when nobody can say whether it is open.                            *)
LEMMA SignCore ==
    ASSUME NEW c, NEW K, Core(c, K), Following(c)
    PROVE  Core(SignAndStop(c), K) /\ Keeps(c, SignAndStop(c), {"blocks", "out"})
<1> DEFINE i == c.thinking_block_index
           e1 == [ev |-> "thinking", at |-> i, data |-> <<>>]
           c1 == Emit(c, e1)
           e2 == [ev |-> "signature", at |-> i]
           c2 == Emit(c1, e2)
<1>1. CASE IsThinkingBlockOpen(c)
  BY <1>1, SignOpenCore
<1>2. CASE i = 0
  BY <1>2 DEF SignAndStop, Keeps
<1>3. CASE ~ IsThinkingBlockOpen(c) /\ i # 0
  <2>1. ~ Clean(c)
    BY <1>3 DEF Following
  <2>2. e1.ev # "input" /\ e2.ev # "input"
    OBVIOUS
  <2> HIDE DEF e1, e2
  <2>3. Core(c1, K) /\ Keeps(c, c1, {"out"}) /\ c1.blocks = c.blocks /\ c1.mixed = c.mixed
    BY <2>1, <2>2, UnreadCore
  <2> HIDE DEF c1
  <2>4. ~ Clean(c1)
    BY <2>1, <2>3 DEF Clean
  <2>5. Core(c2, K) /\ Keeps(c1, c2, {"out"})
    BY <2>2, <2>3, <2>4, UnreadCore
  <2> HIDE DEF c2
  <2>6. Core(ContentBlockStop(c2, i), K) /\ Keeps(c2, ContentBlockStop(c2, i), {"blocks", "out"})
    BY <2>5, StopBlockCore
  <2>7. SignAndStop(c) = ContentBlockStop(c2, i)
    BY <1>3 DEF SignAndStop, ThinkingDelta, c2, c1, e1, e2
  <2>8. Keeps(c, ContentBlockStop(c2, i), {"blocks", "out"})
    BY <2>3, <2>5, <2>6 DEF Keeps
  <2> QED
    BY <2>6, <2>7, <2>8
<1> QED
  BY <1>1, <1>2, <1>3

-------------------------------------------------------------------------------
(* Positions and parts of texts.                                               *)

LEMMA FirstIn ==
    ASSUME NEW S, S \subseteq Nat
    PROVE  (S = {} /\ FirstOf(S) = 0) \/ FirstOf(S) \in S
<1>1. CASE S = {}
  BY <1>1 DEF FirstOf
<1>2. CASE S # {}
  <2>1. \E m \in S : \A n \in S : m <= n
    BY <1>2, LeastNat
  <2> QED
    BY <1>2, <2>1 DEF FirstOf
<1> QED
  BY <1>1, <1>2

LEMMA LastIn ==
    ASSUME NEW n \in Nat, NEW S, S \subseteq 1 .. n
    PROVE  (S = {} /\ LastOf(S) = 0) \/ LastOf(S) \in S
<1>1. CASE S = {}
  BY <1>1 DEF LastOf
<1>2. CASE S # {}
  <2> DEFINE T == {k \in 0 .. n : n - k \in S}
  <2>1. T \subseteq Nat
    OBVIOUS
  <2>2. T # {}
    <3>1. PICK s \in S : TRUE
      BY <1>2
    <3>2. n - s \in 0 .. n /\ n - (n - s) = s
      OBVIOUS
    <3>3. n - s \in T
      BY <3>2
    <3> QED
      BY <3>3
  <2>3. PICK m \in T : \A k \in T : m <= k
    <3> HIDE DEF T
    <3> QED
      BY <2>1, <2>2, LeastNat
  <2>4. \A s \in S : n - m >= s
    <3> TAKE s \in S
    <3>1. n - s \in 0 .. n /\ n - (n - s) = s
      OBVIOUS
    <3>2. n - s \in T
      BY <3>1
    <3>3. m <= n - s
      BY <2>3, <3>2
    <3> QED
      BY <3>3
  <2>5. \E s \in S : \A t \in S : s >= t
    BY <2>4
  <2> QED
    BY <1>2, <2>5 DEF LastOf
<1> QED
  BY <1>1, <1>2

LEMMA TextLen ==
    ASSUME NEW K, NEW t \in Texts(K)
    PROVE  /\ Len(t) \in Nat /\ DOMAIN t = 1 .. Len(t)
           /\ \A i \in 1 .. Len(t) : t[i].k \in K /\ t[i].n \in Nat
<1>1. Len(t) \in Nat /\ DOMAIN t = 1 .. Len(t)
  BY LenProperties DEF Texts
<1>2. \A i \in 1 .. Len(t) : t[i] \in [k : K, n : Nat]
  BY ElementOfSeq DEF Texts
<1> QED
  BY <1>1, <1>2

(* A part of a text is a text.                                                 *)
LEMMA PartIs ==
    ASSUME NEW K, NEW t \in Texts(K), NEW i \in Int, NEW j \in Int, i >= 1, j <= Len(t)
    PROVE  /\ SubSeq(t, i, j) \in Texts(K)
           /\ Len(SubSeq(t, i, j)) = IF i <= j THEN j - i + 1 ELSE 0
           /\ \A k \in 1 .. j - i + 1 : SubSeq(t, i, j)[k] = t[i + k - 1]
<1>1. Len(t) \in Nat /\ \A k \in 1 .. Len(t) : t[k] \in [k : K, n : Nat]
  BY LenProperties, ElementOfSeq DEF Texts
<1>2. \A k \in i .. j : t[k] \in [k : K, n : Nat]
  <2> TAKE k \in i .. j
  <2>1. k \in 1 .. Len(t)
    BY <1>1
  <2> QED
    BY <1>1, <2>1
<1> QED
  BY <1>2, SubSeqProperties DEF Texts

LEMMA UptoIs ==
    ASSUME NEW K, NEW t \in Texts(K), NEW j \in Int, j <= Len(t)
    PROVE  /\ Upto(t, j) \in Texts(K)
           /\ Len(Upto(t, j)) = IF 1 <= j THEN j ELSE 0
           /\ Len(Upto(t, j)) \in Nat
           /\ \A k \in 1 .. j : Upto(t, j)[k] = t[k]
<1>1. /\ SubSeq(t, 1, j) \in Texts(K)
      /\ Len(SubSeq(t, 1, j)) = IF 1 <= j THEN j - 1 + 1 ELSE 0
      /\ \A k \in 1 .. j - 1 + 1 : SubSeq(t, 1, j)[k] = t[1 + k - 1]
  BY PartIs
<1>2. j - 1 + 1 = j /\ \A k \in 1 .. j : 1 + k - 1 = k
  OBVIOUS
<1> DEFINE u == Upto(t, j)
<1>3. u = SubSeq(t, 1, j)
  BY DEF Upto
<1> HIDE DEF u
<1>4. u \in Texts(K) /\ Len(u) = (IF 1 <= j THEN j ELSE 0) /\ Len(u) \in Nat
  BY <1>1, <1>2, <1>3
<1>5. \A k \in 1 .. j : u[k] = t[k]
  BY <1>1, <1>2, <1>3
<1> QED
  BY <1>4, <1>5 DEF u

LEMMA FromIs ==
    ASSUME NEW K, NEW t \in Texts(K), NEW i \in Int, i >= 1
    PROVE  From(t, i) \in Texts(K) /\ Len(From(t, i)) = IF i <= Len(t) THEN Len(t) - i + 1 ELSE 0
<1>1. Len(t) \in Nat
  BY TextLen
<1>2. /\ SubSeq(t, i, Len(t)) \in Texts(K)
      /\ Len(SubSeq(t, i, Len(t))) = IF i <= Len(t) THEN Len(t) - i + 1 ELSE 0
  BY <1>1, PartIs
<1> QED
  BY <1>2 DEF From

LEMMA JoinedIs ==
    ASSUME NEW K, NEW t \in Texts(K), NEW u \in Texts(K)
    PROVE  t \o u \in Texts(K) /\ Len(t \o u) = Len(t) + Len(u)
BY ConcatProperties DEF Texts

LEMMA NothingIs == \A K : <<>> \in Texts(K)
BY EmptySeq DEF Texts

LEMMA PairsIn ==
    ASSUME NEW K, NEW t \in Texts(K), NEW first, NEW seconds
    PROVE  Pairs(t, first, seconds) \subseteq {i \in 1 .. Len(t) - 1 : t[i].k = first}
BY DEF Pairs

-------------------------------------------------------------------------------
(* Recovery of calls from text.                                                *)

(* A step that changes fields of the text path only, none of them in Core but  *)
(* the buffer of the text path.                                                *)
LEMMA BufferCore ==
    ASSUME NEW c, NEW K, Core(c, K), NEW d,
           Keeps(c, d, {"invoke_sniff_buffer", "dropped"}), d.invoke_sniff_buffer \in Texts(K)
    PROVE  Core(d, K) /\ TextStep(c, d)
<1> DEFINE F == {"invoke_sniff_buffer", "dropped"}
<1>1. \A f \in Fields \ F : d[f] = c[f]
  BY DEF Keeps
<1>2. /\ d.thinking_buffer = c.thinking_buffer /\ d.filter = c.filter
      /\ d.repeat_run = c.repeat_run /\ d.repeat_tripped = c.repeat_tripped
      /\ d.tool_block_indices = c.tool_block_indices
  BY <1>1 DEF Fields
<1>3. Worded(d, K) /\ GuardOK(d.repeat_run, d.repeat_tripped)
  BY <1>2 DEF Core, Worded
<1>4. F \cap ({"tool_block_indices", "text_block_index", "thinking_block_index"}
                \cup ManagerFields) = {}
  BY DEF ManagerFields
<1>5. Core(d, K) /\ d.blocks = c.blocks
  BY <1>3, <1>4, CoreFields
<1>6. Grow(c.blocks, d.blocks)
  BY <1>5, CoreBlocks, GrowNothing
<1>7. Keeps(c, d, TextFields)
  BY <1>1 DEF Keeps, TextFields
<1> QED
  BY <1>2, <1>5, <1>6, <1>7 DEF TextStep

LEMMA HoldCore ==
    ASSUME NEW c, NEW K, Core(c, K), NEW buf \in Texts(K)
    PROVE  /\ Core(HoldInvoke(c, buf), K) /\ TextStep(c, HoldInvoke(c, buf))
           /\ HoldInvoke(c, buf).invoke_sniff_buffer = buf
<1> DEFINE d == HoldInvoke(c, buf)
<1>1. Keeps(c, d, {"invoke_sniff_buffer", "dropped"}) /\ d.invoke_sniff_buffer = buf
  BY CoreBlocks DEF HoldInvoke, Keeps, Fields
<1> HIDE DEF d
<1>2. Core(d, K) /\ TextStep(c, d)
  BY <1>1, BufferCore
<1> QED
  BY <1>1, <1>2 DEF d

LEMMA DropCore ==
    ASSUME NEW c, NEW K, Core(c, K), NEW text
    PROVE  Core(Drop(c, text), K) /\ TextStep(c, Drop(c, text))
<1> DEFINE d == Drop(c, text)
<1>1. Keeps(c, d, {"invoke_sniff_buffer", "dropped"})
      /\ d.invoke_sniff_buffer = c.invoke_sniff_buffer
  BY CoreBlocks DEF Drop, Keeps, Fields
<1> HIDE DEF d
<1>2. Core(d, K) /\ TextStep(c, d)
  <2>1. d.invoke_sniff_buffer \in Texts(K)
    BY <1>1 DEF Core, Worded
  <2> QED
    BY <1>1, <2>1, BufferCore
<1> QED
  BY <1>2 DEF d

(* Two writes in a row.                                                        *)
LEMMA WrittenCore ==
    ASSUME NEW c, NEW K, NEW d, Core(c, K), Core(d, K), TextStep(c, d), NEW text \in Texts(K)
    PROVE  Core(EmitTextDeltaRaw(d, text), K) /\ TextStep(c, EmitTextDeltaRaw(d, text))
<1>1. Len(text) \in Nat
  BY TextLen
<1>2. Core(EmitTextDeltaRaw(d, text), K) /\ TextStep(d, EmitTextDeltaRaw(d, text))
  BY <1>1, EmitTextCore
<1> QED
  BY <1>2, TextStepMore

LEMMA HeldCore ==
    ASSUME NEW c, NEW K, NEW d, Core(c, K), Core(d, K), TextStep(c, d), NEW buf \in Texts(K)
    PROVE  Core(HoldInvoke(d, buf), K) /\ TextStep(c, HoldInvoke(d, buf))
<1>1. Core(HoldInvoke(d, buf), K) /\ TextStep(d, HoldInvoke(d, buf))
  BY HoldCore
<1> QED
  BY <1>1, TextStepMore

LEMMA StrippedIs ==
    ASSUME NEW K, NEW t \in Texts(K)
    PROVE  StripTrailingStray(t) \in Texts(K)
<1>1. Len(t) \in Nat /\ DOMAIN t = 1 .. Len(t)
  BY TextLen
<1>2. CASE TrailingStray(t) = {}
  BY <1>2 DEF StripTrailingStray
<1>3. CASE TrailingStray(t) # {}
  <2>1. TrailingStray(t) \subseteq 1 .. Len(t)
    BY <1>1 DEF TrailingStray
  <2>2. TrailingStray(t) \subseteq Nat
    BY <1>1, <2>1
  <2>3. FirstOf(TrailingStray(t)) \in 1 .. Len(t)
    BY <1>3, <2>1, <2>2, FirstIn
  <2> DEFINE j == FirstOf(TrailingStray(t)) - 1
  <2>4. j \in Int /\ j <= Len(t)
    BY <1>1, <2>3
  <2> HIDE DEF j
  <2>5. Upto(t, j) \in Texts(K)
    BY <2>4, UptoIs
  <2> QED
    BY <1>3, <2>5 DEF StripTrailingStray, j
<1> QED
  BY <1>2, <1>3

LEMMA StartIs ==
    ASSUME NEW K, NEW buf \in Texts(K)
    PROVE  FindInvokeStart(buf) = 0 \/ FindInvokeStart(buf) \in 1 .. Len(buf)
<1> DEFINE S == {i \in InvokeOpens(buf) : ~ QuotedBefore(buf, i)}
<1>1. Len(buf) \in Nat
  BY TextLen
<1>2. S \subseteq 1 .. Len(buf) - 1
  BY PairsIn DEF InvokeOpens
<1>3. S \subseteq Nat /\ S \subseteq 1 .. Len(buf)
  BY <1>1, <1>2
<1>4. FirstOf(S) = 0 \/ FirstOf(S) \in S
  BY <1>3, FirstIn
<1> QED
  BY <1>3, <1>4 DEF FindInvokeStart

LEMMA EndIs ==
    ASSUME NEW K, NEW buf \in Texts(K), NEW start \in 1 .. Len(buf)
    PROVE  FindInvokeBlockEnd(buf, start) = 0 \/ FindInvokeBlockEnd(buf, start) \in start .. Len(buf)
<1> DEFINE N == {i \in InvokeOpens(buf) : i > start}
           next == FirstOf(N)
           boundary == IF next = 0 THEN Len(buf) + 1 ELSE next
           S == {i \in start .. boundary - 1 : buf[i].k = "invC"}
<1>1. Len(buf) \in Nat
  BY TextLen
<1>2. N \subseteq 1 .. Len(buf) - 1
  BY PairsIn DEF InvokeOpens
<1>3. N \subseteq Nat /\ N \subseteq 1 .. Len(buf)
  BY <1>1, <1>2
<1>4. next = 0 \/ next \in N
  <2> HIDE DEF N
  <2> QED
    BY <1>3, FirstIn
<1>5. boundary \in 1 .. Len(buf) + 1
  <2>1. next = 0 \/ next \in 1 .. Len(buf)
    <3> HIDE DEF next, N
    <3> QED
      BY <1>3, <1>4
  <2> HIDE DEF next
  <2>2. boundary = IF next = 0 THEN Len(buf) + 1 ELSE next
    OBVIOUS
  <2> HIDE DEF boundary
  <2> QED
    BY <1>1, <2>1, <2>2
<1> HIDE DEF boundary
<1>6. S \subseteq start .. Len(buf)
  BY <1>1, <1>5
<1>7. S \subseteq 1 .. Len(buf)
  BY <1>1, <1>6
<1>8. LastOf(S) = 0 \/ LastOf(S) \in S
  <2> HIDE DEF S
  <2> QED
    BY <1>1, <1>7, LastIn
<1>9. FindInvokeBlockEnd(buf, start) = LastOf(S)
  BY DEF FindInvokeBlockEnd, boundary
<1> QED
  BY <1>6, <1>8, <1>9

(* A complete block: a call with an id of its own, or text.                    *)
LEMMA TakeCore ==
    ASSUME NEW c, NEW K, Core(c, K), NEW buf \in Texts(K), NEW before \in Texts(K),
           NEW start \in 1 .. Len(buf), NEW end \in start .. Len(buf)
    PROVE  /\ Core(TakeInvoke(c, buf, before, start, end), K)
           /\ TextStep(c, TakeInvoke(c, buf, before, start, end))
<1>1. Len(buf) \in Nat /\ buf[start].n \in Nat /\ end \in Int /\ end <= Len(buf)
  BY TextLen
<1>2. CASE CouldBeCall(c, before) /\ buf[start + 1].k = "oke"
  <2> DEFINE lost == SubSeq(buf, Len(before) + 1, end)
             c1 == Drop(c, lost)
             c2 == EmitTextDeltaRaw(c1, before)
             id == RecoveredId(buf[start])
             d == EmitCompletedToolUse(c2, id)
  <2>1. Core(c1, K) /\ TextStep(c, c1)
    BY DropCore
  <2> HIDE DEF c1
  <2>2. Core(c2, K) /\ TextStep(c, c2)
    BY <2>1, WrittenCore
  <2> HIDE DEF c2
  <2>3. Core(d, K) /\ ToolStep(c2, d, id)
    BY <2>2, CallCore
  <2>4. id \notin ToolIds
    <3>1. id[1] = "toolu"
      BY DEF RecoveredId
    <3> QED
      BY <3>1, ToolIdAssumption
  <2> HIDE DEF d, id
  <2>5. TextStep(c2, d)
    <3>1. Keeps(c2, d, TextFields)
      BY <2>3 DEF ToolStep, Keeps, TextFields
    <3>2. DOMAIN d.tool_block_indices \cap ToolIds = DOMAIN c2.tool_block_indices \cap ToolIds
      BY <2>3, <2>4 DEF ToolStep
    <3> QED
      BY <2>3, <3>1, <3>2 DEF TextStep, ToolStep
  <2>6. TextStep(c, d)
    BY <2>2, <2>3, <2>5, TextStepMore
  <2>7. TakeInvoke(c, buf, before, start, end) = d
    BY <1>2 DEF TakeInvoke, d, c2, c1, id
  <2> QED
    BY <2>3, <2>6, <2>7
<1>3. CASE ~ (CouldBeCall(c, before) /\ buf[start + 1].k = "oke")
  <2>1. Upto(buf, end) \in Texts(K)
    BY <1>1, UptoIs
  <2>2. TextStep(c, c)
    BY TextStepNothing
  <2>3. TakeInvoke(c, buf, before, start, end) = EmitTextDeltaRaw(c, Upto(buf, end))
    BY <1>3 DEF TakeInvoke
  <2> QED
    BY <2>1, <2>2, <2>3, WrittenCore
<1> QED
  BY <1>2, <1>3

(* What the drain has reached: a context and the rest of its buffer.           *)
Draining(c, s, K) ==
    Core(s.ctx, K) /\ TextStep(c, s.ctx) /\ s.buf \in Texts(K)

LEMMA BeforeIs ==
    ASSUME NEW K, NEW buf \in Texts(K), NEW start \in 1 .. Len(buf)
    PROVE  Upto(buf, start - 1) \in Texts(K) /\ StripTrailingStray(Upto(buf, start - 1)) \in Texts(K)
<1>1. Len(buf) \in Nat
  BY TextLen
<1>2. start - 1 \in Int /\ start - 1 <= Len(buf)
  BY <1>1
<1>3. Upto(buf, start - 1) \in Texts(K)
  BY <1>2, UptoIs
<1> QED
  BY <1>3, StrippedIs

LEMMA DrainNextCore ==
    ASSUME NEW c, NEW K, Core(c, K), NEW s, Draining(c, s, K)
    PROVE  Draining(c, DrainNext(s), K)
<1> DEFINE buf == s.buf
           start == FindInvokeStart(buf)
           end == FindInvokeBlockEnd(buf, start)
           before == StripTrailingStray(Upto(buf, start - 1))
<1>1. CASE start = 0 \/ end = 0
  BY <1>1 DEF DrainNext
<1>2. CASE ~ (start = 0 \/ end = 0)
  <2>1. buf \in Texts(K) /\ Len(buf) \in Nat
    BY TextLen DEF Draining
  <2>2. start \in 1 .. Len(buf)
    BY <1>2, <2>1, StartIs
  <2> HIDE DEF start, buf
  <2>3. end \in start .. Len(buf)
    BY <1>2, <2>1, <2>2, EndIs
  <2> HIDE DEF end
  <2>4. before \in Texts(K)
    BY <2>1, <2>2, BeforeIs
  <2> HIDE DEF before
  <2> DEFINE d == TakeInvoke(s.ctx, buf, before, start, end)
  <2>5. Core(d, K) /\ TextStep(s.ctx, d)
    BY <2>1, <2>2, <2>3, <2>4, TakeCore DEF Draining
  <2>6. From(buf, end + 1) \in Texts(K)
    <3>1. end + 1 \in Int /\ end + 1 >= 1
      BY <2>1, <2>2, <2>3
    <3> QED
      BY <2>1, <3>1, FromIs
  <2>7. DrainNext(s) = [ctx |-> d, buf |-> From(buf, end + 1)]
    BY <1>2 DEF DrainNext, start, end, before, buf
  <2> HIDE DEF d
  <2>8. TextStep(c, d)
    BY <2>5, TextStepMore DEF Draining
  <2> QED
    BY <2>5, <2>6, <2>7, <2>8 DEF Draining
<1> QED
  BY <1>1, <1>2

DrainUpto(m, c, buf, n) ==
    m = [k \in 0 .. n |-> IF k = 0 THEN [ctx |-> c, buf |-> buf] ELSE DrainNext(m[k - 1])]

LEMMA DrainExists ==
    ASSUME NEW c, NEW buf, NEW n \in Nat
    PROVE  \E m : DrainUpto(m, c, buf, n)
<1> DEFINE G == {k \in 0 .. n : \E m : DrainUpto(m, c, buf, k)}
<1>1. 0 \in G
  <2>1. DrainUpto([k \in 0 .. 0 |-> [ctx |-> c, buf |-> buf]], c, buf, 0)
    BY DEF DrainUpto
  <2> QED
    BY <2>1
<1>2. ASSUME NEW k \in 1 .. n, k - 1 \in G PROVE k \in G
  <2>1. PICK m : DrainUpto(m, c, buf, k - 1)
    BY <1>2
  <2> DEFINE e == [i \in 0 .. k |-> IF i = k THEN DrainNext(m[k - 1]) ELSE m[i]]
  <2>2. \A i \in 0 .. k :
           e[i] = IF i = 0 THEN [ctx |-> c, buf |-> buf] ELSE DrainNext(e[i - 1])
    BY <2>1 DEF DrainUpto
  <2>3. DrainUpto(e, c, buf, k)
    BY <2>2 DEF DrainUpto
  <2> QED
    BY <2>3
<1>3. \A k \in 0 .. n : k \in G
  <2> HIDE DEF G
  <2> QED
    BY <1>1, <1>2, UpTo
<1> QED
  BY <1>3

LEMMA DrainBlocksCore ==
    ASSUME NEW b, NEW c, NEW K, Core(b, K), Core(c, K), TextStep(b, c), NEW buf \in Texts(K)
    PROVE  Draining(b, DrainBlocks(c, buf), K)
<1> DEFINE n == Len(buf)
           m == CHOOSE m : DrainUpto(m, c, buf, n)
<1>1. n \in Nat
  BY TextLen
<1>2. DrainUpto(m, c, buf, n)
  BY <1>1, DrainExists
<1>3. DrainBlocks(c, buf) = m[n]
  BY Zenon DEF DrainBlocks, DrainUpto
<1> HIDE DEF m, n
<1> DEFINE G == {k \in 0 .. n : Draining(b, m[k], K)}
<1>4. 0 \in G
  <2>1. m[0] = [ctx |-> c, buf |-> buf]
    BY <1>1, <1>2 DEF DrainUpto
  <2> QED
    BY <1>1, <2>1 DEF Draining
<1>5. ASSUME NEW k \in 1 .. n, k - 1 \in G PROVE k \in G
  <2>1. m[k] = DrainNext(m[k - 1])
    BY <1>1, <1>2 DEF DrainUpto
  <2>2. Draining(b, m[k - 1], K)
    BY <1>5
  <2>3. Draining(b, m[k], K)
    BY <2>1, <2>2, DrainNextCore
  <2> QED
    BY <2>3
<1>6. \A k \in 0 .. n : k \in G
  <2> HIDE DEF G
  <2> QED
    BY <1>1, <1>4, <1>5, UpTo
<1>7. n \in G
  BY <1>1, <1>6
<1> QED
  BY <1>3, <1>7

LEMMA SuffixIs ==
    ASSUME NEW K, NEW buf \in Texts(K)
    PROVE  PartialInvokeTagSuffix(buf) \in 0 .. Len(buf)
<1> DEFINE S == {i \in DOMAIN buf : buf[i].k \in OpensAngle}
           lt == LastOf(S)
<1>1. Len(buf) \in Nat /\ S \subseteq 1 .. Len(buf)
  BY TextLen
<1>2. lt = 0 \/ lt \in S
  <2> HIDE DEF S
  <2> QED
    BY <1>1, LastIn
<1>3. lt = 0 \/ lt \in 1 .. Len(buf)
  BY <1>1, <1>2
<1> HIDE DEF lt
<1>4. \/ PartialInvokeTagSuffix(buf) = 0
      \/ lt # 0 /\ PartialInvokeTagSuffix(buf) = Len(buf) - lt + 1
  BY DEF PartialInvokeTagSuffix, lt
<1> QED
  BY <1>1, <1>3, <1>4

LEMMA DrainRestCore ==
    ASSUME NEW c, NEW K, Core(c, K), NEW s, Draining(c, s, K), NEW flush \in BOOLEAN
    PROVE  Core(DrainRest(s, flush), K) /\ TextStep(c, DrainRest(s, flush))
<1> DEFINE buf == s.buf
           x == s.ctx
           start == FindInvokeStart(buf)
           before == StripTrailingStray(Upto(buf, start - 1))
           upto == Len(buf) - IF flush THEN 0 ELSE PartialInvokeTagSuffix(buf)
           d == DrainRest(s, flush)
<1>1. buf \in Texts(K) /\ Len(buf) \in Nat /\ Core(x, K) /\ TextStep(c, x)
  BY TextLen DEF Draining
<1>2. d = IF start # 0 THEN HoldOpenInvoke(x, buf, before, start, flush)
          ELSE HoldInvoke(EmitTextDeltaRaw(x, Upto(buf, upto)), From(buf, upto + 1))
  BY DEF DrainRest
<1> HIDE DEF buf, x, d
<1>3. CASE start # 0
  <2> DEFINE text == Upto(buf, start - 1)
             rest == From(buf, start)
  <2>1. start \in 1 .. Len(buf)
    BY <1>1, <1>3, StartIs
  <2> HIDE DEF start
  <2>2. text \in Texts(K) /\ rest \in Texts(K)
    <3>1. start \in Int /\ start >= 1
      BY <1>1, <2>1
    <3> QED
      BY <1>1, <2>1, <3>1, BeforeIs, FromIs
  <2> HIDE DEF before, text, rest
  <2>3. \/ d = EmitTextDeltaRaw(x, buf)
        \/ d = EmitTextDeltaRaw(EmitTextDeltaRaw(x, text), rest)
        \/ d = HoldInvoke(EmitTextDeltaRaw(x, text), rest)
    BY <1>2, <1>3 DEF HoldOpenInvoke, text, rest
  <2> DEFINE y == EmitTextDeltaRaw(x, text)
  <2>4. Core(y, K) /\ TextStep(c, y)
    BY <1>1, <2>2, WrittenCore
  <2> HIDE DEF y
  <2>5. CASE d = EmitTextDeltaRaw(x, buf)
    BY <1>1, <2>5, WrittenCore DEF d
  <2>6. CASE d = EmitTextDeltaRaw(EmitTextDeltaRaw(x, text), rest)
    <3>1. d = EmitTextDeltaRaw(y, rest)
      BY <2>6 DEF y
    <3> QED
      BY <2>2, <2>4, <3>1, WrittenCore DEF d
  <2>7. CASE d = HoldInvoke(EmitTextDeltaRaw(x, text), rest)
    <3>1. d = HoldInvoke(y, rest)
      BY <2>7 DEF y
    <3> QED
      BY <2>2, <2>4, <3>1, HeldCore DEF d
  <2> QED
    BY <2>3, <2>5, <2>6, <2>7 DEF d
<1>4. CASE ~ (start # 0)
  <2>1. upto \in 0 .. Len(buf)
    BY <1>1, SuffixIs
  <2> HIDE DEF upto, start
  <2>2. upto \in Int /\ upto <= Len(buf) /\ upto + 1 \in Int /\ upto + 1 >= 1
    BY <1>1, <2>1
  <2>3. Upto(buf, upto) \in Texts(K) /\ From(buf, upto + 1) \in Texts(K)
    BY <1>1, <2>2, UptoIs, FromIs
  <2> DEFINE y == EmitTextDeltaRaw(x, Upto(buf, upto))
  <2>4. Core(y, K) /\ TextStep(c, y)
    BY <1>1, <2>3, WrittenCore
  <2> HIDE DEF y
  <2>5. d = HoldInvoke(y, From(buf, upto + 1))
    BY <1>2, <1>4 DEF y
  <2> QED
    BY <2>3, <2>4, <2>5, HeldCore DEF d
<1> QED
  BY <1>3, <1>4

LEMMA DrainCore ==
    ASSUME NEW c, NEW K, Core(c, K), NEW flush \in BOOLEAN
    PROVE  /\ Core(DrainInvokeSniffBuffer(c, flush), K)
           /\ TextStep(c, DrainInvokeSniffBuffer(c, flush))
<1> DEFINE buf == c.invoke_sniff_buffer
           c1 == HoldInvoke(c, <<>>)
           s == DrainBlocks(c1, buf)
<1>1. buf \in Texts(K)
  BY DEF Core, Worded
<1>2. Core(c1, K) /\ TextStep(c, c1)
  BY NothingIs, HoldCore
<1> HIDE DEF c1, buf
<1>3. Draining(c, s, K)
  BY <1>1, <1>2, DrainBlocksCore
<1> HIDE DEF s
<1>4. Core(DrainRest(s, flush), K) /\ TextStep(c, DrainRest(s, flush))
  BY <1>3, DrainRestCore
<1> QED
  BY <1>4 DEF DrainInvokeSniffBuffer, s, c1, buf

LEMMA CreateCore ==
    ASSUME NEW c, NEW K, Core(c, K), NEW text \in Texts(K)
    PROVE  Core(CreateTextDeltaEvents(c, text), K) /\ TextStep(c, CreateTextDeltaEvents(c, text))
<1>1. CASE text = <<>>
  <2>1. CreateTextDeltaEvents(c, text) = c
    BY <1>1 DEF CreateTextDeltaEvents
  <2> QED
    BY <2>1, TextStepNothing
<1>2. CASE text # <<>>
  <2> DEFINE buf == c.invoke_sniff_buffer \o text
             c1 == HoldInvoke(c, buf)
  <2>1. buf \in Texts(K)
    BY JoinedIs DEF Core, Worded
  <2> HIDE DEF buf
  <2>2. Core(c1, K) /\ TextStep(c, c1)
    BY <2>1, HoldCore
  <2> HIDE DEF c1
  <2>3. Core(DrainInvokeSniffBuffer(c1, FALSE), K) /\ TextStep(c1, DrainInvokeSniffBuffer(c1, FALSE))
    BY <2>2, DrainCore
  <2>4. TextStep(c, DrainInvokeSniffBuffer(c1, FALSE))
    BY <2>2, <2>3, TextStepMore
  <2> QED
    BY <1>2, <2>3, <2>4 DEF CreateTextDeltaEvents, c1, buf
<1> QED
  BY <1>1, <1>2

-------------------------------------------------------------------------------
(* Thinking.                                                                   *)

(* The calls that have a block are the structured ones that completed, and     *)
(* recovered ones; one that was not valid JSON has left its mark.              *)
Settles(c) ==
    /\ DOMAIN c.tool_block_indices \cap ToolIds = c.done
    /\ c.spoilt # {} => c.tool_json_error

SettledBy == {"tool_block_indices", "done", "spoilt", "tool_json_error"}

LEMMA SettlesSame ==
    ASSUME NEW c, Settles(c), NEW d, NEW F, Keeps(c, d, F), F \cap SettledBy = {}
    PROVE  Settles(d)
<1>1. /\ d.tool_block_indices = c.tool_block_indices /\ d.done = c.done
      /\ d.spoilt = c.spoilt /\ d.tool_json_error = c.tool_json_error
  BY DEF Keeps, Fields, SettledBy
<1> QED
  BY <1>1 DEF Settles

(* While the text is inside <thinking>, the thinking block is open, unless a   *)
(* redacted event has closed it.                                               *)
Full(c, K) ==
    /\ Core(c, K)
    /\ c.in_thinking_block => Following(c)
    /\ Settles(c)

LEMMA OpenKept ==
    ASSUME NEW c, NEW K, NEW d, Core(c, K), Core(d, K), Grow(c.blocks, d.blocks),
           IsThinkingBlockOpen(c), d.thinking_block_index = c.thinking_block_index
    PROVE  IsThinkingBlockOpen(d)
<1> DEFINE i == c.thinking_block_index
<1>1. /\ DOMAIN c.blocks = 1 .. Len(c.blocks) /\ Len(c.blocks) \in Nat
      /\ DOMAIN d.blocks = 1 .. Len(d.blocks) /\ Len(d.blocks) \in Nat
  BY CoreBlocks
<1>2. i \in 1 .. Len(c.blocks) /\ c.blocks[i].open /\ c.blocks[i].type = "thinking"
  BY <1>1 DEF IsThinkingBlockOpen, IsBlockOpenOfType, IsOpen
<1> HIDE DEF i
<1>3. i \in 1 .. Len(d.blocks)
  BY <1>1, <1>2 DEF Grow, Onward
<1>4. d.blocks[i].type = "thinking" /\ d.blocks[i].open
  BY <1>2 DEF Grow, Onward
<1>5. d.thinking_block_index = i
  BY DEF i
<1> QED
  BY <1>1, <1>3, <1>4, <1>5 DEF IsThinkingBlockOpen, IsBlockOpenOfType, IsOpen

LEMMA FullText ==
    ASSUME NEW c, NEW K, NEW d, Full(c, K), Core(d, K), TextStep(c, d)
    PROVE  Full(d, K)
<1>1. /\ d.in_thinking_block = c.in_thinking_block
      /\ d.thinking_block_index = c.thinking_block_index /\ d.done = c.done
      /\ d.spoilt = c.spoilt /\ d.tool_json_error = c.tool_json_error /\ d.mixed = c.mixed
  BY DEF TextStep, Keeps, TextFields, Fields
<1>2. c.in_thinking_block => Following(d)
  BY <1>1, OpenKept DEF Full, TextStep, Following, Clean
<1>3. Settles(d)
  BY <1>1 DEF Full, TextStep, Settles
<1> QED
  BY <1>1, <1>2, <1>3 DEF Full

LEMMA FullKeeps ==
    ASSUME NEW c, NEW K, NEW d, Full(c, K), Core(d, K), NEW F, Keeps(c, d, F),
           F \cap ({"in_thinking_block", "thinking_block_index", "mixed"} \cup SettledBy) = {},
           Grow(c.blocks, d.blocks)
    PROVE  Full(d, K)
<1>1. /\ d.in_thinking_block = c.in_thinking_block
      /\ d.thinking_block_index = c.thinking_block_index /\ d.mixed = c.mixed
  BY DEF Keeps, Fields
<1>2. c.in_thinking_block => Following(d)
  BY <1>1, OpenKept DEF Full, Following, Clean
<1>3. Settles(d)
  BY SettlesSame DEF Full
<1> QED
  BY <1>1, <1>2, <1>3 DEF Full

(* Fields that play no part.                                                   *)
LEMMA CoreBuffers ==
    ASSUME NEW c, NEW K, NEW d, Core(c, K), NEW F, Keeps(c, d, F), F \subseteq Free \cup Buffers,
           Worded(d, K)
    PROVE  Core(d, K) /\ d.blocks = c.blocks /\ Grow(c.blocks, d.blocks)
<1>1. d.repeat_run = c.repeat_run /\ d.repeat_tripped = c.repeat_tripped
  BY DEF Keeps, Fields, Free, Buffers
<1>2. F \cap ({"tool_block_indices", "text_block_index", "thinking_block_index"}
                \cup ManagerFields) = {}
  BY DEF Free, Buffers, ManagerFields
<1>3. Core(d, K) /\ d.blocks = c.blocks
  BY <1>1, <1>2, CoreFields DEF Core
<1> QED
  BY <1>3, CoreBlocks, GrowNothing

LEMMA FullBuffers ==
    ASSUME NEW c, NEW K, NEW d, Full(c, K), NEW F, Keeps(c, d, F),
           F \subseteq (Free \ ({"in_thinking_block"} \cup SettledBy)) \cup Buffers, Worded(d, K)
    PROVE  Full(d, K)
<1>1. Core(d, K) /\ Grow(c.blocks, d.blocks)
  BY CoreBuffers DEF Full
<1>2. F \cap ({"in_thinking_block", "thinking_block_index", "mixed"} \cup SettledBy) = {}
  BY DEF Free, Buffers, SettledBy
<1> QED
  BY <1>1, <1>2, FullKeeps

LEMMA FullCreate ==
    ASSUME NEW c, NEW K, Full(c, K), NEW text \in Texts(K)
    PROVE  Full(CreateTextDeltaEvents(c, text), K)
BY CreateCore, FullText DEF Full

LEMMA OpenDeltaCore ==
    ASSUME NEW c, NEW K, Core(c, K), IsThinkingBlockOpen(c), NEW text
    PROVE  LET d == ThinkingDelta(c, text)
           IN /\ Core(d, K) /\ Keeps(c, d, {"out"}) /\ d.blocks = c.blocks
              /\ Grow(c.blocks, d.blocks) /\ IsThinkingBlockOpen(d)
<1> DEFINE i == c.thinking_block_index
           d == ThinkingDelta(c, text)
<1>1. /\ i \in 1 .. Len(c.blocks) /\ c.blocks[i].open /\ c.blocks[i].type = "thinking"
      /\ i # 0
  <2>1. DOMAIN c.blocks = 1 .. Len(c.blocks) /\ Len(c.blocks) \in Nat
    BY CoreBlocks
  <2> QED
    BY <2>1 DEF IsThinkingBlockOpen, IsBlockOpenOfType, IsOpen
<1>2. d = Emit(c, [ev |-> "thinking", at |-> i, data |-> text])
  BY <1>1 DEF ThinkingDelta
<1> HIDE DEF d
<1>3. Core(d, K) /\ Keeps(c, d, {"out"}) /\ d.blocks = c.blocks
  <2> HIDE DEF i
  <2> QED
    BY <1>1, <1>2, DeltaCore
<1>4. Grow(c.blocks, d.blocks)
  BY <1>3, CoreBlocks, GrowNothing
<1>5. d.thinking_block_index = c.thinking_block_index
  BY <1>3 DEF Keeps, Fields
<1>6. IsThinkingBlockOpen(d)
  BY <1>3, <1>4, <1>5, OpenKept
<1> QED
  BY <1>3, <1>4, <1>6 DEF d

LEMMA ThinkingDeltaCore ==
    ASSUME NEW c, NEW K, Core(c, K), Following(c), NEW text
    PROVE  LET d == ThinkingDelta(c, text)
           IN /\ Core(d, K) /\ Keeps(c, d, {"out"}) /\ d.blocks = c.blocks
              /\ Grow(c.blocks, d.blocks) /\ Following(d)
              /\ IsThinkingBlockOpen(c) => IsThinkingBlockOpen(d)
<1> DEFINE i == c.thinking_block_index
           e == [ev |-> "thinking", at |-> i, data |-> text]
<1>1. CASE IsThinkingBlockOpen(c)
  BY <1>1, OpenDeltaCore DEF Following
<1>2. CASE i = 0
  <2>1. ThinkingDelta(c, text) = c
    BY <1>2 DEF ThinkingDelta
  <2> QED
    BY <2>1, CoreBlocks, GrowNothing DEF Keeps
<1>3. CASE ~ IsThinkingBlockOpen(c) /\ i # 0
  <2>1. ~ Clean(c)
    BY <1>3 DEF Following
  <2>2. e.ev # "input"
    OBVIOUS
  <2>3. ThinkingDelta(c, text) = Emit(c, e)
    BY <1>3 DEF ThinkingDelta
  <2> HIDE DEF e
  <2>4. /\ Core(Emit(c, e), K) /\ Keeps(c, Emit(c, e), {"out"})
        /\ Emit(c, e).blocks = c.blocks /\ Emit(c, e).mixed = c.mixed
    BY <2>1, <2>2, UnreadCore
  <2>5. Following(Emit(c, e))
    BY <2>1, <2>4 DEF Following, Clean
  <2>6. Grow(c.blocks, Emit(c, e).blocks)
    BY <2>4, CoreBlocks, GrowNothing
  <2> QED
    BY <1>3, <2>3, <2>4, <2>5, <2>6
<1> QED
  BY <1>1, <1>2, <1>3

LEMMA FullThinkingDelta ==
    ASSUME NEW c, NEW K, Full(c, K), Following(c), NEW text
    PROVE  Full(ThinkingDelta(c, text), K) /\ Keeps(c, ThinkingDelta(c, text), {"out"})
<1> DEFINE d == ThinkingDelta(c, text)
<1>1. Core(d, K) /\ Keeps(c, d, {"out"}) /\ Grow(c.blocks, d.blocks)
  BY ThinkingDeltaCore DEF Full
<1> HIDE DEF d
<1>2. Full(d, K)
  BY <1>1, FullKeeps DEF SettledBy
<1> QED
  BY <1>1, <1>2 DEF d

(* A stop of the thinking block outside <thinking>.                            *)
LEMMA FullSign ==
    ASSUME NEW c, NEW K, Full(c, K), Following(c), c.in_thinking_block = FALSE
    PROVE  Full(SignAndStop(c), K) /\ Keeps(c, SignAndStop(c), {"blocks", "out"})
<1> DEFINE d == SignAndStop(c)
<1>1. Core(d, K) /\ Keeps(c, d, {"blocks", "out"})
  BY SignCore DEF Full
<1> HIDE DEF d
<1>2. d.in_thinking_block = c.in_thinking_block /\ Settles(d)
  <2>1. d.in_thinking_block = c.in_thinking_block
    BY <1>1 DEF Keeps, Fields
  <2>2. Settles(d)
    BY <1>1, SettlesSame DEF Full, SettledBy
  <2> QED
    BY <2>1, <2>2
<1>3. Full(d, K)
  BY <1>1, <1>2 DEF Full
<1> QED
  BY <1>1, <1>3 DEF d

LEMMA EndThinkingFull ==
    ASSUME NEW c, NEW K, Full(c, K), c.in_thinking_block, NEW end \in 1 .. Len(c.thinking_buffer)
    PROVE  LET d == EndThinking(c, end)
           IN /\ Full(d, K) /\ d.in_thinking_block = FALSE
              /\ d.thinking_buffer = c.thinking_buffer
<1> DEFINE text == Upto(c.thinking_buffer, end - 1)
           c1 == IF text = <<>> THEN c ELSE ThinkingDelta(c, text)
           c2 == [c1 EXCEPT !.in_thinking_block = FALSE, !.thinking_extracted = TRUE]
           d == SignAndStop(c2)
<1>1. Core(c, K) /\ Following(c)
  BY DEF Full
<1>2. /\ Core(c1, K) /\ Keeps(c, c1, {"out"}) /\ Following(c1)
  <2>1. CASE text = <<>>
    BY <1>1, <2>1 DEF Keeps
  <2>2. CASE text # <<>>
    <3>1. c1 = ThinkingDelta(c, text)
      BY <2>2
    <3> HIDE DEF c1, text
    <3> QED
      BY <1>1, <3>1, ThinkingDeltaCore
  <2> QED
    BY <2>1, <2>2
<1> HIDE DEF c1
<1>3. DOMAIN c1 = Fields
  BY <1>2, CoreBlocks
<1>4. /\ Keeps(c1, c2, {"in_thinking_block", "thinking_extracted"})
      /\ c2.in_thinking_block = FALSE
  BY <1>3 DEF Keeps, Fields
<1> HIDE DEF c2
<1>5. Core(c2, K) /\ Grow(c1.blocks, c2.blocks) /\ c2.blocks = c1.blocks
  <2>1. Core(c2, K) /\ c2.blocks = c1.blocks
    BY <1>2, <1>4, CoreFree DEF Free
  <2> QED
    BY <1>2, <2>1, CoreBlocks, GrowNothing
<1>6. Following(c2)
  <2>1. c2.thinking_block_index = c1.thinking_block_index /\ c2.mixed = c1.mixed
    BY <1>4 DEF Keeps, Fields
  <2> QED
    BY <1>2, <1>5, <2>1, OpenKept DEF Following, Clean
<1>7. Full(c2, K)
  <2>1. Keeps(c, c2, {"out", "in_thinking_block", "thinking_extracted"})
    BY <1>2, <1>4 DEF Keeps
  <2>2. Settles(c2)
    BY <2>1, SettlesSame DEF Full, SettledBy
  <2> QED
    BY <1>4, <1>5, <2>2 DEF Full
<1>8. Full(d, K) /\ Keeps(c2, d, {"blocks", "out"})
  BY <1>4, <1>6, <1>7, FullSign
<1> HIDE DEF d
<1>9. d.in_thinking_block = FALSE /\ d.thinking_buffer = c.thinking_buffer
  BY <1>2, <1>4, <1>8 DEF Keeps, Fields
<1>10. EndThinking(c, end) = d
  BY DEF EndThinking, d, c2, c1
<1> QED
  BY <1>8, <1>9, <1>10

(* A change of the thinking buffer.                                            *)
LEMMA FullBuffer ==
    ASSUME NEW c, NEW K, Full(c, K), NEW buf \in Texts(K)
    PROVE  LET d == [c EXCEPT !.thinking_buffer = buf]
           IN Full(d, K) /\ Keeps(c, d, {"thinking_buffer"}) /\ d.thinking_buffer = buf
<1> DEFINE d == [c EXCEPT !.thinking_buffer = buf]
<1>1. Core(c, K) /\ DOMAIN c = Fields
  BY CoreBlocks DEF Full
<1>2. Keeps(c, d, {"thinking_buffer"}) /\ d.thinking_buffer = buf
  BY <1>1 DEF Keeps, Fields
<1> HIDE DEF d
<1>3. d.filter = c.filter /\ d.invoke_sniff_buffer = c.invoke_sniff_buffer
  BY <1>2 DEF Keeps, Fields
<1>4. Worded(d, K)
  BY <1>1, <1>2, <1>3 DEF Core, Worded
<1>5. Full(d, K)
  BY <1>2, <1>4, FullBuffers DEF Free, Buffers, SettledBy
<1> QED
  BY <1>2, <1>5 DEF d

LEMMA FlushThinkingTextFull ==
    ASSUME NEW c, NEW K, Full(c, K)
    PROVE  Full(FlushThinkingText(c), K)
<1> DEFINE c1 == [c EXCEPT !.thinking_buffer = <<>>]
<1>1. Full(c1, K)
  BY NothingIs, FullBuffer
<1>2. c.thinking_buffer \in Texts(K)
  BY DEF Full, Core, Worded
<1> HIDE DEF c1
<1>3. Full(CreateTextDeltaEvents(c1, c.thinking_buffer), K)
  BY <1>1, <1>2, FullCreate
<1> QED
  BY <1>3 DEF FlushThinkingText, c1

LEMMA StartThinkingCore ==
    ASSUME NEW c, NEW K, Core(c, K)
    PROVE  LET d == StartThinkingBlock(c)
           IN /\ Core(d, K) /\ IsThinkingBlockOpen(d)
              /\ Keeps(c, d, {"blocks", "out", "has_tool_use", "thinking_block_index"})
<1> DEFINE s == ContentBlockStart(c, "thinking")
           d == [s EXCEPT !.thinking_block_index = Len(c.blocks) + 1]
<1>1. Keeps(c, s, {"blocks", "out", "has_tool_use"})
  <2>1. Managed(c, {}) /\ "thinking" \in BlockTypes
    BY DEF Core, BlockTypes
  <2> QED
    BY <2>1, StartKeeps
<1> HIDE DEF s
<1>2. DOMAIN c = Fields /\ DOMAIN s = Fields
  BY <1>1, CoreBlocks DEF Keeps
<1>3. /\ Keeps(s, d, {"thinking_block_index"}) /\ d.thinking_block_index = Len(c.blocks) + 1
      /\ d.text_block_index = c.text_block_index
  BY <1>1, <1>2 DEF Keeps, Fields
<1> HIDE DEF d
<1>4. /\ Core(d, K) /\ Keeps(c, d, {"blocks", "out", "has_tool_use"} \cup {"thinking_block_index"})
      /\ Len(d.blocks) = Len(c.blocks) + 1
      /\ d.blocks[Len(c.blocks) + 1] = [type |-> "thinking", open |-> TRUE]
  BY <1>3, StartCore DEF s
<1>5. IsThinkingBlockOpen(d)
  <2>1. Len(c.blocks) \in Nat /\ DOMAIN d.blocks = 1 .. Len(d.blocks)
    BY <1>4, CoreBlocks
  <2> QED
    BY <1>3, <1>4, <2>1 DEF IsThinkingBlockOpen, IsBlockOpenOfType, IsOpen
<1>6. Keeps(c, d, {"blocks", "out", "has_tool_use", "thinking_block_index"})
  BY <1>4 DEF Keeps
<1> QED
  BY <1>4, <1>5, <1>6 DEF StartThinkingBlock, d, s

(* A thinking block starts outside <thinking>: a native one, or the tag's.     *)
LEMMA StartThinkingFull ==
    ASSUME NEW c, NEW K, Core(c, K), Settles(c)
    PROVE  Full(StartThinkingBlock(c), K) /\ IsThinkingBlockOpen(StartThinkingBlock(c))
<1> DEFINE d == StartThinkingBlock(c)
<1>1. /\ Core(d, K) /\ IsThinkingBlockOpen(d)
      /\ Keeps(c, d, {"blocks", "out", "has_tool_use", "thinking_block_index"})
  BY StartThinkingCore
<1> HIDE DEF d
<1>2. Settles(d)
  BY <1>1, SettlesSame DEF SettledBy
<1> QED
  BY <1>1, <1>2 DEF Full, Following, d

LEMMA ThinkingStartIs ==
    ASSUME NEW K, NEW buf \in Texts(K)
    PROVE  \/ FindThinkingStart(buf) = 0
           \/ FindThinkingStart(buf) \in 1 .. Len(buf) /\ "thO" \in K
<1> DEFINE S == {i \in Pairs(buf, "thO", {"ing"}) : ~ QuotedBefore(buf, i) /\ ~ QuotedAfter(buf, i + 1)}
<1>1. Len(buf) \in Nat /\ \A i \in 1 .. Len(buf) : buf[i].k \in K
  BY TextLen
<1>2. S \subseteq {i \in 1 .. Len(buf) - 1 : buf[i].k = "thO"}
  BY PairsIn
<1>3. S \subseteq Nat
  BY <1>1, <1>2
<1>4. FirstOf(S) = 0 \/ FirstOf(S) \in S
  BY <1>3, FirstIn
<1>5. ASSUME NEW i \in S PROVE i \in 1 .. Len(buf) /\ "thO" \in K
  <2>1. i \in 1 .. Len(buf) /\ buf[i].k = "thO"
    BY <1>1, <1>2, <1>5
  <2> QED
    BY <1>1, <2>1
<1> QED
  BY <1>4, <1>5 DEF FindThinkingStart

LEMMA EndTagsIn ==
    ASSUME NEW K, NEW buf \in Texts(K)
    PROVE  EndTags(buf) \subseteq 1 .. Len(buf) /\ EndTags(buf) \subseteq Nat
<1>1. Len(buf) \in Nat
  BY TextLen
<1>2. EndTags(buf) \subseteq 1 .. Len(buf) - 1
  BY PairsIn DEF EndTags
<1> QED
  BY <1>1, <1>2

LEMMA ThinkingEndIs ==
    ASSUME NEW K, NEW buf \in Texts(K)
    PROVE  /\ FindThinkingEnd(buf) = 0 \/ FindThinkingEnd(buf) \in 1 .. Len(buf)
           /\ \/ FindThinkingEndAtBufferEnd(buf) = 0
              \/ FindThinkingEndAtBufferEnd(buf) \in 1 .. Len(buf)
<1> DEFINE S == {i \in EndTags(buf) : i + 2 <= Len(buf) /\ buf[i + 2].k = "nl"}
           T == {i \in EndTags(buf) : IsBlank(From(buf, i + 2))}
<1>1. S \subseteq 1 .. Len(buf) /\ S \subseteq Nat
  BY EndTagsIn
<1>2. T \subseteq 1 .. Len(buf) /\ T \subseteq Nat
  BY EndTagsIn
<1>3. FirstOf(S) = 0 \/ FirstOf(S) \in S
  BY <1>1, FirstIn
<1>4. FirstOf(T) = 0 \/ FirstOf(T) \in T
  BY <1>2, FirstIn
<1> HIDE DEF S, T
<1>5. FirstOf(S) = 0 \/ FirstOf(S) \in 1 .. Len(buf)
  BY <1>1, <1>3
<1>6. FirstOf(T) = 0 \/ FirstOf(T) \in 1 .. Len(buf)
  BY <1>2, <1>4
<1> QED
  BY <1>5, <1>6 DEF FindThinkingEnd, FindThinkingEndAtBufferEnd, S, T

LEMMA EnterFull ==
    ASSUME NEW c, NEW K, Full(c, K)
    PROVE  Full(EnterTagged(c), K)
<1> DEFINE buf == c.thinking_buffer
           start == FindThinkingStart(buf)
           before == Upto(buf, start - 1)
           c1 == IF IsBlank(before) THEN c ELSE CreateTextDeltaEvents(c, before)
           rest == From(buf, start + START_TAG)
           c2 == [c1 EXCEPT !.in_thinking_block = TRUE, !.thinking_buffer = rest]
           d == StartThinkingBlock(c2)
<1>1. CASE c.in_thinking_block \/ c.thinking_extracted \/ start = 0
  BY <1>1 DEF EnterTagged
<1>2. CASE ~ (c.in_thinking_block \/ c.thinking_extracted \/ start = 0)
  <2>1. buf \in Texts(K) /\ Core(c, K) /\ Len(buf) \in Nat
    BY TextLen DEF Full, Core, Worded
  <2>2. start \in 1 .. Len(buf) /\ "thO" \in K
    BY <1>2, <2>1, ThinkingStartIs
  <2> HIDE DEF start, buf
  <2>3. before \in Texts(K) /\ rest \in Texts(K)
    <3>1. /\ start - 1 \in Int /\ start - 1 <= Len(buf)
          /\ start + START_TAG \in Int /\ start + START_TAG >= 1
      BY <2>1, <2>2 DEF START_TAG
    <3> QED
      BY <2>1, <3>1, UptoIs, FromIs
  <2> HIDE DEF before, rest
  <2>4. Core(c1, K) /\ TextStep(c, c1) /\ Full(c1, K)
    <3>1. Core(c, K) /\ TextStep(c, c)
      BY <2>1, TextStepNothing
    <3>2. Core(CreateTextDeltaEvents(c, before), K) /\ TextStep(c, CreateTextDeltaEvents(c, before))
      BY <2>1, <2>3, CreateCore
    <3>3. Core(c1, K) /\ TextStep(c, c1)
      BY <3>1, <3>2
    <3> HIDE DEF c1
    <3> QED
      BY <3>3, FullText
  <2> HIDE DEF c1
  <2>5. DOMAIN c1 = Fields
    BY <2>4, CoreBlocks
  <2>6. /\ Keeps(c1, c2, {"in_thinking_block", "thinking_buffer"}) /\ c2.thinking_buffer = rest
    BY <2>5 DEF Keeps, Fields
  <2> HIDE DEF c2
  <2>7. /\ c2.filter = c1.filter /\ c2.invoke_sniff_buffer = c1.invoke_sniff_buffer
    BY <2>6 DEF Keeps, Fields
  <2>8. Worded(c2, K)
    BY <2>3, <2>4, <2>6, <2>7 DEF Core, Worded
  <2>9. Core(c2, K)
    BY <2>4, <2>6, <2>8, CoreBuffers DEF Free, Buffers
  <2>10. Settles(c2)
    BY <2>4, <2>6, SettlesSame DEF Full, SettledBy
  <2>11. Full(d, K)
    BY <2>9, <2>10, StartThinkingFull
  <2>12. EnterTagged(c) = d
    BY <1>2 DEF EnterTagged, c2, c1, rest, before, start, buf
  <2> QED
    BY <2>11, <2>12
<1> QED
  BY <1>1, <1>2

LEMMA LeaveFull ==
    ASSUME NEW c, NEW K, Full(c, K)
    PROVE  Full(LeaveTagged(c), K)
<1> DEFINE buf == c.thinking_buffer
           end == FindThinkingEnd(buf)
           c1 == EndThinking(c, end)
           rest == From(c1.thinking_buffer, end + END_TAG)
<1>1. CASE ~ c.in_thinking_block \/ end = 0
  BY <1>1 DEF LeaveTagged
<1>2. CASE c.in_thinking_block /\ end # 0
  <2>1. buf \in Texts(K) /\ Len(buf) \in Nat
    BY TextLen DEF Full, Core, Worded
  <2>2. end \in 1 .. Len(buf)
    BY <1>2, <2>1, ThinkingEndIs
  <2> HIDE DEF end
  <2>3. Full(c1, K) /\ c1.thinking_buffer = buf
    BY <1>2, <2>2, EndThinkingFull
  <2> HIDE DEF c1
  <2>4. rest \in Texts(K)
    <3>1. end + END_TAG \in Int /\ end + END_TAG >= 1
      BY <2>1, <2>2 DEF END_TAG
    <3> QED
      BY <2>1, <2>3, <3>1, FromIs
  <2> HIDE DEF rest
  <2>5. Full([c1 EXCEPT !.thinking_buffer = rest], K)
    BY <2>3, <2>4, FullBuffer
  <2>6. LeaveTagged(c) = [c1 EXCEPT !.thinking_buffer = rest]
    BY <1>2 DEF LeaveTagged, c1, rest, end
  <2> QED
    BY <2>5, <2>6
<1> QED
  BY <1>1, <1>2

LEMMA SendFull ==
    ASSUME NEW c, NEW K, Full(c, K)
    PROVE  Full(SendBuffered(c), K)
<1> DEFINE buf == c.thinking_buffer
           sent_ == Upto(buf, Len(buf) - IF c.in_thinking_block THEN END_TAG ELSE START_TAG)
           rest == From(buf, Len(sent_) + 1)
           kept == [c EXCEPT !.thinking_buffer = rest]
           d == SendBuffered(c)
<1>1. buf \in Texts(K) /\ Len(buf) \in Nat
  BY TextLen DEF Full, Core, Worded
<1>2. sent_ \in Texts(K) /\ Len(sent_) \in Nat
  <2> DEFINE j == Len(buf) - IF c.in_thinking_block THEN END_TAG ELSE START_TAG
  <2> HIDE DEF buf
  <2>0. \/ j = Len(buf) - 3
        \/ j = Len(buf) - 2
    BY DEF END_TAG, START_TAG
  <2> HIDE DEF j
  <2>1. j \in Int /\ j <= Len(buf)
    BY <1>1, <2>0
  <2>2. Upto(buf, j) \in Texts(K) /\ Len(Upto(buf, j)) \in Nat
    BY <1>1, <2>1, UptoIs
  <2> QED
    BY <2>2 DEF j
<1> HIDE DEF sent_
<1>3. rest \in Texts(K)
  <2>1. Len(sent_) + 1 \in Int /\ Len(sent_) + 1 >= 1
    BY <1>2
  <2> QED
    BY <1>1, <2>1, FromIs
<1> HIDE DEF rest
<1>4. Full(kept, K) /\ Keeps(c, kept, {"thinking_buffer"})
  BY <1>3, FullBuffer
<1> HIDE DEF kept
<1>5. \/ d = c
      \/ c.in_thinking_block /\ d = ThinkingDelta(kept, sent_)
      \/ d = FlushThinkingText(c)
      \/ d = CreateTextDeltaEvents(kept, sent_)
  <2>1. CASE c.in_thinking_block
    BY <2>1 DEF SendBuffered, kept, rest, sent_
  <2>2. CASE ~ c.in_thinking_block /\ c.thinking_extracted
    BY <2>2 DEF SendBuffered
  <2>3. CASE ~ c.in_thinking_block /\ ~ c.thinking_extracted
    BY <2>3 DEF SendBuffered, kept, rest, sent_
  <2> QED
    BY <2>1, <2>2, <2>3
<1> HIDE DEF d
<1>6. Full(d, K)
  <2>1. CASE d = c
    BY <2>1
  <2>2. CASE c.in_thinking_block /\ d = ThinkingDelta(kept, sent_)
    <3>1. /\ kept.in_thinking_block = c.in_thinking_block /\ kept.blocks = c.blocks
          /\ kept.thinking_block_index = c.thinking_block_index /\ kept.mixed = c.mixed
      BY <1>4 DEF Keeps, Fields
    <3>2. Following(kept)
      BY <1>4, <2>2, <3>1 DEF Full
    <3>3. Full(ThinkingDelta(kept, sent_), K)
      BY <1>4, <3>2, FullThinkingDelta
    <3> QED
      BY <2>2, <3>3
  <2>3. CASE d = FlushThinkingText(c)
    BY <2>3, FlushThinkingTextFull
  <2>4. CASE d = CreateTextDeltaEvents(kept, sent_)
    BY <1>2, <1>4, <2>4, FullCreate
  <2> QED
    BY <1>5, <2>1, <2>2, <2>3, <2>4
<1> QED
  BY <1>6 DEF d

LEMMA ProcessTextFull ==
    ASSUME NEW c, NEW K, Full(c, K), NEW text \in Texts(K)
    PROVE  Full(ProcessText(c, text), K)
<1>1. CASE c.thinking_enabled
  <2> DEFINE c1 == [c EXCEPT !.thinking_buffer = @ \o text]
  <2>1. c.thinking_buffer \o text \in Texts(K)
    BY JoinedIs DEF Full, Core, Worded
  <2>2. Full(c1, K)
    BY <2>1, FullBuffer
  <2> HIDE DEF c1
  <2>3. Full(SendBuffered(LeaveTagged(EnterTagged(c1))), K)
    BY <2>2, EnterFull, LeaveFull, SendFull
  <2> QED
    BY <1>1, <2>3 DEF ProcessText, ProcessContentWithThinking, c1
<1>2. CASE ~ c.thinking_enabled
  BY <1>2, FullCreate DEF ProcessText
<1> QED
  BY <1>1, <1>2

LEMMA LeaveNativeFull ==
    ASSUME NEW c, NEW K, Full(c, K)
    PROVE  Full(LeaveNativeThinking(c), K)
<1>1. CASE ~ c.in_thinking_block /\ IsThinkingBlockOpen(c)
  <2> DEFINE d == SignAndStop(c)
  <2>1. Core(d, K) /\ Keeps(c, d, {"blocks", "out"})
    BY <1>1, SignCore DEF Full, Following
  <2>2. LeaveNativeThinking(c) = d
    BY <1>1 DEF LeaveNativeThinking, CloseOpenThinkingBlock
  <2> HIDE DEF d
  <2>3. d.in_thinking_block = c.in_thinking_block /\ Settles(d)
    <3>1. d.in_thinking_block = c.in_thinking_block
      BY <2>1 DEF Keeps, Fields
    <3>2. Settles(d)
      BY <2>1, SettlesSame DEF Full, SettledBy
    <3> QED
      BY <3>1, <3>2
  <2>4. Full(d, K)
    BY <1>1, <2>1, <2>3 DEF Full
  <2> QED
    BY <2>2, <2>4
<1>2. CASE ~ (~ c.in_thinking_block /\ IsThinkingBlockOpen(c))
  BY <1>2 DEF LeaveNativeThinking, CloseOpenThinkingBlock
<1> QED
  BY <1>1, <1>2

-------------------------------------------------------------------------------
(* The events.                                                                 *)

LEMMA CloseTextCore ==
    ASSUME NEW c, NEW K, Core(c, K)
    PROVE  /\ Core(CloseOpenTextBlock(c), K)
           /\ Keeps(c, CloseOpenTextBlock(c), {"blocks", "out", "text_block_index"})
<1> DEFINE c1 == [c EXCEPT !.text_block_index = 0]
           i == IF IsBlockOpenOfType(c, c.text_block_index, "text") THEN c.text_block_index ELSE 0
<1>1. DOMAIN c = Fields /\ c.blocks \in Blocks /\ IsSeq(c.out)
  BY CoreBlocks
<1>2. Keeps(c, c1, {"text_block_index"}) /\ c1.text_block_index = 0
  BY <1>1 DEF Keeps, Fields
<1> HIDE DEF c1, i
<1>3. Managed(c1, {}) /\ c1.blocks = c.blocks /\ c1.out = c.out
  BY <1>2, ManagedSame DEF Core, ManagerFields
<1>4. /\ c1.thinking_block_index = c.thinking_block_index
      /\ c1.tool_block_indices = c.tool_block_indices
      /\ c1.thinking_buffer = c.thinking_buffer /\ c1.filter = c.filter
      /\ c1.invoke_sniff_buffer = c.invoke_sniff_buffer
      /\ c1.repeat_run = c.repeat_run /\ c1.repeat_tripped = c.repeat_tripped
  BY <1>2 DEF Keeps, Fields
<1>5. Indexed(c1)
  BY <1>2, <1>3, <1>4 DEF Core, Indexed, Indexes
<1>6. Called(c1)
  BY <1>3, <1>4 DEF Core, Called
<1>7. Core(c1, K)
  BY <1>3, <1>4, <1>5, <1>6 DEF Core, Worded, OpenKinds
<1>8. Core(ContentBlockStop(c1, i), K) /\ Keeps(c1, ContentBlockStop(c1, i), {"blocks", "out"})
  BY <1>7, StopBlockCore
<1>9. CloseOpenTextBlock(c) = ContentBlockStop(c1, i)
  BY DEF CloseOpenTextBlock, c1, i
<1> QED
  BY <1>2, <1>8, <1>9 DEF Keeps

(* Outside <thinking>, or when the client is past following, the thinking      *)
(* block is free to go.                                                        *)
Loose(c) == c.in_thinking_block => ~ Clean(c)

LEMMA FullOutside ==
    ASSUME NEW c, NEW K, Full(c, K), Loose(c), NEW d, Core(d, K), NEW F,
           Keeps(c, d, F), F \cap ({"in_thinking_block", "mixed"} \cup SettledBy) = {}
    PROVE  Full(d, K) /\ Loose(d)
<1>1. d.in_thinking_block = c.in_thinking_block /\ d.mixed = c.mixed
  <2>1. {"in_thinking_block", "mixed"} \subseteq Fields \ F
    BY DEF Fields
  <2> QED
    BY <2>1 DEF Keeps
<1>2. Settles(d)
  BY SettlesSame DEF Full
<1> QED
  BY <1>1, <1>2 DEF Full, Loose, Following, Clean

LEMMA CloseTextFull ==
    ASSUME NEW c, NEW K, Full(c, K), Loose(c)
    PROVE  Full(CloseOpenTextBlock(c), K) /\ Loose(CloseOpenTextBlock(c))
<1> DEFINE d == CloseOpenTextBlock(c)
<1>1. Core(d, K) /\ Keeps(c, d, {"blocks", "out", "text_block_index"})
  BY CloseTextCore DEF Full
<1> HIDE DEF d
<1>2. Full(d, K) /\ Loose(d)
  BY <1>1, FullOutside DEF SettledBy
<1> QED
  BY <1>2 DEF d

(* Text between events keeps on which side of <thinking> it is.                *)
LEMMA CreateFull ==
    ASSUME NEW c, NEW K, Full(c, K), NEW text \in Texts(K)
    PROVE  LET d == CreateTextDeltaEvents(c, text)
           IN Full(d, K) /\ d.in_thinking_block = c.in_thinking_block /\ d.mixed = c.mixed
<1> DEFINE d == CreateTextDeltaEvents(c, text)
<1>1. Core(d, K) /\ TextStep(c, d) /\ Full(d, K)
  BY CreateCore, FullCreate DEF Full
<1> HIDE DEF d
<1>2. d.in_thinking_block = c.in_thinking_block /\ d.mixed = c.mixed
  BY <1>1 DEF TextStep, TextFields, Keeps, Fields
<1> QED
  BY <1>1, <1>2 DEF d

LEMMA EnsureThinkingFull ==
    ASSUME NEW c, NEW K, Full(c, K)
    PROVE  Full(EnsureThinkingBlock(c), K) /\ IsThinkingBlockOpen(EnsureThinkingBlock(c))
<1> DEFINE c1 == [c EXCEPT !.thinking_buffer = <<>>]
           c2 == IF IsBlank(c.thinking_buffer) THEN c1
                 ELSE CreateTextDeltaEvents(c1, c.thinking_buffer)
           c3 == CloseOpenTextBlock(c2)
           c4 == [c3 EXCEPT !.thinking_extracted = TRUE]
           d == StartThinkingBlock(c4)
<1>1. CASE IsThinkingBlockOpen(c)
  BY <1>1 DEF EnsureThinkingBlock
<1>2. CASE ~ IsThinkingBlockOpen(c)
  <2>1. Loose(c) /\ c.thinking_buffer \in Texts(K)
    BY <1>2 DEF Full, Core, Worded, Following, Loose
  <2>2. Full(c1, K) /\ Keeps(c, c1, {"thinking_buffer"})
    BY NothingIs, FullBuffer
  <2> HIDE DEF c1
  <2>3. Loose(c1)
    BY <2>1, <2>2 DEF Keeps, Fields, Loose, Clean
  <2>4. Full(c2, K) /\ Loose(c2)
    BY <2>1, <2>2, <2>3, CreateFull DEF Loose, Clean
  <2> HIDE DEF c2
  <2>5. Full(c3, K) /\ Loose(c3)
    BY <2>4, CloseTextFull
  <2> HIDE DEF c3
  <2>6. DOMAIN c3 = Fields
    BY <2>5, CoreBlocks DEF Full
  <2>7. Keeps(c3, c4, {"thinking_extracted"})
    BY <2>6 DEF Keeps, Fields
  <2> HIDE DEF c4
  <2>8. Core(c4, K)
    BY <2>5, <2>7, CoreFree DEF Full, Free
  <2>9. Full(c4, K)
    BY <2>5, <2>7, <2>8, FullOutside DEF SettledBy
  <2>10. Full(d, K) /\ IsThinkingBlockOpen(d)
    BY <2>9, StartThinkingFull DEF Full
  <2>11. EnsureThinkingBlock(c) = d
    BY <1>2 DEF EnsureThinkingBlock, c4, c3, c2, c1
  <2> QED
    BY <2>10, <2>11
<1> QED
  BY <1>1, <1>2

LEMMA MixedFull ==
    ASSUME NEW c, NEW K, Full(c, K), NEW native
    PROVE  Full(Mixed(c, native), K) /\ (native = "redacted" => Loose(Mixed(c, native)))
<1> DEFINE d == Mixed(c, native)
<1>1. /\ Core(d, K) /\ Keeps(c, d, {"mixed"})
      /\ ~ c.in_thinking_block => d = c
      /\ c.in_thinking_block => d.mixed = c.mixed \cup {native}
  BY MixedCore DEF Full
<1> HIDE DEF d
<1>2. /\ d.in_thinking_block = c.in_thinking_block /\ d.blocks = c.blocks
      /\ d.thinking_block_index = c.thinking_block_index
  BY <1>1 DEF Keeps, Fields
<1>3. Settles(d)
  BY <1>1, SettlesSame DEF Full, SettledBy
<1>4. IsThinkingBlockOpen(c) => IsThinkingBlockOpen(d)
  BY <1>2 DEF IsThinkingBlockOpen, IsBlockOpenOfType, IsOpen
<1>5. c.in_thinking_block => Following(d)
  BY <1>1, <1>4 DEF Full, Following, Clean
<1>6. native = "redacted" => Loose(d)
  BY <1>1, <1>2 DEF Loose, Clean
<1> QED
  BY <1>1, <1>2, <1>3, <1>5, <1>6 DEF Full, d

LEMMA ReasoningFull ==
    ASSUME NEW c, NEW K, Full(c, K), NEW text \in Texts(K)
    PROVE  Full(ProcessReasoningContent(c, text), K)
<1> DEFINE c1 == EnsureThinkingBlock(Mixed(c, "reasoning"))
<1>1. Full(c1, K) /\ IsThinkingBlockOpen(c1)
  BY MixedFull, EnsureThinkingFull
<1> HIDE DEF c1
<1>2. Full(ThinkingDelta(c1, text), K)
  BY <1>1, FullThinkingDelta DEF Following
<1>3. Full(CreateTextDeltaEvents(c, text), K)
  BY FullCreate
<1> QED
  BY <1>2, <1>3 DEF ProcessReasoningContent, c1

(* A redacted block is started and stopped at once.                            *)
LEMMA RedactedBlockCore ==
    ASSUME NEW c, NEW K, Core(c, K)
    PROVE  LET d == ContentBlockStop(ContentBlockStart(c, "redacted_thinking"), Len(c.blocks) + 1)
           IN Core(d, K) /\ Keeps(c, d, {"blocks", "out", "has_tool_use"})
<1> DEFINE s == ContentBlockStart(c, "redacted_thinking")
           n == Len(c.blocks) + 1
           S == {n}
           d == ContentBlockStop(s, n)
<1>1. /\ Managed(s, {}) /\ Keeps(c, s, {"blocks", "out", "has_tool_use"})
      /\ Adds(c.out, s.out, {"start", "stop"})
      /\ Grow(c.blocks, s.blocks)
      /\ Len(c.blocks) \in Nat /\ Len(s.blocks) = n
      /\ s.blocks[n] = [type |-> "redacted_thinking", open |-> TRUE]
  <2>1. Managed(c, {}) /\ "redacted_thinking" \in BlockTypes
    BY DEF Core, BlockTypes
  <2> QED
    BY <2>1, StartKeeps
<1> HIDE DEF s
<1>2. /\ s.blocks \in Blocks /\ c.blocks \in Blocks /\ n \in 1 .. Len(s.blocks)
      /\ DOMAIN s.blocks = 1 .. Len(s.blocks)
  BY <1>1 DEF Core, Managed, Blocks
<1> HIDE DEF n
<1>3. d = StopAll(s, S)
  BY <1>1, <1>2 DEF ContentBlockStop, IsOpen
<1>4. /\ S \subseteq {i \in DOMAIN s.blocks : s.blocks[i].open}
      /\ \A i \in S : s.blocks[i].type = "tool_use" => i \in {}
  BY <1>1, <1>2
<1> HIDE DEF d, S
<1>5. /\ Managed(d, {} \ S) /\ Keeps(s, d, {"blocks", "out"})
      /\ Adds(s.out, d.out, {"stop"}) /\ d.blocks = Closed(s.blocks, S)
  BY <1>1, <1>3, <1>4, StopAllKeeps
<1>6. Managed(d, {})
  <2>1. {} \ S = {}
    OBVIOUS
  <2> QED
    BY <1>5, <2>1
<1>7. /\ Keeps(c, d, {"blocks", "out", "has_tool_use"})
      /\ Adds(c.out, d.out, {"start", "stop"} \cup {"stop"})
  BY <1>1, <1>5, AddsMore DEF Keeps
<1>8. /\ d.tool_block_indices = c.tool_block_indices
      /\ d.text_block_index = c.text_block_index
      /\ d.thinking_block_index = c.thinking_block_index
      /\ d.thinking_buffer = c.thinking_buffer /\ d.filter = c.filter
      /\ d.invoke_sniff_buffer = c.invoke_sniff_buffer
      /\ d.repeat_run = c.repeat_run /\ d.repeat_tripped = c.repeat_tripped
  BY <1>7 DEF Keeps, Fields
<1>9. Onward(c.blocks, d.blocks)
  <2>1. Onward(c.blocks, s.blocks) /\ Onward(s.blocks, d.blocks) /\ d.blocks \in Blocks
    BY <1>1, <1>2, <1>5, ClosedOnward, ClosedIs DEF Grow
  <2> QED
    BY <1>2, <2>1, OnwardMore
<1>10. \A i \in Len(c.blocks) + 1 .. Len(d.blocks) :
          d.blocks[i].open => d.blocks[i].type \in {"text", "thinking"}
  <2>1. Len(d.blocks) = n /\ d.blocks[n].open = (s.blocks[n].open /\ n \notin S)
    BY <1>1, <1>2, <1>5, ClosedIs
  <2>2. ~ d.blocks[n].open
    BY <2>1 DEF S
  <2> QED
    BY <1>1, <2>1, <2>2 DEF n
<1>11. Indexed(d)
  BY <1>6, <1>8, <1>9, IndexedSame DEF Core
<1>12. Core(d, K)
  <2>1. Worded(d, K) /\ GuardOK(d.repeat_run, d.repeat_tripped)
    BY <1>8 DEF Core, Worded
  <2>2. "input" \notin {"start", "stop"} \cup {"stop"}
    OBVIOUS
  <2> QED
    BY <1>6, <1>7, <1>8, <1>9, <1>10, <1>11, <2>1, <2>2, CoreStep
<1> QED
  BY <1>7, <1>12 DEF d, s, n

LEMMA RedactedFull ==
    ASSUME NEW c, NEW K, Full(c, K)
    PROVE  Full(ProcessRedactedContent(c), K)
<1> DEFINE b == Mixed(c, "redacted")
           c0 == CloseOpenThinkingBlock(b)
           c1 == CloseOpenTextBlock(c0)
           d == ContentBlockStop(ContentBlockStart(c1, "redacted_thinking"), Len(c1.blocks) + 1)
<1>1. Full(b, K) /\ Loose(b)
  BY MixedFull
<1> HIDE DEF b
<1>2. Full(c0, K) /\ Loose(c0)
  <2>1. CASE IsThinkingBlockOpen(b)
    <3> DEFINE s == SignAndStop(b)
    <3>1. Core(s, K) /\ Keeps(b, s, {"blocks", "out"})
      BY <1>1, <2>1, SignCore DEF Full, Following
    <3> HIDE DEF s
    <3>2. Full(s, K) /\ Loose(s)
      BY <1>1, <3>1, FullOutside DEF SettledBy
    <3> QED
      BY <2>1, <3>2 DEF CloseOpenThinkingBlock, s
  <2>2. CASE ~ IsThinkingBlockOpen(b)
    BY <1>1, <2>2 DEF CloseOpenThinkingBlock
  <2> QED
    BY <2>1, <2>2
<1> HIDE DEF c0
<1>3. Full(c1, K) /\ Loose(c1)
  BY <1>2, CloseTextFull
<1> HIDE DEF c1
<1>4. Core(d, K) /\ Keeps(c1, d, {"blocks", "out", "has_tool_use"})
  BY <1>3, RedactedBlockCore DEF Full
<1> HIDE DEF d
<1>5. Full(d, K)
  BY <1>3, <1>4, FullOutside DEF SettledBy
<1> QED
  BY <1>5 DEF ProcessRedactedContent, d, c1, c0, b

(* The filter of <tool_use> XML.                                               *)
Scans(K) == [rest : Texts(K), out : Texts(K), lost : Texts(K), stripping : BOOLEAN]

LEMMA PassedIs ==
    ASSUME NEW K, NEW s \in Scans(K), NEW text \in Texts(K)
    PROVE  Passed(s, text) \in Scans(K)
<1>1. s.out \o text \in Texts(K) /\ s.lost \o text \in Texts(K)
  BY JoinedIs DEF Scans
<1> QED
  BY <1>1 DEF Passed, Scans

LEMMA StripNextIs ==
    ASSUME NEW K, NEW s \in Scans(K)
    PROVE  StripNext(s) \in Scans(K)
<1> DEFINE S == Pairs(s.rest, LeakTag(s), {"use"})
           at == FirstOf(S)
           text == Upto(s.rest, at - 1)
           rest == From(s.rest, at + 2)
           p == Passed(s, text)
<1>1. s.rest \in Texts(K) /\ Len(s.rest) \in Nat
  BY TextLen DEF Scans
<1>2. S \subseteq 1 .. Len(s.rest) - 1
  BY <1>1, PairsIn
<1>3. CASE at = 0
  BY <1>3 DEF StripNext
<1>4. CASE at # 0
  <2>1. S \subseteq Nat
    BY <1>1, <1>2
  <2> HIDE DEF S
  <2>2. at \in S
    BY <1>4, <2>1, FirstIn
  <2> HIDE DEF at
  <2>3. at \in 1 .. Len(s.rest)
    <3>1. at \in 1 .. Len(s.rest) - 1
      BY <1>2, <2>2
    <3> QED
      BY <1>1, <3>1
  <2>4. text \in Texts(K) /\ rest \in Texts(K)
    <3>1. at - 1 \in Int /\ at - 1 <= Len(s.rest) /\ at + 2 \in Int /\ at + 2 >= 1
      BY <1>1, <2>3
    <3> QED
      BY <1>1, <3>1, UptoIs, FromIs
  <2> HIDE DEF text, rest
  <2>5. p \in Scans(K)
    BY <2>4, PassedIs
  <2> HIDE DEF p
  <2>6. [p EXCEPT !.rest = rest, !.stripping = ~ s.stripping] \in Scans(K)
    BY <2>4, <2>5 DEF Scans
  <2>7. StripNext(s) = [p EXCEPT !.rest = rest, !.stripping = ~ s.stripping]
    BY <1>4 DEF StripNext, p, text, rest, at, S
  <2> QED
    BY <2>6, <2>7
<1> QED
  BY <1>3, <1>4

StripUpto(m, text, stripping, n) ==
    m = [k \in 0 .. n |->
            IF k = 0 THEN [rest |-> text, out |-> <<>>, lost |-> <<>>, stripping |-> stripping]
            ELSE StripNext(m[k - 1])]

LEMMA StripExists ==
    ASSUME NEW text, NEW stripping, NEW n \in Nat
    PROVE  \E m : StripUpto(m, text, stripping, n)
<1> DEFINE G == {k \in 0 .. n : \E m : StripUpto(m, text, stripping, k)}
           z == [rest |-> text, out |-> <<>>, lost |-> <<>>, stripping |-> stripping]
<1>1. 0 \in G
  <2>1. StripUpto([k \in 0 .. 0 |-> z], text, stripping, 0)
    BY DEF StripUpto
  <2> QED
    BY <2>1
<1>2. ASSUME NEW k \in 1 .. n, k - 1 \in G PROVE k \in G
  <2>1. PICK m : StripUpto(m, text, stripping, k - 1)
    BY <1>2
  <2> DEFINE e == [i \in 0 .. k |-> IF i = k THEN StripNext(m[k - 1]) ELSE m[i]]
  <2> HIDE DEF z
  <2>2. \A i \in 0 .. k : e[i] = IF i = 0 THEN z ELSE StripNext(e[i - 1])
    BY <2>1 DEF StripUpto, z
  <2>3. StripUpto(e, text, stripping, k)
    BY <2>2 DEF StripUpto, z
  <2> QED
    BY <2>3
<1>3. \A k \in 0 .. n : k \in G
  <2> HIDE DEF G
  <2> QED
    BY <1>1, <1>2, UpTo
<1> QED
  BY <1>3

LEMMA StripLeaksIs ==
    ASSUME NEW K, NEW text \in Texts(K), NEW stripping \in BOOLEAN
    PROVE  StripLeaks(text, stripping) \in Scans(K)
<1> DEFINE n == Len(text)
           m == CHOOSE m : StripUpto(m, text, stripping, n)
<1>1. n \in Nat
  BY TextLen
<1>2. StripUpto(m, text, stripping, n)
  BY <1>1, StripExists
<1>3. StripLeaks(text, stripping) = m[n]
  BY Zenon DEF StripLeaks, StripUpto
<1> HIDE DEF m, n
<1> DEFINE G == {k \in 0 .. n : m[k] \in Scans(K)}
<1>4. 0 \in G
  <2>1. m[0] = [rest |-> text, out |-> <<>>, lost |-> <<>>, stripping |-> stripping]
    BY <1>1, <1>2 DEF StripUpto
  <2> QED
    BY <1>1, <2>1, NothingIs DEF Scans
<1>5. ASSUME NEW k \in 1 .. n, k - 1 \in G PROVE k \in G
  <2>1. m[k] = StripNext(m[k - 1])
    BY <1>1, <1>2 DEF StripUpto
  <2> QED
    BY <1>5, <2>1, StripNextIs
<1>6. \A k \in 0 .. n : k \in G
  <2> HIDE DEF G
  <2> QED
    BY <1>1, <1>4, <1>5, UpTo
<1> QED
  BY <1>1, <1>3, <1>6

LEMMA FilterIs ==
    ASSUME NEW K, NEW f \in [buffer : Texts(K), stripping : BOOLEAN], NEW content \in Texts(K)
    PROVE  /\ Filter(f, content).out \in Texts(K)
           /\ Filter(f, content).filter \in [buffer : Texts(K), stripping : BOOLEAN]
<1> DEFINE s == StripLeaks(f.buffer \o content, f.stripping)
           keep == Len(s.rest) - KeptTag(s)
           text == Upto(s.rest, keep)
           rest == From(s.rest, keep + 1)
           end == Passed(s, text)
<1>1. s \in Scans(K)
  BY JoinedIs, StripLeaksIs
<1> HIDE DEF s
<1>2. s.rest \in Texts(K) /\ Len(s.rest) \in Nat /\ s.stripping \in BOOLEAN
  BY <1>1, TextLen DEF Scans
<1>3. keep \in 0 .. Len(s.rest)
  <2>1. s.rest = <<>> \/ Len(s.rest) > 0
    BY <1>2 DEF Texts
  <2>2. Len(<<>>) = 0
    OBVIOUS
  <2>3. \/ KeptTag(s) = 0
        \/ KeptTag(s) = 1 /\ Len(s.rest) > 0
    BY <2>1 DEF KeptTag
  <2> QED
    BY <1>2, <2>3
<1> HIDE DEF keep
<1>4. text \in Texts(K) /\ rest \in Texts(K)
  <2>1. keep \in Int /\ keep <= Len(s.rest) /\ keep + 1 \in Int /\ keep + 1 >= 1
    BY <1>2, <1>3
  <2> QED
    BY <1>2, <2>1, UptoIs, FromIs
<1> HIDE DEF text, rest
<1>5. end.out \in Texts(K)
  BY <1>1, <1>4, PassedIs DEF Scans
<1> HIDE DEF end
<1>6. Filter(f, content) = [out |-> end.out, dropped |-> end.lost,
                            filter |-> [buffer |-> rest, stripping |-> s.stripping]]
  BY DEF Filter, StripRest, s, end, rest, text, keep
<1> QED
  BY <1>2, <1>4, <1>5, <1>6

LEMMA AssistantFull ==
    ASSUME NEW c, NEW K, Full(c, K), NEW content \in Texts(K)
    PROVE  Full(ProcessAssistantResponse(c, content), K)
<1> DEFINE r == Filter(c.filter, content)
           c1 == [c EXCEPT !.filter = r.filter]
           c2 == Drop(c1, r.dropped)
<1>1. r.out \in Texts(K) /\ r.filter \in [buffer : Texts(K), stripping : BOOLEAN]
  BY FilterIs DEF Full, Core, Worded
<1> HIDE DEF r
<1>2. DOMAIN c = Fields
  BY CoreBlocks DEF Full
<1>3. Keeps(c, c2, {"filter", "dropped"}) /\ c2.filter = r.filter
  BY <1>2 DEF Keeps, Fields, Drop
<1> HIDE DEF c1, c2
<1>4. Worded(c2, K)
  <2>1. c2.thinking_buffer = c.thinking_buffer /\ c2.invoke_sniff_buffer = c.invoke_sniff_buffer
    BY <1>3 DEF Keeps, Fields
  <2> QED
    BY <1>1, <1>3, <2>1 DEF Full, Core, Worded
<1>5. Full(c2, K)
  BY <1>3, <1>4, FullBuffers DEF Free, Buffers, SettledBy
<1>6. Full(ProcessText(LeaveNativeThinking(c2), r.out), K)
  BY <1>1, <1>5, LeaveNativeFull, ProcessTextFull
<1> QED
  BY <1>5, <1>6 DEF ProcessAssistantResponse, ProcessFiltered, Filtered, c2, c1, r

(* The thinking that ends with the buffer.                                     *)
LEMMA EndAtBufferEndFull ==
    ASSUME NEW c, NEW K, Full(c, K), c.in_thinking_block,
           FindThinkingEndAtBufferEnd(c.thinking_buffer) # 0
    PROVE  Full(EndThinkingAtBufferEnd(c), K)
<1> DEFINE end == FindThinkingEndAtBufferEnd(c.thinking_buffer)
           c1 == EndThinking(c, end)
<1>1. end \in 1 .. Len(c.thinking_buffer)
  BY ThinkingEndIs DEF Full, Core, Worded
<1> HIDE DEF end
<1>2. Full(c1, K)
  BY <1>1, EndThinkingFull
<1> HIDE DEF c1
<1>3. Full([c1 EXCEPT !.thinking_buffer = <<>>], K)
  BY <1>2, NothingIs, FullBuffer
<1> QED
  BY <1>3 DEF EndThinkingAtBufferEnd, c1, end

LEMMA BeforeToolFull ==
    ASSUME NEW c, NEW K, Full(c, K)
    PROVE  Full(BeforeToolUse(c), K)
<1> DEFINE c1 == [c EXCEPT !.has_tool_use = TRUE]
           c2 == LeaveNativeThinking(c1)
           c3 == EndThinkingIfTagged(c2)
           c4 == FlushSniffedText(c3)
<1>1. DOMAIN c = Fields
  BY CoreBlocks DEF Full
<1>2. Keeps(c, c1, {"has_tool_use"})
  BY <1>1 DEF Keeps, Fields
<1> HIDE DEF c1
<1>3. Full(c1, K)
  <2>1. Worded(c1, K)
    BY <1>2 DEF Full, Core, Worded, Keeps, Fields
  <2> QED
    BY <1>2, <2>1, FullBuffers DEF Free, Buffers, SettledBy
<1>4. Full(c2, K)
  BY <1>3, LeaveNativeFull
<1> HIDE DEF c2
<1>5. Full(c3, K)
  BY <1>4, EndAtBufferEndFull DEF EndThinkingIfTagged
<1> HIDE DEF c3
<1>6. Full(c4, K)
  BY <1>5, FlushThinkingTextFull DEF FlushSniffedText
<1> QED
  BY <1>6 DEF BeforeToolUse, c4, c3, c2, c1

(* A structured call completes: it is done, and its block is there.            *)
LEMMA CompleteFull ==
    ASSUME NEW c, NEW K, Full(c, K), NEW id \in ToolIds, NEW whole
    PROVE  Full(CompleteCall(c, id, whole), K)
<1>1. DOMAIN c = Fields /\ Core(c, K)
  BY CoreBlocks DEF Full
<1>2. CASE whole
  <2> DEFINE c1 == [c EXCEPT !.done = @ \cup {id}]
             d == EmitCompletedToolUse(c1, id)
  <2>1. Keeps(c, c1, {"done"}) /\ c1.done = c.done \cup {id}
    BY <1>1 DEF Keeps, Fields
  <2> HIDE DEF c1
  <2>2. Core(c1, K)
    BY <1>1, <2>1, CoreFree DEF Free
  <2>3. Core(d, K) /\ ToolStep(c1, d, id)
    BY <2>2, CallCore
  <2> HIDE DEF d
  <2>4. /\ d.done = c.done \cup {id} /\ d.in_thinking_block = c.in_thinking_block
        /\ d.spoilt = c.spoilt /\ d.tool_json_error = c.tool_json_error /\ d.mixed = c.mixed
        /\ d.thinking_block_index = c1.thinking_block_index
        /\ c1.thinking_block_index = c.thinking_block_index /\ c1.blocks = c.blocks
        /\ DOMAIN d.tool_block_indices = DOMAIN c.tool_block_indices \cup {id}
        /\ Grow(c1.blocks, d.blocks)
    BY <2>1, <2>3 DEF ToolStep, Keeps, Fields
  <2>5. Settles(d)
    BY <2>4 DEF Full, Settles
  <2>6. IsThinkingBlockOpen(c) => IsThinkingBlockOpen(d)
    <3>1. d.thinking_block_index = c.thinking_block_index
      BY <2>4
    <3> QED
      BY <1>1, <2>3, <2>4, <3>1, OpenKept
  <2>7. Full(d, K)
    BY <2>3, <2>4, <2>5, <2>6 DEF Full, Following, Clean
  <2> QED
    BY <1>2, <2>7 DEF CompleteCall, d, c1
<1>3. CASE ~ whole
  <2> DEFINE d == SetToolJsonError([c EXCEPT !.spoilt = @ \cup {id}])
             F == {"spoilt", "tool_json_error", "stop_reason"}
  <2>1. Keeps(c, d, F) /\ d.tool_json_error = TRUE
    BY <1>1 DEF SetToolJsonError, Keeps, Fields
  <2> HIDE DEF d
  <2>2. Full(d, K)
    <3>1. Core(d, K) /\ d.blocks = c.blocks
      BY <1>1, <2>1, CoreFree DEF Free
    <3>2. /\ d.in_thinking_block = c.in_thinking_block /\ d.mixed = c.mixed
          /\ d.thinking_block_index = c.thinking_block_index
          /\ d.tool_block_indices = c.tool_block_indices /\ d.done = c.done
      BY <2>1 DEF Keeps, Fields
    <3>3. IsThinkingBlockOpen(c) => IsThinkingBlockOpen(d)
      BY <3>1, <3>2 DEF IsThinkingBlockOpen, IsBlockOpenOfType, IsOpen
    <3>4. Settles(d)
      BY <2>1, <3>2 DEF Full, Settles
    <3> QED
      BY <3>1, <3>2, <3>3, <3>4 DEF Full, Following, Clean
  <2> QED
    BY <1>3, <2>2 DEF CompleteCall, d
<1> QED
  BY <1>2, <1>3

(* The fragments that are kept play no part.                                   *)
LEMMA ToolsFull ==
    ASSUME NEW c, NEW K, Full(c, K), NEW tools
    PROVE  Full([c EXCEPT !.tools = tools], K)
<1> DEFINE d == [c EXCEPT !.tools = tools]
<1>1. DOMAIN c = Fields /\ Core(c, K)
  BY CoreBlocks DEF Full
<1>2. Keeps(c, d, {"tools"})
  BY <1>1 DEF Keeps, Fields
<1> HIDE DEF d
<1>3. Worded(d, K)
  BY <1>1, <1>2 DEF Core, Worded, Keeps, Fields
<1>4. Full(d, K)
  BY <1>2, <1>3, FullBuffers DEF Free, Buffers, SettledBy
<1> QED
  BY <1>4 DEF d

LEMMA ToolUseFull ==
    ASSUME NEW c, NEW K, Full(c, K), NEW id \in ToolIds, NEW whole, NEW stop
    PROVE  Full(TakeFragment(c, id, whole, stop), K)
<1> DEFINE rest == [i \in DOMAIN c.tools \ {id} |-> c.tools[i]]
           more == [i \in DOMAIN c.tools \cup {id} |-> IF i = id THEN whole ELSE c.tools[i]]
           c1 == [c EXCEPT !.tools = rest]
           c2 == [c EXCEPT !.tools = more]
<1> HIDE DEF rest, more
<1>1. Full(c1, K) /\ Full(c2, K)
  BY ToolsFull
<1> HIDE DEF c1, c2
<1>2. Full(CompleteCall(c1, id, whole), K)
  BY <1>1, CompleteFull
<1>3. TakeFragment(c, id, whole, stop) = IF stop THEN CompleteCall(c1, id, whole) ELSE c2
  BY DEF TakeFragment, c1, c2, rest, more
<1> QED
  BY <1>1, <1>2, <1>3

(* An event of a response whose text holds pieces of kinds K.                  *)
EventOK(e, K) ==
    \/ e.type = "text" /\ e.text \in Texts(K)
    \/ e.type = "reasoning" /\ e.text \in Texts(K)
    \/ e.type = "redacted"
    \/ e.type = "tool" /\ e.id \in ToolIds
    \/ e.type \in {"window_full", "too_long"}

LEMMA StopReasonFull ==
    ASSUME NEW c, NEW K, Full(c, K), NEW reason
    PROVE  Full([c EXCEPT !.stop_reason = reason], K)
<1> DEFINE d == [c EXCEPT !.stop_reason = reason]
<1>1. DOMAIN c = Fields /\ Core(c, K)
  BY CoreBlocks DEF Full
<1>2. Keeps(c, d, {"stop_reason"})
  BY <1>1 DEF Keeps, Fields
<1> HIDE DEF d
<1>3. Worded(d, K)
  BY <1>1, <1>2 DEF Core, Worded, Keeps, Fields
<1>4. Full(d, K)
  BY <1>2, <1>3, FullBuffers DEF Free, Buffers, SettledBy
<1> QED
  BY <1>4 DEF d

LEMMA EventFull ==
    ASSUME NEW c, NEW K, Full(c, K), NEW e, EventOK(e, K)
    PROVE  Full(ProcessKiroEvent(c, e), K)
<1>1. CASE e.type = "text" /\ e.text \in Texts(K)
  <2>1. ProcessKiroEvent(c, e) = ProcessAssistantResponse(c, e.text)
    BY <1>1 DEF ProcessKiroEvent
  <2> QED
    BY <1>1, <2>1, AssistantFull
<1>2. CASE e.type = "reasoning" /\ e.text \in Texts(K)
  <2>1. ProcessKiroEvent(c, e) = ProcessReasoningContent(c, e.text)
    BY <1>2 DEF ProcessKiroEvent
  <2> QED
    BY <1>2, <2>1, ReasoningFull
<1>3. CASE e.type = "redacted"
  <2>1. ProcessKiroEvent(c, e) = ProcessRedactedContent(c)
    BY <1>3 DEF ProcessKiroEvent
  <2> QED
    BY <1>3, <2>1, RedactedFull
<1>4. CASE e.type = "tool" /\ e.id \in ToolIds
  <2> DEFINE c1 == BeforeToolUse(c)
             whole == WholeCall(c, e.id, e.valid)
  <2>1. Full(c1, K)
    BY BeforeToolFull
  <2> HIDE DEF c1, whole
  <2>2. Full(TakeFragment(c1, e.id, whole, e.stop), K)
    BY <1>4, <2>1, ToolUseFull
  <2>3. ProcessKiroEvent(c, e) = TakeFragment(c1, e.id, whole, e.stop)
    BY <1>4 DEF ProcessKiroEvent, ProcessToolUse, c1, whole
  <2> QED
    BY <2>2, <2>3
<1>5. CASE e.type \in {"window_full", "too_long"}
  BY <1>5, StopReasonFull DEF ProcessKiroEvent
<1> QED
  BY <1>1, <1>2, <1>3, <1>4, <1>5 DEF EventOK

-------------------------------------------------------------------------------
(* The beginning and the end of the message.                                   *)

LEMMA NewContextIs ==
    ASSUME NEW thinking
    PROVE  LET c == NewContext(thinking)
           IN /\ DOMAIN c = Fields
              /\ c.blocks = <<>> /\ c.out = <<>> /\ c.started = FALSE
              /\ c.delta_sent = FALSE /\ c.ended = FALSE
              /\ c.filter = [buffer |-> <<>>, stripping |-> FALSE]
              /\ c.thinking_buffer = <<>> /\ c.invoke_sniff_buffer = <<>>
              /\ c.in_thinking_block = FALSE
              /\ c.thinking_block_index = 0 /\ c.text_block_index = 0
              /\ c.repeat_run = 0 /\ c.repeat_tripped = FALSE
              /\ c.tool_block_indices = <<>> /\ c.done = {}
              /\ c.spoilt = {} /\ c.mixed = {}
BY ZenonT(30) DEF NewContext, InitManager, Fields

LEMMA StartedCore ==
    ASSUME NEW thinking, NEW K
    PROVE  LET c == MessageStart(NewContext(thinking))
           IN Full(c, K) /\ Len(c.blocks) = 0
<1> DEFINE c0 == NewContext(thinking)
           e == [ev |-> "message_start"]
           c == MessageStart(c0)
<1>1. /\ DOMAIN c0 = Fields
      /\ c0.blocks = <<>> /\ c0.out = <<>> /\ c0.started = FALSE
      /\ c0.delta_sent = FALSE /\ c0.ended = FALSE
      /\ c0.filter = [buffer |-> <<>>, stripping |-> FALSE]
      /\ c0.thinking_buffer = <<>> /\ c0.invoke_sniff_buffer = <<>>
      /\ c0.in_thinking_block = FALSE
      /\ c0.thinking_block_index = 0 /\ c0.text_block_index = 0
      /\ c0.repeat_run = 0 /\ c0.repeat_tripped = FALSE
      /\ c0.tool_block_indices = <<>> /\ c0.done = {} /\ c0.spoilt = {}
  BY NewContextIs
<1>2. e.ev = "message_start"
  OBVIOUS
<1> HIDE DEF c0, e
<1>3. Keeps(c0, c, {"started", "out"}) /\ c.started = TRUE /\ c.out = Append(<<>>, e)
  BY <1>1 DEF MessageStart, Emit, Keeps, Fields, e
<1> HIDE DEF c
<1>4. /\ DOMAIN c = Fields /\ c.blocks = <<>> /\ c.delta_sent = FALSE /\ c.ended = FALSE
      /\ c.filter = [buffer |-> <<>>, stripping |-> FALSE]
      /\ c.thinking_buffer = <<>> /\ c.invoke_sniff_buffer = <<>>
      /\ c.in_thinking_block = FALSE
      /\ c.thinking_block_index = 0 /\ c.text_block_index = 0
      /\ c.repeat_run = 0 /\ c.repeat_tripped = FALSE
      /\ c.tool_block_indices = <<>> /\ c.done = {} /\ c.spoilt = {}
  BY <1>1, <1>3 DEF Keeps, Fields
<1>5. /\ Adds(<<>>, c.out, {e.ev}) /\ ReadAll(c.out) = Read(ReadAll(<<>>), e)
  <2> DEFINE out == <<>>
  <2>1. IsSeq(out)
    BY DEF IsSeq
  <2> HIDE DEF out
  <2>2. Adds(out, Append(out, e), {e.ev}) /\ ReadAll(Append(out, e)) = Read(ReadAll(out), e)
    BY <2>1, AppendAdds
  <2> QED
    BY <1>3, <2>2 DEF out
<1>6. ReadAll(c.out) = [phase |-> "content", blocks |-> <<>>]
  <2>1. Client0.phase = "none" /\ Client0 = [phase |-> "none", blocks |-> <<>>]
    BY DEF Client0
  <2>2. Read(Client0, e) = [Client0 EXCEPT !.phase = "content"]
    BY <1>2, <2>1 DEF Read
  <2> QED
    BY <1>5, <2>1, <2>2, ReadNothing
<1>7. Seen(<<>>, {}) = <<>>
  <2> DEFINE b == <<>>
  <2>1. b \in Blocks /\ Len(b) = 0
    BY DEF Blocks
  <2> HIDE DEF b
  <2>2. Len(Seen(b, {})) = 0 /\ Seen(b, {}) \in Seq([type : BlockTypes, state : {"stopped", "complete", "open"}])
    BY <2>1, SeenIs DEF Blocks
  <2>3. Seen(b, {}) = <<>>
    BY <2>2, EmptySeq
  <2> QED
    BY <2>3 DEF b
<1>8. Managed(c, {})
  <2>1. IsSeq(c.out)
    BY <1>5 DEF Adds
  <2>2. c.blocks \in Seq([type : BlockTypes, open : BOOLEAN])
    BY <1>4
  <2> QED
    BY <1>3, <1>4, <1>6, <1>7, <2>1, <2>2 DEF Managed
<1>9. DOMAIN c.tool_block_indices = {} /\ Len(c.blocks) = 0
  BY <1>4
<1>10. Called(c)
  <2>1. \A i \in 1 .. Len(c.out) : c.out[i].ev # "input"
    <3>1. Len(<<>>) = 0
      OBVIOUS
    <3> QED
      BY <1>2, <1>5, <3>1 DEF Adds
  <2> QED
    BY <1>9, <2>1 DEF Called
<1>11. OpenKinds(c) /\ Indexed(c)
  BY <1>4, <1>9 DEF OpenKinds, Indexed, Indexes
<1>12. Worded(c, K)
  BY <1>4, NothingIs DEF Worded
<1>13. GuardOK(c.repeat_run, c.repeat_tripped)
  <2>1. 0 \in 0 .. REPEAT_GUARD_TRIP_THRESHOLD /\ 0 < REPEAT_GUARD_TRIP_THRESHOLD
    BY StreamAssumption
  <2>2. GuardOK(0, FALSE)
    BY <2>1 DEF GuardOK
  <2> QED
    BY <1>4, <2>2
<1>14. Full(c, K)
  <2>1. Core(c, K)
    BY <1>8, <1>10, <1>11, <1>12, <1>13 DEF Core
  <2>2. Settles(c)
    BY <1>4, <1>9 DEF Settles
  <2> QED
    BY <1>4, <2>1, <2>2 DEF Full
<1> QED
  BY <1>9, <1>14 DEF c, c0

LEMMA InitialFull ==
    ASSUME NEW thinking, NEW K
    PROVE  Full(GenerateInitialEvents(NewContext(thinking)), K)
<1> DEFINE c0 == NewContext(thinking)
           c1 == MessageStart(c0)
           s == ContentBlockStart(c1, "text")
           d == [s EXCEPT !.text_block_index = 1]
<1>1. Full(c1, K) /\ Len(c1.blocks) = 0 /\ c1.in_thinking_block = FALSE
  <2>1. Full(c1, K) /\ Len(c1.blocks) = 0
    BY StartedCore
  <2>2. c1.in_thinking_block = c0.in_thinking_block /\ c0.in_thinking_block = FALSE
    <3>1. DOMAIN c0 = Fields /\ c0.in_thinking_block = FALSE
      BY NewContextIs
    <3> HIDE DEF c0
    <3> QED
      BY <3>1 DEF MessageStart, Emit, Fields
  <2> QED
    BY <2>1, <2>2
<1> HIDE DEF c1
<1>2. Keeps(c1, s, {"blocks", "out", "has_tool_use"})
  <2>1. Managed(c1, {}) /\ "text" \in BlockTypes
    BY <1>1 DEF Full, Core, BlockTypes
  <2> QED
    BY <2>1, StartKeeps
<1> HIDE DEF s
<1>3. DOMAIN c1 = Fields /\ DOMAIN s = Fields
  BY <1>1, <1>2, CoreBlocks DEF Full, Keeps
<1>4. /\ Keeps(s, d, {"text_block_index"}) /\ d.text_block_index = Len(c1.blocks) + 1
      /\ d.thinking_block_index = c1.thinking_block_index
  BY <1>1, <1>2, <1>3 DEF Keeps, Fields
<1> HIDE DEF d
<1>5. /\ Core(d, K) /\ Keeps(c1, d, {"blocks", "out", "has_tool_use"} \cup {"text_block_index"})
  BY <1>1, <1>4, StartCore DEF s, Full
<1>6. Full(d, K)
  BY <1>1, <1>5, FullOutside DEF Loose, SettledBy
<1> QED
  BY <1>1, <1>6 DEF GenerateInitialEvents, d, s, c1, c0

(* When the body has ended: what is left to say of the context.                *)
Told(c, K) == Core(c, K) /\ Settles(c)

LEMMA ToldText ==
    ASSUME NEW c, NEW K, Told(c, K), NEW d, Core(d, K), TextStep(c, d)
    PROVE  Told(d, K)
<1>1. d.done = c.done /\ d.spoilt = c.spoilt /\ d.tool_json_error = c.tool_json_error
  BY DEF TextStep, TextFields, Keeps, Fields
<1> QED
  BY <1>1 DEF Told, TextStep, Settles

LEMMA ToldFree ==
    ASSUME NEW c, NEW K, Told(c, K), NEW d, NEW F, Keeps(c, d, F), F \subseteq Free \ SettledBy
    PROVE  Told(d, K)
<1>1. Core(d, K)
  BY CoreFree DEF Told
<1>2. Settles(d)
  BY SettlesSame DEF Told
<1> QED
  BY <1>1, <1>2 DEF Told

LEMMA FinishFilterFull ==
    ASSUME NEW c, NEW K, Full(c, K)
    PROVE  Full(FinishFilter(c), K)
<1> DEFINE empty == [buffer |-> <<>>, stripping |-> FALSE]
           c1 == [c EXCEPT !.filter = empty]
<1>1. DOMAIN c = Fields /\ c.filter.buffer \in Texts(K)
  BY CoreBlocks DEF Full, Core, Worded
<1>2. empty \in [buffer : Texts(K), stripping : BOOLEAN]
  BY NothingIs
<1> HIDE DEF empty
<1>3. Keeps(c, c1, {"filter"}) /\ c1.filter = empty
  BY <1>1 DEF Keeps, Fields
<1> HIDE DEF c1
<1>4. Full(c1, K)
  <2>1. c1.thinking_buffer = c.thinking_buffer /\ c1.invoke_sniff_buffer = c.invoke_sniff_buffer
    BY <1>3 DEF Keeps, Fields
  <2>2. Worded(c1, K)
    BY <1>2, <1>3, <2>1 DEF Full, Core, Worded
  <2> QED
    BY <1>3, <2>2, FullBuffers DEF Free, Buffers, SettledBy
<1>5. Full(ProcessText(c1, c.filter.buffer), K)
  BY <1>1, <1>4, ProcessTextFull
<1> QED
  BY <1>4, <1>5 DEF FinishFilter, c1, empty

LEMMA FlushThinkingTold ==
    ASSUME NEW c, NEW K, Full(c, K)
    PROVE  Told(FlushThinkingBuffer(c), K)
<1> DEFINE buf == c.thinking_buffer
<1>1. CASE buf = <<>>
  BY <1>1 DEF FlushThinkingBuffer, Full, Told
<1>2. CASE buf # <<>> /\ ~ c.in_thinking_block
  <2>1. FlushThinkingBuffer(c) = FlushThinkingText(c)
    BY <1>2 DEF FlushThinkingBuffer
  <2> QED
    BY <2>1, FlushThinkingTextFull DEF Full, Told
<1>3. CASE buf # <<>> /\ c.in_thinking_block
  <2> DEFINE c1 == ThinkingDelta(c, buf)
             c2 == [c1 EXCEPT !.thinking_buffer = <<>>]
             d == SignAndStop(c2)
  <2>1. Full(c1, K) /\ Keeps(c, c1, {"out"})
    BY <1>3, FullThinkingDelta DEF Full
  <2> HIDE DEF c1
  <2>2. Full(c2, K) /\ Keeps(c1, c2, {"thinking_buffer"})
    BY <2>1, NothingIs, FullBuffer
  <2> HIDE DEF c2
  <2>3. c2.in_thinking_block = c.in_thinking_block
    BY <2>1, <2>2 DEF Keeps, Fields
  <2>4. Core(d, K) /\ Keeps(c2, d, {"blocks", "out"})
    BY <1>3, <2>2, <2>3, SignCore DEF Full
  <2> HIDE DEF d
  <2>5. Settles(d)
    BY <2>2, <2>4, SettlesSame DEF Full, SettledBy
  <2>6. Told(d, K)
    BY <2>4, <2>5 DEF Told
  <2>7. CASE FindThinkingEndAtBufferEnd(buf) # 0
    <3>1. FlushThinkingBuffer(c) = EndThinkingAtBufferEnd(c)
      BY <1>3, <2>7 DEF FlushThinkingBuffer
    <3> QED
      BY <1>3, <2>7, <3>1, EndAtBufferEndFull DEF Full, Told
  <2>8. CASE FindThinkingEndAtBufferEnd(buf) = 0
    <3>1. FlushThinkingBuffer(c) = d
      BY <1>3, <2>8 DEF FlushThinkingBuffer, d, c2, c1
    <3> QED
      BY <2>6, <3>1
  <2> QED
    BY <2>7, <2>8
<1> QED
  BY <1>1, <1>2, <1>3

LEMMA PadTold ==
    ASSUME NEW c, NEW K, Told(c, K), "nl" \in K
    PROVE  Told(PadThinkingOnly(c), K)
<1> DEFINE c1 == [c EXCEPT !.stop_reason = "max_tokens"]
           pad == <<[k |-> "nl", n |-> 0]>>
           d == CreateTextDeltaEvents(c1, pad)
<1>1. DOMAIN c = Fields
  BY CoreBlocks DEF Told
<1>2. Keeps(c, c1, {"stop_reason"})
  BY <1>1 DEF Keeps, Fields
<1> HIDE DEF c1
<1>3. Told(c1, K)
  BY <1>2, ToldFree DEF Free, SettledBy
<1>4. pad \in Texts(K)
  BY DEF Texts
<1> HIDE DEF pad
<1>5. Core(d, K) /\ TextStep(c1, d)
  BY <1>3, <1>4, CreateCore DEF Told
<1> HIDE DEF d
<1>6. Told(d, K)
  BY <1>3, <1>5, ToldText
<1> QED
  BY <1>6 DEF PadThinkingOnly, d, pad, c1

LEMMA FlushTold ==
    ASSUME NEW c, NEW K, Full(c, K), "nl" \in K
    PROVE  Told(FlushBuffers(c), K)
<1> DEFINE c1 == PadThinkingOnly(FlushThinkingBuffer(LeaveNativeThinking(FinishFilter(c))))
<1>1. Told(c1, K)
  BY FinishFilterFull, LeaveNativeFull, FlushThinkingTold, PadTold
<1> HIDE DEF c1
<1>2. Core(DrainInvokeSniffBuffer(c1, TRUE), K) /\ TextStep(c1, DrainInvokeSniffBuffer(c1, TRUE))
  BY <1>1, DrainCore DEF Told
<1>3. Told(DrainInvokeSniffBuffer(c1, TRUE), K)
  BY <1>1, <1>2, ToldText
<1> QED
  BY <1>3 DEF FlushBuffers, c1

LEMMA UnfinishedTold ==
    ASSUME NEW c, NEW K, Told(c, K)
    PROVE  LET d == CheckUnfinishedTools(c)
           IN Told(d, K) /\ (DOMAIN d.tools # {} => d.tool_json_error)
<1> DEFINE s == SetToolJsonError(c)
<1>1. DOMAIN c = Fields
  BY CoreBlocks DEF Told
<1>2. /\ Keeps(c, s, {"tool_json_error", "stop_reason"})
      /\ s.tool_json_error = TRUE
  BY <1>1 DEF SetToolJsonError, Keeps, Fields
<1> HIDE DEF s
<1>3. Told(s, K)
  <2>1. Core(s, K)
    BY <1>2, CoreFree DEF Told, Free
  <2>2. s.done = c.done /\ s.tool_block_indices = c.tool_block_indices
    BY <1>2 DEF Keeps, Fields
  <2> QED
    BY <1>2, <2>1, <2>2 DEF Told, Settles
<1> QED
  BY <1>2, <1>3 DEF CheckUnfinishedTools, s

(* The events a client reads when all blocks are stopped, and after.           *)
LEMMA ReadsEnd ==
    ASSUME NEW m, NEW e
    PROVE  /\ e.ev = "message_delta" /\ m.phase = "content" /\ AllStopped(m) =>
                 Read(m, e) = [m EXCEPT !.phase = "delta"]
           /\ e.ev = "message_stop" /\ m.phase = "delta" => Read(m, e) = [m EXCEPT !.phase = "stopped"]
           /\ e.ev = "error" /\ m.phase = "stopped" => Read(m, e) = m
BY DEF Read, DeltaType

(* What holds of the context to the end, whatever the client has been told.    *)
Settled(c) ==
    /\ c.blocks \in Blocks /\ IsSeq(c.out) /\ Indexed(c) /\ Called(c)
    /\ GuardOK(c.repeat_run, c.repeat_tripped)
    /\ Settles(c)

LEMMA ToldSettled ==
    ASSUME NEW c, NEW K, Told(c, K)
    PROVE  Settled(c)
BY CoreBlocks DEF Told, Settled, Core

(* One event that is not about a block.                                        *)
Ending == {"delta_sent", "ended", "out"}

LEMMA SettledEmit ==
    ASSUME NEW c, NEW d, Settled(c), DOMAIN c = Fields, Keeps(c, d, Ending),
           NEW e, d.out = Append(c.out, e), e.ev # "input"
    PROVE  /\ Settled(d) /\ DOMAIN d = Fields /\ ReadAll(d.out) = Read(ReadAll(c.out), e)
           /\ \E i \in 1 .. Len(d.out) : d.out[i].ev = e.ev
<1>1. /\ d.blocks = c.blocks /\ d.text_block_index = c.text_block_index
      /\ d.thinking_block_index = c.thinking_block_index
      /\ d.tool_block_indices = c.tool_block_indices
      /\ d.repeat_run = c.repeat_run /\ d.repeat_tripped = c.repeat_tripped
      /\ DOMAIN d = Fields
  BY DEF Keeps, Fields, Ending
<1> DEFINE o == c.out
<1>2. IsSeq(o)
  BY DEF Settled
<1>3. Adds(c.out, d.out, {e.ev})
  <2> HIDE DEF o
  <2>1. Adds(o, Append(o, e), {e.ev})
    BY <1>2, AppendAdds
  <2> QED
    BY <2>1 DEF o
<1>4. ReadAll(d.out) = Read(ReadAll(c.out), e)
  <2> HIDE DEF o
  <2>1. ReadAll(Append(o, e)) = Read(ReadAll(o), e)
    BY <1>2, AppendAdds
  <2> QED
    BY <2>1 DEF o
<1>5. \E i \in 1 .. Len(d.out) : d.out[i].ev = e.ev
  <2> HIDE DEF o
  <2>1. Len(Append(o, e)) = Len(o) + 1 /\ Append(o, e)[Len(o) + 1] = e /\ Len(o) \in Nat
    BY <1>2, AppendAdds, LenIsNat
  <2>2. d.out = Append(o, e)
    BY DEF o
  <2> QED
    BY <2>1, <2>2
<1>6. Called(d)
  BY <1>1, <1>3, CalledSame DEF Settled
<1>7. Indexed(d)
  BY <1>1 DEF Settled, Indexed, Indexes
<1>8. IsSeq(d.out)
  BY <1>3 DEF Adds
<1>9. Settled(d)
  <2>1. Settles(d)
    BY SettlesSame DEF Settled, Ending, SettledBy
  <2> QED
    BY <1>1, <1>6, <1>7, <1>8, <2>1 DEF Settled
<1> QED
  BY <1>1, <1>4, <1>5, <1>9

LEMMA FinalSettled ==
    ASSUME NEW c, NEW K, Told(c, K)
    PROVE  LET d == FinalMessageEvents(c)
           IN /\ Settled(d) /\ DOMAIN d = Fields
              /\ Clean(d) => ReadAll(d.out).phase = "stopped"
              /\ d.tools = c.tools /\ d.tool_json_error = c.tool_json_error
              /\ d.mixed = c.mixed
<1> DEFINE S == {i \in DOMAIN c.blocks : IsOpen(c, i)}
           c1 == StopAll(c, S)
           e2 == [ev |-> "message_delta", reason |-> GetStopReason(c1)]
           c2 == MessageDelta(c1)
           e3 == [ev |-> "message_stop"]
           c3 == MessageStop(c2)
<1>1. S = {i \in DOMAIN c.blocks : c.blocks[i].open} /\ Core(c, K)
  BY DEF IsOpen, Told
<1> HIDE DEF S
<1>2. /\ Core(c1, K) /\ Keeps(c, c1, {"blocks", "out"}) /\ c1.blocks = Closed(c.blocks, S)
  BY <1>1, StopCore
<1> HIDE DEF c1
<1>3. \A i \in 1 .. Len(c1.blocks) : ~ c1.blocks[i].open
  <2>1. c.blocks \in Blocks /\ DOMAIN c.blocks = 1 .. Len(c.blocks)
    BY <1>1, CoreBlocks
  <2>2. \A i \in 1 .. Len(c.blocks) : c1.blocks[i].open = (c.blocks[i].open /\ i \notin S)
    BY <1>2, <2>1, ClosedIs
  <2>3. Len(c1.blocks) = Len(c.blocks)
    BY <1>2, <2>1, ClosedIs
  <2>4. ASSUME NEW i \in 1 .. Len(c1.blocks) PROVE ~ c1.blocks[i].open
    <3>1. c1.blocks[i].open = (c.blocks[i].open /\ i \notin S)
      BY <2>2, <2>3
    <3>2. c.blocks[i].open => i \in S
      BY <1>1, <2>1, <2>3
    <3> QED
      BY <3>1, <3>2
  <2> QED
    BY <2>4
<1>4. /\ DOMAIN c1 = Fields /\ c1.blocks \in Blocks /\ c1.delta_sent = FALSE /\ c1.ended = FALSE
      /\ Clean(c) => ReadAll(c1.out) = Reading(c1.blocks, {})
      /\ Settled(c1) /\ c1.mixed = c.mixed
      /\ c1.tools = c.tools /\ c1.tool_json_error = c.tool_json_error
  <2>1. c1.tools = c.tools /\ c1.tool_json_error = c.tool_json_error /\ c1.mixed = c.mixed
    BY <1>2 DEF Keeps, Fields
  <2>2. Told(c1, K)
    BY <1>2, SettlesSame DEF Told, SettledBy
  <2> QED
    BY <1>2, <2>1, <2>2, ToldSettled DEF Core, Managed, Reading, Blocks, Clean
<1> DEFINE m == Reading(c1.blocks, {})
<1>5. AllStopped(m) /\ m.phase = "content" /\ DOMAIN m = {"phase", "blocks"}
  <2>1. /\ DOMAIN m = {"phase", "blocks"}
        /\ m.phase = "content"
        /\ m.blocks = Seen(c1.blocks, {})
        /\ DOMAIN Seen(c1.blocks, {}) = 1 .. Len(c1.blocks)
        /\ \A i \in 1 .. Len(c1.blocks) :
              Seen(c1.blocks, {})[i] =
                  [type |-> c1.blocks[i].type,
                   state |-> IF ~ c1.blocks[i].open THEN "stopped"
                             ELSE IF i \in {} THEN "complete" ELSE "open"]
    BY <1>4, ReadingIs
  <2> HIDE DEF m
  <2>2. ASSUME NEW i \in DOMAIN m.blocks PROVE m.blocks[i].state = "stopped"
    <3>1. i \in 1 .. Len(c1.blocks) /\ ~ c1.blocks[i].open
      BY <1>3, <2>1
    <3>2. m.blocks[i] = [type |-> c1.blocks[i].type, state |-> "stopped"]
      BY <2>1, <3>1
    <3> QED
      BY <3>2
  <2> QED
    BY <2>1, <2>2 DEF AllStopped
<1> HIDE DEF m
<1>6. /\ e2.ev = "message_delta" /\ e3.ev = "message_stop"
      /\ e2.ev # "input" /\ e3.ev # "input"
  OBVIOUS
<1> HIDE DEF e2, e3
<1>7. /\ Keeps(c1, c2, {"delta_sent"} \cup {"out"}) /\ c2.out = Append(c1.out, e2)
  <2>1. GetStopReason([c1 EXCEPT !.delta_sent = TRUE]) = GetStopReason(c1)
    BY <1>4 DEF GetStopReason, Fields
  <2>2. c2 = Emit([c1 EXCEPT !.delta_sent = TRUE], e2)
    BY <1>4, <2>1 DEF MessageDelta, e2
  <2> HIDE DEF c2
  <2> QED
    BY <1>4, <2>2 DEF Emit, Keeps, Fields
<1> HIDE DEF c2
<1>8. /\ Settled(c2) /\ DOMAIN c2 = Fields
      /\ Clean(c) => ReadAll(c2.out) = [m EXCEPT !.phase = "delta"]
  <2>1. Settled(c2) /\ DOMAIN c2 = Fields /\ ReadAll(c2.out) = Read(ReadAll(c1.out), e2)
    <3>1. Keeps(c1, c2, Ending)
      BY <1>7 DEF Keeps, Ending
    <3>2. /\ Settled(c1) /\ DOMAIN c1 = Fields /\ e2.ev # "input" /\ c2.out = Append(c1.out, e2)
      BY <1>4, <1>6, <1>7
    <3>3. Settled(c2)
      BY <3>1, <3>2, SettledEmit
    <3>4. ReadAll(c2.out) = Read(ReadAll(c1.out), e2)
      <4>1. IsSeq(c1.out)
        BY <3>2 DEF Settled
      <4>2. ReadAll(Append(c1.out, e2)) = Read(ReadAll(c1.out), e2)
        BY <4>1, AppendAdds
      <4> QED
        BY <3>2, <4>2
    <3>5. DOMAIN c2 = Fields
      BY <3>1, <3>2, SettledEmit
    <3> QED
      BY <3>3, <3>4, <3>5
  <2> QED
    BY <1>4, <1>5, <1>6, <2>1, ReadsEnd DEF m
<1>9. /\ c2.ended = FALSE /\ c2.tools = c.tools /\ c2.tool_json_error = c.tool_json_error
      /\ c2.mixed = c.mixed
  BY <1>4, <1>7 DEF Keeps, Fields
<1>10. /\ Keeps(c2, c3, {"ended"} \cup {"out"}) /\ c3.out = Append(c2.out, e3)
  <2>1. c3 = Emit([c2 EXCEPT !.ended = TRUE], e3)
    BY <1>9 DEF MessageStop, e3
  <2> HIDE DEF c3
  <2> QED
    BY <1>8, <2>1 DEF Emit, Keeps, Fields
<1> HIDE DEF c3
<1>11. /\ Settled(c3) /\ DOMAIN c3 = Fields
       /\ Clean(c) => ReadAll(c3.out).phase = "stopped"
  <2>1. Settled(c3) /\ DOMAIN c3 = Fields /\ ReadAll(c3.out) = Read(ReadAll(c2.out), e3)
    <3>1. Keeps(c2, c3, Ending)
      BY <1>10 DEF Keeps, Ending
    <3>2. /\ Settled(c2) /\ DOMAIN c2 = Fields /\ e3.ev # "input" /\ c3.out = Append(c2.out, e3)
      BY <1>6, <1>8, <1>10
    <3>3. Settled(c3)
      BY <3>1, <3>2, SettledEmit
    <3>4. ReadAll(c3.out) = Read(ReadAll(c2.out), e3)
      <4>1. IsSeq(c2.out)
        BY <3>2 DEF Settled
      <4>2. ReadAll(Append(c2.out, e3)) = Read(ReadAll(c2.out), e3)
        BY <4>1, AppendAdds
      <4> QED
        BY <3>2, <4>2
    <3>5. DOMAIN c3 = Fields
      BY <3>1, <3>2, SettledEmit
    <3> QED
      BY <3>3, <3>4, <3>5
  <2>2. Clean(c) => /\ ReadAll(c2.out).phase = "delta"
                    /\ DOMAIN ReadAll(c2.out) = {"phase", "blocks"}
    BY <1>5, <1>8
  <2>3. Clean(c) => Read(ReadAll(c2.out), e3) = [ReadAll(c2.out) EXCEPT !.phase = "stopped"]
    BY <1>6, <2>2, ReadsEnd
  <2> QED
    BY <2>1, <2>2, <2>3
<1>12. c3.tools = c.tools /\ c3.tool_json_error = c.tool_json_error /\ c3.mixed = c.mixed
  BY <1>9, <1>10 DEF Keeps, Fields
<1>13. Clean(c3) => Clean(c)
  BY <1>12 DEF Clean
<1> QED
  BY <1>11, <1>12, <1>13 DEF FinalMessageEvents, c3, c2, c1, S

(* The end of a response: a whole message, and an error after it when a call   *)
(* was not whole.                                                              *)
LEMMA GeneratedFinal ==
    ASSUME NEW c, NEW K, Full(c, K), "nl" \in K
    PROVE  LET d == GenerateFinalEvents(c)
           IN /\ Settled(d) /\ (Clean(d) => ReadAll(d.out).phase = "stopped")
              /\ DOMAIN d.tools # {} => d.tool_json_error
              /\ d.tool_json_error => \E i \in 1 .. Len(d.out) : d.out[i].ev = "error"
<1> DEFINE c1 == CheckUnfinishedTools(FlushBuffers(c))
           c2 == FinalMessageEvents(c1)
           e == [ev |-> "error"]
           d == ErrorEvent(c2)
<1>1. Told(c1, K) /\ (DOMAIN c1.tools # {} => c1.tool_json_error)
  BY FlushTold, UnfinishedTold
<1> HIDE DEF c1
<1>2. /\ Settled(c2) /\ DOMAIN c2 = Fields
      /\ Clean(c2) => ReadAll(c2.out).phase = "stopped"
      /\ c2.tools = c1.tools /\ c2.tool_json_error = c1.tool_json_error
  BY <1>1, FinalSettled
<1> HIDE DEF c2
<1>3. e.ev = "error" /\ e.ev # "input"
  OBVIOUS
<1> HIDE DEF e
<1>4. CASE c2.tool_json_error
  <2>1. /\ Keeps(c2, d, {"out"}) /\ d.out = Append(c2.out, e)
        /\ d.tools = c2.tools /\ d.tool_json_error = c2.tool_json_error /\ d.mixed = c2.mixed
    BY <1>2, <1>4 DEF ErrorEvent, Emit, Keeps, Fields, e
  <2> HIDE DEF d
  <2>2. /\ Settled(d) /\ ReadAll(d.out) = Read(ReadAll(c2.out), e)
        /\ \E i \in 1 .. Len(d.out) : d.out[i].ev = e.ev
    <3>1. Keeps(c2, d, Ending)
      BY <2>1 DEF Keeps, Ending
    <3>2. /\ Settled(c2) /\ DOMAIN c2 = Fields /\ e.ev # "input" /\ d.out = Append(c2.out, e)
      BY <1>2, <1>3, <2>1
    <3>3. Settled(d)
      BY <3>1, <3>2, SettledEmit
    <3>4. ReadAll(d.out) = Read(ReadAll(c2.out), e)
      <4>1. IsSeq(c2.out)
        BY <3>2 DEF Settled
      <4>2. ReadAll(Append(c2.out, e)) = Read(ReadAll(c2.out), e)
        BY <4>1, AppendAdds
      <4> QED
        BY <3>2, <4>2
    <3>5. \E i \in 1 .. Len(d.out) : d.out[i].ev = e.ev
      BY <3>1, <3>2, SettledEmit
    <3> QED
      BY <3>3, <3>4, <3>5
  <2>3. Clean(d) => ReadAll(d.out).phase = "stopped"
    BY <1>2, <1>3, <2>1, <2>2, ReadsEnd DEF Clean
  <2>4. \E i \in 1 .. Len(d.out) : d.out[i].ev = "error"
    BY <1>3, <2>2
  <2> QED
    BY <1>1, <1>2, <2>1, <2>2, <2>3, <2>4 DEF GenerateFinalEvents, d, c2, c1
<1>5. CASE ~ c2.tool_json_error
  <2>1. d = c2
    BY <1>5 DEF ErrorEvent
  <2> HIDE DEF d
  <2> QED
    BY <1>1, <1>2, <1>5, <2>1 DEF GenerateFinalEvents, d, c2, c1
<1> QED
  BY <1>4, <1>5

-------------------------------------------------------------------------------
(* The decoder.                                                                *)

(* What the upstream may send.                                                 *)
Events(K) ==
    [type : {"text"}, text : Texts(K)]
    \cup [type : {"reasoning"}, text : Texts(K)]
    \cup [type : {"redacted"}]
    \cup [type : {"tool"}, id : ToolIds, valid : BOOLEAN, stop : BOOLEAN]
    \cup [type : {"window_full", "too_long"}]

Frames(K) == [kind : {"ok", "crc", "prelude", "range", "long"}, event : Events(K)]

Wire(K) == [frame : Frames(K), half : {1, 2}]

LEMMA EventsOK ==
    ASSUME NEW K, NEW e \in Events(K)
    PROVE  EventOK(e, K)
BY DEF Events, EventOK

(* The decoder stops at MAX_ERRORS errors in a row, and its buffer is bounded. *)
DecoderOK(d, K) ==
    /\ d \in [buffer : Seq(Wire(K)), state : {"Ready", "Recovering", "Stopped"},
              error_count : 0 .. MAX_ERRORS]
    /\ d.error_count = MAX_ERRORS <=> d.state = "Stopped"
    /\ Len(d.buffer) <= MAX_BUFFER

LEMMA NewDecoderOK == \A K : DecoderOK(NewDecoder, K)
<1> TAKE K
<1>1. MAX_ERRORS \in Nat \ {0} /\ MAX_BUFFER \in Nat
  BY DecoderAssumption
<1>2. <<>> \in Seq(Wire(K)) /\ Len(<<>>) = 0
  OBVIOUS
<1> QED
  BY <1>1, <1>2 DEF NewDecoder, DecoderOK

LEMMA FeedOK ==
    ASSUME NEW K, NEW d, DecoderOK(d, K), NEW data \in Seq(Wire(K))
    PROVE  DecoderOK(Feed(d, data), K)
<1>1. d.buffer \o data \in Seq(Wire(K)) /\ Len(d.buffer \o data) = Len(d.buffer) + Len(data)
  BY ConcatProperties DEF DecoderOK
<1>2. Len(d.buffer) \in Nat /\ Len(data) \in Nat /\ MAX_BUFFER \in Nat
  BY DecoderAssumption DEF DecoderOK
<1> DEFINE e == [d EXCEPT !.buffer = @ \o data,
                          !.state = IF @ = "Recovering" THEN "Ready" ELSE @]
<1>3. CASE Len(d.buffer) + Len(data) > MAX_BUFFER
  BY <1>3 DEF Feed
<1>4. CASE ~ (Len(d.buffer) + Len(data) > MAX_BUFFER)
  <2>1. Feed(d, data) = e
    BY <1>4 DEF Feed
  <2>2. /\ e.buffer = d.buffer \o data /\ e.error_count = d.error_count
        /\ e.state = (IF d.state = "Recovering" THEN "Ready" ELSE d.state)
        /\ e \in [buffer : Seq(Wire(K)), state : {"Ready", "Recovering", "Stopped"},
                  error_count : 0 .. MAX_ERRORS]
    BY <1>1 DEF DecoderOK
  <2> HIDE DEF e
  <2>3. e.state = "Stopped" <=> d.state = "Stopped"
    BY <2>2
  <2>4. Len(e.buffer) <= MAX_BUFFER
    BY <1>1, <1>2, <1>4, <2>2
  <2>5. DecoderOK(e, K)
    BY <2>2, <2>3, <2>4 DEF DecoderOK
  <2> QED
    BY <2>1, <2>5
<1> QED
  BY <1>3, <1>4

LEMMA AdvanceIs ==
    ASSUME NEW K, NEW d, DecoderOK(d, K), NEW n \in {1, 2}
    PROVE  LET e == Advance(d, n)
           IN /\ e \in [buffer : Seq(Wire(K)), state : {d.state}, error_count : {d.error_count}]
              /\ Len(e.buffer) <= MAX_BUFFER
<1> DEFINE rest == SubSeq(d.buffer, n + 1, Len(d.buffer))
<1>1. /\ d \in [buffer : Seq(Wire(K)), state : {"Ready", "Recovering", "Stopped"},
                error_count : 0 .. MAX_ERRORS]
      /\ Len(d.buffer) \in Nat /\ Len(d.buffer) <= MAX_BUFFER /\ MAX_BUFFER \in Nat
  BY DecoderAssumption DEF DecoderOK
<1>2. rest \in Seq(Wire(K)) /\ Len(rest) <= Len(d.buffer)
  <2> DEFINE b == d.buffer
             N == Len(b)
  <2>1. b \in Seq(Wire(K)) /\ N \in Nat
    BY <1>1
  <2> HIDE DEF b
  <2>2. CASE n + 1 <= N
    <3>1. n + 1 \in 1 .. N + 1 /\ N \in n .. N
      BY <2>1, <2>2
    <3>2. /\ SubSeq(b, n + 1, N) \in Seq(Wire(K))
          /\ Len(SubSeq(b, n + 1, N)) = IF n + 1 <= N THEN N - (n + 1) + 1 ELSE 0
      BY <2>1, <3>1, SubSeqProperties
    <3> QED
      BY <2>1, <2>2, <3>2 DEF b
  <2>3. CASE ~ (n + 1 <= N)
    <3>1. SubSeq(b, n + 1, N) = <<>>
      BY <2>1, <2>3
    <3> QED
      BY <2>1, <3>1 DEF b
  <2> QED
    BY <2>2, <2>3
<1> HIDE DEF rest
<1>3. Advance(d, n) = [d EXCEPT !.buffer = rest]
  BY DEF Advance, rest
<1>4. Len(rest) <= MAX_BUFFER
  <2>1. Len(rest) \in Nat
    BY <1>2
  <2> QED
    BY <1>1, <1>2, <2>1
<1> QED
  BY <1>1, <1>2, <1>3, <1>4


(* What a run of the decoder has reached.                                      *)
Decodes(s, K) ==
    /\ s \in [decoder : {s.decoder}, frames : Seq(Frames(K))]
    /\ DecoderOK(s.decoder, K)

LEMMA HeadIs ==
    ASSUME NEW K, NEW d, DecoderOK(d, K), d.buffer # <<>>
    PROVE  Head(d.buffer) \in Wire(K) /\ Head(d.buffer).frame \in Frames(K)
<1>1. d.buffer \in Seq(Wire(K))
  BY DEF DecoderOK
<1>2. Head(d.buffer) \in Wire(K)
  BY <1>1
<1> QED
  BY <1>2 DEF Wire

LEMMA DecodeNextOK ==
    ASSUME NEW K, NEW s, Decodes(s, K)
    PROVE  Decodes(DecodeNext(s), K)
<1> DEFINE d == s.decoder
           a == Advance(d, 2)
           e == [a EXCEPT !.state = "Ready", !.error_count = 0]
           frame == Head(d.buffer).frame
           frames == Append(s.frames, frame)
<1>1. CASE ~ (Decoding(d) /\ ParseFrame(d.buffer) = "frame")
  BY <1>1 DEF DecodeNext
<1>2. CASE Decoding(d) /\ ParseFrame(d.buffer) = "frame"
  <2>1. DecoderOK(d, K) /\ s.frames \in Seq(Frames(K))
    BY DEF Decodes
  <2>2. frame \in Frames(K)
    BY <1>2, <2>1, HeadIs DEF Decoding
  <2>3. /\ a \in [buffer : Seq(Wire(K)), state : {d.state}, error_count : {d.error_count}]
        /\ Len(a.buffer) <= MAX_BUFFER
    BY <2>1, AdvanceIs
  <2> HIDE DEF a, frame
  <2>4. /\ e.buffer = a.buffer /\ e.state = "Ready" /\ e.error_count = 0
        /\ e \in [buffer : Seq(Wire(K)), state : {"Ready"}, error_count : {0}]
    BY <2>3
  <2> HIDE DEF e
  <2>5. DecoderOK(e, K)
    <3>1. 0 \in 0 .. MAX_ERRORS /\ MAX_ERRORS # 0
      BY DecoderAssumption
    <3> QED
      BY <2>3, <2>4, <3>1 DEF DecoderOK
  <2>6. frames \in Seq(Frames(K))
    BY <2>1, <2>2
  <2> HIDE DEF frames, d
  <2>7. DecodeNext(s) = [decoder |-> e, frames |-> frames]
    BY <1>2 DEF DecodeNext, e, a, frames, frame, d
  <2> QED
    BY <2>5, <2>6, <2>7 DEF Decodes
<1> QED
  BY <1>1, <1>2

LEMMA FailedOK ==
    ASSUME NEW K, NEW d, DecoderOK(d, K), d.state # "Stopped", NEW error
    PROVE  DecoderOK(Failed(d, error), K)
<1> DEFINE d1 == [d EXCEPT !.error_count = @ + 1]
           n == IF error = "data" THEN 2 ELSE 1
           a == Advance(d1, n)
<1>1. /\ d \in [buffer : Seq(Wire(K)), state : {"Ready", "Recovering", "Stopped"},
                error_count : 0 .. MAX_ERRORS]
      /\ d.error_count # MAX_ERRORS /\ Len(d.buffer) <= MAX_BUFFER
      /\ MAX_ERRORS \in Nat
  BY DecoderAssumption DEF DecoderOK
<1>2. d.error_count + 1 \in 0 .. MAX_ERRORS
  BY <1>1
<1>3. /\ d1.buffer = d.buffer /\ d1.state = d.state /\ d1.error_count = d.error_count + 1
      /\ d1 \in [buffer : Seq(Wire(K)), state : {"Ready", "Recovering", "Stopped"},
                 error_count : 0 .. MAX_ERRORS]
  BY <1>1, <1>2
<1> HIDE DEF d1
<1>4. CASE d1.error_count >= MAX_ERRORS
  <2> DEFINE e == [d1 EXCEPT !.state = "Stopped"]
  <2>1. d1.error_count = MAX_ERRORS
    BY <1>1, <1>2, <1>3, <1>4
  <2>2. /\ e.buffer = d1.buffer /\ e.state = "Stopped" /\ e.error_count = d1.error_count
        /\ e \in [buffer : Seq(Wire(K)), state : {"Ready", "Recovering", "Stopped"},
                  error_count : 0 .. MAX_ERRORS]
    BY <1>3
  <2> HIDE DEF e
  <2>3. DecoderOK(e, K)
    BY <1>1, <1>3, <2>1, <2>2 DEF DecoderOK
  <2> QED
    BY <1>4, <2>3 DEF Failed, d1, e
<1>5. CASE ~ (d1.error_count >= MAX_ERRORS)
  <2> DEFINE e == [a EXCEPT !.state = "Recovering"]
             size == Len(d1.buffer)
  <2>1. d1.error_count # MAX_ERRORS
    BY <1>1, <1>2, <1>3, <1>5
  <2>2. DecoderOK(d1, K)
    BY <1>1, <1>3, <2>1 DEF DecoderOK
  <2>3. n \in {1, 2}
    OBVIOUS
  <2> HIDE DEF n
  <2>4. /\ a \in [buffer : Seq(Wire(K)), state : {d1.state}, error_count : {d1.error_count}]
        /\ Len(a.buffer) <= MAX_BUFFER
    BY <2>2, <2>3, AdvanceIs
  <2> HIDE DEF a
  <2>5. /\ e.buffer = a.buffer /\ e.state = "Recovering" /\ e.error_count = d1.error_count
        /\ e \in [buffer : Seq(Wire(K)), state : {"Recovering"}, error_count : 0 .. MAX_ERRORS]
    BY <1>3, <2>4
  <2> HIDE DEF e
  <2>6. DecoderOK(e, K)
    BY <2>1, <2>4, <2>5 DEF DecoderOK
  <2> QED
    BY <1>5, <2>6 DEF Failed, TryRecover, e, a, n, d1
<1> QED
  BY <1>4, <1>5

LEMMA DecodeEndOK ==
    ASSUME NEW K, NEW d, DecoderOK(d, K)
    PROVE  DecoderOK(DecodeEnd(d), K)
<1> DEFINE e == [d EXCEPT !.state = IF @ \in {"Stopped", "Recovering"} THEN @ ELSE "Ready"]
<1>1. CASE ~ Decoding(d) \/ ParseFrame(d.buffer) = "none"
  <2>1. /\ e.buffer = d.buffer /\ e.error_count = d.error_count
        /\ e.state = d.state
        /\ e \in [buffer : Seq(Wire(K)), state : {"Ready", "Recovering", "Stopped"},
                  error_count : 0 .. MAX_ERRORS]
    BY DEF DecoderOK
  <2> HIDE DEF e
  <2>2. DecoderOK(e, K)
    BY <2>1 DEF DecoderOK
  <2> QED
    BY <1>1, <2>2 DEF DecodeEnd, e
<1>2. CASE ~ (~ Decoding(d) \/ ParseFrame(d.buffer) = "none")
  <2>1. DecodeEnd(d) = Failed(d, ParseFrame(d.buffer)) /\ d.state # "Stopped"
    BY <1>2 DEF DecodeEnd, Decoding
  <2> QED
    BY <2>1, FailedOK
<1> QED
  BY <1>1, <1>2

DecodeUpto(m, d, n) ==
    m = [k \in 0 .. n |-> IF k = 0 THEN [decoder |-> d, frames |-> <<>>] ELSE DecodeNext(m[k - 1])]

LEMMA DecodeExists ==
    ASSUME NEW d, NEW n \in Nat
    PROVE  \E m : DecodeUpto(m, d, n)
<1> DEFINE G == {k \in 0 .. n : \E m : DecodeUpto(m, d, k)}
           z == [decoder |-> d, frames |-> <<>>]
<1>1. 0 \in G
  <2>1. DecodeUpto([k \in 0 .. 0 |-> z], d, 0)
    BY DEF DecodeUpto
  <2> QED
    BY <2>1
<1>2. ASSUME NEW k \in 1 .. n, k - 1 \in G PROVE k \in G
  <2>1. PICK m : DecodeUpto(m, d, k - 1)
    BY <1>2
  <2> DEFINE e == [i \in 0 .. k |-> IF i = k THEN DecodeNext(m[k - 1]) ELSE m[i]]
  <2> HIDE DEF z
  <2>2. \A i \in 0 .. k : e[i] = IF i = 0 THEN z ELSE DecodeNext(e[i - 1])
    BY <2>1 DEF DecodeUpto, z
  <2>3. DecodeUpto(e, d, k)
    BY <2>2 DEF DecodeUpto, z
  <2> QED
    BY <2>3
<1>3. \A k \in 0 .. n : k \in G
  <2> HIDE DEF G
  <2> QED
    BY <1>1, <1>2, UpTo
<1> QED
  BY <1>3

LEMMA DecodeIterOK ==
    ASSUME NEW K, NEW d, DecoderOK(d, K)
    PROVE  DecoderOK(DecodeIter(d).decoder, K) /\ DecodeIter(d).frames \in Seq(Frames(K))
<1> DEFINE n == Len(d.buffer)
           m == CHOOSE m : DecodeUpto(m, d, n)
           z == [decoder |-> d, frames |-> <<>>]
<1>1. n \in Nat
  BY DEF DecoderOK
<1>2. DecodeUpto(m, d, n)
  BY <1>1, DecodeExists
<1>3. DecodeIter(d) = [m[n] EXCEPT !.decoder = DecodeEnd(@)]
  BY Zenon DEF DecodeIter, DecodeUpto
<1> HIDE DEF m, n
<1> DEFINE G == {k \in 0 .. n : Decodes(m[k], K)}
<1>4. 0 \in G
  <2>1. m[0] = z
    BY <1>1, <1>2 DEF DecodeUpto
  <2>2. z.decoder = d /\ z \in [decoder : {d}, frames : Seq(Frames(K))]
    OBVIOUS
  <2> HIDE DEF z
  <2>3. Decodes(z, K)
    BY <2>2 DEF Decodes
  <2> QED
    BY <1>1, <2>1, <2>3
<1>5. ASSUME NEW k \in 1 .. n, k - 1 \in G PROVE k \in G
  <2>1. m[k] = DecodeNext(m[k - 1])
    BY <1>1, <1>2 DEF DecodeUpto
  <2> QED
    BY <1>5, <2>1, DecodeNextOK
<1>6. \A k \in 0 .. n : k \in G
  <2> HIDE DEF G
  <2> QED
    BY <1>1, <1>4, <1>5, UpTo
<1> DEFINE s == m[n]
<1>7. Decodes(s, K)
  BY <1>1, <1>6
<1> HIDE DEF s
<1>8. DecodeIter(d).decoder = DecodeEnd(s.decoder) /\ DecodeIter(d).frames = s.frames
  BY <1>3, <1>7 DEF Decodes, s
<1> QED
  BY <1>7, <1>8, DecodeEndOK DEF Decodes

-------------------------------------------------------------------------------
(* The response.                                                               *)

(* The pieces of a response: words (and the blank it may be padded with) when  *)
(* the upstream sends plain words.                                             *)
PlainKinds == {"word", "nl"}

KindsOf(s) == IF s.texts = {<<"word">>} THEN PlainKinds ELSE PieceKinds

ProcessUpto(m, c, frames, n) ==
    m = [k \in 0 .. n |-> IF k = 0 THEN c ELSE ProcessKiroEvent(m[k - 1], frames[k].event)]

LEMMA ProcessExists ==
    ASSUME NEW c, NEW frames, NEW n \in Nat
    PROVE  \E m : ProcessUpto(m, c, frames, n)
<1> DEFINE G == {k \in 0 .. n : \E m : ProcessUpto(m, c, frames, k)}
<1>1. 0 \in G
  <2>1. ProcessUpto([k \in 0 .. 0 |-> c], c, frames, 0)
    BY DEF ProcessUpto
  <2> QED
    BY <2>1
<1>2. ASSUME NEW k \in 1 .. n, k - 1 \in G PROVE k \in G
  <2>1. PICK m : ProcessUpto(m, c, frames, k - 1)
    BY <1>2
  <2> DEFINE e == [i \in 0 .. k |-> IF i = k THEN ProcessKiroEvent(m[k - 1], frames[k].event)
                                    ELSE m[i]]
  <2>2. \A i \in 0 .. k :
           e[i] = IF i = 0 THEN c ELSE ProcessKiroEvent(e[i - 1], frames[i].event)
    BY <2>1 DEF ProcessUpto
  <2>3. ProcessUpto(e, c, frames, k)
    BY <2>2 DEF ProcessUpto
  <2> QED
    BY <2>3
<1>3. \A k \in 0 .. n : k \in G
  <2> HIDE DEF G
  <2> QED
    BY <1>1, <1>2, UpTo
<1> QED
  BY <1>3

LEMMA FramesFull ==
    ASSUME NEW K, Full(ctx, K), NEW frames \in Seq(Frames(K))
    PROVE  Full(ProcessFrames(frames), K)
<1> DEFINE n == Len(frames)
           m == CHOOSE m : ProcessUpto(m, ctx, frames, n)
<1>1. n \in Nat
  OBVIOUS
<1>2. ProcessUpto(m, ctx, frames, n)
  BY <1>1, ProcessExists
<1>3. ProcessFrames(frames) = m[n]
  BY Zenon DEF ProcessFrames, ProcessUpto
<1> HIDE DEF m
<1>4. /\ m[0] = ctx
      /\ \A k \in 1 .. n : m[k] = ProcessKiroEvent(m[k - 1], frames[k].event)
  BY <1>1, <1>2 DEF ProcessUpto
<1> DEFINE G == {k \in 0 .. n : Full(m[k], K)}
<1>5. 0 \in G
  BY <1>1, <1>4
<1>6. ASSUME NEW k \in 1 .. n, k - 1 \in G PROVE k \in G
  <2>1. frames[k] \in Frames(K)
    OBVIOUS
  <2>2. EventOK(frames[k].event, K)
    BY <2>1, EventsOK DEF Frames
  <2>3. Full(ProcessKiroEvent(m[k - 1], frames[k].event), K)
    BY <1>6, <2>2, EventFull
  <2> QED
    BY <1>4, <2>3
<1>7. \A k \in 0 .. n : k \in G
  <2> HIDE DEF G
  <2> QED
    BY <1>1, <1>5, <1>6, UpTo
<1> QED
  BY <1>1, <1>3, <1>7

LEMMA NumberedIs ==
    ASSUME scenario \in Scenarios, sent.pieces \in Nat, NEW K, NEW t \in Seq(K)
    PROVE  Numbered(t) \in Texts(K)
<1>1. \A i \in 1 .. Len(t) : [k |-> t[i], n |-> sent.pieces + i] \in [k : K, n : Nat]
  OBVIOUS
<1>2. Numbered(t) = [i \in 1 .. Len(t) |-> [k |-> t[i], n |-> sent.pieces + i]]
  BY DEF Numbered
<1>3. Numbered(t) \in [1 .. Len(t) -> [k : K, n : Nat]] /\ Len(t) \in Nat
  BY <1>1, <1>2
<1> DEFINE f == Numbered(t)
           n == Len(t)
<1> HIDE DEF f, n
<1>4. f \in [1 .. n -> [k : K, n : Nat]] /\ n \in Nat
  BY <1>3 DEF f, n
<1> DEFINE R == [k : K, n : Nat]
<1>5. f \in [1 .. n -> R]
  BY <1>4
<1> HIDE DEF R
<1>6. f \in Seq(R)
  BY <1>4, <1>5
<1> QED
  BY <1>6 DEF Texts, f, R

LEMMA SentEvents ==
    ASSUME scenario \in Scenarios, sent.pieces \in Nat
    PROVE  NextEvents \subseteq Events(KindsOf(scenario))
<1> DEFINE K == KindsOf(scenario)
<1>1. ScenarioOK(scenario)
  BY ScenarioAssumption
<1>2. ASSUME NEW t \in scenario.texts PROVE t \in Seq(K)
  <2>1. t \in Seq(PieceKinds)
    BY <1>1 DEF ScenarioOK
  <2>2. \A i \in 1 .. Len(t) : t[i] \in Range(t) /\ t[i] \in PieceKinds
    BY <2>1 DEF Range
  <2>3. CASE scenario.texts = {<<"word">>}
    <3>1. K = PlainKinds /\ t = <<"word">>
      BY <2>3 DEF KindsOf
    <3> HIDE DEF K
    <3> QED
      BY <3>1 DEF PlainKinds
  <2>4. CASE scenario.texts # {<<"word">>}
    <3>1. \A i \in 1 .. Len(t) : t[i] \in K
      BY <2>2, <2>4 DEF KindsOf
    <3> HIDE DEF K
    <3> QED
      BY <2>1, <3>1
  <2> QED
    BY <2>3, <2>4
<1>3. TextEvents \subseteq [type : {"text"}, text : Texts(K)]
  <2> HIDE DEF K
  <2>1. \A t \in scenario.texts : Numbered(t) \in Texts(K)
    BY <1>2, NumberedIs
  <2> QED
    BY <2>1 DEF TextEvents
<1>4. Numbered(<<"word">>) \in Texts(K)
  <2>1. "word" \in K
    BY DEF KindsOf, PieceKinds, PlainKinds
  <2> DEFINE w == <<"word">>
  <2>2. w \in Seq(K)
    BY <2>1
  <2> HIDE DEF w, K
  <2>3. Numbered(w) \in Texts(K)
    BY <2>2, NumberedIs
  <2> QED
    BY <2>3 DEF w
<1> HIDE DEF K
<1>5. ASSUME NEW e \in NextEvents PROVE e \in Events(K)
  <2>1. CASE e \in TextEvents
    BY <1>3, <2>1 DEF Events
  <2>2. CASE "reasoning" \in scenario.events
             /\ e = [type |-> "reasoning", text |-> Numbered(<<"word">>)]
    <3>1. e \in [type : {"reasoning"}, text : Texts(K)]
      BY <1>4, <2>2
    <3> QED
      BY <3>1 DEF Events
  <2>3. CASE e \in ToolEvents
    <3>1. e \in [type : {"tool"}, id : ToolIds, valid : BOOLEAN, stop : BOOLEAN]
      BY <2>3 DEF ToolEvents
    <3> QED
      BY <3>1 DEF Events
  <2>4. CASE \E t \in scenario.events \ {"reasoning", "tool"} : e = [type |-> t]
    <3>1. PICK t \in scenario.events \ {"reasoning", "tool"} : e = [type |-> t]
      BY <2>4
    <3>2. t \in {"redacted", "window_full", "too_long"}
      BY <1>1, <3>1 DEF ScenarioOK
    <3> QED
      BY <3>1, <3>2 DEF Events
  <2> QED
    BY <2>1, <2>2, <2>3, <2>4 DEF NextEvents
<1> QED
  BY <1>5 DEF K

LEMMA SentFrames ==
    ASSUME scenario \in Scenarios, sent.pieces \in Nat, NEW frame \in NextFrames
    PROVE  /\ frame \in Frames(KindsOf(scenario))
           /\ Cells(frame) \in Seq(Wire(KindsOf(scenario)))
           /\ <<Cells(frame)[1]>> \in Seq(Wire(KindsOf(scenario)))
           /\ <<Cells(frame)[2]>> \in Seq(Wire(KindsOf(scenario)))
           /\ Len(EventText(frame.event)) \in Nat /\ WordsIn(EventText(frame.event)) \subseteq Nat
<1> DEFINE K == KindsOf(scenario)
<1>1. NextEvents \subseteq Events(K)
  BY SentEvents
<1>2. scenario.corrupt \subseteq {"crc", "prelude", "range", "long"}
  BY ScenarioAssumption DEF ScenarioOK
<1> HIDE DEF K
<1>3. \E k \in {"ok"} \cup scenario.corrupt, e \in NextEvents : frame = [kind |-> k, event |-> e]
  BY DEF NextFrames
<1>4. frame \in Frames(K)
  BY <1>1, <1>2, <1>3 DEF Frames
<1> DEFINE a == [frame |-> frame, half |-> 1]
           b == [frame |-> frame, half |-> 2]
<1>5. a \in Wire(K) /\ b \in Wire(K)
  BY <1>4 DEF Wire
<1>6. Cells(frame) = <<a, b>>
  BY DEF Cells
<1> HIDE DEF a, b
<1>7. <<a, b>> \in Seq(Wire(K)) /\ <<a>> \in Seq(Wire(K)) /\ <<b>> \in Seq(Wire(K))
  BY <1>5
<1>8. Cells(frame)[1] = a /\ Cells(frame)[2] = b
  BY <1>6
<1>9. /\ Len(EventText(frame.event)) \in Nat
      /\ WordsIn(EventText(frame.event)) \subseteq Nat
  <2>1. EventOK(frame.event, K)
    BY <1>4, EventsOK DEF Frames
  <2>2. frame.event.type \in {"text", "reasoning"} => frame.event.text \in Texts(K)
    BY <2>1 DEF EventOK
  <2>3. \A text \in Texts(K) : Len(text) \in Nat /\ WordsIn(text) \subseteq Nat
    <3> SUFFICES ASSUME NEW text \in Texts(K)
                 PROVE  Len(text) \in Nat /\ WordsIn(text) \subseteq Nat
      OBVIOUS
    <3>1. \A i \in DOMAIN text : text[i].n \in Nat
      BY TextLen
    <3> QED
      BY <3>1, TextLen DEF WordsIn
  <2>4. Len(<<>>) = 0 /\ WordsIn(<<>>) = {}
    BY DEF WordsIn
  <2> QED
    BY <2>2, <2>3, <2>4 DEF EventText
<1> QED
  BY <1>4, <1>6, <1>7, <1>8, <1>9 DEF K

-------------------------------------------------------------------------------
(* The inductive invariant.  While the stream is open (or the client left it), *)
(* the client's reading of what was emitted is exactly the manager's blocks;   *)
(* when it has finished, the message is complete (both unless a redacted event *)
(* came inside a tagged block), and a call that was cut short or is not JSON   *)
(* has made it end in an error.                                                *)

Sents(K) ==
    [pieces : Nat, frames : Nat, half : Seq(Wire(K)), corrupt : Nat, words : SUBSET Nat]

SentOK(K) == sent \in Sents(K)

Finished ==
    /\ Clean(ctx) => ReadAll(ctx.out).phase = "stopped"
    /\ DOMAIN ctx.tools # {} \/ ctx.spoilt # {} =>
          status = "error" /\ \E i \in 1 .. Len(ctx.out) : ctx.out[i].ev = "error"

StreamInv ==
    LET K == KindsOf(scenario)
    IN /\ scenario \in Scenarios
       /\ stream \in {"open", "finished", "gone"}
       /\ status \in {"none", "success", "error"}
       /\ SentOK(K)
       /\ DecoderOK(decoder, K)
       /\ Settled(ctx)
       /\ stream # "finished" => Full(ctx, K)
       /\ stream = "finished" => Finished

LEMMA FullSettled ==
    ASSUME NEW c, NEW K, Full(c, K)
    PROVE  Settled(c)
BY ToldSettled DEF Full, Told

LEMMA InitInv ==
    ASSUME Init
    PROVE  StreamInv
<1> DEFINE K == KindsOf(scenario)
<1>1. SentOK(K)
  BY DEF Init, SentOK, Sents
<1>2. DecoderOK(decoder, K)
  BY NewDecoderOK DEF Init
<1>3. Full(ctx, K)
  BY InitialFull DEF Init
<1>4. Settled(ctx)
  BY <1>3, FullSettled
<1> HIDE DEF K
<1> QED
  BY <1>1, <1>2, <1>3, <1>4 DEF Init, StreamInv, K

LEMMA ReceiveKeeps ==
    ASSUME StreamInv, NEW data \in Seq(Wire(KindsOf(scenario))), Receive(data),
           SentOK(KindsOf(scenario))'
    PROVE  StreamInv'
<1> DEFINE K == KindsOf(scenario)
           decoded == DecodeIter(Feed(decoder, data))
<1>1. /\ stream = "open" /\ Full(ctx, K) /\ DecoderOK(decoder, K)
      /\ scenario' = scenario /\ stream' = stream /\ status' = status
      /\ decoder' = decoded.decoder /\ ctx' = ProcessFrames(decoded.frames)
  BY DEF Receive, StreamInv
<1>2. K' = K
  BY <1>1 DEF KindsOf
<1> HIDE DEF K
<1>3. DecoderOK(decoded.decoder, K) /\ decoded.frames \in Seq(Frames(K))
  <2>1. DecoderOK(Feed(decoder, data), K)
    BY <1>1, FeedOK DEF K
  <2> QED
    BY <2>1, DecodeIterOK
<1> HIDE DEF decoded
<1>4. Full(ProcessFrames(decoded.frames), K)
  BY <1>1, <1>3, FramesFull
<1>5. Full(ctx', K) /\ DecoderOK(decoder', K)
  BY <1>1, <1>3, <1>4
<1>6. Settled(ctx')
  BY <1>5, FullSettled
<1>7. SentOK(K)'
  BY DEF K
<1>8. /\ Full(ctx, K)' /\ DecoderOK(decoder, K)' /\ Settled(ctx)'
  BY <1>2, <1>5, <1>6
<1> QED
  BY <1>1, <1>7, <1>8 DEF StreamInv, K

(* The end, however the body ended.                                            *)
LEMMA FinishKeeps ==
    ASSUME StreamInv, stream = "open", ctx' = GenerateFinalEvents(ctx),
           status' \in {"none", "success", "error"}, ctx'.tool_json_error => status' = "error",
           stream' = "finished", UNCHANGED <<scenario, sent, decoder>>
    PROVE  StreamInv'
<1> DEFINE K == KindsOf(scenario)
           d == GenerateFinalEvents(ctx)
<1>1. Full(ctx, K) /\ "nl" \in K
  BY DEF StreamInv, KindsOf, PieceKinds, PlainKinds
<1>2. K' = K
  BY DEF KindsOf
<1> HIDE DEF K
<1>3. /\ Settled(d) /\ (Clean(d) => ReadAll(d.out).phase = "stopped")
      /\ DOMAIN d.tools # {} => d.tool_json_error
      /\ d.tool_json_error => \E i \in 1 .. Len(d.out) : d.out[i].ev = "error"
  BY <1>1, GeneratedFinal
<1>4. ctx' = d
  OBVIOUS
<1> HIDE DEF d
<1>5. Finished'
  BY <1>3, <1>4 DEF Finished, Settled, Settles
<1>6. Settled(ctx)'
  BY <1>3, <1>4
<1>7. SentOK(K)' /\ DecoderOK(decoder, K)'
  <2>1. SentOK(K) /\ DecoderOK(decoder, K)
    BY DEF StreamInv, K
  <2> QED
    BY <1>2, <2>1 DEF SentOK, Sents
<1> QED
  BY <1>5, <1>6, <1>7 DEF StreamInv, K

LEMMA SentIs ==
    ASSUME NEW K, SentOK(K), NEW frame, Len(EventText(frame.event)) \in Nat,
           WordsIn(EventText(frame.event)) \subseteq Nat,
           NEW half \in Seq(Wire(K)), sent' = SentFrame(frame, half)
    PROVE  SentFrame(frame, half) \in Sents(K)
<1>1. /\ sent.pieces + Len(EventText(frame.event)) \in Nat /\ sent.frames + 1 \in Nat
      /\ sent.corrupt + (IF frame.kind = "ok" THEN 0 ELSE 1) \in Nat
      /\ sent.words \cup WordsIn(EventText(frame.event)) \subseteq Nat
  BY DEF SentOK, Sents
<1> QED
  BY <1>1 DEF SentFrame, Sents

LEMMA StepInv ==
    ASSUME StreamInv, [Next]_vars
    PROVE  StreamInv'
<1> DEFINE K == KindsOf(scenario)
<1>1. /\ scenario \in Scenarios /\ sent.pieces \in Nat /\ SentOK(K)
      /\ sent.half \in Seq(Wire(K))
  BY DEF StreamInv, SentOK, Sents
<1>2. scenario' = scenario => K' = K
  BY DEF KindsOf
<1>3. CASE ReceiveFrame
  <2>1. PICK frame \in NextFrames :
           Receive(sent.half \o Cells(frame)) /\ sent' = SentFrame(frame, <<>>)
    BY <1>3 DEF ReceiveFrame
  <2>2. Cells(frame) \in Seq(Wire(K)) /\ Len(EventText(frame.event)) \in Nat
        /\ WordsIn(EventText(frame.event)) \subseteq Nat
    BY <1>1, SentFrames
  <2> DEFINE data == sent.half \o Cells(frame)
             none == <<>>
  <2>3. none \in Seq(Wire(K))
    OBVIOUS
  <2> HIDE DEF K, none
  <2>4. data \in Seq(Wire(K))
    BY <1>1, <2>2, ConcatProperties
  <2>5. sent' = SentFrame(frame, none)
    BY <2>1 DEF none
  <2>6. sent' \in Sents(K)
    BY <1>1, <2>2, <2>3, <2>5, SentIs
  <2>7. Receive(data) /\ scenario' = scenario
    BY <2>1 DEF Receive
  <2>8. SentOK(K)'
    BY <1>2, <2>6, <2>7 DEF SentOK, Sents
  <2> HIDE DEF data
  <2> QED
    BY <2>4, <2>7, <2>8, ReceiveKeeps DEF K
<1>4. CASE ReceivePart
  <2>1. PICK frame \in NextFrames :
           /\ Receive(sent.half \o <<Cells(frame)[1]>>)
           /\ sent' = SentFrame(frame, <<Cells(frame)[2]>>)
    BY <1>4 DEF ReceivePart
  <2> DEFINE first == <<Cells(frame)[1]>>
             second == <<Cells(frame)[2]>>
  <2>2. first \in Seq(Wire(K)) /\ second \in Seq(Wire(K)) /\ Len(EventText(frame.event)) \in Nat
        /\ WordsIn(EventText(frame.event)) \subseteq Nat
    BY <1>1, SentFrames
  <2> DEFINE data == sent.half \o first
  <2>3. Receive(data) /\ sent' = SentFrame(frame, second) /\ scenario' = scenario
    BY <2>1 DEF Receive
  <2> HIDE DEF K, first, second
  <2>4. data \in Seq(Wire(K))
    BY <1>1, <2>2, ConcatProperties
  <2>5. sent' \in Sents(K)
    BY <1>1, <2>2, <2>3, SentIs
  <2>6. SentOK(K)'
    BY <1>2, <2>3, <2>5 DEF SentOK, Sents
  <2> HIDE DEF data
  <2> QED
    BY <2>3, <2>4, <2>6, ReceiveKeeps DEF K
<1>5. CASE ReceiveRest
  <2>1. Receive(sent.half) /\ sent' = [sent EXCEPT !.half = <<>>] /\ scenario' = scenario
    BY <1>5 DEF ReceiveRest, Receive
  <2> HIDE DEF K
  <2>2. sent' \in Sents(K)
    <3> DEFINE none == <<>>
    <3>1. none \in Seq(Wire(K))
      OBVIOUS
    <3>2. sent' = [sent EXCEPT !.half = none]
      BY <2>1
    <3> HIDE DEF none
    <3> QED
      BY <1>1, <3>1, <3>2 DEF SentOK, Sents
  <2>3. SentOK(K)'
    BY <1>2, <2>1, <2>2 DEF SentOK, Sents
  <2> QED
    BY <1>1, <2>1, <2>3, ReceiveKeeps DEF K
<1>6. CASE BodyEnds
  <2>1. /\ stream = "open" /\ ctx' = GenerateFinalEvents(ctx)
        /\ status' = (IF ctx'.tool_json_error THEN "error" ELSE "success")
        /\ stream' = "finished" /\ UNCHANGED <<scenario, sent, decoder>>
    BY <1>6 DEF BodyEnds
  <2>2. /\ status' \in {"none", "success", "error"}
        /\ ctx'.tool_json_error => status' = "error"
    BY <2>1
  <2> QED
    BY <2>1, <2>2, FinishKeeps
<1>7. CASE BodyFails
  BY <1>7, FinishKeeps DEF BodyFails
<1>8. CASE ClientLeaves
  <2>1. /\ stream = "open" /\ stream' = "gone" /\ scenario' = scenario /\ sent' = sent
        /\ decoder' = decoder /\ ctx' = ctx /\ status' = status
    BY <1>8 DEF ClientLeaves
  <2>2. /\ SentOK(K) /\ DecoderOK(decoder, K) /\ Settled(ctx) /\ Full(ctx, K)
    BY <2>1 DEF StreamInv
  <2> HIDE DEF K
  <2>3. /\ SentOK(K)' /\ DecoderOK(decoder, K)' /\ Settled(ctx)' /\ Full(ctx, K)'
    BY <1>2, <2>1, <2>2 DEF SentOK, Sents
  <2> QED
    BY <2>1, <2>3 DEF StreamInv, K
<1>9. CASE UNCHANGED vars
  <2>1. /\ stream' = stream /\ scenario' = scenario /\ sent' = sent
        /\ decoder' = decoder /\ ctx' = ctx /\ status' = status
    BY <1>9 DEF vars
  <2>2. /\ SentOK(K) /\ DecoderOK(decoder, K) /\ Settled(ctx)
        /\ stream # "finished" => Full(ctx, K)
        /\ stream = "finished" => Finished
    BY DEF StreamInv
  <2> HIDE DEF K
  <2>3. /\ SentOK(K)' /\ DecoderOK(decoder, K)' /\ Settled(ctx)'
        /\ stream' # "finished" => Full(ctx, K)'
        /\ stream' = "finished" => Finished'
    BY <1>2, <2>1, <2>2 DEF SentOK, Sents, Finished
  <2> QED
    BY <2>1, <2>3 DEF StreamInv, K
<1> QED
  BY <1>3, <1>4, <1>5, <1>6, <1>7, <1>8, <1>9 DEF Next

LEMMA AlwaysInv == Spec => []StreamInv
<1>1. Init => StreamInv
  BY InitInv
<1>2. StreamInv /\ [Next]_vars => StreamInv'
  BY StepInv
<1> QED
  BY <1>1, <1>2, PTL DEF Spec

-------------------------------------------------------------------------------
(* The decoder stops for good at MAX_ERRORS errors in a row and its buffer is  *)
(* bounded, the repeat guard counts no further than its threshold, and every   *)
(* index the context keeps names a block of its own kind.                      *)
THEOREM StreamIsTyped == Spec => []TypeOKStream
<1>1. ASSUME StreamInv PROVE TypeOKStream
  <2>1. /\ decoder.state \in {"Ready", "Recovering", "Stopped"}
        /\ decoder.error_count \in 0 .. MAX_ERRORS
        /\ decoder.error_count = MAX_ERRORS <=> decoder.state = "Stopped"
        /\ Len(decoder.buffer) <= MAX_BUFFER
    BY <1>1 DEF StreamInv, DecoderOK
  <2>2. /\ Indexed(ctx) /\ ctx.repeat_run \in 0 .. REPEAT_GUARD_TRIP_THRESHOLD
        /\ stream \in {"open", "finished", "gone"}
        /\ status \in {"none", "success", "error"}
    BY <1>1 DEF StreamInv, Settled, GuardOK
  <2> QED
    BY <2>1, <2>2 DEF TypeOKStream, Indexed, Indexes
<1> QED
  BY <1>1, AlwaysInv, PTL

(* Wherever the upstream's chunks are cut, whatever frames are corrupt and     *)
(* however the body ends, the client reads a message: it is never confused,    *)
(* and it has the whole message when the stream has finished; unless a         *)
(* redacted event came inside a block that a <thinking> tag opened.            *)
THEOREM ClientIsTold == Spec => []ClientReadsMessage
<1>1. ASSUME StreamInv PROVE ClientReadsMessage
  <2> DEFINE m == ReadAll(Delivered)
  <2>1. CASE stream = "finished"
    <3>1. (Clean(ctx) => ReadAll(ctx.out).phase = "stopped") /\ Delivered = ctx.out
      BY <1>1, <2>1 DEF StreamInv, Finished, Delivered
    <3> QED
      BY <3>1 DEF ClientReadsMessage, Clean
  <2>2. CASE stream # "finished"
    <3>1. Clean(ctx) => ReadAll(ctx.out).phase = "content"
      BY <1>1, <2>2 DEF StreamInv, Full, Core, Managed
    <3>2. ReadAll(<<>>).phase = "none"
      BY ReadNothing DEF Client0
    <3>3. m = ReadAll(ctx.out) \/ m = ReadAll(<<>>)
      BY DEF Delivered
    <3> HIDE DEF m
    <3>4. Clean(ctx) => m.phase # "broken"
      BY <3>1, <3>2, <3>3
    <3> QED
      BY <2>2, <3>4 DEF ClientReadsMessage, Clean, m
  <2> QED
    BY <2>1, <2>2
<1> QED
  BY <1>1, AlwaysInv, PTL

(* A structured call reaches the client exactly when its last fragment came    *)
(* and the whole was valid JSON, once whatever is repeated; and a call that    *)
(* was cut short or is not JSON makes the stream end in an error event and the *)
(* request count as one.                                                       *)
THEOREM CallsAreWhole == Spec => []OnlyWholeToolCalls
<1>1. ASSUME StreamInv PROVE OnlyWholeToolCalls
  <2> DEFINE calls == {i \in DOMAIN ctx.out : ctx.out[i].ev = "input" /\ ctx.out[i].data \in ToolIds}
             f == [i \in calls |-> ctx.out[i].data]
             n == Len(ctx.out)
  <2>1. /\ Called(ctx) /\ DOMAIN ctx.tool_block_indices \cap ToolIds = ctx.done
        /\ n \in Nat /\ DOMAIN ctx.out = 1 .. n
    BY <1>1, LenIsNat DEF StreamInv, Settled, Settles
  <2>2. /\ \A i \in calls : ctx.out[i].data \in ctx.done
        /\ \A id \in ctx.done : \E i \in calls : ctx.out[i].data = id
        /\ \A i, j \in calls : ctx.out[i].data = ctx.out[j].data => i = j
    BY <2>1 DEF Called
  <2>3. calls \subseteq 1 .. n
    BY <2>1
  <2> HIDE DEF calls
  <2>4. IsFiniteSet(calls)
    <3>1. IsFiniteSet(1 .. n)
      BY <2>1, FS_Interval
    <3> QED
      BY <2>3, <3>1, FS_Subset
  <2>5. {ctx.out[i].data : i \in calls} = ctx.done
    BY <2>2
  <2>6. ExistsBijection(calls, ctx.done)
    <3>1. f \in [calls -> ctx.done] /\ \A i \in calls : f[i] = ctx.out[i].data
      BY <2>2
    <3> HIDE DEF f
    <3>2. \A i, j \in calls : f[i] = f[j] => i = j
      BY <2>2, <3>1
    <3>3. \A id \in ctx.done : \E i \in calls : f[i] = id
      BY <2>2, <3>1
    <3>4. f \in Injection(calls, ctx.done)
      BY <3>1, <3>2 DEF Injection, IsInjective
    <3>5. f \in Surjection(calls, ctx.done)
      BY <3>1, <3>3 DEF Surjection
    <3> QED
      BY <3>4, <3>5 DEF Bijection, ExistsBijection
  <2>7. Cardinality(calls) = Cardinality(ctx.done)
    BY <2>4, <2>6, FS_Bijection
  <2>8. stream = "finished" /\ (DOMAIN ctx.tools \cup ctx.spoilt # {}) =>
           status = "error" /\ \E i \in DOMAIN ctx.out : ctx.out[i].ev = "error"
    BY <1>1, <2>1 DEF StreamInv, Finished
  <2> QED
    BY <2>5, <2>7, <2>8 DEF OnlyWholeToolCalls, calls
<1> QED
  BY <1>1, AlwaysInv, PTL

=================================================================================
