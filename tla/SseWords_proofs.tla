--------------------------- MODULE SseWords_proofs ---------------------------
(* Proofs about the words of a response: none is swallowed or repeated, and    *)
(* none is overtaken but by a reasoning event inside a tagged block.           *)
EXTENDS SseStream_proofs

-------------------------------------------------------------------------------
(* The words of a text and of its parts.                                       *)

LEMMA WordsAt ==
    ASSUME NEW K, NEW t \in Texts(K)
    PROVE  /\ WordsIn(t) \subseteq Nat
           /\ \A i \in 1 .. Len(t) : t[i].k = "word" => t[i].n \in WordsIn(t)
           /\ \A n \in WordsIn(t) : \E i \in 1 .. Len(t) : t[i].k = "word" /\ t[i].n = n
           /\ Rising(t) <=> \A i, j \in 1 .. Len(t) :
                  i < j /\ t[i].k = "word" /\ t[j].k = "word" => t[i].n < t[j].n
BY TextLen DEF WordsIn, Rising

LEMMA NoWords == WordsIn(<<>>) = {} /\ Rising(<<>>)
BY DEF WordsIn, Rising

LEMMA BlankIs ==
    ASSUME NEW t, IsBlank(t)
    PROVE  WordsIn(t) = {} /\ Rising(t)
BY DEF IsBlank, WordsIn, Rising

(* A text is what comes before a position, and what is from it on.             *)
LEMMA SplitWords ==
    ASSUME NEW K, NEW t \in Texts(K), NEW i \in 0 .. Len(t), Rising(t)
    PROVE  /\ WordsIn(Upto(t, i)) \cup WordsIn(From(t, i + 1)) = WordsIn(t)
           /\ Rising(Upto(t, i)) /\ Rising(From(t, i + 1))
           /\ Before(WordsIn(Upto(t, i)), WordsIn(From(t, i + 1)))
<1> DEFINE a == Upto(t, i)
           b == From(t, i + 1)
<1>1. Len(t) \in Nat /\ i \in Nat
  BY TextLen
<1>2. /\ a \in Texts(K) /\ Len(a) = i
      /\ \A k \in 1 .. i : a[k] = t[k]
  BY <1>1, UptoIs
<1>3. /\ b \in Texts(K) /\ Len(b) = Len(t) - i
      /\ \A k \in 1 .. Len(t) - i : b[k] = t[i + k]
  <2>1. /\ b \in Texts(K)
        /\ Len(b) = IF i + 1 <= Len(t) THEN Len(t) - (i + 1) + 1 ELSE 0
        /\ \A k \in 1 .. Len(t) - (i + 1) + 1 : b[k] = t[(i + 1) + k - 1]
    BY <1>1, PartIs DEF From
  <2> QED
    BY <1>1, <2>1
<1> HIDE DEF a, b
<1>4. WordsIn(a) \subseteq WordsIn(t)
  BY <1>1, <1>2, WordsAt
<1>5. WordsIn(b) \subseteq WordsIn(t)
  <2> SUFFICES ASSUME NEW n \in WordsIn(b) PROVE n \in WordsIn(t)
    OBVIOUS
  <2>1. PICK k \in 1 .. Len(b) : b[k].k = "word" /\ b[k].n = n
    BY <1>3, WordsAt
  <2>2. i + k \in 1 .. Len(t) /\ t[i + k].k = "word" /\ t[i + k].n = n
    BY <1>1, <1>3, <2>1
  <2> QED
    BY <2>2, WordsAt
<1>6. WordsIn(t) \subseteq WordsIn(a) \cup WordsIn(b)
  <2> SUFFICES ASSUME NEW n \in WordsIn(t) PROVE n \in WordsIn(a) \cup WordsIn(b)
    OBVIOUS
  <2>1. PICK k \in 1 .. Len(t) : t[k].k = "word" /\ t[k].n = n
    BY WordsAt
  <2>2. CASE k <= i
    BY <1>1, <1>2, <2>1, <2>2, WordsAt
  <2>3. CASE k > i
    <3>1. k - i \in 1 .. Len(b) /\ b[k - i] = t[k]
      <4>1. k - i \in 1 .. Len(t) - i /\ i + (k - i) = k
        BY <1>1, <2>1, <2>3
      <4> QED
        BY <1>3, <4>1
    <3> QED
      BY <1>3, <2>1, <3>1, WordsAt
  <2> QED
    BY <1>1, <2>2, <2>3
<1>7. Rising(a)
  <2> SUFFICES ASSUME NEW j \in 1 .. Len(a), NEW k \in 1 .. Len(a), j < k,
                      a[j].k = "word", a[k].k = "word"
               PROVE  a[j].n < a[k].n
    BY <1>2, WordsAt
  <2>1. /\ j \in 1 .. Len(t) /\ k \in 1 .. Len(t) /\ a[j] = t[j] /\ a[k] = t[k]
    BY <1>1, <1>2
  <2> QED
    BY <2>1, WordsAt
<1>8. Rising(b)
  <2> SUFFICES ASSUME NEW j \in 1 .. Len(b), NEW k \in 1 .. Len(b), j < k,
                      b[j].k = "word", b[k].k = "word"
               PROVE  b[j].n < b[k].n
    BY <1>3, WordsAt
  <2>1. /\ i + j \in 1 .. Len(t) /\ i + k \in 1 .. Len(t) /\ i + j < i + k
        /\ t[i + j] = b[j] /\ t[i + k] = b[k]
    BY <1>1, <1>3
  <2> QED
    BY <2>1, WordsAt
<1>9. Before(WordsIn(a), WordsIn(b))
  <2> SUFFICES ASSUME NEW m \in WordsIn(a), NEW n \in WordsIn(b) PROVE m < n
    BY DEF Before
  <2>1. PICK j \in 1 .. i : t[j].k = "word" /\ t[j].n = m
    BY <1>2, WordsAt
  <2>2. PICK k \in 1 .. Len(b) : b[k].k = "word" /\ b[k].n = n
    BY <1>3, WordsAt
  <2>3. /\ i + k \in 1 .. Len(t) /\ t[i + k] = b[k] /\ j \in 1 .. Len(t) /\ j < i + k
    BY <1>1, <1>3
  <2> QED
    BY <2>1, <2>2, <2>3, WordsAt
<1> QED
  BY <1>4, <1>5, <1>6, <1>7, <1>8, <1>9 DEF a, b

(* A text after another.                                                       *)
LEMMA JoinedWords ==
    ASSUME NEW K, NEW t \in Texts(K), NEW u \in Texts(K)
    PROVE  /\ WordsIn(t \o u) = WordsIn(t) \cup WordsIn(u)
           /\ Rising(t) /\ Rising(u) /\ Before(WordsIn(t), WordsIn(u)) => Rising(t \o u)
<1> DEFINE b == t \o u
           l == Len(t)
<1>1. l \in Nat /\ Len(u) \in Nat
  BY TextLen
<1>2. b \in Texts(K) /\ Len(b) = l + Len(u)
  BY JoinedIs
<1>3. /\ \A i \in 1 .. l : b[i] = t[i]
      /\ \A i \in l + 1 .. l + Len(u) : b[i] = u[i - l]
  BY <1>1, ConcatProperties DEF Texts
<1> HIDE DEF b, l
<1>4. \A i \in 1 .. Len(u) : l + i \in l + 1 .. l + Len(u) /\ b[l + i] = u[i]
  <2> TAKE i \in 1 .. Len(u)
  <2>1. l + i \in l + 1 .. l + Len(u) /\ (l + i) - l = i
    BY <1>1
  <2> QED
    BY <1>3, <2>1
<1>5. WordsIn(b) \subseteq WordsIn(t) \cup WordsIn(u)
  <2> SUFFICES ASSUME NEW n \in WordsIn(b) PROVE n \in WordsIn(t) \cup WordsIn(u)
    OBVIOUS
  <2>1. PICK i \in 1 .. Len(b) : b[i].k = "word" /\ b[i].n = n
    BY <1>2, WordsAt
  <2>2. CASE i <= l
    <3>1. i \in 1 .. Len(t) /\ b[i] = t[i]
      BY <1>1, <1>3, <2>2 DEF l
    <3> QED
      BY <2>1, <3>1, WordsAt
  <2>3. CASE i > l
    <3>1. i - l \in 1 .. Len(u) /\ b[i] = u[i - l]
      BY <1>1, <1>2, <1>3, <2>1, <2>3
    <3> QED
      BY <2>1, <3>1, WordsAt
  <2> QED
    BY <1>1, <2>2, <2>3
<1>6. WordsIn(t) \subseteq WordsIn(b)
  <2> SUFFICES ASSUME NEW n \in WordsIn(t) PROVE n \in WordsIn(b)
    OBVIOUS
  <2>1. PICK i \in 1 .. l : t[i].k = "word" /\ t[i].n = n
    BY WordsAt DEF l
  <2>2. i \in 1 .. Len(b) /\ b[i] = t[i]
    BY <1>1, <1>2, <1>3
  <2> QED
    BY <1>2, <2>1, <2>2, WordsAt
<1>7. WordsIn(u) \subseteq WordsIn(b)
  <2> SUFFICES ASSUME NEW n \in WordsIn(u) PROVE n \in WordsIn(b)
    OBVIOUS
  <2>1. PICK i \in 1 .. Len(u) : u[i].k = "word" /\ u[i].n = n
    BY WordsAt
  <2>2. l + i \in 1 .. Len(b) /\ b[l + i] = u[i]
    BY <1>1, <1>2, <1>4
  <2> QED
    BY <1>2, <2>1, <2>2, WordsAt
<1>8. ASSUME Rising(t), Rising(u), Before(WordsIn(t), WordsIn(u)) PROVE Rising(b)
  <2> SUFFICES ASSUME NEW i \in 1 .. Len(b), NEW j \in 1 .. Len(b), i < j,
                      b[i].k = "word", b[j].k = "word"
               PROVE  b[i].n < b[j].n
    BY <1>2, WordsAt
  <2>1. CASE j <= l
    <3>1. i \in 1 .. Len(t) /\ j \in 1 .. Len(t) /\ b[i] = t[i] /\ b[j] = t[j]
      BY <1>1, <1>3, <2>1 DEF l
    <3> QED
      BY <1>8, <3>1, WordsAt
  <2>2. CASE i > l
    <3>1. /\ i - l \in 1 .. Len(u) /\ b[i] = u[i - l] /\ i - l < j - l
          /\ j - l \in 1 .. Len(u) /\ b[j] = u[j - l]
      BY <1>1, <1>2, <1>3, <2>2
    <3> QED
      BY <1>8, <3>1, WordsAt
  <2>3. CASE i <= l /\ j > l
    <3>1. i \in 1 .. Len(t) /\ b[i] = t[i] /\ j - l \in 1 .. Len(u) /\ b[j] = u[j - l]
      BY <1>1, <1>2, <1>3, <2>3 DEF l
    <3>2. b[i].n \in WordsIn(t) /\ b[j].n \in WordsIn(u)
      BY <3>1, WordsAt
    <3> QED
      BY <1>8, <3>2 DEF Before
  <2> QED
    BY <1>1, <1>2, <2>1, <2>2, <2>3
<1> QED
  BY <1>5, <1>6, <1>7, <1>8 DEF b

-------------------------------------------------------------------------------
(* The words of the events.                                                    *)

Written(c) == SentWords(c.out, "text")

Thought(c) == SentWords(c.out, "thinking")

LEMMA DeltasIn ==
    ASSUME NEW out, IsSeq(out), NEW kind
    PROVE  /\ Len(out) \in Nat
           /\ Deltas(out, kind) = {i \in 1 .. Len(out) : out[i].ev = kind}
           /\ \A n : n \in SentWords(out, kind) <=>
                        \E i \in 1 .. Len(out) : out[i].ev = kind /\ n \in WordsIn(out[i].data)
BY LenIsNat DEF Deltas, SentWords

(* Events that carry no text.                                                  *)
LEMMA OtherEvents ==
    ASSUME NEW out, NEW more, NEW kinds, Adds(out, more, kinds), NEW kind, kind \notin kinds
    PROVE  /\ SentWords(more, kind) = SentWords(out, kind)
           /\ SentInOrder(out, kind) => SentInOrder(more, kind)
<1>1. /\ IsSeq(out) /\ IsSeq(more) /\ Len(out) \in Nat /\ Len(more) \in Nat
      /\ Len(out) <= Len(more)
  BY LenIsNat DEF Adds
<1>2. Deltas(more, kind) = Deltas(out, kind)
  <2> SUFFICES ASSUME NEW i PROVE i \in Deltas(more, kind) <=> i \in Deltas(out, kind)
    OBVIOUS
  <2>1. i \in 1 .. Len(more) => i \in 1 .. Len(out) \/ more[i].ev # kind
    BY <1>1 DEF Adds
  <2>2. i \in 1 .. Len(out) => i \in 1 .. Len(more) /\ more[i] = out[i]
    BY <1>1 DEF Adds
  <2> QED
    BY <1>1, <2>1, <2>2, DeltasIn
<1>3. \A i \in Deltas(out, kind) : more[i] = out[i]
  BY <1>1, DeltasIn DEF Adds
<1> QED
  BY <1>2, <1>3 DEF SentWords, SentInOrder

(* One delta more.                                                             *)
LEMMA OneDelta ==
    ASSUME NEW out, IsSeq(out), NEW e, NEW kind, e.ev = kind
    PROVE  LET more == Append(out, e)
           IN /\ IsSeq(more)
              /\ SentWords(more, kind) = SentWords(out, kind) \cup WordsIn(e.data)
              /\ SentInOrder(out, kind) /\ Rising(e.data)
                 /\ Before(SentWords(out, kind), WordsIn(e.data)) => SentInOrder(more, kind)
<1> DEFINE more == Append(out, e)
           l == Len(out)
<1>1. /\ Adds(out, more, {kind}) /\ Len(more) = l + 1 /\ more[l + 1] = e
      /\ l \in Nat
  BY AppendAdds, LenIsNat
<1>2. IsSeq(more) /\ \A i \in 1 .. l : more[i] = out[i]
  BY <1>1 DEF Adds
<1> HIDE DEF more
<1>3. Deltas(more, kind) = Deltas(out, kind) \cup {l + 1}
  <2> SUFFICES ASSUME NEW i PROVE i \in Deltas(more, kind) <=> i \in Deltas(out, kind) \/ i = l + 1
    OBVIOUS
  <2> QED
    BY <1>1, <1>2, DeltasIn
<1>4. \A i \in Deltas(out, kind) : i \in 1 .. l /\ more[i] = out[i]
  BY <1>2, DeltasIn
<1>5. SentWords(more, kind) = SentWords(out, kind) \cup WordsIn(e.data)
  BY <1>1, <1>3, <1>4 DEF SentWords
<1>6. ASSUME SentInOrder(out, kind), Rising(e.data), Before(SentWords(out, kind), WordsIn(e.data))
      PROVE  SentInOrder(more, kind)
  <2> SUFFICES ASSUME NEW i \in Deltas(more, kind)
               PROVE  /\ Rising(more[i].data)
                      /\ \A j \in Deltas(more, kind) :
                            i < j => Before(WordsIn(more[i].data), WordsIn(more[j].data))
    BY DEF SentInOrder
  <2>1. CASE i = l + 1
    <3>1. \A j \in Deltas(more, kind) : ~ (i < j)
      BY <1>1, <1>3, <1>4, <2>1
    <3> QED
      BY <1>1, <1>6, <2>1, <3>1
  <2>2. CASE i \in Deltas(out, kind)
    <3>1. more[i] = out[i] /\ Rising(out[i].data)
      BY <1>4, <1>6, <2>2 DEF SentInOrder
    <3>2. ASSUME NEW j \in Deltas(more, kind), i < j
          PROVE  Before(WordsIn(more[i].data), WordsIn(more[j].data))
      <4>1. CASE j \in Deltas(out, kind)
        BY <1>4, <1>6, <2>2, <3>1, <3>2, <4>1 DEF SentInOrder
      <4>2. CASE j = l + 1
        <5>1. WordsIn(out[i].data) \subseteq SentWords(out, kind)
          BY <2>2 DEF SentWords
        <5> QED
          BY <1>1, <1>6, <3>1, <4>2, <5>1 DEF Before
      <4> QED
        BY <1>3, <4>1, <4>2
    <3> QED
      BY <3>1, <3>2
  <2> QED
    BY <1>3, <2>1, <2>2
<1> QED
  BY <1>2, <1>5, <1>6 DEF more

-------------------------------------------------------------------------------
(* The words on their way: X is in the client's text, H in its thinking, I in  *)
(* invoke_sniff_buffer, R still to come as text, D was discarded; A is all.    *)

Ordered(X, H, I, R, D, A) ==
    /\ A \subseteq Nat
    /\ Before(X, I \cup R) /\ Before(I, R)
    /\ H \cap (X \cup I \cup R) = {}
    /\ D \cap (X \cup H \cup I \cup R) = {}
    /\ A = X \cup H \cup I \cup R \cup D

LEMMA SomeSent ==
    ASSUME NEW X, NEW H, NEW P, NEW S, NEW D, NEW A, Ordered(X, H, {}, P \cup S, D, A),
           Before(P, S)
    PROVE  Ordered(X \cup P, H, {}, S, D, A)
BY DEF Ordered, Before

LEMMA SomeDropped ==
    ASSUME NEW X, NEW H, NEW P, NEW S, NEW D, NEW A, Ordered(X, H, {}, P \cup S, D, A),
           P \cap S = {}
    PROVE  Ordered(X, H, {}, S, D \cup P, A)
<1>1. A \subseteq Nat /\ P \subseteq A /\ S \subseteq A /\ X \subseteq A
  BY DEF Ordered
<1>2. P \cap X = {}
  BY <1>1 DEF Ordered, Before
<1> QED
  BY <1>2 DEF Ordered, Before

LEMMA SomeHeld ==
    ASSUME NEW X, NEW H, NEW P, NEW S, NEW D, NEW A, Before(P, S)
    PROVE  Ordered(X, H, {}, P \cup S, D, A) <=> Ordered(X, H, P, S, D, A)
BY DEF Ordered, Before

LEMMA SomeThought ==
    ASSUME NEW X, NEW H, NEW I, NEW P, NEW S, NEW D, NEW A, Ordered(X, H, I, P \cup S, D, A),
           Before(P, S)
    PROVE  Ordered(X, H \cup P, I, S, D, A)
<1>1. A \subseteq Nat /\ P \subseteq A /\ S \subseteq A /\ X \subseteq A /\ I \subseteq A
  BY DEF Ordered
<1>2. P \cap S = {} /\ P \cap X = {} /\ P \cap I = {}
  BY <1>1 DEF Ordered, Before
<1> QED
  BY <1>2 DEF Ordered, Before

(* Words that arrive after all others that were not discarded.                 *)
LEMMA SomeArrive ==
    ASSUME NEW X, NEW H, NEW I, NEW R, NEW D, NEW A, Ordered(X, H, I, R, D, A),
           NEW N, N \subseteq Nat, N \cap A = {}, Before(A \ D, N)
    PROVE  /\ Ordered(X, H, I, R \cup N, D, A \cup N)
           /\ Before(R, N) /\ Before(H, N)
<1>1. /\ A \subseteq Nat /\ X \subseteq A \ D /\ H \subseteq A \ D /\ I \subseteq A \ D
      /\ R \subseteq A \ D /\ D \subseteq A
  BY DEF Ordered
<1>2. Before(X, N) /\ Before(H, N) /\ Before(I, N) /\ Before(R, N)
  BY <1>1 DEF Before
<1> QED
  BY <1>1, <1>2 DEF Ordered, Before

(* Words that are thought as they arrive.                                      *)
LEMMA SomeAside ==
    ASSUME NEW X, NEW H, NEW I, NEW R, NEW D, NEW A, Ordered(X, H, I, R, D, A),
           NEW N, N \subseteq Nat, N \cap A = {}
    PROVE  Ordered(X, H \cup N, I, R, D, A \cup N)
BY DEF Ordered

(* Words that are discarded as they arrive.                                    *)
LEMMA SomeLost ==
    ASSUME NEW X, NEW H, NEW I, NEW R, NEW D, NEW A, Ordered(X, H, I, R, D, A),
           NEW N, N \subseteq Nat, N \cap A = {}
    PROVE  Ordered(X, H, I, R, D \cup N, A \cup N)
BY DEF Ordered

-------------------------------------------------------------------------------
(* Pieces of these kinds the filters let through.                              *)
Untouched(c) == c.dropped = {} /\ ~ c.repeat_tripped /\ ~ c.filter.stripping

(* No native thinking came inside a block that a <thinking> tag opened.        *)
Paced(c) == "reasoning" \notin c.mixed

Flow(c, K, R, A) ==
    /\ SentInOrder(c.out, "text") /\ (Paced(c) => SentInOrder(c.out, "thinking"))
    /\ Rising(c.invoke_sniff_buffer)
    /\ Ordered(Written(c), Thought(c), WordsIn(c.invoke_sniff_buffer), R, c.dropped, A)
    /\ K \subseteq PlainKinds => Untouched(c)

(* A step that says nothing.                                                   *)
Silent(c, d) ==
    /\ Written(d) = Written(c) /\ Thought(d) = Thought(c)
    /\ SentInOrder(c.out, "text") => SentInOrder(d.out, "text")
    /\ SentInOrder(c.out, "thinking") => SentInOrder(d.out, "thinking")
    /\ d.invoke_sniff_buffer = c.invoke_sniff_buffer /\ d.thinking_buffer = c.thinking_buffer
    /\ d.filter = c.filter /\ d.dropped = c.dropped /\ d.repeat_tripped = c.repeat_tripped
    /\ Paced(d) => Paced(c)

WordFields ==
    {"invoke_sniff_buffer", "thinking_buffer", "filter", "dropped", "repeat_tripped", "mixed"}

LEMMA SilentFlow ==
    ASSUME NEW c, NEW d, Silent(c, d), NEW K, NEW R, NEW A, Flow(c, K, R, A)
    PROVE  Flow(d, K, R, A)
BY DEF Silent, Flow, Untouched

LEMMA SilentMore ==
    ASSUME NEW a, NEW b, NEW c, Silent(a, b), Silent(b, c)
    PROVE  Silent(a, c)
BY DEF Silent

LEMMA SilentNothing == \A c : Silent(c, c)
BY DEF Silent

LEMMA SilentKept ==
    ASSUME NEW c, NEW d, NEW F, Keeps(c, d, F), F \cap (WordFields \cup {"out"}) = {}
    PROVE  Silent(c, d)
<1>1. /\ d.out = c.out
      /\ d.invoke_sniff_buffer = c.invoke_sniff_buffer /\ d.thinking_buffer = c.thinking_buffer
      /\ d.filter = c.filter /\ d.dropped = c.dropped /\ d.repeat_tripped = c.repeat_tripped
      /\ d.mixed = c.mixed
  BY DEF Keeps, Fields, WordFields
<1> QED
  BY <1>1 DEF Silent, Written, Thought, Paced

LEMMA SilentAdds ==
    ASSUME NEW c, NEW d, NEW F, Keeps(c, d, F), F \cap WordFields = {},
           NEW kinds, Adds(c.out, d.out, kinds), kinds \cap {"text", "thinking"} = {}
    PROVE  Silent(c, d)
<1>1. /\ d.invoke_sniff_buffer = c.invoke_sniff_buffer /\ d.thinking_buffer = c.thinking_buffer
      /\ d.filter = c.filter /\ d.dropped = c.dropped /\ d.repeat_tripped = c.repeat_tripped
      /\ d.mixed = c.mixed
  BY DEF Keeps, Fields, WordFields
<1>2. "text" \notin kinds /\ "thinking" \notin kinds
  OBVIOUS
<1>3. /\ SentWords(d.out, "text") = SentWords(c.out, "text")
      /\ SentInOrder(c.out, "text") => SentInOrder(d.out, "text")
  BY <1>2, OtherEvents
<1>4. /\ SentWords(d.out, "thinking") = SentWords(c.out, "thinking")
      /\ SentInOrder(c.out, "thinking") => SentInOrder(d.out, "thinking")
  BY <1>2, OtherEvents
<1> QED
  BY <1>1, <1>3, <1>4 DEF Silent, Written, Thought, Paced

LEMMA SilentStart ==
    ASSUME NEW c, NEW K, Core(c, K), NEW type \in BlockTypes
    PROVE  Silent(c, ContentBlockStart(c, type))
<1> DEFINE d == ContentBlockStart(c, type)
<1>1. Keeps(c, d, {"blocks", "out", "has_tool_use"}) /\ Adds(c.out, d.out, {"start", "stop"})
  BY StartKeeps DEF Core
<1> HIDE DEF d
<1>2. {"blocks", "out", "has_tool_use"} \cap WordFields = {}
      /\ {"start", "stop"} \cap {"text", "thinking"} = {}
  BY DEF WordFields
<1>3. Silent(c, d)
  BY <1>1, <1>2, SilentAdds
<1> QED
  BY <1>3 DEF d

-------------------------------------------------------------------------------
(* The repeat guard keeps a beginning of the text.                             *)

LEMMA UptoNext ==
    ASSUME NEW K, NEW t \in Texts(K), NEW k \in 1 .. Len(t)
    PROVE  Append(Upto(t, k - 1), t[k]) = Upto(t, k)
<1>1. Len(t) \in Nat /\ k \in Nat
  BY TextLen
<1> DEFINE a == Upto(t, k - 1)
           b == Upto(t, k)
           c == Append(a, t[k])
<1>2. a \in Texts(K) /\ Len(a) = k - 1 /\ \A i \in 1 .. k - 1 : a[i] = t[i]
  <2>1. k - 1 \in Int /\ k - 1 <= Len(t) /\ (1 <= k - 1 \/ k - 1 = 0)
    BY <1>1
  <2> QED
    BY <2>1, UptoIs
<1>3. b \in Texts(K) /\ Len(b) = k /\ \A i \in 1 .. k : b[i] = t[i]
  BY <1>1, UptoIs
<1>4. t[k] \in [k : K, n : Nat]
  BY ElementOfSeq DEF Texts
<1> HIDE DEF a, b
<1>5. /\ c \in Texts(K) /\ Len(c) = k
      /\ \A i \in 1 .. k - 1 : c[i] = a[i]
      /\ c[k] = t[k]
  BY <1>1, <1>2, <1>4, AppendProperties DEF Texts
<1> HIDE DEF c
<1>6. \A i \in 1 .. k : c[i] = b[i]
  <2> TAKE i \in 1 .. k
  <2>1. i \in 1 .. k - 1 \/ i = k
    BY <1>1
  <2> QED
    BY <1>2, <1>3, <1>5, <2>1
<1>7. c = b
  BY <1>3, <1>5, <1>6, SeqEqual DEF Texts
<1> QED
  BY <1>7 DEF a, b, c

LEMMA GuardKeeps ==
    ASSUME NEW c, NEW K, NEW text \in Texts(K), c.repeat_tripped \in BOOLEAN
    PROVE  LET g == RepeatGuardFilter(c, text)
           IN /\ Len(g.kept) \in 0 .. Len(text) /\ g.kept = Upto(text, Len(g.kept))
              /\ K \subseteq PlainKinds /\ ~ c.repeat_tripped =>
                    Len(g.kept) = Len(text) /\ ~ g.tripped
<1> DEFINE n == Len(text)
           m == CHOOSE m : GuardUpto(m, c, text, n)
<1>1. n \in Nat
  BY TextLen
<1>2. GuardUpto(m, c, text, n)
  BY <1>1, GuardExists
<1>3. RepeatGuardFilter(c, text) = m[n]
  BY Zenon DEF RepeatGuardFilter, GuardUpto
<1> HIDE DEF m
<1> DEFINE Prefix(g, k) ==
              /\ DOMAIN g = {"kept", "run", "tripped"} /\ g.tripped \in BOOLEAN
              /\ \E j \in 0 .. k : /\ g.kept = Upto(text, j)
                                   /\ ~ g.tripped => j = k
              /\ K \subseteq PlainKinds /\ ~ c.repeat_tripped => ~ g.tripped
           G == {k \in 0 .. n : Prefix(m[k], k)}
<1>4. 0 \in G
  <2>1. m[0] = [kept |-> <<>>, run |-> c.repeat_run, tripped |-> c.repeat_tripped]
    BY <1>1, <1>2 DEF GuardUpto
  <2>2. Upto(text, 0) = <<>>
    <3>1. Len(Upto(text, 0)) = 0 /\ Upto(text, 0) \in Texts(K)
      BY <1>1, UptoIs
    <3> QED
      BY <3>1, EmptySeq DEF Texts
  <2> QED
    BY <1>1, <2>1, <2>2
<1>5. ASSUME NEW k \in 1 .. n, k - 1 \in G PROVE k \in G
  <2> DEFINE g == m[k - 1]
             h == m[k]
  <2>1. h = GuardPiece(text, g, k)
    BY <1>1, <1>2 DEF GuardUpto
  <2>2. Prefix(g, k - 1)
    BY <1>5
  <2> HIDE DEF g, h, n
  <2>3. PICK j \in 0 .. k - 1 : g.kept = Upto(text, j) /\ (~ g.tripped => j = k - 1)
    BY <2>2
  <2> DEFINE p == text[k]
             isStray == p.k = "stray" /\ StartsLine(text, k)
             run == IF isStray THEN g.run + 1
                    ELSE IF p.k = "nl" /\ StartsLine(text, k) THEN g.run ELSE 0
  <2>4. h = IF g.tripped THEN g
            ELSE IF isStray /\ run >= REPEAT_GUARD_TRIP_THRESHOLD
                   THEN [g EXCEPT !.run = run, !.tripped = TRUE]
            ELSE [g EXCEPT !.kept = Append(@, p), !.run = run]
    BY <2>1 DEF GuardPiece
  <2>5. K \subseteq PlainKinds => ~ isStray
    <3>1. p.k \in K
      BY TextLen DEF n
    <3> QED
      BY <3>1 DEF PlainKinds
  <2>6. k \in Nat /\ j \in 0 .. k
    BY <1>1
  <2> HIDE DEF isStray, run
  <2>7. CASE g.tripped
    <3>1. h = g
      BY <2>4, <2>7
    <3>2. h.kept = Upto(text, j) /\ h.tripped
      BY <2>3, <2>7, <3>1
    <3>3. Prefix(h, k)
      BY <2>2, <2>6, <3>1, <3>2
    <3> QED
      BY <3>3 DEF h, n
  <2>8. CASE ~ g.tripped /\ isStray /\ run >= REPEAT_GUARD_TRIP_THRESHOLD
    <3>1. h.kept = g.kept /\ h.tripped = TRUE /\ DOMAIN h = DOMAIN g
      BY <2>2, <2>4, <2>8
    <3>2. Prefix(h, k)
      BY <2>2, <2>3, <2>5, <2>6, <2>8, <3>1
    <3> QED
      BY <3>2 DEF h, n
  <2>9. CASE ~ g.tripped /\ ~ (isStray /\ run >= REPEAT_GUARD_TRIP_THRESHOLD)
    <3>1. h.kept = Append(g.kept, p) /\ h.tripped = g.tripped /\ DOMAIN h = DOMAIN g
      BY <2>2, <2>4, <2>9
    <3>2. h.kept = Upto(text, k)
      BY <2>3, <2>9, <3>1, UptoNext DEF n
    <3>3. Prefix(h, k)
      BY <2>2, <2>6, <2>9, <3>1, <3>2
    <3> QED
      BY <3>3 DEF h, n
  <2> QED
    BY <2>7, <2>8, <2>9
<1>6. \A k \in 0 .. n : k \in G
  <2> HIDE DEF G
  <2> QED
    BY <1>1, <1>4, <1>5, UpTo
<1>7. Prefix(m[n], n)
  BY <1>1, <1>6
<1> DEFINE g == m[n]
<1> HIDE DEF n
<1>8. PICK j \in 0 .. n : g.kept = Upto(text, j) /\ (~ g.tripped => j = n)
  BY <1>7
<1>9. Len(g.kept) = j
  <2>1. j \in Int /\ j <= Len(text) /\ (1 <= j \/ j = 0)
    BY <1>1 DEF n
  <2> QED
    BY <1>8, <2>1, UptoIs
<1>10. K \subseteq PlainKinds /\ ~ c.repeat_tripped => ~ g.tripped
  BY <1>7
<1> HIDE DEF g
<1> QED
  BY <1>3, <1>8, <1>9, <1>10 DEF n, g

-------------------------------------------------------------------------------
(* Text that leaves.                                                           *)

(* Nothing but the words written changes, and what the guard discards.         *)
OnlyWrites(c, d) ==
    /\ Thought(d) = Thought(c) /\ d.invoke_sniff_buffer = c.invoke_sniff_buffer
    /\ d.thinking_buffer = c.thinking_buffer /\ d.filter = c.filter

LEMMA SilentTextBlock ==
    ASSUME NEW c, NEW K, Core(c, K)
    PROVE  LET d == TextBlock(c)
           IN Silent(c, d) /\ IsOpen(d, d.text_block_index)
<1>1. CASE IsBlockOpenOfType(c, c.text_block_index, "text")
  BY <1>1, SilentNothing DEF TextBlock, IsBlockOpenOfType
<1>2. CASE ~ IsBlockOpenOfType(c, c.text_block_index, "text")
  <2> DEFINE s == ContentBlockStart(c, "text")
             d == [s EXCEPT !.text_block_index = Len(c.blocks) + 1]
  <2>1. "text" \in BlockTypes
    BY DEF BlockTypes
  <2>2. /\ Silent(c, s) /\ Managed(s, {}) /\ Keeps(c, s, {"blocks", "out", "has_tool_use"})
        /\ Len(c.blocks) \in Nat /\ Len(s.blocks) = Len(c.blocks) + 1
        /\ s.blocks[Len(c.blocks) + 1] = [type |-> "text", open |-> TRUE]
    BY <2>1, SilentStart, StartKeeps DEF Core
  <2> HIDE DEF s
  <2>3. DOMAIN s = Fields /\ DOMAIN s.blocks = 1 .. Len(s.blocks)
    BY <2>2, LenProperties DEF Managed
  <2>4. /\ Keeps(s, d, {"text_block_index"}) /\ d.text_block_index = Len(c.blocks) + 1
        /\ d.blocks = s.blocks
    BY <2>3 DEF Keeps, Fields
  <2> HIDE DEF d
  <2>5. Silent(c, d)
    <3>1. Silent(s, d)
      BY <2>4, SilentKept DEF WordFields
    <3> QED
      BY <2>2, <3>1, SilentMore
  <2>6. IsOpen(d, d.text_block_index)
    BY <2>2, <2>3, <2>4 DEF IsOpen
  <2>7. TextBlock(c) = d
    BY <1>2 DEF TextBlock, d, s
  <2> QED
    BY <2>5, <2>6, <2>7
<1> QED
  BY <1>1, <1>2

LEMMA GuardedFlow ==
    ASSUME NEW c, NEW K, Core(c, K), NEW text \in Texts(K), Rising(text), NEW S, NEW A,
           Flow(c, K, WordsIn(text) \cup S, A), Before(WordsIn(text), S),
           c.invoke_sniff_buffer = <<>>
    PROVE  LET g == RepeatGuardFilter(c, text)
               d == Guarded(c, text, g)
           IN /\ Flow(d, K, WordsIn(g.kept) \cup S, A) /\ OnlyWrites(c, d)
              /\ g.kept \in Texts(K) /\ Rising(g.kept) /\ Before(WordsIn(g.kept), S)
<1> DEFINE g == RepeatGuardFilter(c, text)
           j == Len(g.kept)
           kept == Upto(text, j)
           rest == From(text, j + 1)
           d == Guarded(c, text, g)
<1>1. /\ j \in 0 .. Len(text) /\ g.kept = kept
      /\ K \subseteq PlainKinds /\ ~ c.repeat_tripped => j = Len(text) /\ ~ g.tripped
  BY GuardKeeps DEF Core, GuardOK
<1>2. Len(text) \in Nat /\ WordsIn(text) \subseteq Nat
  BY TextLen, WordsAt
<1>3. /\ d.dropped = c.dropped \cup WordsIn(rest) /\ d.repeat_tripped = g.tripped
      /\ d.out = c.out /\ d.invoke_sniff_buffer = c.invoke_sniff_buffer
      /\ d.thinking_buffer = c.thinking_buffer /\ d.filter = c.filter
      /\ d.mixed = c.mixed
  <2>1. DOMAIN c = Fields
    BY CoreBlocks
  <2> HIDE DEF g
  <2> QED
    BY <2>1 DEF Guarded, Drop, Fields
<1> HIDE DEF g, j, d
<1>4. /\ WordsIn(kept) \cup WordsIn(rest) = WordsIn(text)
      /\ Rising(kept) /\ Before(WordsIn(kept), WordsIn(rest))
  BY <1>1, SplitWords
<1>5. kept \in Texts(K)
  BY <1>1, <1>2, UptoIs
<1>6. K \subseteq PlainKinds /\ ~ c.repeat_tripped => WordsIn(rest) = {}
  <2> SUFFICES ASSUME j = Len(text) PROVE WordsIn(rest) = {}
    BY <1>1
  <2>1. rest \in Texts(K) /\ Len(rest) = 0
    BY <1>2, FromIs
  <2> HIDE DEF rest
  <2> QED
    BY <2>1, WordsAt
<1> HIDE DEF kept, rest
<1> DEFINE V == WordsIn(kept)
           W == WordsIn(rest)
<1>7. W \cap (V \cup S) = {} /\ Before(V, S)
  BY <1>2, <1>4 DEF Before
<1>8. W \cup (V \cup S) = WordsIn(text) \cup S
  BY <1>4
<1>9. WordsIn(c.invoke_sniff_buffer) = {}
  BY NoWords
<1>10. Written(d) = Written(c) /\ Thought(d) = Thought(c)
  BY <1>3 DEF Written, Thought
<1>11. Ordered(Written(d), Thought(d), WordsIn(d.invoke_sniff_buffer), V \cup S, d.dropped, A)
  <2>1. Ordered(Written(c), Thought(c), {}, W \cup (V \cup S), c.dropped, A)
    BY <1>8, <1>9 DEF Flow
  <2> HIDE DEF V, W
  <2>2. Ordered(Written(c), Thought(c), {}, V \cup S, c.dropped \cup W, A)
    BY <1>7, <2>1, SomeDropped
  <2> QED
    BY <1>3, <1>9, <1>10, <2>2 DEF W
<1>12. Flow(d, K, V \cup S, A)
  BY <1>1, <1>3, <1>6, <1>11 DEF Flow, Untouched, Paced
<1>13. OnlyWrites(c, d)
  BY <1>3, <1>10 DEF OnlyWrites
<1> QED
  BY <1>1, <1>4, <1>5, <1>7, <1>12, <1>13 DEF g, d

(* emit_text_delta_raw writes the words of the text, or the guard has them.    *)
LEMMA EmitFlow ==
    ASSUME NEW c, NEW K, Core(c, K), NEW text \in Texts(K), Rising(text), NEW S, NEW A,
           Flow(c, K, WordsIn(text) \cup S, A), Before(WordsIn(text), S),
           c.invoke_sniff_buffer = <<>>
    PROVE  Flow(EmitTextDeltaRaw(c, text), K, S, A) /\ OnlyWrites(c, EmitTextDeltaRaw(c, text))
<1> DEFINE g == RepeatGuardFilter(c, text)
           kept == g.kept
           c1 == Guarded(c, text, g)
           c2 == Fenced(c1, FenceAfter(c1, kept))
           c3 == TextBlock(c2)
           d == EmitTextDeltaRaw(c, text)
<1>1. /\ Flow(c1, K, WordsIn(kept) \cup S, A) /\ OnlyWrites(c, c1)
      /\ kept \in Texts(K) /\ Rising(kept) /\ Before(WordsIn(kept), S)
  BY GuardedFlow
<1>2. d = EmitKept(c1, kept)
  BY DEF EmitTextDeltaRaw, EmitGuarded
<1>3. Core(c1, K)
  <2>1. Len(text) \in Nat
    BY TextLen
  <2> QED
    BY <2>1, GuardedCore
<1> HIDE DEF g, c1, kept, d
<1>4. CASE kept = <<>>
  <2>1. d = c1
    BY <1>2, <1>4 DEF EmitKept
  <2>2. WordsIn(kept) \cup S = S
    BY <1>4, NoWords
  <2> QED
    BY <1>1, <2>1, <2>2 DEF d
<1>5. CASE kept # <<>>
  <2>1. DOMAIN c1 = Fields
    BY <1>3, CoreBlocks
  <2>2. Keeps(c1, c2, {"code_fence_open", "mid_line"})
    BY <2>1 DEF Fenced, Keeps, Fields
  <2> HIDE DEF c2
  <2>3. Core(c2, K) /\ Silent(c1, c2)
    <3>1. Core(c2, K)
      BY <1>3, <2>2, CoreFree DEF Free
    <3>2. Silent(c1, c2)
      BY <2>2, SilentKept DEF WordFields
    <3> QED
      BY <3>1, <3>2
  <2>4. Core(c3, K) /\ Silent(c2, c3) /\ IsOpen(c3, c3.text_block_index)
    BY <2>3, TextBlockCore, SilentTextBlock
  <2>5. d = WriteText(c3, kept)
    BY <1>2, <1>5 DEF EmitKept, c2
  <2> HIDE DEF c3
  <2> DEFINE e == [ev |-> "text", at |-> c3.text_block_index, data |-> kept]
  <2>6. d = Emit(c3, e)
    BY <2>4, <2>5 DEF WriteText, ContentBlockDelta
  <2>7. Silent(c1, c3) /\ Flow(c3, K, WordsIn(kept) \cup S, A)
    BY <1>1, <2>3, <2>4, SilentMore, SilentFlow
  <2>8. c3.invoke_sniff_buffer = <<>> /\ WordsIn(c3.invoke_sniff_buffer) = {}
    BY <1>1, <2>7, NoWords DEF Silent, OnlyWrites
  <2>9. DOMAIN c3 = Fields /\ IsSeq(c3.out)
    BY <2>4, CoreBlocks
  <2>10. /\ d.out = Append(c3.out, e)
         /\ d.invoke_sniff_buffer = c3.invoke_sniff_buffer
         /\ d.thinking_buffer = c3.thinking_buffer /\ d.filter = c3.filter
         /\ d.dropped = c3.dropped /\ d.repeat_tripped = c3.repeat_tripped
         /\ d.mixed = c3.mixed
    <3> HIDE DEF e
    <3> QED
      BY <2>6, <2>9 DEF Emit, Fields
  <2>11. e.ev = "text" /\ e.data = kept
    OBVIOUS
  <2> HIDE DEF e
  <2>12. /\ Written(d) = Written(c3) \cup WordsIn(kept) /\ Thought(d) = Thought(c3)
         /\ SentInOrder(c3.out, "thinking") => SentInOrder(d.out, "thinking")
         /\ SentInOrder(c3.out, "text") /\ Rising(kept) /\ Before(Written(c3), WordsIn(kept))
              => SentInOrder(d.out, "text")
    <3> DEFINE kind == "text"
               o == c3.out
    <3>1. e.ev = kind /\ IsSeq(o) /\ "thinking" # kind
      BY <2>9, <2>11
    <3>2. /\ SentWords(Append(o, e), kind) = SentWords(o, kind) \cup WordsIn(e.data)
          /\ SentInOrder(o, kind) /\ Rising(e.data) /\ Before(SentWords(o, kind), WordsIn(e.data))
               => SentInOrder(Append(o, e), kind)
      <4> HIDE DEF o, kind
      <4> QED
        BY <3>1, OneDelta
    <3>3. /\ SentWords(Append(o, e), "thinking") = SentWords(o, "thinking")
          /\ SentInOrder(o, "thinking") => SentInOrder(Append(o, e), "thinking")
      <4>1. Adds(o, Append(o, e), {e.ev})
        BY <3>1, AppendAdds
      <4>2. "thinking" \notin {e.ev}
        BY <3>1
      <4> HIDE DEF o, kind
      <4> QED
        BY <4>1, <4>2, OtherEvents
    <3>4. d.out = Append(o, e)
      BY <2>10
    <3> QED
      BY <2>11, <3>2, <3>3, <3>4 DEF Written, Thought
  <2> DEFINE V == WordsIn(kept)
  <2>13. Ordered(Written(c3), Thought(c3), {}, V \cup S, c3.dropped, A)
    BY <2>7, <2>8 DEF Flow
  <2>14. Before(Written(c3), V)
    BY <2>13 DEF Ordered, Before
  <2>15. Ordered(Written(c3) \cup V, Thought(c3), {}, S, c3.dropped, A)
    <3> HIDE DEF V
    <3>1. Before(V, S)
      BY <1>1 DEF V
    <3> QED
      BY <2>13, <3>1, SomeSent
  <2>16. Flow(d, K, S, A)
    BY <1>1, <2>7, <2>8, <2>10, <2>12, <2>14, <2>15 DEF Flow, Untouched, Paced
  <2>17. OnlyWrites(c, d)
    BY <1>1, <2>7, <2>10, <2>12 DEF OnlyWrites, Silent
  <2> QED
    BY <2>16, <2>17 DEF d
<1> QED
  BY <1>4, <1>5

-------------------------------------------------------------------------------
(* Calls and stops say nothing.                                                *)

LEMMA StopsAdd ==
    ASSUME NEW out, IsSeq(out), NEW S, IsFiniteSet(S)
    PROVE  Adds(out, out \o Stops(SetToSeq(S)), {"stop"})
<1> DEFINE f == SetToSeq(S)
           n == Cardinality(S)
           stops == Stops(f)
           events == [ev : {"stop"}, at : S]
           more == out \o stops
           l == Len(out)
<1>1. n \in Nat /\ f \in [1 .. n -> S]
  BY Listed
<1> HIDE DEF f, n
<1>2. stops \in Seq(events) /\ Len(stops) = n /\ \A k \in 1 .. n : stops[k].ev = "stop"
  <2>1. stops = [k \in 1 .. n |-> [ev |-> "stop", at |-> f[k]]]
    BY <1>1 DEF Stops
  <2>2. \A k \in 1 .. n : [ev |-> "stop", at |-> f[k]] \in events
    BY <1>1
  <2> HIDE DEF stops, events
  <2>3. stops \in [1 .. n -> events]
    BY <2>1, <2>2
  <2>4. stops \in Seq(events)
    BY <1>1, <2>3, SeqDef
  <2> QED
    BY <1>1, <2>1, <2>3, <2>4, LenProperties
<1> HIDE DEF stops, events
<1>3. PICK T : out \in Seq(T)
  BY DEF IsSeq
<1> DEFINE U == T \cup events
<1>4. out \in Seq(U) /\ stops \in Seq(U) /\ l \in Nat
  BY <1>2, <1>3, SeqMonotonic, LenProperties
<1> HIDE DEF U
<1>5. /\ more \in Seq(U) /\ Len(more) = l + Len(stops)
      /\ \A i \in 1 .. l + Len(stops) : more[i] = IF i <= l THEN out[i] ELSE stops[i - l]
  BY <1>4, ConcatProperties, Zenon
<1> HIDE DEF more, l
<1>6. /\ Len(more) = l + n /\ \A i \in 1 .. l : more[i] = out[i]
      /\ \A i \in l + 1 .. l + n : more[i] = stops[i - l]
  BY <1>1, <1>2, <1>4, <1>5
<1>7. \A i \in l + 1 .. Len(more) : more[i].ev = "stop"
  <2> TAKE i \in l + 1 .. Len(more)
  <2>1. i - l \in 1 .. n
    BY <1>1, <1>4, <1>6
  <2> QED
    BY <1>2, <1>6, <2>1
<1>8. IsSeq(more)
  BY <1>5 DEF IsSeq
<1> QED
  BY <1>1, <1>4, <1>6, <1>7, <1>8 DEF Adds, more, stops, f, l

LEMMA SilentStop ==
    ASSUME NEW c, DOMAIN c = Fields, IsSeq(c.out), NEW i
    PROVE  LET d == ContentBlockStop(c, i)
           IN Silent(c, d) /\ Keeps(c, d, {"blocks", "out"}) /\ IsSeq(d.out)
<1>1. CASE ~ IsOpen(c, i)
  <2>1. ContentBlockStop(c, i) = c
    BY <1>1 DEF ContentBlockStop
  <2> QED
    BY <2>1, SilentNothing DEF Keeps
<1>2. CASE IsOpen(c, i)
  <2> DEFINE d == StopAll(c, {i})
  <2>1. Keeps(c, d, {"blocks", "out"}) /\ d.out = c.out \o Stops(SetToSeq({i}))
    BY DEF StopAll, Keeps, Fields
  <2>2. IsFiniteSet({i})
    BY FS_Singleton
  <2> DEFINE S == {i}
  <2> HIDE DEF d, S
  <2>3. Adds(c.out, c.out \o Stops(SetToSeq(S)), {"stop"})
    BY <2>2, StopsAdd DEF S
  <2>4. Adds(c.out, d.out, {"stop"})
    BY <2>1, <2>3 DEF S
  <2>5. {"blocks", "out"} \cap WordFields = {} /\ {"stop"} \cap {"text", "thinking"} = {}
    BY DEF WordFields
  <2>6. Silent(c, d)
    BY <2>1, <2>4, <2>5, SilentAdds
  <2>7. IsSeq(d.out)
    BY <2>4 DEF Adds
  <2> QED
    BY <1>2, <2>1, <2>6, <2>7 DEF ContentBlockStop, d
<1> QED
  BY <1>1, <1>2

LEMMA SilentEmit ==
    ASSUME NEW c, DOMAIN c = Fields, IsSeq(c.out), NEW e, e.ev \notin {"text", "thinking"}
    PROVE  LET d == Emit(c, e)
           IN Silent(c, d) /\ Keeps(c, d, {"out"}) /\ IsSeq(d.out)
<1> DEFINE d == Emit(c, e)
<1>1. Keeps(c, d, {"out"}) /\ d.out = Append(c.out, e)
  BY DEF Emit, Keeps, Fields
<1> HIDE DEF d
<1>2. Adds(c.out, d.out, {e.ev})
  BY <1>1, AppendAdds
<1>3. {"out"} \cap WordFields = {} /\ {e.ev} \cap {"text", "thinking"} = {}
  BY DEF WordFields
<1>4. Silent(c, d)
  BY <1>1, <1>2, <1>3, SilentAdds
<1>5. IsSeq(d.out)
  BY <1>2 DEF Adds
<1> QED
  BY <1>1, <1>4, <1>5 DEF d

LEMMA SilentDelta ==
    ASSUME NEW c, DOMAIN c = Fields, IsSeq(c.out), NEW i, NEW id
    PROVE  LET d == ContentBlockDelta(c, i, "input", id)
           IN Silent(c, d) /\ Keeps(c, d, {"out"}) /\ IsSeq(d.out)
<1> DEFINE e == [ev |-> "input", at |-> i, data |-> id]
<1>1. CASE IsOpen(c, i)
  <2>1. ContentBlockDelta(c, i, "input", id) = Emit(c, e)
    BY <1>1 DEF ContentBlockDelta
  <2>2. e.ev \notin {"text", "thinking"}
    OBVIOUS
  <2> HIDE DEF e
  <2> QED
    BY <2>1, <2>2, SilentEmit
<1>2. CASE ~ IsOpen(c, i)
  <2>1. ContentBlockDelta(c, i, "input", id) = c
    BY <1>2 DEF ContentBlockDelta
  <2> QED
    BY <2>1, SilentNothing DEF Keeps
<1> QED
  BY <1>1, <1>2

LEMMA SilentCall ==
    ASSUME NEW c, NEW K, Core(c, K), NEW id
    PROVE  Silent(c, EmitCompletedToolUse(c, id))
<1>1. DOMAIN c = Fields /\ IsSeq(c.out) /\ Managed(c, {}) /\ "tool_use" \in BlockTypes
  BY CoreBlocks DEF Core, BlockTypes
<1>2. CASE id \in DOMAIN c.tool_block_indices
  <2> DEFINE d == ClosingText(c, "tool_use")
  <2>1. Keeps(c, d, {"blocks", "out", "has_tool_use"}) /\ Adds(c.out, d.out, {"stop"})
    BY <1>1, ClosingKeeps
  <2> HIDE DEF d
  <2>2. /\ {"blocks", "out", "has_tool_use"} \cap WordFields = {}
        /\ {"stop"} \cap {"text", "thinking"} = {}
    BY DEF WordFields
  <2>3. Silent(c, d)
    BY <2>1, <2>2, SilentAdds
  <2> QED
    BY <1>2, <2>3 DEF EmitCompletedToolUse, d
<1>3. CASE id \notin DOMAIN c.tool_block_indices
  <2> DEFINE s == ContentBlockStart(c, "tool_use")
             at == Len(c.blocks) + 1
             c1 == [s EXCEPT !.tool_block_indices =
                       [i \in DOMAIN @ \cup {id} |-> IF i = id THEN at ELSE @[i]]]
             c2 == ContentBlockDelta(c1, at, "input", id)
  <2>1. Silent(c, s) /\ Keeps(c, s, {"blocks", "out", "has_tool_use"}) /\ IsSeq(s.out)
    BY <1>1, SilentStart, StartKeeps DEF Managed
  <2> HIDE DEF s, at
  <2>2. DOMAIN s = Fields
    BY <1>1, <2>1 DEF Keeps
  <2>3. Keeps(s, c1, {"tool_block_indices"}) /\ c1.out = s.out /\ DOMAIN c1 = Fields
    BY <2>2 DEF Keeps, Fields
  <2> HIDE DEF c1
  <2>4. Silent(s, c1)
    BY <2>3, SilentKept DEF WordFields
  <2>5. Silent(c1, c2) /\ Keeps(c1, c2, {"out"}) /\ IsSeq(c2.out)
    BY <2>1, <2>3, SilentDelta
  <2> HIDE DEF c2
  <2>6. DOMAIN c2 = Fields
    BY <2>3, <2>5 DEF Keeps
  <2>7. Silent(c2, ContentBlockStop(c2, at))
    BY <2>5, <2>6, SilentStop
  <2>8. Silent(c, ContentBlockStop(c2, at))
    BY <2>1, <2>4, <2>5, <2>7, SilentMore
  <2>9. EmitCompletedToolUse(c, id) = ContentBlockStop(c2, at)
    BY <1>3 DEF EmitCompletedToolUse, c2, c1, s, at
  <2> QED
    BY <2>8, <2>9
<1> QED
  BY <1>2, <1>3

LEMMA WritesMore ==
    ASSUME NEW a, NEW b, NEW c, OnlyWrites(a, b), OnlyWrites(b, c) \/ Silent(b, c)
    PROVE  OnlyWrites(a, c)
BY DEF OnlyWrites, Silent

LEMMA WritesNothing == \A c : OnlyWrites(c, c)
BY DEF OnlyWrites

-------------------------------------------------------------------------------
(* Recovering <invoke> blocks.                                                 *)

LEMMA UptoUpto ==
    ASSUME NEW K, NEW t \in Texts(K), NEW i \in 0 .. Len(t), NEW j \in 0 .. i
    PROVE  Upto(Upto(t, i), j) = Upto(t, j)
<1> DEFINE a == Upto(t, i)
           b == Upto(a, j)
           c == Upto(t, j)
<1>1. Len(t) \in Nat /\ i \in Nat /\ j \in Nat /\ i <= Len(t) /\ j <= i
  BY TextLen
<1>2. a \in Texts(K) /\ Len(a) = i /\ \A k \in 1 .. i : a[k] = t[k]
  BY <1>1, UptoIs
<1>3. c \in Texts(K) /\ Len(c) = j /\ \A k \in 1 .. j : c[k] = t[k]
  BY <1>1, UptoIs
<1> HIDE DEF a, c
<1>4. b \in Texts(K) /\ Len(b) = j /\ \A k \in 1 .. j : b[k] = a[k]
  BY <1>1, <1>2, UptoIs
<1> HIDE DEF b
<1>5. \A k \in 1 .. j : b[k] = c[k]
  BY <1>1, <1>2, <1>3, <1>4
<1>6. b = c
  BY <1>3, <1>4, <1>5, SeqEqual DEF Texts
<1> QED
  BY <1>6 DEF a, b, c

LEMMA MiddleIs ==
    ASSUME NEW K, NEW t \in Texts(K), NEW i \in 0 .. Len(t), NEW j \in 0 .. i
    PROVE  SubSeq(t, j + 1, i) = From(Upto(t, i), j + 1)
<1> DEFINE a == Upto(t, i)
           b == SubSeq(t, j + 1, i)
           c == SubSeq(a, j + 1, Len(a))
<1>1. Len(t) \in Nat /\ i \in Nat /\ j \in Nat /\ i <= Len(t) /\ j <= i
  BY TextLen
<1>2. a \in Texts(K) /\ Len(a) = i /\ \A k \in 1 .. i : a[k] = t[k]
  BY <1>1, UptoIs
<1>3. b \in Texts(K) /\ Len(b) = i - j /\ \A k \in 1 .. i - j : b[k] = t[k + j]
  <2>1. /\ b \in Texts(K) /\ Len(b) = IF j + 1 <= i THEN i - (j + 1) + 1 ELSE 0
        /\ \A k \in 1 .. i - (j + 1) + 1 : b[k] = t[(j + 1) + k - 1]
    BY <1>1, PartIs
  <2> QED
    BY <1>1, <2>1
<1> HIDE DEF a, b
<1>4. c \in Texts(K) /\ Len(c) = i - j /\ \A k \in 1 .. i - j : c[k] = a[k + j]
  <2>1. /\ c \in Texts(K) /\ Len(c) = IF j + 1 <= i THEN i - (j + 1) + 1 ELSE 0
        /\ \A k \in 1 .. i - (j + 1) + 1 : c[k] = a[(j + 1) + k - 1]
    BY <1>1, <1>2, PartIs
  <2> QED
    BY <1>1, <2>1
<1> HIDE DEF c
<1>5. \A k \in 1 .. i - j : b[k] = c[k]
  <2> TAKE k \in 1 .. i - j
  <2>1. k + j \in 1 .. i
    BY <1>1
  <2> QED
    BY <1>2, <1>3, <1>4, <2>1
<1>6. b = c
  BY <1>3, <1>4, <1>5, SeqEqual DEF Texts
<1> QED
  BY <1>6 DEF a, b, c, From

LEMMA StrippedPrefix ==
    ASSUME NEW K, NEW t \in Texts(K)
    PROVE  \E m \in 0 .. Len(t) : StripTrailingStray(t) = Upto(t, m)
<1>1. Len(t) \in Nat /\ DOMAIN t = 1 .. Len(t)
  BY TextLen
<1>2. CASE TrailingStray(t) = {}
  <2>1. Upto(t, Len(t)) = t
    <3> DEFINE a == Upto(t, Len(t))
    <3>1. a \in Texts(K) /\ Len(a) = Len(t) /\ \A k \in 1 .. Len(t) : a[k] = t[k]
      BY <1>1, UptoIs
    <3> HIDE DEF a
    <3>2. a = t
      BY <3>1, SeqEqual DEF Texts
    <3> QED
      BY <3>2 DEF a
  <2> QED
    BY <1>1, <1>2, <2>1 DEF StripTrailingStray
<1>3. CASE TrailingStray(t) # {}
  <2>1. TrailingStray(t) \subseteq 1 .. Len(t)
    BY <1>1 DEF TrailingStray
  <2>2. FirstOf(TrailingStray(t)) \in 1 .. Len(t)
    BY <1>1, <1>3, <2>1, FirstIn
  <2>3. FirstOf(TrailingStray(t)) - 1 \in 0 .. Len(t)
    BY <1>1, <2>2
  <2> QED
    BY <1>3, <2>3 DEF StripTrailingStray
<1> QED
  BY <1>2, <1>3

(* The text before a block, without stray tokens.                              *)
LEMMA BeforePrefix ==
    ASSUME NEW K, NEW buf \in Texts(K), NEW start \in 1 .. Len(buf)
    PROVE  \E m \in 0 .. start - 1 : StripTrailingStray(Upto(buf, start - 1)) = Upto(buf, m)
<1>1. Len(buf) \in Nat /\ start - 1 \in 0 .. Len(buf) /\ start - 1 \in Nat
  BY TextLen
<1> DEFINE i == start - 1
           t == Upto(buf, i)
<1>2. t \in Texts(K) /\ Len(t) = i
  BY <1>1, UptoIs
<1> HIDE DEF t
<1>3. PICK m \in 0 .. i : StripTrailingStray(t) = Upto(t, m)
  BY <1>2, StrippedPrefix
<1> HIDE DEF i
<1>4. Upto(t, m) = Upto(buf, m)
  BY <1>1, UptoUpto DEF t, i
<1> QED
  BY <1>3, <1>4 DEF t, i

(* Words that are discarded.                                                   *)
LEMMA DropFlow ==
    ASSUME NEW c, NEW K, Core(c, K), NEW text, NEW S, NEW A,
           Flow(c, K, WordsIn(text) \cup S, A), WordsIn(text) \cap S = {},
           c.invoke_sniff_buffer = <<>>, ~ (K \subseteq PlainKinds)
    PROVE  Flow(Drop(c, text), K, S, A) /\ OnlyWrites(c, Drop(c, text))
<1> DEFINE d == Drop(c, text)
           V == WordsIn(text)
<1>1. /\ d.dropped = c.dropped \cup V /\ d.out = c.out
      /\ d.invoke_sniff_buffer = c.invoke_sniff_buffer
      /\ d.thinking_buffer = c.thinking_buffer /\ d.filter = c.filter
      /\ d.repeat_tripped = c.repeat_tripped /\ d.mixed = c.mixed
  BY CoreBlocks DEF Drop, Fields
<1> HIDE DEF d
<1>2. Ordered(Written(c), Thought(c), {}, V \cup S, c.dropped, A)
  BY NoWords DEF Flow
<1>3. Ordered(Written(c), Thought(c), {}, S, c.dropped \cup V, A)
  <2> HIDE DEF V
  <2>1. V \cap S = {}
    BY DEF V
  <2> QED
    BY <1>2, <2>1, SomeDropped
<1>4. Written(d) = Written(c) /\ Thought(d) = Thought(c)
  BY <1>1 DEF Written, Thought
<1> QED
  BY <1>1, <1>3, <1>4, NoWords DEF Flow, OnlyWrites, Paced, d

LEMMA TakeFlow ==
    ASSUME NEW c, NEW K, Core(c, K), NEW buf \in Texts(K), Rising(buf),
           NEW start \in 1 .. Len(buf), NEW end \in start .. Len(buf), buf[start].k = "inv",
           NEW m \in 0 .. start - 1, NEW S, NEW A,
           Flow(c, K, WordsIn(buf) \cup S, A), Before(WordsIn(buf), S),
           c.invoke_sniff_buffer = <<>>
    PROVE  LET d == TakeInvoke(c, buf, Upto(buf, m), start, end)
           IN Flow(d, K, WordsIn(From(buf, end + 1)) \cup S, A) /\ OnlyWrites(c, d)
<1> DEFINE text == Upto(buf, end)
           rest == From(buf, end + 1)
           before == Upto(buf, m)
           lost == SubSeq(buf, m + 1, end)
           T == WordsIn(rest) \cup S
           d == TakeInvoke(c, buf, before, start, end)
<1>1. /\ Len(buf) \in Nat /\ end \in 0 .. Len(buf) /\ m \in 0 .. end /\ m \in 0 .. Len(buf)
      /\ end \in Nat /\ m \in Nat
  BY TextLen
<1>2. ~ (K \subseteq PlainKinds)
  <2>1. "inv" \in K
    BY TextLen
  <2> QED
    BY <2>1 DEF PlainKinds
<1>3. /\ WordsIn(text) \cup WordsIn(rest) = WordsIn(buf) /\ Rising(text)
      /\ Before(WordsIn(text), WordsIn(rest))
  BY <1>1, SplitWords
<1>4. text \in Texts(K) /\ Len(text) = end
  BY <1>1, UptoIs
<1>5. before = Upto(text, m) /\ lost = From(text, m + 1)
  BY <1>1, UptoUpto, MiddleIs
<1>7. before \in Texts(K) /\ Len(before) = m
  BY <1>1, UptoIs
<1> HIDE DEF text, rest, before, lost
<1>6. /\ WordsIn(before) \cup WordsIn(lost) = WordsIn(text) /\ Rising(before)
      /\ Before(WordsIn(before), WordsIn(lost))
  <2>1. m \in 0 .. Len(text)
    BY <1>1, <1>4
  <2> QED
    BY <1>3, <1>4, <1>5, <2>1, SplitWords
<1>8. Before(WordsIn(text), T)
  BY <1>3 DEF Before
<1>9. WordsIn(text) \subseteq Nat
  BY <1>4, WordsAt
<1>10. Flow(c, K, WordsIn(text) \cup T, A)
  <2>1. WordsIn(text) \cup T = WordsIn(buf) \cup S
    BY <1>3
  <2> QED
    BY <2>1
<1> HIDE DEF T
<1>11. CASE CouldBeCall(c, before) /\ buf[start + 1].k = "oke"
  <2> DEFINE c1 == Drop(c, lost)
             c2 == EmitTextDeltaRaw(c1, before)
  <2>1. Core(c1, K)
    BY DropCore
  <2>2. Flow(c1, K, WordsIn(before) \cup T, A) /\ OnlyWrites(c, c1)
    <3> DEFINE V == WordsIn(before) \cup T
    <3>1. WordsIn(lost) \cup V = WordsIn(text) \cup T
      BY <1>6
    <3>2. WordsIn(lost) \cap V = {}
      BY <1>6, <1>8, <1>9 DEF Before
    <3> HIDE DEF V
    <3>3. Flow(c, K, WordsIn(lost) \cup V, A)
      BY <1>10, <3>1
    <3> QED
      BY <1>2, <3>2, <3>3, DropFlow DEF V
  <2>3. c1.invoke_sniff_buffer = <<>>
    BY <2>2 DEF OnlyWrites
  <2> HIDE DEF c1
  <2>4. Before(WordsIn(before), T)
    BY <1>6, <1>8 DEF Before
  <2>5. Flow(c2, K, T, A) /\ OnlyWrites(c1, c2)
    BY <1>6, <1>7, <2>1, <2>2, <2>3, <2>4, EmitFlow
  <2>6. Core(c2, K)
    BY <1>1, <1>7, <2>1, EmitTextCore
  <2>7. d = EmitCompletedToolUse(c2, RecoveredId(buf[start]))
    BY <1>7, <1>11 DEF TakeInvoke, c2, c1, lost
  <2> HIDE DEF c2, d
  <2>8. Silent(c2, d)
    BY <2>6, <2>7, SilentCall
  <2>9. Flow(d, K, T, A) /\ OnlyWrites(c, d)
    BY <2>2, <2>5, <2>8, SilentFlow, WritesMore
  <2> QED
    BY <2>9 DEF d, T, rest, before
<1>12. CASE ~ (CouldBeCall(c, before) /\ buf[start + 1].k = "oke")
  <2>1. d = EmitTextDeltaRaw(c, text)
    BY <1>12 DEF TakeInvoke, text
  <2>2. Flow(d, K, T, A) /\ OnlyWrites(c, d)
    BY <1>3, <1>4, <1>8, <1>10, <2>1, EmitFlow
  <2> QED
    BY <2>2 DEF d, T, rest, before
<1> QED
  BY <1>11, <1>12

(* What the drain has reached: the words of the rest of its buffer are next.   *)
DrainFlow(c, s, K, S, A) ==
    /\ Rising(s.buf) /\ Before(WordsIn(s.buf), S)
    /\ Flow(s.ctx, K, WordsIn(s.buf) \cup S, A)
    /\ OnlyWrites(c, s.ctx)

LEMMA StartIsInvoke ==
    ASSUME NEW K, NEW buf \in Texts(K), FindInvokeStart(buf) # 0
    PROVE  FindInvokeStart(buf) \in 1 .. Len(buf) /\ buf[FindInvokeStart(buf)].k = "inv"
<1> DEFINE S == {i \in InvokeOpens(buf) : ~ QuotedBefore(buf, i)}
<1>1. Len(buf) \in Nat
  BY TextLen
<1>2. S \subseteq {i \in 1 .. Len(buf) - 1 : buf[i].k = "inv"}
  BY PairsIn DEF InvokeOpens
<1>3. S \subseteq Nat /\ \A i \in S : i \in 1 .. Len(buf) /\ buf[i].k = "inv"
  BY <1>1, <1>2
<1>4. FirstOf(S) = 0 \/ FirstOf(S) \in S
  BY <1>3, FirstIn
<1> QED
  BY <1>3, <1>4 DEF FindInvokeStart

LEMMA DrainNextFlow ==
    ASSUME NEW c, NEW K, Core(c, K), c.invoke_sniff_buffer = <<>>,
           NEW s, Draining(c, s, K), NEW S, NEW A, DrainFlow(c, s, K, S, A)
    PROVE  DrainFlow(c, DrainNext(s), K, S, A)
<1> DEFINE buf == s.buf
           start == FindInvokeStart(buf)
           end == FindInvokeBlockEnd(buf, start)
           before == StripTrailingStray(Upto(buf, start - 1))
<1>1. CASE start = 0 \/ end = 0
  BY <1>1 DEF DrainNext
<1>2. CASE ~ (start = 0 \/ end = 0)
  <2>1. /\ buf \in Texts(K) /\ Len(buf) \in Nat /\ Core(s.ctx, K)
        /\ Rising(buf) /\ Before(WordsIn(buf), S) /\ Flow(s.ctx, K, WordsIn(buf) \cup S, A)
        /\ OnlyWrites(c, s.ctx) /\ s.ctx.invoke_sniff_buffer = <<>>
    BY TextLen DEF Draining, DrainFlow, OnlyWrites
  <2>2. start \in 1 .. Len(buf) /\ buf[start].k = "inv"
    BY <1>2, <2>1, StartIsInvoke
  <2>3. DrainNext(s) = [ctx |-> TakeInvoke(s.ctx, buf, before, start, end),
                        buf |-> From(buf, end + 1)]
    BY <1>2 DEF DrainNext
  <2> HIDE DEF start, buf
  <2>4. end \in start .. Len(buf)
    BY <1>2, <2>1, <2>2, EndIs
  <2>5. PICK m \in 0 .. start - 1 : before = Upto(buf, m)
    BY <2>1, <2>2, BeforePrefix
  <2> HIDE DEF end, before
  <2> DEFINE d == TakeInvoke(s.ctx, buf, before, start, end)
             rest == From(buf, end + 1)
  <2>6. Flow(d, K, WordsIn(rest) \cup S, A) /\ OnlyWrites(s.ctx, d)
    BY <2>1, <2>2, <2>4, <2>5, TakeFlow
  <2>7. Rising(rest) /\ WordsIn(rest) \subseteq WordsIn(buf)
    <3>1. end \in 0 .. Len(buf)
      BY <2>1, <2>2, <2>4
    <3> QED
      BY <2>1, <3>1, SplitWords
  <2> HIDE DEF d, rest
  <2>8. Before(WordsIn(rest), S) /\ OnlyWrites(c, d)
    BY <2>1, <2>6, <2>7, WritesMore DEF Before
  <2>9. DrainNext(s) = [ctx |-> d, buf |-> rest]
    BY <2>3 DEF d, rest
  <2> QED
    BY <2>6, <2>7, <2>8, <2>9 DEF DrainFlow
<1> QED
  BY <1>1, <1>2

LEMMA DrainBlocksFlow ==
    ASSUME NEW c, NEW K, Core(c, K), c.invoke_sniff_buffer = <<>>, NEW buf \in Texts(K),
           Rising(buf), NEW S, NEW A, Flow(c, K, WordsIn(buf) \cup S, A), Before(WordsIn(buf), S)
    PROVE  LET s == DrainBlocks(c, buf) IN Draining(c, s, K) /\ DrainFlow(c, s, K, S, A)
<1> DEFINE n == Len(buf)
           m == CHOOSE m : DrainUpto(m, c, buf, n)
<1>1. n \in Nat
  BY TextLen
<1>2. DrainUpto(m, c, buf, n)
  BY <1>1, DrainExists
<1>3. DrainBlocks(c, buf) = m[n]
  BY Zenon DEF DrainBlocks, DrainUpto
<1> HIDE DEF m, n
<1> DEFINE G == {k \in 0 .. n : Draining(c, m[k], K) /\ DrainFlow(c, m[k], K, S, A)}
<1>4. 0 \in G
  <2>1. m[0] = [ctx |-> c, buf |-> buf]
    BY <1>1, <1>2 DEF DrainUpto
  <2>2. TextStep(c, c) /\ OnlyWrites(c, c)
    BY TextStepNothing, WritesNothing
  <2>3. Draining(c, m[0], K)
    BY <2>1, <2>2 DEF Draining
  <2>4. DrainFlow(c, m[0], K, S, A)
    BY <2>1, <2>2 DEF DrainFlow
  <2> QED
    BY <1>1, <2>3, <2>4
<1>5. ASSUME NEW k \in 1 .. n, k - 1 \in G PROVE k \in G
  <2>1. m[k] = DrainNext(m[k - 1])
    BY <1>1, <1>2 DEF DrainUpto
  <2>2. Draining(c, m[k - 1], K) /\ DrainFlow(c, m[k - 1], K, S, A)
    BY <1>5
  <2>3. Draining(c, m[k], K) /\ DrainFlow(c, m[k], K, S, A)
    BY <2>1, <2>2, DrainNextCore, DrainNextFlow
  <2> QED
    BY <2>3
<1>6. \A k \in 0 .. n : k \in G
  <2> HIDE DEF G
  <2> QED
    BY <1>1, <1>4, <1>5, UpTo
<1>7. n \in G
  BY <1>1, <1>6
<1> QED
  BY <1>3, <1>7

LEMMA HoldFlow ==
    ASSUME NEW c, NEW K, Core(c, K), NEW buf, Rising(buf), NEW S, NEW A,
           Flow(c, K, WordsIn(buf) \cup S, A), Before(WordsIn(buf), S),
           c.invoke_sniff_buffer = <<>>
    PROVE  LET d == HoldInvoke(c, buf)
           IN Flow(d, K, S, A) /\ Thought(d) = Thought(c) /\ d.invoke_sniff_buffer = buf
<1> DEFINE d == HoldInvoke(c, buf)
           V == WordsIn(buf)
<1>1. /\ d.invoke_sniff_buffer = buf /\ d.out = c.out /\ d.dropped = c.dropped
      /\ d.filter = c.filter /\ d.repeat_tripped = c.repeat_tripped
      /\ d.mixed = c.mixed
  BY CoreBlocks DEF HoldInvoke, Fields
<1> HIDE DEF d
<1>2. Written(d) = Written(c) /\ Thought(d) = Thought(c)
  BY <1>1 DEF Written, Thought
<1>3. Ordered(Written(c), Thought(c), {}, V \cup S, c.dropped, A)
  BY NoWords DEF Flow
<1> HIDE DEF V
<1>4. Ordered(Written(c), Thought(c), V, S, c.dropped, A)
  <2>1. Before(V, S)
    BY DEF V
  <2> QED
    BY <1>3, <2>1, SomeHeld
<1>5. Flow(d, K, S, A)
  BY <1>1, <1>2, <1>4 DEF Flow, V, Untouched, Paced
<1> QED
  BY <1>1, <1>2, <1>5 DEF d

LEMMA DrainRestFlow ==
    ASSUME NEW c, NEW K, Core(c, K), c.invoke_sniff_buffer = <<>>,
           NEW s, Draining(c, s, K), NEW S, NEW A, DrainFlow(c, s, K, S, A),
           NEW flush \in BOOLEAN
    PROVE  LET d == DrainRest(s, flush)
           IN /\ Flow(d, K, S, A) /\ Thought(d) = Thought(c)
              /\ flush => d.invoke_sniff_buffer = <<>>
<1> DEFINE buf == s.buf
           x == s.ctx
           start == FindInvokeStart(buf)
           before == StripTrailingStray(Upto(buf, start - 1))
           upto == Len(buf) - IF flush THEN 0 ELSE PartialInvokeTagSuffix(buf)
           d == DrainRest(s, flush)
<1>1. /\ buf \in Texts(K) /\ Len(buf) \in Nat /\ Core(x, K)
      /\ Rising(buf) /\ Before(WordsIn(buf), S) /\ Flow(x, K, WordsIn(buf) \cup S, A)
      /\ x.invoke_sniff_buffer = <<>> /\ Thought(x) = Thought(c)
  BY TextLen DEF Draining, DrainFlow, OnlyWrites
<1>2. d = IF start # 0 THEN HoldOpenInvoke(x, buf, before, start, flush)
          ELSE HoldInvoke(EmitTextDeltaRaw(x, Upto(buf, upto)), From(buf, upto + 1))
  BY DEF DrainRest
<1>3. start # 0 => start \in 1 .. Len(buf)
  BY <1>1, StartIs
<1>4. start = 0 => upto \in 0 .. Len(buf)
  BY <1>1, SuffixIs
<1> DEFINE i == IF start # 0 THEN start - 1 ELSE upto
           text == Upto(buf, i)
           rest == From(buf, i + 1)
           T == WordsIn(rest) \cup S
           y == EmitTextDeltaRaw(x, text)
<1>5. \/ d = EmitTextDeltaRaw(x, buf) /\ start # 0
      \/ d = EmitTextDeltaRaw(y, rest) /\ start # 0
      \/ d = HoldInvoke(y, rest) /\ (flush => start = 0)
  <2>1. CASE start # 0
    <3>1. start \in 1 .. Len(buf) /\ i = start - 1 /\ i + 1 = start
      BY <1>1, <1>3, <2>1
    <3>2. text = Upto(buf, start - 1) /\ rest = From(buf, start)
      BY <3>1
    <3> HIDE DEF text, rest, start, before, d
    <3>3. d = HoldOpenInvoke(x, buf, before, start, flush)
      BY <1>2, <2>1
    <3> QED
      BY <2>1, <3>2, <3>3 DEF HoldOpenInvoke
  <2>2. CASE start = 0
    BY <1>2, <2>2
  <2> QED
    BY <2>1, <2>2
<1>6. i \in 0 .. Len(buf)
  BY <1>1, <1>3, <1>4
<1>7. flush /\ start = 0 => i = Len(buf)
  BY <1>1
<1> HIDE DEF d, x, buf, i, start
<1>8. /\ WordsIn(text) \cup WordsIn(rest) = WordsIn(buf) /\ Rising(text) /\ Rising(rest)
      /\ Before(WordsIn(text), WordsIn(rest))
  BY <1>1, <1>6, SplitWords
<1>9. text \in Texts(K) /\ rest \in Texts(K)
  BY <1>1, <1>6, UptoIs, FromIs
<1>10. flush /\ start = 0 => rest = <<>>
  <2> SUFFICES ASSUME i = Len(buf) PROVE rest = <<>>
    BY <1>7
  <2>1. rest \in Texts(K) /\ Len(rest) = 0
    BY <1>1, FromIs
  <2> HIDE DEF rest
  <2> QED
    BY <2>1, EmptySeq DEF Texts
<1> HIDE DEF text, rest
<1>11. CASE d = EmitTextDeltaRaw(x, buf)
  <2>1. Flow(d, K, S, A) /\ OnlyWrites(x, d)
    BY <1>1, <1>11, EmitFlow
  <2> QED
    BY <1>1, <2>1 DEF OnlyWrites, d
<1>12. /\ Flow(y, K, T, A) /\ OnlyWrites(x, y) /\ Core(y, K)
       /\ Before(WordsIn(rest), S)
  <2>1. WordsIn(text) \cup T = WordsIn(buf) \cup S
    BY <1>8
  <2>2. Before(WordsIn(text), T) /\ Before(WordsIn(rest), S)
    BY <1>1, <1>8 DEF Before
  <2> HIDE DEF T
  <2>3. Flow(x, K, WordsIn(text) \cup T, A)
    BY <1>1, <2>1
  <2>4. Flow(y, K, T, A) /\ OnlyWrites(x, y)
    BY <1>1, <1>8, <1>9, <2>2, <2>3, EmitFlow
  <2>5. Core(y, K)
    BY <1>1, <1>9, TextLen, EmitTextCore
  <2> QED
    BY <2>2, <2>4, <2>5
<1>13. y.invoke_sniff_buffer = <<>> /\ Thought(y) = Thought(c)
  BY <1>1, <1>12 DEF OnlyWrites
<1> HIDE DEF y
<1>14. CASE d = EmitTextDeltaRaw(y, rest)
  <2>1. Flow(d, K, S, A) /\ OnlyWrites(y, d)
    BY <1>8, <1>9, <1>12, <1>13, <1>14, EmitFlow
  <2> QED
    BY <1>13, <2>1 DEF OnlyWrites, d
<1>15. CASE d = HoldInvoke(y, rest) /\ (flush => start = 0)
  <2>1. Flow(d, K, S, A) /\ Thought(d) = Thought(y) /\ d.invoke_sniff_buffer = rest
    BY <1>8, <1>12, <1>13, <1>15, HoldFlow
  <2> QED
    BY <1>10, <1>13, <1>15, <2>1 DEF d
<1> QED
  BY <1>5, <1>11, <1>14, <1>15

LEMMA DrainSniffFlow ==
    ASSUME NEW c, NEW K, Core(c, K), NEW S, NEW A, Flow(c, K, S, A), NEW flush \in BOOLEAN
    PROVE  LET d == DrainInvokeSniffBuffer(c, flush)
           IN /\ Flow(d, K, S, A) /\ Thought(d) = Thought(c)
              /\ flush => d.invoke_sniff_buffer = <<>>
<1> DEFINE buf == c.invoke_sniff_buffer
           c1 == HoldInvoke(c, <<>>)
           s == DrainBlocks(c1, buf)
           V == WordsIn(buf)
<1>1. /\ c1.invoke_sniff_buffer = <<>> /\ c1.out = c.out /\ c1.dropped = c.dropped
      /\ c1.filter = c.filter /\ c1.repeat_tripped = c.repeat_tripped
      /\ c1.mixed = c.mixed
  BY CoreBlocks DEF HoldInvoke, Fields
<1>2. Core(c1, K)
  BY NothingIs, HoldCore
<1>3. buf \in Texts(K) /\ Rising(buf)
  BY DEF Core, Worded, Flow
<1> HIDE DEF c1
<1>4. Written(c1) = Written(c) /\ Thought(c1) = Thought(c)
  BY <1>1 DEF Written, Thought
<1>5. Ordered(Written(c), Thought(c), V, S, c.dropped, A) /\ Before(V, S)
  BY DEF Flow, Ordered
<1>6. Ordered(Written(c), Thought(c), {}, V \cup S, c.dropped, A)
  <2> HIDE DEF V
  <2> QED
    BY <1>5, SomeHeld
<1>7. Flow(c1, K, V \cup S, A)
  BY <1>1, <1>4, <1>6, NoWords DEF Flow, Untouched, Paced
<1> HIDE DEF buf
<1>8. Draining(c1, s, K) /\ DrainFlow(c1, s, K, S, A)
  BY <1>1, <1>2, <1>3, <1>5, <1>7, DrainBlocksFlow
<1> HIDE DEF s
<1>9. /\ Flow(DrainRest(s, flush), K, S, A) /\ Thought(DrainRest(s, flush)) = Thought(c)
      /\ flush => DrainRest(s, flush).invoke_sniff_buffer = <<>>
  BY <1>1, <1>2, <1>4, <1>8, DrainRestFlow
<1> QED
  BY <1>9 DEF DrainInvokeSniffBuffer, s, c1, buf

(* create_text_delta_events sends or holds the words of the text.              *)
LEMMA CreateFlow ==
    ASSUME NEW c, NEW K, Core(c, K), NEW text \in Texts(K), Rising(text), NEW S, NEW A,
           Flow(c, K, WordsIn(text) \cup S, A), Before(WordsIn(text), S)
    PROVE  LET d == CreateTextDeltaEvents(c, text)
           IN Flow(d, K, S, A) /\ Thought(d) = Thought(c)
<1> DEFINE d == CreateTextDeltaEvents(c, text)
<1>1. CASE text = <<>>
  <2>1. d = c /\ WordsIn(text) \cup S = S
    BY <1>1, NoWords DEF CreateTextDeltaEvents
  <2> QED
    BY <2>1
<1>2. CASE text # <<>>
  <2> DEFINE old == c.invoke_sniff_buffer
             buf == old \o text
             c1 == HoldInvoke(c, buf)
             I == WordsIn(old)
             V == WordsIn(text)
  <2>1. old \in Texts(K) /\ Rising(old)
    BY DEF Core, Worded, Flow
  <2>2. Ordered(Written(c), Thought(c), I, V \cup S, c.dropped, A)
    BY DEF Flow
  <2>3. Before(I, V)
    BY <2>2 DEF Ordered, Before
  <2> HIDE DEF old
  <2>4. buf \in Texts(K) /\ WordsIn(buf) = I \cup V /\ Rising(buf)
    BY <2>1, <2>3, JoinedIs, JoinedWords
  <2>5. Core(c1, K)
    BY <2>4, HoldCore
  <2>6. /\ c1.invoke_sniff_buffer = buf /\ c1.out = c.out /\ c1.dropped = c.dropped
        /\ c1.filter = c.filter /\ c1.repeat_tripped = c.repeat_tripped
        /\ c1.mixed = c.mixed
    BY CoreBlocks DEF HoldInvoke, Fields
  <2> HIDE DEF c1, buf
  <2>7. Written(c1) = Written(c) /\ Thought(c1) = Thought(c)
    BY <2>6 DEF Written, Thought
  <2>8. Ordered(Written(c), Thought(c), I \cup V, S, c.dropped, A)
    <3> HIDE DEF I, V
    <3>1. Before(V, S)
      BY DEF V
    <3> QED
      BY <2>2, <3>1 DEF Ordered, Before
  <2>9. Flow(c1, K, S, A)
    BY <2>4, <2>6, <2>7, <2>8 DEF Flow, Untouched, Paced
  <2>10. d = DrainInvokeSniffBuffer(c1, FALSE)
    BY <1>2 DEF CreateTextDeltaEvents, c1, buf, old
  <2> HIDE DEF d
  <2>11. Flow(d, K, S, A) /\ Thought(d) = Thought(c1)
    BY <2>5, <2>9, <2>10, DrainSniffFlow
  <2> QED
    BY <2>7, <2>11 DEF d
<1> QED
  BY <1>1, <1>2

-------------------------------------------------------------------------------
(* Thinking.                                                                   *)

FlowFields == {"out", "invoke_sniff_buffer", "dropped", "repeat_tripped", "filter", "mixed"}

LEMMA FlowKept ==
    ASSUME NEW c, NEW d, NEW F, Keeps(c, d, F), F \cap FlowFields = {}
    PROVE  /\ \A K, R, A : Flow(c, K, R, A) => Flow(d, K, R, A)
           /\ Thought(d) = Thought(c) /\ (Paced(d) <=> Paced(c))
<1>1. /\ d.out = c.out /\ d.invoke_sniff_buffer = c.invoke_sniff_buffer
      /\ d.dropped = c.dropped /\ d.repeat_tripped = c.repeat_tripped /\ d.filter = c.filter
      /\ d.mixed = c.mixed
  BY DEF Keeps, Fields, FlowFields
<1> QED
  BY <1>1 DEF Flow, Written, Thought, Untouched, Paced

(* The text path leaves the thinking alone.                                    *)
ThinkingSame(c, d) ==
    /\ d.thinking_buffer = c.thinking_buffer /\ d.filter = c.filter
    /\ d.thinking_enabled = c.thinking_enabled
    /\ d.thinking_extracted = c.thinking_extracted
    /\ d.in_thinking_block = c.in_thinking_block
    /\ d.thinking_block_index = c.thinking_block_index
    /\ Paced(d) <=> Paced(c)

LEMMA CreateSame ==
    ASSUME NEW c, NEW K, Core(c, K), NEW text \in Texts(K)
    PROVE  ThinkingSame(c, CreateTextDeltaEvents(c, text))
<1> DEFINE d == CreateTextDeltaEvents(c, text)
<1>1. TextStep(c, d)
  BY CreateCore
<1> HIDE DEF d
<1>2. ThinkingSame(c, d)
  BY <1>1 DEF TextStep, TextFields, Keeps, Fields, ThinkingSame, Paced
<1> QED
  BY <1>2 DEF d

(* Words go to the client's thinking.                                          *)
LEMMA ThinkingDeltaSays ==
    ASSUME NEW c, DOMAIN c = Fields, IsSeq(c.out), c.thinking_block_index # 0,
           NEW text, Rising(text)
    PROVE  LET d == ThinkingDelta(c, text)
           IN /\ Written(d) = Written(c) /\ Thought(d) = Thought(c) \cup WordsIn(text)
              /\ Keeps(c, d, {"out"}) /\ IsSeq(d.out)
              /\ d.invoke_sniff_buffer = c.invoke_sniff_buffer /\ d.dropped = c.dropped
              /\ d.repeat_tripped = c.repeat_tripped /\ d.filter = c.filter
              /\ Paced(d) <=> Paced(c)
              /\ SentInOrder(c.out, "text") => SentInOrder(d.out, "text")
              /\ SentInOrder(c.out, "thinking") /\ Before(Thought(c), WordsIn(text))
                    => SentInOrder(d.out, "thinking")
<1> DEFINE e == [ev |-> "thinking", at |-> c.thinking_block_index, data |-> text]
           d == ThinkingDelta(c, text)
           o == c.out
<1>1. d = Emit(c, e)
  BY DEF ThinkingDelta
<1>2. e.ev = "thinking" /\ e.data = text
  OBVIOUS
<1> HIDE DEF e, d
<1>3. Keeps(c, d, {"out"}) /\ d.out = Append(o, e)
  BY <1>1 DEF Emit, Keeps, Fields
<1>4. /\ d.invoke_sniff_buffer = c.invoke_sniff_buffer /\ d.dropped = c.dropped
      /\ d.repeat_tripped = c.repeat_tripped /\ d.filter = c.filter /\ d.mixed = c.mixed
  BY <1>3 DEF Keeps, Fields
<1> DEFINE kind == "thinking"
<1>5. e.ev = kind /\ IsSeq(o) /\ "text" # kind
  BY <1>2
<1>6. /\ SentWords(Append(o, e), kind) = SentWords(o, kind) \cup WordsIn(e.data)
      /\ SentInOrder(o, kind) /\ Rising(e.data) /\ Before(SentWords(o, kind), WordsIn(e.data))
           => SentInOrder(Append(o, e), kind)
      /\ IsSeq(Append(o, e))
  <2> HIDE DEF o, kind
  <2> QED
    BY <1>5, OneDelta
<1>7. /\ SentWords(Append(o, e), "text") = SentWords(o, "text")
      /\ SentInOrder(o, "text") => SentInOrder(Append(o, e), "text")
  <2>1. Adds(o, Append(o, e), {e.ev})
    BY <1>5, AppendAdds
  <2>2. "text" \notin {e.ev}
    BY <1>5
  <2> HIDE DEF o, kind
  <2> QED
    BY <2>1, <2>2, OtherEvents
<1> HIDE DEF o
<1>8. Written(d) = Written(c) /\ Thought(d) = Thought(c) \cup WordsIn(text)
  BY <1>2, <1>3, <1>6, <1>7 DEF Written, Thought, o
<1>9. /\ SentInOrder(c.out, "text") => SentInOrder(d.out, "text")
      /\ SentInOrder(c.out, "thinking") /\ Before(Thought(c), WordsIn(text))
            => SentInOrder(d.out, "thinking")
  BY <1>2, <1>3, <1>6, <1>7 DEF Thought, o
<1>10. IsSeq(d.out)
  BY <1>3, <1>6 DEF o
<1> QED
  BY <1>3, <1>4, <1>8, <1>9, <1>10 DEF d, Paced

LEMMA ThinkingDeltaFlow ==
    ASSUME NEW c, DOMAIN c = Fields, IsSeq(c.out), c.thinking_block_index # 0,
           NEW text, Rising(text), NEW K, NEW S, NEW A,
           Flow(c, K, WordsIn(text) \cup S, A), Before(WordsIn(text), S),
           Paced(c) => Before(Thought(c), WordsIn(text))
    PROVE  LET d == ThinkingDelta(c, text)
           IN /\ Flow(d, K, S, A) /\ Thought(d) = Thought(c) \cup WordsIn(text)
              /\ Keeps(c, d, {"out"}) /\ IsSeq(d.out) /\ (Paced(d) <=> Paced(c))
<1> DEFINE d == ThinkingDelta(c, text)
           V == WordsIn(text)
<1>1. /\ Written(d) = Written(c) /\ Thought(d) = Thought(c) \cup V
      /\ Keeps(c, d, {"out"}) /\ IsSeq(d.out)
      /\ d.invoke_sniff_buffer = c.invoke_sniff_buffer /\ d.dropped = c.dropped
      /\ d.repeat_tripped = c.repeat_tripped /\ d.filter = c.filter
      /\ Paced(d) <=> Paced(c)
      /\ SentInOrder(c.out, "text") => SentInOrder(d.out, "text")
      /\ SentInOrder(c.out, "thinking") /\ Before(Thought(c), V) => SentInOrder(d.out, "thinking")
  BY ThinkingDeltaSays
<1> HIDE DEF d
<1>2. Ordered(Written(c), Thought(c) \cup V, WordsIn(c.invoke_sniff_buffer), S, c.dropped, A)
  <2>1. Ordered(Written(c), Thought(c), WordsIn(c.invoke_sniff_buffer), V \cup S, c.dropped, A)
    BY DEF Flow
  <2>2. Before(V, S)
    OBVIOUS
  <2> HIDE DEF V
  <2> QED
    BY <2>1, <2>2, SomeThought
<1>3. SentInOrder(d.out, "text") /\ (Paced(d) => SentInOrder(d.out, "thinking"))
  BY <1>1 DEF Flow
<1>4. Flow(d, K, S, A)
  BY <1>1, <1>2, <1>3 DEF Flow, Untouched
<1> QED
  BY <1>1, <1>4 DEF d

(* Words go to the client's thinking as they arrive, past those held back.     *)
LEMMA ThinkingAside ==
    ASSUME NEW c, DOMAIN c = Fields, IsSeq(c.out), c.thinking_block_index # 0,
           NEW text, Rising(text), NEW K, NEW R, NEW A, Flow(c, K, R, A),
           WordsIn(text) \subseteq Nat, WordsIn(text) \cap A = {},
           Before(A \ c.dropped, WordsIn(text))
    PROVE  LET d == ThinkingDelta(c, text)
           IN /\ Flow(d, K, R, A \cup WordsIn(text)) /\ Keeps(c, d, {"out"})
              /\ Paced(d) <=> Paced(c)
<1> DEFINE d == ThinkingDelta(c, text)
           V == WordsIn(text)
<1>1. /\ Written(d) = Written(c) /\ Thought(d) = Thought(c) \cup V
      /\ Keeps(c, d, {"out"})
      /\ d.invoke_sniff_buffer = c.invoke_sniff_buffer /\ d.dropped = c.dropped
      /\ d.repeat_tripped = c.repeat_tripped /\ d.filter = c.filter
      /\ Paced(d) <=> Paced(c)
      /\ SentInOrder(c.out, "text") => SentInOrder(d.out, "text")
      /\ SentInOrder(c.out, "thinking") /\ Before(Thought(c), V) => SentInOrder(d.out, "thinking")
  BY ThinkingDeltaSays
<1> HIDE DEF d
<1>2. /\ Ordered(Written(c), Thought(c), WordsIn(c.invoke_sniff_buffer), R, c.dropped, A)
      /\ V \subseteq Nat /\ V \cap A = {} /\ Before(A \ c.dropped, V)
  BY DEF Flow
<1>3. Before(Thought(c), V)
  <2> HIDE DEF V
  <2> QED
    BY <1>2, SomeArrive
<1>4. Ordered(Written(c), Thought(c) \cup V, WordsIn(c.invoke_sniff_buffer), R, c.dropped,
              A \cup V)
  <2> HIDE DEF V
  <2> QED
    BY <1>2, SomeAside
<1>5. SentInOrder(d.out, "text") /\ (Paced(d) => SentInOrder(d.out, "thinking"))
  BY <1>1, <1>3 DEF Flow
<1>6. Flow(d, K, R, A \cup V)
  BY <1>1, <1>4, <1>5 DEF Flow, Untouched
<1> QED
  BY <1>1, <1>6 DEF d

(* The signature and the stop of a thinking block say nothing.                 *)
LEMMA SilentSign ==
    ASSUME NEW c, NEW K, Core(c, K)
    PROVE  LET d == SignAndStop(c) IN Silent(c, d) /\ Keeps(c, d, {"blocks", "out"})
<1> DEFINE i == c.thinking_block_index
           t == ThinkingDelta(c, <<>>)
           e == [ev |-> "signature", at |-> i]
           s == Emit(t, e)
           d == ContentBlockStop(s, i)
<1>1. DOMAIN c = Fields /\ IsSeq(c.out)
  BY CoreBlocks
<1>2. CASE i = 0
  BY <1>2, SilentNothing DEF SignAndStop, Keeps
<1>3. CASE i # 0
  <2>1. Silent(c, t) /\ Keeps(c, t, {"out"}) /\ IsSeq(t.out)
    <3> DEFINE f == [ev |-> "thinking", at |-> i, data |-> <<>>]
    <3>1. t = Emit(c, f) /\ f.ev = "thinking" /\ f.data = <<>>
      BY <1>3 DEF ThinkingDelta
    <3> HIDE DEF f, t
    <3>2. Keeps(c, t, {"out"}) /\ t.out = Append(c.out, f)
      BY <1>1, <3>1 DEF Emit, Keeps, Fields
    <3>3. /\ t.invoke_sniff_buffer = c.invoke_sniff_buffer /\ t.dropped = c.dropped
          /\ t.repeat_tripped = c.repeat_tripped /\ t.filter = c.filter
          /\ t.thinking_buffer = c.thinking_buffer /\ t.mixed = c.mixed
      BY <3>2 DEF Keeps, Fields
    <3> DEFINE o == c.out
               kind == "thinking"
    <3>4. f.ev = kind /\ IsSeq(o) /\ "text" # kind
      BY <1>1, <3>1
    <3>5. /\ SentWords(Append(o, f), kind) = SentWords(o, kind) \cup WordsIn(f.data)
          /\ SentInOrder(o, kind) /\ Rising(f.data) /\ Before(SentWords(o, kind), WordsIn(f.data))
               => SentInOrder(Append(o, f), kind)
          /\ IsSeq(Append(o, f))
      <4> HIDE DEF o, kind
      <4> QED
        BY <3>4, OneDelta
    <3>6. /\ SentWords(Append(o, f), "text") = SentWords(o, "text")
          /\ SentInOrder(o, "text") => SentInOrder(Append(o, f), "text")
      <4>1. Adds(o, Append(o, f), {f.ev})
        BY <3>4, AppendAdds
      <4>2. "text" \notin {f.ev}
        BY <3>4
      <4> HIDE DEF o, kind
      <4> QED
        BY <4>1, <4>2, OtherEvents
    <3>7. WordsIn(f.data) = {} /\ Rising(f.data)
      BY <3>1, NoWords
    <3>8. Before(SentWords(o, kind), WordsIn(f.data))
      BY <3>7 DEF Before
    <3>9. /\ Written(t) = Written(c) /\ Thought(t) = Thought(c)
          /\ SentInOrder(c.out, "text") => SentInOrder(t.out, "text")
          /\ SentInOrder(c.out, "thinking") => SentInOrder(t.out, "thinking")
          /\ IsSeq(t.out)
      BY <3>2, <3>5, <3>6, <3>7, <3>8 DEF Written, Thought
    <3> QED
      BY <3>2, <3>3, <3>9 DEF Silent, Paced
  <2> HIDE DEF t
  <2>2. DOMAIN t = Fields
    BY <1>1, <2>1 DEF Keeps
  <2>3. e.ev \notin {"text", "thinking"}
    OBVIOUS
  <2> HIDE DEF e
  <2>4. Silent(t, s) /\ Keeps(t, s, {"out"}) /\ IsSeq(s.out)
    BY <2>1, <2>2, <2>3, SilentEmit
  <2> HIDE DEF s
  <2>5. DOMAIN s = Fields
    BY <2>2, <2>4 DEF Keeps
  <2>6. Silent(s, d) /\ Keeps(s, d, {"blocks", "out"})
    BY <2>4, <2>5, SilentStop
  <2> HIDE DEF d
  <2>7. Silent(c, d) /\ Keeps(c, d, {"blocks", "out"})
    BY <2>1, <2>4, <2>6, SilentMore DEF Keeps
  <2>8. SignAndStop(c) = d
    BY <1>3 DEF SignAndStop, d, s, e, t
  <2> QED
    BY <2>7, <2>8
<1> QED
  BY <1>2, <1>3

(* The words of a text from a position on, past pieces that are not words.     *)
LEMMA SkipWords ==
    ASSUME NEW K, NEW t \in Texts(K), NEW i \in 1 .. Len(t) + 1, NEW j \in i .. Len(t) + 1,
           \A k \in i .. j - 1 : t[k].k # "word"
    PROVE  WordsIn(From(t, j)) = WordsIn(From(t, i))
<1>1. Len(t) \in Nat /\ i \in Nat /\ j \in Nat
  BY TextLen
<1>2. ASSUME NEW m \in 1 .. Len(t) + 1
      PROVE  \A n : n \in WordsIn(From(t, m)) <=>
                      \E k \in m .. Len(t) : t[k].k = "word" /\ t[k].n = n
  <2> DEFINE b == From(t, m)
  <2>1. /\ b \in Texts(K) /\ Len(b) = Len(t) - m + 1
        /\ \A k \in 1 .. Len(b) : b[k] = t[m + k - 1]
    <3>1. /\ b \in Texts(K)
          /\ Len(b) = IF m <= Len(t) THEN Len(t) - m + 1 ELSE 0
          /\ \A k \in 1 .. Len(t) - m + 1 : b[k] = t[m + k - 1]
      BY <1>1, PartIs DEF From
    <3> HIDE DEF b
    <3> QED
      BY <1>1, <3>1
  <2> HIDE DEF b
  <2> TAKE n
  <2>2. ASSUME n \in WordsIn(b)
        PROVE  \E k \in m .. Len(t) : t[k].k = "word" /\ t[k].n = n
    <3>1. PICK k \in 1 .. Len(b) : b[k].k = "word" /\ b[k].n = n
      BY <2>1, <2>2, WordsAt
    <3>2. m + k - 1 \in m .. Len(t) /\ b[k] = t[m + k - 1]
      BY <1>1, <2>1
    <3> QED
      BY <3>1, <3>2
  <2>3. ASSUME NEW k \in m .. Len(t), t[k].k = "word", t[k].n = n
        PROVE  n \in WordsIn(b)
    <3>1. k - m + 1 \in 1 .. Len(b) /\ m + (k - m + 1) - 1 = k
      BY <1>1, <2>1
    <3>2. b[k - m + 1] = t[k]
      BY <2>1, <3>1
    <3> QED
      BY <2>1, <2>3, <3>1, <3>2, WordsAt
  <2> QED
    BY <2>2, <2>3 DEF b
<1>3. j \in 1 .. Len(t) + 1
  BY <1>1
<1>4. \A n : n \in WordsIn(From(t, j)) <=> n \in WordsIn(From(t, i))
  <2> TAKE n
  <2>1. \A k \in i .. Len(t) : t[k].k = "word" => k \in j .. Len(t)
    BY <1>1
  <2>2. \A k \in j .. Len(t) : k \in i .. Len(t)
    BY <1>1
  <2> QED
    BY <1>2, <1>3, <2>1, <2>2
<1> QED
  BY <1>4

(* Words to come after those the client has seen as thinking.                  *)
Behind(c, N) == Paced(c) => Before(Thought(c), N)

Entered(c) ==
    /\ c.thinking_block_index # 0 => c.thinking_extracted \/ c.in_thinking_block
    /\ c.in_thinking_block => c.thinking_block_index # 0

(* The words on their way, those of the thinking buffer next; the tail the     *)
(* filter keeps is a tag.  Nothing waits in the thinking buffer when thinking  *)
(* was not asked for, and a thinking block was entered or is over.             *)
Underway(c, K, A) ==
    /\ Full(c, K)
    /\ Flow(c, K, WordsIn(c.thinking_buffer), A)
    /\ Rising(c.thinking_buffer) /\ Behind(c, WordsIn(c.thinking_buffer))
    /\ WordsIn(c.filter.buffer) = {}
    /\ ~ c.thinking_enabled => c.thinking_buffer = <<>>
    /\ Entered(c)

(* After thinking, nothing waits.                                              *)
Rested(c) == c.thinking_extracted /\ ~ c.in_thinking_block => c.thinking_buffer = <<>>

LEMMA UnderwayBuffer ==
    ASSUME NEW c, NEW K, NEW A, NEW buf \in Texts(K), Full(c, K), Flow(c, K, WordsIn(buf), A),
           Rising(buf), Behind(c, WordsIn(buf)), WordsIn(c.filter.buffer) = {},
           ~ c.thinking_enabled => buf = <<>>,
           Entered(c)
    PROVE  LET d == [c EXCEPT !.thinking_buffer = buf]
           IN Underway(d, K, A) /\ Keeps(c, d, {"thinking_buffer"}) /\ d.thinking_buffer = buf
<1> DEFINE d == [c EXCEPT !.thinking_buffer = buf]
<1>1. Full(d, K) /\ Keeps(c, d, {"thinking_buffer"}) /\ d.thinking_buffer = buf
  BY FullBuffer
<1> HIDE DEF d
<1>2. {"thinking_buffer"} \cap FlowFields = {}
  BY DEF FlowFields
<1>3. Flow(d, K, WordsIn(buf), A) /\ Thought(d) = Thought(c) /\ (Paced(d) <=> Paced(c))
  BY <1>1, <1>2, FlowKept
<1>4. /\ d.filter = c.filter /\ d.thinking_enabled = c.thinking_enabled
      /\ d.thinking_block_index = c.thinking_block_index
      /\ d.thinking_extracted = c.thinking_extracted
      /\ d.in_thinking_block = c.in_thinking_block
  BY <1>1 DEF Keeps, Fields
<1> QED
  BY <1>1, <1>3, <1>4 DEF Underway, Behind, Entered, d

(* A part of the thinking buffer leaves as text, the rest stays in it.         *)
LEMMA UnderwayText ==
    ASSUME NEW c, NEW K, NEW A, Underway(c, K, A), NEW text \in Texts(K), NEW rest \in Texts(K),
           WordsIn(text) \cup WordsIn(rest) = WordsIn(c.thinking_buffer),
           Rising(text), Rising(rest), Before(WordsIn(text), WordsIn(rest)),
           ~ c.thinking_enabled => rest = <<>>,
           NEW c1, c1 = [c EXCEPT !.thinking_buffer = rest]
    PROVE  LET d == CreateTextDeltaEvents(c1, text)
           IN /\ Underway(d, K, A) /\ d.thinking_buffer = rest
              /\ d.thinking_enabled = c.thinking_enabled
              /\ d.thinking_extracted = c.thinking_extracted
              /\ d.in_thinking_block = c.in_thinking_block /\ d.filter = c.filter
<1> DEFINE d == CreateTextDeltaEvents(c1, text)
<1>1. Full(c1, K) /\ Keeps(c, c1, {"thinking_buffer"}) /\ c1.thinking_buffer = rest
  BY FullBuffer DEF Underway
<1>2. {"thinking_buffer"} \cap FlowFields = {}
  BY DEF FlowFields
<1>3. /\ Flow(c1, K, WordsIn(text) \cup WordsIn(rest), A) /\ Thought(c1) = Thought(c)
      /\ Paced(c1) <=> Paced(c)
  <2> DEFINE V == WordsIn(text) \cup WordsIn(rest)
  <2>1. Flow(c, K, V, A)
    BY DEF Underway
  <2> HIDE DEF V
  <2>2. Flow(c1, K, V, A) /\ Thought(c1) = Thought(c) /\ (Paced(c1) <=> Paced(c))
    BY <1>1, <1>2, <2>1, FlowKept
  <2> QED
    BY <2>2 DEF V
<1>4. /\ c1.filter = c.filter /\ c1.thinking_enabled = c.thinking_enabled
      /\ c1.thinking_block_index = c.thinking_block_index
      /\ c1.thinking_extracted = c.thinking_extracted
      /\ c1.in_thinking_block = c.in_thinking_block
  BY <1>1 DEF Keeps, Fields
<1>5. Flow(d, K, WordsIn(rest), A) /\ Thought(d) = Thought(c)
  BY <1>1, <1>3, CreateFlow DEF Full
<1>6. Full(d, K) /\ ThinkingSame(c1, d)
  BY <1>1, FullCreate, CreateSame DEF Full
<1> HIDE DEF d
<1>7. Underway(d, K, A)
  BY <1>1, <1>3, <1>4, <1>5, <1>6 DEF Underway, ThinkingSame, Before, Behind, Entered
<1> QED
  BY <1>1, <1>4, <1>6, <1>7 DEF d, ThinkingSame

LEMMA FlushThinkingTextWords ==
    ASSUME NEW c, NEW K, NEW A, Underway(c, K, A)
    PROVE  LET d == FlushThinkingText(c)
           IN /\ Underway(d, K, A) /\ d.thinking_buffer = <<>>
              /\ d.thinking_enabled = c.thinking_enabled
              /\ d.thinking_extracted = c.thinking_extracted
              /\ d.in_thinking_block = c.in_thinking_block /\ d.filter = c.filter
<1> DEFINE rest == <<>>
<1>1. /\ c.thinking_buffer \in Texts(K) /\ rest \in Texts(K)
      /\ Rising(c.thinking_buffer)
  BY NothingIs DEF Underway, Full, Core, Worded
<1>2. WordsIn(rest) = {} /\ Rising(rest)
  BY NoWords
<1>3. Before(WordsIn(c.thinking_buffer), WordsIn(rest))
  BY <1>2 DEF Before
<1>4. FlushThinkingText(c) =
         CreateTextDeltaEvents([c EXCEPT !.thinking_buffer = rest], c.thinking_buffer)
  BY DEF FlushThinkingText
<1>5. rest = <<>>
  OBVIOUS
<1>6. WordsIn(c.thinking_buffer) \cup WordsIn(rest) = WordsIn(c.thinking_buffer)
  BY <1>2
<1> DEFINE text == c.thinking_buffer
           c1 == [c EXCEPT !.thinking_buffer = rest]
           d == CreateTextDeltaEvents(c1, text)
<1>9. c1 = [c EXCEPT !.thinking_buffer = rest]
  OBVIOUS
<1> HIDE DEF rest, text, c1
<1>7. /\ text \in Texts(K) /\ Rising(text) /\ Before(WordsIn(text), WordsIn(rest))
      /\ WordsIn(text) \cup WordsIn(rest) = WordsIn(c.thinking_buffer)
  BY <1>1, <1>3, <1>6 DEF text
<1>8. /\ Underway(d, K, A) /\ d.thinking_buffer = rest
      /\ d.thinking_enabled = c.thinking_enabled
      /\ d.thinking_extracted = c.thinking_extracted
      /\ d.in_thinking_block = c.in_thinking_block /\ d.filter = c.filter
  <2>1. rest \in Texts(K) /\ Rising(rest) /\ (~ c.thinking_enabled => rest = <<>>)
    BY <1>1, <1>2, <1>5
  <2> HIDE DEF d
  <2> QED
    BY <1>7, <1>9, <2>1, UnderwayText DEF d
<1> QED
  BY <1>4, <1>5, <1>8 DEF text, c1

LEMMA StartTagIs ==
    ASSUME NEW K, NEW buf \in Texts(K), FindThinkingStart(buf) # 0
    PROVE  LET i == FindThinkingStart(buf)
           IN i \in 1 .. Len(buf) - 1 /\ buf[i].k = "thO" /\ buf[i + 1].k = "ing"
<1> DEFINE S == {i \in Pairs(buf, "thO", {"ing"}) : ~ QuotedBefore(buf, i) /\ ~ QuotedAfter(buf, i + 1)}
<1>1. Len(buf) \in Nat
  BY TextLen
<1>2. S \subseteq {i \in 1 .. Len(buf) - 1 : buf[i].k = "thO" /\ buf[i + 1].k = "ing"}
  BY DEF Pairs
<1>3. S \subseteq Nat
  BY <1>1, <1>2
<1>4. FirstOf(S) = 0 \/ FirstOf(S) \in S
  BY <1>3, FirstIn
<1> HIDE DEF S
<1>5. FindThinkingStart(buf) \in S
  BY <1>4 DEF FindThinkingStart, S
<1> QED
  BY <1>2, <1>5

LEMMA EndTagIs ==
    ASSUME NEW K, NEW buf \in Texts(K)
    PROVE  /\ FindThinkingEnd(buf) # 0 =>
                LET i == FindThinkingEnd(buf)
                IN /\ i \in 1 .. Len(buf) /\ i + 2 <= Len(buf)
                   /\ buf[i].k = "thC" /\ buf[i + 1].k = "ing" /\ buf[i + 2].k = "nl"
           /\ FindThinkingEndAtBufferEnd(buf) # 0 =>
                LET i == FindThinkingEndAtBufferEnd(buf)
                IN /\ i \in 1 .. Len(buf) - 1 /\ buf[i].k = "thC" /\ buf[i + 1].k = "ing"
                   /\ IsBlank(From(buf, i + 2))
<1> DEFINE S == {i \in EndTags(buf) : i + 2 <= Len(buf) /\ buf[i + 2].k = "nl"}
           T == {i \in EndTags(buf) : IsBlank(From(buf, i + 2))}
<1>1. Len(buf) \in Nat
  BY TextLen
<1>2. EndTags(buf) \subseteq {i \in 1 .. Len(buf) - 1 : buf[i].k = "thC" /\ buf[i + 1].k = "ing"}
  BY DEF EndTags, Pairs
<1>3. EndTags(buf) \subseteq Nat /\ \A i \in EndTags(buf) : i \in 1 .. Len(buf)
  BY <1>1, <1>2
<1>4. S \subseteq Nat /\ T \subseteq Nat
  BY <1>3
<1>5. (FirstOf(S) = 0 \/ FirstOf(S) \in S) /\ (FirstOf(T) = 0 \/ FirstOf(T) \in T)
  BY <1>4, FirstIn
<1>6. FindThinkingEnd(buf) = FirstOf(S) /\ FindThinkingEndAtBufferEnd(buf) = FirstOf(T)
  BY DEF FindThinkingEnd, FindThinkingEndAtBufferEnd
<1>7. FindThinkingEnd(buf) # 0 => FindThinkingEnd(buf) \in S
  BY <1>5, <1>6
<1>8. FindThinkingEndAtBufferEnd(buf) # 0 => FindThinkingEndAtBufferEnd(buf) \in T
  BY <1>5, <1>6
<1> QED
  BY <1>2, <1>3, <1>7, <1>8

(* A tagged block ends: its words up to the closing tag are in the thinking.   *)
LEMMA EndThinkingWords ==
    ASSUME NEW c, NEW K, NEW A, Underway(c, K, A), c.in_thinking_block,
           NEW end \in 1 .. Len(c.thinking_buffer)
    PROVE  LET d == EndThinking(c, end)
               rest == From(c.thinking_buffer, end)
           IN /\ Full(d, K) /\ Flow(d, K, WordsIn(rest), A)
              /\ Behind(d, WordsIn(rest)) /\ d.thinking_block_index # 0
              /\ d.thinking_buffer = c.thinking_buffer /\ d.filter = c.filter
              /\ d.thinking_enabled = c.thinking_enabled
              /\ d.in_thinking_block = FALSE /\ d.thinking_extracted = TRUE
<1> DEFINE buf == c.thinking_buffer
           text == Upto(buf, end - 1)
           rest == From(buf, end)
           S == WordsIn(rest)
           c1 == IF text = <<>> THEN c ELSE ThinkingDelta(c, text)
           c2 == [c1 EXCEPT !.in_thinking_block = FALSE, !.thinking_extracted = TRUE]
           d == SignAndStop(c2)
<1>1. /\ Core(c, K) /\ Following(c) /\ DOMAIN c = Fields /\ IsSeq(c.out)
      /\ buf \in Texts(K) /\ Len(buf) \in Nat
  BY CoreBlocks, TextLen DEF Underway, Full, Core, Worded
<1>2. Rising(buf) /\ Flow(c, K, WordsIn(buf), A) /\ Behind(c, WordsIn(buf))
  BY DEF Underway
<1>3. c.thinking_block_index # 0
  BY DEF Underway, Entered
<1>4. end \in 1 .. Len(buf)
  OBVIOUS
<1>5. /\ WordsIn(text) \cup S = WordsIn(buf) /\ Rising(text) /\ Before(WordsIn(text), S)
  <2> DEFINE i == end - 1
  <2>1. i \in 0 .. Len(buf) /\ i + 1 = end
    BY <1>1, <1>4
  <2> HIDE DEF i, buf
  <2>2. /\ WordsIn(Upto(buf, i)) \cup WordsIn(From(buf, i + 1)) = WordsIn(buf)
        /\ Rising(Upto(buf, i))
        /\ Before(WordsIn(Upto(buf, i)), WordsIn(From(buf, i + 1)))
    BY <1>1, <1>2, <2>1, SplitWords
  <2> QED
    BY <2>1, <2>2 DEF i
<1>6. EndThinking(c, end) = d
  BY DEF EndThinking
<1>7. Full(d, K) /\ d.in_thinking_block = FALSE /\ d.thinking_buffer = buf
  BY <1>6, EndThinkingFull DEF Underway
<1> HIDE DEF buf, text, rest
<1>8. Behind(c, WordsIn(text)) /\ Behind(c, S)
  <2> DEFINE H == Thought(c)
             V == WordsIn(text)
             U == WordsIn(buf)
  <2> HIDE DEF H, V, U, S
  <2>1. (Paced(c) => Before(H, U)) /\ V \cup S = U
    BY <1>2, <1>5 DEF H, V, U, Behind
  <2>2. Paced(c) => Before(H, V) /\ Before(H, S)
    BY <2>1 DEF Before
  <2> QED
    BY <2>2 DEF H, V, Behind
<1>9. /\ Flow(c1, K, S, A) /\ Behind(c1, S)
      /\ Keeps(c, c1, {"out"}) /\ Core(c1, K)
  <2>1. CASE text = <<>>
    <3>1. S = WordsIn(buf)
      BY <1>5, <2>1, NoWords
    <3> QED
      BY <1>1, <1>2, <2>1, <3>1 DEF Keeps
  <2>2. CASE text # <<>>
    <3>1. c1 = ThinkingDelta(c, text)
      BY <2>2
    <3> HIDE DEF c1, S
    <3>2. Flow(c, K, WordsIn(text) \cup S, A)
      BY <1>2, <1>5
    <3>3. /\ Flow(c1, K, S, A) /\ Thought(c1) = Thought(c) \cup WordsIn(text)
          /\ Keeps(c, c1, {"out"}) /\ (Paced(c1) <=> Paced(c))
      BY <1>1, <1>3, <1>5, <1>8, <3>1, <3>2, ThinkingDeltaFlow DEF Behind
    <3>4. Behind(c1, S)
      BY <1>5, <1>8, <3>3 DEF Before, Behind
    <3>5. Core(c1, K)
      BY <1>1, <3>1, ThinkingDeltaCore
    <3> QED
      BY <3>3, <3>4, <3>5
  <2> QED
    BY <2>1, <2>2
<1> HIDE DEF c1, S
<1>10. DOMAIN c1 = Fields
  BY <1>9, CoreBlocks
<1>11. /\ Keeps(c1, c2, {"in_thinking_block", "thinking_extracted"})
       /\ c2.thinking_extracted = TRUE
  BY <1>10 DEF Keeps, Fields
<1> HIDE DEF c2
<1>12. {"in_thinking_block", "thinking_extracted"} \cap FlowFields = {}
  BY DEF FlowFields
<1>13. Flow(c2, K, S, A) /\ Thought(c2) = Thought(c1) /\ (Paced(c2) <=> Paced(c1))
  BY <1>9, <1>11, <1>12, FlowKept
<1>14. Core(c2, K)
  BY <1>9, <1>11, CoreFree DEF Free
<1>15. Silent(c2, d) /\ Keeps(c2, d, {"blocks", "out"})
  BY <1>14, SilentSign
<1> HIDE DEF d
<1>16. Flow(d, K, S, A) /\ Behind(d, S)
  <2>1. Flow(d, K, S, A) /\ Thought(d) = Thought(c2) /\ (Paced(d) => Paced(c2))
    BY <1>13, <1>15, SilentFlow DEF Silent
  <2> QED
    BY <1>9, <1>13, <2>1 DEF Behind
<1>17. /\ d.filter = c.filter /\ d.thinking_enabled = c.thinking_enabled
       /\ d.thinking_extracted = TRUE /\ d.thinking_block_index # 0
  BY <1>3, <1>9, <1>11, <1>15 DEF Keeps, Fields
<1> QED
  BY <1>6, <1>7, <1>9, <1>16, <1>17 DEF buf, rest, S

LEMMA EndAtBufferEndWords ==
    ASSUME NEW c, NEW K, NEW A, Underway(c, K, A), c.in_thinking_block,
           FindThinkingEndAtBufferEnd(c.thinking_buffer) # 0
    PROVE  LET d == EndThinkingAtBufferEnd(c)
           IN /\ Underway(d, K, A) /\ d.thinking_buffer = <<>>
              /\ d.thinking_enabled = c.thinking_enabled
              /\ d.in_thinking_block = FALSE /\ d.filter = c.filter
<1> DEFINE buf == c.thinking_buffer
           end == FindThinkingEndAtBufferEnd(buf)
           c1 == EndThinking(c, end)
           d == [c1 EXCEPT !.thinking_buffer = <<>>]
<1>1. buf \in Texts(K) /\ Len(buf) \in Nat /\ WordsIn(c.filter.buffer) = {}
  BY TextLen DEF Underway, Full, Core, Worded
<1>2. /\ end \in 1 .. Len(buf) - 1 /\ buf[end].k = "thC" /\ buf[end + 1].k = "ing"
      /\ IsBlank(From(buf, end + 2))
  BY <1>1, EndTagIs
<1> HIDE DEF end
<1>3. end \in 1 .. Len(buf)
  BY <1>1, <1>2
<1>4. WordsIn(From(buf, end)) = {}
  <2> DEFINE j == end + 2
  <2>1. /\ end \in 1 .. Len(buf) + 1 /\ j \in end .. Len(buf) + 1
        /\ \A k \in end .. j - 1 : buf[k].k # "word"
    BY <1>1, <1>2
  <2>2. WordsIn(From(buf, j)) = {}
    BY <1>2, BlankIs
  <2> HIDE DEF j, buf
  <2> QED
    BY <1>1, <2>1, <2>2, SkipWords
<1>5. /\ Full(c1, K) /\ Flow(c1, K, {}, A) /\ c1.filter = c.filter
      /\ c1.thinking_enabled = c.thinking_enabled
      /\ c1.in_thinking_block = FALSE /\ c1.thinking_extracted = TRUE
  BY <1>3, <1>4, EndThinkingWords
<1> HIDE DEF c1
<1>6. Behind(c1, {}) /\ Entered(c1)
  BY <1>5 DEF Before, Behind, Entered
<1>7. Underway(d, K, A) /\ Keeps(c1, d, {"thinking_buffer"}) /\ d.thinking_buffer = <<>>
  <2> DEFINE b == <<>>
             e == [c1 EXCEPT !.thinking_buffer = b]
  <2>1. b \in Texts(K) /\ WordsIn(b) = {} /\ Rising(b) /\ b = <<>>
    BY NothingIs, NoWords
  <2> HIDE DEF b
  <2>2. /\ Full(c1, K) /\ Flow(c1, K, WordsIn(b), A) /\ Behind(c1, WordsIn(b))
        /\ WordsIn(c1.filter.buffer) = {} /\ (~ c1.thinking_enabled => b = <<>>)
        /\ Entered(c1)
    BY <1>1, <1>5, <1>6, <2>1
  <2> HIDE DEF e
  <2>3. Underway(e, K, A) /\ Keeps(c1, e, {"thinking_buffer"}) /\ e.thinking_buffer = b
    BY <2>1, <2>2, UnderwayBuffer DEF e
  <2> QED
    BY <2>3 DEF b, e
<1> HIDE DEF d
<1>8. /\ d.thinking_enabled = c1.thinking_enabled /\ d.in_thinking_block = c1.in_thinking_block
      /\ d.filter = c1.filter
  BY <1>7 DEF Keeps, Fields
<1> QED
  BY <1>5, <1>7, <1>8 DEF EndThinkingAtBufferEnd, d, c1, end

LEMMA EnterWords ==
    ASSUME NEW c, NEW K, NEW A, Underway(c, K, A)
    PROVE  LET d == EnterTagged(c)
           IN /\ Underway(d, K, A) /\ d.thinking_enabled = c.thinking_enabled
              /\ d.filter = c.filter
<1> DEFINE buf == c.thinking_buffer
           start == FindThinkingStart(buf)
           before == Upto(buf, start - 1)
           rest == From(buf, start + START_TAG)
           c1 == IF IsBlank(before) THEN c ELSE CreateTextDeltaEvents(c, before)
           c2 == [c1 EXCEPT !.in_thinking_block = TRUE, !.thinking_buffer = rest]
           d == EnterTagged(c)
<1>1. CASE c.in_thinking_block \/ c.thinking_extracted \/ start = 0
  BY <1>1 DEF EnterTagged
<1>2. CASE ~ (c.in_thinking_block \/ c.thinking_extracted \/ start = 0)
  <2>1. /\ buf \in Texts(K) /\ Core(c, K) /\ Len(buf) \in Nat /\ Full(c, K)
        /\ Rising(buf) /\ Flow(c, K, WordsIn(buf), A) /\ Behind(c, WordsIn(buf))
        /\ WordsIn(c.filter.buffer) = {} /\ (~ c.thinking_enabled => buf = <<>>)
    BY TextLen DEF Underway, Full, Core, Worded
  <2>2. start \in 1 .. Len(buf) - 1 /\ buf[start].k = "thO" /\ buf[start + 1].k = "ing"
    BY <1>2, <2>1, StartTagIs
  <2>3. d = StartThinkingBlock(c2)
    BY <1>2 DEF EnterTagged
  <2>4. Full(d, K)
    BY <2>1, EnterFull
  <2> HIDE DEF d, start, buf
  <2>5. /\ WordsIn(before) \cup WordsIn(rest) = WordsIn(buf) /\ Rising(before) /\ Rising(rest)
        /\ Before(WordsIn(before), WordsIn(rest))
        /\ before \in Texts(K) /\ rest \in Texts(K)
    <3> DEFINE i == start - 1
               j == start + 1
               k == start + START_TAG
    <3>1. /\ i \in 0 .. Len(buf) /\ i + 1 = start /\ j \in 0 .. Len(buf) /\ j + 1 = k
          /\ start \in 1 .. Len(buf) + 1 /\ k \in start .. Len(buf) + 1
          /\ \A m \in start .. k - 1 : buf[m].k # "word"
      BY <2>1, <2>2 DEF START_TAG
    <3>2. i \in Int /\ i <= Len(buf) /\ k \in Int /\ k >= 1
      BY <2>1, <2>2 DEF START_TAG
    <3> HIDE DEF i, j, k
    <3>3. /\ WordsIn(Upto(buf, i)) \cup WordsIn(From(buf, start)) = WordsIn(buf)
          /\ Rising(Upto(buf, i))
          /\ Before(WordsIn(Upto(buf, i)), WordsIn(From(buf, start)))
      BY <2>1, <3>1, SplitWords
    <3>4. WordsIn(From(buf, k)) = WordsIn(From(buf, start))
      BY <2>1, <3>1, SkipWords
    <3>5. Rising(From(buf, k))
      BY <2>1, <3>1, SplitWords
    <3>6. Upto(buf, i) \in Texts(K) /\ From(buf, k) \in Texts(K)
      BY <2>1, <3>2, UptoIs, FromIs
    <3> QED
      BY <3>3, <3>4, <3>5, <3>6 DEF i, k
  <2> HIDE DEF before, rest
  <2> DEFINE S == WordsIn(rest)
  <2>6. /\ Flow(c1, K, S, A) /\ Thought(c1) = Thought(c) /\ ThinkingSame(c, c1) /\ Core(c1, K)
    <3>1. CASE IsBlank(before)
      <4>1. S = WordsIn(buf)
        BY <2>5, <3>1, BlankIs
      <4> QED
        BY <2>1, <3>1, <4>1 DEF ThinkingSame
    <3>2. CASE ~ IsBlank(before)
      <4>1. c1 = CreateTextDeltaEvents(c, before)
        BY <3>2
      <4> HIDE DEF c1, S
      <4>2. Flow(c, K, WordsIn(before) \cup S, A) /\ Before(WordsIn(before), S)
        BY <2>1, <2>5 DEF S
      <4>3. Flow(c1, K, S, A) /\ Thought(c1) = Thought(c)
        BY <2>1, <2>5, <4>1, <4>2, CreateFlow
      <4>4. ThinkingSame(c, c1) /\ Core(c1, K)
        BY <2>1, <2>5, <4>1, CreateSame, CreateCore
      <4> QED
        BY <4>3, <4>4
    <3> QED
      BY <3>1, <3>2
  <2> HIDE DEF c1
  <2>7. DOMAIN c1 = Fields
    BY <2>6, CoreBlocks
  <2>8. /\ Keeps(c1, c2, {"in_thinking_block", "thinking_buffer"}) /\ c2.thinking_buffer = rest
        /\ c2.in_thinking_block = TRUE
    BY <2>7 DEF Keeps, Fields
  <2> HIDE DEF c2
  <2>9. /\ c2.filter = c.filter /\ c2.invoke_sniff_buffer = c1.invoke_sniff_buffer
        /\ c2.thinking_enabled = c.thinking_enabled
    BY <2>6, <2>8 DEF Keeps, Fields, ThinkingSame
  <2>10. Core(c2, K)
    <3>1. Worded(c2, K)
      BY <2>1, <2>5, <2>6, <2>8, <2>9 DEF Core, Worded
    <3> QED
      BY <2>6, <2>8, <3>1, CoreBuffers DEF Free, Buffers
  <2>11. Flow(c2, K, S, A) /\ Thought(c2) = Thought(c) /\ (Paced(c2) <=> Paced(c))
    <3>1. {"in_thinking_block", "thinking_buffer"} \cap FlowFields = {}
      BY DEF FlowFields
    <3> HIDE DEF S
    <3> QED
      BY <2>6, <2>8, <3>1, FlowKept DEF ThinkingSame
  <2>12. /\ Silent(c2, d) /\ Keeps(c2, d, {"blocks", "out", "has_tool_use", "thinking_block_index"})
    <3> DEFINE s == ContentBlockStart(c2, "thinking")
               e == [s EXCEPT !.thinking_block_index = Len(c2.blocks) + 1]
    <3>1. "thinking" \in BlockTypes /\ Managed(c2, {})
      BY <2>10 DEF BlockTypes, Core
    <3>2. Silent(c2, s) /\ Keeps(c2, s, {"blocks", "out", "has_tool_use"})
      BY <2>10, <3>1, SilentStart, StartKeeps
    <3> HIDE DEF s
    <3>3. DOMAIN s = Fields
      BY <2>10, <3>2, CoreBlocks DEF Keeps
    <3>4. Keeps(s, e, {"thinking_block_index"})
      BY <3>3 DEF Keeps, Fields
    <3>5. d = e
      BY <2>3 DEF StartThinkingBlock, e, s
    <3> HIDE DEF e
    <3>6. Silent(s, d)
      BY <3>4, <3>5, SilentKept DEF WordFields
    <3>7. Silent(c2, d)
      BY <3>2, <3>6, SilentMore
    <3> QED
      BY <3>2, <3>4, <3>5, <3>7 DEF Keeps
  <2>13. Flow(d, K, S, A)
    BY <2>11, <2>12, SilentFlow
  <2>14. /\ d.thinking_buffer = rest /\ d.filter = c.filter /\ Thought(d) = Thought(c)
         /\ Paced(d) => Paced(c)
    BY <2>8, <2>9, <2>11, <2>12 DEF Silent
  <2>15. d.in_thinking_block = TRUE /\ d.thinking_enabled = c.thinking_enabled
    BY <2>8, <2>9, <2>12 DEF Keeps, Fields
  <2>16. Behind(d, S) /\ Entered(d)
    <3>1. Behind(d, S)
      BY <2>1, <2>5, <2>14 DEF Before, Behind
    <3>2. d.thinking_block_index = Len(c2.blocks) + 1
      <4>1. DOMAIN ContentBlockStart(c2, "thinking") = Fields
        <5>1. "thinking" \in BlockTypes /\ Managed(c2, {})
          BY <2>10 DEF BlockTypes, Core
        <5>2. Keeps(c2, ContentBlockStart(c2, "thinking"), {"blocks", "out", "has_tool_use"})
          BY <5>1, StartKeeps
        <5> QED
          BY <2>10, <5>2, CoreBlocks DEF Keeps
      <4> QED
        BY <2>3, <4>1 DEF StartThinkingBlock, Fields
    <3>3. Len(c2.blocks) \in Nat
      BY <2>10, CoreBlocks
    <3> QED
      BY <2>15, <3>1, <3>2, <3>3 DEF Entered
  <2>17. c.thinking_enabled
    <3> SUFFICES ASSUME buf = <<>> PROVE FALSE
      BY <2>1
    <3>1. Len(buf) = 0
      OBVIOUS
    <3> QED
      BY <2>2, <3>1
  <2>18. Underway(d, K, A)
    BY <2>1, <2>4, <2>5, <2>13, <2>14, <2>15, <2>16, <2>17 DEF Underway
  <2> QED
    BY <2>14, <2>15, <2>18 DEF d
<1> QED
  BY <1>1, <1>2

LEMMA LeaveWords ==
    ASSUME NEW c, NEW K, NEW A, Underway(c, K, A)
    PROVE  LET d == LeaveTagged(c)
           IN /\ Underway(d, K, A) /\ d.thinking_enabled = c.thinking_enabled
              /\ d.filter = c.filter
<1> DEFINE buf == c.thinking_buffer
           end == FindThinkingEnd(buf)
           c1 == EndThinking(c, end)
           rest == From(c1.thinking_buffer, end + END_TAG)
           d == [c1 EXCEPT !.thinking_buffer = rest]
<1>1. CASE ~ c.in_thinking_block \/ end = 0
  BY <1>1 DEF LeaveTagged
<1>2. CASE c.in_thinking_block /\ end # 0
  <2>1. /\ buf \in Texts(K) /\ Len(buf) \in Nat /\ Rising(buf) /\ WordsIn(c.filter.buffer) = {}
        /\ (~ c.thinking_enabled => buf = <<>>)
    BY TextLen DEF Underway, Full, Core, Worded
  <2>2. /\ end \in 1 .. Len(buf) /\ end + 2 <= Len(buf)
        /\ buf[end].k = "thC" /\ buf[end + 1].k = "ing" /\ buf[end + 2].k = "nl"
    BY <1>2, <2>1, EndTagIs
  <2>3. LeaveTagged(c) = d
    BY <1>2 DEF LeaveTagged
  <2> HIDE DEF end
  <2>4. /\ Full(c1, K) /\ Flow(c1, K, WordsIn(From(buf, end)), A)
        /\ Behind(c1, WordsIn(From(buf, end)))
        /\ c1.thinking_buffer = buf /\ c1.filter = c.filter
        /\ c1.thinking_enabled = c.thinking_enabled
        /\ c1.in_thinking_block = FALSE /\ c1.thinking_extracted = TRUE
    BY <1>2, <2>2, EndThinkingWords
  <2> HIDE DEF c1
  <2>5. /\ rest \in Texts(K) /\ Rising(rest) /\ WordsIn(rest) = WordsIn(From(buf, end))
    <3> DEFINE i == end + 2
               j == end + END_TAG
    <3>1. /\ i \in 0 .. Len(buf) /\ i + 1 = j /\ j \in Int /\ j >= 1
          /\ end \in 1 .. Len(buf) + 1 /\ j \in end .. Len(buf) + 1
      BY <2>1, <2>2 DEF END_TAG
    <3>2. \A m \in end .. j - 1 : buf[m].k # "word"
      <4>1. \A m \in end .. j - 1 : m = end \/ m = end + 1 \/ m = end + 2
        BY <2>1, <2>2 DEF END_TAG
      <4> QED
        BY <2>2, <4>1
    <3> HIDE DEF i, j, buf
    <3>3. WordsIn(From(buf, j)) = WordsIn(From(buf, end))
      BY <2>1, <3>1, <3>2, SkipWords
    <3>4. Rising(From(buf, j)) /\ From(buf, j) \in Texts(K)
      BY <2>1, <3>1, SplitWords, FromIs
    <3> QED
      BY <2>4, <3>3, <3>4 DEF j
  <2>6. ~ c1.thinking_enabled => rest = <<>>
    <3> SUFFICES ASSUME buf = <<>> PROVE FALSE
      BY <2>1, <2>4
    <3>1. Len(buf) = 0
      OBVIOUS
    <3> QED
      BY <2>2, <3>1
  <2> HIDE DEF rest, buf
  <2>7. /\ Flow(c1, K, WordsIn(rest), A) /\ Behind(c1, WordsIn(rest))
        /\ WordsIn(c1.filter.buffer) = {} /\ Entered(c1)
    BY <2>1, <2>4, <2>5 DEF Entered
  <2> HIDE DEF d
  <2>8. Underway(d, K, A) /\ Keeps(c1, d, {"thinking_buffer"})
    BY <2>4, <2>5, <2>6, <2>7, UnderwayBuffer DEF d
  <2>9. d.thinking_enabled = c.thinking_enabled /\ d.filter = c.filter
    BY <2>4, <2>8 DEF Keeps, Fields
  <2> QED
    BY <2>3, <2>8, <2>9 DEF d
<1> QED
  BY <1>1, <1>2

LEMMA SendWords ==
    ASSUME NEW c, NEW K, NEW A, Underway(c, K, A)
    PROVE  LET d == SendBuffered(c)
           IN /\ Underway(d, K, A) /\ Rested(d) /\ d.thinking_enabled = c.thinking_enabled
              /\ d.filter = c.filter
<1> DEFINE buf == c.thinking_buffer
           j == Len(buf) - IF c.in_thinking_block THEN END_TAG ELSE START_TAG
           text == Upto(buf, j)
           rest == From(buf, Len(text) + 1)
           kept == [c EXCEPT !.thinking_buffer = rest]
           d == SendBuffered(c)
<1>1. /\ buf \in Texts(K) /\ Len(buf) \in Nat /\ Core(c, K) /\ Full(c, K) /\ Rising(buf)
      /\ Flow(c, K, WordsIn(buf), A) /\ Behind(c, WordsIn(buf))
      /\ WordsIn(c.filter.buffer) = {} /\ (~ c.thinking_enabled => buf = <<>>)
      /\ Entered(c)
  BY TextLen DEF Underway, Full, Core, Worded
<1>2. \/ c.in_thinking_block /\ d = c
      \/ c.in_thinking_block /\ d = ThinkingDelta(kept, text)
      \/ d = FlushThinkingText(c)
      \/ ~ c.in_thinking_block /\ ~ c.thinking_extracted /\ d = c
      \/ /\ ~ c.in_thinking_block /\ ~ c.thinking_extracted
         /\ d = CreateTextDeltaEvents(kept, text)
  <2>1. CASE c.in_thinking_block
    BY <2>1 DEF SendBuffered
  <2>2. CASE ~ c.in_thinking_block /\ c.thinking_extracted
    BY <2>2 DEF SendBuffered
  <2>3. CASE ~ c.in_thinking_block /\ ~ c.thinking_extracted
    BY <2>3 DEF SendBuffered
  <2> QED
    BY <2>1, <2>2, <2>3
<1>3. j \in Int /\ j <= Len(buf)
  <2> HIDE DEF buf
  <2>1. j = Len(buf) - 3 \/ j = Len(buf) - 2
    BY DEF END_TAG, START_TAG
  <2> HIDE DEF j
  <2> QED
    BY <1>1, <2>1
<1> HIDE DEF buf, j, d
<1> DEFINE l == IF 1 <= j THEN j ELSE 0
<1>4. l \in 0 .. Len(buf) /\ Len(text) = l /\ text \in Texts(K) /\ text = Upto(buf, l)
  <2>1. Len(text) = l /\ text \in Texts(K)
    BY <1>1, <1>3, UptoIs
  <2>2. l \in 0 .. Len(buf)
    BY <1>1, <1>3
  <2>3. text = Upto(buf, l)
    <3>1. CASE 1 <= j
      BY <3>1
    <3>2. CASE ~ (1 <= j)
      <4>1. 0 \in Int /\ 0 <= Len(buf)
        BY <1>1
      <4>2. Len(Upto(buf, 0)) = 0 /\ Upto(buf, 0) \in Texts(K)
        BY <1>1, <4>1, UptoIs
      <4> HIDE DEF text
      <4>3. text = <<>> /\ Upto(buf, 0) = <<>>
        BY <2>1, <3>2, <4>2, EmptySeq DEF Texts
      <4> QED
        BY <3>2, <4>3
    <3> QED
      BY <3>1, <3>2
  <2> QED
    BY <2>1, <2>2, <2>3
<1>5. rest = From(buf, l + 1)
  BY <1>4
<1> HIDE DEF text, rest, l
<1>6. /\ WordsIn(text) \cup WordsIn(rest) = WordsIn(buf) /\ Rising(text) /\ Rising(rest)
      /\ Before(WordsIn(text), WordsIn(rest))
  BY <1>1, <1>4, <1>5, SplitWords
<1>7. rest \in Texts(K)
  <2>1. l + 1 \in Int /\ l + 1 >= 1
    BY <1>1, <1>4
  <2> QED
    BY <1>1, <1>5, <2>1, FromIs
<1>8. ~ c.thinking_enabled => rest = <<>>
  <2> SUFFICES ASSUME buf = <<>> PROVE rest = <<>>
    BY <1>1
  <2>1. l + 1 \in Int /\ l + 1 >= 1 /\ ~ (l + 1 <= Len(buf))
    BY <1>1, <1>4
  <2>2. Len(rest) = 0
    BY <1>1, <1>5, <2>1, FromIs
  <2> QED
    BY <1>7, <2>2, EmptySeq DEF Texts
<1>9. CASE d = c
  <2>1. ~ c.thinking_extracted \/ c.in_thinking_block => Rested(c)
    BY DEF Rested
  <2>2. CASE ~ c.thinking_extracted \/ c.in_thinking_block
    BY <1>9, <2>1, <2>2 DEF d
  <2>3. CASE ~ (~ c.thinking_extracted \/ c.in_thinking_block)
    <3>1. d = FlushThinkingText(c)
      BY <2>3 DEF SendBuffered, d
    <3> QED
      BY <3>1, FlushThinkingTextWords DEF Rested, d
  <2> QED
    BY <2>2, <2>3
<1>10. CASE c.in_thinking_block /\ d = ThinkingDelta(kept, text)
  <2> DEFINE S == WordsIn(rest)
  <2>1. Full(kept, K) /\ Keeps(c, kept, {"thinking_buffer"}) /\ kept.thinking_buffer = rest
    BY <1>1, <1>7, FullBuffer
  <2> HIDE DEF kept
  <2>2. {"thinking_buffer"} \cap FlowFields = {}
    BY DEF FlowFields
  <2>3. /\ Flow(kept, K, WordsIn(text) \cup S, A) /\ Thought(kept) = Thought(c)
        /\ Paced(kept) <=> Paced(c)
    <3> DEFINE V == WordsIn(text) \cup S
    <3>1. Flow(c, K, V, A)
      BY <1>1, <1>6
    <3> HIDE DEF V
    <3>2. Flow(kept, K, V, A) /\ Thought(kept) = Thought(c) /\ (Paced(kept) <=> Paced(c))
      BY <2>1, <2>2, <3>1, FlowKept
    <3> QED
      BY <3>2 DEF V
  <2>4. /\ kept.in_thinking_block = c.in_thinking_block /\ kept.blocks = c.blocks
        /\ kept.thinking_block_index = c.thinking_block_index
        /\ kept.filter = c.filter /\ kept.thinking_enabled = c.thinking_enabled
        /\ kept.thinking_extracted = c.thinking_extracted
    BY <2>1 DEF Keeps, Fields
  <2>5. Following(kept)
    BY <1>10, <2>1, <2>4 DEF Full
  <2>6. Core(kept, K) /\ DOMAIN kept = Fields /\ IsSeq(kept.out)
    BY <2>1, CoreBlocks DEF Full
  <2>7. kept.thinking_block_index # 0
    BY <1>1, <1>10, <2>4 DEF Entered
  <2>8. Behind(kept, WordsIn(text)) /\ Behind(kept, S)
    BY <1>1, <1>6, <2>3 DEF Before, Behind
  <2> HIDE DEF S
  <2>9. Before(WordsIn(text), S)
    BY <1>6 DEF S
  <2>10. /\ Flow(d, K, S, A) /\ Thought(d) = Thought(kept) \cup WordsIn(text)
         /\ Keeps(kept, d, {"out"}) /\ (Paced(d) <=> Paced(kept))
    BY <1>6, <1>10, <2>3, <2>6, <2>7, <2>8, <2>9, ThinkingDeltaFlow DEF Behind
  <2>11. Full(d, K)
    BY <1>10, <2>1, <2>5, FullThinkingDelta
  <2>12. /\ d.thinking_buffer = rest /\ d.filter = c.filter
         /\ d.thinking_enabled = c.thinking_enabled /\ d.in_thinking_block = c.in_thinking_block
         /\ d.thinking_block_index = c.thinking_block_index
         /\ d.thinking_extracted = c.thinking_extracted
    BY <2>1, <2>4, <2>10 DEF Keeps, Fields
  <2>13. Behind(d, S) /\ Entered(d)
    <3>1. Behind(d, S)
      BY <2>8, <2>9, <2>10 DEF Before, Behind
    <3> QED
      BY <1>1, <2>12, <3>1 DEF Entered
  <2>14. Underway(d, K, A) /\ Rested(d)
    BY <1>1, <1>6, <1>8, <1>10, <2>10, <2>11, <2>12, <2>13 DEF Underway, Rested, S
  <2> QED
    BY <2>12, <2>14 DEF d
<1>11. CASE d = FlushThinkingText(c)
  BY <1>11, FlushThinkingTextWords DEF Rested, d
<1>12. CASE /\ ~ c.in_thinking_block /\ ~ c.thinking_extracted
            /\ d = CreateTextDeltaEvents(kept, text)
  <2>1. kept = [c EXCEPT !.thinking_buffer = rest]
    OBVIOUS
  <2> HIDE DEF kept
  <2>2. WordsIn(text) \cup WordsIn(rest) = WordsIn(c.thinking_buffer)
    BY <1>6 DEF buf
  <2>3. /\ Underway(d, K, A)
        /\ d.thinking_enabled = c.thinking_enabled
        /\ d.thinking_extracted = c.thinking_extracted /\ d.filter = c.filter
    BY <1>4, <1>6, <1>7, <1>8, <1>12, <2>1, <2>2, UnderwayText
  <2>4. Rested(d)
    BY <1>12, <2>3 DEF Rested
  <2> QED
    BY <2>3, <2>4 DEF d
<1> QED
  BY <1>2, <1>9, <1>10, <1>11, <1>12

(* Words arrive.                                                               *)
LEMMA ArriveFlow ==
    ASSUME NEW c, NEW K, NEW R, NEW A, Flow(c, K, R, A),
           NEW N, N \subseteq Nat, N \cap A = {}, Before(A \ c.dropped, N)
    PROVE  Flow(c, K, R \cup N, A \cup N) /\ Before(R, N) /\ Before(Thought(c), N)
<1>1. Ordered(Written(c), Thought(c), WordsIn(c.invoke_sniff_buffer), R, c.dropped, A)
  BY DEF Flow
<1>2. /\ Ordered(Written(c), Thought(c), WordsIn(c.invoke_sniff_buffer), R \cup N, c.dropped,
                 A \cup N)
      /\ Before(R, N) /\ Before(Thought(c), N)
  BY <1>1, SomeArrive
<1> QED
  BY <1>2 DEF Flow

(* Words after all others.                                                     *)
LEMMA LaterWords ==
    ASSUME NEW c, NEW K, NEW R, NEW A, Flow(c, K, R, A), NEW N, N \subseteq Nat, Before(A, N)
    PROVE  N \cap A = {} /\ \A D : Before(A \ D, N)
<1>1. A \subseteq Nat
  BY DEF Flow, Ordered
<1> QED
  BY <1>1 DEF Before

LEMMA ProcessTextWords ==
    ASSUME NEW c, NEW K, NEW A, Underway(c, K, A), Rested(c), NEW text \in Texts(K),
           Rising(text), WordsIn(text) \cap A = {}, Before(A \ c.dropped, WordsIn(text))
    PROVE  LET d == ProcessText(c, text)
           IN Underway(d, K, A \cup WordsIn(text)) /\ Rested(d) /\ d.filter = c.filter
<1> DEFINE N == WordsIn(text)
           B == A \cup N
           T == c.thinking_buffer
           d == ProcessText(c, text)
<1>1. /\ T \in Texts(K) /\ Rising(T) /\ Full(c, K) /\ Flow(c, K, WordsIn(T), A)
      /\ Behind(c, WordsIn(T)) /\ WordsIn(c.filter.buffer) = {}
      /\ (~ c.thinking_enabled => T = <<>>)
      /\ Entered(c)
  BY DEF Underway, Full, Core, Worded
<1>2. N \subseteq Nat
  BY WordsAt
<1> HIDE DEF T
<1>3. /\ Flow(c, K, WordsIn(T) \cup N, B)
      /\ Before(WordsIn(T), N) /\ Before(Thought(c), N)
  BY <1>1, <1>2, ArriveFlow
<1>4. CASE c.thinking_enabled
  <2> DEFINE buf == T \o text
             c1 == [c EXCEPT !.thinking_buffer = buf]
  <2>1. d = SendBuffered(LeaveTagged(EnterTagged(c1)))
    BY <1>4 DEF ProcessText, ProcessContentWithThinking, T
  <2>2. buf \in Texts(K) /\ WordsIn(buf) = WordsIn(T) \cup N /\ Rising(buf)
    BY <1>1, <1>3, JoinedIs, JoinedWords
  <2> HIDE DEF buf, d
  <2>3. Flow(c, K, WordsIn(buf), B) /\ Behind(c, WordsIn(buf))
    BY <1>1, <1>3, <2>2 DEF Before, Behind
  <2> HIDE DEF c1, B
  <2>4. Underway(c1, K, B)
    BY <1>1, <1>4, <2>2, <2>3, UnderwayBuffer DEF c1
  <2>5. Underway(d, K, B) /\ Rested(d) /\ d.filter = c1.filter
    BY <2>1, <2>4, EnterWords, LeaveWords, SendWords
  <2>6. c1.filter = c.filter
    <3>1. DOMAIN c = Fields
      BY <1>1, CoreBlocks DEF Full
    <3> QED
      BY <3>1 DEF c1, Fields
  <2> QED
    BY <2>5, <2>6 DEF d, B
<1>5. CASE ~ c.thinking_enabled
  <2>1. d = CreateTextDeltaEvents(c, text)
    BY <1>5 DEF ProcessText
  <2>2. T = <<>> /\ WordsIn(T) = {}
    BY <1>1, <1>5, NoWords
  <2> HIDE DEF B, d
  <2>3. Flow(c, K, WordsIn(text) \cup {}, B) /\ Before(WordsIn(text), {})
    BY <1>3, <2>2 DEF Before
  <2>4. Flow(d, K, {}, B) /\ Thought(d) = Thought(c)
    BY <1>1, <2>1, <2>3, CreateFlow DEF Full
  <2>5. Full(d, K) /\ ThinkingSame(c, d)
    BY <1>1, <2>1, FullCreate, CreateSame DEF Full
  <2>6. Underway(d, K, B) /\ Rested(d) /\ d.filter = c.filter
    BY <1>1, <2>2, <2>4, <2>5 DEF Underway, Rested, ThinkingSame, T, Before, Behind, Entered
  <2> QED
    BY <2>6 DEF d, B
<1> QED
  BY <1>4, <1>5

-------------------------------------------------------------------------------
(* The events.                                                                 *)

ThinkingFields ==
    {"thinking_buffer", "filter", "thinking_enabled", "thinking_extracted",
     "in_thinking_block", "thinking_block_index", "mixed"}

LEMMA SameKept ==
    ASSUME NEW c, NEW d, NEW F, Keeps(c, d, F), F \cap ThinkingFields = {}
    PROVE  ThinkingSame(c, d)
BY DEF Keeps, Fields, ThinkingFields, ThinkingSame, Paced

LEMMA SameMore ==
    ASSUME NEW a, NEW b, NEW c, ThinkingSame(a, b), ThinkingSame(b, c)
    PROVE  ThinkingSame(a, c)
BY DEF ThinkingSame

(* A step that says nothing leaves the words where they are.                   *)
LEMMA QuietWords ==
    ASSUME NEW c, NEW K, NEW A, Underway(c, K, A), NEW d, Full(d, K), Silent(c, d),
           ThinkingSame(c, d)
    PROVE  Underway(d, K, A) /\ (Rested(c) => Rested(d))
<1>1. Flow(d, K, WordsIn(c.thinking_buffer), A) /\ Thought(d) = Thought(c)
  BY SilentFlow DEF Underway, Silent
<1> QED
  BY <1>1 DEF Underway, Rested, ThinkingSame, Behind, Entered

LEMMA SignSame ==
    ASSUME NEW c, NEW K, Core(c, K)
    PROVE  Silent(c, SignAndStop(c)) /\ ThinkingSame(c, SignAndStop(c))
<1>1. Silent(c, SignAndStop(c)) /\ Keeps(c, SignAndStop(c), {"blocks", "out"})
  BY SilentSign
<1> QED
  BY <1>1, SameKept DEF ThinkingFields

LEMMA CloseThinkingSame ==
    ASSUME NEW c, NEW K, Core(c, K)
    PROVE  /\ Silent(c, CloseOpenThinkingBlock(c)) /\ ThinkingSame(c, CloseOpenThinkingBlock(c))
           /\ Silent(c, LeaveNativeThinking(c)) /\ ThinkingSame(c, LeaveNativeThinking(c))
<1>1. Silent(c, c) /\ ThinkingSame(c, c)
  BY SilentNothing DEF ThinkingSame
<1>2. Silent(c, CloseOpenThinkingBlock(c)) /\ ThinkingSame(c, CloseOpenThinkingBlock(c))
  BY <1>1, SignSame DEF CloseOpenThinkingBlock
<1> QED
  BY <1>1, <1>2 DEF LeaveNativeThinking

LEMMA LeaveNativeWords ==
    ASSUME NEW c, NEW K, NEW A, Underway(c, K, A)
    PROVE  /\ Underway(LeaveNativeThinking(c), K, A)
           /\ Rested(c) => Rested(LeaveNativeThinking(c))
<1>1. Full(LeaveNativeThinking(c), K) /\ Core(c, K)
  BY LeaveNativeFull DEF Underway, Full
<1>2. Silent(c, LeaveNativeThinking(c)) /\ ThinkingSame(c, LeaveNativeThinking(c))
  BY <1>1, CloseThinkingSame
<1> QED
  BY <1>1, <1>2, QuietWords

LEMMA CloseTextSame ==
    ASSUME NEW c, NEW K, Core(c, K)
    PROVE  Silent(c, CloseOpenTextBlock(c)) /\ ThinkingSame(c, CloseOpenTextBlock(c))
<1> DEFINE c1 == [c EXCEPT !.text_block_index = 0]
           i == IF IsBlockOpenOfType(c, c.text_block_index, "text") THEN c.text_block_index ELSE 0
           d == ContentBlockStop(c1, i)
<1>1. DOMAIN c = Fields /\ IsSeq(c.out)
  BY CoreBlocks
<1>2. Keeps(c, c1, {"text_block_index"}) /\ c1.out = c.out /\ DOMAIN c1 = Fields
  BY <1>1 DEF Keeps, Fields
<1> HIDE DEF c1, i
<1>3. Silent(c, c1) /\ ThinkingSame(c, c1)
  BY <1>2, SilentKept, SameKept DEF WordFields, ThinkingFields
<1>4. Silent(c1, d) /\ Keeps(c1, d, {"blocks", "out"})
  BY <1>1, <1>2, SilentStop
<1> HIDE DEF d
<1>5. ThinkingSame(c1, d)
  BY <1>4, SameKept DEF ThinkingFields
<1>6. Silent(c, d) /\ ThinkingSame(c, d)
  BY <1>3, <1>4, <1>5, SilentMore, SameMore
<1> QED
  BY <1>6 DEF CloseOpenTextBlock, d, c1, i

LEMMA StartThinkingSilent ==
    ASSUME NEW c, NEW K, Core(c, K)
    PROVE  LET d == StartThinkingBlock(c)
           IN /\ Silent(c, d)
              /\ Keeps(c, d, {"blocks", "out", "has_tool_use", "thinking_block_index"})
<1> DEFINE s == ContentBlockStart(c, "thinking")
           d == [s EXCEPT !.thinking_block_index = Len(c.blocks) + 1]
<1>1. "thinking" \in BlockTypes /\ Managed(c, {})
  BY DEF BlockTypes, Core
<1>2. Silent(c, s) /\ Keeps(c, s, {"blocks", "out", "has_tool_use"})
  BY <1>1, SilentStart, StartKeeps
<1> HIDE DEF s
<1>3. DOMAIN s = Fields
  BY <1>2, CoreBlocks DEF Keeps
<1>4. Keeps(s, d, {"thinking_block_index"})
  BY <1>3 DEF Keeps, Fields
<1>5. StartThinkingBlock(c) = d
  BY DEF StartThinkingBlock, d, s
<1> HIDE DEF d
<1>6. Silent(s, d)
  BY <1>4, SilentKept DEF WordFields
<1>7. Silent(c, d)
  BY <1>2, <1>6, SilentMore
<1> QED
  BY <1>2, <1>4, <1>5, <1>7 DEF Keeps

(* A native thinking block is open: what was buffered has been sent.           *)
LEMMA MixedWords ==
    ASSUME NEW c, NEW K, NEW A, Underway(c, K, A), NEW native
    PROVE  LET d == Mixed(c, native)
           IN /\ Underway(d, K, A) /\ (Rested(c) => Rested(d))
              /\ native = "reasoning" /\ d.in_thinking_block => ~ Paced(d)
<1> DEFINE d == Mixed(c, native)
<1>1. /\ Keeps(c, d, {"mixed"})
      /\ ~ c.in_thinking_block => d = c
      /\ c.in_thinking_block => d.mixed = c.mixed \cup {native}
  BY MixedCore DEF Underway, Full
<1>2. Full(d, K)
  BY MixedFull DEF Underway
<1> HIDE DEF d
<1>3. /\ d.out = c.out /\ d.invoke_sniff_buffer = c.invoke_sniff_buffer
      /\ d.thinking_buffer = c.thinking_buffer /\ d.filter = c.filter
      /\ d.dropped = c.dropped /\ d.repeat_tripped = c.repeat_tripped
      /\ d.thinking_enabled = c.thinking_enabled
      /\ d.thinking_extracted = c.thinking_extracted
      /\ d.in_thinking_block = c.in_thinking_block
      /\ d.thinking_block_index = c.thinking_block_index
  BY <1>1 DEF Keeps, Fields
<1>4. Paced(d) => Paced(c)
  BY <1>1 DEF Paced
<1>5. Silent(c, d)
  BY <1>3, <1>4 DEF Silent, Written, Thought
<1>6. Flow(d, K, WordsIn(c.thinking_buffer), A) /\ Thought(d) = Thought(c)
  BY <1>5, SilentFlow DEF Underway, Silent
<1>7. Underway(d, K, A)
  BY <1>2, <1>3, <1>4, <1>6 DEF Underway, Behind, Entered
<1>8. native = "reasoning" /\ d.in_thinking_block => ~ Paced(d)
  BY <1>1, <1>3 DEF Paced
<1> QED
  BY <1>3, <1>7, <1>8 DEF Rested, d

(* A native thinking block is open: what was buffered has been sent, unless    *)
(* the text is inside <thinking>.                                              *)
LEMMA EnsureThinkingWords ==
    ASSUME NEW c, NEW K, NEW A, Underway(c, K, A), Rested(c),
           c.in_thinking_block => ~ Paced(c)
    PROVE  LET d == EnsureThinkingBlock(c)
           IN /\ Underway(d, K, A) /\ Rested(d) /\ d.thinking_block_index # 0
              /\ d.in_thinking_block => ~ Paced(d)
<1> DEFINE d == EnsureThinkingBlock(c)
           T == c.thinking_buffer
<1>1. Full(d, K) /\ IsThinkingBlockOpen(d)
  BY EnsureThinkingFull DEF Underway
<1>2. /\ Full(c, K) /\ T \in Texts(K) /\ Core(c, K) /\ Core(d, K)
      /\ Flow(c, K, WordsIn(T), A) /\ WordsIn(c.filter.buffer) = {} /\ Rising(T)
  BY <1>1 DEF Underway, Full, Core, Worded
<1>3. d.thinking_block_index # 0
  <2> HIDE DEF d
  <2>1. DOMAIN d.blocks = 1 .. Len(d.blocks) /\ Len(d.blocks) \in Nat
    BY <1>2, CoreBlocks
  <2> QED
    BY <1>1, <2>1 DEF IsThinkingBlockOpen, IsBlockOpenOfType, IsOpen
<1>4. CASE IsThinkingBlockOpen(c)
  <2>1. d = c
    BY <1>4 DEF EnsureThinkingBlock
  <2> QED
    BY <1>3, <2>1
<1>5. CASE ~ IsThinkingBlockOpen(c)
  <2> DEFINE c1 == [c EXCEPT !.thinking_buffer = <<>>]
             c2 == IF IsBlank(T) THEN c1 ELSE CreateTextDeltaEvents(c1, T)
             c3 == CloseOpenTextBlock(c2)
             c4 == [c3 EXCEPT !.thinking_extracted = TRUE]
  <2>1. d = StartThinkingBlock(c4)
    BY <1>5 DEF EnsureThinkingBlock
  <2> HIDE DEF d
  <2>2. /\ Full(c1, K) /\ Keeps(c, c1, {"thinking_buffer"}) /\ c1.thinking_buffer = <<>>
    BY <1>2, NothingIs, FullBuffer
  <2> HIDE DEF c1, T
  <2>3. Flow(c1, K, WordsIn(T), A) /\ (Paced(c1) <=> Paced(c))
    <3>1. {"thinking_buffer"} \cap FlowFields = {}
      BY DEF FlowFields
    <3> QED
      BY <1>2, <2>2, <3>1, FlowKept
  <2>4. c1.filter = c.filter /\ c1.in_thinking_block = c.in_thinking_block
    BY <2>2 DEF Keeps, Fields
  <2>5. /\ Flow(c2, K, {}, A) /\ Core(c2, K) /\ c2.thinking_buffer = <<>>
        /\ c2.filter = c.filter
        /\ c2.in_thinking_block = c.in_thinking_block /\ (Paced(c2) <=> Paced(c))
    <3>1. CASE IsBlank(T)
      <4>1. WordsIn(T) = {}
        BY <3>1, BlankIs
      <4> QED
        BY <2>2, <2>3, <2>4, <3>1, <4>1 DEF Full
    <3>2. CASE ~ IsBlank(T)
      <4>1. c2 = CreateTextDeltaEvents(c1, T)
        BY <3>2
      <4> HIDE DEF c2
      <4>2. Flow(c1, K, WordsIn(T) \cup {}, A) /\ Before(WordsIn(T), {})
        BY <2>3 DEF Before
      <4>3. Flow(c2, K, {}, A)
        BY <1>2, <2>2, <4>1, <4>2, CreateFlow DEF Full
      <4>4. ThinkingSame(c1, c2) /\ Core(c2, K)
        BY <1>2, <2>2, <4>1, CreateSame, CreateCore DEF Full
      <4> QED
        BY <2>2, <2>3, <2>4, <4>3, <4>4 DEF ThinkingSame
    <3> QED
      BY <3>1, <3>2
  <2> HIDE DEF c2
  <2>6. Silent(c2, c3) /\ ThinkingSame(c2, c3) /\ Core(c3, K)
    BY <2>5, CloseTextSame, CloseTextCore
  <2> HIDE DEF c3
  <2>7. DOMAIN c3 = Fields
    BY <2>6, CoreBlocks
  <2>8. Keeps(c3, c4, {"thinking_extracted"}) /\ c4.thinking_extracted = TRUE
    BY <2>7 DEF Keeps, Fields
  <2> HIDE DEF c4
  <2>9. Silent(c3, c4) /\ Core(c4, K)
    BY <2>6, <2>8, SilentKept, CoreFree DEF WordFields, Free
  <2>10. /\ Silent(c4, d)
         /\ Keeps(c4, d, {"blocks", "out", "has_tool_use", "thinking_block_index"})
    BY <2>1, <2>9, StartThinkingSilent
  <2>11. Silent(c2, d)
    BY <2>6, <2>9, <2>10, SilentMore
  <2>12. Flow(d, K, {}, A) /\ d.thinking_buffer = <<>> /\ d.filter = c.filter
    BY <2>5, <2>11, SilentFlow DEF Silent
  <2>13. /\ d.thinking_extracted = TRUE
         /\ d.in_thinking_block = c.in_thinking_block
    <3>1. d.thinking_extracted = TRUE /\ d.in_thinking_block = c3.in_thinking_block
      BY <2>8, <2>10 DEF Keeps, Fields
    <3> QED
      BY <2>5, <2>6, <3>1 DEF ThinkingSame
  <2>14. d.in_thinking_block => ~ Paced(d)
    BY <2>5, <2>11, <2>13 DEF Silent
  <2>15. WordsIn(d.thinking_buffer) = {} /\ Rising(d.thinking_buffer)
    BY <2>12, NoWords
  <2>16. Behind(d, WordsIn(d.thinking_buffer))
    BY <2>15 DEF Behind, Before
  <2>17. Underway(d, K, A) /\ Rested(d)
    BY <1>1, <1>2, <1>3, <2>12, <2>13, <2>15, <2>16 DEF Underway, Rested, Entered
  <2> QED
    BY <1>3, <2>14, <2>17 DEF d
<1> QED
  BY <1>4, <1>5

LEMMA ReasoningWords ==
    ASSUME NEW c, NEW K, NEW A, Underway(c, K, A), Rested(c),
           NEW text \in Texts(K), Rising(text), Before(A, WordsIn(text))
    PROVE  LET d == ProcessReasoningContent(c, text)
           IN Underway(d, K, A \cup WordsIn(text)) /\ Rested(d)
<1> DEFINE N == WordsIn(text)
           B == A \cup N
           d == ProcessReasoningContent(c, text)
<1>1. N \subseteq Nat
  BY WordsAt
<1>2. CASE c.thinking_enabled
  <2> DEFINE b == Mixed(c, "reasoning")
             e == EnsureThinkingBlock(b)
             T == e.thinking_buffer
  <2>1. d = ThinkingDelta(e, text)
    BY <1>2 DEF ProcessReasoningContent
  <2>2. Underway(b, K, A) /\ Rested(b) /\ (b.in_thinking_block => ~ Paced(b))
    BY MixedWords
  <2> HIDE DEF b
  <2>3. /\ Underway(e, K, A) /\ Rested(e) /\ e.thinking_block_index # 0
        /\ e.in_thinking_block => ~ Paced(e)
    BY <2>2, EnsureThinkingWords
  <2>4. Following(e) /\ Full(e, K)
    BY <2>2, EnsureThinkingFull DEF Underway, Following
  <2> HIDE DEF d, e
  <2>5. Full(d, K)
    BY <2>1, <2>4, FullThinkingDelta
  <2>6. /\ Flow(e, K, WordsIn(T), A) /\ Rising(T) /\ WordsIn(e.filter.buffer) = {}
        /\ ~ e.thinking_enabled => T = <<>>
        /\ Entered(e)
    BY <2>3 DEF Underway
  <2>7. N \cap A = {} /\ Before(A \ e.dropped, N)
    <3>1. Before(A, N)
      OBVIOUS
    <3>2. Flow(e, K, WordsIn(T), A)
      BY <2>6
    <3> HIDE DEF N, T
    <3> QED
      BY <1>1, <3>1, <3>2, LaterWords
  <2>8. DOMAIN e = Fields /\ IsSeq(e.out)
    BY <2>4, CoreBlocks DEF Full
  <2> HIDE DEF T
  <2>9. Flow(d, K, WordsIn(T), B) /\ Keeps(e, d, {"out"}) /\ (Paced(d) <=> Paced(e))
    BY <1>1, <2>1, <2>3, <2>6, <2>7, <2>8, ThinkingAside
  <2>10. ThinkingSame(e, d)
    BY <2>9, SameKept DEF ThinkingFields
  <2>11. Behind(d, WordsIn(T))
    <3>1. CASE e.in_thinking_block
      BY <2>3, <2>9, <3>1 DEF Behind
    <3>2. CASE ~ e.in_thinking_block
      <4>1. T = <<>>
        BY <2>3, <2>6, <3>2 DEF Rested, Entered, T
      <4>2. WordsIn(T) = {}
        BY <4>1, NoWords
      <4> QED
        BY <4>2 DEF Behind, Before
    <3> QED
      BY <3>1, <3>2
  <2> HIDE DEF B
  <2>12. Underway(d, K, B) /\ Rested(d)
    BY <2>3, <2>5, <2>6, <2>9, <2>10, <2>11 DEF Underway, Rested, ThinkingSame, Entered, T
  <2> QED
    BY <2>12 DEF d, B
<1>3. CASE ~ c.thinking_enabled
  <2>1. d = ProcessText(c, text)
    BY <1>3 DEF ProcessReasoningContent, ProcessText
  <2>2. N \cap A = {} /\ Before(A \ c.dropped, N)
    <3>1. Flow(c, K, WordsIn(c.thinking_buffer), A)
      BY DEF Underway
    <3> QED
      BY <1>1, <3>1, LaterWords
  <2> QED
    BY <2>1, <2>2, ProcessTextWords
<1> QED
  BY <1>2, <1>3

LEMMA RedactedWords ==
    ASSUME NEW c, NEW K, NEW A, Underway(c, K, A)
    PROVE  LET d == ProcessRedactedContent(c)
           IN Underway(d, K, A) /\ (Rested(c) => Rested(d))
<1> DEFINE b == Mixed(c, "redacted")
           c0 == CloseOpenThinkingBlock(b)
           c1 == CloseOpenTextBlock(c0)
           s == ContentBlockStart(c1, "redacted_thinking")
           d == ContentBlockStop(s, Len(c1.blocks) + 1)
<1>1. CASE ~ c.thinking_enabled
  BY <1>1 DEF ProcessRedactedContent
<1>2. CASE c.thinking_enabled
  <2>1. Full(d, K) /\ d = ProcessRedactedContent(c)
    <3>1. d = ProcessRedactedContent(c)
      BY <1>2 DEF ProcessRedactedContent, d, s, c1, c0, b
    <3>2. Full(c, K)
      BY DEF Underway
    <3> HIDE DEF d
    <3> QED
      BY <3>1, <3>2, RedactedFull
  <2>2. Underway(b, K, A) /\ (Rested(c) => Rested(b))
    BY MixedWords
  <2> HIDE DEF b
  <2>3. Silent(b, c0) /\ ThinkingSame(b, c0) /\ Core(c0, K)
    <3>1. Core(b, K)
      BY <2>2 DEF Underway, Full
    <3>2. Core(CloseOpenThinkingBlock(b), K)
      BY <3>1, SignCore DEF CloseOpenThinkingBlock, Following
    <3> QED
      BY <3>1, <3>2, CloseThinkingSame
  <2> HIDE DEF c0
  <2>4. Silent(c0, c1) /\ ThinkingSame(c0, c1) /\ Core(c1, K)
    BY <2>3, CloseTextSame, CloseTextCore
  <2> HIDE DEF c1
  <2>5. Silent(c1, s) /\ Keeps(c1, s, {"blocks", "out", "has_tool_use"}) /\ IsSeq(s.out)
    <3>1. "redacted_thinking" \in BlockTypes /\ Managed(c1, {})
      BY <2>4 DEF BlockTypes, Core
    <3> QED
      BY <2>4, <3>1, SilentStart, StartKeeps DEF Managed
  <2> HIDE DEF s
  <2>6. DOMAIN s = Fields
    BY <2>4, <2>5, CoreBlocks DEF Keeps
  <2>7. Silent(s, d) /\ Keeps(s, d, {"blocks", "out"})
    BY <2>5, <2>6, SilentStop
  <2> HIDE DEF d
  <2>8. ThinkingSame(c1, s) /\ ThinkingSame(s, d)
    BY <2>5, <2>7, SameKept DEF ThinkingFields
  <2>9. Silent(b, d) /\ ThinkingSame(b, d)
    BY <2>3, <2>4, <2>5, <2>7, <2>8, SilentMore, SameMore
  <2> QED
    BY <2>1, <2>2, <2>9, QuietWords
<1> QED
  BY <1>1, <1>2

(* The thinking and the text before a call have been sent.                     *)
LEMMA BeforeToolWords ==
    ASSUME NEW c, NEW K, NEW A, Underway(c, K, A), Rested(c)
    PROVE  Underway(BeforeToolUse(c), K, A) /\ Rested(BeforeToolUse(c))
<1> DEFINE c1 == [c EXCEPT !.has_tool_use = TRUE]
           c2 == LeaveNativeThinking(c1)
           c3 == EndThinkingIfTagged(c2)
           c4 == FlushSniffedText(c3)
<1>1. Full(c, K) /\ DOMAIN c = Fields
  BY CoreBlocks DEF Underway, Full
<1>2. Keeps(c, c1, {"has_tool_use"})
  BY <1>1 DEF Keeps, Fields
<1> HIDE DEF c1
<1>3. Underway(c1, K, A) /\ Rested(c1)
  <2>1. Worded(c1, K)
    BY <1>1, <1>2 DEF Full, Core, Worded, Keeps, Fields
  <2>2. Full(c1, K)
    BY <1>1, <1>2, <2>1, FullBuffers DEF Free, Buffers, SettledBy
  <2>3. Silent(c, c1) /\ ThinkingSame(c, c1)
    BY <1>2, SilentKept, SameKept DEF WordFields, ThinkingFields
  <2> QED
    BY <2>2, <2>3, QuietWords
<1>4. Underway(c2, K, A) /\ Rested(c2)
  BY <1>3, LeaveNativeWords
<1> HIDE DEF c2
<1>5. Underway(c3, K, A) /\ Rested(c3)
  <2>1. CASE c2.in_thinking_block /\ FindThinkingEndAtBufferEnd(c2.thinking_buffer) # 0
    <3>1. c3 = EndThinkingAtBufferEnd(c2)
      BY <2>1 DEF EndThinkingIfTagged
    <3> HIDE DEF c3
    <3>2. Underway(c3, K, A) /\ c3.thinking_buffer = <<>>
      BY <1>4, <2>1, <3>1, EndAtBufferEndWords
    <3> QED
      BY <3>2 DEF Rested
  <2> QED
    BY <1>4, <2>1 DEF EndThinkingIfTagged
<1> HIDE DEF c3
<1>6. Underway(c4, K, A) /\ Rested(c4)
  <2>1. /\ Underway(FlushThinkingText(c3), K, A)
        /\ FlushThinkingText(c3).thinking_buffer = <<>>
    BY <1>5, FlushThinkingTextWords
  <2>2. c4 = FlushThinkingText(c3) \/ c4 = c3
    BY DEF FlushSniffedText
  <2> QED
    BY <1>5, <2>1, <2>2 DEF Rested
<1> QED
  BY <1>6 DEF BeforeToolUse, c4, c3, c2, c1

(* A change of fields that play no part in the words.                          *)
LEMMA FieldsWords ==
    ASSUME NEW c, NEW K, NEW A, Underway(c, K, A), Rested(c), NEW d, NEW F, Keeps(c, d, F),
           F \subseteq {"stop_reason", "tools"}
    PROVE  Underway(d, K, A) /\ Rested(d)
<1>1. Full(c, K)
  BY DEF Underway
<1>2. Worded(d, K)
  BY <1>1 DEF Full, Core, Worded, Keeps, Fields
<1>3. Full(d, K)
  BY <1>1, <1>2, FullBuffers DEF Free, Buffers, SettledBy
<1>4. Silent(c, d)
  <2>1. F \cap (WordFields \cup {"out"}) = {}
    BY DEF WordFields
  <2> QED
    BY <2>1, SilentKept
<1>5. ThinkingSame(c, d)
  <2>1. F \cap ThinkingFields = {}
    BY DEF ThinkingFields
  <2> QED
    BY <2>1, SameKept
<1> QED
  BY <1>3, <1>4, <1>5, QuietWords

LEMMA CompleteWords ==
    ASSUME NEW c, NEW K, NEW A, Underway(c, K, A), Rested(c), NEW id \in ToolIds, NEW whole
    PROVE  Underway(CompleteCall(c, id, whole), K, A) /\ Rested(CompleteCall(c, id, whole))
<1>1. Full(c, K) /\ Core(c, K) /\ DOMAIN c = Fields
  BY CoreBlocks DEF Underway, Full
<1>2. CASE whole
  <2> DEFINE c1 == [c EXCEPT !.done = @ \cup {id}]
             d == EmitCompletedToolUse(c1, id)
  <2>1. Keeps(c, c1, {"done"})
    BY <1>1 DEF Keeps, Fields
  <2>2. d = CompleteCall(c, id, whole)
    BY <1>2 DEF CompleteCall
  <2> HIDE DEF c1
  <2>3. Core(c1, K) /\ Silent(c, c1) /\ ThinkingSame(c, c1)
    BY <1>1, <2>1, CoreFree, SilentKept, SameKept DEF Free, WordFields, ThinkingFields
  <2>4. Silent(c1, d) /\ ToolStep(c1, d, id)
    BY <2>3, SilentCall, CallCore
  <2> HIDE DEF d
  <2>5. ThinkingSame(c1, d)
    BY <2>4, SameKept DEF ToolStep, ThinkingFields
  <2>6. Silent(c, d) /\ ThinkingSame(c, d)
    BY <2>3, <2>4, <2>5, SilentMore, SameMore
  <2>7. Full(d, K)
    BY <1>1, <2>2, CompleteFull
  <2> QED
    BY <2>2, <2>6, <2>7, QuietWords
<1>3. CASE ~ whole
  <2> DEFINE d == SetToolJsonError([c EXCEPT !.spoilt = @ \cup {id}])
  <2>1. Keeps(c, d, {"spoilt", "tool_json_error", "stop_reason"})
    BY <1>1 DEF SetToolJsonError, Keeps, Fields
  <2>2. d = CompleteCall(c, id, whole)
    BY <1>3 DEF CompleteCall
  <2> HIDE DEF d
  <2>3. Silent(c, d) /\ ThinkingSame(c, d)
    BY <2>1, SilentKept, SameKept DEF WordFields, ThinkingFields
  <2>4. Full(d, K)
    BY <1>1, <2>2, CompleteFull
  <2> QED
    BY <2>2, <2>3, <2>4, QuietWords
<1> QED
  BY <1>2, <1>3

LEMMA ToolUseWords ==
    ASSUME NEW c, NEW K, NEW A, Underway(c, K, A), Rested(c), NEW id \in ToolIds, NEW whole,
           NEW stop
    PROVE  LET d == TakeFragment(c, id, whole, stop) IN Underway(d, K, A) /\ Rested(d)
<1> DEFINE rest == [i \in DOMAIN c.tools \ {id} |-> c.tools[i]]
           more == [i \in DOMAIN c.tools \cup {id} |-> IF i = id THEN whole ELSE c.tools[i]]
           c1 == [c EXCEPT !.tools = rest]
           c2 == [c EXCEPT !.tools = more]
           d == TakeFragment(c, id, whole, stop)
<1>1. DOMAIN c = Fields
  BY CoreBlocks DEF Underway, Full
<1>2. d = IF stop THEN CompleteCall(c1, id, whole) ELSE c2
  BY DEF TakeFragment
<1> HIDE DEF rest, more, d
<1>3. Keeps(c, c1, {"tools"}) /\ Keeps(c, c2, {"tools"})
  BY <1>1 DEF Keeps, Fields
<1> HIDE DEF c1, c2
<1>4. Underway(c1, K, A) /\ Rested(c1) /\ Underway(c2, K, A) /\ Rested(c2)
  BY <1>3, FieldsWords
<1>5. Underway(d, K, A) /\ Rested(d)
  BY <1>2, <1>4, CompleteWords
<1> QED
  BY <1>5 DEF d

-------------------------------------------------------------------------------
(* The filter of <tool_use> XML: U are the words of the text it scans.         *)

Scanned(s, K, U) ==
    /\ s \in Scans(K)
    /\ Rising(s.out) /\ Rising(s.rest) /\ Before(WordsIn(s.out), WordsIn(s.rest))
    /\ WordsIn(s.lost) \cap (WordsIn(s.out) \cup WordsIn(s.rest)) = {}
    /\ U = WordsIn(s.out) \cup WordsIn(s.lost) \cup WordsIn(s.rest)
    /\ K \subseteq PlainKinds => ~ s.stripping /\ s.lost = <<>>

(* A beginning of the rest passes or is lost.                                  *)
LEMMA PassedWords ==
    ASSUME NEW K, NEW U, NEW s, Scanned(s, K, U), NEW text \in Texts(K), NEW d \in Scans(K),
           Rising(text), Rising(d.rest), Before(WordsIn(text), WordsIn(d.rest)),
           WordsIn(s.rest) = WordsIn(text) \cup WordsIn(d.rest),
           d.out = Passed(s, text).out, d.lost = Passed(s, text).lost,
           K \subseteq PlainKinds => ~ d.stripping
    PROVE  Scanned(d, K, U)
<1>1. /\ s.out \in Texts(K) /\ s.lost \in Texts(K) /\ d.rest \in Texts(K)
      /\ s.stripping \in BOOLEAN
  BY DEF Scanned, Scans
<1>2. /\ d.out = IF s.stripping THEN s.out ELSE s.out \o text
      /\ d.lost = IF s.stripping THEN s.lost \o text ELSE s.lost
  BY DEF Passed, Scanned, Scans
<1>3. WordsIn(text) \subseteq Nat /\ WordsIn(d.rest) \subseteq Nat /\ WordsIn(s.out) \subseteq Nat
  BY <1>1, WordsAt
<1>4. Before(WordsIn(s.out), WordsIn(text)) /\ Before(WordsIn(s.out), WordsIn(d.rest))
  BY DEF Scanned, Before
<1>5. CASE s.stripping
  <2>1. WordsIn(d.lost) = WordsIn(s.lost) \cup WordsIn(text)
    BY <1>1, <1>2, <1>5, JoinedWords
  <2>2. WordsIn(text) \cap WordsIn(d.rest) = {} /\ WordsIn(text) \cap WordsIn(s.out) = {}
    BY <1>3, <1>4 DEF Before
  <2>3. d.out = s.out
    BY <1>2, <1>5
  <2>4. ~ (K \subseteq PlainKinds)
    BY <1>5 DEF Scanned
  <2> QED
    BY <1>4, <2>1, <2>2, <2>3, <2>4 DEF Scanned
<1>6. CASE ~ s.stripping
  <2>1. WordsIn(d.out) = WordsIn(s.out) \cup WordsIn(text) /\ Rising(d.out)
    BY <1>1, <1>2, <1>4, <1>6, JoinedWords DEF Scanned
  <2>2. Before(WordsIn(d.out), WordsIn(d.rest))
    BY <1>4, <2>1 DEF Before
  <2>3. d.lost = s.lost
    BY <1>2, <1>6
  <2> QED
    BY <1>4, <2>1, <2>2, <2>3 DEF Scanned
<1> QED
  BY <1>5, <1>6

LEMMA StripNextWords ==
    ASSUME NEW K, NEW U, NEW s, Scanned(s, K, U)
    PROVE  Scanned(StripNext(s), K, U)
<1> DEFINE S == Pairs(s.rest, LeakTag(s), {"use"})
           at == FirstOf(S)
           text == Upto(s.rest, at - 1)
           rest == From(s.rest, at + 2)
           p == Passed(s, text)
<1>1. /\ s.rest \in Texts(K) /\ Len(s.rest) \in Nat /\ s.stripping \in BOOLEAN
      /\ Rising(s.rest)
  BY TextLen DEF Scanned, Scans
<1>2. CASE at = 0
  BY <1>2 DEF StripNext
<1>3. CASE at # 0
  <2>1. at \in 1 .. Len(s.rest) - 1 /\ s.rest[at].k = LeakTag(s) /\ s.rest[at + 1].k = "use"
    <3>1. S \subseteq Nat
      BY <1>1 DEF Pairs
    <3>2. at \in S
      <4> HIDE DEF S
      <4> QED
        BY <1>3, <3>1, FirstIn
    <3> QED
      BY <3>2 DEF Pairs
  <2>2. StripNext(s) = [p EXCEPT !.rest = rest, !.stripping = ~ s.stripping]
    BY <1>3 DEF StripNext
  <2> HIDE DEF S, at
  <2>3. s.rest[at].k # "word" /\ s.rest[at + 1].k # "word" /\ s.rest[at].k \notin PlainKinds
    BY <2>1 DEF LeakTag, PlainKinds
  <2>4. ~ (K \subseteq PlainKinds)
    <3>1. s.rest[at].k \in K
      BY <1>1, <2>1, TextLen
    <3> QED
      BY <2>3, <3>1
  <2>5. /\ at - 1 \in 0 .. Len(s.rest) /\ at + 1 \in 0 .. Len(s.rest)
        /\ at \in 1 .. Len(s.rest) + 1 /\ at + 2 \in at .. Len(s.rest) + 1
        /\ (at - 1) + 1 = at /\ (at + 1) + 1 = at + 2
    BY <1>1, <2>1
  <2>6. WordsIn(rest) = WordsIn(From(s.rest, at))
    <3>1. \A k \in at .. (at + 2) - 1 : s.rest[k].k # "word"
      BY <1>1, <2>1, <2>3
    <3> QED
      BY <1>1, <2>5, <3>1, SkipWords
  <2>7. /\ WordsIn(text) \cup WordsIn(From(s.rest, at)) = WordsIn(s.rest)
        /\ Rising(text) /\ Before(WordsIn(text), WordsIn(From(s.rest, at)))
    <3>1. /\ WordsIn(text) \cup WordsIn(From(s.rest, (at - 1) + 1)) = WordsIn(s.rest)
          /\ Rising(text) /\ Before(WordsIn(text), WordsIn(From(s.rest, (at - 1) + 1)))
      BY <1>1, <2>5, SplitWords
    <3> QED
      BY <2>5, <3>1
  <2>8. Rising(rest)
    <3>1. Rising(From(s.rest, (at + 1) + 1))
      BY <1>1, <2>5, SplitWords
    <3> QED
      BY <2>5, <3>1
  <2>9. text \in Texts(K) /\ rest \in Texts(K)
    <3>1. at - 1 \in Int /\ at - 1 <= Len(s.rest) /\ at + 2 \in Int /\ at + 2 >= 1
      BY <1>1, <2>1
    <3> QED
      BY <1>1, <3>1, UptoIs, FromIs
  <2> HIDE DEF text, rest
  <2> DEFINE d == [p EXCEPT !.rest = rest, !.stripping = ~ s.stripping]
  <2>10. /\ d \in Scans(K) /\ d.rest = rest /\ d.out = p.out /\ d.lost = p.lost
    <3>1. s \in Scans(K)
      BY DEF Scanned
    <3>2. p \in Scans(K)
      BY <2>9, <3>1, PassedIs
    <3> HIDE DEF p
    <3> QED
      BY <2>9, <3>2 DEF Scans
  <2>11. StripNext(s) = d
    BY <2>2
  <2>12. WordsIn(s.rest) = WordsIn(text) \cup WordsIn(d.rest)
    BY <2>6, <2>7, <2>10
  <2>13. Rising(text) /\ Rising(d.rest) /\ Before(WordsIn(text), WordsIn(d.rest))
    BY <2>6, <2>7, <2>8, <2>10
  <2>14. d.out = Passed(s, text).out /\ d.lost = Passed(s, text).lost
    BY <2>10
  <2> HIDE DEF d
  <2>15. Scanned(d, K, U)
    BY <2>4, <2>9, <2>10, <2>12, <2>13, <2>14, PassedWords
  <2> QED
    BY <2>11, <2>15
<1> QED
  BY <1>2, <1>3

LEMMA StripLeaksWords ==
    ASSUME NEW K, NEW text \in Texts(K), Rising(text), NEW stripping \in BOOLEAN,
           K \subseteq PlainKinds => ~ stripping
    PROVE  Scanned(StripLeaks(text, stripping), K, WordsIn(text))
<1> DEFINE n == Len(text)
           m == CHOOSE m : StripUpto(m, text, stripping, n)
           U == WordsIn(text)
<1>1. n \in Nat
  BY TextLen
<1>2. StripUpto(m, text, stripping, n)
  BY <1>1, StripExists
<1>3. StripLeaks(text, stripping) = m[n]
  BY Zenon DEF StripLeaks, StripUpto
<1> HIDE DEF m, n
<1> DEFINE G == {k \in 0 .. n : Scanned(m[k], K, U)}
<1>4. 0 \in G
  <2>1. m[0] = [rest |-> text, out |-> <<>>, lost |-> <<>>, stripping |-> stripping]
    BY <1>1, <1>2 DEF StripUpto
  <2>2. m[0] \in Scans(K)
    BY <2>1, NothingIs DEF Scans
  <2>3. Scanned(m[0], K, U)
    BY <2>1, <2>2, NoWords DEF Scanned, Before
  <2> QED
    BY <1>1, <2>3
<1>5. ASSUME NEW k \in 1 .. n, k - 1 \in G PROVE k \in G
  <2>1. m[k] = StripNext(m[k - 1])
    BY <1>1, <1>2 DEF StripUpto
  <2>2. Scanned(m[k], K, U)
    BY <1>5, <2>1, StripNextWords
  <2> QED
    BY <1>1, <2>2
<1>6. \A k \in 0 .. n : k \in G
  <2> HIDE DEF G
  <2> QED
    BY <1>1, <1>4, <1>5, UpTo
<1> QED
  BY <1>1, <1>3, <1>6

(* The words of the content pass or are discarded, and the tail that is kept   *)
(* is at most half a tag.                                                      *)
LEMMA FilterWords ==
    ASSUME NEW K, NEW f \in [buffer : Texts(K), stripping : BOOLEAN], WordsIn(f.buffer) = {},
           K \subseteq PlainKinds => ~ f.stripping, NEW content \in Texts(K), Rising(content)
    PROVE  LET r == Filter(f, content)
           IN /\ r.out \in Texts(K) /\ r.dropped \in Texts(K)
              /\ r.filter \in [buffer : Texts(K), stripping : BOOLEAN]
              /\ Rising(r.out) /\ WordsIn(r.filter.buffer) = {}
              /\ WordsIn(r.out) \cap WordsIn(r.dropped) = {}
              /\ WordsIn(r.out) \cup WordsIn(r.dropped) = WordsIn(content)
              /\ K \subseteq PlainKinds => ~ r.filter.stripping /\ WordsIn(r.dropped) = {}
<1> DEFINE t == f.buffer \o content
           s == StripLeaks(t, f.stripping)
           keep == Len(s.rest) - KeptTag(s)
           text == Upto(s.rest, keep)
           rest == From(s.rest, keep + 1)
           end == Passed(s, text)
           d == [end EXCEPT !.rest = rest, !.stripping = s.stripping]
           U == WordsIn(content)
<1>1. Filter(f, content) = [out |-> end.out, dropped |-> end.lost,
                            filter |-> [buffer |-> rest, stripping |-> s.stripping]]
  BY DEF Filter, StripRest
<1>2. t \in Texts(K) /\ WordsIn(t) = U /\ Rising(t)
  <2>1. f.buffer \in Texts(K)
    OBVIOUS
  <2>2. Rising(f.buffer)
    BY <2>1, WordsAt
  <2>3. Before(WordsIn(f.buffer), U)
    BY DEF Before
  <2>4. t \in Texts(K)
    BY <2>1, JoinedIs
  <2>6. WordsIn(t) = WordsIn(f.buffer) \cup U
    BY <2>1, JoinedWords
  <2>5. Rising(t)
    BY <2>1, <2>2, <2>3, JoinedWords
  <2> QED
    BY <2>4, <2>5, <2>6
<1> HIDE DEF t
<1>3. Scanned(s, K, U)
  BY <1>2, StripLeaksWords
<1> HIDE DEF s
<1>4. /\ s.rest \in Texts(K) /\ Len(s.rest) \in Nat /\ s.stripping \in BOOLEAN
      /\ Rising(s.rest)
  BY <1>3, TextLen DEF Scanned, Scans
<1>5. /\ keep \in 0 .. Len(s.rest)
      /\ \A k \in keep + 1 .. Len(s.rest) : s.rest[k].k # "word"
  <2>1. s.rest = <<>> \/ Len(s.rest) > 0
    BY <1>4 DEF Texts
  <2>2. Len(<<>>) = 0
    OBVIOUS
  <2>3. \/ KeptTag(s) = 0
        \/ KeptTag(s) = 1 /\ Len(s.rest) > 0 /\ s.rest[Len(s.rest)].k # "word"
    BY <2>1 DEF KeptTag, Last, LeakTag
  <2> QED
    BY <1>4, <2>3
<1> HIDE DEF keep
<1>6. text \in Texts(K) /\ rest \in Texts(K)
  <2>1. keep \in Int /\ keep <= Len(s.rest) /\ keep + 1 \in Int /\ keep + 1 >= 1
    BY <1>4, <1>5
  <2> QED
    BY <1>4, <2>1, UptoIs, FromIs
<1>7. /\ WordsIn(text) \cup WordsIn(rest) = WordsIn(s.rest)
      /\ Rising(text) /\ Rising(rest) /\ Before(WordsIn(text), WordsIn(rest))
  BY <1>4, <1>5, SplitWords
<1>8. WordsIn(rest) = {}
  <2> DEFINE i == keep + 1
             j == Len(s.rest) + 1
  <2>1. i \in 1 .. Len(s.rest) + 1 /\ j \in i .. Len(s.rest) + 1
    BY <1>4, <1>5
  <2>2. \A k \in i .. j - 1 : s.rest[k].k # "word"
    BY <1>4, <1>5
  <2>3. WordsIn(From(s.rest, j)) = WordsIn(From(s.rest, i))
    <3> HIDE DEF i, j
    <3> QED
      BY <1>4, <2>1, <2>2, SkipWords
  <2>4. From(s.rest, j) = <<>>
    <3>1. j \in Int /\ j >= 1 /\ ~ (j <= Len(s.rest))
      BY <1>4
    <3> HIDE DEF j
    <3>2. From(s.rest, j) \in Texts(K) /\ Len(From(s.rest, j)) = 0
      BY <1>4, <3>1, FromIs
    <3> QED
      BY <3>2 DEF Texts
  <2> QED
    BY <2>3, <2>4, NoWords
<1> HIDE DEF text, rest
<1>9. K \subseteq PlainKinds => ~ s.stripping
  BY <1>3 DEF Scanned
<1>10. s \in Scans(K)
  BY <1>3 DEF Scanned
<1>11. /\ end \in Scans(K) /\ d \in Scans(K) /\ d.rest = rest
       /\ d.out = end.out /\ d.lost = end.lost /\ d.stripping = s.stripping
  <2>1. end \in Scans(K)
    BY <1>6, <1>10, PassedIs
  <2> HIDE DEF end
  <2> QED
    BY <1>4, <1>6, <2>1 DEF Scans
<1>12. Scanned(d, K, U)
  <2>1. WordsIn(s.rest) = WordsIn(text) \cup WordsIn(d.rest)
    BY <1>7, <1>11
  <2>2. Rising(text) /\ Rising(d.rest) /\ Before(WordsIn(text), WordsIn(d.rest))
    BY <1>7, <1>11
  <2>3. /\ d.out = Passed(s, text).out /\ d.lost = Passed(s, text).lost
        /\ K \subseteq PlainKinds => ~ d.stripping
    BY <1>9, <1>11
  <2> HIDE DEF U, end, d
  <2> QED
    BY <1>3, <1>6, <1>11, <2>1, <2>2, <2>3, PassedWords
<1> HIDE DEF d
<1>13. /\ end.out \in Texts(K) /\ end.lost \in Texts(K)
  BY <1>11 DEF Scans
<1>14. /\ Rising(end.out) /\ WordsIn(end.lost) \cap WordsIn(end.out) = {}
       /\ U = WordsIn(end.out) \cup WordsIn(end.lost)
       /\ K \subseteq PlainKinds => end.lost = <<>>
  BY <1>8, <1>11, <1>12 DEF Scanned
<1> HIDE DEF end
<1> QED
  BY <1>1, <1>4, <1>6, <1>8, <1>9, <1>13, <1>14, NoWords

(* Words that are discarded as they arrive: no room is made for them.          *)
Loses(c, d, N, K, A) ==
    /\ N \subseteq Nat /\ N \cap A = {}
    /\ Keeps(c, d, {"filter", "dropped"}) /\ d.dropped = c.dropped \cup N
    /\ K \subseteq PlainKinds => N = {} /\ ~ d.filter.stripping

LEMMA LoseFlow ==
    ASSUME NEW c, NEW K, NEW R, NEW A, Flow(c, K, R, A), NEW N, NEW d, Loses(c, d, N, K, A)
    PROVE  Flow(d, K, R, A \cup N) /\ Thought(d) = Thought(c) /\ (Paced(d) <=> Paced(c))
<1>1. /\ d.out = c.out /\ d.invoke_sniff_buffer = c.invoke_sniff_buffer
      /\ d.repeat_tripped = c.repeat_tripped /\ d.mixed = c.mixed
  BY DEF Loses, Keeps, Fields
<1>2. Ordered(Written(c), Thought(c), WordsIn(c.invoke_sniff_buffer), R, c.dropped \cup N, A \cup N)
  <2>1. Ordered(Written(c), Thought(c), WordsIn(c.invoke_sniff_buffer), R, c.dropped, A)
    BY DEF Flow
  <2> QED
    BY <2>1, SomeLost DEF Loses
<1>3. Written(d) = Written(c) /\ Thought(d) = Thought(c)
  BY <1>1 DEF Written, Thought
<1>4. K \subseteq PlainKinds => Untouched(d)
  BY <1>1 DEF Loses, Flow, Untouched
<1> QED
  BY <1>1, <1>2, <1>3, <1>4 DEF Loses, Flow, Paced

LEMMA LostWords ==
    ASSUME NEW c, NEW K, NEW A, Underway(c, K, A), Rested(c), NEW N, NEW d, Loses(c, d, N, K, A),
           d.filter \in [buffer : Texts(K), stripping : BOOLEAN], WordsIn(d.filter.buffer) = {}
    PROVE  Underway(d, K, A \cup N) /\ Rested(d)
<1> DEFINE T == c.thinking_buffer
<1>1. Full(c, K) /\ Keeps(c, d, {"filter", "dropped"})
  BY DEF Underway, Loses
<1>2. /\ d.thinking_buffer = T /\ d.invoke_sniff_buffer = c.invoke_sniff_buffer
      /\ d.thinking_enabled = c.thinking_enabled /\ d.thinking_extracted = c.thinking_extracted
      /\ d.in_thinking_block = c.in_thinking_block
      /\ d.thinking_block_index = c.thinking_block_index
  BY <1>1 DEF Keeps, Fields
<1>3. Full(d, K)
  <2>1. Worded(d, K)
    BY <1>1, <1>2 DEF Full, Core, Worded
  <2> QED
    BY <1>1, <2>1, FullBuffers DEF Free, Buffers, SettledBy
<1>4. Flow(d, K, WordsIn(T), A \cup N) /\ Thought(d) = Thought(c) /\ (Paced(d) <=> Paced(c))
  <2> DEFINE R == WordsIn(T)
  <2>1. Flow(c, K, R, A)
    BY DEF Underway
  <2> HIDE DEF R
  <2>2. Flow(d, K, R, A \cup N) /\ Thought(d) = Thought(c) /\ (Paced(d) <=> Paced(c))
    BY <2>1, LoseFlow
  <2> QED
    BY <2>2 DEF R
<1> QED
  BY <1>2, <1>3, <1>4 DEF Underway, Rested, Behind, Entered

LEMMA FilteredWords ==
    ASSUME NEW c, NEW K, NEW A, Underway(c, K, A), Rested(c), NEW r, NEW N, N = WordsIn(r.dropped),
           N \subseteq Nat, N \cap A = {}, r.filter \in [buffer : Texts(K), stripping : BOOLEAN],
           WordsIn(r.filter.buffer) = {}, K \subseteq PlainKinds => ~ r.filter.stripping /\ N = {}
    PROVE  LET d == Filtered(c, r)
           IN Underway(d, K, A \cup N) /\ Rested(d) /\ d.dropped = c.dropped \cup N
<1> DEFINE d == Filtered(c, r)
           M == N
<1>1. DOMAIN c = Fields
  BY CoreBlocks DEF Underway, Full
<1>2. Keeps(c, d, {"filter", "dropped"}) /\ d.filter = r.filter /\ d.dropped = c.dropped \cup N
  BY <1>1 DEF Keeps, Fields, Filtered, Drop
<1> HIDE DEF d
<1>3. Loses(c, d, M, K, A) /\ WordsIn(d.filter.buffer) = {}
  BY <1>2 DEF Loses
<1>4. d.filter \in [buffer : Texts(K), stripping : BOOLEAN]
  BY <1>2
<1> HIDE DEF M
<1>5. Underway(d, K, A \cup M) /\ Rested(d)
  BY <1>3, <1>4, LostWords
<1> QED
  BY <1>2, <1>5 DEF d, M

(* The words of a text event: what the filter lets through is processed.       *)
LEMMA AssistantWords ==
    ASSUME NEW c, NEW K, NEW A, Underway(c, K, A), Rested(c), NEW content \in Texts(K),
           Rising(content), Before(A, WordsIn(content))
    PROVE  LET d == ProcessAssistantResponse(c, content)
           IN Underway(d, K, A \cup WordsIn(content)) /\ Rested(d)
<1> DEFINE f == c.filter
           r == Filter(f, content)
           O == WordsIn(r.out)
           L == WordsIn(r.dropped)
           N == WordsIn(content)
           B == A \cup L
           c1 == Filtered(c, r)
           c2 == LeaveNativeThinking(c1)
           d == ProcessFiltered(c1, r.out)
<1>1. /\ f \in [buffer : Texts(K), stripping : BOOLEAN] /\ WordsIn(f.buffer) = {}
      /\ K \subseteq PlainKinds => ~ f.stripping
  BY DEF Underway, Full, Core, Worded, Flow, Untouched
<1>2. A \subseteq Nat /\ N \cap A = {} /\ N \subseteq Nat
  <2>1. N \subseteq Nat
    BY WordsAt
  <2>2. Flow(c, K, WordsIn(c.thinking_buffer), A)
    BY DEF Underway
  <2>3. A \subseteq Nat
    BY <2>2 DEF Flow, Ordered
  <2>4. N \cap A = {}
    BY <2>1, <2>2, LaterWords
  <2> QED
    BY <2>1, <2>3, <2>4
<1>3. d = ProcessAssistantResponse(c, content)
  BY DEF ProcessAssistantResponse
<1> HIDE DEF f
<1>4. /\ r.out \in Texts(K) /\ r.filter \in [buffer : Texts(K), stripping : BOOLEAN]
      /\ Rising(r.out) /\ WordsIn(r.filter.buffer) = {} /\ O \cap L = {} /\ O \cup L = N
      /\ K \subseteq PlainKinds => ~ r.filter.stripping /\ L = {}
  BY <1>1, FilterWords
<1> HIDE DEF r, N, d
<1>5. L \subseteq Nat /\ L \cap A = {} /\ L = WordsIn(r.dropped)
  BY <1>2, <1>4
<1>6. Underway(c1, K, B) /\ Rested(c1) /\ c1.dropped = c.dropped \cup L
  <2> HIDE DEF L
  <2> QED
    BY <1>4, <1>5, FilteredWords
<1> HIDE DEF c1, L, O, B
<1>7. CASE r.out = <<>>
  <2>1. d = c1
    BY <1>7 DEF d, ProcessFiltered
  <2>2. B = A \cup N
    BY <1>4, <1>7, NoWords DEF O, B
  <2> QED
    BY <1>3, <1>6, <2>1, <2>2 DEF N
<1>8. CASE r.out # <<>>
  <2>1. d = ProcessText(c2, r.out)
    BY <1>8 DEF d, ProcessFiltered
  <2>2. Underway(c2, K, B) /\ Rested(c2)
    BY <1>6, LeaveNativeWords
  <2>3. c2.dropped = c.dropped \cup L
    <3>1. Core(c1, K)
      BY <1>6 DEF Underway, Full
    <3> QED
      BY <1>6, <3>1, CloseThinkingSame DEF Silent
  <2> HIDE DEF c2
  <2>4. O \cap B = {} /\ Before(B \ c2.dropped, O)
    <3>1. B \ c2.dropped \subseteq A
      BY <2>3 DEF B
    <3>2. Before(A, O)
      BY <1>4 DEF Before, N
    <3> QED
      BY <1>2, <1>4, <3>1, <3>2 DEF B, Before
  <2>5. Underway(d, K, B \cup O) /\ Rested(d)
    BY <1>4, <2>1, <2>2, <2>4, ProcessTextWords DEF O
  <2>6. B \cup O = A \cup N
    BY <1>4 DEF B
  <2> QED
    BY <1>3, <2>5, <2>6 DEF N
<1> QED
  BY <1>7, <1>8

(* Every event: its words are on their way.                                    *)
LEMMA EventWords ==
    ASSUME NEW c, NEW K, NEW A, Underway(c, K, A), Rested(c), NEW e, EventOK(e, K),
           Rising(EventText(e)), Before(A, WordsIn(EventText(e)))
    PROVE  LET d == ProcessKiroEvent(c, e)
           IN Underway(d, K, A \cup WordsIn(EventText(e))) /\ Rested(d)
<1> DEFINE d == ProcessKiroEvent(c, e)
<1>1. CASE e.type = "text" /\ e.text \in Texts(K)
  <2>1. d = ProcessAssistantResponse(c, e.text) /\ EventText(e) = e.text
    BY <1>1 DEF ProcessKiroEvent, EventText
  <2> HIDE DEF d
  <2>2. Underway(d, K, A \cup WordsIn(e.text)) /\ Rested(d)
    BY <1>1, <2>1, AssistantWords
  <2> QED
    BY <2>1, <2>2 DEF d
<1>2. CASE e.type = "reasoning" /\ e.text \in Texts(K)
  <2>1. d = ProcessReasoningContent(c, e.text) /\ EventText(e) = e.text
    BY <1>2 DEF ProcessKiroEvent, EventText
  <2> HIDE DEF d
  <2>2. Underway(d, K, A \cup WordsIn(e.text)) /\ Rested(d)
    BY <1>2, <2>1, ReasoningWords
  <2> QED
    BY <2>1, <2>2 DEF d
<1>3. ASSUME e.type \notin {"text", "reasoning"}
      PROVE  A \cup WordsIn(EventText(e)) = A
  BY <1>3, NoWords DEF EventText
<1>4. CASE e.type = "redacted"
  <2>1. d = ProcessRedactedContent(c)
    BY <1>4 DEF ProcessKiroEvent
  <2>2. Underway(d, K, A) /\ Rested(d)
    BY <1>4, <2>1, RedactedWords
  <2> QED
    BY <1>3, <1>4, <2>2
<1>5. CASE e.type = "tool" /\ e.id \in ToolIds
  <2> DEFINE c1 == BeforeToolUse(c)
             whole == WholeCall(c, e.id, e.valid)
  <2>1. d = TakeFragment(c1, e.id, whole, e.stop)
    BY <1>5 DEF ProcessKiroEvent, ProcessToolUse
  <2>2. Underway(c1, K, A) /\ Rested(c1)
    BY BeforeToolWords
  <2> HIDE DEF c1, whole, d
  <2>3. Underway(d, K, A) /\ Rested(d)
    BY <1>5, <2>1, <2>2, ToolUseWords
  <2> QED
    BY <1>3, <1>5, <2>3 DEF d
<1>6. CASE e.type \in {"window_full", "too_long"}
  <2>1. DOMAIN c = Fields
    BY CoreBlocks DEF Underway, Full
  <2>2. \E reason : d = [c EXCEPT !.stop_reason = reason]
    BY <1>6 DEF ProcessKiroEvent
  <2> HIDE DEF d
  <2>3. Keeps(c, d, {"stop_reason"})
    BY <2>1, <2>2 DEF Keeps, Fields
  <2>4. Underway(d, K, A) /\ Rested(d)
    BY <2>3, FieldsWords
  <2> QED
    BY <1>3, <1>6, <2>4 DEF d
<1> QED
  BY <1>1, <1>2, <1>4, <1>5, <1>6 DEF EventOK

-------------------------------------------------------------------------------
(* The words of frames, which come in rising order after those of A.           *)

FrameWords(frame) == WordsIn(EventText(frame.event))

WordsUpto(frames, n) == UNION {FrameWords(frames[i]) : i \in 1 .. n}

InTurn(A, frames) ==
    /\ \A i \in 1 .. Len(frames) :
          Rising(EventText(frames[i].event)) /\ Before(A, FrameWords(frames[i]))
    /\ \A i, j \in 1 .. Len(frames) :
          i < j => Before(FrameWords(frames[i]), FrameWords(frames[j]))

LEMMA FramesWords ==
    ASSUME NEW K, NEW A, Underway(ctx, K, A), Rested(ctx), NEW frames \in Seq(Frames(K)),
           InTurn(A, frames)
    PROVE  LET d == ProcessFrames(frames)
           IN Underway(d, K, A \cup WordsUpto(frames, Len(frames))) /\ Rested(d)
<1> DEFINE n == Len(frames)
           W(k) == A \cup WordsUpto(frames, k)
           m == CHOOSE m : ProcessUpto(m, ctx, frames, n)
<1>1. n \in Nat
  OBVIOUS
<1>2. ProcessUpto(m, ctx, frames, n)
  BY <1>1, ProcessExists
<1>3. ProcessFrames(frames) = m[n]
  BY Zenon DEF ProcessFrames, ProcessUpto
<1> HIDE DEF m, W
<1> DEFINE G == {k \in 0 .. n : Underway(m[k], K, W(k)) /\ Rested(m[k])}
<1>4. 0 \in G
  <2>1. m[0] = ctx
    BY <1>1, <1>2 DEF ProcessUpto
  <2>2. W(0) = A
    BY DEF WordsUpto, W
  <2> QED
    BY <1>1, <2>1, <2>2
<1>5. ASSUME NEW k \in 1 .. n, k - 1 \in G PROVE k \in G
  <2> DEFINE e == frames[k].event
             B == W(k - 1)
  <2>1. m[k] = ProcessKiroEvent(m[k - 1], e)
    BY <1>1, <1>2 DEF ProcessUpto
  <2>2. EventOK(e, K)
    <3>1. frames[k] \in Frames(K)
      BY <1>1
    <3>2. e \in Events(K)
      BY <3>1 DEF Frames
    <3> QED
      BY <3>2, EventsOK
  <2>3. Rising(EventText(e)) /\ Before(B, WordsIn(EventText(e)))
    <3>1. Rising(EventText(e)) /\ Before(A, FrameWords(frames[k]))
      BY <1>1 DEF InTurn
    <3>2. \A i \in 1 .. k - 1 : Before(FrameWords(frames[i]), FrameWords(frames[k]))
      BY <1>1 DEF InTurn
    <3>3. Before(WordsUpto(frames, k - 1), FrameWords(frames[k]))
      BY <3>2 DEF Before, WordsUpto
    <3> QED
      BY <3>1, <3>3 DEF Before, FrameWords, W
  <2>4. B \cup WordsIn(EventText(e)) = W(k)
    <3>1. \A i : i \in 1 .. k <=> i \in 1 .. k - 1 \/ i = k
      BY <1>1
    <3> QED
      BY <3>1 DEF WordsUpto, FrameWords, W
  <2>5. Underway(m[k - 1], K, B) /\ Rested(m[k - 1])
    BY <1>5
  <2> HIDE DEF B, e
  <2>6. Underway(m[k], K, B \cup WordsIn(EventText(e))) /\ Rested(m[k])
    BY <2>1, <2>2, <2>3, <2>5, EventWords
  <2>7. Underway(m[k], K, W(k)) /\ Rested(m[k])
    BY <2>4, <2>6
  <2> QED
    BY <1>1, <2>7
<1>6. \A k \in 0 .. n : k \in G
  <2> HIDE DEF G
  <2> QED
    BY <1>1, <1>4, <1>5, UpTo
<1>7. Underway(m[n], K, W(n)) /\ Rested(m[n])
  BY <1>1, <1>6
<1> QED
  BY <1>3, <1>7 DEF W

-------------------------------------------------------------------------------
(* The beginning and the end of the message.                                   *)

LEMMA InitialWords ==
    ASSUME NEW thinking \in BOOLEAN, NEW K
    PROVE  LET d == GenerateInitialEvents(NewContext(thinking))
           IN Underway(d, K, {}) /\ Rested(d)
<1> DEFINE c0 == NewContext(thinking)
           c1 == MessageStart(c0)
           s == ContentBlockStart(c1, "text")
           t == [s EXCEPT !.text_block_index = 1]
           d == GenerateInitialEvents(c0)
<1>1. /\ DOMAIN c0 = Fields /\ c0.started = FALSE
      /\ c0.out = <<>> /\ c0.filter = [buffer |-> <<>>, stripping |-> FALSE]
      /\ c0.thinking_buffer = <<>> /\ c0.invoke_sniff_buffer = <<>>
      /\ c0.in_thinking_block = FALSE /\ c0.thinking_block_index = 0
      /\ c0.repeat_tripped = FALSE /\ c0.mixed = {}
  BY NewContextIs
<1>2. c0.dropped = {} /\ c0.thinking_extracted = FALSE
  BY ZenonT(30) DEF NewContext, InitManager
<1>3. Full(c1, K)
  BY StartedCore
<1>4. Full(d, K)
  BY InitialFull
<1>5. \/ d = c1 \/ d = t
  BY DEF GenerateInitialEvents
<1> HIDE DEF c0, d
<1>6. Silent(c0, c1) /\ ThinkingSame(c0, c1)
  <2> DEFINE e == [ev |-> "message_start"]
             b == [c0 EXCEPT !.started = TRUE]
  <2>1. Keeps(c0, b, {"started"}) /\ c1 = Emit(b, e)
    BY <1>1 DEF Keeps, Fields, MessageStart
  <2>2. e.ev \notin {"text", "thinking"}
    OBVIOUS
  <2> HIDE DEF b, e, c1
  <2>3. IsSeq(c0.out)
    BY <1>1 DEF IsSeq
  <2>4. b.out = c0.out /\ DOMAIN b = Fields
    BY <1>1, <2>1 DEF Keeps, Fields
  <2>5. Silent(b, c1) /\ Keeps(b, c1, {"out"})
    BY <2>1, <2>2, <2>3, <2>4, SilentEmit
  <2>6. Silent(c0, b) /\ ThinkingSame(c0, b)
    BY <2>1, SilentKept, SameKept DEF WordFields, ThinkingFields
  <2>7. ThinkingSame(b, c1)
    BY <2>5, SameKept DEF ThinkingFields
  <2> QED
    BY <2>5, <2>6, <2>7, SilentMore, SameMore
<1> HIDE DEF c1
<1>7. Silent(c1, t) /\ ThinkingSame(c1, t)
  <2>1. Core(c1, K) /\ "text" \in BlockTypes
    BY <1>3 DEF Full, BlockTypes
  <2>2. Silent(c1, s) /\ Keeps(c1, s, {"blocks", "out", "has_tool_use"})
    BY <2>1, SilentStart, StartKeeps DEF Core
  <2> HIDE DEF s
  <2>3. Keeps(s, t, {"text_block_index"})
    BY <2>1, <2>2, CoreBlocks DEF Keeps, Fields
  <2> HIDE DEF t
  <2>4. Silent(s, t) /\ ThinkingSame(s, t)
    BY <2>3, SilentKept, SameKept DEF WordFields, ThinkingFields
  <2>5. ThinkingSame(c1, s)
    BY <2>2, SameKept DEF ThinkingFields
  <2> QED
    BY <2>2, <2>4, <2>5, SilentMore, SameMore
<1> HIDE DEF t
<1>8. Silent(c0, d) /\ ThinkingSame(c0, d)
  BY <1>5, <1>6, <1>7, SilentMore, SameMore
<1>9. Flow(c0, K, {}, {}) /\ Thought(c0) = {}
  <2>1. SentWords(<<>>, "text") = {} /\ SentWords(<<>>, "thinking") = {}
    BY DEF SentWords, Deltas
  <2>2. SentInOrder(<<>>, "text") /\ SentInOrder(<<>>, "thinking")
    BY DEF SentInOrder, Deltas
  <2>3. Written(c0) = {} /\ Thought(c0) = {} /\ WordsIn(c0.invoke_sniff_buffer) = {}
        /\ Rising(c0.invoke_sniff_buffer)
    BY <1>1, <2>1, NoWords DEF Written, Thought
  <2>4. Ordered({}, {}, {}, {}, {}, {})
    BY DEF Ordered, Before
  <2>5. Untouched(c0)
    BY <1>1, <1>2 DEF Untouched
  <2> QED
    BY <1>1, <1>2, <2>2, <2>3, <2>4, <2>5 DEF Flow
<1>10. Flow(d, K, {}, {}) /\ Thought(d) = {} /\ d.thinking_buffer = <<>> /\ d.filter = c0.filter
  BY <1>1, <1>8, <1>9, SilentFlow DEF Silent
<1>11. Underway(d, K, {}) /\ Rested(d)
  <2>1. /\ WordsIn(d.thinking_buffer) = {} /\ Rising(d.thinking_buffer)
        /\ WordsIn(d.filter.buffer) = {}
    BY <1>1, <1>10, NoWords
  <2>2. Flow(d, K, WordsIn(d.thinking_buffer), {}) /\ Behind(d, WordsIn(d.thinking_buffer))
    BY <1>10, <2>1 DEF Before, Behind
  <2>3. d.thinking_block_index = 0 /\ ~ d.in_thinking_block
    BY <1>1, <1>8 DEF ThinkingSame
  <2> QED
    BY <1>4, <1>10, <2>1, <2>2, <2>3 DEF Underway, Rested, Entered
<1> QED
  BY <1>11 DEF d, c0

LEMMA FinishFilterWords ==
    ASSUME NEW c, NEW K, NEW A, Underway(c, K, A), Rested(c)
    PROVE  LET d == FinishFilter(c)
           IN Underway(d, K, A) /\ Rested(d) /\ d.filter.buffer = <<>>
<1> DEFINE empty == [buffer |-> <<>>, stripping |-> FALSE]
           c1 == [c EXCEPT !.filter = empty]
           buf == c.filter.buffer
           d == ProcessText(c1, buf)
           N == {}
<1>1. DOMAIN c = Fields /\ buf \in Texts(K) /\ WordsIn(buf) = {}
  BY CoreBlocks DEF Underway, Full, Core, Worded
<1>2. Rising(buf)
  BY <1>1, WordsAt
<1>3. empty \in [buffer : Texts(K), stripping : BOOLEAN] /\ empty.buffer = <<>> /\ ~ empty.stripping
  BY NothingIs
<1> HIDE DEF empty
<1>4. Keeps(c, c1, {"filter", "dropped"}) /\ c1.filter = empty /\ c1.dropped = c.dropped
  BY <1>1 DEF Keeps, Fields
<1> HIDE DEF c1
<1>5. Loses(c, c1, N, K, A)
  BY <1>3, <1>4 DEF Loses
<1>6. WordsIn(c1.filter.buffer) = {} /\ c1.filter \in [buffer : Texts(K), stripping : BOOLEAN]
  BY <1>3, <1>4, NoWords
<1>7. Underway(c1, K, A \cup N) /\ Rested(c1)
  <2> HIDE DEF N
  <2> QED
    BY <1>5, <1>6, LostWords
<1>8. A \cup N = A
  OBVIOUS
<1> HIDE DEF N
<1>9. Underway(c1, K, A)
  BY <1>7, <1>8
<1>10. Underway(d, K, A \cup WordsIn(buf)) /\ Rested(d) /\ d.filter = c1.filter
  <2>1. WordsIn(buf) \cap A = {} /\ Before(A \ c1.dropped, WordsIn(buf))
    BY <1>1 DEF Before
  <2> HIDE DEF buf, d
  <2>2. LET e == ProcessText(c1, buf)
        IN Underway(e, K, A \cup WordsIn(buf)) /\ Rested(e) /\ e.filter = c1.filter
    BY <1>1, <1>2, <1>7, <1>9, <2>1, ProcessTextWords
  <2> QED
    BY <2>2 DEF d
<1>11. A \cup WordsIn(buf) = A
  BY <1>1
<1> HIDE DEF buf, d
<1>12. Underway(d, K, A) /\ Rested(d) /\ d.filter = c1.filter
  BY <1>10, <1>11
<1>13. FinishFilter(c) = IF buf = <<>> THEN c1 ELSE d
  BY DEF FinishFilter, c1, d, buf, empty
<1> QED
  BY <1>3, <1>4, <1>7, <1>9, <1>12, <1>13

LEMMA FlushThinkingWords ==
    ASSUME NEW c, NEW K, NEW A, Underway(c, K, A)
    PROVE  LET d == FlushThinkingBuffer(c)
           IN Flow(d, K, {}, A) /\ d.thinking_buffer = <<>> /\ d.filter = c.filter
<1> DEFINE buf == c.thinking_buffer
           d == FlushThinkingBuffer(c)
<1>1. ASSUME NEW e, Underway(e, K, A), e.thinking_buffer = <<>>
      PROVE  Flow(e, K, {}, A)
  <2>1. WordsIn(e.thinking_buffer) = {}
    BY <1>1, NoWords
  <2> QED
    BY <1>1, <2>1 DEF Underway
<1>2. CASE buf = <<>>
  <2>1. d = c
    BY <1>2 DEF FlushThinkingBuffer
  <2> HIDE DEF d
  <2>2. Flow(c, K, {}, A)
    BY <1>1, <1>2
  <2> QED
    BY <1>2, <2>1, <2>2 DEF d
<1>3. CASE buf # <<>> /\ ~ c.in_thinking_block
  <2>1. d = FlushThinkingText(c)
    BY <1>3 DEF FlushThinkingBuffer
  <2> HIDE DEF d
  <2>2. Underway(d, K, A) /\ d.thinking_buffer = <<>> /\ d.filter = c.filter
    BY <2>1, FlushThinkingTextWords
  <2>3. Flow(d, K, {}, A)
    BY <1>1, <2>2
  <2> QED
    BY <2>2, <2>3 DEF d
<1>4. CASE buf # <<>> /\ c.in_thinking_block /\ FindThinkingEndAtBufferEnd(buf) # 0
  <2>1. d = EndThinkingAtBufferEnd(c)
    BY <1>4 DEF FlushThinkingBuffer
  <2> HIDE DEF d
  <2>2. Underway(d, K, A) /\ d.thinking_buffer = <<>> /\ d.filter = c.filter
    BY <1>4, <2>1, EndAtBufferEndWords
  <2>3. Flow(d, K, {}, A)
    BY <1>1, <2>2
  <2> QED
    BY <2>2, <2>3 DEF d
<1>5. CASE buf # <<>> /\ c.in_thinking_block /\ FindThinkingEndAtBufferEnd(buf) = 0
  <2> DEFINE c1 == ThinkingDelta(c, buf)
             c2 == [c1 EXCEPT !.thinking_buffer = <<>>]
             S == {}
  <2>1. d = SignAndStop(c2)
    BY <1>5 DEF FlushThinkingBuffer
  <2>2. Full(c, K) /\ Following(c) /\ DOMAIN c = Fields /\ IsSeq(c.out)
    BY <1>5, CoreBlocks DEF Underway, Full
  <2>3. c.thinking_block_index # 0
    BY <1>5 DEF Underway, Entered
  <2>4. Flow(c, K, WordsIn(buf) \cup S, A) /\ Before(WordsIn(buf), S)
    BY DEF Underway, Before
  <2>5. Rising(buf) /\ (Paced(c) => Before(Thought(c), WordsIn(buf)))
    BY DEF Underway, Behind
  <2>6. Full(c1, K) /\ Keeps(c, c1, {"out"})
    BY <2>2, FullThinkingDelta
  <2> HIDE DEF buf, S
  <2>7. Flow(c1, K, S, A)
    BY <2>2, <2>3, <2>4, <2>5, ThinkingDeltaFlow
  <2> HIDE DEF c1, d
  <2>8. Full(c2, K) /\ Keeps(c1, c2, {"thinking_buffer"}) /\ c2.thinking_buffer = <<>>
    BY <2>6, NothingIs, FullBuffer
  <2> HIDE DEF c2
  <2>9. Flow(c2, K, S, A)
    <3>1. {"thinking_buffer"} \cap FlowFields = {}
      BY DEF FlowFields
    <3> QED
      BY <2>7, <2>8, <3>1, FlowKept
  <2>10. Silent(c2, d)
    <3>1. Core(c2, K)
      BY <2>8 DEF Full
    <3> QED
      BY <2>1, <3>1, SilentSign
  <2>11. Flow(d, K, S, A)
    BY <2>9, <2>10, SilentFlow
  <2>12. d.thinking_buffer = <<>> /\ d.filter = c.filter
    <3>1. c1.filter = c.filter
      BY <2>6 DEF Keeps, Fields
    <3>2. c2.filter = c1.filter
      BY <2>8 DEF Keeps, Fields
    <3> QED
      BY <2>8, <2>10, <3>1, <3>2 DEF Silent
  <2> QED
    BY <2>11, <2>12 DEF S, d
<1> QED
  BY <1>2, <1>3, <1>4, <1>5

LEMMA PadWords ==
    ASSUME NEW c, NEW K, Told(c, K), "nl" \in K, NEW A, Flow(c, K, {}, A)
    PROVE  LET d == PadThinkingOnly(c)
           IN Flow(d, K, {}, A) /\ d.thinking_buffer = c.thinking_buffer /\ d.filter = c.filter
<1> DEFINE c1 == [c EXCEPT !.stop_reason = "max_tokens"]
           pad == <<[k |-> "nl", n |-> 0]>>
           d == CreateTextDeltaEvents(c1, pad)
           S == {}
<1>1. DOMAIN c = Fields
  BY CoreBlocks DEF Told
<1>2. Keeps(c, c1, {"stop_reason"})
  BY <1>1 DEF Keeps, Fields
<1> HIDE DEF c1
<1>3. Core(c1, K)
  BY <1>2, ToldFree DEF Free, SettledBy, Told
<1>4. pad \in Texts(K) /\ WordsIn(pad) = {} /\ Rising(pad)
  <2>1. pad \in Texts(K)
    BY DEF Texts
  <2>2. IsBlank(pad)
    BY DEF IsBlank
  <2> QED
    BY <2>1, <2>2, BlankIs
<1> HIDE DEF pad
<1>5. Flow(c1, K, S, A)
  BY <1>2, FlowKept DEF FlowFields
<1>6. Flow(c1, K, WordsIn(pad) \cup S, A) /\ Before(WordsIn(pad), S)
  BY <1>4, <1>5 DEF Before
<1> HIDE DEF S
<1>7. Flow(d, K, S, A)
  BY <1>3, <1>4, <1>6, CreateFlow
<1>8. ThinkingSame(c1, d)
  BY <1>3, <1>4, CreateSame
<1>9. c1.thinking_buffer = c.thinking_buffer /\ c1.filter = c.filter
  BY <1>2 DEF Keeps, Fields
<1> HIDE DEF d
<1>10. Flow(d, K, {}, A) /\ d.thinking_buffer = c.thinking_buffer /\ d.filter = c.filter
  BY <1>7, <1>8, <1>9 DEF ThinkingSame, S
<1>11. PadThinkingOnly(c) = d \/ PadThinkingOnly(c) = c
  BY DEF PadThinkingOnly, d, c1, pad
<1> QED
  BY <1>10, <1>11

(* Nothing of the text is left when the buffers have been flushed.             *)
Emptied(d, K, A) ==
    /\ Flow(d, K, {}, A) /\ d.invoke_sniff_buffer = <<>> /\ d.thinking_buffer = <<>>
    /\ d.filter.buffer = <<>>

LEMMA FlushWords ==
    ASSUME NEW c, NEW K, NEW A, Underway(c, K, A), Rested(c), "nl" \in K
    PROVE  Emptied(FlushBuffers(c), K, A)
<1> DEFINE c1 == FinishFilter(c)
           c2 == LeaveNativeThinking(c1)
           c3 == FlushThinkingBuffer(c2)
           c4 == PadThinkingOnly(c3)
           d == DrainInvokeSniffBuffer(c4, TRUE)
           S == {}
<1>1. Underway(c1, K, A) /\ c1.filter.buffer = <<>>
  BY FinishFilterWords
<1> HIDE DEF c1
<1>2. Underway(c2, K, A) /\ c2.filter.buffer = <<>>
  <2>1. Core(c1, K)
    BY <1>1 DEF Underway, Full
  <2>2. Silent(c1, c2)
    BY <2>1, CloseThinkingSame
  <2>3. Underway(c2, K, A)
    BY <1>1, LeaveNativeWords
  <2> HIDE DEF c2
  <2> QED
    BY <1>1, <2>2, <2>3 DEF Silent
<1> HIDE DEF c2
<1>3. Flow(c3, K, {}, A) /\ c3.thinking_buffer = <<>> /\ c3.filter = c2.filter
  BY <1>2, FlushThinkingWords
<1>4. Told(c3, K)
  BY <1>2, FlushThinkingTold DEF Underway
<1> HIDE DEF c3
<1>5. Flow(c4, K, {}, A) /\ c4.thinking_buffer = <<>> /\ c4.filter = c2.filter
  BY <1>3, <1>4, PadWords
<1>6. Core(c4, K)
  BY <1>4, PadTold DEF Told
<1> HIDE DEF c4
<1>7. Flow(d, K, S, A) /\ d.invoke_sniff_buffer = <<>>
  <2>1. Flow(c4, K, S, A)
    BY <1>5
  <2> HIDE DEF S
  <2> QED
    BY <1>6, <2>1, DrainSniffFlow
<1>8. d.thinking_buffer = c4.thinking_buffer /\ d.filter = c4.filter
  <2>1. TextStep(c4, d)
    BY <1>6, DrainCore
  <2> HIDE DEF d
  <2> QED
    BY <2>1 DEF TextStep, Keeps, TextFields, Fields
<1>9. FlushBuffers(c) = d
  BY DEF FlushBuffers, d, c4, c3, c2, c1
<1> HIDE DEF d
<1> QED
  BY <1>2, <1>5, <1>7, <1>8, <1>9 DEF Emptied

LEMMA EmptiedSilent ==
    ASSUME NEW c, NEW K, NEW A, Emptied(c, K, A), NEW d, Silent(c, d)
    PROVE  Emptied(d, K, A)
BY SilentFlow DEF Emptied, Silent

LEMMA FinalSilent ==
    ASSUME NEW c, NEW K, Core(c, K)
    PROVE  LET d == FinalMessageEvents(c)
           IN Silent(c, d) /\ DOMAIN d = Fields /\ IsSeq(d.out)
<1> DEFINE S == {i \in DOMAIN c.blocks : IsOpen(c, i)}
           X == {}
           c1 == StopAll(c, S)
           b1 == [c1 EXCEPT !.delta_sent = TRUE]
           e2 == [ev |-> "message_delta", reason |-> GetStopReason(b1)]
           c2 == MessageDelta(c1)
           b2 == [c2 EXCEPT !.ended = TRUE]
           e3 == [ev |-> "message_stop"]
           c3 == MessageStop(c2)
<1>1. /\ Managed(c, X) /\ S \subseteq {i \in DOMAIN c.blocks : c.blocks[i].open}
      /\ \A i \in S : c.blocks[i].type = "tool_use" => i \in X
  BY CoreBlocks DEF IsOpen, Core, OpenKinds
<1> HIDE DEF S
<1>2. Keeps(c, c1, {"blocks", "out"}) /\ Adds(c.out, c1.out, {"stop"})
  <2> HIDE DEF X
  <2> QED
    BY <1>1, StopAllKeeps
<1> HIDE DEF c1
<1>3. Silent(c, c1)
  BY <1>2, SilentAdds DEF WordFields
<1>4. DOMAIN c1 = Fields /\ IsSeq(c1.out)
  BY <1>2, CoreBlocks DEF Keeps, Adds
<1>5. e2.ev \notin {"text", "thinking"} /\ e3.ev \notin {"text", "thinking"}
  OBVIOUS
<1>6. Keeps(c1, b1, {"delta_sent"}) /\ DOMAIN b1 = Fields /\ b1.out = c1.out
  BY <1>4 DEF Keeps, Fields
<1>7. c2 = c1 \/ c2 = Emit(b1, e2)
  <2>1. GetStopReason([c1 EXCEPT !.delta_sent = TRUE]) = GetStopReason(c1)
    BY <1>4 DEF GetStopReason, Fields
  <2> QED
    BY <2>1 DEF MessageDelta
<1> HIDE DEF b1, e2, c2
<1>8. Silent(c1, c2) /\ DOMAIN c2 = Fields /\ IsSeq(c2.out)
  <2> DEFINE d == Emit(b1, e2)
  <2>1. Silent(b1, d) /\ Keeps(b1, d, {"out"}) /\ IsSeq(d.out)
    BY <1>4, <1>5, <1>6, SilentEmit
  <2>2. Silent(c1, b1)
    BY <1>6, SilentKept DEF WordFields
  <2> HIDE DEF d
  <2>3. Silent(c1, d) /\ DOMAIN d = Fields
    BY <1>6, <2>1, <2>2, SilentMore DEF Keeps
  <2> QED
    BY <1>4, <1>7, <2>1, <2>3, SilentNothing DEF d
<1>9. Keeps(c2, b2, {"ended"}) /\ DOMAIN b2 = Fields /\ b2.out = c2.out
  BY <1>8 DEF Keeps, Fields
<1>10. c3 = c2 \/ c3 = Emit(b2, e3)
  BY DEF MessageStop
<1> HIDE DEF b2, e3, c3
<1>11. Silent(c2, c3) /\ DOMAIN c3 = Fields /\ IsSeq(c3.out)
  <2> DEFINE d == Emit(b2, e3)
  <2>1. Silent(b2, d) /\ Keeps(b2, d, {"out"}) /\ IsSeq(d.out)
    BY <1>5, <1>8, <1>9, SilentEmit
  <2>2. Silent(c2, b2)
    BY <1>9, SilentKept DEF WordFields
  <2> HIDE DEF d
  <2>3. Silent(c2, d) /\ DOMAIN d = Fields
    BY <1>9, <2>1, <2>2, SilentMore DEF Keeps
  <2> QED
    BY <1>8, <1>10, <2>1, <2>3, SilentNothing DEF d
<1>12. Silent(c, c3)
  BY <1>3, <1>8, <1>11, SilentMore
<1> QED
  BY <1>11, <1>12 DEF FinalMessageEvents, c3, c2, c1, S

(* At the end every word has gone somewhere, and the buffers are empty.        *)
LEMMA FinalWords ==
    ASSUME NEW c, NEW K, NEW A, Underway(c, K, A), Rested(c), "nl" \in K
    PROVE  Emptied(GenerateFinalEvents(c), K, A)
<1> DEFINE c1 == FlushBuffers(c)
           s == SetToolJsonError(c1)
           c2 == CheckUnfinishedTools(c1)
           c3 == FinalMessageEvents(c2)
           e == [ev |-> "error"]
           d == ErrorEvent(c3)
<1>1. Emptied(c1, K, A) /\ Told(c1, K)
  BY FlushWords, FlushTold DEF Underway
<1> HIDE DEF c1
<1>2. Told(c2, K)
  BY <1>1, UnfinishedTold
<1>3. Silent(c1, c2)
  <2>1. DOMAIN c1 = Fields
    BY <1>1, CoreBlocks DEF Told
  <2>2. Keeps(c1, s, {"tool_json_error", "stop_reason"})
    BY <2>1 DEF SetToolJsonError, Keeps, Fields
  <2> HIDE DEF s
  <2>3. Silent(c1, s)
    BY <2>2, SilentKept DEF WordFields
  <2>4. c2 = c1 \/ c2 = s
    BY DEF CheckUnfinishedTools, s
  <2> QED
    BY <2>3, <2>4, SilentNothing
<1> HIDE DEF c2
<1>4. Silent(c2, c3) /\ DOMAIN c3 = Fields /\ IsSeq(c3.out)
  BY <1>2, FinalSilent DEF Told
<1> HIDE DEF c3
<1>5. Silent(c3, d)
  <2>1. e.ev \notin {"text", "thinking"}
    OBVIOUS
  <2>2. d = c3 \/ d = Emit(c3, e)
    BY DEF ErrorEvent
  <2> HIDE DEF d, e
  <2>3. Silent(c3, Emit(c3, e))
    BY <1>4, <2>1, SilentEmit
  <2> QED
    BY <2>2, <2>3, SilentNothing
<1> HIDE DEF d
<1>6. Emptied(d, K, A)
  BY <1>1, <1>3, <1>4, <1>5, EmptiedSilent
<1> QED
  BY <1>6 DEF GenerateFinalEvents, d, c3, c2, c1

-------------------------------------------------------------------------------
(* The words on the wire: those of the frames whose first cell is in a buffer. *)

CellWords(cell) == IF cell.half = 1 THEN FrameWords(cell.frame) ELSE {}

BufferWords(b) == UNION {CellWords(b[i]) : i \in 1 .. Len(b)}

(* They come in rising order after those of A.                                 *)
Coming(A, b) ==
    /\ \A i \in 1 .. Len(b) : b[i].half = 1 =>
          Rising(EventText(b[i].frame.event)) /\ Before(A, FrameWords(b[i].frame))
    /\ \A i, j \in 1 .. Len(b) : i < j /\ b[i].half = 1 /\ b[j].half = 1 =>
          Before(FrameWords(b[i].frame), FrameWords(b[j].frame))

LEMMA CellsIn ==
    ASSUME NEW b
    PROVE  \A n : n \in BufferWords(b) <=>
               \E i \in 1 .. Len(b) : b[i].half = 1 /\ n \in FrameWords(b[i].frame)
BY DEF BufferWords, CellWords

LEMMA TailIs ==
    ASSUME NEW S, NEW b \in Seq(S), NEW n \in {1, 2}
    PROVE  LET r == SubSeq(b, n + 1, Len(b))
           IN /\ r \in Seq(S)
              /\ Len(r) = IF n < Len(b) THEN Len(b) - n ELSE 0
              /\ \A i \in 1 .. Len(r) : i + n \in 1 .. Len(b) /\ r[i] = b[i + n]
<1> DEFINE N == Len(b)
           r == SubSeq(b, n + 1, N)
<1>1. N \in Nat
  OBVIOUS
<1>2. CASE n < N
  <2>1. n + 1 \in 1 .. N + 1 /\ N \in n .. N
    BY <1>1, <1>2
  <2>2. /\ r \in Seq(S) /\ Len(r) = (IF n + 1 <= N THEN N - (n + 1) + 1 ELSE 0)
        /\ \A i \in 1 .. N - (n + 1) + 1 : r[i] = b[(n + 1) + i - 1]
    BY <1>1, <2>1, SubSeqProperties
  <2> HIDE DEF r, N
  <2>3. Len(r) = N - n
    BY <1>1, <1>2, <2>2
  <2>4. ASSUME NEW i \in 1 .. Len(r) PROVE i + n \in 1 .. N /\ r[i] = b[i + n]
    <3>1. i \in 1 .. N - (n + 1) + 1 /\ (n + 1) + i - 1 = i + n /\ i + n \in 1 .. N
      BY <1>1, <1>2, <2>3
    <3> QED
      BY <2>2, <3>1
  <2> QED
    BY <1>2, <2>2, <2>3, <2>4 DEF r, N
<1>3. CASE ~ (n < N)
  <2>1. r = <<>>
    BY <1>1, <1>3
  <2> QED
    BY <1>3, <2>1
<1> QED
  BY <1>2, <1>3

LEMMA TailComing ==
    ASSUME NEW S, NEW b \in Seq(S), NEW n \in {1, 2}, NEW A, Coming(A, b)
    PROVE  LET r == SubSeq(b, n + 1, Len(b))
           IN Coming(A, r) /\ BufferWords(r) \subseteq BufferWords(b)
<1> DEFINE r == SubSeq(b, n + 1, Len(b))
<1>1. \A i \in 1 .. Len(r) : i + n \in 1 .. Len(b) /\ r[i] = b[i + n]
  BY TailIs
<1>2. Len(r) \in Nat
  BY TailIs
<1> HIDE DEF r
<1>3. \A i, j \in 1 .. Len(r) : i < j => i + n < j + n
  BY <1>2
<1>4. Coming(A, r)
  BY <1>1, <1>3 DEF Coming
<1>5. BufferWords(r) \subseteq BufferWords(b)
  BY <1>1, CellsIn
<1> QED
  BY <1>4, <1>5 DEF r

(* A frame that is decoded: the cell at the head, with the rest behind it.     *)
LEMMA ParsedFrame ==
    ASSUME NEW b, Len(b) \in Nat, b # <<>>, ParseFrame(b) = "frame"
    PROVE  /\ b[1].half # 2 /\ b[2] = [frame |-> b[1].frame, half |-> 2]
           /\ ~ (Len(b) < ClaimedLength(b[1]))
BY DEF ParseFrame, RestFollows

LEMMA MoreWords ==
    ASSUME NEW S, NEW frames \in Seq(S), NEW f
    PROVE  LET more == Append(frames, f)
           IN WordsUpto(more, Len(more)) = WordsUpto(frames, Len(frames)) \cup FrameWords(f)
<1> DEFINE more == Append(frames, f)
           n == Len(frames)
<1>1. /\ n \in Nat /\ Len(more) = n + 1 /\ more[n + 1] = f
      /\ \A i \in 1 .. n : more[i] = frames[i]
  BY AppendProperties
<1> HIDE DEF more, n
<1>2. \A i : i \in 1 .. n + 1 <=> i \in 1 .. n \/ i = n + 1
  BY <1>1
<1>3. WordsUpto(more, n + 1) = WordsUpto(frames, n) \cup FrameWords(f)
  BY <1>1, <1>2 DEF WordsUpto
<1> QED
  BY <1>1, <1>3 DEF more, n

LEMMA MoreFrames ==
    ASSUME NEW S, NEW frames \in Seq(S), NEW f \in S, NEW A, InTurn(A, frames),
           Rising(EventText(f.event)), Before(A \cup WordsUpto(frames, Len(frames)), FrameWords(f))
    PROVE  LET more == Append(frames, f)
           IN /\ InTurn(A, more)
              /\ WordsUpto(more, Len(more)) = WordsUpto(frames, Len(frames)) \cup FrameWords(f)
<1> DEFINE more == Append(frames, f)
           n == Len(frames)
<1>1. /\ n \in Nat /\ Len(more) = n + 1 /\ more[n + 1] = f
      /\ \A i \in 1 .. n : more[i] = frames[i]
  OBVIOUS
<1>3. WordsUpto(more, Len(more)) = WordsUpto(frames, Len(frames)) \cup FrameWords(f)
  BY MoreWords
<1> HIDE DEF more, n
<1>2. \A i : i \in 1 .. n + 1 <=> i \in 1 .. n \/ i = n + 1
  BY <1>1
<1>4. Before(A, FrameWords(f)) /\ \A i \in 1 .. n : Before(FrameWords(frames[i]), FrameWords(f))
  <2>1. \A i \in 1 .. n : FrameWords(frames[i]) \subseteq WordsUpto(frames, n)
    BY DEF WordsUpto
  <2> QED
    BY <2>1 DEF Before, n
<1>5. ASSUME NEW i \in 1 .. n + 1
      PROVE  Rising(EventText(more[i].event)) /\ Before(A, FrameWords(more[i]))
  <2>1. CASE i \in 1 .. n
    BY <1>1, <2>1 DEF InTurn, n
  <2>2. CASE i = n + 1
    BY <1>1, <1>4, <2>2
  <2> QED
    BY <1>2, <2>1, <2>2
<1>6. ASSUME NEW i \in 1 .. n + 1, NEW j \in 1 .. n + 1, i < j
      PROVE  Before(FrameWords(more[i]), FrameWords(more[j]))
  <2>1. i \in 1 .. n
    BY <1>1, <1>6
  <2>2. CASE j \in 1 .. n
    BY <1>1, <1>6, <2>1, <2>2 DEF InTurn, n
  <2>3. CASE j = n + 1
    BY <1>1, <1>4, <2>1, <2>3
  <2> QED
    BY <1>2, <2>2, <2>3
<1>7. InTurn(A, more)
  BY <1>1, <1>5, <1>6 DEF InTurn
<1> QED
  BY <1>1, <1>3, <1>7 DEF more, n

(* What the decoder has taken so far, and what is to come.                     *)
Taken(s) == WordsUpto(s.frames, Len(s.frames))

Ahead(s, A) == InTurn(A, s.frames) /\ Coming(A \cup Taken(s), s.decoder.buffer)

LEMMA DecodeNextWords ==
    ASSUME NEW K, NEW s, Decodes(s, K), NEW A, Ahead(s, A)
    PROVE  LET t == DecodeNext(s)
           IN /\ Ahead(t, A)
              /\ Taken(t) \cup BufferWords(t.decoder.buffer)
                    \subseteq Taken(s) \cup BufferWords(s.decoder.buffer)
<1> DEFINE b == s.decoder.buffer
           r == SubSeq(b, 2 + 1, Len(b))
           f == Head(b).frame
           frames == s.frames
           more == Append(frames, f)
           t == DecodeNext(s)
<1>1. CASE ~ (Decoding(s.decoder) /\ ParseFrame(b) = "frame")
  BY <1>1 DEF DecodeNext
<1>2. CASE Decoding(s.decoder) /\ ParseFrame(b) = "frame"
  <2>1. /\ b \in Seq(Wire(K)) /\ frames \in Seq(Frames(K)) /\ DecoderOK(s.decoder, K)
        /\ s.decoder \in [buffer : Seq(Wire(K)), state : {"Ready", "Recovering", "Stopped"},
                          error_count : 0 .. MAX_ERRORS]
    BY DEF Decodes, DecoderOK
  <2>2. b # <<>> /\ Len(b) \in Nat
    BY <1>2, <2>1 DEF Decoding
  <2>3. 1 \in 1 .. Len(b) /\ b[1] = Head(b) /\ b[1] \in Wire(K)
    BY <2>1, <2>2
  <2>4. b[1].half = 1 /\ f \in Frames(K) /\ f = b[1].frame
    <3>1. b[1].half # 2
      BY <1>2, <2>2, ParsedFrame
    <3> QED
      BY <2>3, <3>1 DEF Wire
  <2>5. t.decoder.buffer = r /\ t.frames = more
    <3>1. t = [decoder |-> [Advance(s.decoder, 2) EXCEPT !.state = "Ready", !.error_count = 0],
               frames |-> more]
      BY <1>2 DEF DecodeNext
    <3>2. Advance(s.decoder, 2) = [s.decoder EXCEPT !.buffer = r]
      BY DEF Advance
    <3> HIDE DEF t, more, r
    <3> QED
      BY <2>1, <3>1, <3>2
  <2>6. Coming(A \cup Taken(s), b) /\ InTurn(A, frames)
    BY DEF Ahead
  <2> HIDE DEF t, b, f
  <2>7. Rising(EventText(f.event)) /\ Before(A \cup Taken(s), FrameWords(f))
    BY <2>3, <2>4, <2>6 DEF Coming
  <2>8. InTurn(A, more) /\ WordsUpto(more, Len(more)) = Taken(s) \cup FrameWords(f)
    <3>1. Before(A \cup WordsUpto(frames, Len(frames)), FrameWords(f))
      BY <2>7 DEF Taken
    <3> HIDE DEF frames
    <3>2. /\ InTurn(A, more)
          /\ WordsUpto(more, Len(more)) = WordsUpto(frames, Len(frames)) \cup FrameWords(f)
      BY <2>1, <2>4, <2>6, <2>7, <3>1, MoreFrames
    <3> QED
      BY <3>2 DEF Taken, frames
  <2>9. Taken(t) = Taken(s) \cup FrameWords(f)
    BY <2>5, <2>8 DEF Taken
  <2>10. \A i \in 1 .. Len(r) : i + 2 \in 1 .. Len(b) /\ r[i] = b[i + 2]
    BY <2>1, TailIs
  <2>11. Coming(A \cup Taken(s), r) /\ BufferWords(r) \subseteq BufferWords(b)
    BY <2>1, <2>6, TailComing
  <2> HIDE DEF r
  <2>12. \A i \in 1 .. Len(r) : r[i].half = 1 => Before(FrameWords(f), FrameWords(r[i].frame))
    <3> SUFFICES ASSUME NEW i \in 1 .. Len(r), r[i].half = 1
                 PROVE  Before(FrameWords(f), FrameWords(r[i].frame))
      OBVIOUS
    <3>1. i + 2 \in 1 .. Len(b) /\ r[i] = b[i + 2] /\ 1 < i + 2
      BY <2>10
    <3> QED
      BY <2>3, <2>4, <2>6, <3>1 DEF Coming
  <2>13. Coming(A \cup Taken(t), r)
    BY <2>9, <2>11, <2>12 DEF Coming, Before
  <2>14. FrameWords(f) \subseteq BufferWords(b)
    BY <2>3, <2>4, CellsIn
  <2>15. Ahead(t, A)
    BY <2>5, <2>8, <2>13 DEF Ahead
  <2> QED
    BY <2>5, <2>9, <2>11, <2>14, <2>15 DEF t, b
<1> QED
  BY <1>1, <1>2

(* At its end it drops what is corrupt.                                        *)
LEMMA DecodeEndWords ==
    ASSUME NEW K, NEW d, DecoderOK(d, K), NEW A, Coming(A, d.buffer)
    PROVE  Coming(A, DecodeEnd(d).buffer) /\ BufferWords(DecodeEnd(d).buffer) \subseteq BufferWords(d.buffer)
<1> DEFINE b == d.buffer
           r(n) == SubSeq(b, n + 1, Len(b))
<1>1. /\ b \in Seq(Wire(K))
      /\ d \in [buffer : Seq(Wire(K)), state : {"Ready", "Recovering", "Stopped"},
                error_count : 0 .. MAX_ERRORS]
  BY DEF DecoderOK
<1>2. \/ DecodeEnd(d).buffer = b \/ DecodeEnd(d).buffer = r(1) \/ DecodeEnd(d).buffer = r(2)
  <2>1. \A e : Failed(d, e).buffer = b \/ Failed(d, e).buffer = r(1) \/ Failed(d, e).buffer = r(2)
    <3> TAKE e
    <3> DEFINE d1 == [d EXCEPT !.error_count = @ + 1]
               n == IF e = "data" THEN 2 ELSE 1
               a == Advance(d1, n)
    <3>1. d1.buffer = b /\ DOMAIN d1 = {"buffer", "state", "error_count"}
      BY <1>1
    <3> HIDE DEF d1
    <3>2. n \in {1, 2}
      OBVIOUS
    <3> HIDE DEF n
    <3>3. a.buffer = r(n) /\ DOMAIN a = {"buffer", "state", "error_count"}
      BY <3>1 DEF Advance
    <3> HIDE DEF a
    <3>4. Failed(d, e) = [d1 EXCEPT !.state = "Stopped"] \/ Failed(d, e) = [a EXCEPT !.state = "Recovering"]
      BY DEF Failed, TryRecover, a, n, d1
    <3>5. Failed(d, e).buffer = b \/ Failed(d, e).buffer = r(n)
      <4> HIDE DEF b, r
      <4> QED
        BY <3>1, <3>3, <3>4
    <3> QED
      BY <3>2, <3>5
  <2>2. \/ DecodeEnd(d) = [d EXCEPT !.state = IF @ \in {"Stopped", "Recovering"} THEN @ ELSE "Ready"]
        \/ DecodeEnd(d) = Failed(d, ParseFrame(d.buffer))
    BY DEF DecodeEnd
  <2>3. CASE DecodeEnd(d) = Failed(d, ParseFrame(d.buffer))
    <3> HIDE DEF b, r
    <3> QED
      BY <2>1, <2>3
  <2>4. CASE DecodeEnd(d) = [d EXCEPT !.state = IF @ \in {"Stopped", "Recovering"} THEN @ ELSE "Ready"]
    BY <1>1, <2>4
  <2> QED
    BY <2>2, <2>3, <2>4
<1>3. \A n \in {1, 2} : Coming(A, r(n)) /\ BufferWords(r(n)) \subseteq BufferWords(b)
  BY <1>1, TailComing
<1> HIDE DEF b, r
<1>4. Coming(A, b)
  BY DEF b
<1> QED
  BY <1>2, <1>3, <1>4 DEF b

-------------------------------------------------------------------------------
(* While no frame was corrupt, the buffer holds whole frames, and at most the  *)
(* first half of one more; z is its last cell.                                 *)

Paired(b) ==
    /\ Len(b) > 0 => b[1].half = 1
    /\ \A i \in 1 .. Len(b) : b[i].half = 1 => b[i].frame.kind = "ok"
    /\ \A i \in 1 .. Len(b) - 1 :
          IF b[i].half = 1 THEN b[i + 1] = [frame |-> b[i].frame, half |-> 2]
          ELSE b[i + 1].half = 1

Sound(d, z) ==
    /\ d.state = "Ready" /\ Paired(d.buffer)
    /\ Len(d.buffer) > 0 => d.buffer[Len(d.buffer)] = z
    /\ z.half = 1 => Len(d.buffer) > 0

LEMMA Lengths ==
    ASSUME NEW S, NEW b \in Seq(S)
    PROVE  /\ Len(b) \in Nat /\ (b = <<>> <=> Len(b) = 0)
           /\ Len(b) = 1 => b = <<b[1]>>
OBVIOUS

LEMMA OneAtMost ==
    ASSUME NEW n \in Nat, n <= 1 PROVE n = 0 \/ n = 1
OBVIOUS

LEMMA HalfUnparsed ==
    ASSUME NEW K, NEW d, DecoderOK(d, K), Paired(d.buffer), Len(d.buffer) = 1
    PROVE  ParseFrame(d.buffer) = "none"
<1> DEFINE b == d.buffer
           h == Head(b)
<1>1. b \in Seq(Wire(K)) /\ b # <<>> /\ Len(b) = 1
  <2>1. b \in Seq(Wire(K))
    BY DEF DecoderOK
  <2> HIDE DEF b
  <2> QED
    BY <2>1, Lengths DEF b
<1>2. h = b[1] /\ b[1].half = 1 /\ b[1].frame.kind = "ok"
  BY <1>1 DEF Paired
<1> HIDE DEF h
<1>3. ClaimedLength(h) = 2
  BY <1>2 DEF ClaimedLength
<1>4. ParseFrame(b) = IF Len(b) < ClaimedLength(h) THEN "none" ELSE ParseFrame(b)
  BY DEF ParseFrame, h
<1> HIDE DEF b
<1> QED
  BY <1>1, <1>3, <1>4 DEF b

LEMMA FrameParsed ==
    ASSUME NEW K, NEW d, DecoderOK(d, K), Paired(d.buffer), Len(d.buffer) >= 2
    PROVE  ParseFrame(d.buffer) = "frame"
<1> DEFINE b == d.buffer
<1>1. b \in Seq(Wire(K)) /\ b # <<>> /\ Len(b) >= 2 /\ Len(b) \in Nat
  BY DEF DecoderOK
<1>2. Head(b) = b[1] /\ b[1].half = 1 /\ b[1].frame.kind = "ok" /\ 1 \in 1 .. Len(b) - 1
  BY <1>1 DEF Paired
<1>3. b[1 + 1] = [frame |-> b[1].frame, half |-> 2]
  BY <1>2 DEF Paired
<1> HIDE DEF b
<1>4. ClaimedLength(Head(b)) = 2
  BY <1>2 DEF ClaimedLength
<1>5. b[2] = [frame |-> Head(b).frame, half |-> 2]
  BY <1>2, <1>3
<1>6. RestFollows(b)
  BY <1>5 DEF RestFollows
<1> QED
  BY <1>1, <1>2, <1>4, <1>6 DEF ParseFrame, b

LEMMA TailPaired ==
    ASSUME NEW K, NEW b \in Seq(Wire(K)), Paired(b), Len(b) >= 2
    PROVE  LET r == SubSeq(b, 2 + 1, Len(b))
           IN /\ Paired(r) /\ Len(r) = Len(b) - 2
              /\ Len(r) > 0 => r[Len(r)] = b[Len(b)]
              /\ Len(r) = 0 => b[Len(b)].half = 2
              /\ BufferWords(b) = FrameWords(b[1].frame) \cup BufferWords(r)
<1> DEFINE r == SubSeq(b, 2 + 1, Len(b))
           N == Len(b)
           M == Len(r)
<1>1. /\ M = N - 2 /\ N \in Nat /\ M \in Nat
      /\ \A i \in 1 .. M : i + 2 \in 1 .. N /\ r[i] = b[i + 2]
  <2>1. Len(r) = IF 2 < N THEN N - 2 ELSE 0
    BY TailIs
  <2>2. \A i \in 1 .. Len(r) : i + 2 \in 1 .. N /\ r[i] = b[i + 2]
    BY TailIs
  <2>3. N \in Nat /\ N >= 2
    BY Lengths
  <2> HIDE DEF r, N
  <2>4. Len(r) = N - 2 /\ Len(r) \in Nat
    BY <2>1, <2>3
  <2> QED
    BY <2>2, <2>3, <2>4
<1> HIDE DEF r, M, N
<1>2. /\ b[1].half = 1 /\ b[1].frame.kind = "ok" /\ b[2].half = 2
      /\ N >= 2
  <2>1. 1 \in 1 .. N - 1 /\ 1 \in 1 .. N /\ 1 + 1 = 2 /\ N > 0 /\ N >= 2
    BY <1>1 DEF N
  <2>2. b[1].half = 1 /\ b[1].frame.kind = "ok"
    BY <2>1 DEF Paired, N
  <2>3. b[1 + 1] = [frame |-> b[1].frame, half |-> 2]
    BY <2>1, <2>2 DEF Paired, N
  <2> QED
    BY <2>1, <2>2, <2>3
<1>3. M > 0 => r[1].half = 1
  <2> SUFFICES ASSUME M > 0 PROVE r[1].half = 1
    OBVIOUS
  <2>1. 2 \in 1 .. N - 1 /\ 1 \in 1 .. M /\ 1 + 2 = 3 /\ 2 + 1 = 3
    BY <1>1
  <2>2. b[2 + 1].half = 1
    BY <1>2, <2>1 DEF Paired, N
  <2> QED
    BY <1>1, <2>1, <2>2
<1>4. \A i \in 1 .. M : r[i].half = 1 => r[i].frame.kind = "ok"
  BY <1>1 DEF Paired, N
<1>5. ASSUME NEW i \in 1 .. M - 1
      PROVE  IF r[i].half = 1 THEN r[i + 1] = [frame |-> r[i].frame, half |-> 2]
             ELSE r[i + 1].half = 1
  <2>1. /\ i + 2 \in 1 .. N - 1 /\ i \in 1 .. M /\ i + 1 \in 1 .. M
        /\ (i + 1) + 2 = (i + 2) + 1
    BY <1>1
  <2>2. r[i] = b[i + 2] /\ r[i + 1] = b[(i + 2) + 1]
    BY <1>1, <2>1
  <2> QED
    BY <2>1, <2>2 DEF Paired, N
<1>6. Paired(r)
  BY <1>3, <1>4, <1>5 DEF Paired, M
<1>7. M > 0 => r[M] = b[N]
  BY <1>1
<1>8. M = 0 => b[N].half = 2
  BY <1>1, <1>2
<1>9. BufferWords(b) = FrameWords(b[1].frame) \cup BufferWords(r)
  <2> SUFFICES ASSUME NEW n
               PROVE  n \in BufferWords(b) <=> n \in FrameWords(b[1].frame) \/ n \in BufferWords(r)
    OBVIOUS
  <2>1. ASSUME n \in BufferWords(b) PROVE n \in FrameWords(b[1].frame) \/ n \in BufferWords(r)
    <3>1. PICK i \in 1 .. N : b[i].half = 1 /\ n \in FrameWords(b[i].frame)
      BY <2>1, CellsIn DEF N
    <3>2. CASE i = 1
      BY <3>1, <3>2
    <3>3. CASE i # 1
      <4>1. i # 2
        BY <1>2, <3>1
      <4>2. i - 2 \in 1 .. M /\ (i - 2) + 2 = i
        BY <1>1, <3>3, <4>1
      <4>3. r[i - 2] = b[i]
        BY <1>1, <4>2
      <4> QED
        BY <3>1, <4>2, <4>3, CellsIn DEF M
    <3> QED
      BY <3>2, <3>3
  <2>2. ASSUME n \in FrameWords(b[1].frame) PROVE n \in BufferWords(b)
    <3>1. 1 \in 1 .. Len(b)
      BY <1>1, <1>2 DEF N
    <3> QED
      BY <1>2, <2>2, <3>1, CellsIn
  <2>3. ASSUME n \in BufferWords(r) PROVE n \in BufferWords(b)
    <3>1. PICK i \in 1 .. M : r[i].half = 1 /\ n \in FrameWords(r[i].frame)
      BY <2>3, CellsIn DEF M
    <3>2. i + 2 \in 1 .. Len(b) /\ r[i] = b[i + 2]
      BY <1>1 DEF N
    <3> QED
      BY <3>1, <3>2, CellsIn
  <2> QED
    BY <2>1, <2>2, <2>3
<1> QED
  BY <1>1, <1>6, <1>7, <1>8, <1>9 DEF r, M, N

LEMMA DecodeNextSound ==
    ASSUME NEW K, NEW s, Decodes(s, K), NEW z, Sound(s.decoder, z)
    PROVE  LET t == DecodeNext(s)
           IN /\ Sound(t.decoder, z)
              /\ Taken(t) \cup BufferWords(t.decoder.buffer)
                    = Taken(s) \cup BufferWords(s.decoder.buffer)
              /\ Len(t.decoder.buffer) <= 1 \/ Len(t.decoder.buffer) + 2 = Len(s.decoder.buffer)
<1> DEFINE b == s.decoder.buffer
           r == SubSeq(b, 2 + 1, Len(b))
           f == Head(b).frame
           frames == s.frames
           more == Append(frames, f)
           t == DecodeNext(s)
<1>1. /\ b \in Seq(Wire(K)) /\ frames \in Seq(Frames(K)) /\ DecoderOK(s.decoder, K)
      /\ s.decoder \in [buffer : Seq(Wire(K)), state : {"Ready", "Recovering", "Stopped"},
                        error_count : 0 .. MAX_ERRORS]
      /\ s.decoder.state = "Ready" /\ Paired(b) /\ Len(b) \in Nat
  BY DEF Decodes, DecoderOK, Sound
<1>2. CASE Len(b) <= 1
  <2>1. ~ (Decoding(s.decoder) /\ ParseFrame(b) = "frame")
    <3>1. CASE Len(b) = 0
      <4>1. b = <<>>
        BY <1>1, <3>1
      <4> QED
        BY <4>1 DEF Decoding
    <3>2. CASE Len(b) = 1
      BY <1>1, <3>2, HalfUnparsed
    <3>3. Len(b) = 0 \/ Len(b) = 1
      <4>1. Len(b) \in Nat
        BY <1>1
      <4> QED
        BY <1>2, <4>1, OneAtMost
    <3> QED
      BY <3>1, <3>2, <3>3
  <2>2. t = s
    BY <2>1 DEF DecodeNext
  <2> HIDE DEF t
  <2> QED
    BY <1>2, <2>2 DEF t
<1>3. CASE ~ (Len(b) <= 1)
  <2>1. Len(b) >= 2 /\ b # <<>>
    BY <1>1, <1>3
  <2>2. ParseFrame(b) = "frame"
    BY <1>1, <2>1, FrameParsed
  <2>3. Decoding(s.decoder)
    BY <1>1, <2>1 DEF Decoding
  <2>4. f = b[1].frame
    BY <1>1, <2>1
  <2>5. t.decoder.buffer = r /\ t.frames = more /\ t.decoder.state = "Ready"
    <3>1. t = [decoder |-> [Advance(s.decoder, 2) EXCEPT !.state = "Ready", !.error_count = 0],
               frames |-> more]
      BY <2>2, <2>3 DEF DecodeNext
    <3>2. Advance(s.decoder, 2) = [s.decoder EXCEPT !.buffer = r]
      BY DEF Advance
    <3> HIDE DEF t, more, r
    <3> QED
      BY <1>1, <3>1, <3>2
  <2>6. /\ Paired(r) /\ Len(r) = Len(b) - 2
        /\ Len(r) > 0 => r[Len(r)] = b[Len(b)]
        /\ Len(r) = 0 => b[Len(b)].half = 2
        /\ BufferWords(b) = FrameWords(b[1].frame) \cup BufferWords(r)
    BY <1>1, <2>1, TailPaired
  <2> HIDE DEF t, r
  <2>7. Taken(t) = Taken(s) \cup FrameWords(f)
    <3>1. WordsUpto(more, Len(more)) = WordsUpto(frames, Len(frames)) \cup FrameWords(f)
      BY <1>1, MoreWords
    <3> QED
      BY <2>5, <3>1 DEF Taken
  <2> HIDE DEF b, f
  <2>8. b[Len(b)] = z
    BY <1>1, <2>1 DEF Sound, b
  <2>9. Sound(t.decoder, z)
    <3>1. Len(r) > 0 => r[Len(r)] = z
      BY <2>6, <2>8
    <3>2. z.half = 1 => Len(r) > 0
      BY <1>1, <2>1, <2>6, <2>8
    <3> QED
      BY <2>5, <2>6, <3>1, <3>2 DEF Sound
  <2>10. Taken(t) \cup BufferWords(r) = Taken(s) \cup BufferWords(b)
    BY <2>4, <2>6, <2>7
  <2>11. Len(r) + 2 = Len(b)
    BY <1>1, <2>6
  <2> QED
    BY <2>5, <2>9, <2>10, <2>11 DEF t, b
<1> QED
  BY <1>2, <1>3

LEMMA DecodeRun ==
    ASSUME NEW K, NEW d, DecoderOK(d, K)
    PROVE  \E m : /\ m[0] = [decoder |-> d, frames |-> <<>>]
                  /\ \A k \in 1 .. Len(d.buffer) : m[k] = DecodeNext(m[k - 1])
                  /\ \A k \in 0 .. Len(d.buffer) : Decodes(m[k], K)
                  /\ DecodeIter(d).decoder = DecodeEnd(m[Len(d.buffer)].decoder)
                  /\ DecodeIter(d).frames = m[Len(d.buffer)].frames
<1> DEFINE n == Len(d.buffer)
           m == CHOOSE m : DecodeUpto(m, d, n)
           z == [decoder |-> d, frames |-> <<>>]
<1>1. n \in Nat
  BY DEF DecoderOK
<1>2. DecodeUpto(m, d, n)
  BY <1>1, DecodeExists
<1>3. DecodeIter(d) = [m[n] EXCEPT !.decoder = DecodeEnd(@)]
  BY Zenon DEF DecodeIter, DecodeUpto
<1> HIDE DEF m, n
<1> DEFINE G == {k \in 0 .. n : Decodes(m[k], K)}
<1>4. m[0] = z /\ \A k \in 1 .. n : m[k] = DecodeNext(m[k - 1])
  BY <1>1, <1>2 DEF DecodeUpto
<1>5. 0 \in G
  <2>1. z.decoder = d /\ z \in [decoder : {d}, frames : Seq(Frames(K))]
    OBVIOUS
  <2> HIDE DEF z
  <2>2. Decodes(z, K)
    BY <2>1 DEF Decodes
  <2> QED
    BY <1>1, <1>4, <2>2
<1>6. ASSUME NEW k \in 1 .. n, k - 1 \in G PROVE k \in G
  BY <1>4, <1>6, DecodeNextOK
<1>7. \A k \in 0 .. n : k \in G
  <2> HIDE DEF G
  <2> QED
    BY <1>1, <1>5, <1>6, UpTo
<1> DEFINE s == m[n]
<1>8. Decodes(s, K)
  BY <1>1, <1>7
<1> HIDE DEF s
<1>9. DecodeIter(d).decoder = DecodeEnd(s.decoder) /\ DecodeIter(d).frames = s.frames
  BY <1>3, <1>8 DEF Decodes, s
<1> QED
  BY <1>4, <1>7, <1>9 DEF n, s

(* What the decoder makes of its buffer: frames in turn, and what waits.       *)
LEMMA DecodeIterWords ==
    ASSUME NEW K, NEW d, DecoderOK(d, K), NEW A, Coming(A, d.buffer)
    PROVE  LET r == DecodeIter(d)
               T == WordsUpto(r.frames, Len(r.frames))
           IN /\ InTurn(A, r.frames) /\ Coming(A \cup T, r.decoder.buffer)
              /\ T \cup BufferWords(r.decoder.buffer) \subseteq BufferWords(d.buffer)
<1> DEFINE n == Len(d.buffer)
           U == BufferWords(d.buffer)
           z == [decoder |-> d, frames |-> <<>>]
           r == DecodeIter(d)
<1>1. n \in Nat
  BY DEF DecoderOK
<1>2. PICK m : /\ m[0] = z
               /\ \A k \in 1 .. n : m[k] = DecodeNext(m[k - 1])
               /\ \A k \in 0 .. n : Decodes(m[k], K)
               /\ DecodeIter(d).decoder = DecodeEnd(m[n].decoder)
               /\ DecodeIter(d).frames = m[n].frames
  BY DecodeRun
<1> DEFINE G == {k \in 0 .. n : Ahead(m[k], A)
                                /\ Taken(m[k]) \cup BufferWords(m[k].decoder.buffer) \subseteq U}
<1>3. 0 \in G
  <2>1. Taken(z) = {}
    BY DEF Taken, WordsUpto
  <2>2. InTurn(A, <<>>)
    BY DEF InTurn
  <2>3. z.decoder = d /\ z.frames = <<>>
    OBVIOUS
  <2> HIDE DEF z
  <2>4. Ahead(z, A) /\ Taken(z) \cup BufferWords(z.decoder.buffer) \subseteq U
    BY <2>1, <2>2, <2>3 DEF Ahead
  <2> QED
    BY <1>1, <1>2, <2>4
<1> HIDE DEF n, U, r, z
<1>4. ASSUME NEW k \in 1 .. n, k - 1 \in G PROVE k \in G
  <2>1. Decodes(m[k - 1], K) /\ m[k] = DecodeNext(m[k - 1])
    BY <1>1, <1>2
  <2>2. /\ Ahead(m[k], A)
        /\ Taken(m[k]) \cup BufferWords(m[k].decoder.buffer)
              \subseteq Taken(m[k - 1]) \cup BufferWords(m[k - 1].decoder.buffer)
    BY <1>4, <2>1, DecodeNextWords
  <2> QED
    BY <1>4, <2>2
<1>5. \A k \in 0 .. n : k \in G
  <2> HIDE DEF G
  <2> QED
    BY <1>1, <1>3, <1>4, UpTo
<1> DEFINE s == m[n]
           T == Taken(s)
<1>6. Ahead(s, A) /\ T \cup BufferWords(s.decoder.buffer) \subseteq U /\ Decodes(s, K)
  BY <1>1, <1>2, <1>5
<1>7. r.decoder = DecodeEnd(s.decoder) /\ r.frames = s.frames
  BY <1>2 DEF r
<1> HIDE DEF s
<1>8. InTurn(A, s.frames) /\ Coming(A \cup T, s.decoder.buffer) /\ DecoderOK(s.decoder, K)
  BY <1>6 DEF Ahead, Decodes
<1> HIDE DEF T
<1>9. /\ Coming(A \cup T, r.decoder.buffer)
      /\ BufferWords(r.decoder.buffer) \subseteq BufferWords(s.decoder.buffer)
  BY <1>7, <1>8, DecodeEndWords
<1>10. WordsUpto(r.frames, Len(r.frames)) = T
  BY <1>7 DEF T, Taken
<1> QED
  BY <1>6, <1>7, <1>8, <1>9, <1>10 DEF r, U

(* And when all frames are well formed.                                        *)
LEMMA DecodeIterSound ==
    ASSUME NEW K, NEW d, DecoderOK(d, K), NEW z, Sound(d, z), z.half \in {1, 2}
    PROVE  LET r == DecodeIter(d)
               b == r.decoder.buffer
           IN /\ WordsUpto(r.frames, Len(r.frames)) \cup BufferWords(b) = BufferWords(d.buffer)
              /\ r.decoder.state = "Ready"
              /\ IF z.half = 1 THEN b = <<z>> ELSE b = <<>>
<1> DEFINE n == Len(d.buffer)
           U == BufferWords(d.buffer)
           y == [decoder |-> d, frames |-> <<>>]
           r == DecodeIter(d)
<1>1. n \in Nat
  BY DEF DecoderOK
<1>2. PICK m : /\ m[0] = y
               /\ \A k \in 1 .. n : m[k] = DecodeNext(m[k - 1])
               /\ \A k \in 0 .. n : Decodes(m[k], K)
               /\ DecodeIter(d).decoder = DecodeEnd(m[n].decoder)
               /\ DecodeIter(d).frames = m[n].frames
  BY DecodeRun
<1> DEFINE L(k) == Len(m[k].decoder.buffer)
           G == {k \in 0 .. n : /\ Sound(m[k].decoder, z)
                                /\ Taken(m[k]) \cup BufferWords(m[k].decoder.buffer) = U
                                /\ L(k) <= 1 \/ L(k) + k <= n}
<1>3. 0 \in G
  <2>1. Taken(y) = {}
    BY DEF Taken, WordsUpto
  <2>2. y.decoder = d /\ y.frames = <<>>
    OBVIOUS
  <2> HIDE DEF y
  <2>3. Sound(y.decoder, z) /\ Taken(y) \cup BufferWords(y.decoder.buffer) = U
    BY <2>1, <2>2
  <2>4. L(0) = n
    BY <1>2, <2>2
  <2> QED
    BY <1>1, <1>2, <2>3, <2>4
<1> HIDE DEF n, U, r, y
<1>4. \A k \in 0 .. n : L(k) \in Nat
  BY <1>2 DEF Decodes, DecoderOK
<1> HIDE DEF L
<1>5. ASSUME NEW k \in 1 .. n, k - 1 \in G PROVE k \in G
  <2>1. Decodes(m[k - 1], K) /\ m[k] = DecodeNext(m[k - 1]) /\ k - 1 \in 0 .. n /\ k \in 0 .. n
    BY <1>1, <1>2
  <2>2. /\ Sound(m[k].decoder, z)
        /\ Taken(m[k]) \cup BufferWords(m[k].decoder.buffer)
              = Taken(m[k - 1]) \cup BufferWords(m[k - 1].decoder.buffer)
        /\ L(k) <= 1 \/ L(k) + 2 = L(k - 1)
    BY <1>5, <2>1, DecodeNextSound DEF L
  <2>3. L(k) <= 1 \/ L(k) + k <= n
    BY <1>1, <1>4, <1>5, <2>1, <2>2
  <2> QED
    BY <1>5, <2>1, <2>2, <2>3
<1>6. \A k \in 0 .. n : k \in G
  <2> HIDE DEF G
  <2> QED
    BY <1>1, <1>3, <1>5, UpTo
<1> DEFINE s == m[n]
           T == Taken(s)
           b == s.decoder.buffer
           e == s.decoder
<1>7. /\ Sound(e, z) /\ T \cup BufferWords(b) = U /\ Decodes(s, K)
      /\ Len(b) <= 1 /\ Len(b) \in Nat
  <2>1. n \in G /\ L(n) \in Nat
    BY <1>1, <1>4, <1>6
  <2>2. L(n) <= 1
    BY <1>1, <2>1
  <2> QED
    BY <1>1, <1>2, <2>1, <2>2 DEF L
<1>8. r.decoder = DecodeEnd(e) /\ r.frames = s.frames
  BY <1>2 DEF r
<1>9. /\ DecoderOK(e, K) /\ b \in Seq(Wire(K)) /\ e.state = "Ready" /\ Paired(b)
      /\ e \in [buffer : Seq(Wire(K)), state : {"Ready", "Recovering", "Stopped"},
                error_count : 0 .. MAX_ERRORS]
  BY <1>7 DEF Decodes, DecoderOK, Sound
<1>10. IF z.half = 1 THEN b = <<z>> ELSE b = <<>>
  <2>1. CASE Len(b) = 0
    BY <1>7, <1>9, <2>1 DEF Sound
  <2>2. CASE Len(b) = 1
    <3>1. b[1] = z /\ z.half = 1
      BY <1>7, <2>2 DEF Sound, Paired
    <3> HIDE DEF b
    <3>2. b = <<b[1]>>
      BY <1>9, <2>2
    <3> QED
      BY <3>1, <3>2
  <2>3. Len(b) = 0 \/ Len(b) = 1
    <3>1. Len(b) \in Nat /\ Len(b) <= 1
      BY <1>7
    <3> QED
      BY <3>1, OneAtMost
  <2> QED
    BY <2>1, <2>2, <2>3
<1>11. ~ Decoding(e) \/ ParseFrame(b) = "none"
  <2>1. CASE b = <<>>
    BY <2>1 DEF Decoding
  <2>2. CASE b # <<>>
    <3>1. Len(b) = 1
      <4>1. Len(b) \in Nat /\ Len(b) <= 1 /\ b \in Seq(Wire(K)) /\ b # <<>>
        BY <1>7, <1>9, <2>2
      <4>2. Len(b) # 0
        BY <4>1, Lengths
      <4> QED
        BY <4>1, <4>2, OneAtMost
    <3> QED
      BY <1>9, <3>1, HalfUnparsed
  <2> QED
    BY <2>1, <2>2
<1>12. DecodeEnd(e).buffer = b /\ DecodeEnd(e).state = "Ready"
  <2>1. DecodeEnd(e) = [e EXCEPT !.state = IF @ \in {"Stopped", "Recovering"} THEN @ ELSE "Ready"]
    BY <1>11 DEF DecodeEnd
  <2> QED
    BY <1>9, <2>1
<1> HIDE DEF b, e, s
<1>13. WordsUpto(r.frames, Len(r.frames)) = T
  BY <1>8 DEF T, Taken
<1> QED
  BY <1>7, <1>8, <1>10, <1>12, <1>13 DEF r, U

-------------------------------------------------------------------------------
(* The words of a new frame have numbers that no word before them had.         *)

LEMMA NumberedWords ==
    ASSUME scenario \in Scenarios, sent.pieces \in Nat, NEW K, NEW t \in Seq(K)
    PROVE  LET u == Numbered(t)
               p == sent.pieces
           IN /\ Len(u) \in Nat /\ Rising(u)
              /\ WordsIn(u) \subseteq p + 1 .. p + Len(u)
<1> DEFINE u == Numbered(t)
           p == sent.pieces
<1>1. u \in Texts(K)
  BY NumberedIs
<1>2. DOMAIN u = 1 .. Len(u) /\ Len(u) \in Nat
  BY <1>1, TextLen
<1>3. DOMAIN u = DOMAIN t /\ \A i \in DOMAIN t : u[i].n = p + i
  BY DEF Numbered
<1> HIDE DEF u, p
<1>4. p \in Nat
  BY DEF p
<1>5. \A i \in 1 .. Len(u) : u[i].n = p + i /\ p + i \in p + 1 .. p + Len(u)
  BY <1>2, <1>3, <1>4
<1>6. Rising(u)
  BY <1>2, <1>4, <1>5 DEF Rising
<1>7. WordsIn(u) \subseteq p + 1 .. p + Len(u)
  BY <1>2, <1>5 DEF WordsIn
<1> QED
  BY <1>2, <1>6, <1>7 DEF u, p

LEMMA FreshFrame ==
    ASSUME scenario \in Scenarios, sent.pieces \in Nat, NEW frame \in NextFrames
    PROVE  LET l == Len(EventText(frame.event))
               p == sent.pieces
           IN /\ l \in Nat /\ Rising(EventText(frame.event))
              /\ FrameWords(frame) \subseteq p + 1 .. p + l
<1> DEFINE e == frame.event
           Fresh(t) == /\ Len(t) \in Nat /\ Rising(t)
                       /\ WordsIn(t) \subseteq sent.pieces + 1 .. sent.pieces + Len(t)
<1>1. e \in NextEvents
  BY DEF NextFrames
<1>2. Fresh(<<>>)
  BY NoWords
<1>3. \A t \in scenario.texts : Fresh(Numbered(t))
  <2> SUFFICES ASSUME NEW t \in scenario.texts PROVE Fresh(Numbered(t))
    OBVIOUS
  <2>1. t \in Seq(PieceKinds)
    BY ScenarioAssumption DEF ScenarioOK
  <2> QED
    BY <2>1, NumberedWords
<1>4. Fresh(Numbered(<<"word">>))
  <2> DEFINE w == <<"word">>
  <2>1. w \in Seq({"word"})
    OBVIOUS
  <2> HIDE DEF w
  <2>2. Fresh(Numbered(w))
    BY <2>1, NumberedWords
  <2> QED
    BY <2>2 DEF w
<1> HIDE DEF Fresh, e
<1>5. Fresh(EventText(e))
  <2>1. CASE e \in TextEvents
    <3>1. PICK t \in scenario.texts : e = [type |-> "text", text |-> Numbered(t)]
      BY <2>1 DEF TextEvents
    <3>2. EventText(e) = Numbered(t)
      BY <3>1 DEF EventText
    <3> QED
      BY <1>3, <3>2
  <2>2. CASE e = [type |-> "reasoning", text |-> Numbered(<<"word">>)]
    <3>1. EventText(e) = Numbered(<<"word">>)
      BY <2>2 DEF EventText
    <3> QED
      BY <1>4, <3>1
  <2>3. CASE e \in ToolEvents
    <3>1. e.type = "tool"
      BY <2>3 DEF ToolEvents
    <3> QED
      BY <1>2, <3>1 DEF EventText
  <2>4. CASE \E t \in scenario.events \ {"reasoning", "tool"} : e = [type |-> t]
    <3>1. PICK t \in scenario.events \ {"reasoning", "tool"} : e = [type |-> t]
      BY <2>4
    <3>2. scenario.events \subseteq {"reasoning", "redacted", "tool", "window_full", "too_long"}
      BY ScenarioAssumption DEF ScenarioOK
    <3>3. e.type \notin {"text", "reasoning"}
      BY <3>1, <3>2
    <3> QED
      BY <1>2, <3>3 DEF EventText
  <2> QED
    BY <1>1, <2>1, <2>2, <2>3, <2>4 DEF NextEvents
<1> QED
  BY <1>5 DEF Fresh, e, FrameWords

(* A chunk holds the first cell of at most one frame, with the words N.        *)
Chunk(data, N) ==
    /\ \A i \in 1 .. Len(data) : data[i].half = 1 =>
          Rising(EventText(data[i].frame.event)) /\ FrameWords(data[i].frame) \subseteq N
    /\ \A i, j \in 1 .. Len(data) : data[i].half = 1 /\ data[j].half = 1 => i = j

LEMMA ComingMore ==
    ASSUME NEW S, NEW b \in Seq(S), NEW data \in Seq(S), NEW A, Coming(A, b), NEW N,
           Chunk(data, N), Before(A \cup BufferWords(b), N)
    PROVE  Coming(A, b \o data) /\ BufferWords(b \o data) \subseteq BufferWords(b) \cup N
<1> DEFINE r == b \o data
           l == Len(b)
<1>1. l \in Nat /\ Len(data) \in Nat
  OBVIOUS
<1>2. /\ Len(r) = l + Len(data)
      /\ \A i \in 1 .. l : r[i] = b[i]
      /\ \A i \in l + 1 .. l + Len(data) : r[i] = data[i - l]
  BY ConcatProperties
<1> HIDE DEF r, l
<1>3. ASSUME NEW i \in 1 .. Len(r)
      PROVE  \/ i \in 1 .. l /\ r[i] = b[i]
             \/ i > l /\ i - l \in 1 .. Len(data) /\ r[i] = data[i - l]
  BY <1>1, <1>2
<1>4. \A i \in 1 .. l : b[i].half = 1 => FrameWords(b[i].frame) \subseteq BufferWords(b)
  BY CellsIn DEF l
<1>5. ASSUME NEW i \in 1 .. Len(r), r[i].half = 1
      PROVE  /\ Rising(EventText(r[i].frame.event)) /\ Before(A, FrameWords(r[i].frame))
             /\ FrameWords(r[i].frame) \subseteq BufferWords(b) \cup N
  <2>1. CASE i \in 1 .. l /\ r[i] = b[i]
    BY <1>4, <1>5, <2>1 DEF Coming, l
  <2>2. CASE i > l /\ i - l \in 1 .. Len(data) /\ r[i] = data[i - l]
    <3>1. Rising(EventText(r[i].frame.event)) /\ FrameWords(r[i].frame) \subseteq N
      BY <1>5, <2>2 DEF Chunk
    <3> QED
      BY <3>1 DEF Before
  <2> QED
    BY <1>3, <2>1, <2>2
<1>6. ASSUME NEW i \in 1 .. Len(r), NEW j \in 1 .. Len(r), i < j, r[i].half = 1, r[j].half = 1
      PROVE  Before(FrameWords(r[i].frame), FrameWords(r[j].frame))
  <2>1. CASE i \in 1 .. l /\ j \in 1 .. l
    BY <1>2, <1>6, <2>1 DEF Coming, l
  <2>2. CASE i \in 1 .. l /\ j > l
    <3>1. FrameWords(r[i].frame) \subseteq BufferWords(b)
      BY <1>2, <1>4, <1>6, <2>2
    <3>2. j - l \in 1 .. Len(data) /\ r[j] = data[j - l]
      BY <1>1, <1>3, <2>2
    <3>3. FrameWords(r[j].frame) \subseteq N
      BY <1>6, <3>2 DEF Chunk
    <3> QED
      BY <3>1, <3>3 DEF Before
  <2>3. CASE i > l /\ j > l
    <3>1. /\ i - l \in 1 .. Len(data) /\ r[i] = data[i - l]
          /\ j - l \in 1 .. Len(data) /\ r[j] = data[j - l]
      BY <1>1, <1>3, <2>3
    <3>2. i - l = j - l
      BY <1>6, <3>1 DEF Chunk
    <3> QED
      BY <1>1, <1>2, <1>6, <3>2
  <2> QED
    BY <1>1, <1>2, <1>6, <2>1, <2>2, <2>3
<1>7. Coming(A, r)
  BY <1>5, <1>6 DEF Coming
<1>8. BufferWords(r) \subseteq BufferWords(b) \cup N
  BY <1>5, CellsIn
<1> QED
  BY <1>7, <1>8 DEF r

LEMMA FeedWords ==
    ASSUME NEW K, NEW d, DecoderOK(d, K), NEW data \in Seq(Wire(K)), NEW A, Coming(A, d.buffer),
           NEW N, Chunk(data, N), Before(A \cup BufferWords(d.buffer), N)
    PROVE  LET f == Feed(d, data)
           IN Coming(A, f.buffer) /\ BufferWords(f.buffer) \subseteq BufferWords(d.buffer) \cup N
<1> DEFINE b == d.buffer
           j == b \o data
           f == Feed(d, data)
<1>1. b \in Seq(Wire(K))
  BY DEF DecoderOK
<1>2. f.buffer = b \/ f.buffer = j
  <2>1. d \in [buffer : Seq(Wire(K)), state : {"Ready", "Recovering", "Stopped"},
               error_count : 0 .. MAX_ERRORS]
    BY DEF DecoderOK
  <2>2. f = d \/ f = [d EXCEPT !.buffer = j, !.state = IF @ = "Recovering" THEN "Ready" ELSE @]
    BY DEF Feed
  <2> HIDE DEF f, j
  <2> QED
    BY <2>1, <2>2
<1>3. Coming(A, j) /\ BufferWords(j) \subseteq BufferWords(b) \cup N
  <2> HIDE DEF b
  <2>1. Coming(A, b) /\ Before(A \cup BufferWords(b), N)
    BY DEF b
  <2> QED
    BY <1>1, <2>1, ComingMore
<1> HIDE DEF j, f
<1> QED
  BY <1>2, <1>3 DEF f

(* What a chunk brings to the context, and what then waits in the decoder.     *)
LEMMA ReceivedWords ==
    ASSUME NEW K, NEW A, Underway(ctx, K, A), Rested(ctx), DecoderOK(decoder, K),
           Coming(A, decoder.buffer), NEW data \in Seq(Wire(K)), NEW N, Chunk(data, N),
           Before(A \cup BufferWords(decoder.buffer), N)
    PROVE  LET r == DecodeIter(Feed(decoder, data))
               B == A \cup WordsUpto(r.frames, Len(r.frames))
           IN /\ Underway(ProcessFrames(r.frames), K, B) /\ Rested(ProcessFrames(r.frames))
              /\ Coming(B, r.decoder.buffer)
              /\ B \cup BufferWords(r.decoder.buffer)
                    \subseteq A \cup BufferWords(decoder.buffer) \cup N
<1> DEFINE f == Feed(decoder, data)
           r == DecodeIter(f)
           T == WordsUpto(r.frames, Len(r.frames))
<1>1. /\ DecoderOK(f, K) /\ Coming(A, f.buffer)
      /\ BufferWords(f.buffer) \subseteq BufferWords(decoder.buffer) \cup N
  BY FeedOK, FeedWords
<1> HIDE DEF f
<1>2. r.frames \in Seq(Frames(K))
  BY <1>1, DecodeIterOK
<1>3. /\ InTurn(A, r.frames) /\ Coming(A \cup T, r.decoder.buffer)
      /\ T \cup BufferWords(r.decoder.buffer) \subseteq BufferWords(f.buffer)
  BY <1>1, DecodeIterWords
<1> HIDE DEF r
<1>4. /\ Underway(ProcessFrames(r.frames), K, A \cup T) /\ Rested(ProcessFrames(r.frames))
  BY <1>2, <1>3, FramesWords
<1> QED
  BY <1>1, <1>3, <1>4 DEF r, f

-------------------------------------------------------------------------------
(* While no frame was corrupt, the decoder waits for nothing but the half of   *)
(* the frame that was cut.                                                     *)

Prelude(frame) == [frame |-> frame, half |-> 1]

Rest(frame) == [frame |-> frame, half |-> 2]

Whole(d, half) ==
    /\ d.state = "Ready"
    /\ \/ half = <<>> /\ d.buffer = <<>>
       \/ \E f : f.kind = "ok" /\ half = <<Rest(f)>> /\ d.buffer = <<Prelude(f)>>

LEMMA PairedCells ==
    ASSUME NEW f, f.kind = "ok", NEW g, g.kind = "ok"
    PROVE  /\ Paired(<<Prelude(f)>>) /\ Paired(<<Prelude(f), Rest(f)>>)
           /\ Paired(<<Prelude(f), Rest(f), Prelude(g)>>)
           /\ Paired(<<Prelude(f), Rest(f), Prelude(g), Rest(g)>>)
<1> DEFINE a == Prelude(f)
           b == Rest(f)
           c == Prelude(g)
           e == Rest(g)
<1>1. /\ a.half = 1 /\ a.frame = f /\ b.half = 2 /\ b = [frame |-> a.frame, half |-> 2]
      /\ c.half = 1 /\ c.frame = g /\ e.half = 2 /\ e = [frame |-> c.frame, half |-> 2]
  BY DEF Prelude, Rest
<1> HIDE DEF a, b, c, e
<1>2. Paired(<<a>>) /\ Paired(<<a, b>>)
  BY <1>1 DEF Paired
<1>3. Paired(<<a, b, c>>)
  BY <1>1 DEF Paired
<1>4. Paired(<<a, b, c, e>>)
  BY <1>1 DEF Paired
<1> QED
  BY <1>2, <1>3, <1>4 DEF a, b, c, e

Glues(s, u, w) ==
    /\ Len(w) = Len(s) + Len(u)
    /\ \A i \in 1 .. Len(s) : w[i] = s[i]
    /\ \A i \in 1 .. Len(u) : w[Len(s) + i] = u[i]

LEMMA Glued ==
    ASSUME NEW S, NEW s \in Seq(S), NEW u \in Seq(S), NEW w \in Seq(S), Glues(s, u, w)
    PROVE  s \o u = w
<1>0. /\ Len(w) = Len(s) + Len(u)
      /\ \A i \in 1 .. Len(s) : w[i] = s[i]
      /\ \A i \in 1 .. Len(u) : w[Len(s) + i] = u[i]
  BY DEF Glues
<1> DEFINE v == s \o u
<1>1. Len(s) \in Nat /\ Len(u) \in Nat
  OBVIOUS
<1>2. /\ v \in Seq(S) /\ Len(v) = Len(s) + Len(u)
      /\ \A i \in 1 .. Len(s) : v[i] = s[i]
      /\ \A i \in Len(s) + 1 .. Len(s) + Len(u) : v[i] = u[i - Len(s)]
  BY ConcatProperties
<1> HIDE DEF v
<1>3. ASSUME NEW i \in 1 .. Len(w) PROVE v[i] = w[i]
  <2>1. CASE i \in 1 .. Len(s)
    BY <1>0, <1>2, <2>1
  <2>2. CASE i \notin 1 .. Len(s)
    <3>1. /\ i \in Len(s) + 1 .. Len(s) + Len(u) /\ i - Len(s) \in 1 .. Len(u)
          /\ Len(s) + (i - Len(s)) = i
      BY <1>0, <1>1, <2>2
    <3> QED
      BY <1>0, <1>2, <3>1
  <2> QED
    BY <2>1, <2>2
<1>4. v = w
  BY <1>0, <1>2, <1>3, SeqEqual
<1> QED
  BY <1>4 DEF v

LEMMA TwoCells ==
    ASSUME NEW a, NEW b PROVE <<a>> \o <<b>> = <<a, b>>
<1> DEFINE S == {a, b}
           s == <<a>>
           u == <<b>>
           w == <<a, b>>
<1>1. s \in Seq(S) /\ u \in Seq(S) /\ w \in Seq(S)
  OBVIOUS
<1>2. Glues(s, u, w)
  <2>1. /\ Len(s) = 1 /\ Len(u) = 1 /\ Len(w) = 2
        /\ s[1] = a /\ u[1] = b /\ w[1] = a /\ w[2] = b
    OBVIOUS
  <2> HIDE DEF s, u, w
  <2> QED
    BY <2>1 DEF Glues
<1> HIDE DEF S, s, u, w
<1>3. s \o u = w
  BY <1>1, <1>2, Glued
<1> QED
  BY <1>3 DEF s, u, w

LEMMA ThreeCells ==
    ASSUME NEW a, NEW b, NEW c PROVE <<a>> \o <<b, c>> = <<a, b, c>>
<1> DEFINE S == {a, b, c}
           s == <<a>>
           u == <<b, c>>
           w == <<a, b, c>>
<1>1. s \in Seq(S) /\ u \in Seq(S) /\ w \in Seq(S)
  OBVIOUS
<1>2. Glues(s, u, w)
  BY DEF Glues
<1> HIDE DEF S, s, u, w
<1>3. s \o u = w
  BY <1>1, <1>2, Glued
<1> QED
  BY <1>3 DEF s, u, w

LEMMA FourCells ==
    ASSUME NEW a, NEW b, NEW c, NEW e PROVE <<a>> \o <<b, c, e>> = <<a, b, c, e>>
<1> DEFINE S == {a, b, c, e}
           s == <<a>>
           u == <<b, c, e>>
           w == <<a, b, c, e>>
<1>1. s \in Seq(S) /\ u \in Seq(S) /\ w \in Seq(S)
  OBVIOUS
<1>2. Glues(s, u, w)
  BY DEF Glues
<1> HIDE DEF S, s, u, w
<1>3. s \o u = w
  BY <1>1, <1>2, Glued
<1> QED
  BY <1>3 DEF s, u, w

LEMMA CellsWords ==
    ASSUME NEW f, NEW g
    PROVE  /\ BufferWords(<<>>) = {} /\ BufferWords(<<Prelude(f)>>) = FrameWords(f)
           /\ BufferWords(<<Prelude(f), Rest(f)>>) = FrameWords(f)
           /\ BufferWords(<<Prelude(f), Rest(f), Prelude(g)>>) = FrameWords(f) \cup FrameWords(g)
           /\ BufferWords(<<Prelude(f), Rest(f), Prelude(g), Rest(g)>>)
                 = FrameWords(f) \cup FrameWords(g)
<1> DEFINE a == Prelude(f)
           b == Rest(f)
           c == Prelude(g)
           e == Rest(g)
           U == FrameWords(f)
           V == FrameWords(g)
<1>1. CellWords(a) = U /\ CellWords(b) = {} /\ CellWords(c) = V /\ CellWords(e) = {}
  BY DEF CellWords, Prelude, Rest
<1> HIDE DEF a, b, c, e, U, V
<1>2. /\ BufferWords(<<>>) = {} /\ BufferWords(<<a>>) = U
      /\ BufferWords(<<a, b>>) = U
  BY <1>1 DEF BufferWords
<1>3. BufferWords(<<a, b, c>>) = U \cup V
  BY <1>1 DEF BufferWords
<1>4. BufferWords(<<a, b, c, e>>) = U \cup V
  BY <1>1 DEF BufferWords
<1> QED
  BY <1>2, <1>3, <1>4 DEF a, b, c, e, U, V

(* A buffer w of whole frames and at most a half: what the decoder leaves.     *)
Filled(d, data, w, z) ==
    /\ d.state = "Ready" /\ w = d.buffer \o data /\ Paired(w) /\ Len(w) \in 1 .. 4
    /\ z = w[Len(w)]

LEMMA SoundReceived ==
    ASSUME NEW K, NEW d, DecoderOK(d, K), NEW data \in Seq(Wire(K)), NEW w, NEW z,
           Filled(d, data, w, z)
    PROVE  LET r == DecodeIter(Feed(d, data))
           IN /\ r.decoder.state = "Ready"
              /\ r.decoder.buffer = IF z.half = 1 THEN <<z>> ELSE <<>>
              /\ WordsUpto(r.frames, Len(r.frames)) \cup BufferWords(r.decoder.buffer)
                    = BufferWords(w)
<1> DEFINE f == Feed(d, data)
<1> USE DEF Filled
<1>1. /\ d \in [buffer : Seq(Wire(K)), state : {"Ready", "Recovering", "Stopped"},
               error_count : 0 .. MAX_ERRORS]
      /\ d.buffer \in Seq(Wire(K))
  BY DEF DecoderOK
<1>2. w \in Seq(Wire(K)) /\ Len(w) = Len(d.buffer) + Len(data)
  <2> DEFINE b == d.buffer
  <2> HIDE DEF b
  <2>1. b \in Seq(Wire(K)) /\ w = b \o data
    BY <1>1 DEF b
  <2>2. w \in Seq(Wire(K)) /\ Len(w) = Len(b) + Len(data)
    BY <2>1, ConcatProperties
  <2> QED
    BY <2>2 DEF b
<1>3. ~ (Len(d.buffer) + Len(data) > MAX_BUFFER)
  <2>1. MAX_BUFFER \in Nat /\ MAX_BUFFER >= 4
    BY DecoderAssumption
  <2> DEFINE l == Len(d.buffer) + Len(data)
  <2> HIDE DEF l
  <2>2. l \in 1 .. 4
    BY <1>2 DEF l
  <2>3. ~ (l > MAX_BUFFER)
    BY <2>1, <2>2
  <2> QED
    BY <2>3 DEF l
<1>4. f = [d EXCEPT !.buffer = w, !.state = IF @ = "Recovering" THEN "Ready" ELSE @]
  BY <1>3 DEF Feed
<1>5. f.buffer = w /\ f.state = "Ready"
  <2> HIDE DEF f
  <2> QED
    BY <1>1, <1>4
<1>6. DecoderOK(f, K)
  BY FeedOK
<1> HIDE DEF f
<1>7. z.half \in {1, 2}
  <2>1. z \in Wire(K)
    BY <1>2
  <2> QED
    BY <2>1 DEF Wire
<1>8. Sound(f, z)
  BY <1>5 DEF Sound
<1>9. LET r == DecodeIter(f)
          b == r.decoder.buffer
      IN /\ WordsUpto(r.frames, Len(r.frames)) \cup BufferWords(b) = BufferWords(f.buffer)
         /\ r.decoder.state = "Ready"
         /\ IF z.half = 1 THEN b = <<z>> ELSE b = <<>>
  BY <1>6, <1>7, <1>8, DecodeIterSound
<1> QED
  BY <1>5, <1>9 DEF f

(* What waits once a chunk was received: its last frame, if it was cut.        *)
Cut(tail, g, rest) ==
    \/ tail = <<Prelude(g), Rest(g)>> /\ rest = <<>>
    \/ tail = <<Prelude(g)>> /\ rest = <<Rest(g)>>

LEMMA WholeReceived ==
    ASSUME NEW K, NEW d, DecoderOK(d, K), NEW half \in Seq(Wire(K)), Whole(d, half),
           NEW tail \in Seq(Wire(K)), NEW g, g.kind = "ok", Prelude(g) \in Wire(K),
           Rest(g) \in Wire(K), NEW rest, Cut(tail, g, rest)
    PROVE  LET r == DecodeIter(Feed(d, half \o tail))
           IN /\ Whole(r.decoder, rest)
              /\ WordsUpto(r.frames, Len(r.frames)) \cup BufferWords(r.decoder.buffer)
                    = BufferWords(d.buffer) \cup FrameWords(g)
<1> DEFINE data == half \o tail
           w == d.buffer \o data
           z == w[Len(w)]
           a == Prelude(g)
           b == Rest(g)
           r == DecodeIter(Feed(d, data))
<1>1. d.state = "Ready"
  BY DEF Whole
<1>2. data \in Seq(Wire(K))
  BY ConcatProperties
<1>3. /\ Paired(w) /\ Len(w) \in 1 .. 4 /\ z = IF rest = <<>> THEN b ELSE a
      /\ BufferWords(w) = BufferWords(d.buffer) \cup FrameWords(g)
  <2> HIDE DEF a, b
  <2>1. CASE half = <<>> /\ d.buffer = <<>>
    <3>1. BufferWords(d.buffer) = {}
      BY <2>1, CellsWords
    <3>2. CASE tail = <<a, b>> /\ rest = <<>>
      <4>1. w = <<a, b>>
        BY <2>1, <3>2, ConcatEmptySeq DEF a, b
      <4> HIDE DEF w
      <4>2. Len(w) = 2 /\ w[2] = b
        BY <4>1
      <4>3. Paired(w) /\ BufferWords(w) = FrameWords(g)
        BY <4>1, PairedCells, CellsWords DEF a, b
      <4> QED
        BY <3>1, <3>2, <4>2, <4>3
    <3>3. CASE tail = <<a>> /\ rest = <<b>>
      <4>1. w = <<a>>
        BY <2>1, <3>3, ConcatEmptySeq DEF a, b
      <4> HIDE DEF w
      <4>2. Len(w) = 1 /\ w[1] = a
        BY <4>1
      <4>3. Paired(w) /\ BufferWords(w) = FrameWords(g)
        BY <4>1, PairedCells, CellsWords DEF a, b
      <4> QED
        BY <3>1, <3>3, <4>2, <4>3
    <3> QED
      BY <3>2, <3>3 DEF Cut, a, b
  <2>2. ASSUME NEW f, f.kind = "ok", half = <<Rest(f)>>, d.buffer = <<Prelude(f)>>
        PROVE  /\ Paired(w) /\ Len(w) \in 1 .. 4 /\ z = IF rest = <<>> THEN b ELSE a
               /\ BufferWords(w) = BufferWords(d.buffer) \cup FrameWords(g)
    <3> DEFINE x == Prelude(f)
               y == Rest(f)
    <3>1. BufferWords(d.buffer) = FrameWords(f)
      BY <2>2, CellsWords
    <3>2. x \in Wire(K) /\ y \in Wire(K)
      <4>1. d.buffer \in Seq(Wire(K))
        BY DEF DecoderOK
      <4> HIDE DEF x, y
      <4>2. <<x>> \in Seq(Wire(K)) /\ <<y>> \in Seq(Wire(K))
        BY <2>2, <4>1 DEF x, y
      <4>3. \A v : <<v>> \in Seq(Wire(K)) => v \in Wire(K)
        <5> TAKE v
        <5> HAVE <<v>> \in Seq(Wire(K))
        <5>1. <<v>>[1] \in Wire(K)
          BY ElementOfSeq
        <5> QED
          BY <5>1
      <4> QED
        BY <4>2, <4>3
    <3> HIDE DEF x, y
    <3>3. CASE tail = <<a, b>> /\ rest = <<>>
      <4>1. w = <<x, y, a, b>>
        <5>1. half = <<y>> /\ d.buffer = <<x>> /\ data = <<y>> \o <<a, b>> /\ w = <<x>> \o data
          BY <2>2, <3>3 DEF x, y
        <5> HIDE DEF w, data
        <5>3. data = <<y, a, b>>
          BY <5>1, ThreeCells
        <5>4. <<x>> \o data = <<x, y, a, b>>
          BY <5>3, FourCells
        <5> QED
          BY <5>1, <5>4
      <4> HIDE DEF w
      <4>2. Len(w) = 4 /\ w[4] = b
        BY <4>1
      <4>3. Paired(w) /\ BufferWords(w) = FrameWords(f) \cup FrameWords(g)
        BY <2>2, <4>1, PairedCells, CellsWords DEF a, b, x, y
      <4> QED
        BY <3>1, <3>3, <4>2, <4>3
    <3>4. CASE tail = <<a>> /\ rest = <<b>>
      <4>1. w = <<x, y, a>>
        <5>1. half = <<y>> /\ d.buffer = <<x>> /\ data = <<y>> \o <<a>> /\ w = <<x>> \o data
          BY <2>2, <3>4 DEF x, y
        <5> HIDE DEF w, data
        <5>3. data = <<y, a>>
          BY <5>1, TwoCells
        <5>4. <<x>> \o data = <<x, y, a>>
          BY <5>3, ThreeCells
        <5> QED
          BY <5>1, <5>4
      <4> HIDE DEF w
      <4>2. Len(w) = 3 /\ w[3] = a
        BY <4>1
      <4>3. Paired(w) /\ BufferWords(w) = FrameWords(f) \cup FrameWords(g)
        BY <2>2, <4>1, PairedCells, CellsWords DEF a, b, x, y
      <4> QED
        BY <3>1, <3>4, <4>2, <4>3
    <3> QED
      BY <3>3, <3>4 DEF Cut, a, b
  <2> QED
    BY <2>1, <2>2 DEF Whole
<1> HIDE DEF w, data, z
<1>4. Filled(d, data, w, z)
  BY <1>1, <1>3 DEF Filled, w, z
<1>5. /\ r.decoder.state = "Ready"
      /\ r.decoder.buffer = IF z.half = 1 THEN <<z>> ELSE <<>>
      /\ WordsUpto(r.frames, Len(r.frames)) \cup BufferWords(r.decoder.buffer)
            = BufferWords(w)
  BY <1>2, <1>4, SoundReceived
<1> HIDE DEF r
<1>6. Whole(r.decoder, rest)
  <2>1. a.half = 1 /\ b.half = 2
    BY DEF Prelude, Rest
  <2>2. CASE rest = <<>>
    BY <1>3, <1>5, <2>1, <2>2 DEF Whole
  <2>3. CASE rest # <<>>
    <3>1. rest = <<Rest(g)>>
      BY <2>3 DEF Cut
    <3>2. r.decoder.buffer = <<Prelude(g)>>
      BY <1>3, <1>5, <2>1, <2>3
    <3> QED
      BY <1>5, <3>1, <3>2 DEF Whole
  <2> QED
    BY <2>2, <2>3
<1> QED
  BY <1>3, <1>5, <1>6 DEF r, data

(* The rest of a frame alone.                                                  *)
LEMMA RestReceived ==
    ASSUME NEW K, NEW d, DecoderOK(d, K), NEW half \in Seq(Wire(K)), half # <<>>, Whole(d, half)
    PROVE  LET r == DecodeIter(Feed(d, half))
           IN /\ Whole(r.decoder, <<>>)
              /\ WordsUpto(r.frames, Len(r.frames)) \cup BufferWords(r.decoder.buffer)
                    = BufferWords(d.buffer)
<1> DEFINE w == d.buffer \o half
           z == w[Len(w)]
           r == DecodeIter(Feed(d, half))
<1>1. d.state = "Ready"
  BY DEF Whole
<1>2. PICK f : f.kind = "ok" /\ half = <<Rest(f)>> /\ d.buffer = <<Prelude(f)>>
  BY DEF Whole
<1> DEFINE x == Prelude(f)
           y == Rest(f)
<1>3. w = <<x, y>>
  <2> HIDE DEF x, y
  <2>1. half = <<y>> /\ d.buffer = <<x>>
    BY <1>2 DEF x, y
  <2>2. <<x>> \o <<y>> = <<x, y>>
    BY TwoCells
  <2> QED
    BY <2>1, <2>2
<1>4. y.half = 2 /\ BufferWords(d.buffer) = FrameWords(f)
  BY <1>2, CellsWords DEF Rest
<1> HIDE DEF w, z
<1>5. Paired(w) /\ BufferWords(w) = FrameWords(f)
  BY <1>2, <1>3, PairedCells, CellsWords
<1> HIDE DEF x, y
<1>6. Len(w) = 2 /\ w[2] = y
  BY <1>3
<1>7. w = d.buffer \o half /\ z = w[Len(w)] /\ Len(w) \in 1 .. 4
  BY <1>6 DEF w, z
<1>8. z = y
  BY <1>6, <1>7
<1>9. /\ r.decoder.state = "Ready"
      /\ r.decoder.buffer = IF z.half = 1 THEN <<z>> ELSE <<>>
      /\ WordsUpto(r.frames, Len(r.frames)) \cup BufferWords(r.decoder.buffer)
            = BufferWords(w)
  <2>1. Filled(d, half, w, z)
    BY <1>1, <1>5, <1>7 DEF Filled
  <2> QED
    BY <2>1, SoundReceived
<1> HIDE DEF r
<1>10. Whole(r.decoder, <<>>)
  BY <1>4, <1>8, <1>9 DEF Whole
<1> QED
  BY <1>4, <1>5, <1>9, <1>10 DEF r

-------------------------------------------------------------------------------
(* The inductive invariant: the words of A went into the context, and those    *)
(* that wait in the decoder come after them; while no frame was corrupt these  *)
(* are all words that were sent.                                               *)

Wired(A) ==
    /\ A \cup BufferWords(decoder.buffer) \subseteq sent.words
    /\ sent.words \subseteq 1 .. sent.pieces
    /\ Coming(A, decoder.buffer)
    /\ sent.half = <<>> \/ \E f : sent.half = <<Rest(f)>>
    /\ sent.corrupt = 0 =>
          Whole(decoder, sent.half) /\ sent.words \subseteq A \cup BufferWords(decoder.buffer)

Carried(A) ==
    /\ Wired(A)
    /\ stream # "finished" => Underway(ctx, KindsOf(scenario), A) /\ Rested(ctx)
    /\ stream = "finished" => Emptied(ctx, KindsOf(scenario), A)

WordsInv == StreamInv /\ \E A : Carried(A)

LEMMA ChunkCells ==
    ASSUME NEW half, half = <<>> \/ \E f : half = <<Rest(f)>>,
           NEW g, Rising(EventText(g.event)), NEW tail,
           tail = <<Prelude(g), Rest(g)>> \/ tail = <<Prelude(g)>>
    PROVE  Chunk(half \o tail, FrameWords(g))
<1> DEFINE a == Prelude(g)
           b == Rest(g)
           N == FrameWords(g)
<1>1. /\ a.half = 1 /\ a.frame = g /\ b.half = 2
      /\ Rising(EventText(a.frame.event)) /\ FrameWords(a.frame) \subseteq N
  BY DEF Prelude, Rest
<1> HIDE DEF a, b, N
<1>2. Chunk(<<a, b>>, N) /\ Chunk(<<a>>, N)
  BY <1>1 DEF Chunk
<1>3. ASSUME NEW y, y.half = 2 PROVE Chunk(<<y, a, b>>, N) /\ Chunk(<<y, a>>, N)
  BY <1>1, <1>3 DEF Chunk
<1>4. tail = <<a, b>> \/ tail = <<a>>
  BY DEF a, b
<1>5. CASE half = <<>>
  <2>1. <<a, b>> \in Seq({a, b}) /\ <<a>> \in Seq({a, b})
    OBVIOUS
  <2>2. half \o tail = tail
    BY <1>4, <1>5, <2>1, ConcatEmptySeq
  <2> QED
    BY <1>2, <1>4, <2>2 DEF N
<1>6. CASE \E f : half = <<Rest(f)>>
  <2>1. PICK f : half = <<Rest(f)>>
    BY <1>6
  <2> DEFINE y == Rest(f)
  <2>2. y.half = 2
    BY DEF Rest
  <2>3. half = <<y>>
    BY <2>1
  <2> HIDE DEF y
  <2>4. <<y>> \o <<a, b>> = <<y, a, b>> /\ <<y>> \o <<a>> = <<y, a>>
    BY TwoCells, ThreeCells
  <2> QED
    BY <1>3, <1>4, <2>2, <2>3, <2>4 DEF N
<1> QED
  BY <1>5, <1>6

LEMMA ChunkRest ==
    ASSUME NEW f
    PROVE  Chunk(<<Rest(f)>>, {})
<1> DEFINE y == Rest(f)
<1>1. y.half = 2
  BY DEF Rest
<1> HIDE DEF y
<1>2. Chunk(<<y>>, {})
  BY <1>1 DEF Chunk
<1> QED
  BY <1>2 DEF y

LEMMA LaterNumbers ==
    ASSUME NEW p \in Nat, NEW q \in Nat, p <= q, NEW U, U \subseteq 1 .. p,
           NEW N, N \subseteq p + 1 .. q
    PROVE  Before(U, N) /\ U \subseteq 1 .. q /\ N \subseteq 1 .. q
<1>1. \A m \in U : m \in 1 .. p
  OBVIOUS
<1>2. \A n \in N : n \in p + 1 .. q
  OBVIOUS
<1>3. \A m \in 1 .. p, n \in p + 1 .. q : m < n /\ m \in 1 .. q /\ n \in 1 .. q
  OBVIOUS
<1>4. \A m \in 1 .. p : m \in 1 .. q
  OBVIOUS
<1>5. \A n \in p + 1 .. q : n \in 1 .. q
  OBVIOUS
<1> QED
  BY <1>1, <1>2, <1>3, <1>4, <1>5 DEF Before

(* The arrival of a chunk with the words N.                                    *)
LEMMA ReceiveCarries ==
    ASSUME StreamInv, NEW A, Carried(A), NEW data \in Seq(Wire(KindsOf(scenario))), Receive(data),
           NEW N, Chunk(data, N), NEW q \in Nat, sent.pieces <= q,
           N \subseteq sent.pieces + 1 .. q
    PROVE  LET r == DecodeIter(Feed(decoder, data))
               B == A \cup WordsUpto(r.frames, Len(r.frames))
           IN /\ Underway(ctx', KindsOf(scenario'), B) /\ Rested(ctx') /\ stream' = "open"
              /\ decoder' = r.decoder /\ Coming(B, r.decoder.buffer)
              /\ B \cup BufferWords(r.decoder.buffer) \subseteq sent.words \cup N
              /\ sent.words \cup N \subseteq 1 .. q
<1> DEFINE K == KindsOf(scenario)
           r == DecodeIter(Feed(decoder, data))
           B == A \cup WordsUpto(r.frames, Len(r.frames))
           W == BufferWords(decoder.buffer)
<1>1. /\ stream = "open" /\ scenario' = scenario /\ stream' = stream
      /\ decoder' = r.decoder /\ ctx' = ProcessFrames(r.frames)
  BY DEF Receive
<1>2. /\ DecoderOK(decoder, K) /\ Underway(ctx, K, A) /\ Rested(ctx) /\ Coming(A, decoder.buffer)
      /\ A \cup W \subseteq sent.words /\ sent.words \subseteq 1 .. sent.pieces
      /\ sent.pieces \in Nat
  BY <1>1 DEF StreamInv, Carried, Wired, SentOK, Sents
<1>4. data \in Seq(Wire(K))
  OBVIOUS
<1>5. Before(A \cup W, N) /\ sent.words \cup N \subseteq 1 .. q
  <2> DEFINE p == sent.pieces
  <2>1. A \cup W \subseteq 1 .. p /\ sent.words \subseteq 1 .. p /\ p \in Nat /\ p <= q
        /\ N \subseteq p + 1 .. q
    BY <1>2
  <2> HIDE DEF p, W
  <2> DEFINE U == A \cup W
             V == sent.words
  <2>2. U \subseteq 1 .. p /\ V \subseteq 1 .. p
    BY <2>1
  <2> HIDE DEF U, V
  <2>3. Before(U, N) /\ N \subseteq 1 .. q
    BY <2>1, <2>2, LaterNumbers
  <2>4. V \subseteq 1 .. q
    BY <2>1, <2>2, LaterNumbers
  <2> QED
    BY <2>3, <2>4 DEF U, V
<1> HIDE DEF K, r, W
<1>6. /\ Underway(ProcessFrames(r.frames), K, B) /\ Rested(ProcessFrames(r.frames))
      /\ Coming(B, r.decoder.buffer)
      /\ B \cup BufferWords(r.decoder.buffer) \subseteq A \cup W \cup N
  BY <1>2, <1>4, <1>5, ReceivedWords DEF r, W
<1> HIDE DEF B
<1>7. Underway(ctx', K, B) /\ Rested(ctx')
  BY <1>1, <1>6
<1>8. Underway(ctx', KindsOf(scenario'), B) /\ Rested(ctx')
  BY <1>1, <1>7 DEF K
<1> QED
  BY <1>1, <1>2, <1>5, <1>6, <1>8 DEF K, r, B

LEMMA FrameCarries ==
    ASSUME StreamInv, NEW A, Carried(A), NEW frame \in NextFrames, NEW tail, NEW rest,
           Cut(tail, frame, rest), Receive(sent.half \o tail), sent' = SentFrame(frame, rest)
    PROVE  \E B : Carried(B)'
<1> DEFINE K == KindsOf(scenario)
           N == FrameWords(frame)
           l == Len(EventText(frame.event))
           q == sent.pieces + l
           data == sent.half \o tail
           r == DecodeIter(Feed(decoder, data))
           T == WordsUpto(r.frames, Len(r.frames))
           W == BufferWords(decoder.buffer)
<1>1. /\ scenario \in Scenarios /\ sent.pieces \in Nat /\ sent.corrupt \in Nat
      /\ sent.half \in Seq(Wire(K)) /\ DecoderOK(decoder, K)
  BY DEF StreamInv, SentOK, Sents
<1>2. /\ sent.half = <<>> \/ \E f : sent.half = <<Rest(f)>>
      /\ sent.corrupt = 0 => Whole(decoder, sent.half) /\ sent.words \subseteq A \cup W
  BY DEF Carried, Wired
<1>3. l \in Nat /\ Rising(EventText(frame.event)) /\ N \subseteq sent.pieces + 1 .. q
  BY <1>1, FreshFrame
<1>4. /\ frame \in Frames(K) /\ Prelude(frame) \in Wire(K) /\ Rest(frame) \in Wire(K)
  <2>1. frame \in Frames(K)
    BY <1>1, SentFrames
  <2> QED
    BY <2>1 DEF Wire, Prelude, Rest
<1>5. tail = <<Prelude(frame), Rest(frame)>> \/ tail = <<Prelude(frame)>>
  BY DEF Cut
<1>6. tail \in Seq(Wire(K))
  <2> DEFINE S == Wire(K)
             a == Prelude(frame)
             b == Rest(frame)
  <2> HIDE DEF S, a, b
  <2>1. a \in S /\ b \in S
    BY <1>4 DEF S, a, b
  <2>2. <<a, b>> \in Seq(S) /\ <<a>> \in Seq(S)
    BY <2>1
  <2> QED
    BY <1>5, <2>2 DEF S, a, b
<1>7. data \in Seq(Wire(K))
  BY <1>1, <1>6, ConcatProperties
<1>8. Chunk(data, N)
  BY <1>2, <1>3, <1>5, ChunkCells
<1>9. /\ sent'.half = rest /\ sent'.words = sent.words \cup N /\ sent'.pieces = q
      /\ sent'.corrupt = sent.corrupt + (IF frame.kind = "ok" THEN 0 ELSE 1)
  BY DEF SentFrame, FrameWords
<1>10. sent'.corrupt = 0 => sent.corrupt = 0 /\ frame.kind = "ok"
  BY <1>1, <1>9
<1>11. sent'.corrupt = 0 => Whole(r.decoder, rest) /\ T \cup BufferWords(r.decoder.buffer) = W \cup N
  <2> SUFFICES ASSUME sent'.corrupt = 0
               PROVE  /\ Whole(r.decoder, rest)
                      /\ T \cup BufferWords(r.decoder.buffer) = W \cup N
    OBVIOUS
  <2>1. Whole(decoder, sent.half) /\ frame.kind = "ok"
    BY <1>2, <1>10
  <2> HIDE DEF K
  <2> QED
    BY <1>1, <1>4, <1>6, <2>1, WholeReceived
<1>12. q \in Nat /\ sent.pieces <= q
  BY <1>1, <1>3
<1> HIDE DEF q, l
<1>13. Receive(data)
  OBVIOUS
<1>14. LET B == A \cup T
       IN /\ Underway(ctx', KindsOf(scenario'), B) /\ Rested(ctx') /\ stream' = "open"
          /\ decoder' = r.decoder /\ Coming(B, r.decoder.buffer)
          /\ B \cup BufferWords(r.decoder.buffer) \subseteq sent.words \cup N
          /\ sent.words \cup N \subseteq 1 .. q
  <2> HIDE DEF data, N
  <2> QED
    BY <1>3, <1>7, <1>8, <1>12, <1>13, ReceiveCarries
<1> HIDE DEF r, data, N, W
<1>15. \E B : /\ Underway(ctx', KindsOf(scenario'), B) /\ Rested(ctx') /\ stream' = "open"
              /\ Coming(B, decoder'.buffer)
              /\ B \cup BufferWords(decoder'.buffer) \subseteq sent.words \cup N
              /\ sent.words \cup N \subseteq 1 .. q
              /\ sent'.corrupt = 0 => /\ Whole(decoder', rest)
                                      /\ sent.words \cup N \subseteq B \cup BufferWords(decoder'.buffer)
  <2> DEFINE B == A \cup T
  <2>1. sent'.corrupt = 0 => /\ Whole(r.decoder, rest)
                             /\ sent.words \cup N \subseteq B \cup BufferWords(r.decoder.buffer)
    BY <1>2, <1>10, <1>11
  <2>2. /\ Underway(ctx', KindsOf(scenario'), B) /\ Rested(ctx') /\ stream' = "open"
        /\ decoder' = r.decoder /\ Coming(B, r.decoder.buffer)
        /\ B \cup BufferWords(r.decoder.buffer) \subseteq sent.words \cup N
        /\ sent.words \cup N \subseteq 1 .. q
    BY <1>14
  <2> HIDE DEF B
  <2> QED
    BY <2>1, <2>2
<1>16. PICK B : /\ Underway(ctx', KindsOf(scenario'), B) /\ Rested(ctx') /\ stream' = "open"
                /\ Coming(B, decoder'.buffer)
                /\ B \cup BufferWords(decoder'.buffer) \subseteq sent.words \cup N
                /\ sent.words \cup N \subseteq 1 .. q
                /\ sent'.corrupt = 0 => /\ Whole(decoder', rest)
                                        /\ sent.words \cup N \subseteq B \cup BufferWords(decoder'.buffer)
  BY <1>15
<1>17. sent'.half = <<>> \/ \E f : sent'.half = <<Rest(f)>>
  BY <1>9 DEF Cut
<1>18. Wired(B)'
  BY <1>9, <1>16, <1>17 DEF Wired
<1>19. Carried(B)'
  BY <1>16, <1>18 DEF Carried
<1> QED
  BY <1>19

LEMMA RestCarries ==
    ASSUME StreamInv, NEW A, Carried(A), ReceiveRest
    PROVE  \E B : Carried(B)'
<1> DEFINE K == KindsOf(scenario)
           N == {}
           q == sent.pieces
           data == sent.half
           r == DecodeIter(Feed(decoder, data))
           T == WordsUpto(r.frames, Len(r.frames))
           W == BufferWords(decoder.buffer)
<1>1. /\ sent \in Sents(K) /\ DecoderOK(decoder, K) /\ data \in Seq(Wire(K)) /\ q \in Nat
  BY DEF StreamInv, SentOK, Sents
<1>2. /\ data # <<>> /\ Receive(data) /\ sent' = [sent EXCEPT !.half = <<>>]
      /\ \E f : data = <<Rest(f)>>
      /\ sent.corrupt = 0 => Whole(decoder, data) /\ sent.words \subseteq A \cup W
  BY DEF ReceiveRest, Carried, Wired
<1>3. Chunk(data, N)
  BY <1>2, ChunkRest
<1>4. /\ sent'.half = <<>> /\ sent'.words = sent.words /\ sent'.pieces = q
      /\ sent'.corrupt = sent.corrupt
  BY <1>1, <1>2 DEF Sents
<1>5. sent'.corrupt = 0 => Whole(r.decoder, <<>>) /\ T \cup BufferWords(r.decoder.buffer) = W
  <2> SUFFICES ASSUME sent'.corrupt = 0
               PROVE  Whole(r.decoder, <<>>) /\ T \cup BufferWords(r.decoder.buffer) = W
    OBVIOUS
  <2>1. Whole(decoder, data)
    BY <1>2, <1>4
  <2> HIDE DEF K, data
  <2> QED
    BY <1>1, <1>2, <2>1, RestReceived
<1>6. sent.pieces <= q /\ N \subseteq sent.pieces + 1 .. q
  BY <1>1
<1> HIDE DEF q, N
<1>7. LET B == A \cup T
      IN /\ Underway(ctx', KindsOf(scenario'), B) /\ Rested(ctx') /\ stream' = "open"
         /\ decoder' = r.decoder /\ Coming(B, r.decoder.buffer)
         /\ B \cup BufferWords(r.decoder.buffer) \subseteq sent.words \cup N
         /\ sent.words \cup N \subseteq 1 .. q
  <2> HIDE DEF data
  <2> QED
    BY <1>1, <1>2, <1>3, <1>6, ReceiveCarries
<1> HIDE DEF r, data, W
<1>8. \E B : /\ Underway(ctx', KindsOf(scenario'), B) /\ Rested(ctx') /\ stream' = "open"
             /\ Coming(B, decoder'.buffer)
             /\ B \cup BufferWords(decoder'.buffer) \subseteq sent.words
             /\ sent.words \subseteq 1 .. q
             /\ sent'.corrupt = 0 => /\ Whole(decoder', <<>>)
                                     /\ sent.words \subseteq B \cup BufferWords(decoder'.buffer)
  <2> DEFINE B == A \cup T
  <2>1. sent'.corrupt = 0 => /\ Whole(r.decoder, <<>>)
                             /\ sent.words \subseteq B \cup BufferWords(r.decoder.buffer)
    BY <1>2, <1>4, <1>5
  <2>2. /\ Underway(ctx', KindsOf(scenario'), B) /\ Rested(ctx') /\ stream' = "open"
        /\ decoder' = r.decoder /\ Coming(B, r.decoder.buffer)
        /\ B \cup BufferWords(r.decoder.buffer) \subseteq sent.words
        /\ sent.words \subseteq 1 .. q
    BY <1>7 DEF N
  <2> HIDE DEF B
  <2> QED
    BY <2>1, <2>2
<1>9. PICK B : /\ Underway(ctx', KindsOf(scenario'), B) /\ Rested(ctx') /\ stream' = "open"
               /\ Coming(B, decoder'.buffer)
               /\ B \cup BufferWords(decoder'.buffer) \subseteq sent.words
               /\ sent.words \subseteq 1 .. q
               /\ sent'.corrupt = 0 => /\ Whole(decoder', <<>>)
                                       /\ sent.words \subseteq B \cup BufferWords(decoder'.buffer)
  BY <1>8
<1>10. Wired(B)'
  BY <1>4, <1>9 DEF Wired
<1>11. Carried(B)'
  BY <1>9, <1>10 DEF Carried
<1> QED
  BY <1>11

LEMMA EndCarries ==
    ASSUME StreamInv, NEW A, Carried(A), stream = "open", ctx' = GenerateFinalEvents(ctx),
           stream' = "finished", UNCHANGED <<scenario, sent, decoder>>
    PROVE  Carried(A)'
<1> DEFINE K == KindsOf(scenario)
<1>1. Underway(ctx, K, A) /\ Rested(ctx) /\ Wired(A)
  BY DEF Carried
<1>2. "nl" \in K
  BY DEF KindsOf, PieceKinds, PlainKinds
<1> HIDE DEF K
<1>3. Emptied(ctx', K, A)
  BY <1>1, <1>2, FinalWords
<1>4. Wired(A)'
  BY <1>1 DEF Wired
<1>5. KindsOf(scenario)' = K
  BY DEF K
<1> QED
  BY <1>3, <1>4, <1>5 DEF Carried

LEMMA WordsInit ==
    ASSUME Init
    PROVE  WordsInv
<1>1. StreamInv
  BY InitInv
<1>2. Underway(ctx, KindsOf(scenario), {}) /\ Rested(ctx)
  <2>1. scenario.thinking \in BOOLEAN
    BY ScenarioAssumption DEF Init, ScenarioOK
  <2> QED
    BY <2>1, InitialWords DEF Init
<1>3. Wired({})
  <2>1. /\ sent.pieces = 0 /\ sent.half = <<>> /\ sent.corrupt = 0 /\ sent.words = {}
        /\ decoder.buffer = <<>> /\ decoder.state = "Ready"
    BY DEF Init, NewDecoder
  <2>2. BufferWords(<<>>) = {} /\ Coming({}, <<>>)
    <3>1. 1 .. Len(<<>>) = {}
      OBVIOUS
    <3> QED
      BY <3>1 DEF Coming, BufferWords
  <2>3. Whole(decoder, sent.half)
    BY <2>1 DEF Whole
  <2>4. BufferWords(decoder.buffer) = {} /\ Coming({}, decoder.buffer)
    BY <2>1, <2>2
  <2>5. sent.words \subseteq 1 .. sent.pieces /\ {} \cup BufferWords(decoder.buffer) \subseteq sent.words
    BY <2>1, <2>4
  <2> QED
    BY <2>1, <2>3, <2>4, <2>5 DEF Wired
<1>4. Carried({})
  BY <1>2, <1>3 DEF Carried, Init
<1> QED
  BY <1>1, <1>4 DEF WordsInv

LEMMA WordsStep ==
    ASSUME WordsInv, [Next]_vars
    PROVE  WordsInv'
<1>1. StreamInv /\ StreamInv'
  BY StepInv DEF WordsInv
<1>2. PICK A : Carried(A)
  BY DEF WordsInv
<1>3. CASE ReceiveFrame
  <2>1. PICK frame \in NextFrames :
           Receive(sent.half \o Cells(frame)) /\ sent' = SentFrame(frame, <<>>)
    BY <1>3 DEF ReceiveFrame
  <2>2. Cut(Cells(frame), frame, <<>>)
    BY DEF Cut, Cells, Prelude, Rest
  <2>3. \E B : Carried(B)'
    BY <1>1, <1>2, <2>1, <2>2, FrameCarries
  <2> QED
    BY <1>1, <2>3 DEF WordsInv
<1>4. CASE ReceivePart
  <2>1. PICK frame \in NextFrames :
           /\ Receive(sent.half \o <<Cells(frame)[1]>>)
           /\ sent' = SentFrame(frame, <<Cells(frame)[2]>>)
    BY <1>4 DEF ReceivePart
  <2>2. Cells(frame)[1] = Prelude(frame) /\ Cells(frame)[2] = Rest(frame)
    BY DEF Cells, Prelude, Rest
  <2> DEFINE tail == <<Prelude(frame)>>
             rest == <<Rest(frame)>>
  <2>3. Cut(tail, frame, rest) /\ Receive(sent.half \o tail) /\ sent' = SentFrame(frame, rest)
    BY <2>1, <2>2 DEF Cut
  <2> HIDE DEF tail, rest
  <2>4. \E B : Carried(B)'
    BY <1>1, <1>2, <2>3, FrameCarries
  <2> QED
    BY <1>1, <2>4 DEF WordsInv
<1>5. CASE ReceiveRest
  <2>1. \E B : Carried(B)'
    BY <1>1, <1>2, <1>5, RestCarries
  <2> QED
    BY <1>1, <2>1 DEF WordsInv
<1>6. CASE BodyEnds
  <2>1. Carried(A)'
    BY <1>1, <1>2, <1>6, EndCarries DEF BodyEnds
  <2> QED
    BY <1>1, <2>1 DEF WordsInv
<1>7. CASE BodyFails
  <2>1. Carried(A)'
    BY <1>1, <1>2, <1>7, EndCarries DEF BodyFails
  <2> QED
    BY <1>1, <2>1 DEF WordsInv
<1>8. CASE ClientLeaves
  <2>1. Carried(A)'
    BY <1>2, <1>8 DEF ClientLeaves, Carried, Wired, KindsOf
  <2> QED
    BY <1>1, <2>1 DEF WordsInv
<1>9. CASE UNCHANGED vars
  <2>1. Carried(A)'
    BY <1>2, <1>9 DEF vars, Carried, Wired, KindsOf
  <2> QED
    BY <1>1, <2>1 DEF WordsInv
<1> QED
  BY <1>3, <1>4, <1>5, <1>6, <1>7, <1>8, <1>9 DEF Next

LEMMA AlwaysWords == Spec => []WordsInv
<1>1. Init => WordsInv
  BY WordsInit
<1>2. WordsInv /\ [Next]_vars => WordsInv'
  BY WordsStep
<1> QED
  BY <1>1, <1>2, PTL DEF Spec

-------------------------------------------------------------------------------
(* The three buffers together.                                                 *)
LEMMA BufferedWords ==
    ASSUME NEW A, Carried(A), StreamInv
    PROVE  LET b == ctx.invoke_sniff_buffer \o ctx.thinking_buffer \o ctx.filter.buffer
           IN /\ Flow(ctx, KindsOf(scenario), WordsIn(b) \ WordsIn(ctx.invoke_sniff_buffer), A)
              /\ WordsIn(ctx.invoke_sniff_buffer) \subseteq WordsIn(b) /\ Rising(b)
              /\ Thought(ctx) \cap WordsIn(b) = {}
              /\ stream = "finished" => b = <<>>
<1> DEFINE K == KindsOf(scenario)
           s == ctx.invoke_sniff_buffer
           t == ctx.thinking_buffer
           f == ctx.filter.buffer
           b == s \o t \o f
<1>1. CASE stream = "finished"
  <2>1. Flow(ctx, K, {}, A) /\ s = <<>> /\ t = <<>> /\ f = <<>>
    BY <1>1 DEF Carried, Emptied
  <2>2. b = <<>>
    BY <2>1
  <2> HIDE DEF b, s
  <2>3. WordsIn(b) = {} /\ Rising(b) /\ WordsIn(s) = {}
    BY <2>1, <2>2, NoWords
  <2>4. WordsIn(b) \ WordsIn(s) = {}
    BY <2>3
  <2> QED
    BY <2>1, <2>2, <2>3, <2>4 DEF b, s
<1>2. CASE stream # "finished"
  <2>1. Underway(ctx, K, A)
    BY <1>2 DEF Carried
  <2>2. s \in Texts(K) /\ t \in Texts(K) /\ f \in Texts(K)
    BY <2>1 DEF Underway, Full, Core, Worded
  <2>3. /\ Flow(ctx, K, WordsIn(t), A) /\ Rising(t) /\ WordsIn(f) = {} /\ Rising(s)
        /\ Ordered(Written(ctx), Thought(ctx), WordsIn(s), WordsIn(t), ctx.dropped, A)
    BY <2>1 DEF Underway, Flow
  <2>4. Rising(f)
    BY <2>2, <2>3, WordsAt
  <2> DEFINE st == s \o t
             X == Written(ctx)
             H == Thought(ctx)
             D == ctx.dropped
             I == WordsIn(s)
             R == WordsIn(t)
  <2> HIDE DEF K, s, t, f, X, H, D
  <2>5. st \in Texts(K)
    BY <2>2, JoinedIs
  <2>6. WordsIn(st) = I \cup R /\ Rising(st)
    <3>1. Before(I, R)
      BY <2>3 DEF Ordered
    <3> QED
      BY <2>2, <2>3, <3>1, JoinedWords
  <2> HIDE DEF st
  <2>7. WordsIn(st \o f) = I \cup R /\ Rising(st \o f)
    <3>1. Before(WordsIn(st), WordsIn(f))
      BY <2>3 DEF Before
    <3>2. WordsIn(st \o f) = WordsIn(st) \cup WordsIn(f)
      BY <2>2, <2>5, JoinedWords
    <3>3. Rising(st \o f)
      BY <2>2, <2>4, <2>5, <2>6, <3>1, JoinedWords
    <3> QED
      BY <2>3, <2>6, <3>2, <3>3
  <2>8. b = st \o f
    BY DEF st
  <2> HIDE DEF b
  <2>9. H \cap WordsIn(b) = {} /\ I \subseteq WordsIn(b)
    BY <2>3, <2>7, <2>8 DEF Ordered, H
  <2>10. Flow(ctx, K, WordsIn(b) \ I, A)
    <3>1. Before(I, R) /\ R \subseteq Nat /\ I \subseteq Nat
      BY <2>2, <2>3, WordsAt DEF Ordered
    <3>2. I \cap R = {}
      BY <3>1 DEF Before
    <3>3. WordsIn(b) \ I = R
      BY <2>7, <2>8, <3>2
    <3> QED
      BY <2>3, <3>3
  <2> QED
    BY <1>2, <2>7, <2>8, <2>9, <2>10 DEF K, s, b, t, f, H
<1> QED
  BY <1>1, <1>2

(* No word that reached the context is swallowed: the client was sent it as    *)
(* text or as thinking, or it waits behind the text that was sent, or a filter *)
(* discarded it; and while no frame was corrupt every word that was sent is    *)
(* accounted for.  Text goes in order, each word once, and thinking too unless *)
(* reasoning came inside a tagged block.                                       *)
THEOREM NoWordIsSwallowed == Spec => []NoWordSwallowed
<1>1. ASSUME WordsInv PROVE NoWordSwallowed
  <2>1. PICK A : Carried(A)
    BY <1>1 DEF WordsInv
  <2>2. StreamInv
    BY <1>1 DEF WordsInv
  <2> DEFINE K == KindsOf(scenario)
             s == ctx.invoke_sniff_buffer
             b == ctx.invoke_sniff_buffer \o ctx.thinking_buffer \o ctx.filter.buffer
             R == WordsIn(b) \ WordsIn(s)
  <2>3. /\ Flow(ctx, K, R, A) /\ WordsIn(s) \subseteq WordsIn(b) /\ Rising(b)
        /\ Thought(ctx) \cap WordsIn(b) = {}
        /\ stream = "finished" => b = <<>>
    BY <2>1, <2>2, BufferedWords
  <2> HIDE DEF b, s
  <2>4. WordsIn(s) \cup R = WordsIn(b)
    BY <2>3
  <2>5. /\ SentInOrder(ctx.out, "text")
        /\ "reasoning" \notin ctx.mixed => SentInOrder(ctx.out, "thinking")
        /\ Ordered(Written(ctx), Thought(ctx), WordsIn(s), R, ctx.dropped, A)
        /\ K \subseteq PlainKinds => Untouched(ctx)
    BY <2>3 DEF Flow, Paced, s
  <2> HIDE DEF R, K
  <2>6. /\ Written(ctx) \cap Thought(ctx) = {} /\ Before(Written(ctx), WordsIn(b))
        /\ (Written(ctx) \cup Thought(ctx) \cup WordsIn(b)) \cap ctx.dropped = {}
        /\ Written(ctx) \cup Thought(ctx) \cup WordsIn(b) \cup ctx.dropped = A
    BY <2>4, <2>5 DEF Ordered
  <2>7. ASSUME sent.corrupt = 0, sent.half = <<>>
        PROVE  /\ decoder.buffer = <<>> /\ A = sent.words
               /\ scenario.texts = {<<"word">>} => ctx.dropped = {}
    <3>1. /\ Whole(decoder, sent.half)
          /\ sent.words \subseteq A \cup BufferWords(decoder.buffer)
          /\ A \cup BufferWords(decoder.buffer) \subseteq sent.words
      BY <2>1, <2>7 DEF Carried, Wired
    <3>2. decoder.buffer = <<>>
      BY <2>7, <3>1 DEF Whole
    <3>3. BufferWords(decoder.buffer) = {}
      BY <3>2, CellsWords
    <3>4. scenario.texts = {<<"word">>} => K = PlainKinds
      BY DEF K, KindsOf
    <3> QED
      BY <2>5, <3>1, <3>2, <3>3, <3>4 DEF Untouched
  <2> DEFINE X == Written(ctx)
             H == Thought(ctx)
             held == WordsIn(b)
             known == X \cup H \cup held
  <2>8. H \cap held = {} /\ X \cap H = {} /\ Before(X, held) /\ known \cap ctx.dropped = {}
    BY <2>3, <2>6
  <2>9. sent.corrupt = 0 /\ sent.half = <<>> =>
           /\ decoder.buffer = <<>> /\ known \cup ctx.dropped = sent.words
           /\ scenario.texts = {<<"word">>} => ctx.dropped = {}
    BY <2>6, <2>7
  <2>10. /\ SentInOrder(ctx.out, "text") /\ Rising(b)
         /\ "reasoning" \notin ctx.mixed => SentInOrder(ctx.out, "thinking")
         /\ X \cap H = {} /\ H \cap held = {} /\ Before(X, held)
         /\ known \cap ctx.dropped = {}
         /\ stream = "finished" => b = <<>>
         /\ sent.corrupt = 0 /\ sent.half = <<>> =>
               /\ decoder.buffer = <<>>
               /\ known \cup ctx.dropped = sent.words
               /\ scenario.texts = {<<"word">>} => ctx.dropped = {}
    BY <2>3, <2>5, <2>8, <2>9
  <2> QED
    BY <2>10, Zenon DEF NoWordSwallowed, Written, Thought, b
<1> QED
  BY <1>1, AlwaysWords, PTL

=============================================================================
