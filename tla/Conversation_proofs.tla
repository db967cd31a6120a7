-------------------------- MODULE Conversation_proofs --------------------------
(* Proofs about a client's requests, for every scenario and every limit of the *)
(* search loop.  First the control: what a request may cost, and that it is    *)
(* recorded once, when it ends.  Then what it says: the loops over messages,   *)
(* blocks and tools are unfolded once, as sequences, and from them it follows  *)
(* what a converted request is and that the conversation keeps to it.          *)
EXTENDS MCConversation, FiniteSetTheorems, WellFoundedInduction, TLAPS

Rounds == MAX_WEB_SEARCH_ROUNDS
Tries == MAX_EMPTY_TOOL_RESULT_RETRIES + 1      \* upstream calls of one round

IsLoop(l) ==
    l = [round |-> l.round, retries |-> l.retries, presentation |-> l.presentation,
         thinking |-> l.thinking, outcome |-> l.outcome, searched |-> l.searched]

(* The calls made so far fit in the rounds that are over and, in this one, in  *)
(* its retries; a call more has been made while its searches run.              *)
WithinBudget ==
    /\ IsLoop(loop)
    /\ loop.round \in 0 .. Rounds /\ loop.retries \in 0 .. Tries - 1
    /\ metered \in Nat /\ metered <= (Rounds + 1) * Tries
    /\ phase = "upstream" => metered <= loop.round * Tries + loop.retries
    /\ phase = "search" => metered <= loop.round * Tries + loop.retries + 1

RecordsKept ==
    /\ phase \in {"client", "fast", "upstream", "search"}
    /\ records \in Seq([status: {"success", "error"}, credits: Nat])
    /\ phase = "fast" => metered = 0

CallInv == WithinBudget /\ RecordsKept

LEMMA BudgetGrows ==
    ASSUME NEW k \in Nat \ {0}, NEW r \in Nat, NEW n \in Nat, r <= n
    PROVE  /\ r * k \in Nat /\ (r + 1) * k = r * k + k
           /\ r * k + k <= (n + 1) * k
BY Z3

LEMMA LimitsAreNat == Rounds \in Nat /\ Tries \in Nat \ {0}
BY WebSearchAssumption DEF Rounds, Tries


-------------------------------------------------------------------------------
(* What may be true of a step.                                                 *)

(* The action of RecordedOnce.                                                 *)
RecordedStep ==
    /\ Len(records') <= Len(records) + 1
    /\ phase # "client" => (phase' = "client" <=> records' # records)
    /\ (phase # "client" /\ phase' = "client") =>
          /\ Last(records').status = answer'.status
          /\ answer'.status = "success" => Last(records').credits = metered'

(* The request ends with a record of its answer.                               *)
EndsRecorded ==
    /\ phase # "client" /\ phase' = "client"
    /\ \E status \in {"success", "error"}, credits \in Nat :
          /\ Record(status, credits)
          /\ answer'.status = status
          /\ status = "success" => credits = metered'

SameRound(l) == IsLoop(l) /\ l.round = loop.round /\ l.retries = loop.retries

(* Nothing that the invariant speaks of changes.                               *)
Quiet == UNCHANGED <<phase, loop, metered, records>>

LEMMA QuietKeeps ==
    ASSUME CallInv, Quiet
    PROVE  CallInv' /\ RecordedStep
<1>1. Len(records) \in Nat
  BY DEF CallInv, RecordsKept
<1> QED
  BY <1>1 DEF CallInv, WithinBudget, RecordsKept, IsLoop, Quiet, RecordedStep

(* A record more is a longer log that ends with it.                            *)
LEMMA RecordAppends ==
    ASSUME CallInv, NEW status \in {"success", "error"}, NEW credits \in Nat,
           Record(status, credits)
    PROVE  /\ records' \in Seq([status: {"success", "error"}, credits: Nat])
           /\ Len(records') = Len(records) + 1 /\ Len(records) \in Nat
           /\ records' # records
           /\ Last(records').status = status /\ Last(records').credits = credits
<1> DEFINE R == [status: {"success", "error"}, credits: Nat]
           e == [status |-> status, credits |-> credits]
<1>1. records \in Seq(R) /\ e \in R /\ records' = Append(records, e)
  BY DEF CallInv, RecordsKept, Record
<1>2. /\ records' \in Seq(R) /\ Len(records') = Len(records) + 1
      /\ Len(records) \in Nat /\ records'[Len(records')] = e
  <2> HIDE DEF R, e
  <2> QED
    BY <1>1
<1> QED
  BY <1>2 DEF Last

LEMMA EndKeeps ==
    ASSUME CallInv, EndsRecorded, SameRound(loop'),
           metered' \in Nat, metered' <= (Rounds + 1) * Tries
    PROVE  CallInv' /\ RecordedStep
<1>1. PICK status \in {"success", "error"}, credits \in Nat :
          /\ Record(status, credits)
          /\ answer'.status = status
          /\ status = "success" => credits = metered'
  BY DEF EndsRecorded
<1>2. /\ records' \in Seq([status: {"success", "error"}, credits: Nat])
      /\ Len(records') = Len(records) + 1 /\ Len(records) \in Nat
      /\ records' # records
      /\ Last(records').status = status /\ Last(records').credits = credits
  BY <1>1, RecordAppends
<1>3. WithinBudget'
  BY DEF CallInv, WithinBudget, EndsRecorded, SameRound, IsLoop
<1>4. RecordsKept'
  BY <1>2 DEF RecordsKept, EndsRecorded
<1>5. RecordedStep
  BY <1>1, <1>2 DEF RecordedStep, EndsRecorded
<1> QED
  BY <1>3, <1>4, <1>5 DEF CallInv

LEMMA DeliverEnds ==
    ASSUME phase # "client", metered' \in Nat,
           NEW content, NEW stop, NEW thinking, Deliver(content, stop, thinking, metered')
    PROVE  EndsRecorded
<1>1. phase' = "client" /\ answer'.status = "success" /\ Record("success", metered')
  BY DEF Deliver
<1> QED
  BY <1>1 DEF EndsRecorded

LEMMA FailureEnds ==
    ASSUME phase # "client", NEW credits \in Nat, Ends, Record("error", credits)
    PROVE  EndsRecorded
<1>1. phase' = "client" /\ answer'.status = "error"
  BY DEF Ends, NoAnswer
<1> QED
  BY <1>1 DEF EndsRecorded

LEMMA LoopSteps ==
    ASSUME CallInv
    PROVE  /\ SameRound(loop)
           /\ \A out :
                 /\ SameRound(Accepted(out))
                 /\ Accepted(out).presentation = loop.presentation /\ Accepted(out).outcome = out
           /\ \A found :
                 /\ SameRound(Searched(found))
                 /\ Searched(found).presentation = loop.presentation
                 /\ Searched(found).outcome = loop.outcome
<1>1. IsLoop(loop)
  BY DEF CallInv, WithinBudget
<1>2. ASSUME NEW out
      PROVE  /\ SameRound(Accepted(out))
             /\ Accepted(out).presentation = loop.presentation /\ Accepted(out).outcome = out
  <2> DEFINE t == loop.thinking \o out.thinking
  <2>1. Accepted(out) = [loop EXCEPT !.outcome = out, !.thinking = t, !.searched = <<>>]
    BY DEF Accepted
  <2> HIDE DEF t
  <2>2. Accepted(out) = [round |-> loop.round, retries |-> loop.retries,
                         presentation |-> loop.presentation, thinking |-> t,
                         outcome |-> out, searched |-> <<>>]
    BY <1>1, <2>1 DEF IsLoop
  <2> QED
    BY <2>2 DEF SameRound, IsLoop
<1>3. ASSUME NEW found
      PROVE  /\ SameRound(Searched(found))
             /\ Searched(found).presentation = loop.presentation
             /\ Searched(found).outcome = loop.outcome
  <2> DEFINE s == [i \in 1 .. Min(NextSearch(loop)) |->
                       IF i <= Len(loop.searched) THEN loop.searched[i]
                       ELSE i = Min(NextSearch(loop)) /\ found]
  <2>1. Searched(found) = [loop EXCEPT !.searched = s]
    BY DEF Searched
  <2>2. Searched(found) = [round |-> loop.round, retries |-> loop.retries,
                           presentation |-> loop.presentation,
                           thinking |-> loop.thinking, outcome |-> loop.outcome,
                           searched |-> s]
    <3> HIDE DEF s
    <3> QED
      BY <1>1, <2>1 DEF IsLoop
  <2> HIDE DEF s
  <2> QED
    BY <2>2 DEF SameRound, IsLoop
<1> QED
  BY <1>1, <1>2, <1>3 DEF SameRound


-------------------------------------------------------------------------------
(* The actions.                                                                *)
LEMMA ClientRests ==
    ClientSays \/ ClientReturns \/ ClientKeepsPartial \/ ClientForgets \/ ClientUndeclares
        => Quiet
BY DEF ClientSays, ClientReturns, ClientKeepsPartial, ClientForgets, ClientUndeclares,
       Adds, Idle, Quiet

LEMMA ClientSendsKeeps ==
    ASSUME CallInv, ClientSends
    PROVE  CallInv' /\ RecordedStep
<1>1. PICK messages : Begin(messages) /\ Serve(messages)
  BY DEF ClientSends
<1>2. phase = "client" /\ loop' = Loop0 /\ metered' = 0
  BY <1>1 DEF ClientSends, Begin
<1>3. \/ phase' \in {"client", "fast", "upstream"} /\ records' = records
      \/ phase' = "client" /\ Record("error", 0)
  BY <1>1 DEF Serve, RefusedByFrontEnd, RefusedByConversion, GoesToUpstream, Ends
<1>4. /\ records' \in Seq([status: {"success", "error"}, credits: Nat])
      /\ Len(records') <= Len(records) + 1
  <2>1. CASE records' = records
    BY <2>1 DEF CallInv, RecordsKept
  <2>2. CASE Record("error", 0)
    BY <2>2, RecordAppends
  <2> QED
    BY <1>3, <2>1, <2>2
<1>5. WithinBudget'
  <2>1. loop'.round = 0 /\ loop'.retries = 0 /\ IsLoop(loop')
    BY <1>2 DEF Loop0, IsLoop
  <2>2. 0 <= (Rounds + 1) * Tries /\ 0 * Tries + 0 = 0 /\ 0 \in 0 .. Rounds /\ 0 \in 0 .. Tries - 1
    BY LimitsAreNat, BudgetGrows
  <2> QED
    BY <1>2, <1>3, <2>1, <2>2 DEF WithinBudget
<1>6. RecordsKept' /\ RecordedStep
  BY <1>2, <1>3, <1>4 DEF RecordsKept, RecordedStep
<1> QED
  BY <1>5, <1>6 DEF CallInv

LEMMA FastSearchKeeps ==
    ASSUME CallInv, FastSearch
    PROVE  CallInv' /\ RecordedStep
<1>1. /\ phase = "fast" /\ metered = 0 /\ metered' = 0
      /\ metered' \in Nat /\ metered' <= (Rounds + 1) * Tries
  BY DEF FastSearch, CallInv, RecordsKept, WithinBudget
<1>2. SameRound(loop')
  <2>1. loop' = loop
    BY DEF FastSearch, Fails
  <2> QED
    BY <2>1, LoopSteps
<1>3. EndsRecorded
  <2>1. ASSUME NEW content, NEW stop, NEW thinking, Deliver(content, stop, thinking, 0)
        PROVE  EndsRecorded
    BY <1>1, <2>1, DeliverEnds
  <2>2. CASE Fails(0)
    BY <1>1, <2>2, FailureEnds DEF Fails
  <2> QED
    BY <2>1, <2>2 DEF FastSearch
<1> QED
  BY <1>1, <1>2, <1>3, EndKeeps

(* A call more, wherever it leads, is within the budget.                       *)
LEMMA CallFits ==
    ASSUME CallInv, phase = "upstream", metered' \in {metered, metered + 1}
    PROVE  /\ metered' \in Nat /\ metered' <= (Rounds + 1) * Tries
           /\ metered' <= loop.round * Tries + loop.retries + 1
<1> DEFINE r == loop.round
           k == Tries
<1>1. /\ r \in Nat /\ r <= Rounds /\ loop.retries \in Nat /\ loop.retries <= k - 1
      /\ metered \in Nat /\ metered <= r * k + loop.retries
  BY LimitsAreNat DEF CallInv, WithinBudget
<1>2. k \in Nat /\ r * k \in Nat /\ r * k + k <= (Rounds + 1) * k /\ (Rounds + 1) * k \in Nat
  <2>1. r * k \in Nat /\ r * k + k <= (Rounds + 1) * k
    BY <1>1, LimitsAreNat, BudgetGrows
  <2>2. Rounds + 1 \in Nat /\ k \in Nat
    BY LimitsAreNat
  <2>3. (Rounds + 1) * k \in Nat
    BY <2>2, LimitsAreNat, BudgetGrows
  <2> QED
    BY <2>1, <2>2, <2>3
<1> DEFINE a == r * k
           b == (Rounds + 1) * k
           t == loop.retries
<1>3. /\ metered' \in Nat /\ metered' <= b /\ metered' <= a + t + 1
  <2>1. a \in Nat /\ b \in Nat /\ a + k <= b /\ t \in Nat /\ t <= k - 1 /\ metered <= a + t
    BY <1>1, <1>2
  <2> HIDE DEF a, b, t, k
  <2> QED
    BY <1>1, <1>2, <2>1
<1> QED
  BY <1>3

(* An answer that ends the request, or a round whose searches begin.           *)
LEMMA FlushEnds ==
    ASSUME phase # "client", metered' \in Nat, NEW l, Flush(l)
    PROVE  EndsRecorded
<1>1. PICK content : Deliver(content, ResolveFlushStopReason(l.outcome, content),
                             l.thinking, metered')
  BY DEF Flush
<1> QED
  BY <1>1, DeliverEnds

LEMMA LoopAcceptsKeeps ==
    ASSUME CallInv, phase = "upstream", metered' = metered + 1,
           NEW l, SameRound(l), LoopAccepts(l)
    PROVE  CallInv' /\ RecordedStep
<1>1. /\ metered' \in Nat /\ metered' <= (Rounds + 1) * Tries
      /\ metered' <= loop.round * Tries + loop.retries + 1
  BY CallFits
<1>2. loop' = l
  BY DEF LoopAccepts
<1>3. CASE NextSearch(l) = {}
  <2>1. EndsRecorded
    BY <1>1, <1>3, FlushEnds DEF LoopAccepts
  <2> QED
    BY <1>1, <1>2, <2>1, EndKeeps
<1>4. CASE NextSearch(l) # {}
  <2>1. phase' = "search" /\ records' = records
    BY <1>4 DEF LoopAccepts
  <2>2. WithinBudget'
    BY <1>1, <1>2, <2>1 DEF CallInv, WithinBudget, SameRound
  <2>3. RecordsKept' /\ RecordedStep
    BY <2>1 DEF CallInv, RecordsKept, RecordedStep
  <2> QED
    BY <2>2, <2>3 DEF CallInv
<1> QED
  BY <1>3, <1>4

LEMMA LoopRoundKeeps ==
    ASSUME CallInv, phase = "upstream", metered' = metered + 1, NEW out, LoopRound(out)
    PROVE  CallInv' /\ RecordedStep
<1> DEFINE verdict == EmptyToolResultDisposition(payload, out, loop.retries)
<1>1. /\ metered' \in Nat /\ metered' <= (Rounds + 1) * Tries
      /\ metered' <= loop.round * Tries + loop.retries + 1
  BY CallFits
<1>2. CASE verdict = "accept"
  <2>1. LoopAccepts(Accepted(out))
    BY <1>2 DEF LoopRound
  <2> QED
    BY <2>1, LoopSteps, LoopAcceptsKeeps
<1>3. CASE verdict = "retry"
  <2>1. /\ loop' = [loop EXCEPT !.retries = @ + 1]
        /\ UNCHANGED <<phase, records>>
    BY <1>3 DEF LoopRound
  <2>2. loop.retries < MAX_EMPTY_TOOL_RESULT_RETRIES
    BY <1>3 DEF EmptyToolResultDisposition
  <2>3. /\ loop' = [round |-> loop.round, retries |-> loop.retries + 1,
                    presentation |-> loop.presentation, thinking |-> loop.thinking,
                    outcome |-> loop.outcome, searched |-> loop.searched]
    BY <2>1 DEF CallInv, WithinBudget, IsLoop
  <2>4. /\ IsLoop(loop') /\ loop'.round = loop.round /\ loop'.retries = loop.retries + 1
    BY <2>3 DEF IsLoop
  <2>5. loop'.retries \in 0 .. Tries - 1
    BY <2>2, <2>4, WebSearchAssumption DEF CallInv, WithinBudget, Tries
  <2>6. metered' <= loop'.round * Tries + loop'.retries
    <3> DEFINE a == loop.round * Tries
    <3>1. a \in Nat /\ loop.retries \in Nat
      BY LimitsAreNat, BudgetGrows DEF CallInv, WithinBudget
    <3>2. metered' <= a + loop.retries + 1
      BY <1>1
    <3>3. loop'.round * Tries = a
      BY <2>4
    <3> HIDE DEF a
    <3> QED
      BY <1>1, <2>4, <3>1, <3>2, <3>3
  <2>7. WithinBudget'
    BY <1>1, <2>1, <2>4, <2>5, <2>6 DEF CallInv, WithinBudget
  <2>8. RecordsKept' /\ RecordedStep
    BY <2>1 DEF CallInv, RecordsKept, RecordedStep
  <2> QED
    BY <2>7, <2>8 DEF CallInv
<1>4. CASE verdict \notin {"accept", "retry"}
  <2>1. Ends /\ Record("error", metered') /\ loop' = loop
    BY <1>4 DEF LoopRound
  <2>2. EndsRecorded
    BY <1>1, <2>1, FailureEnds
  <2> QED
    BY <1>1, <2>1, <2>2, LoopSteps, EndKeeps
<1> QED
  BY <1>2, <1>3, <1>4

LEMMA UpstreamKeeps ==
    ASSUME CallInv, UpstreamAnswers \/ UpstreamFails
    PROVE  CallInv' /\ RecordedStep
<1>1. phase = "upstream" /\ metered' \in {metered, metered + 1}
  BY DEF UpstreamAnswers, UpstreamFails
<1>2. metered' \in Nat /\ metered' <= (Rounds + 1) * Tries
  BY <1>1, CallFits
<1>3. CASE UpstreamAnswers
  <2>1. PICK r : /\ metered' = metered + 1
                 /\ \/ LoopRound(Restored(r))
                    \/ DirectAnswer(r, Restored(r))
    BY <1>3 DEF UpstreamAnswers
  <2>2. CASE LoopRound(Restored(r))
    BY <1>1, <2>1, <2>2, LoopRoundKeeps
  <2>3. CASE DirectAnswer(r, Restored(r))
    <3>1. loop' = loop
      BY <2>3 DEF DirectAnswer, Fails
    <3>2. EndsRecorded
      <4>1. ASSUME NEW content, NEW stop, Deliver(content, stop, <<>>, metered')
            PROVE  EndsRecorded
        BY <1>1, <1>2, <4>1, DeliverEnds
      <4>2. CASE Fails(0)
        BY <1>1, <4>2, FailureEnds DEF Fails
      <4> QED
        BY <2>3, <4>1, <4>2 DEF DirectAnswer
    <3> QED
      BY <1>2, <3>1, <3>2, LoopSteps, EndKeeps
  <2> QED
    BY <2>1, <2>2, <2>3
<1>4. CASE UpstreamFails
  <2>1. EndsRecorded /\ loop' = loop
    BY <1>1, <1>4, FailureEnds DEF UpstreamFails, Fails
  <2> QED
    BY <1>2, <2>1, LoopSteps, EndKeeps
<1> QED
  BY <1>3, <1>4


(* The searches of a round are over: the next one has a budget of its own.     *)
LEMMA NextRoundKeeps ==
    ASSUME CallInv, phase = "search", metered' = metered,
           NEW l, SameRound(l), l.round < Rounds, NextRound(l)
    PROVE  CallInv' /\ RecordedStep
<1> DEFINE p == l.presentation \o Presented(l)
<1>1. /\ loop' = [l EXCEPT !.round = @ + 1, !.retries = 0, !.presentation = p]
      /\ \/ phase' = "upstream" /\ records' = records
         \/ phase' = "client" /\ answer'.status = "error" /\ Record("error", 0)
  <2>1. [NoAnswer EXCEPT !.status = "error"].status = "error"
    BY DEF NoAnswer
  <2> QED
    BY <2>1 DEF NextRound, RefusedByConversion, GoesToUpstream, Ends
<1>2. l = [round |-> l.round, retries |-> l.retries, presentation |-> l.presentation,
           thinking |-> l.thinking, outcome |-> l.outcome, searched |-> l.searched]
  BY DEF SameRound, IsLoop
<1>3. loop' = [round |-> l.round + 1, retries |-> 0, presentation |-> p,
               thinking |-> l.thinking, outcome |-> l.outcome, searched |-> l.searched]
  <2> HIDE DEF p
  <2> QED
    BY <1>1, <1>2
<1> HIDE DEF p
<1>4. IsLoop(loop') /\ loop'.round = loop.round + 1 /\ loop'.retries = 0
  BY <1>3 DEF IsLoop, SameRound
<1>5. /\ loop.round \in Nat /\ loop.round < Rounds /\ metered \in Nat
      /\ loop.retries \in Nat /\ loop.retries <= Tries - 1
      /\ metered <= loop.round * Tries + loop.retries + 1
  BY LimitsAreNat DEF CallInv, WithinBudget, SameRound
<1>6. loop'.round \in 0 .. Rounds /\ loop'.retries \in 0 .. Tries - 1
  BY <1>4, <1>5, LimitsAreNat
<1>7. metered' <= loop'.round * Tries + loop'.retries
  <2> DEFINE a == loop.round * Tries
  <2>1. a \in Nat /\ (loop.round + 1) * Tries = a + Tries
    BY <1>5, LimitsAreNat, BudgetGrows
  <2>2. metered <= a + loop.retries + 1
    BY <1>5
  <2>3. loop'.round * Tries + loop'.retries = a + Tries
    <3>1. loop'.round * Tries = a + Tries
      BY <1>4, <2>1
    <3> QED
      BY <1>4, <2>1, <3>1, LimitsAreNat
  <2> HIDE DEF a
  <2> QED
    BY <1>5, <2>1, <2>2, <2>3, LimitsAreNat
<1>8. WithinBudget'
  BY <1>1, <1>4, <1>6, <1>7 DEF CallInv, WithinBudget
<1>9. RecordsKept' /\ RecordedStep
  <2>1. CASE phase' = "upstream" /\ records' = records
    BY <2>1 DEF CallInv, RecordsKept, RecordedStep
  <2>2. CASE phase' = "client" /\ answer'.status = "error" /\ Record("error", 0)
    <3>1. /\ records' \in Seq([status: {"success", "error"}, credits: Nat])
          /\ Len(records') = Len(records) + 1 /\ Len(records) \in Nat
          /\ records' # records /\ Last(records').status = "error"
      BY <2>2, RecordAppends
    <3> QED
      BY <2>2, <3>1 DEF RecordsKept, RecordedStep
  <2> QED
    BY <1>1, <2>1, <2>2
<1> QED
  BY <1>8, <1>9 DEF CallInv

LEMMA SearchKeeps ==
    ASSUME CallInv, SearchReturns \/ SearchFails
    PROVE  CallInv' /\ RecordedStep
<1>1. /\ phase = "search" /\ metered' = metered
      /\ metered' \in Nat /\ metered' <= (Rounds + 1) * Tries
  BY DEF SearchReturns, SearchFails, CallInv, WithinBudget
<1>2. CASE SearchReturns
  <2>1. PICK found \in BOOLEAN :
            LET l == Searched(found)
            IN  IF NextSearch(l) # {}
                THEN loop' = l /\ UNCHANGED <<conf, tools, items, phase, payload, request,
                                              answer, records>>
                ELSE IF ShouldSearchRound(l.round, l.outcome.uses) THEN NextRound(l)
                ELSE loop' = l /\ Flush(l)
    BY <1>2 DEF SearchReturns
  <2> DEFINE l == Searched(found)
  <2>2. SameRound(l)
    BY LoopSteps
  <2>3. CASE loop' = l /\ UNCHANGED <<phase, records>>
    <3>1. WithinBudget'
      BY <1>1, <2>2, <2>3 DEF CallInv, WithinBudget, SameRound
    <3>2. RecordsKept' /\ RecordedStep
      BY <1>1, <2>3 DEF CallInv, RecordsKept, RecordedStep
    <3> QED
      BY <3>1, <3>2 DEF CallInv
  <2>4. CASE ShouldSearchRound(l.round, l.outcome.uses) /\ NextRound(l)
    <3>1. l.round < Rounds
      BY <2>4 DEF ShouldSearchRound, Rounds
    <3> QED
      BY <1>1, <2>2, <2>4, <3>1, NextRoundKeeps
  <2>5. CASE loop' = l /\ Flush(l)
    <3>1. EndsRecorded
      BY <1>1, <2>5, FlushEnds
    <3> QED
      BY <1>1, <2>2, <2>5, <3>1, EndKeeps
  <2> QED
    BY <2>1, <2>3, <2>4, <2>5
<1>3. CASE SearchFails
  <2>1. EndsRecorded /\ loop' = loop
    BY <1>1, <1>3, FailureEnds DEF SearchFails, Fails, CallInv, WithinBudget
  <2> QED
    BY <1>1, <2>1, LoopSteps, EndKeeps
<1> QED
  BY <1>2, <1>3

-------------------------------------------------------------------------------
(* The theorems.                                                               *)
LEMMA InitCall == Init => CallInv
<1> SUFFICES ASSUME Init PROVE CallInv
  OBVIOUS
<1>1. phase = "client" /\ metered = 0 /\ records = <<>> /\ loop = Loop0
  BY DEF Init
<1>2. IsLoop(loop) /\ loop.round = 0 /\ loop.retries = 0
  BY <1>1 DEF Loop0, IsLoop
<1>3. (Rounds + 1) * Tries >= 0 /\ 0 \in 0 .. Rounds /\ 0 \in 0 .. Tries - 1
  BY LimitsAreNat, BudgetGrows
<1>4. WithinBudget
  BY <1>1, <1>2, <1>3 DEF WithinBudget
<1>5. records \in Seq([status: {"success", "error"}, credits: Nat])
  BY <1>1
<1> QED
  BY <1>1, <1>4, <1>5 DEF CallInv, RecordsKept

LEMMA NextCall ==
    ASSUME CallInv, [Next]_vars
    PROVE  CallInv' /\ RecordedStep
<1>1. CASE ClientSays \/ ClientReturns \/ ClientKeepsPartial \/ ClientForgets
           \/ ClientUndeclares
  BY <1>1, ClientRests, QuietKeeps
<1>2. CASE ClientSends
  BY <1>2, ClientSendsKeeps
<1>3. CASE FastSearch
  BY <1>3, FastSearchKeeps
<1>4. CASE UpstreamAnswers \/ UpstreamFails
  BY <1>4, UpstreamKeeps
<1>5. CASE SearchReturns \/ SearchFails
  BY <1>5, SearchKeeps
<1>6. CASE UNCHANGED vars
  BY <1>6, QuietKeeps DEF Quiet, vars
<1> QED
  BY <1>1, <1>2, <1>3, <1>4, <1>5, <1>6 DEF Next

(* The calls a request has made are those its finished rounds allow and the    *)
(* retries of this one, and the log has records only.                          *)
THEOREM CallInvariant == Spec => []CallInv
BY InitCall, NextCall, PTL DEF Spec

(* Whatever the upstream asks for or leaves empty, a request costs no more     *)
(* upstream calls than the rounds of the search loop and their retries allow.  *)
THEOREM CallsWithinBudget == Spec => []AnsweredWithinBudget
<1>1. CallInv => AnsweredWithinBudget
  BY DEF CallInv, WithinBudget, AnsweredWithinBudget, Rounds, Tries
<1> QED
  BY <1>1, CallInvariant, PTL

(* Every request that reaches post_messages is recorded once, when it ends,    *)
(* with the status the client sees and, if it succeeds, all that its rounds    *)
(* and retries were metered for.                                               *)
THEOREM EveryCallRecordedOnce == Spec => RecordedOnce
<1>1. CallInv /\ [Next]_vars => [RecordedStep]_vars
  BY NextCall
<1>2. Spec => [][RecordedStep]_vars
  BY <1>1, CallInvariant, PTL DEF Spec
<1> QED
  BY <1>2 DEF RecordedOnce, RecordedStep

-------------------------------------------------------------------------------
(* Induction.                                                                  *)

(* A nonempty set of naturals has a least element.                             *)
LEMMA LeastNat ==
    ASSUME NEW S, S \subseteq Nat, S # {}
    PROVE  \E m \in S : \A n \in S : m <= n
<1>1. PICK m \in S : \A n \in S : ~ (<<n, m>> \in OpToRel(<, Nat))
  BY NatLessThanWellFounded, WFMin
<1>2. ASSUME NEW n \in S, n < m PROVE FALSE
  <2>1. n \in Nat /\ m \in Nat
    OBVIOUS
  <2>2. <<n, m>> \in OpToRel(<, Nat)
    BY <1>2, <2>1 DEF OpToRel
  <2> QED
    BY <1>1, <2>2
<1>3. \A n \in S : m <= n
  BY <1>2
<1> QED
  BY <1>3

LEMMA UpTo ==
    ASSUME NEW n \in Nat, NEW G, 0 \in G,
           \A k \in 1 .. n : k - 1 \in G => k \in G
    PROVE  \A k \in 0 .. n : k \in G
<1> DEFINE Bad == {k \in 0 .. n : k \notin G}
<1> SUFFICES ASSUME Bad # {} PROVE FALSE
  OBVIOUS
<1>1. PICK b \in Bad : \A k \in Bad : b <= k
  <2>1. Bad \subseteq Nat
    OBVIOUS
  <2> HIDE DEF Bad
  <2> QED
    BY <2>1, LeastNat
<1>2. b \in 1 .. n /\ b - 1 \in 0 .. n
  OBVIOUS
<1>3. b - 1 \in G
  BY <1>1, <1>2
<1> QED
  BY <1>2, <1>3

-------------------------------------------------------------------------------
(* Sequences of whatever they hold.                                            *)
In(x, s) == \E i \in DOMAIN s : s[i] = x

LEMMA SeqIs ==
    ASSUME NEW s, IsSeq(s)
    PROVE  /\ Len(s) \in Nat /\ DOMAIN s = 1 .. Len(s)
           /\ s = [i \in 1 .. Len(s) |-> s[i]]
BY DEF IsSeq

LEMMA SeqMade ==
    ASSUME NEW n \in Nat, NEW s, s = [i \in 1 .. n |-> s[i]]
    PROVE  IsSeq(s) /\ Len(s) = n
<1> DEFINE S == {s[i] : i \in DOMAIN s}
<1>1. s \in [1 .. n -> S]
  OBVIOUS
<1>2. s \in Seq(S) /\ Len(s) = n
  <2> HIDE DEF S
  <2> QED
    BY <1>1
<1> QED
  BY <1>2 DEF IsSeq

LEMMA SeqTyped ==
    ASSUME NEW S, NEW s \in Seq(S)
    PROVE  IsSeq(s)
<1>1. Len(s) \in Nat /\ s = [i \in 1 .. Len(s) |-> s[i]]
  OBVIOUS
<1> QED
  BY <1>1, SeqMade

LEMMA MapIs ==
    ASSUME NEW s, IsSeq(s), NEW f, f = [i \in DOMAIN s |-> f[i]]
    PROVE  IsSeq(f) /\ Len(f) = Len(s) /\ DOMAIN f = DOMAIN s
<1>1. Len(s) \in Nat /\ f = [i \in 1 .. Len(s) |-> f[i]]
  BY SeqIs
<1> QED
  BY <1>1, SeqMade, SeqIs

LEMMA EmptyIs == IsSeq(<<>>) /\ Len(<<>>) = 0 /\ DOMAIN <<>> = {}
BY DEF IsSeq

LEMMA OneIs ==
    ASSUME NEW x
    PROVE  IsSeq(<<x>>) /\ Len(<<x>>) = 1 /\ DOMAIN <<x>> = {1} /\ <<x>>[1] = x
BY DEF IsSeq

LEMMA AppendIs ==
    ASSUME NEW s, IsSeq(s), NEW x
    PROVE  /\ IsSeq(Append(s, x)) /\ Len(Append(s, x)) = Len(s) + 1
           /\ Append(s, x) # <<>> /\ Append(s, x)[Len(s) + 1] = x
           /\ \A i \in DOMAIN s : i \in DOMAIN Append(s, x) /\ Append(s, x)[i] = s[i]
           /\ \A y : In(y, Append(s, x)) <=> In(y, s) \/ y = x
<1> DEFINE S == {s[i] : i \in DOMAIN s} \cup {x}
           t == Append(s, x)
<1>1. s \in Seq(S) /\ x \in S
  BY DEF IsSeq
<1>2. t \in Seq(S)
  <2> HIDE DEF S
  <2> QED
    BY <1>1
<1>3. IsSeq(t)
  <2> HIDE DEF S, t
  <2> QED
    BY <1>2, SeqTyped
<1>4. /\ Len(s) \in Nat /\ DOMAIN s = 1 .. Len(s) /\ Len(t) = Len(s) + 1
      /\ DOMAIN t = 1 .. Len(s) + 1 /\ t[Len(s) + 1] = x
      /\ \A i \in DOMAIN s : t[i] = s[i]
  <2> HIDE DEF S
  <2> QED
    BY <1>1, <1>2
<1>5. t # <<>>
  BY <1>4
<1>6. \A y : In(y, t) <=> In(y, s) \/ y = x
  <2> HIDE DEF t
  <2> QED
    BY <1>4 DEF In
<1> QED
  BY <1>3, <1>4, <1>5, <1>6

LEMMA ConcatIs ==
    ASSUME NEW s, IsSeq(s), NEW t, IsSeq(t)
    PROVE  /\ IsSeq(s \o t) /\ Len(s \o t) = Len(s) + Len(t)
           /\ \A i \in DOMAIN s : i \in DOMAIN (s \o t) /\ (s \o t)[i] = s[i]
           /\ \A i \in DOMAIN t : /\ Len(s) + i \in DOMAIN (s \o t)
                                  /\ (s \o t)[Len(s) + i] = t[i]
           /\ \A y : In(y, s \o t) <=> In(y, s) \/ In(y, t)
<1> DEFINE S == {s[i] : i \in DOMAIN s} \cup {t[i] : i \in DOMAIN t}
           u == s \o t
<1>1. s \in Seq(S) /\ t \in Seq(S)
  BY DEF IsSeq
<1>2. u \in Seq(S)
  <2> HIDE DEF S
  <2> QED
    BY <1>1
<1>3. IsSeq(u)
  <2> HIDE DEF S, u
  <2> QED
    BY <1>2, SeqTyped
<1>4. /\ Len(s) \in Nat /\ DOMAIN s = 1 .. Len(s)
      /\ Len(t) \in Nat /\ DOMAIN t = 1 .. Len(t)
      /\ Len(u) = Len(s) + Len(t) /\ DOMAIN u = 1 .. Len(s) + Len(t)
      /\ \A i \in 1 .. Len(s) + Len(t) : u[i] = IF i <= Len(s) THEN s[i] ELSE t[i - Len(s)]
  <2> HIDE DEF S
  <2> QED
    BY <1>1, <1>2
<1>5. /\ \A i \in DOMAIN s : i \in DOMAIN u /\ u[i] = s[i]
      /\ \A i \in DOMAIN t : Len(s) + i \in DOMAIN u /\ u[Len(s) + i] = t[i]
  <2> HIDE DEF u
  <2>1. ASSUME NEW i \in DOMAIN t PROVE Len(s) + i \in DOMAIN u /\ u[Len(s) + i] = t[i]
    <3>1. Len(s) + i \in 1 .. Len(s) + Len(t) /\ ~(Len(s) + i <= Len(s)) /\ Len(s) + i - Len(s) = i
      BY <1>4
    <3> QED
      BY <1>4, <3>1
  <2> QED
    BY <1>4, <2>1
<1>6. ASSUME NEW y PROVE In(y, u) <=> In(y, s) \/ In(y, t)
  <2> HIDE DEF u
  <2>1. ASSUME In(y, u) PROVE In(y, s) \/ In(y, t)
    <3>1. PICK i \in 1 .. Len(s) + Len(t) : u[i] = y
      BY <1>4, <2>1 DEF In
    <3>2. CASE i <= Len(s)
      BY <1>4, <3>1, <3>2 DEF In
    <3>3. CASE ~(i <= Len(s))
      <4>1. i - Len(s) \in DOMAIN t
        BY <1>4, <3>3
      <4> QED
        BY <1>4, <3>1, <3>3, <4>1 DEF In
    <3> QED
      BY <3>2, <3>3
  <2> QED
    BY <1>5, <2>1 DEF In
<1> QED
  BY <1>3, <1>4, <1>5, <1>6

LEMMA EmptyOrNot ==
    ASSUME NEW s, IsSeq(s)
    PROVE  (s = <<>> <=> Len(s) = 0) /\ (s # <<>> => Len(s) \in Nat \ {0} /\ Last(s) = s[Len(s)])
BY DEF IsSeq, Last

LEMMA FrontIs ==
    ASSUME NEW s, IsSeq(s), s # <<>>
    PROVE  /\ IsSeq(Front(s)) /\ Len(Front(s)) = Len(s) - 1
           /\ \A i \in 1 .. Len(s) - 1 : Front(s)[i] = s[i]
<1> DEFINE S == {s[i] : i \in DOMAIN s}
<1>1. s \in Seq(S)
  BY DEF IsSeq
<1>2. Len(s) \in Nat \ {0} /\ Len(s) - 1 \in Nat
  BY EmptyOrNot
<1>3. ASSUME NEW n \in Nat, n <= Len(s)
      PROVE  /\ SubSeq(s, 1, n) \in Seq(S) /\ Len(SubSeq(s, 1, n)) = n
             /\ \A i \in 1 .. n : SubSeq(s, 1, n)[i] = s[i]
  <2> HIDE DEF S
  <2> QED
    BY <1>1, <1>3
<1>4. Front(s) = SubSeq(s, 1, Len(s) - 1)
  BY DEF Front
<1>5. /\ Front(s) \in Seq(S) /\ Len(Front(s)) = Len(s) - 1
      /\ \A i \in 1 .. Len(s) - 1 : Front(s)[i] = s[i]
  <2> DEFINE n == Len(s) - 1
  <2>1. n \in Nat /\ n <= Len(s)
    BY <1>2
  <2> HIDE DEF S, n
  <2>2. /\ SubSeq(s, 1, n) \in Seq(S) /\ Len(SubSeq(s, 1, n)) = n
        /\ \A i \in 1 .. n : SubSeq(s, 1, n)[i] = s[i]
    BY <2>1, <1>3
  <2> QED
    BY <2>2, <1>4 DEF n
<1> HIDE DEF S
<1> QED
  BY <1>5, SeqTyped

LEMMA PrefixIs ==
    ASSUME NEW s, IsSeq(s), NEW n \in DOMAIN s
    PROVE  /\ IsSeq(SubSeq(s, 1, n)) /\ Len(SubSeq(s, 1, n)) = n
           /\ \A i \in 1 .. n : SubSeq(s, 1, n)[i] = s[i]
<1> DEFINE S == {s[i] : i \in DOMAIN s}
<1>1. s \in Seq(S)
  BY DEF IsSeq
<1>2. /\ SubSeq(s, 1, n) \in Seq(S) /\ Len(SubSeq(s, 1, n)) = n
      /\ \A i \in 1 .. n : SubSeq(s, 1, n)[i] = s[i]
  <2> HIDE DEF S
  <2> QED
    BY <1>1
<1> QED
  BY <1>2, SeqTyped

LEMMA TailIs ==
    ASSUME NEW s, IsSeq(s), s # <<>>
    PROVE  IsSeq(Tail(s)) /\ \A i \in DOMAIN Tail(s) : In(Tail(s)[i], s)
<1> DEFINE S == {s[i] : i \in DOMAIN s}
<1>1. s \in Seq(S)
  BY DEF IsSeq
<1>2. Tail(s) \in Seq(S)
  <2> HIDE DEF S
  <2> QED
    BY <1>1
<1>3. \A i \in DOMAIN Tail(s) : Tail(s)[i] \in S
  <2> HIDE DEF S
  <2> QED
    BY <1>2
<1> QED
  BY <1>2, <1>3, SeqTyped DEF In


-------------------------------------------------------------------------------
(* Sequences of sequences, one after the other.                                *)
FlatAfter(f, ss, n) ==
    f = [i \in 1 .. n |-> IF i = 1 THEN ss[i] ELSE f[i - 1] \o ss[i]]

LEMMA FlatExists ==
    ASSUME NEW ss, NEW n \in Nat
    PROVE  \E f : FlatAfter(f, ss, n)
<1> DEFINE G == {k \in 0 .. n : \E f : FlatAfter(f, ss, k)}
<1>1. 0 \in G
  <2>1. FlatAfter([i \in 1 .. 0 |-> ss[i]], ss, 0)
    BY DEF FlatAfter
  <2> QED
    BY <2>1
<1>2. ASSUME NEW k \in 1 .. n, k - 1 \in G PROVE k \in G
  <2>1. PICK f : FlatAfter(f, ss, k - 1)
    BY <1>2
  <2> DEFINE g == [i \in 1 .. k |-> IF i < k THEN f[i]
                                    ELSE IF i = 1 THEN ss[i] ELSE f[i - 1] \o ss[i]]
  <2>2. ASSUME NEW i \in 1 .. k
        PROVE  g[i] = IF i = 1 THEN ss[i] ELSE g[i - 1] \o ss[i]
    <3>1. CASE i < k
      <4>1. i \in 1 .. k - 1 /\ (i # 1 => i - 1 \in 1 .. k - 1 /\ i - 1 \in 1 .. k /\ i - 1 < k)
        BY <3>1
      <4>2. f[i] = IF i = 1 THEN ss[i] ELSE f[i - 1] \o ss[i]
        BY <2>1, <4>1 DEF FlatAfter
      <4>3. g[i] = f[i] /\ (i # 1 => g[i - 1] = f[i - 1])
        BY <3>1, <4>1
      <4> HIDE DEF g
      <4> QED
        BY <4>2, <4>3
    <3>2. CASE i = k
      BY <3>2
    <3> QED
      BY <3>1, <3>2
  <2>3. FlatAfter(g, ss, k)
    BY <2>2 DEF FlatAfter
  <2> QED
    BY <2>3
<1>3. n \in G
  <2> HIDE DEF G
  <2> QED
    BY <1>1, <1>2, UpTo
<1> QED
  BY <1>3

LEMMA FlatSteps ==
    ASSUME NEW ss, IsSeq(ss), ss # <<>>
    PROVE  \E f : FlatAfter(f, ss, Len(ss)) /\ FlattenSeq(ss) = f[Len(ss)]
<1>1. Len(ss) \in Nat /\ Len(ss) # 0
  BY EmptyOrNot, SeqIs
<1>2. \E f : FlatAfter(f, ss, Len(ss))
  BY <1>1, FlatExists
<1> QED
  BY <1>1, <1>2 DEF FlatAfter, FlattenSeq

(* What is in them is in one of them; with no one twice, no one twice.         *)
Distinct(s) == \A i, j \in DOMAIN s : s[i] = s[j] => i = j

AllSeqs(ss) == \A i \in DOMAIN ss : IsSeq(ss[i])

Apart(ss) ==
    /\ \A i \in DOMAIN ss : Distinct(ss[i])
    /\ \A i, j \in DOMAIN ss : \A y : In(y, ss[i]) /\ In(y, ss[j]) => i = j

LEMMA ConcatDistinct ==
    ASSUME NEW s, IsSeq(s), NEW t, IsSeq(t), Distinct(s), Distinct(t),
           \A y : ~(In(y, s) /\ In(y, t))
    PROVE  Distinct(s \o t)
<1> DEFINE u == s \o t
<1>1. /\ IsSeq(u) /\ Len(u) = Len(s) + Len(t)
      /\ \A i \in DOMAIN s : u[i] = s[i]
      /\ \A i \in DOMAIN t : u[Len(s) + i] = t[i]
  BY ConcatIs
<1>2. /\ Len(s) \in Nat /\ DOMAIN s = 1 .. Len(s) /\ Len(t) \in Nat /\ DOMAIN t = 1 .. Len(t)
      /\ DOMAIN u = 1 .. Len(s) + Len(t)
  BY <1>1, SeqIs
<1> HIDE DEF u
<1>3. ASSUME NEW i \in DOMAIN u
      PROVE  \/ i \in DOMAIN s /\ u[i] = s[i]
             \/ i - Len(s) \in DOMAIN t /\ u[i] = t[i - Len(s)]
  <2>1. CASE i <= Len(s)
    BY <1>1, <1>2, <2>1
  <2>2. CASE ~(i <= Len(s))
    <3>1. i - Len(s) \in DOMAIN t /\ Len(s) + (i - Len(s)) = i
      BY <1>2, <2>2
    <3> QED
      BY <1>1, <3>1
  <2> QED
    BY <2>1, <2>2
<1>4. ASSUME NEW i \in DOMAIN u, NEW j \in DOMAIN u, u[i] = u[j] PROVE i = j
  <2>1. CASE i \in DOMAIN s /\ u[i] = s[i] /\ j \in DOMAIN s /\ u[j] = s[j]
    BY <1>4, <2>1 DEF Distinct
  <2>2. CASE /\ i - Len(s) \in DOMAIN t /\ u[i] = t[i - Len(s)]
             /\ j - Len(s) \in DOMAIN t /\ u[j] = t[j - Len(s)]
    <3>1. i - Len(s) = j - Len(s)
      BY <1>4, <2>2 DEF Distinct
    <3> QED
      BY <1>2, <3>1
  <2>3. CASE i \in DOMAIN s /\ u[i] = s[i] /\ j - Len(s) \in DOMAIN t /\ u[j] = t[j - Len(s)]
    BY <1>4, <2>3 DEF In
  <2>4. CASE j \in DOMAIN s /\ u[j] = s[j] /\ i - Len(s) \in DOMAIN t /\ u[i] = t[i - Len(s)]
    BY <1>4, <2>4 DEF In
  <2> QED
    BY <1>3, <2>1, <2>2, <2>3, <2>4
<1> QED
  BY <1>4 DEF Distinct, u

LEMMA FlatIs ==
    ASSUME NEW ss, IsSeq(ss), AllSeqs(ss)
    PROVE  /\ IsSeq(FlattenSeq(ss))
           /\ \A y : In(y, FlattenSeq(ss)) <=> \E i \in DOMAIN ss : In(y, ss[i])
           /\ Apart(ss) => Distinct(FlattenSeq(ss))
<1>1. CASE ss = <<>>
  <2>1. FlattenSeq(ss) = <<>> /\ DOMAIN ss = {}
    BY <1>1, EmptyIs DEF FlattenSeq
  <2> QED
    BY <2>1, EmptyIs DEF In, Distinct
<1>2. CASE ss # <<>>
  <2>1. PICK f : FlatAfter(f, ss, Len(ss)) /\ FlattenSeq(ss) = f[Len(ss)]
    BY <1>2, FlatSteps
  <2>2. Len(ss) \in Nat \ {0} /\ DOMAIN ss = 1 .. Len(ss)
    BY <1>2, SeqIs, EmptyOrNot
  <2> DEFINE Flat1(k) == /\ IsSeq(f[k])
                         /\ \A y : In(y, f[k]) <=> \E i \in 1 .. k : In(y, ss[i])
                         /\ Apart(ss) => Distinct(f[k])
             G == {k \in 0 .. Len(ss) : k = 0 \/ Flat1(k)}
  <2>3. 0 \in G
    BY <2>2
  <2>4. ASSUME NEW k \in 1 .. Len(ss), k - 1 \in G PROVE k \in G
    <3>1. f[k] = (IF k = 1 THEN ss[k] ELSE f[k - 1] \o ss[k]) /\ IsSeq(ss[k])
      BY <2>1, <2>2 DEF FlatAfter, AllSeqs
    <3>2. CASE k = 1
      <4>1. Flat1(1)
        <5>1. f[1] = ss[1]
          BY <3>1, <3>2
        <5>2. Apart(ss) => Distinct(ss[1])
          BY <2>2, <3>2 DEF Apart
        <5> QED
          BY <3>1, <3>2, <5>1, <5>2
      <4> QED
        BY <2>2, <3>2, <4>1
    <3>3. CASE k # 1
      <4>1. k - 1 \in 1 .. Len(ss) /\ Flat1(k - 1)
        BY <2>4, <3>3
      <4>2. f[k] = f[k - 1] \o ss[k] /\ IsSeq(f[k - 1]) /\ IsSeq(ss[k])
        BY <3>1, <3>3, <4>1
      <4>3. IsSeq(f[k]) /\ \A y : In(y, f[k]) <=> In(y, f[k - 1]) \/ In(y, ss[k])
        BY <4>2, ConcatIs
      <4>4. ASSUME NEW y PROVE In(y, f[k]) <=> \E i \in 1 .. k : In(y, ss[i])
        <5>1. In(y, f[k - 1]) <=> \E i \in 1 .. k - 1 : In(y, ss[i])
          BY <4>1
        <5> QED
          BY <4>3, <5>1, <2>2
      <4>5. ASSUME Apart(ss) PROVE Distinct(f[k])
        <5>1. Distinct(f[k - 1]) /\ Distinct(ss[k])
          BY <2>2, <4>1, <4>5 DEF Apart
        <5>2. \A y : ~(In(y, f[k - 1]) /\ In(y, ss[k]))
          <6>1. ASSUME NEW y, In(y, f[k - 1]), In(y, ss[k]) PROVE FALSE
            <7>1. PICK i \in 1 .. k - 1 : In(y, ss[i])
              BY <4>1, <6>1
            <7>2. i \in DOMAIN ss /\ k \in DOMAIN ss /\ i # k
              BY <2>2
            <7> QED
              BY <4>5, <6>1, <7>1, <7>2 DEF Apart
          <6> QED
            BY <6>1
        <5> QED
          BY <4>2, <5>1, <5>2, ConcatDistinct
      <4> QED
        BY <4>3, <4>4, <4>5
    <3> QED
      BY <3>2, <3>3
  <2>5. Len(ss) \in G
    <3>1. \A k \in 0 .. Len(ss) : k \in G
      <4> HIDE DEF G
      <4> QED
        BY <2>2, <2>3, <2>4, UpTo
    <3> HIDE DEF G
    <3> QED
      BY <2>2, <3>1
  <2>6. Flat1(Len(ss))
    BY <2>2, <2>5
  <2> QED
    BY <2>1, <2>2, <2>6
<1> QED
  BY <1>1, <1>2

(* A choice of the places of a sequence.                                       *)
SelAfter(f, s, chosen, n) ==
    f = [i \in 0 .. n |-> IF i = 0 THEN <<>>
                          ELSE IF i \in chosen THEN Append(f[i - 1], s[i]) ELSE f[i - 1]]

LEMMA SelExists ==
    ASSUME NEW s, NEW chosen, NEW n \in Nat
    PROVE  \E f : SelAfter(f, s, chosen, n)
<1> DEFINE G == {k \in 0 .. n : \E f : SelAfter(f, s, chosen, k)}
<1>1. 0 \in G
  <2>1. SelAfter([i \in 0 .. 0 |-> <<>>], s, chosen, 0)
    BY DEF SelAfter
  <2> QED
    BY <2>1
<1>2. ASSUME NEW k \in 1 .. n, k - 1 \in G PROVE k \in G
  <2>1. PICK f : SelAfter(f, s, chosen, k - 1)
    BY <1>2
  <2> DEFINE g == [i \in 0 .. k |-> IF i < k THEN f[i]
                                    ELSE IF i \in chosen THEN Append(f[i - 1], s[i])
                                    ELSE f[i - 1]]
  <2>2. ASSUME NEW i \in 0 .. k
        PROVE  g[i] = IF i = 0 THEN <<>>
                      ELSE IF i \in chosen THEN Append(g[i - 1], s[i]) ELSE g[i - 1]
    <3>1. CASE i < k
      <4>1. i \in 0 .. k - 1 /\ (i # 0 => i - 1 \in 0 .. k /\ i - 1 < k)
        BY <3>1
      <4>2. f[i] = IF i = 0 THEN <<>>
                   ELSE IF i \in chosen THEN Append(f[i - 1], s[i]) ELSE f[i - 1]
        BY <2>1, <4>1 DEF SelAfter
      <4>3. g[i] = f[i] /\ (i # 0 => g[i - 1] = f[i - 1])
        BY <3>1, <4>1
      <4> HIDE DEF g
      <4> QED
        BY <4>2, <4>3
    <3>2. CASE i = k
      BY <3>2
    <3> QED
      BY <3>1, <3>2
  <2>3. SelAfter(g, s, chosen, k)
    BY <2>2 DEF SelAfter
  <2> QED
    BY <2>3
<1>3. n \in G
  <2> HIDE DEF G
  <2> QED
    BY <1>1, <1>2, UpTo
<1> QED
  BY <1>3

LEMMA SelectedIs ==
    ASSUME NEW s, IsSeq(s), NEW chosen
    PROVE  /\ IsSeq(Selected(s, chosen))
           /\ \A y : In(y, Selected(s, chosen)) <=> \E i \in DOMAIN s : i \in chosen /\ s[i] = y
<1>1. Len(s) \in Nat /\ DOMAIN s = 1 .. Len(s)
  BY SeqIs
<1>2. \E f : SelAfter(f, s, chosen, Len(s))
  BY <1>1, SelExists
<1>3. PICK f : SelAfter(f, s, chosen, Len(s)) /\ Selected(s, chosen) = f[Len(s)]
  BY <1>2 DEF SelAfter, Selected
<1> DEFINE Sel1(k) == /\ IsSeq(f[k])
                      /\ \A y : In(y, f[k]) <=> \E i \in 1 .. k : i \in chosen /\ s[i] = y
           G == {k \in 0 .. Len(s) : Sel1(k)}
<1>4. 0 \in G
  <2>1. f[0] = <<>>
    BY <1>1, <1>3 DEF SelAfter
  <2> QED
    BY <1>1, <2>1, EmptyIs DEF In
<1>5. ASSUME NEW k \in 1 .. Len(s), k - 1 \in G PROVE k \in G
  <2>1. f[k] = (IF k \in chosen THEN Append(f[k - 1], s[k]) ELSE f[k - 1]) /\ Sel1(k - 1)
    <3>1. k \in 0 .. Len(s) /\ k # 0 /\ Sel1(k - 1)
      BY <1>1, <1>5
    <3> QED
      BY <1>3, <3>1 DEF SelAfter
  <2>2. /\ IsSeq(f[k])
        /\ \A y : In(y, f[k]) <=> In(y, f[k - 1]) \/ (k \in chosen /\ s[k] = y)
    BY <2>1, AppendIs
  <2>3. ASSUME NEW y PROVE In(y, f[k]) <=> \E i \in 1 .. k : i \in chosen /\ s[i] = y
    <3>1. In(y, f[k - 1]) <=> \E i \in 1 .. k - 1 : i \in chosen /\ s[i] = y
      BY <2>1
    <3> QED
      BY <2>2, <3>1, <1>1
  <2> QED
    BY <1>1, <2>2, <2>3
<1>6. Sel1(Len(s))
  <2>1. \A k \in 0 .. Len(s) : k \in G
    <3> HIDE DEF G
    <3> QED
      BY <1>1, <1>4, <1>5, UpTo
  <2> QED
    BY <1>1, <2>1
<1> QED
  BY <1>1, <1>3, <1>6

-------------------------------------------------------------------------------
(* The loops of the translation, in one operator, so that it is shown once     *)
(* that they may be unfolded.                                                  *)
LoopStep(which, x, e, p) ==
    CASE which = "part" -> ResultPart(x, e)
      [] which = "block" -> ProcessBlock(x, e)
      [] which = "runs" -> AddToRuns(x, e)
      [] which = "run" -> AddRun(x, e, p)
      [] which = "keep" -> Keep(x, e, p)
      [] which = "tool" -> AddTool(x, e, p)
      [] which = "chat" -> AddChatMessage(x, e)
      [] which = "chunk" -> ReadChatChunk(x, e)
      [] which = "item" -> TranslateInputItem(x, e)

LoopAfter(f, which, p, base, seq, n) ==
    f = [i \in 0 .. n |-> IF i = 0 THEN base ELSE LoopStep(which, f[i - 1], seq[i], p)]

LEMMA LoopExists ==
    ASSUME NEW which, NEW p, NEW base, NEW seq, NEW n \in Nat
    PROVE  \E f : LoopAfter(f, which, p, base, seq, n)
<1> DEFINE G == {k \in 0 .. n : \E f : LoopAfter(f, which, p, base, seq, k)}
<1>1. 0 \in G
  <2>1. LoopAfter([i \in 0 .. 0 |-> base], which, p, base, seq, 0)
    BY DEF LoopAfter
  <2> QED
    BY <2>1
<1>2. ASSUME NEW k \in 1 .. n, k - 1 \in G PROVE k \in G
  <2>1. PICK f : LoopAfter(f, which, p, base, seq, k - 1)
    BY <1>2
  <2> DEFINE g == [i \in 0 .. k |-> IF i = k THEN LoopStep(which, f[k - 1], seq[k], p)
                                    ELSE f[i]]
  <2>2. \A i \in 0 .. k : g[i] = IF i = 0 THEN base ELSE LoopStep(which, g[i - 1], seq[i], p)
    BY <2>1 DEF LoopAfter
  <2>3. LoopAfter(g, which, p, base, seq, k)
    BY <2>2 DEF LoopAfter
  <2> QED
    BY <2>3
<1>3. \A k \in 0 .. n : k \in G
  <2> HIDE DEF G
  <2> QED
    BY <1>1, <1>2, UpTo
<1> QED
  BY <1>3

AllPart(base, seq) == Accumulate(ResultPart, base, seq)

LEMMA PartLoop ==
    ASSUME NEW base, NEW seq, IsSeq(seq)
    PROVE  \E f : /\ f[0] = base
                  /\ \A i \in 1 .. Len(seq) : f[i] = ResultPart(f[i - 1], seq[i])
                  /\ AllPart(base, seq) = f[Len(seq)]
<1>1. Len(seq) \in Nat
  BY SeqIs
<1>2. PICK g : LoopAfter(g, "part", "", base, seq, Len(seq))
  BY <1>1, LoopExists
<1>3. \A x, e : LoopStep("part", x, e, "") = ResultPart(x, e)
  BY DEF LoopStep
<1> DEFINE Unfolds(f) == f = [i \in 0 .. Len(seq) |->
                                IF i = 0 THEN base ELSE ResultPart(f[i - 1], seq[i])]
<1>4. Unfolds(g)
  BY <1>2, <1>3 DEF LoopAfter
<1> DEFINE f == CHOOSE f : Unfolds(f)
<1>5. Unfolds(f)
  <2> HIDE DEF Unfolds
  <2> QED
    BY <1>4
<1>6. AllPart(base, seq) = f[Len(seq)]
  BY Zenon DEF Accumulate, AllPart
<1> HIDE DEF f
<1>7. f[0] = base /\ \A i \in 1 .. Len(seq) : f[i] = ResultPart(f[i - 1], seq[i])
  BY <1>1, <1>5
<1> QED
  BY <1>6, <1>7

AllBlock(base, seq) == Accumulate(ProcessBlock, base, seq)

LEMMA BlockLoop ==
    ASSUME NEW base, NEW seq, IsSeq(seq)
    PROVE  \E f : /\ f[0] = base
                  /\ \A i \in 1 .. Len(seq) : f[i] = ProcessBlock(f[i - 1], seq[i])
                  /\ AllBlock(base, seq) = f[Len(seq)]
<1>1. Len(seq) \in Nat
  BY SeqIs
<1>2. PICK g : LoopAfter(g, "block", "", base, seq, Len(seq))
  BY <1>1, LoopExists
<1>3. \A x, e : LoopStep("block", x, e, "") = ProcessBlock(x, e)
  BY DEF LoopStep
<1> DEFINE Unfolds(f) == f = [i \in 0 .. Len(seq) |->
                                IF i = 0 THEN base ELSE ProcessBlock(f[i - 1], seq[i])]
<1>4. Unfolds(g)
  BY <1>2, <1>3 DEF LoopAfter
<1> DEFINE f == CHOOSE f : Unfolds(f)
<1>5. Unfolds(f)
  <2> HIDE DEF Unfolds
  <2> QED
    BY <1>4
<1>6. AllBlock(base, seq) = f[Len(seq)]
  BY Zenon DEF Accumulate, AllBlock
<1> HIDE DEF f
<1>7. f[0] = base /\ \A i \in 1 .. Len(seq) : f[i] = ProcessBlock(f[i - 1], seq[i])
  BY <1>1, <1>5
<1> QED
  BY <1>6, <1>7

AllRuns(base, seq) == Accumulate(AddToRuns, base, seq)

LEMMA RunsLoop ==
    ASSUME NEW base, NEW seq, IsSeq(seq)
    PROVE  \E f : /\ f[0] = base
                  /\ \A i \in 1 .. Len(seq) : f[i] = AddToRuns(f[i - 1], seq[i])
                  /\ AllRuns(base, seq) = f[Len(seq)]
<1>1. Len(seq) \in Nat
  BY SeqIs
<1>2. PICK g : LoopAfter(g, "runs", "", base, seq, Len(seq))
  BY <1>1, LoopExists
<1>3. \A x, e : LoopStep("runs", x, e, "") = AddToRuns(x, e)
  BY DEF LoopStep
<1> DEFINE Unfolds(f) == f = [i \in 0 .. Len(seq) |->
                                IF i = 0 THEN base ELSE AddToRuns(f[i - 1], seq[i])]
<1>4. Unfolds(g)
  BY <1>2, <1>3 DEF LoopAfter
<1> DEFINE f == CHOOSE f : Unfolds(f)
<1>5. Unfolds(f)
  <2> HIDE DEF Unfolds
  <2> QED
    BY <1>4
<1>6. AllRuns(base, seq) = f[Len(seq)]
  BY Zenon DEF Accumulate, AllRuns
<1> HIDE DEF f
<1>7. f[0] = base /\ \A i \in 1 .. Len(seq) : f[i] = AddToRuns(f[i - 1], seq[i])
  BY <1>1, <1>5
<1> QED
  BY <1>6, <1>7

AllRun(base, seq, p) == Accumulate(LAMBDA x, e : AddRun(x, e, p), base, seq)

LEMMA RunLoop ==
    ASSUME NEW base, NEW seq, IsSeq(seq), NEW p
    PROVE  \E f : /\ f[0] = base
                  /\ \A i \in 1 .. Len(seq) : f[i] = AddRun(f[i - 1], seq[i], p)
                  /\ AllRun(base, seq, p) = f[Len(seq)]
<1>1. Len(seq) \in Nat
  BY SeqIs
<1>2. PICK g : LoopAfter(g, "run", p, base, seq, Len(seq))
  BY <1>1, LoopExists
<1>3. \A x, e : LoopStep("run", x, e, p) = AddRun(x, e, p)
  BY DEF LoopStep
<1> DEFINE Unfolds(f) == f = [i \in 0 .. Len(seq) |->
                                IF i = 0 THEN base ELSE AddRun(f[i - 1], seq[i], p)]
<1>4. Unfolds(g)
  BY <1>2, <1>3 DEF LoopAfter
<1> DEFINE f == CHOOSE f : Unfolds(f)
<1>5. Unfolds(f)
  <2> HIDE DEF Unfolds
  <2> QED
    BY <1>4
<1>6. AllRun(base, seq, p) = f[Len(seq)]
  BY Zenon DEF Accumulate, AllRun
<1> HIDE DEF f
<1>7. f[0] = base /\ \A i \in 1 .. Len(seq) : f[i] = AddRun(f[i - 1], seq[i], p)
  BY <1>1, <1>5
<1> QED
  BY <1>6, <1>7

AllKeep(base, seq, p) == Accumulate(LAMBDA x, e : Keep(x, e, p), base, seq)

LEMMA KeepLoop ==
    ASSUME NEW base, NEW seq, IsSeq(seq), NEW p
    PROVE  \E f : /\ f[0] = base
                  /\ \A i \in 1 .. Len(seq) : f[i] = Keep(f[i - 1], seq[i], p)
                  /\ AllKeep(base, seq, p) = f[Len(seq)]
<1>1. Len(seq) \in Nat
  BY SeqIs
<1>2. PICK g : LoopAfter(g, "keep", p, base, seq, Len(seq))
  BY <1>1, LoopExists
<1>3. \A x, e : LoopStep("keep", x, e, p) = Keep(x, e, p)
  BY DEF LoopStep
<1> DEFINE Unfolds(f) == f = [i \in 0 .. Len(seq) |->
                                IF i = 0 THEN base ELSE Keep(f[i - 1], seq[i], p)]
<1>4. Unfolds(g)
  BY <1>2, <1>3 DEF LoopAfter
<1> DEFINE f == CHOOSE f : Unfolds(f)
<1>5. Unfolds(f)
  <2> HIDE DEF Unfolds
  <2> QED
    BY <1>4
<1>6. AllKeep(base, seq, p) = f[Len(seq)]
  BY Zenon DEF Accumulate, AllKeep
<1> HIDE DEF f
<1>7. f[0] = base /\ \A i \in 1 .. Len(seq) : f[i] = Keep(f[i - 1], seq[i], p)
  BY <1>1, <1>5
<1> QED
  BY <1>6, <1>7

AllTool(base, seq, p) == Accumulate(LAMBDA x, e : AddTool(x, e, p), base, seq)

LEMMA ToolLoop ==
    ASSUME NEW base, NEW seq, IsSeq(seq), NEW p
    PROVE  \E f : /\ f[0] = base
                  /\ \A i \in 1 .. Len(seq) : f[i] = AddTool(f[i - 1], seq[i], p)
                  /\ AllTool(base, seq, p) = f[Len(seq)]
<1>1. Len(seq) \in Nat
  BY SeqIs
<1>2. PICK g : LoopAfter(g, "tool", p, base, seq, Len(seq))
  BY <1>1, LoopExists
<1>3. \A x, e : LoopStep("tool", x, e, p) = AddTool(x, e, p)
  BY DEF LoopStep
<1> DEFINE Unfolds(f) == f = [i \in 0 .. Len(seq) |->
                                IF i = 0 THEN base ELSE AddTool(f[i - 1], seq[i], p)]
<1>4. Unfolds(g)
  BY <1>2, <1>3 DEF LoopAfter
<1> DEFINE f == CHOOSE f : Unfolds(f)
<1>5. Unfolds(f)
  <2> HIDE DEF Unfolds
  <2> QED
    BY <1>4
<1>6. AllTool(base, seq, p) = f[Len(seq)]
  BY Zenon DEF Accumulate, AllTool
<1> HIDE DEF f
<1>7. f[0] = base /\ \A i \in 1 .. Len(seq) : f[i] = AddTool(f[i - 1], seq[i], p)
  BY <1>1, <1>5
<1> QED
  BY <1>6, <1>7

AllChat(base, seq) == Accumulate(AddChatMessage, base, seq)

LEMMA ChatLoop ==
    ASSUME NEW base, NEW seq, IsSeq(seq)
    PROVE  \E f : /\ f[0] = base
                  /\ \A i \in 1 .. Len(seq) : f[i] = AddChatMessage(f[i - 1], seq[i])
                  /\ AllChat(base, seq) = f[Len(seq)]
<1>1. Len(seq) \in Nat
  BY SeqIs
<1>2. PICK g : LoopAfter(g, "chat", "", base, seq, Len(seq))
  BY <1>1, LoopExists
<1>3. \A x, e : LoopStep("chat", x, e, "") = AddChatMessage(x, e)
  BY DEF LoopStep
<1> DEFINE Unfolds(f) == f = [i \in 0 .. Len(seq) |->
                                IF i = 0 THEN base ELSE AddChatMessage(f[i - 1], seq[i])]
<1>4. Unfolds(g)
  BY <1>2, <1>3 DEF LoopAfter
<1> DEFINE f == CHOOSE f : Unfolds(f)
<1>5. Unfolds(f)
  <2> HIDE DEF Unfolds
  <2> QED
    BY <1>4
<1>6. AllChat(base, seq) = f[Len(seq)]
  BY Zenon DEF Accumulate, AllChat
<1> HIDE DEF f
<1>7. f[0] = base /\ \A i \in 1 .. Len(seq) : f[i] = AddChatMessage(f[i - 1], seq[i])
  BY <1>1, <1>5
<1> QED
  BY <1>6, <1>7

AllChunk(base, seq) == Accumulate(ReadChatChunk, base, seq)

LEMMA ChunkLoop ==
    ASSUME NEW base, NEW seq, IsSeq(seq)
    PROVE  \E f : /\ f[0] = base
                  /\ \A i \in 1 .. Len(seq) : f[i] = ReadChatChunk(f[i - 1], seq[i])
                  /\ AllChunk(base, seq) = f[Len(seq)]
<1>1. Len(seq) \in Nat
  BY SeqIs
<1>2. PICK g : LoopAfter(g, "chunk", "", base, seq, Len(seq))
  BY <1>1, LoopExists
<1>3. \A x, e : LoopStep("chunk", x, e, "") = ReadChatChunk(x, e)
  BY DEF LoopStep
<1> DEFINE Unfolds(f) == f = [i \in 0 .. Len(seq) |->
                                IF i = 0 THEN base ELSE ReadChatChunk(f[i - 1], seq[i])]
<1>4. Unfolds(g)
  BY <1>2, <1>3 DEF LoopAfter
<1> DEFINE f == CHOOSE f : Unfolds(f)
<1>5. Unfolds(f)
  <2> HIDE DEF Unfolds
  <2> QED
    BY <1>4
<1>6. AllChunk(base, seq) = f[Len(seq)]
  BY Zenon DEF Accumulate, AllChunk
<1> HIDE DEF f
<1>7. f[0] = base /\ \A i \in 1 .. Len(seq) : f[i] = ReadChatChunk(f[i - 1], seq[i])
  BY <1>1, <1>5
<1> QED
  BY <1>6, <1>7

AllItem(base, seq) == Accumulate(TranslateInputItem, base, seq)

LEMMA ItemLoop ==
    ASSUME NEW base, NEW seq, IsSeq(seq)
    PROVE  \E f : /\ f[0] = base
                  /\ \A i \in 1 .. Len(seq) : f[i] = TranslateInputItem(f[i - 1], seq[i])
                  /\ AllItem(base, seq) = f[Len(seq)]
<1>1. Len(seq) \in Nat
  BY SeqIs
<1>2. PICK g : LoopAfter(g, "item", "", base, seq, Len(seq))
  BY <1>1, LoopExists
<1>3. \A x, e : LoopStep("item", x, e, "") = TranslateInputItem(x, e)
  BY DEF LoopStep
<1> DEFINE Unfolds(f) == f = [i \in 0 .. Len(seq) |->
                                IF i = 0 THEN base ELSE TranslateInputItem(f[i - 1], seq[i])]
<1>4. Unfolds(g)
  BY <1>2, <1>3 DEF LoopAfter
<1> DEFINE f == CHOOSE f : Unfolds(f)
<1>5. Unfolds(f)
  <2> HIDE DEF Unfolds
  <2> QED
    BY <1>4
<1>6. AllItem(base, seq) = f[Len(seq)]
  BY Zenon DEF Accumulate, AllItem
<1> HIDE DEF f
<1>7. f[0] = base /\ \A i \in 1 .. Len(seq) : f[i] = TranslateInputItem(f[i - 1], seq[i])
  BY <1>1, <1>5
<1> QED
  BY <1>6, <1>7

-------------------------------------------------------------------------------
(* Calls and their results.                                                    *)
IsEntry(e) ==
    /\ e = [role |-> e.role, text |-> e.text, images |-> e.images,
            results |-> e.results, uses |-> e.uses]
    /\ IsSeq(e.images) /\ IsSeq(e.results) /\ IsSeq(e.uses)

Entries(h) == IsSeq(h) /\ \A i \in DOMAIN h : IsEntry(h[i])

LEMMA KindsAre ==
    ASSUME NEW blocks, IsSeq(blocks), NEW kind
    PROVE  /\ IsSeq(OfKind(blocks, kind))
           /\ \A b : In(b, OfKind(blocks, kind)) <=> In(b, blocks) /\ b.k = kind
<1> DEFINE chosen == {i \in DOMAIN blocks : blocks[i].k = kind}
<1>1. OfKind(blocks, kind) = Selected(blocks, chosen)
  BY DEF OfKind, Those
<1>2. /\ IsSeq(Selected(blocks, chosen))
      /\ \A b : In(b, Selected(blocks, chosen))
                  <=> \E i \in DOMAIN blocks : i \in chosen /\ blocks[i] = b
  <2> HIDE DEF chosen
  <2> QED
    BY SelectedIs
<1> QED
  BY <1>1, <1>2 DEF In

LEMMA UsesAre ==
    ASSUME NEW h, Entries(h)
    PROVE  /\ IsSeq(UsesOf(h)) /\ IsSeq(ResultsOf(h))
           /\ \A u : In(u, UsesOf(h)) <=> \E i \in DOMAIN h : In(u, h[i].uses)
           /\ \A r : In(r, ResultsOf(h)) <=> \E i \in DOMAIN h : In(r, h[i].results)
<1> DEFINE uses == [i \in DOMAIN h |-> h[i].uses]
           results == [i \in DOMAIN h |-> h[i].results]
<1>1. /\ IsSeq(uses) /\ AllSeqs(uses) /\ DOMAIN uses = DOMAIN h
      /\ IsSeq(results) /\ AllSeqs(results) /\ DOMAIN results = DOMAIN h
  <2>1. IsSeq(h)
    BY DEF Entries
  <2>2. IsSeq(uses) /\ IsSeq(results)
    BY <2>1, MapIs
  <2> QED
    BY <2>2 DEF AllSeqs, Entries, IsEntry
<1>2. UsesOf(h) = FlattenSeq(uses) /\ ResultsOf(h) = FlattenSeq(results)
  BY DEF UsesOf, ResultsOf
<1>3. /\ \A i \in DOMAIN h : uses[i] = h[i].uses
      /\ \A i \in DOMAIN h : results[i] = h[i].results
  OBVIOUS
<1> HIDE DEF uses, results
<1> QED
  BY <1>1, <1>2, <1>3, FlatIs

LEMMA IdsAre ==
    ASSUME NEW s
    PROVE  \A id : id \in Ids(s) <=> \E x : In(x, s) /\ x.id = id
BY DEF Ids, In

DistinctIds(s) == \A i, j \in DOMAIN s : s[i].id = s[j].id => i = j

LEMMA IdsCount ==
    ASSUME NEW s, IsSeq(s), DistinctIds(s)
    PROVE  Cardinality(Ids(s)) = Len(s)
<1>1. Len(s) \in Nat /\ DOMAIN s = 1 .. Len(s)
  BY SeqIs
<1> DEFINE b == [i \in 1 .. Len(s) |-> s[i].id]
<1>2. b \in Bijection(1 .. Len(s), Ids(s))
  BY <1>1 DEF Bijection, Injection, Surjection, IsInjective, DistinctIds, Ids
<1>3. ExistsBijection(1 .. Len(s), Ids(s))
  BY <1>2 DEF ExistsBijection
<1> QED
  BY <1>1, <1>3, FS_CountingElements

LEMMA KeptIs ==
    ASSUME NEW h, NEW results, IsSeq(results)
    PROVE  LET kept == ValidateToolPairing(h, results)
           IN  /\ IsSeq(kept) /\ DistinctIds(kept)
               /\ Ids(kept) \subseteq Ids(UsesOf(h)) \ Ids(ResultsOf(h))
<1> DEFINE unpaired == Ids(UsesOf(h)) \ Ids(ResultsOf(h))
<1>1. PICK f : /\ f[0] = <<>>
               /\ \A i \in 1 .. Len(results) : f[i] = Keep(f[i - 1], results[i], unpaired)
               /\ ValidateToolPairing(h, results) = f[Len(results)]
  <2> HIDE DEF unpaired
  <2>1. ValidateToolPairing(h, results) = AllKeep(<<>>, results, unpaired)
    BY DEF ValidateToolPairing, unpaired, AllKeep
  <2> QED
    BY <2>1, KeepLoop
<1> HIDE DEF unpaired
<1> DEFINE Good(k) == IsSeq(k) /\ DistinctIds(k) /\ Ids(k) \subseteq unpaired
           G == {i \in 0 .. Len(results) : Good(f[i])}
<1>2. Len(results) \in Nat
  BY SeqIs
<1>3. 0 \in G
  <2>1. Good(<<>>)
    BY EmptyIs DEF DistinctIds, Ids
  <2> QED
    BY <1>1, <1>2, <2>1
<1>4. ASSUME NEW i \in 1 .. Len(results), i - 1 \in G PROVE i \in G
  <2>1. f[i] = Keep(f[i - 1], results[i], unpaired) /\ Good(f[i - 1]) /\ i \in 0 .. Len(results)
    BY <1>1, <1>2, <1>4
  <2> DEFINE k == f[i - 1]
             r == results[i]
  <2>2. CASE r.id \in unpaired \ Ids(k)
    <3>1. f[i] = Append(k, r)
      BY <2>1, <2>2 DEF Keep
    <3>2. /\ IsSeq(Append(k, r)) /\ Len(Append(k, r)) = Len(k) + 1
          /\ Append(k, r)[Len(k) + 1] = r
          /\ \A j \in DOMAIN k : Append(k, r)[j] = k[j]
          /\ \A y : In(y, Append(k, r)) <=> In(y, k) \/ y = r
      BY <2>1, AppendIs
    <3>3. Len(k) \in Nat /\ DOMAIN k = 1 .. Len(k) /\ DOMAIN Append(k, r) = 1 .. Len(k) + 1
      BY <2>1, <3>2, SeqIs
    <3> DEFINE a == Append(k, r)
    <3>4. DistinctIds(a)
      <4> HIDE DEF a, k, r
      <4>1. ASSUME NEW x \in DOMAIN k PROVE a[x].id # r.id
        BY <2>2, <3>2, <4>1 DEF Ids, a
      <4>2. /\ \A x \in DOMAIN a : x \in DOMAIN k \/ x = Len(k) + 1
            /\ \A x \in DOMAIN k : a[x] = k[x]
            /\ a[Len(k) + 1] = r
        BY <3>2, <3>3 DEF a
      <4>3. DistinctIds(k)
        BY <2>1 DEF k
      <4> QED
        BY <4>1, <4>2, <4>3 DEF DistinctIds
    <3>5. Ids(a) \subseteq unpaired
      <4>1. \A id \in Ids(a) : id \in Ids(k) \/ id = r.id
        BY <3>2, IdsAre
      <4> QED
        BY <2>1, <2>2, <4>1
    <3> QED
      BY <2>1, <3>1, <3>2, <3>4, <3>5
  <2>3. CASE ~(r.id \in unpaired \ Ids(k))
    BY <2>1, <2>3 DEF Keep
  <2> QED
    BY <2>2, <2>3
<1>5. Good(f[Len(results)])
  <2>1. \A i \in 0 .. Len(results) : i \in G
    <3> HIDE DEF G
    <3> QED
      BY <1>2, <1>3, <1>4, UpTo
  <2> QED
    BY <1>2, <2>1
<1> QED
  BY <1>1, <1>5 DEF unpaired

LEMMA OrphansGone ==
    ASSUME NEW h, Entries(h), NEW kept
    PROVE  LET paired == RemoveOrphanedToolUses(h, kept)
               answered == Ids(ResultsOf(h)) \cup Ids(kept)
           IN  /\ Entries(paired) /\ Len(paired) = Len(h) /\ DOMAIN paired = DOMAIN h
               /\ \A i \in DOMAIN h :
                     /\ paired[i] = [role |-> h[i].role, text |-> h[i].text,
                                     images |-> h[i].images, results |-> h[i].results,
                                     uses |-> paired[i].uses]
                     /\ \A u : In(u, paired[i].uses) <=> In(u, h[i].uses) /\ u.id \in answered
<1> DEFINE answered == Ids(ResultsOf(h)) \cup Ids(kept)
           chosen(s) == {j \in DOMAIN s : s[j].id \in answered}
           paired == RemoveOrphanedToolUses(h, kept)
<1>1. paired = [i \in DOMAIN h |-> [h[i] EXCEPT !.uses = Selected(@, chosen(@))]]
  BY DEF RemoveOrphanedToolUses, Those
<1>2. IsSeq(h) /\ DOMAIN h = 1 .. Len(h) /\ Len(h) \in Nat
  BY SeqIs DEF Entries
<1>3. paired = [i \in DOMAIN h |-> paired[i]]
  BY <1>1
<1>4. IsSeq(paired) /\ Len(paired) = Len(h) /\ DOMAIN paired = DOMAIN h
  <2> HIDE DEF paired
  <2> QED
    BY <1>2, <1>3, MapIs
<1>5. ASSUME NEW i \in DOMAIN h
      PROVE  /\ IsEntry(paired[i])
             /\ paired[i] = [role |-> h[i].role, text |-> h[i].text,
                             images |-> h[i].images, results |-> h[i].results,
                             uses |-> paired[i].uses]
             /\ \A u : In(u, paired[i].uses) <=> In(u, h[i].uses) /\ u.id \in answered
  <2> DEFINE sel == Selected(h[i].uses, chosen(h[i].uses))
  <2>1. paired[i] = [h[i] EXCEPT !.uses = sel]
    BY <1>1
  <2>2. IsEntry(h[i])
    BY DEF Entries
  <2>3. paired[i] = [role |-> h[i].role, text |-> h[i].text, images |-> h[i].images,
                     results |-> h[i].results, uses |-> sel]
    <3> HIDE DEF sel, paired
    <3> QED
      BY <2>1, <2>2 DEF IsEntry
  <2>4. IsSeq(sel) /\ \A u : In(u, sel) <=> \E j \in DOMAIN h[i].uses :
                                                j \in chosen(h[i].uses) /\ h[i].uses[j] = u
    <3> DEFINE c == chosen(h[i].uses)
    <3>1. IsSeq(h[i].uses)
      BY <2>2 DEF IsEntry
    <3> HIDE DEF c
    <3> QED
      BY <3>1, SelectedIs
  <2>5. \A u : In(u, sel) <=> In(u, h[i].uses) /\ u.id \in answered
    <3> HIDE DEF answered
    <3> QED
      BY <2>4 DEF In
  <2> HIDE DEF sel, paired, answered, chosen
  <2>6. paired[i].uses = sel
    BY <2>3
  <2>7. IsEntry(paired[i])
    BY <2>2, <2>3, <2>4 DEF IsEntry
  <2> QED
    BY <2>3, <2>5, <2>6, <2>7
<1> HIDE DEF paired, answered
<1>6. Entries(paired)
  BY <1>4, <1>5 DEF Entries
<1> QED
  BY <1>4, <1>5, <1>6 DEF paired, answered

(* Every call of a paired history has its result, every result its call.       *)
LEMMA PairedAnswers ==
    ASSUME NEW h, Entries(h), NEW results, IsSeq(results)
    PROVE  LET kept == ValidateToolPairing(h, results)
               paired == RemoveOrphanedToolUses(h, kept)
           IN  /\ Ids(UsesOf(paired)) \subseteq Ids(ResultsOf(paired)) \cup Ids(kept)
               /\ Ids(kept) \subseteq Ids(UsesOf(paired)) \ Ids(ResultsOf(paired))
               /\ Cardinality(Ids(kept)) = Len(kept)
<1> DEFINE kept == ValidateToolPairing(h, results)
           paired == RemoveOrphanedToolUses(h, kept)
           answered == Ids(ResultsOf(h)) \cup Ids(kept)
<1>1. /\ IsSeq(kept) /\ DistinctIds(kept)
      /\ Ids(kept) \subseteq Ids(UsesOf(h)) \ Ids(ResultsOf(h))
  BY KeptIs
<1> HIDE DEF kept
<1>2. /\ Entries(paired) /\ DOMAIN paired = DOMAIN h
      /\ \A i \in DOMAIN h : paired[i].results = h[i].results
      /\ \A i \in DOMAIN h : \A u : In(u, paired[i].uses)
                                       <=> In(u, h[i].uses) /\ u.id \in answered
  <2> DEFINE p == RemoveOrphanedToolUses(h, kept)
  <2>1. /\ Entries(p) /\ DOMAIN p = DOMAIN h
        /\ \A i \in DOMAIN h :
                     /\ p[i] = [role |-> h[i].role, text |-> h[i].text,
                                     images |-> h[i].images, results |-> h[i].results,
                                     uses |-> p[i].uses]
                     /\ \A u : In(u, p[i].uses) <=> In(u, h[i].uses) /\ u.id \in answered
    BY OrphansGone
  <2> HIDE DEF p, answered
  <2>2. \A i \in DOMAIN h : p[i].results = h[i].results
    BY <2>1
  <2> QED
    BY <2>1, <2>2 DEF p
<1> HIDE DEF paired
<1>3. /\ \A u : In(u, UsesOf(paired)) <=> \E i \in DOMAIN h : In(u, paired[i].uses)
      /\ \A r : In(r, ResultsOf(paired)) <=> \E i \in DOMAIN h : In(r, h[i].results)
      /\ \A u : In(u, UsesOf(h)) <=> \E i \in DOMAIN h : In(u, h[i].uses)
      /\ \A r : In(r, ResultsOf(h)) <=> \E i \in DOMAIN h : In(r, h[i].results)
  <2>1. /\ \A u : In(u, UsesOf(paired)) <=> \E i \in DOMAIN h : In(u, paired[i].uses)
        /\ \A r : In(r, ResultsOf(paired)) <=> \E i \in DOMAIN h : In(r, paired[i].results)
    BY <1>2, UsesAre
  <2>2. \A r, i : i \in DOMAIN h => (In(r, paired[i].results) <=> In(r, h[i].results))
    BY <1>2
  <2>3. /\ \A u : In(u, UsesOf(h)) <=> \E i \in DOMAIN h : In(u, h[i].uses)
        /\ \A r : In(r, ResultsOf(h)) <=> \E i \in DOMAIN h : In(r, h[i].results)
    BY UsesAre
  <2> QED
    BY <2>1, <2>2, <2>3
<1>4. \A u : In(u, UsesOf(paired)) <=> In(u, UsesOf(h)) /\ u.id \in answered
  <2> HIDE DEF answered
  <2> QED
    BY <1>2, <1>3
<1>5. Ids(ResultsOf(paired)) = Ids(ResultsOf(h))
  <2>1. \A r : In(r, ResultsOf(paired)) <=> In(r, ResultsOf(h))
    BY <1>3
  <2>2. \A id : id \in Ids(ResultsOf(paired)) <=> id \in Ids(ResultsOf(h))
    BY <2>1, IdsAre
  <2> QED
    BY <2>2
<1>6. \A id : id \in Ids(UsesOf(paired)) <=> id \in Ids(UsesOf(h)) /\ id \in answered
  <2> HIDE DEF answered
  <2>1. ASSUME NEW id \in Ids(UsesOf(paired))
        PROVE  id \in Ids(UsesOf(h)) /\ id \in answered
    <3>1. PICK u : In(u, UsesOf(paired)) /\ u.id = id
      BY IdsAre
    <3> QED
      BY <1>4, <3>1, IdsAre
  <2>2. ASSUME NEW id \in Ids(UsesOf(h)), id \in answered
        PROVE  id \in Ids(UsesOf(paired))
    <3>1. PICK u : In(u, UsesOf(h)) /\ u.id = id
      BY IdsAre
    <3>2. In(u, UsesOf(paired)) /\ u.id = id
      BY <1>4, <2>2, <3>1
    <3> QED
      BY <3>2, IdsAre
  <2> QED
    BY <2>1, <2>2
<1>7. Cardinality(Ids(kept)) = Len(kept)
  BY <1>1, IdsCount
<1> QED
  BY <1>1, <1>5, <1>6, <1>7 DEF kept, paired

-------------------------------------------------------------------------------
(* What is collected of a user's content.                                      *)
IsContent(c) ==
    /\ c = [text |-> c.text, part |-> c.part, had_image |-> c.had_image, images |-> c.images,
            results |-> c.results, seen |-> c.seen, dedup |-> c.dedup]
    /\ IsSeq(c.images) /\ IsSeq(c.results)

GoodParts(parts) == IsSeq(parts) /\ \A p : In(p, parts) => p.k \in {"text", "image"}

GoodBlock(b, role) ==
    /\ b.k \in {"image", "tool_result"} => role = "user"
    /\ b.k = "tool_result" => GoodParts(b.content)

GoodContent(blocks, role) == IsSeq(blocks) /\ \A b : In(b, blocks) => GoodBlock(b, role)

(* The images that may be sent, of one part, block or content.                 *)
Sendable(img) == IF img.format \in Formats THEN {img.data} ELSE {}

PartData(p) == IF p.k = "image" THEN Sendable(p.img) ELSE {}

BlockData(b) ==
    IF b.k = "image" THEN Sendable(b.img)
    ELSE IF b.k = "tool_result" THEN UNION {PartData(b.content[i]) : i \in DOMAIN b.content}
    ELSE {}

ContentData(blocks) == UNION {BlockData(blocks[i]) : i \in DOMAIN blocks}

(* From c to d the images of `data` are collected: where duplicates are        *)
(* dropped, those not seen before, each once.                                  *)
Collects(c, d, data) ==
    /\ IsContent(d) /\ d.dedup = c.dedup
    /\ c.dedup =>
          /\ d.seen = c.seen \cup data
          /\ Distinct(c.images) /\ (\A y : In(y, c.images) => y \in c.seen) =>
                /\ Distinct(d.images)
                /\ \A y : In(y, d.images) <=> In(y, c.images) \/ y \in data \ c.seen
    /\ ~c.dedup =>
          /\ d.seen = c.seen
          /\ \A y : In(y, d.images) <=> In(y, c.images) \/ y \in data

LEMMA CollectsOn ==
    ASSUME NEW c, NEW d, NEW e, NEW data, NEW more, c.dedup \in BOOLEAN,
           Collects(c, d, data), Collects(d, e, more)
    PROVE  Collects(c, e, data \cup more)
<1>1. CASE c.dedup
  <2>1. d.seen = c.seen \cup data /\ e.seen = d.seen \cup more /\ IsContent(e)
        /\ d.dedup = c.dedup /\ e.dedup = c.dedup
    BY <1>1 DEF Collects
  <2>2. ASSUME Distinct(c.images), \A y : In(y, c.images) => y \in c.seen
        PROVE  /\ Distinct(e.images)
               /\ \A y : In(y, e.images) <=> In(y, c.images) \/ y \in (data \cup more) \ c.seen
    <3>1. /\ Distinct(d.images)
          /\ \A y : In(y, d.images) <=> In(y, c.images) \/ y \in data \ c.seen
      BY <1>1, <2>2 DEF Collects
    <3>2. \A y : In(y, d.images) => y \in d.seen
      BY <2>1, <2>2, <3>1
    <3>3. /\ Distinct(e.images)
          /\ \A y : In(y, e.images) <=> In(y, d.images) \/ y \in more \ d.seen
      BY <1>1, <2>1, <3>1, <3>2 DEF Collects
    <3>4. ASSUME NEW y
          PROVE  In(y, e.images) <=> In(y, c.images) \/ y \in (data \cup more) \ c.seen
      BY <2>1, <2>2, <3>1, <3>3
    <3> QED
      BY <3>3, <3>4
  <2> QED
    BY <1>1, <2>1, <2>2 DEF Collects
<1>2. CASE ~c.dedup
  <2>1. /\ d.seen = c.seen /\ e.seen = d.seen /\ IsContent(e)
        /\ d.dedup = c.dedup /\ e.dedup = c.dedup
        /\ \A y : In(y, d.images) <=> In(y, c.images) \/ y \in data
        /\ \A y : In(y, e.images) <=> In(y, d.images) \/ y \in more
    BY <1>2 DEF Collects
  <2> QED
    BY <1>2, <2>1 DEF Collects
<1> QED
  BY <1>1, <1>2

(* The fields that count for the images alone.                                 *)
LEMMA CollectsNothing ==
    ASSUME NEW c, NEW d, IsContent(d), c.dedup \in BOOLEAN,
           d.dedup = c.dedup, d.seen = c.seen, d.images = c.images
    PROVE  Collects(c, d, {})
BY DEF Collects

LEMMA ImageCollected ==
    ASSUME NEW c, IsContent(c), c.dedup \in BOOLEAN, NEW img, NEW into \in {"text", "part"}
    PROVE  /\ Collects(c, ExtractImage(c, img, into), Sendable(img))
           /\ ExtractImage(c, img, into).results = c.results
<1> DEFINE d == ExtractImage(c, img, into)
<1>1. CASE img.format \notin Formats
  <2>1. d = c /\ Sendable(img) = {}
    BY <1>1 DEF ExtractImage, Sendable
  <2> QED
    BY <2>1, CollectsNothing
<1>2. CASE img.format \in Formats /\ c.dedup /\ img.data \in c.seen
  <2> DEFINE t == c[into] \o Omitted
  <2>1. d = [c EXCEPT ![into] = t] /\ Sendable(img) = {img.data}
    BY <1>2 DEF ExtractImage, Sendable
  <2>2. d = [text |-> IF into = "text" THEN t ELSE c.text,
             part |-> IF into = "part" THEN t ELSE c.part,
             had_image |-> c.had_image, images |-> c.images,
             results |-> c.results, seen |-> c.seen, dedup |-> c.dedup]
    <3> HIDE DEF d, t
    <3>1. c = [text |-> c.text, part |-> c.part, had_image |-> c.had_image,
               images |-> c.images, results |-> c.results, seen |-> c.seen,
               dedup |-> c.dedup]
      BY DEF IsContent
    <3>2. CASE into = "text"
      BY <2>1, <3>1, <3>2
    <3>3. CASE into = "part"
      BY <2>1, <3>1, <3>3
    <3> QED
      BY <3>2, <3>3
  <2> HIDE DEF d, t
  <2>3. IsContent(d)
    BY <2>2 DEF IsContent
  <2>4. d.dedup = c.dedup /\ d.seen = c.seen /\ d.images = c.images /\ d.results = c.results
    BY <2>2
  <2>5. c.seen = c.seen \cup {img.data}
    BY <1>2
  <2>6. Collects(c, d, {img.data})
    <3>1. \A y : y \notin {img.data} \ c.seen
      BY <1>2
    <3> QED
      BY <1>2, <2>3, <2>4, <2>5, <3>1 DEF Collects
  <2> QED
    BY <2>1, <2>4, <2>6 DEF d
<1>3. CASE img.format \in Formats /\ ~(c.dedup /\ img.data \in c.seen)
  <2> DEFINE a == Append(c.images, img.data)
             s == IF c.dedup THEN c.seen \cup {img.data} ELSE c.seen
  <2>1. d = [c EXCEPT !.images = a, !.seen = s] /\ Sendable(img) = {img.data}
    BY <1>3 DEF ExtractImage, Sendable
  <2>2. d = [text |-> c.text, part |-> c.part, had_image |-> c.had_image, images |-> a,
             results |-> c.results, seen |-> s, dedup |-> c.dedup]
    <3> HIDE DEF d, a, s
    <3> QED
      BY <2>1 DEF IsContent
  <2>3. /\ IsSeq(a) /\ Len(a) = Len(c.images) + 1 /\ a[Len(c.images) + 1] = img.data
        /\ \A i \in DOMAIN c.images : a[i] = c.images[i]
        /\ \A y : In(y, a) <=> In(y, c.images) \/ y = img.data
    BY AppendIs DEF IsContent
  <2>4. IsContent(d)
    <3> HIDE DEF d, a, s
    <3> QED
      BY <2>2, <2>3 DEF IsContent
  <2>5. c.dedup /\ (\A y : In(y, c.images) => y \in c.seen) => ~In(img.data, c.images)
    BY <1>3
  <2>6. ASSUME Distinct(c.images), ~In(img.data, c.images) PROVE Distinct(a)
    <3>1. DOMAIN a = 1 .. Len(c.images) + 1 /\ DOMAIN c.images = 1 .. Len(c.images)
          /\ Len(c.images) \in Nat
      BY <2>3, SeqIs DEF IsContent
    <3> HIDE DEF a
    <3>2. \A i \in DOMAIN c.images : a[i] # img.data
      BY <2>3, <2>6 DEF In
    <3>3. \A i \in DOMAIN a : i \in DOMAIN c.images \/ i = Len(c.images) + 1
      BY <3>1
    <3> QED
      BY <2>3, <2>6, <3>2, <3>3 DEF Distinct
  <2>7. d.dedup = c.dedup /\ d.seen = s /\ d.images = a /\ d.results = c.results
    BY <2>2
  <2> HIDE DEF d, a
  <2>8. Collects(c, d, {img.data})
    <3>1. CASE c.dedup
      BY <1>3, <2>3, <2>4, <2>5, <2>6, <2>7, <3>1 DEF Collects
    <3>2. CASE ~c.dedup
      BY <2>3, <2>4, <2>7, <3>2 DEF Collects
    <3> QED
      BY <3>1, <3>2
  <2> QED
    BY <2>1, <2>7, <2>8 DEF d
<1> QED
  BY <1>1, <1>2, <1>3

LEMMA PartCollected ==
    ASSUME NEW c, IsContent(c), c.dedup \in BOOLEAN, NEW p, p.k \in {"text", "image"}
    PROVE  /\ Collects(c, ResultPart(c, p), PartData(p))
           /\ ResultPart(c, p).results = c.results
<1>1. CASE p.k = "text"
  <2> DEFINE t == c.part \o p.text
             d == ResultPart(c, p)
  <2>1. d = [c EXCEPT !.part = t]
    BY <1>1 DEF ResultPart
  <2>2. d = [text |-> c.text, part |-> t, had_image |-> c.had_image, images |-> c.images,
             results |-> c.results, seen |-> c.seen, dedup |-> c.dedup]
    <3> HIDE DEF d, t
    <3> QED
      BY <2>1 DEF IsContent
  <2> HIDE DEF d, t
  <2>3. IsContent(d) /\ d.dedup = c.dedup /\ d.seen = c.seen /\ d.images = c.images
        /\ d.results = c.results
    BY <2>2 DEF IsContent
  <2>4. PartData(p) = {}
    BY <1>1 DEF PartData
  <2> QED
    BY <2>3, <2>4, CollectsNothing DEF d
<1>2. CASE p.k = "image"
  <2> DEFINE d == [c EXCEPT !.had_image = TRUE]
  <2>1. ResultPart(c, p) = ExtractImage(d, p.img, "part") /\ PartData(p) = Sendable(p.img)
    BY <1>2 DEF ResultPart, PartData
  <2>2. d = [text |-> c.text, part |-> c.part, had_image |-> TRUE, images |-> c.images,
             results |-> c.results, seen |-> c.seen, dedup |-> c.dedup]
    <3> DEFINE yes == TRUE
    <3>1. d = [c EXCEPT !.had_image = yes]
      OBVIOUS
    <3> HIDE DEF d, yes
    <3>2. d = [text |-> c.text, part |-> c.part, had_image |-> yes, images |-> c.images,
               results |-> c.results, seen |-> c.seen, dedup |-> c.dedup]
      BY <3>1 DEF IsContent
    <3> QED
      BY <3>2 DEF yes
  <2> HIDE DEF d
  <2>3. IsContent(d) /\ d.dedup = c.dedup /\ d.seen = c.seen /\ d.images = c.images
        /\ d.results = c.results
    BY <2>2 DEF IsContent
  <2>4. Collects(c, d, {})
    BY <2>3, CollectsNothing
  <2>5. /\ Collects(d, ExtractImage(d, p.img, "part"), Sendable(p.img))
        /\ ExtractImage(d, p.img, "part").results = d.results
    BY <2>3, ImageCollected
  <2>6. Collects(c, ExtractImage(d, p.img, "part"), {} \cup Sendable(p.img))
    BY <2>4, <2>5, CollectsOn
  <2>7. {} \cup Sendable(p.img) = Sendable(p.img)
    OBVIOUS
  <2> QED
    BY <2>1, <2>3, <2>5, <2>6, <2>7
<1> QED
  BY <1>1, <1>2

LEMMA PartsCollected ==
    ASSUME NEW c, IsContent(c), c.dedup \in BOOLEAN, NEW parts, GoodParts(parts)
    PROVE  Collects(c, AllPart(c, parts), UNION {PartData(parts[i]) : i \in DOMAIN parts})
<1>1. IsSeq(parts) /\ Len(parts) \in Nat /\ DOMAIN parts = 1 .. Len(parts)
  BY SeqIs DEF GoodParts
<1>2. PICK f : /\ f[0] = c
               /\ \A i \in 1 .. Len(parts) : f[i] = ResultPart(f[i - 1], parts[i])
               /\ AllPart(c, parts) = f[Len(parts)]
  BY <1>1, PartLoop
<1> DEFINE upto(k) == UNION {PartData(parts[i]) : i \in 1 .. k}
           G == {k \in 0 .. Len(parts) : Collects(c, f[k], upto(k))}
<1>3. 0 \in G
  <2>1. upto(0) = {}
    OBVIOUS
  <2>2. Collects(c, c, {})
    BY CollectsNothing
  <2> HIDE DEF upto
  <2>3. Collects(c, f[0], upto(0))
    BY <1>2, <2>1, <2>2
  <2> QED
    BY <1>1, <2>3
<1>4. ASSUME NEW k \in 1 .. Len(parts), k - 1 \in G PROVE k \in G
  <2>1. upto(k) = upto(k - 1) \cup PartData(parts[k])
    <3>1. 1 .. k = (1 .. k - 1) \cup {k}
      BY <1>1
    <3> QED
      BY <3>1
  <2>2. parts[k].k \in {"text", "image"}
    BY <1>1 DEF GoodParts, In
  <2>3. Collects(c, f[k - 1], upto(k - 1)) /\ f[k] = ResultPart(f[k - 1], parts[k])
    BY <1>2, <1>4
  <2> HIDE DEF upto
  <2>4. IsContent(f[k - 1]) /\ f[k - 1].dedup = c.dedup
    BY <2>3 DEF Collects
  <2>5. Collects(f[k - 1], f[k], PartData(parts[k]))
    BY <2>2, <2>3, <2>4, PartCollected
  <2>6. Collects(c, f[k], upto(k))
    BY <2>1, <2>3, <2>5, CollectsOn
  <2> QED
    BY <1>1, <2>6
<1>5. Collects(c, f[Len(parts)], upto(Len(parts)))
  <2>1. \A k \in 0 .. Len(parts) : k \in G
    <3> HIDE DEF G
    <3> QED
      BY <1>1, <1>3, <1>4, UpTo
  <2> HIDE DEF upto
  <2> QED
    BY <1>1, <2>1
<1> QED
  BY <1>1, <1>2, <1>5

Emptied(c) == [c EXCEPT !.part = <<>>, !.had_image = FALSE]

LEMMA ResultCollected ==
    ASSUME NEW c, IsContent(c), c.dedup \in BOOLEAN, NEW b, GoodParts(b.content)
    PROVE  Collects(c, CloseResult(AllPart(Emptied(c), b.content), b),
                    UNION {PartData(b.content[i]) : i \in DOMAIN b.content})
<1> DEFINE data == UNION {PartData(b.content[i]) : i \in DOMAIN b.content}
           none == <<>>
           no == FALSE
           c0 == Emptied(c)
           d == AllPart(c0, b.content)
<1>1. c0 = [text |-> c.text, part |-> none, had_image |-> no, images |-> c.images,
            results |-> c.results, seen |-> c.seen, dedup |-> c.dedup]
  <2>1. c0 = [c EXCEPT !.part = none, !.had_image = no]
    BY DEF Emptied
  <2> HIDE DEF none, no, c0
  <2> QED
    BY <2>1 DEF IsContent
<1> HIDE DEF c0, none, no, data
<1>2. IsContent(c0) /\ c0.dedup = c.dedup /\ c0.seen = c.seen /\ c0.images = c.images
  BY <1>1 DEF IsContent
<1>3. Collects(c, c0, {})
  BY <1>2, CollectsNothing
<1>4. Collects(c0, d, data)
  BY <1>2, PartsCollected DEF data
<1> HIDE DEF d
<1>5. Collects(c, d, {} \cup data)
  BY <1>3, <1>4, CollectsOn
<1> DEFINE r == Append(d.results,
                       [id |-> b.id,
                        text |-> IF d.part = <<>> /\ d.had_image THEN Attached ELSE d.part])
           e == CloseResult(d, b)
<1>6. IsContent(d) /\ d.dedup = c.dedup
  BY <1>4, <1>2 DEF Collects
<1>7. e = [d EXCEPT !.results = r]
  BY DEF CloseResult
<1>8. IsSeq(r)
  BY <1>6, AppendIs DEF IsContent
<1> HIDE DEF r, e
<1>9. e = [text |-> d.text, part |-> d.part, had_image |-> d.had_image, images |-> d.images,
           results |-> r, seen |-> d.seen, dedup |-> d.dedup]
  BY <1>6, <1>7 DEF IsContent
<1>10. IsContent(e) /\ e.dedup = d.dedup /\ e.seen = d.seen /\ e.images = d.images
  BY <1>6, <1>8, <1>9 DEF IsContent
<1>11. Collects(d, e, {})
  BY <1>6, <1>10, CollectsNothing
<1>12. Collects(c, e, ({} \cup data) \cup {})
  BY <1>5, <1>11, CollectsOn
<1>13. ({} \cup data) \cup {} = data
  OBVIOUS
<1> QED
  BY <1>12, <1>13 DEF e, d, c0, data, none, no

LEMMA BlockCollected ==
    ASSUME NEW c, IsContent(c), c.dedup \in BOOLEAN, NEW b, GoodBlock(b, "user")
    PROVE  Collects(c, ProcessBlock(c, b), BlockData(b))
<1>1. CASE b.k = "text"
  <2> DEFINE t == c.text \o b.text
             d == ProcessBlock(c, b)
  <2>1. d = [c EXCEPT !.text = t]
    BY <1>1 DEF ProcessBlock
  <2>2. d = [text |-> t, part |-> c.part, had_image |-> c.had_image, images |-> c.images,
             results |-> c.results, seen |-> c.seen, dedup |-> c.dedup]
    <3> HIDE DEF d, t
    <3> QED
      BY <2>1 DEF IsContent
  <2> HIDE DEF d, t
  <2>3. IsContent(d) /\ d.dedup = c.dedup /\ d.seen = c.seen /\ d.images = c.images
    BY <2>2 DEF IsContent
  <2>4. BlockData(b) = {}
    BY <1>1 DEF BlockData
  <2> QED
    BY <2>3, <2>4, CollectsNothing DEF d
<1>2. CASE b.k = "image"
  <2>1. ProcessBlock(c, b) = ExtractImage(c, b.img, "text") /\ BlockData(b) = Sendable(b.img)
    BY <1>2 DEF ProcessBlock, BlockData
  <2> QED
    BY <2>1, ImageCollected
<1>3. CASE b.k = "tool_result"
  <2> DEFINE d == CloseResult(AllPart(Emptied(c), b.content), b)
  <2>1. ProcessBlock(c, b) = d
    <3>1. d = CloseResult(Accumulate(ResultPart, [c EXCEPT !.part = <<>>, !.had_image = FALSE],
                                     b.content), b)
      BY DEF AllPart, Emptied
    <3> HIDE DEF d
    <3>2. b.k # "text" /\ b.k # "image"
      BY <1>3
    <3> QED
      BY <1>3, <3>1, <3>2, Zenon DEF ProcessBlock
  <2>2. BlockData(b) = UNION {PartData(b.content[i]) : i \in DOMAIN b.content}
    BY <1>3 DEF BlockData
  <2>3. GoodParts(b.content)
    BY <1>3 DEF GoodBlock
  <2>4. Collects(c, d, UNION {PartData(b.content[i]) : i \in DOMAIN b.content})
    BY <2>3, ResultCollected
  <2> QED
    BY <2>1, <2>2, <2>4
<1>4. CASE b.k \notin {"text", "image", "tool_result"}
  <2>1. ProcessBlock(c, b) = c /\ BlockData(b) = {}
    BY <1>4 DEF ProcessBlock, BlockData
  <2> QED
    BY <2>1, CollectsNothing
<1> QED
  BY <1>1, <1>2, <1>3, <1>4

LEMMA ContentCollected ==
    ASSUME NEW blocks, GoodContent(blocks, "user"), NEW seen, NEW dedup \in BOOLEAN
    PROVE  Collects(Content0(seen, dedup), ProcessMessageContent(blocks, seen, dedup),
                    ContentData(blocks))
<1> DEFINE c == Content0(seen, dedup)
<1>1. IsSeq(blocks) /\ Len(blocks) \in Nat /\ DOMAIN blocks = 1 .. Len(blocks)
  BY SeqIs DEF GoodContent
<1>2. PICK f : /\ f[0] = c
               /\ \A i \in 1 .. Len(blocks) : f[i] = ProcessBlock(f[i - 1], blocks[i])
               /\ ProcessMessageContent(blocks, seen, dedup) = f[Len(blocks)]
  <2> HIDE DEF c
  <2>1. ProcessMessageContent(blocks, seen, dedup) = AllBlock(c, blocks)
    BY DEF ProcessMessageContent, AllBlock, c
  <2> QED
    BY <1>1, <2>1, BlockLoop
<1>3. IsContent(c) /\ c.dedup \in BOOLEAN
  BY EmptyIs, Zenon DEF IsContent, Content0
<1> DEFINE upto(k) == UNION {BlockData(blocks[i]) : i \in 1 .. k}
           G == {k \in 0 .. Len(blocks) : Collects(c, f[k], upto(k))}
<1> HIDE DEF c
<1>4. 0 \in G
  <2>1. upto(0) = {}
    OBVIOUS
  <2>2. Collects(c, c, {})
    BY <1>3, CollectsNothing
  <2> HIDE DEF upto
  <2>3. Collects(c, f[0], upto(0))
    BY <1>2, <2>1, <2>2
  <2> QED
    BY <1>1, <2>3
<1>5. ASSUME NEW k \in 1 .. Len(blocks), k - 1 \in G PROVE k \in G
  <2>1. upto(k) = upto(k - 1) \cup BlockData(blocks[k])
    <3>1. 1 .. k = (1 .. k - 1) \cup {k}
      BY <1>1
    <3> QED
      BY <3>1
  <2>2. GoodBlock(blocks[k], "user")
    BY <1>1 DEF GoodContent, In
  <2>3. Collects(c, f[k - 1], upto(k - 1)) /\ f[k] = ProcessBlock(f[k - 1], blocks[k])
    BY <1>2, <1>5
  <2> HIDE DEF upto
  <2>4. IsContent(f[k - 1]) /\ f[k - 1].dedup = c.dedup
    BY <2>3 DEF Collects
  <2>5. Collects(f[k - 1], f[k], BlockData(blocks[k]))
    BY <1>3, <2>2, <2>3, <2>4, BlockCollected
  <2>6. Collects(c, f[k], upto(k))
    BY <1>3, <2>1, <2>3, <2>5, CollectsOn
  <2> QED
    BY <1>1, <2>6
<1>6. Collects(c, f[Len(blocks)], upto(Len(blocks)))
  <2>1. \A k \in 0 .. Len(blocks) : k \in G
    <3> HIDE DEF G
    <3> QED
      BY <1>1, <1>4, <1>5, UpTo
  <2> HIDE DEF upto
  <2> QED
    BY <1>1, <2>1
<1> QED
  BY <1>1, <1>2, <1>6 DEF c, ContentData

-------------------------------------------------------------------------------
(* The runs of a conversation: the messages, role by role.                     *)
GoodMessage(m) == m.role \in {"user", "assistant"} /\ GoodContent(m.content, m.role)

GoodMessages(ms) == IsSeq(ms) /\ \A m : In(m, ms) => GoodMessage(m)

IsRun(run) ==
    /\ IsSeq(run) /\ run # <<>>
    /\ \A m : In(m, run) => GoodMessage(m) /\ m.role = run[1].role

Alternate(runs) ==
    \A i \in DOMAIN runs : i - 1 \in DOMAIN runs => runs[i][1].role # runs[i - 1][1].role

AreRuns(runs) == IsSeq(runs) /\ (\A run : In(run, runs) => IsRun(run)) /\ Alternate(runs)

(* m is of one of the runs.                                                    *)
OfRuns(m, runs) == \E run : In(run, runs) /\ In(m, run)

LEMMA RunsGrow ==
    ASSUME NEW runs, AreRuns(runs), NEW m, GoodMessage(m)
    PROVE  LET more == AddToRuns(runs, m)
           IN  /\ AreRuns(more) /\ more # <<>>
               /\ more[1][1].role = IF runs = <<>> THEN m.role ELSE runs[1][1].role
               /\ \A x : OfRuns(x, more) <=> OfRuns(x, runs) \/ x = m
<1> DEFINE n == Len(runs)
           more == AddToRuns(runs, m)
<1>1. IsSeq(runs) /\ n \in Nat /\ DOMAIN runs = 1 .. n
  BY SeqIs DEF AreRuns
<1>2. CASE runs # <<>> /\ Last(runs)[1].role = m.role
  <2> DEFINE longer == Append(runs[n], m)
  <2>1. n \in Nat \ {0} /\ Last(runs) = runs[n] /\ n \in DOMAIN runs
    BY <1>1, <1>2, EmptyOrNot
  <2>2. more = [runs EXCEPT ![n] = longer]
    <3>1. m.role \in {"user", "assistant"}
      BY DEF GoodMessage
    <3> QED
      BY <1>2, <2>1, <3>1 DEF AddToRuns
  <2>3. IsRun(runs[n]) /\ In(runs[n], runs)
    BY <2>1 DEF AreRuns, In
  <2>4. /\ IsSeq(longer) /\ longer # <<>> /\ longer[1] = runs[n][1]
        /\ \A y : In(y, longer) <=> In(y, runs[n]) \/ y = m
    <3>1. IsSeq(runs[n]) /\ 1 \in DOMAIN runs[n]
      BY <2>3, EmptyOrNot, SeqIs DEF IsRun
    <3>2. /\ IsSeq(longer) /\ longer # <<>>
          /\ \A i \in DOMAIN runs[n] : longer[i] = runs[n][i]
          /\ \A y : In(y, longer) <=> In(y, runs[n]) \/ y = m
      BY <3>1, AppendIs
    <3> HIDE DEF longer
    <3> QED
      BY <3>1, <3>2
  <2> HIDE DEF longer, more
  <2>5. /\ more = [i \in DOMAIN runs |-> more[i]]
        /\ more[n] = longer /\ \A i \in DOMAIN runs : i # n => more[i] = runs[i]
    BY <2>1, <2>2
  <2>6. IsSeq(more) /\ DOMAIN more = DOMAIN runs
    BY <1>1, <2>5, MapIs
  <2>7. IsRun(longer)
    <3>1. m.role = runs[n][1].role
      BY <1>2, <2>1
    <3> QED
      BY <2>3, <2>4, <3>1 DEF IsRun
  <2>8. \A i \in DOMAIN runs : more[i][1] = runs[i][1] /\ IsRun(more[i])
    BY <2>3, <2>4, <2>5, <2>7 DEF AreRuns, In
  <2>9. AreRuns(more)
    <3>1. Alternate(more)
      BY <2>6, <2>8 DEF AreRuns, Alternate
    <3>2. \A run : In(run, more) => IsRun(run)
      BY <2>6, <2>8 DEF In
    <3> QED
      BY <2>6, <3>1, <3>2 DEF AreRuns
  <2>10. ASSUME NEW x PROVE OfRuns(x, more) <=> OfRuns(x, runs) \/ x = m
    <3>1. ASSUME OfRuns(x, more) PROVE OfRuns(x, runs) \/ x = m
      <4>1. PICK i \in DOMAIN runs : In(x, more[i])
        BY <2>6, <3>1 DEF OfRuns, In
      <4>2. CASE i = n
        BY <2>3, <2>4, <2>5, <4>1, <4>2 DEF OfRuns
      <4>3. CASE i # n
        BY <2>5, <4>1, <4>3 DEF OfRuns, In
      <4> QED
        BY <4>2, <4>3
    <3>2. ASSUME OfRuns(x, runs) PROVE OfRuns(x, more)
      <4>1. PICK i \in DOMAIN runs : In(x, runs[i])
        BY <3>2 DEF OfRuns, In
      <4>2. In(x, more[i])
        BY <2>4, <2>5, <4>1
      <4> QED
        BY <2>6, <4>2 DEF OfRuns, In
    <3>3. OfRuns(m, more)
      <4>1. In(m, more[n]) /\ In(more[n], more)
        BY <2>1, <2>4, <2>5, <2>6 DEF In
      <4> QED
        BY <4>1 DEF OfRuns
    <3> QED
      BY <3>1, <3>2, <3>3
  <2>11. 1 \in DOMAIN runs /\ more # <<>>
    <3>1. 1 \in DOMAIN more
      BY <1>1, <2>1, <2>6
    <3> QED
      BY <2>6, <3>1, EmptyIs
  <2> QED
    BY <1>2, <2>8, <2>9, <2>10, <2>11 DEF more
<1>3. CASE ~(runs # <<>> /\ Last(runs)[1].role = m.role)
  <2> DEFINE one == <<m>>
  <2>1. more = Append(runs, one)
    <3>1. m.role \in {"user", "assistant"}
      BY DEF GoodMessage
    <3> QED
      BY <1>3, <3>1, Zenon DEF AddToRuns
  <2>2. IsSeq(one) /\ one # <<>> /\ one[1] = m /\ \A y : In(y, one) <=> y = m
    BY OneIs, EmptyIs DEF In
  <2> HIDE DEF one, more
  <2>3. IsRun(one)
    BY <2>2 DEF IsRun
  <2>4. /\ IsSeq(more) /\ Len(more) = n + 1 /\ more # <<>> /\ more[n + 1] = one
        /\ \A i \in DOMAIN runs : more[i] = runs[i]
        /\ \A y : In(y, more) <=> In(y, runs) \/ y = one
    BY <1>1, <2>1, AppendIs
  <2>5. DOMAIN more = 1 .. n + 1
    BY <2>4, SeqIs
  <2>6. Alternate(more)
    <3>1. ASSUME NEW i \in DOMAIN more, i - 1 \in DOMAIN more
          PROVE  more[i][1].role # more[i - 1][1].role
      <4>1. CASE i = n + 1
        <5>1. n \in DOMAIN runs /\ runs # <<>> /\ i - 1 = n
          BY <1>1, <2>5, <3>1, <4>1, EmptyOrNot
        <5>2. Last(runs) = runs[n] /\ Last(runs)[1].role # m.role
          BY <1>1, <1>3, <5>1, EmptyOrNot
        <5> QED
          BY <2>2, <2>4, <4>1, <5>1, <5>2
      <4>2. CASE i # n + 1
        <5>1. i \in DOMAIN runs /\ i - 1 \in DOMAIN runs
          BY <1>1, <2>5, <3>1, <4>2
        <5> QED
          BY <2>4, <5>1 DEF AreRuns, Alternate
      <4> QED
        BY <4>1, <4>2
    <3> QED
      BY <3>1 DEF Alternate
  <2>7. AreRuns(more)
    BY <2>3, <2>4, <2>6 DEF AreRuns
  <2>8. ASSUME NEW x PROVE OfRuns(x, more) <=> OfRuns(x, runs) \/ x = m
    BY <2>2, <2>4 DEF OfRuns
  <2>9. more[1][1].role = IF runs = <<>> THEN m.role ELSE runs[1][1].role
    <3>1. CASE runs = <<>>
      <4>1. n = 0
        BY <1>1, <3>1, EmptyOrNot
      <4> QED
        BY <2>2, <2>4, <3>1, <4>1
    <3>2. CASE runs # <<>>
      <4>1. 1 \in DOMAIN runs
        BY <1>1, <3>2, EmptyOrNot
      <4> QED
        BY <2>4, <3>2, <4>1
    <3> QED
      BY <3>1, <3>2
  <2> QED
    BY <2>4, <2>7, <2>8, <2>9 DEF more
<1> QED
  BY <1>2, <1>3

LEMMA RunsAre ==
    ASSUME NEW ms, GoodMessages(ms)
    PROVE  LET runs == AllRuns(<<>>, ms)
           IN  /\ AreRuns(runs)
               /\ ms # <<>> => runs # <<>> /\ runs[1][1].role = ms[1].role
               /\ ms = <<>> => runs = <<>>
               /\ \A x : OfRuns(x, runs) <=> In(x, ms)
<1>1. IsSeq(ms) /\ Len(ms) \in Nat /\ DOMAIN ms = 1 .. Len(ms)
  BY SeqIs DEF GoodMessages
<1>2. PICK f : /\ f[0] = <<>>
               /\ \A i \in 1 .. Len(ms) : f[i] = AddToRuns(f[i - 1], ms[i])
               /\ AllRuns(<<>>, ms) = f[Len(ms)]
  <2> DEFINE none == <<>>
  <2> HIDE DEF none
  <2>1. IsSeq(ms)
    BY <1>1
  <2>2. \E f : /\ f[0] = none
               /\ \A i \in 1 .. Len(ms) : f[i] = AddToRuns(f[i - 1], ms[i])
               /\ AllRuns(none, ms) = f[Len(ms)]
    BY <2>1, RunsLoop, ZenonT(30)
  <2> QED
    BY <2>2 DEF none
<1> DEFINE Upto(k) == /\ AreRuns(f[k])
                      /\ k # 0 => f[k] # <<>> /\ f[k][1][1].role = ms[1].role
                      /\ \A x : OfRuns(x, f[k]) <=> \E i \in 1 .. k : ms[i] = x
           G == {k \in 0 .. Len(ms) : Upto(k)}
<1>3. 0 \in G
  <2>1. AreRuns(<<>>) /\ \A x : ~OfRuns(x, <<>>)
    BY EmptyIs DEF AreRuns, Alternate, In, OfRuns
  <2>2. Upto(0)
    BY <1>2, <2>1
  <2> QED
    BY <1>1, <2>2
<1>4. ASSUME NEW k \in 1 .. Len(ms), k - 1 \in G PROVE k \in G
  <2>1. Upto(k - 1) /\ f[k] = AddToRuns(f[k - 1], ms[k])
    BY <1>2, <1>4
  <2>2. GoodMessage(ms[k])
    BY <1>1 DEF GoodMessages, In
  <2>3. /\ AreRuns(f[k]) /\ f[k] # <<>>
        /\ f[k][1][1].role = IF f[k - 1] = <<>> THEN ms[k].role ELSE f[k - 1][1][1].role
        /\ \A x : OfRuns(x, f[k]) <=> OfRuns(x, f[k - 1]) \/ x = ms[k]
    BY <2>1, <2>2, RunsGrow
  <2>4. f[k][1][1].role = ms[1].role
    <3>1. CASE k = 1
      BY <1>2, <2>3, <3>1
    <3>2. CASE k # 1
      BY <2>1, <2>3, <3>2
    <3> QED
      BY <3>1, <3>2
  <2>5. ASSUME NEW x PROVE OfRuns(x, f[k]) <=> \E i \in 1 .. k : ms[i] = x
    <3>1. OfRuns(x, f[k - 1]) <=> \E i \in 1 .. k - 1 : ms[i] = x
      BY <2>1
    <3> QED
      BY <1>1, <2>3, <3>1
  <2> QED
    BY <1>1, <2>3, <2>4, <2>5
<1>5. Upto(Len(ms))
  <2>1. \A k \in 0 .. Len(ms) : k \in G
    <3> HIDE DEF G
    <3> QED
      BY <1>1, <1>3, <1>4, UpTo
  <2> QED
    BY <1>1, <2>1
<1>6. ms = <<>> => AllRuns(<<>>, ms) = <<>>
  BY <1>2, EmptyIs
<1>7. ms # <<>> => Len(ms) # 0
  BY <1>1, EmptyOrNot
<1>8. \A x : In(x, ms) <=> \E i \in 1 .. Len(ms) : ms[i] = x
  BY <1>1 DEF In
<1> QED
  BY <1>2, <1>5, <1>6, <1>7, <1>8

-------------------------------------------------------------------------------
(* The history: an entry for each run.                                         *)
LEMMA DataIs ==
    ASSUME NEW blocks
    PROVE  \A y : y \in ContentData(blocks) <=> \E b : In(b, blocks) /\ y \in BlockData(b)
BY DEF ContentData, In

(* What the entry of a run is: its images are the data of the run, once each.  *)
OfRun(y, run) == \E m : In(m, run) /\ y \in ContentData(m.content)

SpeaksWhenCalling(e) == e.uses # <<>> => e.text # <<>>

EntryOf(e, run, seen) ==
    /\ IsEntry(e) /\ e.role = run[1].role /\ SpeaksWhenCalling(e)
    /\ Distinct(e.images)
    /\ \A y : In(y, e.images) <=> OfRun(y, run) /\ y \notin seen

LEMMA ContentsOfRun ==
    ASSUME NEW run, IsRun(run), run[1].role = "user"
    PROVE  LET blocks == FlattenSeq([i \in DOMAIN run |-> run[i].content])
           IN  /\ GoodContent(blocks, "user")
               /\ \A y : y \in ContentData(blocks) <=> OfRun(y, run)
<1> DEFINE parts == [i \in DOMAIN run |-> run[i].content]
<1>1. IsSeq(run) /\ \A i \in DOMAIN run : GoodContent(run[i].content, "user")
  BY DEF IsRun, GoodMessage, In
<1>2. /\ IsSeq(parts) /\ DOMAIN parts = DOMAIN run /\ AllSeqs(parts)
      /\ \A i \in DOMAIN run : parts[i] = run[i].content
  <2>1. IsSeq(parts) /\ DOMAIN parts = DOMAIN run
    BY <1>1, MapIs
  <2> QED
    BY <1>1, <2>1 DEF AllSeqs, GoodContent
<1> HIDE DEF parts
<1> DEFINE blocks == FlattenSeq(parts)
<1>3. /\ IsSeq(blocks)
      /\ \A b : In(b, blocks) <=> \E i \in DOMAIN parts : In(b, parts[i])
  BY <1>2, FlatIs
<1> HIDE DEF blocks
<1>4. GoodContent(blocks, "user")
  BY <1>1, <1>2, <1>3 DEF GoodContent
<1>5. ASSUME NEW y PROVE y \in ContentData(blocks) <=> OfRun(y, run)
  <2>1. y \in ContentData(blocks) <=> \E b : In(b, blocks) /\ y \in BlockData(b)
    BY DataIs
  <2>2. OfRun(y, run) <=> \E i \in DOMAIN run : y \in ContentData(run[i].content)
    BY DEF OfRun, In
  <2>3. \A i \in DOMAIN run : y \in ContentData(run[i].content)
                                 <=> \E b : In(b, parts[i]) /\ y \in BlockData(b)
    BY <1>2, DataIs
  <2> QED
    BY <1>2, <1>3, <2>1, <2>2, <2>3
<1> QED
  BY <1>4, <1>5 DEF blocks, parts

LEMMA UserEntryIs ==
    ASSUME NEW run, IsRun(run), run[1].role = "user", NEW seen
    PROVE  LET c == ProcessMessageContent(FlattenSeq([i \in DOMAIN run |-> run[i].content]),
                                          seen, TRUE)
           IN  /\ EntryOf(UserEntry(c), run, seen)
               /\ \A y : y \in c.seen <=> y \in seen \/ OfRun(y, run)
<1> DEFINE blocks == FlattenSeq([i \in DOMAIN run |-> run[i].content])
           c0 == Content0(seen, TRUE)
           c == ProcessMessageContent(blocks, seen, TRUE)
<1>1. GoodContent(blocks, "user") /\ \A y : y \in ContentData(blocks) <=> OfRun(y, run)
  BY ContentsOfRun
<1> HIDE DEF blocks
<1>2. Collects(c0, c, ContentData(blocks))
  BY <1>1, ContentCollected
<1>3. c0.dedup /\ c0.images = <<>> /\ c0.seen = seen
  BY Zenon DEF Content0
<1>4. Distinct(c0.images) /\ \A y : ~In(y, c0.images)
  BY <1>3, EmptyIs DEF Distinct, In
<1> HIDE DEF c, c0
<1>5. /\ IsContent(c) /\ c.seen = seen \cup ContentData(blocks) /\ Distinct(c.images)
      /\ \A y : In(y, c.images) <=> y \in ContentData(blocks) \ seen
  BY <1>2, <1>3, <1>4 DEF Collects
<1> DEFINE e == UserEntry(c)
<1>6. e = [role |-> "user", text |-> c.text, images |-> c.images, results |-> c.results,
           uses |-> <<>>]
  BY DEF UserEntry
<1> HIDE DEF e
<1>7. IsEntry(e) /\ e.role = "user" /\ SpeaksWhenCalling(e) /\ e.images = c.images
  BY <1>5, <1>6, EmptyIs DEF IsEntry, IsContent, SpeaksWhenCalling
<1> QED
  BY <1>1, <1>5, <1>7 DEF EntryOf, e, c, blocks

LEMMA AssistantEntryIs ==
    ASSUME NEW text, NEW uses, IsSeq(uses)
    PROVE  LET e == AssistantEntry(text, uses)
           IN  /\ IsEntry(e) /\ SpeaksWhenCalling(e) /\ e.role = "assistant"
               /\ e.images = <<>> /\ e.uses = uses
<1> DEFINE e == AssistantEntry(text, uses)
           t == IF text = <<>> /\ uses # <<>> THEN Blank ELSE text
<1>1. e = [role |-> "assistant", text |-> t, images |-> <<>>, results |-> <<>>, uses |-> uses]
  BY DEF AssistantEntry
<1>2. uses # <<>> => t # <<>>
  <2>1. Blank # <<>>
    BY OneIs, EmptyIs DEF Blank
  <2> QED
    BY <2>1
<1> HIDE DEF e, t
<1> QED
  BY <1>1, <1>2, EmptyIs DEF IsEntry, SpeaksWhenCalling, e

LEMMA MergedEntryIs ==
    ASSUME NEW run, IsRun(run), run[1].role = "assistant", NEW mode, NEW seen
    PROVE  /\ EntryOf(MergeAssistantMessages(run, mode), run, seen)
           /\ \A y : ~OfRun(y, run)
<1> DEFINE used(i) == ConvertAssistantMessage(run[i], mode).uses
           parts == [i \in DOMAIN run |-> used(i)]
           text == FlattenSeq([i \in DOMAIN run |-> ConvertAssistantMessage(run[i], mode).text])
<1>1. IsSeq(run) /\ \A m : In(m, run) => m.role = "assistant" /\ GoodContent(m.content, "assistant")
  BY DEF IsRun, GoodMessage
<1>2. ASSUME NEW i \in DOMAIN run PROVE IsSeq(used(i))
  <2> DEFINE made == OfKind(run[i].content, "tool_use")
             u == [j \in DOMAIN made |->
                     [id |-> made[j].id, name |-> KiroName(made[j].name, mode),
                      input |-> MapToolInputToKiro(made[j].name, made[j].input, mode)]]
  <2>1. used(i) = u
    BY DEF ConvertAssistantMessage
  <2>2. IsSeq(made)
    BY <1>1, KindsAre DEF GoodContent, In
  <2>3. u = [j \in DOMAIN made |-> u[j]]
    OBVIOUS
  <2>4. IsSeq(u)
    <3> HIDE DEF made, u
    <3> QED
      BY <2>2, <2>3, MapIs
  <2> QED
    BY <2>1, <2>4
<1> HIDE DEF used
<1>3. IsSeq(parts) /\ AllSeqs(parts)
  BY <1>1, <1>2, MapIs DEF AllSeqs
<1>4. IsSeq(FlattenSeq(parts))
  <2> HIDE DEF parts
  <2> QED
    BY <1>3, FlatIs
<1>5. MergeAssistantMessages(run, mode) = AssistantEntry(text, FlattenSeq(parts))
  BY DEF MergeAssistantMessages, used
<1> HIDE DEF parts, text
<1> DEFINE e == AssistantEntry(text, FlattenSeq(parts))
<1>6. /\ IsEntry(e) /\ SpeaksWhenCalling(e) /\ e.role = "assistant" /\ e.images = <<>>
  BY <1>4, AssistantEntryIs
<1>7. ASSUME NEW y PROVE ~OfRun(y, run)
  <2>1. ASSUME NEW m, In(m, run), y \in ContentData(m.content) PROVE FALSE
    <3>1. PICK b : In(b, m.content) /\ y \in BlockData(b)
      BY <2>1, DataIs
    <3>2. GoodBlock(b, "assistant")
      BY <1>1, <2>1, <3>1 DEF GoodContent
    <3>3. b.k # "image" /\ b.k # "tool_result"
      BY <3>2 DEF GoodBlock
    <3> QED
      BY <3>1, <3>3 DEF BlockData
  <2> QED
    BY <2>1 DEF OfRun
<1>8. Distinct(e.images) /\ \A y : ~In(y, e.images)
  BY <1>6, EmptyIs DEF Distinct, In
<1> HIDE DEF e
<1> QED
  BY <1>5, <1>6, <1>7, <1>8 DEF EntryOf, e

(* The history after the first k runs.                                         *)
ImagesApart(h) ==
    /\ \A i \in DOMAIN h : Distinct(h[i].images)
    /\ \A i, j \in DOMAIN h : \A y : In(y, h[i].images) /\ In(y, h[j].images) => i = j

Tells(h, runs, k) ==
    /\ h = [entries |-> h.entries, seen |-> h.seen]
    /\ Entries(h.entries) /\ Len(h.entries) = k + 2
    /\ h.entries[1].role = "user" /\ h.entries[2].role = "assistant"
    /\ \A i \in 1 .. k : h.entries[i + 2].role = runs[i][1].role
    /\ \A i \in DOMAIN h.entries : SpeaksWhenCalling(h.entries[i])
    /\ ImagesApart(h.entries)
    /\ \A y : y \in h.seen <=> \E i \in DOMAIN h.entries : In(y, h.entries[i].images)
    /\ \A y : y \in h.seen <=> \E i \in 1 .. k : OfRun(y, runs[i])

LEMMA EntryAdded ==
    ASSUME NEW runs, NEW k \in Nat \ {0}, NEW h, Tells(h, runs, k - 1),
           NEW e, EntryOf(e, runs[k], h.seen),
           NEW g, g = [entries |-> Append(h.entries, e), seen |-> g.seen],
           \A y : y \in g.seen <=> y \in h.seen \/ OfRun(y, runs[k])
    PROVE  Tells(g, runs, k)
<1> DEFINE old == h.entries
           new == Append(old, e)
<1>1. Entries(old) /\ IsSeq(old) /\ Len(old) = k + 1 /\ DOMAIN old = 1 .. k + 1
  <2>1. IsSeq(old) /\ Len(old) = k + 1
    BY DEF Tells, Entries
  <2> QED
    BY <2>1, SeqIs DEF Tells
<1>2. /\ IsSeq(new) /\ Len(new) = k + 2 /\ new[k + 2] = e
      /\ \A i \in DOMAIN old : new[i] = old[i]
  BY <1>1, AppendIs
<1>3. DOMAIN new = 1 .. k + 2 /\ \A i \in DOMAIN new : i \in DOMAIN old \/ i = k + 2
  BY <1>1, <1>2, SeqIs
<1>4. g.entries = new /\ g = [entries |-> g.entries, seen |-> g.seen]
  OBVIOUS
<1> HIDE DEF new
<1>5. /\ IsEntry(e) /\ e.role = runs[k][1].role /\ SpeaksWhenCalling(e) /\ Distinct(e.images)
      /\ \A y : In(y, e.images) <=> OfRun(y, runs[k]) /\ y \notin h.seen
  BY DEF EntryOf
<1>6. Entries(new)
  BY <1>1, <1>2, <1>3, <1>5 DEF Entries
<1>7. new[1].role = "user" /\ new[2].role = "assistant"
  <2>1. 1 \in DOMAIN old /\ 2 \in DOMAIN old
    BY <1>1
  <2>2. old[1].role = "user" /\ old[2].role = "assistant"
    BY DEF Tells
  <2> HIDE DEF old
  <2> QED
    BY <1>2, <2>1, <2>2
<1>8. ASSUME NEW i \in 1 .. k PROVE new[i + 2].role = runs[i][1].role
  <2>1. CASE i = k
    BY <1>2, <1>5, <2>1
  <2>2. CASE i # k
    <3>1. i \in 1 .. k - 1 /\ i + 2 \in DOMAIN old
      BY <1>1, <2>2
    <3> QED
      BY <1>2, <3>1 DEF Tells
  <2> QED
    BY <2>1, <2>2
<1>9. \A i \in DOMAIN new : SpeaksWhenCalling(new[i])
  BY <1>2, <1>3, <1>5 DEF Tells
<1>10. /\ \A y : y \in h.seen <=> \E i \in DOMAIN old : In(y, old[i].images)
       /\ ImagesApart(old)
       /\ \A y : y \in h.seen <=> \E i \in 1 .. k - 1 : OfRun(y, runs[i])
  BY DEF Tells
<1>11. ImagesApart(new)
  <2>1. \A i \in DOMAIN new : Distinct(new[i].images)
    BY <1>2, <1>3, <1>5, <1>10 DEF ImagesApart
  <2>2. ASSUME NEW i \in DOMAIN new, NEW j \in DOMAIN new, NEW y,
               In(y, new[i].images), In(y, new[j].images)
        PROVE  i = j
    <3>1. CASE i \in DOMAIN old /\ j \in DOMAIN old
      BY <1>2, <1>10, <2>2, <3>1 DEF ImagesApart
    <3>2. CASE i = k + 2 /\ j \in DOMAIN old
      BY <1>2, <1>5, <1>10, <2>2, <3>2
    <3>3. CASE j = k + 2 /\ i \in DOMAIN old
      BY <1>2, <1>5, <1>10, <2>2, <3>3
    <3> QED
      BY <1>3, <3>1, <3>2, <3>3
  <2> QED
    BY <2>1, <2>2 DEF ImagesApart
<1>12. ASSUME NEW y PROVE y \in g.seen <=> \E i \in DOMAIN new : In(y, new[i].images)
  <2>1. ASSUME y \in g.seen PROVE \E i \in DOMAIN new : In(y, new[i].images)
    <3>1. CASE y \in h.seen
      <4>1. PICK i \in DOMAIN old : In(y, old[i].images)
        BY <1>10, <3>1
      <4> QED
        BY <1>1, <1>2, <1>3, <4>1
    <3>2. CASE y \notin h.seen
      <4>1. In(y, new[k + 2].images)
        BY <1>2, <1>5, <2>1, <3>2
      <4> QED
        BY <1>3, <4>1
    <3> QED
      BY <3>1, <3>2
  <2>2. ASSUME NEW i \in DOMAIN new, In(y, new[i].images) PROVE y \in g.seen
    BY <1>2, <1>3, <1>5, <1>10, <2>2
  <2> QED
    BY <2>1, <2>2
<1>13. ASSUME NEW y PROVE y \in g.seen <=> \E i \in 1 .. k : OfRun(y, runs[i])
  <2>1. (\E i \in 1 .. k : OfRun(y, runs[i]))
           <=> (\E i \in 1 .. k - 1 : OfRun(y, runs[i])) \/ OfRun(y, runs[k])
    OBVIOUS
  <2> QED
    BY <1>10, <2>1
<1> QED
  BY <1>2, <1>4, <1>6, <1>7, <1>8, <1>9, <1>11, <1>12, <1>13 DEF Tells

LEMMA RunAdded ==
    ASSUME NEW runs, AreRuns(runs), NEW mode, NEW k \in DOMAIN runs, NEW h,
           Tells(h, runs, k - 1)
    PROVE  Tells(AddRun(h, runs[k], mode), runs, k)
<1> DEFINE run == runs[k]
           g == AddRun(h, run, mode)
<1>1. IsRun(run) /\ k \in Nat \ {0}
  <2>1. IsSeq(runs) /\ IsRun(run)
    BY DEF AreRuns, In
  <2> QED
    BY <2>1, SeqIs
<1>2. run[1].role \in {"user", "assistant"}
  <2>1. 1 \in DOMAIN run
    BY <1>1, SeqIs, EmptyOrNot DEF IsRun
  <2> QED
    BY <1>1, <2>1 DEF IsRun, GoodMessage, In
<1>3. CASE run[1].role = "user"
  <2> DEFINE c == ProcessMessageContent(FlattenSeq([i \in DOMAIN run |-> run[i].content]),
                                        h.seen, TRUE)
             e == UserEntry(c)
  <2>1. EntryOf(e, run, h.seen) /\ \A y : y \in c.seen <=> y \in h.seen \/ OfRun(y, run)
    BY <1>1, <1>3, UserEntryIs
  <2>2. g = [entries |-> Append(h.entries, e), seen |-> c.seen]
    BY <1>3 DEF AddRun
  <2> HIDE DEF c, e, g
  <2>3. g.seen = c.seen
    BY <2>2
  <2>4. g = [entries |-> Append(h.entries, e), seen |-> g.seen]
    BY <2>2, <2>3
  <2>5. Tells(g, runs, k)
    BY <1>1, <2>1, <2>3, <2>4, EntryAdded
  <2> QED
    BY <2>5 DEF g
<1>4. CASE run[1].role = "assistant"
  <2> DEFINE e == MergeAssistantMessages(run, mode)
             a == Append(h.entries, e)
  <2>1. EntryOf(e, run, h.seen) /\ \A y : ~OfRun(y, run)
    BY <1>1, <1>4, MergedEntryIs
  <2>2. g = [h EXCEPT !.entries = a]
    BY <1>4 DEF AddRun
  <2> HIDE DEF a, e, g, run
  <2>3. g = [entries |-> a, seen |-> h.seen]
    BY <2>2 DEF Tells
  <2>4. g.seen = h.seen /\ g = [entries |-> a, seen |-> g.seen]
    BY <2>3
  <2>5. Tells(g, runs, k)
    BY <1>1, <2>1, <2>4, EntryAdded DEF a, run
  <2> QED
    BY <2>5 DEF g, run
<1> QED
  BY <1>2, <1>3, <1>4

(* The whole history: a user entry and an assistant's in turn, if the client's *)
(* conversation begins with a user, and an assistant's at the end.             *)
InTurn(h) == \A i \in DOMAIN h : h[i].role = IF i % 2 = 1 THEN "user" ELSE "assistant"

(* The images of messages ms.                                                  *)
OfMessages(y, ms) == \E m : In(m, ms) /\ y \in ContentData(m.content)

IsHistory(h, ms) ==
    /\ Entries(h) /\ h # <<>> /\ Last(h).role = "assistant"
    /\ ms # <<>> /\ ms[1].role = "user" => InTurn(h)
    /\ ms = <<>> => InTurn(h)
    /\ \A i \in DOMAIN h : SpeaksWhenCalling(h[i])
    /\ ImagesApart(h)
    /\ \A y : (\E i \in DOMAIN h : In(y, h[i].images)) <=> OfMessages(y, ms)

LEMMA SystemPairTells ==
    ASSUME NEW runs
    PROVE  Tells([entries |-> SystemPair, seen |-> {}], runs, 0)
<1> DEFINE h == [entries |-> SystemPair, seen |-> {}]
<1>1. /\ IsSeq(SystemPair) /\ Len(SystemPair) = 2 /\ DOMAIN SystemPair = {1, 2}
      /\ IsEntry(SystemPair[1]) /\ IsEntry(SystemPair[2])
      /\ SystemPair[1].role = "user" /\ SystemPair[2].role = "assistant"
      /\ SystemPair[1].uses = <<>> /\ SystemPair[2].uses = <<>>
      /\ SystemPair[1].images = <<>> /\ SystemPair[2].images = <<>>
  <2> DEFINE none == <<>>
             told == <<"[system]">>
             vow == <<"[identity ack]">>
             e1 == [role |-> "user", text |-> told, images |-> none, results |-> none,
                    uses |-> none]
             e2 == [role |-> "assistant", text |-> vow, images |-> none, results |-> none,
                    uses |-> none]
  <2>1. SystemPair = <<e1, e2>>
    BY DEF SystemPair
  <2>2. IsSeq(none)
    BY EmptyIs
  <2> HIDE DEF none, told, vow
  <2>3. IsEntry(e1) /\ IsEntry(e2)
    BY <2>2 DEF IsEntry
  <2>4. /\ e1.role = "user" /\ e2.role = "assistant" /\ e1.uses = none /\ e2.uses = none
        /\ e1.images = none /\ e2.images = none
    OBVIOUS
  <2> HIDE DEF e1, e2
  <2>5. /\ IsSeq(SystemPair) /\ Len(SystemPair) = 2 /\ DOMAIN SystemPair = {1, 2}
        /\ SystemPair[1] = e1 /\ SystemPair[2] = e2
    BY <2>1 DEF IsSeq
  <2> QED
    BY <2>3, <2>4, <2>5 DEF none
<1>2. \A i \in DOMAIN SystemPair : \A y : ~In(y, SystemPair[i].images)
  BY <1>1, EmptyIs DEF In
<1>3. \A i \in DOMAIN SystemPair : /\ SpeaksWhenCalling(SystemPair[i])
                                   /\ Distinct(SystemPair[i].images)
                                   /\ IsEntry(SystemPair[i])
  BY <1>1, EmptyIs DEF SpeaksWhenCalling, Distinct
<1>4. ImagesApart(SystemPair)
  BY <1>2, <1>3 DEF ImagesApart
<1>5. Entries(SystemPair)
  BY <1>1, <1>3 DEF Entries
<1>6. h.entries = SystemPair /\ h.seen = {} /\ h = [entries |-> h.entries, seen |-> h.seen]
  OBVIOUS
<1> HIDE DEF h
<1> QED
  BY <1>1, <1>2, <1>3, <1>4, <1>5, <1>6 DEF Tells, h

LEMMA RunsTold ==
    ASSUME NEW runs, AreRuns(runs), NEW mode
    PROVE  Tells(AllRun([entries |-> SystemPair, seen |-> {}], runs, mode), runs, Len(runs))
<1> DEFINE base == [entries |-> SystemPair, seen |-> {}]
<1>1. Tells(base, runs, 0)
  BY SystemPairTells
<1> HIDE DEF base
<1>2. Len(runs) \in Nat /\ DOMAIN runs = 1 .. Len(runs) /\ IsSeq(runs)
  BY SeqIs DEF AreRuns
<1>3. PICK f : /\ f[0] = base
               /\ \A i \in 1 .. Len(runs) : f[i] = AddRun(f[i - 1], runs[i], mode)
               /\ AllRun(base, runs, mode) = f[Len(runs)]
  <2>1. IsSeq(runs)
    BY <1>2
  <2> QED
    BY <2>1, RunLoop
<1> DEFINE G == {k \in 0 .. Len(runs) : Tells(f[k], runs, k)}
<1>4. 0 \in G
  BY <1>1, <1>2, <1>3
<1>5. ASSUME NEW k \in 1 .. Len(runs), k - 1 \in G PROVE k \in G
  <2>1. Tells(f[k - 1], runs, k - 1) /\ f[k] = AddRun(f[k - 1], runs[k], mode)
    BY <1>3, <1>5
  <2>2. Tells(f[k], runs, k)
    BY <1>2, <2>1, RunAdded
  <2> QED
    BY <1>2, <2>2
<1>6. Tells(f[Len(runs)], runs, Len(runs))
  <2>1. \A k \in 0 .. Len(runs) : k \in G
    <3> HIDE DEF G
    <3> QED
      BY <1>2, <1>4, <1>5, UpTo
  <2> QED
    BY <1>2, <2>1
<1> QED
  BY <1>3, <1>6 DEF base

(* Runs that begin with a user's and alternate have the users' at odd places.  *)
LEMMA RunsInTurn ==
    ASSUME NEW runs, AreRuns(runs), runs # <<>> => runs[1][1].role = "user"
    PROVE  \A i \in DOMAIN runs :
              runs[i][1].role = IF i % 2 = 1 THEN "user" ELSE "assistant"
<1>1. Len(runs) \in Nat /\ DOMAIN runs = 1 .. Len(runs)
  BY SeqIs DEF AreRuns
<1> DEFINE role(i) == runs[i][1].role
           G == {k \in 0 .. Len(runs) :
                    k # 0 => role(k) = IF k % 2 = 1 THEN "user" ELSE "assistant"}
<1>2. ASSUME NEW i \in DOMAIN runs PROVE role(i) \in {"user", "assistant"}
  <2>1. IsRun(runs[i])
    BY DEF AreRuns, In
  <2>2. 1 \in DOMAIN runs[i]
    BY <2>1, SeqIs, EmptyOrNot DEF IsRun
  <2> QED
    BY <2>1, <2>2 DEF IsRun, GoodMessage, In
<1>3. \A i \in DOMAIN runs : i - 1 \in DOMAIN runs => role(i) # role(i - 1)
  BY DEF AreRuns, Alternate
<1>4. 1 \in DOMAIN runs => role(1) = "user"
  BY EmptyIs
<1> HIDE DEF role
<1>5. 0 \in G
  BY <1>1
<1>6. ASSUME NEW k \in 1 .. Len(runs), k - 1 \in G PROVE k \in G
  <2>1. CASE k = 1
    BY <1>1, <1>4, <2>1
  <2>2. CASE k # 1
    <3>1. role(k - 1) = IF (k - 1) % 2 = 1 THEN "user" ELSE "assistant"
      BY <1>6, <2>2
    <3>2. role(k) # role(k - 1) /\ role(k) \in {"user", "assistant"}
      <4>1. k \in DOMAIN runs /\ k - 1 \in DOMAIN runs
        BY <1>1, <2>2
      <4> HIDE DEF G
      <4> QED
        BY <1>2, <1>3, <4>1
    <3>3. (k - 1) % 2 = 1 <=> k % 2 # 1
      BY <1>1
    <3> QED
      BY <1>1, <3>1, <3>2, <3>3
  <2> QED
    BY <2>1, <2>2
<1>7. \A k \in 0 .. Len(runs) : k \in G
  <2> HIDE DEF G
  <2> QED
    BY <1>1, <1>5, <1>6, UpTo
<1>8. \A i \in DOMAIN runs : role(i) = IF i % 2 = 1 THEN "user" ELSE "assistant"
  BY <1>1, <1>7
<1> QED
  BY <1>8 DEF role

LEMMA HistoryBuilt ==
    ASSUME NEW messages, GoodMessages(messages), messages # <<>>, NEW mode
    PROVE  IsHistory(BuildHistory(messages, mode), Front(messages))
<1> DEFINE ms == Front(messages)
           runs == AllRuns(<<>>, ms)
           told == AllRun([entries |-> SystemPair, seen |-> {}], runs, mode)
           built == told.entries
           n == Len(runs)
<1>1. GoodMessages(ms)
  <2>1. /\ IsSeq(messages) /\ IsSeq(ms) /\ Len(ms) = Len(messages) - 1
        /\ \A i \in 1 .. Len(messages) - 1 : ms[i] = messages[i]
    BY FrontIs DEF GoodMessages
  <2>2. DOMAIN ms = 1 .. Len(messages) - 1 /\ DOMAIN messages = 1 .. Len(messages)
        /\ Len(messages) \in Nat
    BY <2>1, SeqIs
  <2> HIDE DEF ms
  <2>3. \A i \in DOMAIN ms : i \in DOMAIN messages /\ ms[i] = messages[i]
    BY <2>1, <2>2
  <2> QED
    BY <2>1, <2>3 DEF GoodMessages, In
<1>2. BuildHistory(messages, mode) = IF Last(built).role = "user" THEN Append(built, Ok) ELSE built
  BY Zenon DEF BuildHistory, AllRuns, AllRun
<1> HIDE DEF ms
<1>3. /\ AreRuns(runs)
      /\ ms # <<>> => runs # <<>> /\ runs[1][1].role = ms[1].role
      /\ ms = <<>> => runs = <<>>
      /\ \A x : OfRuns(x, runs) <=> In(x, ms)
  BY <1>1, RunsAre
<1> HIDE DEF runs
<1>4. Tells(told, runs, n)
  BY <1>3, RunsTold
<1>5. n \in Nat /\ DOMAIN runs = 1 .. n
  BY <1>3, SeqIs DEF AreRuns
<1> HIDE DEF told, n
<1>6. Entries(built) /\ IsSeq(built) /\ Len(built) = n + 2 /\ DOMAIN built = 1 .. n + 2
  <2>1. Entries(built) /\ Len(built) = n + 2
    BY <1>4 DEF Tells
  <2> QED
    BY <2>1, SeqIs DEF Entries
<1>7. /\ built[1].role = "user" /\ built[2].role = "assistant"
      /\ \A i \in 1 .. n : built[i + 2].role = runs[i][1].role
      /\ \A i \in DOMAIN built : SpeaksWhenCalling(built[i])
      /\ ImagesApart(built)
      /\ \A y : (\E i \in DOMAIN built : In(y, built[i].images))
                   <=> \E i \in 1 .. n : OfRun(y, runs[i])
  BY <1>4 DEF Tells
<1> HIDE DEF built
<1>8. ASSUME NEW y
      PROVE  (\E i \in DOMAIN built : In(y, built[i].images)) <=> OfMessages(y, ms)
  <2>1. (\E i \in 1 .. n : OfRun(y, runs[i])) <=> \E m : OfRuns(m, runs) /\ y \in ContentData(m.content)
    BY <1>5 DEF OfRun, OfRuns, In
  <2> QED
    BY <1>3, <1>7, <2>1 DEF OfMessages
<1>9. ASSUME ms = <<>> \/ ms[1].role = "user" PROVE InTurn(built)
  <2>1. runs # <<>> => runs[1][1].role = "user"
    BY <1>3, <1>9
  <2>2. \A i \in 1 .. n : runs[i][1].role = IF i % 2 = 1 THEN "user" ELSE "assistant"
    BY <1>3, <1>5, <2>1, RunsInTurn
  <2>3. ASSUME NEW i \in DOMAIN built
        PROVE  built[i].role = IF i % 2 = 1 THEN "user" ELSE "assistant"
    <3>1. CASE i = 1
      BY <1>7, <3>1
    <3>2. CASE i = 2
      BY <1>7, <3>2
    <3>3. CASE i # 1 /\ i # 2
      <4>1. i - 2 \in 1 .. n /\ (i - 2) + 2 = i /\ ((i - 2) % 2 = 1 <=> i % 2 = 1)
        BY <1>5, <1>6, <3>3
      <4>2. built[i].role = runs[i - 2][1].role
        BY <1>7, <4>1
      <4> QED
        BY <2>2, <4>1, <4>2
    <3> QED
      BY <3>1, <3>2, <3>3
  <2> QED
    BY <2>3 DEF InTurn
<1>10. n + 2 \in DOMAIN built /\ built # <<>> /\ Last(built) = built[n + 2]
  BY <1>5, <1>6, EmptyOrNot
<1>11. CASE Last(built).role = "user"
  <2> DEFINE h == Append(built, Ok)
  <2>1. /\ IsEntry(Ok) /\ SpeaksWhenCalling(Ok) /\ Ok.role = "assistant" /\ Ok.images = <<>>
    BY AssistantEntryIs, EmptyIs DEF Ok
  <2>2. /\ IsSeq(h) /\ Len(h) = n + 3 /\ h # <<>> /\ h[n + 3] = Ok
        /\ \A i \in DOMAIN built : h[i] = built[i]
    BY <1>5, <1>6, AppendIs
  <2>3. DOMAIN h = 1 .. n + 3 /\ \A i \in DOMAIN h : i \in DOMAIN built \/ i = n + 3
    BY <1>5, <1>6, <2>2, SeqIs
  <2> HIDE DEF h
  <2>4. Entries(h) /\ Last(h) = Ok
    BY <1>6, <2>1, <2>2, <2>3, EmptyOrNot DEF Entries
  <2>5. \A y : ~In(y, Ok.images)
    BY <2>1, EmptyIs DEF In
  <2>6. Distinct(Ok.images)
    BY <2>1, EmptyIs DEF Distinct
  <2>7. ImagesApart(h)
    BY <1>7, <2>2, <2>3, <2>5, <2>6 DEF ImagesApart
  <2>8. \A i \in DOMAIN h : SpeaksWhenCalling(h[i])
    BY <1>7, <2>1, <2>2, <2>3
  <2>9. ASSUME NEW y
        PROVE  (\E i \in DOMAIN h : In(y, h[i].images)) <=> \E i \in DOMAIN built : In(y, built[i].images)
    <3>1. \A i \in DOMAIN built : i \in DOMAIN h
      BY <1>5, <1>6, <2>3
    <3> QED
      BY <2>2, <2>3, <2>5, <3>1
  <2>10. InTurn(built) => InTurn(h)
    <3>1. ASSUME InTurn(built) PROVE InTurn(h)
      <4>1. (n + 2) % 2 = 1
        BY <1>10, <1>11, <3>1 DEF InTurn
      <4>2. (n + 3) % 2 # 1
        BY <1>5, <4>1
      <4> QED
        BY <2>1, <2>2, <2>3, <3>1, <4>2 DEF InTurn
    <3> QED
      BY <3>1
  <2>11. IsHistory(h, ms)
    BY <1>8, <1>9, <2>1, <2>2, <2>4, <2>7, <2>8, <2>9, <2>10 DEF IsHistory
  <2> QED
    BY <1>2, <1>11, <2>11 DEF h, ms
<1>12. CASE Last(built).role # "user"
  <2>1. Last(built).role = "assistant"
    <3>1. CASE n = 0
      BY <1>7, <1>10, <3>1
    <3>2. CASE n # 0
      <4>1. n \in 1 .. n /\ n \in DOMAIN runs
        BY <1>5, <3>2
      <4>2. IsRun(runs[n])
        BY <1>3, <4>1 DEF AreRuns, In
      <4>3. 1 \in DOMAIN runs[n]
        BY <4>2, SeqIs, EmptyOrNot DEF IsRun
      <4>4. runs[n][1].role \in {"user", "assistant"}
        BY <4>2, <4>3 DEF IsRun, GoodMessage, In
      <4> QED
        BY <1>7, <1>10, <1>12, <4>1, <4>4
    <3> QED
      BY <3>1, <3>2
  <2>2. IsHistory(built, ms)
    BY <1>6, <1>7, <1>8, <1>9, <1>10, <2>1 DEF IsHistory
  <2> QED
    BY <1>2, <1>12, <2>2 DEF ms
<1> QED
  BY <1>11, <1>12

-------------------------------------------------------------------------------
(* The tools of a request.                                                     *)
NoTwoAlike(names) ==
    \A i, j \in DOMAIN names : ToLower(names[i]) = ToLower(names[j]) => i = j

LEMMA ToolsOnce ==
    ASSUME NEW declared, IsSeq(declared), NEW mode
    PROVE  IsSeq(ConvertTools(declared, mode)) /\ NoTwoAlike(ConvertTools(declared, mode))
<1>1. Len(declared) \in Nat
  BY SeqIs
<1>2. PICK f : /\ f[0] = <<>>
               /\ \A i \in 1 .. Len(declared) : f[i] = AddTool(f[i - 1], declared[i], mode)
               /\ ConvertTools(declared, mode) = f[Len(declared)]
  <2> DEFINE none == <<>>
  <2>1. ConvertTools(declared, mode) = AllTool(none, declared, mode)
    BY DEF ConvertTools, AllTool
  <2> HIDE DEF none
  <2>2. \E f : /\ f[0] = none
               /\ \A i \in 1 .. Len(declared) : f[i] = AddTool(f[i - 1], declared[i], mode)
               /\ AllTool(none, declared, mode) = f[Len(declared)]
    BY ToolLoop
  <2> QED
    BY <2>1, <2>2 DEF none
<1> DEFINE Good(t) == IsSeq(t) /\ NoTwoAlike(t)
           G == {k \in 0 .. Len(declared) : Good(f[k])}
<1>3. 0 \in G
  <2>1. Good(<<>>)
    BY EmptyIs DEF NoTwoAlike
  <2> QED
    BY <1>1, <1>2, <2>1
<1>4. ASSUME NEW k \in 1 .. Len(declared), k - 1 \in G PROVE k \in G
  <2> DEFINE t == f[k - 1]
             n == KiroName(declared[k], mode)
             a == Append(t, n)
  <2>1. Good(t) /\ f[k] = AddTool(t, declared[k], mode) /\ k \in 0 .. Len(declared)
    BY <1>1, <1>2, <1>4
  <2>2. \/ f[k] = t
        \/ f[k] = a /\ ~\E i \in DOMAIN t : ToLower(t[i]) = ToLower(n)
    BY <2>1 DEF AddTool
  <2>3. CASE f[k] = t
    BY <2>1, <2>3
  <2>4. CASE f[k] = a /\ ~\E i \in DOMAIN t : ToLower(t[i]) = ToLower(n)
    <3> HIDE DEF t, n
    <3>1. /\ IsSeq(a) /\ Len(a) = Len(t) + 1 /\ a[Len(t) + 1] = n
          /\ \A i \in DOMAIN t : a[i] = t[i]
      BY <2>1, AppendIs
    <3>2. DOMAIN a = 1 .. Len(t) + 1 /\ DOMAIN t = 1 .. Len(t) /\ Len(t) \in Nat
      BY <2>1, <3>1, SeqIs
    <3> HIDE DEF a
    <3>3. \A i \in DOMAIN a : i \in DOMAIN t \/ i = Len(t) + 1
      BY <3>2
    <3>4. NoTwoAlike(a)
      BY <2>1, <2>4, <3>1, <3>3 DEF NoTwoAlike
    <3> QED
      BY <2>1, <2>4, <3>1, <3>4
  <2> QED
    BY <2>2, <2>3, <2>4
<1>5. Good(f[Len(declared)])
  <2>1. \A k \in 0 .. Len(declared) : k \in G
    <3> HIDE DEF G
    <3> QED
      BY <1>1, <1>3, <1>4, UpTo
  <2> QED
    BY <1>1, <2>1
<1> QED
  BY <1>2, <1>5

LEMMA SetSeqIs ==
    ASSUME NEW S, IsFiniteSet(S)
    PROVE  /\ IsSeq(SetToSeq(S)) /\ Distinct(SetToSeq(S))
           /\ \A y : In(y, SetToSeq(S)) <=> y \in S
<1> DEFINE n == Cardinality(S)
           f == SetToSeq(S)
<1>1. n \in Nat /\ ExistsBijection(1 .. n, S)
  BY FS_CardinalityType
<1>2. \E g \in [1 .. n -> S] : IsInjective(g)
  BY <1>1 DEF ExistsBijection, Bijection, Injection
<1>3. f \in [1 .. n -> S] /\ IsInjective(f)
  BY <1>2 DEF SetToSeq
<1> HIDE DEF f
<1>4. f \in Surjection(1 .. n, S)
  <2>1. f \in Injection(1 .. n, S)
    BY <1>3 DEF Injection
  <2>2. Cardinality(1 .. n) = n
    BY <1>1, FS_Interval
  <2> QED
    BY <2>1, <2>2, FS_Injection
<1>5. f = [i \in 1 .. n |-> f[i]] /\ DOMAIN f = 1 .. n
  BY <1>3
<1>6. IsSeq(f)
  BY <1>1, <1>5, SeqMade
<1>7. Distinct(f)
  BY <1>3 DEF IsInjective, Distinct
<1>8. \A y : In(y, f) <=> y \in S
  BY <1>3, <1>4 DEF Surjection, In
<1> QED
  BY <1>6, <1>7, <1>8 DEF f

LEMMA PlaceholdersFinite ==
    ASSUME NEW h, Entries(h), NEW names
    PROVE  IsFiniteSet(Placeholders(names, h))
<1> DEFINE s == UsesOf(h)
           N == {u.name : u \in Range(s)}
<1>1. IsSeq(s)
  BY UsesAre
<1> HIDE DEF s
<1>2. Len(s) \in Nat /\ DOMAIN s = 1 .. Len(s)
  BY <1>1, SeqIs
<1> DEFINE f == [i \in 1 .. Len(s) |-> s[i].name]
<1>3. f \in Surjection(1 .. Len(s), N)
  BY <1>2 DEF Surjection, Range
<1>4. IsFiniteSet(1 .. Len(s))
  BY <1>2, FS_Interval
<1>5. IsFiniteSet(N)
  <2> HIDE DEF f, N
  <2> QED
    BY <1>3, <1>4, FS_Surjection
<1>6. Placeholders(names, h) \in SUBSET N
  BY DEF Placeholders, s
<1> QED
  BY <1>5, <1>6, FS_Subset

LEMMA ToolsOfRequest ==
    ASSUME NEW t, IsSeq(t), NoTwoAlike(t), NEW h, Entries(h)
    PROVE  LET all == t \o SetToSeq(Placeholders(t, h))
           IN  /\ IsSeq(all)
               /\ \A u : In(u, UsesOf(h)) =>
                     \E i \in DOMAIN all : ToLower(all[i]) = ToLower(u.name)
               /\ \A i, j \in DOMAIN all :
                     i # j /\ ToLower(all[i]) = ToLower(all[j]) =>
                        all[i] # all[j] /\ ~In(all[i], t)
<1> DEFINE P == Placeholders(t, h)
           p == SetToSeq(P)
           all == t \o p
<1>1. IsSeq(p) /\ Distinct(p) /\ \A y : In(y, p) <=> y \in P
  <2>1. IsFiniteSet(P)
    BY PlaceholdersFinite
  <2> HIDE DEF P
  <2> QED
    BY <2>1, SetSeqIs
<1>2. \A y : y \in P <=> /\ \E u : In(u, UsesOf(h)) /\ u.name = y
                         /\ ~\E i \in DOMAIN t : ToLower(t[i]) = ToLower(y)
  BY DEF Placeholders, Range, In
<1> HIDE DEF P, p
<1>3. /\ IsSeq(all) /\ Len(all) = Len(t) + Len(p)
      /\ \A i \in DOMAIN t : i \in DOMAIN all /\ all[i] = t[i]
      /\ \A i \in DOMAIN p : Len(t) + i \in DOMAIN all /\ all[Len(t) + i] = p[i]
      /\ \A y : In(y, all) <=> In(y, t) \/ In(y, p)
  BY <1>1, ConcatIs
<1>4. /\ DOMAIN all = 1 .. Len(t) + Len(p) /\ DOMAIN t = 1 .. Len(t) /\ Len(t) \in Nat
      /\ DOMAIN p = 1 .. Len(p) /\ Len(p) \in Nat
  BY <1>1, <1>3, SeqIs
<1> HIDE DEF all
<1>5. ASSUME NEW i \in DOMAIN all
      PROVE  \/ i \in DOMAIN t /\ all[i] = t[i]
             \/ /\ i - Len(t) \in DOMAIN p /\ all[i] = p[i - Len(t)]
                /\ ~In(all[i], t)
                /\ \A j \in DOMAIN t : ToLower(t[j]) # ToLower(all[i])
  <2>1. CASE i <= Len(t)
    BY <1>3, <1>4, <2>1
  <2>2. CASE ~(i <= Len(t))
    <3>1. i - Len(t) \in DOMAIN p /\ Len(t) + (i - Len(t)) = i
      BY <1>4, <2>2
    <3>2. all[i] = p[i - Len(t)] /\ In(all[i], p)
      BY <1>3, <3>1 DEF In
    <3>3. \A j \in DOMAIN t : ToLower(t[j]) # ToLower(all[i])
      BY <1>1, <1>2, <3>2
    <3>4. ~In(all[i], t)
      BY <3>3 DEF In
    <3> QED
      BY <3>1, <3>2, <3>3, <3>4
  <2> QED
    BY <2>1, <2>2
<1>6. ASSUME NEW u, In(u, UsesOf(h))
      PROVE  \E i \in DOMAIN all : ToLower(all[i]) = ToLower(u.name)
  <2>1. CASE \E i \in DOMAIN t : ToLower(t[i]) = ToLower(u.name)
    BY <1>3, <2>1
  <2>2. CASE ~\E i \in DOMAIN t : ToLower(t[i]) = ToLower(u.name)
    <3>1. In(u.name, all)
      BY <1>1, <1>2, <1>3, <1>6, <2>2
    <3> QED
      BY <3>1 DEF In
  <2> QED
    BY <2>1, <2>2
<1>7. ASSUME NEW i \in DOMAIN all, NEW j \in DOMAIN all,
             i # j, ToLower(all[i]) = ToLower(all[j])
      PROVE  all[i] # all[j] /\ ~In(all[i], t)
  <2>1. CASE i \in DOMAIN t /\ all[i] = t[i] /\ j \in DOMAIN t /\ all[j] = t[j]
    BY <1>7, <2>1 DEF NoTwoAlike
  <2>2. CASE /\ i - Len(t) \in DOMAIN p /\ all[i] = p[i - Len(t)] /\ ~In(all[i], t)
             /\ j - Len(t) \in DOMAIN p /\ all[j] = p[j - Len(t)]
    <3>1. i - Len(t) # j - Len(t)
      BY <1>4, <1>7
    <3> QED
      BY <1>1, <2>2, <3>1 DEF Distinct
  <2>3. CASE /\ i \in DOMAIN t /\ all[i] = t[i]
             /\ \A k \in DOMAIN t : ToLower(t[k]) # ToLower(all[j])
    BY <1>7, <2>3
  <2>4. CASE /\ j \in DOMAIN t /\ all[j] = t[j]
             /\ \A k \in DOMAIN t : ToLower(t[k]) # ToLower(all[i])
    BY <1>7, <2>4
  <2> QED
    BY <1>5, <2>1, <2>2, <2>3, <2>4
<1> QED
  BY <1>3, <1>6, <1>7 DEF all, p, P

-------------------------------------------------------------------------------
(* What a request made of good messages is.                                    *)
LEMMA DistinctCount ==
    ASSUME NEW s, IsSeq(s), Distinct(s)
    PROVE  Cardinality(Range(s)) = Len(s)
<1>1. Len(s) \in Nat /\ DOMAIN s = 1 .. Len(s)
  BY SeqIs
<1> DEFINE b == [i \in 1 .. Len(s) |-> s[i]]
<1>2. b \in Bijection(1 .. Len(s), Range(s))
  BY <1>1 DEF Bijection, Injection, Surjection, IsInjective, Distinct, Range
<1>3. ExistsBijection(1 .. Len(s), Range(s))
  BY <1>2 DEF ExistsBijection
<1> QED
  BY <1>1, <1>3, FS_CountingElements

LEMMA ImagesAre ==
    ASSUME NEW blocks, NEW role, GoodContent(blocks, role)
    PROVE  \A y : y \in ContentData(blocks)
                     <=> \E img \in ImagesIn(blocks) : img.format \in Formats /\ img.data = y
<1> DEFINE own == OfKind(blocks, "image")
           results == OfKind(blocks, "tool_result")
<1>1. /\ \A b : In(b, own) <=> In(b, blocks) /\ b.k = "image"
      /\ \A b : In(b, results) <=> In(b, blocks) /\ b.k = "tool_result"
  BY KindsAre DEF GoodContent
<1>2. \A img : img \in ImagesIn(blocks) <=>
                  \/ \E b : In(b, own) /\ b.img = img
                  \/ \E b : /\ In(b, results)
                            /\ \E p : In(p, OfKind(b.content, "image")) /\ p.img = img
  <2> DEFINE mine == {own[i].img : i \in DOMAIN own}
             theirs(b) == {p.img : p \in Range(OfKind(b.content, "image"))}
             found == UNION {theirs(results[i]) : i \in DOMAIN results}
  <2>1. ImagesIn(blocks) = mine \cup found
    BY DEF ImagesIn
  <2> HIDE DEF own, results
  <2>2. \A img : img \in mine <=> \E b : In(b, own) /\ b.img = img
    BY DEF In
  <2>3. \A b, img : img \in theirs(b)
                      <=> \E p : In(p, OfKind(b.content, "image")) /\ p.img = img
    BY DEF In, Range
  <2> HIDE DEF theirs
  <2>4. \A img : img \in found <=> \E b : In(b, results) /\ img \in theirs(b)
    BY DEF In
  <2> HIDE DEF mine, found
  <2> QED
    BY <2>1, <2>2, <2>3, <2>4
<1> HIDE DEF own, results
<1>3. \A img, y : y \in Sendable(img) <=> img.format \in Formats /\ img.data = y
  BY DEF Sendable
<1>4. ASSUME NEW b, In(b, blocks), NEW y
      PROVE  y \in BlockData(b) <=>
                \/ b.k = "image" /\ y \in Sendable(b.img)
                \/ /\ b.k = "tool_result"
                   /\ \E p : In(p, OfKind(b.content, "image")) /\ y \in Sendable(p.img)
  <2>1. CASE b.k = "image"
    BY <2>1 DEF BlockData
  <2>2. CASE b.k = "tool_result"
    <3>1. GoodParts(b.content)
      BY <1>4, <2>2 DEF GoodContent, GoodBlock
    <3>2. \A p : In(p, OfKind(b.content, "image")) <=> In(p, b.content) /\ p.k = "image"
      BY <3>1, KindsAre DEF GoodParts
    <3>3. y \in BlockData(b) <=> \E p : In(p, b.content) /\ y \in PartData(p)
      BY <2>2 DEF BlockData, In
    <3>4. \A p : y \in PartData(p) <=> p.k = "image" /\ y \in Sendable(p.img)
      BY DEF PartData
    <3> QED
      BY <2>2, <3>2, <3>3, <3>4
  <2>3. CASE b.k # "image" /\ b.k # "tool_result"
    BY <2>3 DEF BlockData
  <2> QED
    BY <2>1, <2>2, <2>3
<1>5. ASSUME NEW y
      PROVE  y \in ContentData(blocks)
                <=> \E img \in ImagesIn(blocks) : img.format \in Formats /\ img.data = y
  <2>1. y \in ContentData(blocks) <=> \E b : In(b, blocks) /\ y \in BlockData(b)
    BY DataIs
  <2>2. ASSUME NEW b, In(b, blocks), y \in BlockData(b)
        PROVE  \E img \in ImagesIn(blocks) : img.format \in Formats /\ img.data = y
    <3>1. CASE b.k = "image" /\ y \in Sendable(b.img)
      BY <1>1, <1>2, <1>3, <2>2, <3>1
    <3>2. CASE /\ b.k = "tool_result"
               /\ \E p : In(p, OfKind(b.content, "image")) /\ y \in Sendable(p.img)
      BY <1>1, <1>2, <1>3, <2>2, <3>2
    <3> QED
      BY <1>4, <2>2, <3>1, <3>2
  <2>3. ASSUME NEW img \in ImagesIn(blocks), img.format \in Formats, img.data = y
        PROVE  \E b : In(b, blocks) /\ y \in BlockData(b)
    <3>1. y \in Sendable(img)
      BY <1>3, <2>3
    <3>2. CASE \E b : In(b, own) /\ b.img = img
      BY <1>1, <1>4, <3>1, <3>2
    <3>3. CASE \E b : /\ In(b, results)
                      /\ \E p : In(p, OfKind(b.content, "image")) /\ p.img = img
      BY <1>1, <1>4, <3>1, <3>3
    <3> QED
      BY <1>2, <3>2, <3>3
  <2> QED
    BY <2>1, <2>2, <2>3
<1> QED
  BY <1>5

LEMMA LastUser ==
    ASSUME NEW ms, GoodMessages(ms), UserPositions(ms) # {}
    PROVE  \E k \in DOMAIN ms :
              /\ ms[k].role = "user" /\ \A j \in DOMAIN ms : j > k => ms[j].role = "assistant"
              /\ UpToLastUser(ms) = SubSeq(ms, 1, k)
<1>1. IsSeq(ms) /\ Len(ms) \in Nat /\ DOMAIN ms = 1 .. Len(ms)
  BY SeqIs DEF GoodMessages
<1> DEFINE U == UserPositions(ms)
           T == {Len(ms) - i : i \in U}
<1>2. \A i : i \in U <=> i \in DOMAIN ms /\ ms[i].role = "user"
  BY DEF UserPositions
<1>3. T \subseteq Nat /\ T # {}
  BY <1>1, <1>2
<1>4. PICK m \in T : \A n \in T : m <= n
  <2> HIDE DEF T
  <2> QED
    BY <1>3, LeastNat
<1>5. PICK b \in U : m = Len(ms) - b
  OBVIOUS
<1>6. \A j \in U : j <= b
  <2>1. ASSUME NEW j \in U PROVE j <= b
    <3>1. Len(ms) - b <= Len(ms) - j
      BY <1>4, <1>5
    <3> QED
      BY <1>1, <1>2, <3>1
  <2> QED
    BY <2>1
<1> DEFINE Latest(i) == i \in U /\ \A j \in U : j <= i
           k == CHOOSE i \in U : \A j \in U : j <= i
<1> HIDE DEF T, U
<1>7. k \in U /\ \A j \in U : j <= k
  BY <1>6
<1>8. UpToLastUser(ms) = SubSeq(ms, 1, k)
  BY DEF UpToLastUser, U
<1> HIDE DEF k
<1>9. \A j \in DOMAIN ms : j > k => ms[j].role = "assistant"
  <2>1. ASSUME NEW j \in DOMAIN ms, j > k PROVE ms[j].role = "assistant"
    <3>1. j \notin U
      BY <1>1, <1>2, <1>7, <2>1
    <3> QED
      BY <1>2, <3>1 DEF GoodMessages, GoodMessage, In
  <2> QED
    BY <2>1
<1> QED
  BY <1>2, <1>7, <1>8, <1>9

(* The bodies of the properties, of a request r.                               *)
CallsAnswered(r) ==
    LET uses == Ids(UsesOf(r.history))
        now == r.current.results
    IN /\ uses \subseteq Ids(ResultsOf(r.history)) \cup Ids(now)
       /\ Ids(now) \subseteq uses \ Ids(ResultsOf(r.history))
       /\ Cardinality(Ids(now)) = Len(now)

WellFormed(r, ms, declared, mode) ==
    /\ ms[1].role = "user" => InTurn(r.history)
    /\ Last(r.history).role = "assistant"
    /\ \A i \in DOMAIN r.history : SpeaksWhenCalling(r.history[i])
    /\ \A u : In(u, UsesOf(r.history)) =>
          \E i \in DOMAIN r.tools : ToLower(r.tools[i]) = ToLower(u.name)
    /\ \A i, j \in DOMAIN r.tools :
          i # j /\ ToLower(r.tools[i]) = ToLower(r.tools[j]) =>
             r.tools[i] # r.tools[j] /\ ~In(r.tools[i], ConvertTools(declared, mode))

SentImages(r) == FlattenSeq([i \in DOMAIN r.history |-> r.history[i].images])

ImagesOnce(r, ms) ==
    /\ IsSeq(SentImages(r)) /\ Distinct(SentImages(r))
    /\ \A y : OfMessages(y, ms) <=> In(y, SentImages(r)) \/ In(y, r.current.images)

LEMMA PairedIs ==
    ASSUME NEW h, NEW ms, IsHistory(h, ms), NEW c, IsContent(c),
           NEW t, IsSeq(t), NoTwoAlike(t), NEW names
    PROVE  LET r == Assemble(h, c, t, names)
           IN  /\ CallsAnswered(r)
               /\ Entries(r.history) /\ Last(r.history).role = "assistant"
               /\ InTurn(h) => InTurn(r.history)
               /\ \A i \in DOMAIN r.history : SpeaksWhenCalling(r.history[i])
               /\ \A u : In(u, UsesOf(r.history)) =>
                     \E i \in DOMAIN r.tools : ToLower(r.tools[i]) = ToLower(u.name)
               /\ \A i, j \in DOMAIN r.tools :
                     i # j /\ ToLower(r.tools[i]) = ToLower(r.tools[j]) =>
                        r.tools[i] # r.tools[j] /\ ~In(r.tools[i], t)
               /\ IsSeq(SentImages(r)) /\ Distinct(SentImages(r))
               /\ \A y : In(y, SentImages(r)) <=> OfMessages(y, ms)
               /\ r.current.images = c.images
               /\ r.error = "none" /\ r.names = names
<1> DEFINE kept == ValidateToolPairing(h, c.results)
           p == RemoveOrphanedToolUses(h, kept)
           all == t \o SetToSeq(Placeholders(t, p))
           now == [UserEntry(c) EXCEPT !.results = kept]
           r == Assemble(h, c, t, names)
<1>1. r = [error |-> "none", history |-> p, current |-> now, tools |-> all, names |-> names]
  BY DEF Assemble, Paired
<1>2. Entries(h) /\ IsSeq(c.results)
  BY DEF IsHistory, IsContent
<1>3. /\ Ids(UsesOf(p)) \subseteq Ids(ResultsOf(p)) \cup Ids(kept)
      /\ Ids(kept) \subseteq Ids(UsesOf(p)) \ Ids(ResultsOf(p))
      /\ Cardinality(Ids(kept)) = Len(kept)
  BY <1>2, PairedAnswers
<1>4. now.results = kept /\ now.images = c.images
  <2> DEFINE none == <<>>
  <2> HIDE DEF kept
  <2>1. UserEntry(c) = [role |-> "user", text |-> c.text, images |-> c.images,
                        results |-> c.results, uses |-> none]
    BY DEF UserEntry
  <2> HIDE DEF none
  <2> QED
    BY <2>1
<1> HIDE DEF kept
<1>5. /\ Entries(p) /\ Len(p) = Len(h) /\ DOMAIN p = DOMAIN h
      /\ \A i \in DOMAIN h :
            /\ p[i].role = h[i].role /\ p[i].text = h[i].text /\ p[i].images = h[i].images
            /\ \A u : In(u, p[i].uses) => In(u, h[i].uses)
  <2> DEFINE q == RemoveOrphanedToolUses(h, kept)
             answered == Ids(ResultsOf(h)) \cup Ids(kept)
  <2>1. /\ Entries(q) /\ Len(q) = Len(h) /\ DOMAIN q = DOMAIN h
        /\ \A i \in DOMAIN h :
              /\ q[i] = [role |-> h[i].role, text |-> h[i].text, images |-> h[i].images,
                         results |-> h[i].results, uses |-> q[i].uses]
              /\ \A u : In(u, q[i].uses) <=> In(u, h[i].uses) /\ u.id \in answered
    BY <1>2, OrphansGone
  <2> HIDE DEF q, answered
  <2>2. ASSUME NEW i \in DOMAIN h
        PROVE  q[i].role = h[i].role /\ q[i].text = h[i].text /\ q[i].images = h[i].images
    BY <2>1
  <2>3. /\ Entries(q) /\ Len(q) = Len(h) /\ DOMAIN q = DOMAIN h
        /\ \A i \in DOMAIN h :
            /\ q[i].role = h[i].role /\ q[i].text = h[i].text /\ q[i].images = h[i].images
            /\ \A u : In(u, q[i].uses) => In(u, h[i].uses)
    BY <2>1, <2>2
  <2> QED
    BY <2>3 DEF q
<1> HIDE DEF p
<1>6. /\ \A u : In(u, UsesOf(p)) => \E i \in DOMAIN all : ToLower(all[i]) = ToLower(u.name)
      /\ \A i, j \in DOMAIN all :
            i # j /\ ToLower(all[i]) = ToLower(all[j]) => all[i] # all[j] /\ ~In(all[i], t)
  BY <1>5, ToolsOfRequest
<1> HIDE DEF all, now, r
<1>7. /\ r.history = p /\ r.current = now /\ r.tools = all /\ r.error = "none"
      /\ r.names = names
  BY <1>1
<1>8. CallsAnswered(r)
  BY <1>3, <1>4, <1>7 DEF CallsAnswered
<1>9. Last(p).role = "assistant"
  <2>1. h # <<>> /\ Last(h).role = "assistant" /\ IsSeq(h) /\ IsSeq(p)
    BY <1>5 DEF IsHistory, Entries
  <2>2. Len(h) # 0 /\ Last(h) = h[Len(h)] /\ Len(h) \in DOMAIN h
    BY <2>1, EmptyOrNot, SeqIs
  <2>3. p # <<>> /\ Last(p) = p[Len(h)]
    BY <1>5, <2>1, <2>2, EmptyOrNot
  <2> QED
    BY <1>5, <2>1, <2>2, <2>3
<1>10. InTurn(h) => InTurn(p)
  BY <1>5 DEF InTurn
<1>11. ASSUME NEW i \in DOMAIN p PROVE SpeaksWhenCalling(p[i])
  <2>1. SpeaksWhenCalling(h[i]) /\ IsSeq(p[i].uses) /\ IsSeq(h[i].uses)
    BY <1>2, <1>5 DEF IsHistory, Entries, IsEntry
  <2>2. ASSUME p[i].uses # <<>> PROVE h[i].uses # <<>>
    <3>1. Len(p[i].uses) # 0 /\ 1 \in DOMAIN p[i].uses
      BY <2>1, <2>2, EmptyOrNot, SeqIs
    <3>2. In(p[i].uses[1], p[i].uses)
      BY <3>1 DEF In
    <3>3. In(p[i].uses[1], h[i].uses)
      BY <1>5, <3>2
    <3> QED
      BY <3>3, EmptyIs DEF In
  <2> QED
    BY <1>5, <2>1, <2>2 DEF SpeaksWhenCalling
<1> DEFINE ss == [i \in DOMAIN p |-> p[i].images]
           sent == FlattenSeq(ss)
<1>12. SentImages(r) = sent
  BY <1>7 DEF SentImages
<1>13. IsSeq(ss) /\ DOMAIN ss = DOMAIN p /\ AllSeqs(ss) /\ \A i \in DOMAIN p : ss[i] = p[i].images
  <2>1. IsSeq(ss) /\ DOMAIN ss = DOMAIN p
    BY <1>5, MapIs DEF Entries
  <2> QED
    BY <1>5, <2>1 DEF AllSeqs, Entries, IsEntry
<1> HIDE DEF ss
<1>14. Apart(ss)
  <2>1. ImagesApart(h)
    BY DEF IsHistory
  <2>2. DOMAIN ss = DOMAIN h /\ \A i \in DOMAIN h : ss[i] = h[i].images
    BY <1>5, <1>13
  <2>3. /\ \A i \in DOMAIN h : Distinct(h[i].images)
        /\ \A i, j \in DOMAIN h : \A y : In(y, h[i].images) /\ In(y, h[j].images) => i = j
    BY <2>1 DEF ImagesApart
  <2>4. \A i \in DOMAIN ss : Distinct(ss[i])
    BY <2>2, <2>3
  <2>5. \A i, j \in DOMAIN ss : \A y : In(y, ss[i]) /\ In(y, ss[j]) => i = j
    BY <2>2, <2>3
  <2> QED
    BY <2>4, <2>5 DEF Apart
<1>15. /\ IsSeq(sent) /\ Distinct(sent)
       /\ \A y : In(y, sent) <=> \E i \in DOMAIN ss : In(y, ss[i])
  BY <1>13, <1>14, FlatIs
<1> HIDE DEF sent
<1>16. ASSUME NEW y PROVE In(y, sent) <=> OfMessages(y, ms)
  <2>1. (\E i \in DOMAIN h : In(y, h[i].images)) <=> OfMessages(y, ms)
    BY DEF IsHistory
  <2> QED
    BY <1>5, <1>13, <1>15, <2>1
<1> QED
  BY <1>4, <1>5, <1>6, <1>7, <1>8, <1>9, <1>10, <1>11, <1>12, <1>15, <1>16 DEF r

(* What comes after the last user is an assistant's, and shows no image.       *)
LEMMA RequestIs ==
    ASSUME NEW ms, GoodMessages(ms), ms # <<>>, NEW declared, IsSeq(declared), NEW mode,
           ConvertRequest(ms, declared, mode).error = "none"
    PROVE  LET r == ConvertRequest(ms, declared, mode)
           IN  CallsAnswered(r) /\ WellFormed(r, ms, declared, mode) /\ ImagesOnce(r, ms)
<1> DEFINE r == ConvertRequest(ms, declared, mode)
           u == UpToLastUser(ms)
<1>1. UserPositions(ms) # {} /\ r = ConvertPrepared(u, declared, mode)
  <2>1. \A e : Refused(e).error = e
    BY DEF Refused
  <2>2. CASE UserPositions(ms) = {}
    <3>1. r = Refused("EmptyMessages")
      BY <2>2 DEF ConvertRequest
    <3> QED
      BY <2>1, <3>1
  <2>3. CASE UserPositions(ms) # {} /\ HasUnmappable(u, mode)
    <3>1. r = Refused("UnsupportedToolMapping")
      BY <2>3 DEF ConvertRequest
    <3> QED
      BY <2>1, <3>1
  <2> QED
    BY <2>2, <2>3 DEF ConvertRequest
<1>2. PICK k \in DOMAIN ms :
         /\ ms[k].role = "user" /\ \A j \in DOMAIN ms : j > k => ms[j].role = "assistant"
         /\ u = SubSeq(ms, 1, k)
  BY <1>1, LastUser
<1> HIDE DEF u
<1>3. IsSeq(ms) /\ DOMAIN ms = 1 .. Len(ms) /\ Len(ms) \in Nat
  BY SeqIs DEF GoodMessages
<1>4. IsSeq(u) /\ Len(u) = k /\ \A i \in 1 .. k : u[i] = ms[i]
  BY <1>2, <1>3, PrefixIs
<1>5. DOMAIN u = 1 .. k /\ u # <<>> /\ Last(u) = ms[k]
  <2>1. DOMAIN u = 1 .. k
    BY <1>4, SeqIs
  <2>2. k \in Nat /\ k # 0
    BY <1>3
  <2>3. u # <<>> /\ Last(u) = u[k]
    BY <1>4, <2>2, EmptyOrNot
  <2> QED
    BY <1>4, <2>1, <2>2, <2>3
<1>6. \A i \in DOMAIN ms : GoodMessage(ms[i])
  BY DEF GoodMessages, In
<1>7. GoodMessages(u)
  BY <1>3, <1>4, <1>5, <1>6 DEF GoodMessages, In
<1> DEFINE front == Front(u)
           h == BuildHistory(u, mode)
           c == ProcessMessageContent(Last(u).content, {}, FALSE)
           t == ConvertTools(declared, mode)
           names == NoteNames(CalledNames(u), DeclaredNameMap(declared, mode), mode)
<1>8. IsHistory(h, front)
  BY <1>5, <1>7, HistoryBuilt
<1>9. /\ IsSeq(front) /\ Len(front) = k - 1
      /\ \A i \in 1 .. k - 1 : front[i] = ms[i]
  <2>1. IsSeq(front) /\ Len(front) = k - 1 /\ \A i \in 1 .. k - 1 : front[i] = u[i]
    BY <1>4, <1>5, FrontIs
  <2> HIDE DEF front
  <2> QED
    BY <1>3, <1>4, <2>1
<1>10. DOMAIN front = 1 .. k - 1
  BY <1>9, SeqIs
<1>11. Collects(Content0({}, FALSE), c, ContentData(ms[k].content))
  <2>1. GoodContent(Last(u).content, "user")
    BY <1>2, <1>5, <1>6 DEF GoodMessage
  <2> QED
    BY <1>5, <2>1, ContentCollected
<1> HIDE DEF front, h, c
<1>12. IsContent(c) /\ \A y : In(y, c.images) <=> y \in ContentData(ms[k].content)
  <2> DEFINE no == FALSE
             c0 == Content0({}, no)
  <2>1. Collects(c0, c, ContentData(ms[k].content))
    BY <1>11
  <2>2. ~c0.dedup /\ c0.images = <<>>
    <3>1. c0.dedup = no /\ c0.images = <<>>
      BY Zenon DEF Content0
    <3> QED
      BY <3>1
  <2>3. \A y : ~In(y, c0.images)
    BY <2>2, EmptyIs DEF In
  <2> HIDE DEF c0
  <2> QED
    BY <2>1, <2>2, <2>3 DEF Collects
<1>13. IsSeq(t) /\ NoTwoAlike(t)
  BY ToolsOnce
<1> HIDE DEF t, names
<1> DEFINE a == Assemble(h, c, t, names)
<1>14. /\ CallsAnswered(a)
       /\ Entries(a.history) /\ Last(a.history).role = "assistant"
       /\ InTurn(h) => InTurn(a.history)
       /\ \A i \in DOMAIN a.history : SpeaksWhenCalling(a.history[i])
       /\ \A x : In(x, UsesOf(a.history)) =>
             \E i \in DOMAIN a.tools : ToLower(a.tools[i]) = ToLower(x.name)
       /\ \A i, j \in DOMAIN a.tools :
             i # j /\ ToLower(a.tools[i]) = ToLower(a.tools[j]) =>
                a.tools[i] # a.tools[j] /\ ~In(a.tools[i], t)
       /\ IsSeq(SentImages(a)) /\ Distinct(SentImages(a))
       /\ \A y : In(y, SentImages(a)) <=> OfMessages(y, front)
       /\ a.current.images = c.images
  BY <1>8, <1>12, <1>13, PairedIs
<1>15. r = a
  BY <1>1 DEF ConvertPrepared, h, c, t, names
<1> HIDE DEF a, r
<1>16. ms[1].role = "user" => InTurn(h)
  <2>1. CASE k = 1
    <3>1. front = <<>>
      BY <1>9, <2>1, EmptyOrNot
    <3> QED
      BY <1>8, <3>1 DEF IsHistory
  <2>2. CASE k # 1
    <3>1. 1 \in 1 .. k - 1 /\ front # <<>>
      BY <1>3, <1>9, <2>2, EmptyOrNot
    <3> QED
      BY <1>8, <1>9, <3>1 DEF IsHistory
  <2> QED
    BY <2>1, <2>2
<1>17. WellFormed(r, ms, declared, mode)
  BY <1>14, <1>15, <1>16 DEF WellFormed, t
<1>18. ASSUME NEW y
       PROVE  OfMessages(y, ms) <=> OfMessages(y, front) \/ y \in ContentData(ms[k].content)
  <2>1. OfMessages(y, ms) <=> \E i \in DOMAIN ms : y \in ContentData(ms[i].content)
    BY DEF OfMessages, In
  <2>2. OfMessages(y, front) <=> \E i \in 1 .. k - 1 : y \in ContentData(ms[i].content)
    BY <1>9, <1>10 DEF OfMessages, In
  <2>3. ASSUME NEW i \in DOMAIN ms, i > k PROVE y \notin ContentData(ms[i].content)
    <3>1. GoodContent(ms[i].content, "assistant")
      BY <1>2, <1>6, <2>3 DEF GoodMessage
    <3>2. ASSUME NEW b, In(b, ms[i].content) PROVE y \notin BlockData(b)
      <4>1. b.k # "image" /\ b.k # "tool_result"
        BY <3>1, <3>2 DEF GoodContent, GoodBlock
      <4> QED
        BY <4>1 DEF BlockData
    <3> QED
      BY <3>2, DataIs
  <2>4. \A i \in DOMAIN ms : i \in 1 .. k - 1 \/ i = k \/ i > k
    BY <1>3
  <2>5. \A i \in 1 .. k - 1 : i \in DOMAIN ms
    BY <1>3
  <2> QED
    BY <2>1, <2>2, <2>3, <2>4, <2>5
<1>19. ImagesOnce(r, ms)
  BY <1>12, <1>14, <1>15, <1>18 DEF ImagesOnce
<1> QED
  BY <1>14, <1>15, <1>17, <1>19 DEF r

-------------------------------------------------------------------------------
(* What the conversation holds, in each API.                                   *)
GoodChat(item) ==
    /\ item.role \in {"user", "assistant"} => GoodContent(item.content, item.role)
    /\ item.role = "assistant" => IsSeq(item.tool_calls)

GoodInput(item) ==
    item.type = "message" /\ item.role \in {"user", "assistant"}
        => GoodContent(item.content, item.role)

IsTurn(m) == m = [role |-> m.role, content |-> m.content] /\ GoodMessage(m)

Turns(ms) == IsSeq(ms) /\ \A m : In(m, ms) => IsTurn(m)

LEMMA ContentJoined ==
    ASSUME NEW a, NEW b, NEW role, GoodContent(a, role), GoodContent(b, role)
    PROVE  GoodContent(a \o b, role)
<1>1. IsSeq(a) /\ IsSeq(b)
  BY DEF GoodContent
<1>2. IsSeq(a \o b) /\ \A y : In(y, a \o b) <=> In(y, a) \/ In(y, b)
  BY <1>1, ConcatIs
<1> DEFINE c == a \o b
<1> HIDE DEF c
<1>3. IsSeq(c) /\ \A y : In(y, c) <=> In(y, a) \/ In(y, b)
  BY <1>2 DEF c
<1>4. GoodContent(c, role)
  BY <1>3 DEF GoodContent
<1> QED
  BY <1>4 DEF c

LEMMA NoContent == \A role : GoodContent(<<>>, role)
BY EmptyIs DEF GoodContent, In

LEMMA OneBlock ==
    ASSUME NEW b, NEW role, GoodBlock(b, role)
    PROVE  GoodContent(<<b>>, role)
<1> DEFINE s == <<b>>
<1>1. IsSeq(s) /\ DOMAIN s = {1} /\ s[1] = b
  BY OneIs
<1> HIDE DEF s
<1>2. GoodContent(s, role)
  BY <1>1 DEF GoodContent, In
<1> QED
  BY <1>2 DEF s

(* Blocks of other kinds need nothing.                                         *)
LEMMA PlainBlock ==
    ASSUME NEW b, b.k \notin {"image", "tool_result"}, NEW role
    PROVE  GoodBlock(b, role)
BY DEF GoodBlock

LEMMA TurnPushed ==
    ASSUME NEW merged, Turns(merged), NEW role \in {"user", "assistant"},
           NEW blocks, GoodContent(blocks, role)
    PROVE  Turns(PushMerged(merged, role, blocks))
<1> DEFINE n == Len(merged)
           more == PushMerged(merged, role, blocks)
<1>1. IsSeq(merged) /\ n \in Nat /\ DOMAIN merged = 1 .. n
  BY SeqIs DEF Turns
<1>2. CASE blocks = <<>>
  BY <1>2 DEF PushMerged
<1>3. CASE blocks # <<>> /\ merged # <<>> /\ Last(merged).role = role
  <2> DEFINE m == merged[n]
             joined == m.content \o blocks
             longer == [m EXCEPT !.content = joined]
  <2>1. n \in DOMAIN merged /\ Last(merged) = m
    BY <1>1, <1>3, EmptyOrNot
  <2>2. more = [merged EXCEPT ![n] = longer]
    <3>1. more = [merged EXCEPT ![n].content = @ \o blocks]
      BY <1>3 DEF PushMerged
    <3> QED
      BY <3>1
  <2>3. IsTurn(m) /\ m.role = role
    BY <1>3, <2>1 DEF Turns, In
  <2> HIDE DEF m
  <2>4. GoodContent(joined, role)
    BY <2>3, ContentJoined DEF IsTurn, GoodMessage
  <2>5. IsTurn(longer)
    <3> HIDE DEF joined
    <3>1. longer = [role |-> m.role, content |-> joined]
      BY <2>3 DEF IsTurn
    <3> HIDE DEF longer
    <3> QED
      BY <2>3, <2>4, <3>1 DEF IsTurn, GoodMessage
  <2> HIDE DEF longer, more
  <2>6. /\ more = [i \in DOMAIN merged |-> more[i]]
        /\ more[n] = longer /\ \A i \in DOMAIN merged : i # n => more[i] = merged[i]
    BY <2>1, <2>2
  <2>7. IsSeq(more) /\ DOMAIN more = DOMAIN merged
    BY <1>1, <2>6, MapIs
  <2>8. \A i \in DOMAIN more : IsTurn(more[i])
    BY <2>5, <2>6, <2>7 DEF Turns, In
  <2>9. Turns(more)
    BY <2>7, <2>8 DEF Turns, In
  <2> QED
    BY <2>9 DEF more
<1>4. CASE blocks # <<>> /\ ~(merged # <<>> /\ Last(merged).role = role)
  <2> DEFINE m == [role |-> role, content |-> blocks]
  <2>1. more = Append(merged, m)
    BY <1>4 DEF PushMerged
  <2>2. m.role = role /\ m.content = blocks /\ m = [role |-> m.role, content |-> m.content]
    OBVIOUS
  <2> HIDE DEF m
  <2>3. IsTurn(m)
    BY <2>2 DEF IsTurn, GoodMessage
  <2>4. IsSeq(Append(merged, m)) /\ \A y : In(y, Append(merged, m)) <=> In(y, merged) \/ y = m
    BY <1>1, AppendIs
  <2>5. Turns(more)
    BY <2>1, <2>3, <2>4 DEF Turns
  <2> QED
    BY <2>5
<1> QED
  BY <1>2, <1>3, <1>4

LEMMA BlocksKept ==
    ASSUME NEW parts, NEW role, GoodContent(parts, role)
    PROVE  GoodContent(ContentBlocks(parts), role)
<1> DEFINE chosen == {i \in DOMAIN parts :
                        \/ parts[i].k = "text"
                        \/ parts[i].k = "image" /\ parts[i].img.format # "remote"}
<1>1. ContentBlocks(parts) = Selected(parts, chosen)
  BY DEF ContentBlocks, Those
<1>2. /\ IsSeq(Selected(parts, chosen))
      /\ \A y : In(y, Selected(parts, chosen)) <=> \E i \in DOMAIN parts : i \in chosen /\ parts[i] = y
  <2>1. IsSeq(parts)
    BY DEF GoodContent
  <2> HIDE DEF chosen
  <2> QED
    BY <2>1, SelectedIs
<1> HIDE DEF chosen
<1> QED
  BY <1>1, <1>2 DEF GoodContent, In

LEMMA UsesAsBlocks ==
    ASSUME NEW s, IsSeq(s), NEW f, f = [i \in DOMAIN s |-> f[i]],
           \A i \in DOMAIN s : f[i].k \notin {"image", "tool_result"}
    PROVE  GoodContent(f, "assistant")
<1>1. IsSeq(f) /\ DOMAIN f = DOMAIN s
  BY MapIs
<1> QED
  BY <1>1, PlainBlock DEF GoodContent, In

LEMMA CallsAsBlocks ==
    ASSUME NEW made, IsSeq(made)
    PROVE  GoodContent([i \in DOMAIN made |-> ToolUse(made[i])], "assistant")
<1> DEFINE f == [i \in DOMAIN made |-> ToolUse(made[i])]
<1>1. f = [i \in DOMAIN made |-> f[i]]
  OBVIOUS
<1>2. \A i \in DOMAIN made : f[i].k \notin {"image", "tool_result"}
  BY DEF ToolUse
<1> HIDE DEF f
<1>3. GoodContent(f, "assistant")
  BY <1>1, <1>2, UsesAsBlocks
<1> QED
  BY <1>3 DEF f

LEMMA OneText == \A text : GoodParts(<<[k |-> "text", text |-> text]>>)
<1> SUFFICES ASSUME NEW text PROVE GoodParts(<<[k |-> "text", text |-> text]>>)
  OBVIOUS
<1> DEFINE p == [k |-> "text", text |-> text]
<1>1. p.k = "text"
  OBVIOUS
<1> HIDE DEF p
<1> DEFINE s == <<p>>
<1>2. IsSeq(s) /\ DOMAIN s = {1} /\ s[1] = p
  BY OneIs
<1> HIDE DEF s
<1>3. GoodParts(s)
  BY <1>1, <1>2 DEF GoodParts, In
<1> QED
  BY <1>3 DEF s, p

LEMMA ResultAsBlock ==
    ASSUME NEW id, NEW parts
    PROVE  GoodContent(<<ToolResult(id, parts)>>, "user")
<1> DEFINE texts == Texts(OfKind(parts, "text"))
           content == <<[k |-> "text", text |-> texts]>>
           b == ToolResult(id, parts)
<1>1. b = [k |-> "tool_result", id |-> id, content |-> content]
  BY DEF ToolResult
<1> HIDE DEF texts
<1>2. GoodParts(content)
  BY OneText
<1> HIDE DEF content, b
<1>3. GoodBlock(b, "user")
  BY <1>1, <1>2 DEF GoodBlock
<1>4. GoodContent(<<b>>, "user")
  BY <1>3, OneBlock
<1> QED
  BY <1>4 DEF b

LEMMA ChatPushed ==
    ASSUME NEW merged, Turns(merged), NEW m, GoodChat(m)
    PROVE  Turns(AddChatMessage(merged, m))
<1>1. CASE m.role = "user"
  <2>1. AddChatMessage(merged, m) = PushMerged(merged, "user", ContentBlocks(m.content))
    BY <1>1 DEF AddChatMessage
  <2>2. GoodContent(ContentBlocks(m.content), "user")
    BY <1>1, BlocksKept DEF GoodChat
  <2> QED
    BY <2>1, <2>2, TurnPushed
<1>2. CASE m.role = "assistant"
  <2> DEFINE said == ContentBlocks(m.content)
             made == [i \in DOMAIN m.tool_calls |-> ToolUse(m.tool_calls[i])]
  <2>1. AddChatMessage(merged, m) = PushMerged(merged, "assistant", said \o made)
    BY <1>2 DEF AddChatMessage
  <2>2. GoodContent(said, "assistant")
    BY <1>2, BlocksKept DEF GoodChat
  <2>3. GoodContent(made, "assistant")
    BY <1>2, CallsAsBlocks DEF GoodChat
  <2> HIDE DEF said, made
  <2>4. GoodContent(said \o made, "assistant")
    BY <2>2, <2>3, ContentJoined
  <2> QED
    BY <2>1, <2>4, TurnPushed
<1>3. CASE m.role = "tool"
  <2>1. AddChatMessage(merged, m)
           = PushMerged(merged, "user", <<ToolResult(m.tool_call_id, m.content)>>)
    BY <1>3 DEF AddChatMessage
  <2>2. GoodContent(<<ToolResult(m.tool_call_id, m.content)>>, "user")
    BY ResultAsBlock
  <2> QED
    BY <2>1, <2>2, TurnPushed
<1>4. CASE m.role \notin {"user", "assistant", "tool"}
  BY <1>4 DEF AddChatMessage
<1> QED
  BY <1>1, <1>2, <1>3, <1>4

LEMMA ItemPushed ==
    ASSUME NEW merged, Turns(merged), NEW item, GoodInput(item)
    PROVE  Turns(TranslateInputItem(merged, item))
<1>1. CASE item.type = "function_call"
  <2> DEFINE use == ToolUse([id |-> item.call_id,
                             name |-> FlatToolName(item.namespace, item.name),
                             input |-> item.arguments])
  <2>1. TranslateInputItem(merged, item) = PushMerged(merged, "assistant", <<use>>)
    BY <1>1 DEF TranslateInputItem
  <2>2. use.k = "tool_use"
    BY DEF ToolUse
  <2> HIDE DEF use
  <2>3. GoodContent(<<use>>, "assistant")
    BY <2>2, PlainBlock, OneBlock
  <2> QED
    BY <2>1, <2>3, TurnPushed
<1>2. CASE item.type = "custom_tool_call"
  <2> DEFINE use == ToolUse([id |-> item.call_id,
                             name |-> FlatToolName(item.namespace, item.name),
                             input |-> [input |-> item.input]])
  <2>1. TranslateInputItem(merged, item) = PushMerged(merged, "assistant", <<use>>)
    BY <1>2 DEF TranslateInputItem
  <2>2. use.k = "tool_use"
    BY DEF ToolUse
  <2> HIDE DEF use
  <2>3. GoodContent(<<use>>, "assistant")
    BY <2>2, PlainBlock, OneBlock
  <2> QED
    BY <2>1, <2>3, TurnPushed
<1>3. CASE item.type \in {"function_call_output", "custom_tool_call_output"}
  <2>1. TranslateInputItem(merged, item)
           = PushMerged(merged, "user", <<ToolResult(item.call_id, item.output)>>)
    BY <1>3 DEF TranslateInputItem
  <2>2. GoodContent(<<ToolResult(item.call_id, item.output)>>, "user")
    BY ResultAsBlock
  <2> QED
    BY <2>1, <2>2, TurnPushed
<1>4. CASE item.type = "message" /\ item.role \in {"user", "assistant"}
  <2>1. TranslateInputItem(merged, item)
           = PushMerged(merged, item.role, ContentBlocks(item.content))
    BY <1>4 DEF TranslateInputItem
  <2>2. GoodContent(ContentBlocks(item.content), item.role)
    BY <1>4, BlocksKept DEF GoodInput
  <2> QED
    BY <1>4, <2>1, <2>2, TurnPushed
<1>5. CASE /\ item.type \notin {"function_call", "custom_tool_call", "function_call_output",
                                "custom_tool_call_output"}
           /\ ~(item.type = "message" /\ item.role \in {"user", "assistant"})
  BY <1>5 DEF TranslateInputItem
<1> QED
  BY <1>1, <1>2, <1>3, <1>4, <1>5

LEMMA NoTurns == Turns(<<>>)
BY EmptyIs DEF Turns, In

LEMMA ChatTurns ==
    ASSUME NEW said, IsSeq(said), \A m : In(m, said) => GoodChat(m)
    PROVE  GoodMessages(OpenaiToAnthropic(said))
<1> DEFINE none == <<>>
<1>1. OpenaiToAnthropic(said) = AllChat(none, said)
  BY DEF OpenaiToAnthropic, AllChat
<1>2. Turns(none) /\ Len(said) \in Nat /\ DOMAIN said = 1 .. Len(said)
  BY NoTurns, SeqIs
<1> HIDE DEF none
<1>3. PICK f : /\ f[0] = none
               /\ \A i \in 1 .. Len(said) : f[i] = AddChatMessage(f[i - 1], said[i])
               /\ AllChat(none, said) = f[Len(said)]
  BY ChatLoop
<1> DEFINE G == {k \in 0 .. Len(said) : Turns(f[k])}
<1>4. 0 \in G
  BY <1>2, <1>3
<1>5. ASSUME NEW k \in 1 .. Len(said), k - 1 \in G PROVE k \in G
  <2>1. Turns(f[k - 1]) /\ f[k] = AddChatMessage(f[k - 1], said[k]) /\ GoodChat(said[k])
    BY <1>2, <1>3, <1>5 DEF In
  <2>2. Turns(f[k])
    BY <2>1, ChatPushed
  <2> QED
    BY <1>2, <2>2
<1>6. Turns(f[Len(said)])
  <2>1. \A k \in 0 .. Len(said) : k \in G
    <3> HIDE DEF G
    <3> QED
      BY <1>2, <1>4, <1>5, UpTo
  <2> QED
    BY <1>2, <2>1
<1> QED
  BY <1>1, <1>3, <1>6 DEF Turns, IsTurn, GoodMessages

LEMMA ResponsesTurns ==
    ASSUME NEW said, IsSeq(said), \A m : In(m, said) => GoodInput(m)
    PROVE  GoodMessages(ResponsesToAnthropic(said))
<1> DEFINE none == <<>>
<1>1. ResponsesToAnthropic(said) = AllItem(none, said)
  BY DEF ResponsesToAnthropic, AllItem
<1>2. Turns(none) /\ Len(said) \in Nat /\ DOMAIN said = 1 .. Len(said)
  BY NoTurns, SeqIs
<1> HIDE DEF none
<1>3. PICK f : /\ f[0] = none
               /\ \A i \in 1 .. Len(said) : f[i] = TranslateInputItem(f[i - 1], said[i])
               /\ AllItem(none, said) = f[Len(said)]
  BY ItemLoop
<1> DEFINE G == {k \in 0 .. Len(said) : Turns(f[k])}
<1>4. 0 \in G
  BY <1>2, <1>3
<1>5. ASSUME NEW k \in 1 .. Len(said), k - 1 \in G PROVE k \in G
  <2>1. Turns(f[k - 1]) /\ f[k] = TranslateInputItem(f[k - 1], said[k]) /\ GoodInput(said[k])
    BY <1>2, <1>3, <1>5 DEF In
  <2>2. Turns(f[k])
    BY <2>1, ItemPushed
  <2> QED
    BY <1>2, <2>2
<1>6. Turns(f[Len(said)])
  <2>1. \A k \in 0 .. Len(said) : k \in G
    <3> HIDE DEF G
    <3> QED
      BY <1>2, <1>4, <1>5, UpTo
  <2> QED
    BY <1>2, <2>1
<1> QED
  BY <1>1, <1>3, <1>6 DEF Turns, IsTurn, GoodMessages

-------------------------------------------------------------------------------
(* The tools that are declared.                                                *)
GoodTools(entries, api) ==
    /\ IsSeq(entries)
    /\ api = "responses" =>
          \A i \in DOMAIN entries : entries[i].type = "namespace" => IsSeq(entries[i].tools)

LEMMA TwoIs ==
    ASSUME NEW x, NEW y
    PROVE  /\ IsSeq(<<x, y>>) /\ Len(<<x, y>>) = 2 /\ DOMAIN <<x, y>> = {1, 2}
           /\ <<x, y>>[1] = x /\ <<x, y>>[2] = y
BY DEF IsSeq

LEMMA DeclaredInIs ==
    ASSUME NEW entries, IsSeq(entries), NEW namespace
    PROVE  IsSeq(DeclaredIn(entries, namespace))
<1> DEFINE chosen == {i \in DOMAIN entries : entries[i].type \in {"function", "custom"}}
           kept == Selected(entries, chosen)
           f == [i \in DOMAIN kept |->
                   [kind |-> kept[i].type, name |-> kept[i].name, namespace |-> namespace]]
<1>1. DeclaredIn(entries, namespace) = f
  BY DEF DeclaredIn, Those
<1>2. IsSeq(kept)
  <2> HIDE DEF chosen
  <2> QED
    BY SelectedIs
<1> HIDE DEF kept
<1>3. f = [i \in DOMAIN kept |-> f[i]]
  OBVIOUS
<1> HIDE DEF f
<1>4. IsSeq(f)
  BY <1>2, <1>3, MapIs
<1> QED
  BY <1>1, <1>4

LEMMA ResponsesToolsAre ==
    ASSUME NEW entries, GoodTools(entries, "responses")
    PROVE  IsSeq(ConvertResponsesTools(entries))
<1> DEFINE f == [i \in DOMAIN entries |->
                   IF entries[i].type = "namespace"
                   THEN DeclaredIn(entries[i].tools, entries[i].name)
                   ELSE DeclaredIn(<<entries[i]>>, "")]
<1>1. ConvertResponsesTools(entries) = FlattenSeq(f)
  BY DEF ConvertResponsesTools
<1>2. IsSeq(entries)
  BY DEF GoodTools
<1>3. f = [i \in DOMAIN entries |-> f[i]] /\ DOMAIN f = DOMAIN entries
  OBVIOUS
<1>4. ASSUME NEW i \in DOMAIN entries PROVE IsSeq(f[i])
  <2>1. CASE entries[i].type = "namespace"
    <3>1. IsSeq(entries[i].tools)
      BY <2>1 DEF GoodTools
    <3> QED
      BY <2>1, <3>1, DeclaredInIs
  <2>2. CASE entries[i].type # "namespace"
    <3> DEFINE one == <<entries[i]>>
    <3>1. IsSeq(one)
      BY OneIs
    <3>2. f[i] = DeclaredIn(one, "")
      BY <2>2
    <3> HIDE DEF one, f
    <3> QED
      BY <3>1, <3>2, DeclaredInIs
  <2> QED
    BY <2>1, <2>2
<1> HIDE DEF f
<1>5. IsSeq(f) /\ AllSeqs(f)
  BY <1>2, <1>3, <1>4, MapIs DEF AllSeqs
<1> QED
  BY <1>1, <1>5, FlatIs

LEMMA NamesAre ==
    ASSUME GoodTools(tools, conf.api)
    PROVE  IsSeq(DeclaredNames)
<1>1. CASE conf.api # "responses"
  BY <1>1 DEF DeclaredNames, GoodTools
<1>2. CASE conf.api = "responses"
  <2> DEFINE declared == ConvertResponsesTools(tools)
             flat == [i \in DOMAIN declared |-> Flat(declared[i])]
  <2>1. DeclaredNames = WithWebSearch(flat)
    BY <1>2 DEF DeclaredNames, ResponsesToolNames
  <2>2. IsSeq(declared)
    BY <1>2, ResponsesToolsAre
  <2> HIDE DEF declared
  <2>3. flat = [i \in DOMAIN declared |-> flat[i]]
    OBVIOUS
  <2> HIDE DEF flat
  <2>4. IsSeq(flat)
    BY <2>2, <2>3, MapIs
  <2> DEFINE search == "web_search"
             pair == <<"noop", search>>
  <2>5. IsSeq(pair)
    BY TwoIs
  <2>6. IsSeq(Append(flat, search))
    <3> HIDE DEF search
    <3> QED
      BY <2>4, AppendIs
  <2>7. WithWebSearch(flat) \in {pair, flat, Append(flat, search)}
    BY DEF WithWebSearch
  <2> HIDE DEF pair, search
  <2> QED
    BY <2>1, <2>4, <2>5, <2>6, <2>7
<1> QED
  BY <1>1, <1>2

-------------------------------------------------------------------------------
(* The items of a client.                                                      *)
GoodItem(item, api) ==
    /\ api = "messages" => GoodMessage(item)
    /\ api = "chat" => GoodChat(item)
    /\ api = "responses" => GoodInput(item)

GoodItems(s, api) == IsSeq(s) /\ \A i \in DOMAIN s : GoodItem(s[i], api)

LEMMA ItemsJoined ==
    ASSUME NEW s, NEW t, NEW api, GoodItems(s, api), GoodItems(t, api)
    PROVE  GoodItems(s \o t, api)
<1> DEFINE u == s \o t
<1>1. IsSeq(s) /\ IsSeq(t)
  BY DEF GoodItems
<1>2. IsSeq(u) /\ \A y : In(y, u) <=> In(y, s) \/ In(y, t)
  BY <1>1, ConcatIs
<1> HIDE DEF u
<1>3. ASSUME NEW i \in DOMAIN u PROVE GoodItem(u[i], api)
  <2>1. In(u[i], s) \/ In(u[i], t)
    BY <1>2 DEF In
  <2> QED
    BY <2>1 DEF In, GoodItems
<1> QED
  BY <1>2, <1>3 DEF GoodItems, u

LEMMA OneItem ==
    ASSUME NEW x, NEW api, GoodItem(x, api)
    PROVE  GoodItems(<<x>>, api)
<1> DEFINE s == <<x>>
<1>1. IsSeq(s) /\ DOMAIN s = {1} /\ s[1] = x
  BY OneIs
<1> HIDE DEF s
<1>2. GoodItems(s, api)
  BY <1>1 DEF GoodItems
<1> QED
  BY <1>2 DEF s

LEMMA PartsAre ==
    ASSUME NEW kinds, IsSeq(kinds)
    PROVE  /\ GoodParts(Parts(kinds)) /\ GoodContent(Parts(kinds), "user")
           /\ (\A i \in DOMAIN kinds : kinds[i] = "text")
                 => GoodContent(Parts(kinds), "assistant")
<1> DEFINE f == Parts(kinds)
<1>1. f = [i \in DOMAIN kinds |-> f[i]] /\ DOMAIN f = DOMAIN kinds
  BY DEF Parts
<1>2. ASSUME NEW i \in DOMAIN kinds
      PROVE  f[i].k \in {"text", "image"} /\ (kinds[i] = "text" => f[i].k = "text")
  <2> DEFINE text == <<Name(i)>>
             img == conf.images[kinds[i]]
  <2>1. f[i] = IF kinds[i] = "text" THEN [k |-> "text", text |-> text]
               ELSE [k |-> "image", img |-> img]
    BY DEF Parts
  <2> HIDE DEF text, img, f
  <2>2. CASE kinds[i] = "text"
    <3>1. f[i] = [k |-> "text", text |-> text]
      BY <2>1, <2>2
    <3> QED
      BY <3>1
  <2>3. CASE kinds[i] # "text"
    <3>1. f[i] = [k |-> "image", img |-> img]
      BY <2>1, <2>3
    <3> QED
      BY <2>3, <3>1
  <2> QED
    BY <2>2, <2>3
<1> HIDE DEF f
<1>3. IsSeq(f)
  BY <1>1, MapIs
<1>4. GoodParts(f) /\ GoodContent(f, "user")
  BY <1>1, <1>2, <1>3 DEF GoodParts, GoodContent, GoodBlock, In
<1>5. ASSUME \A i \in DOMAIN kinds : kinds[i] = "text" PROVE GoodContent(f, "assistant")
  BY <1>1, <1>2, <1>3, <1>5 DEF GoodContent, GoodBlock, In
<1> QED
  BY <1>4, <1>5 DEF f

LEMMA ItemIs ==
    ASSUME NEW role \in {"user", "assistant"}, NEW parts, GoodContent(parts, role),
           conf.api \in {"messages", "chat", "responses"}
    PROVE  GoodItem(Item(role, parts), conf.api)
<1>1. CASE conf.api = "messages"
  <2>1. Item(role, parts) = [role |-> role, content |-> parts]
    BY <1>1 DEF Item
  <2>2. Item(role, parts).role = role /\ Item(role, parts).content = parts
    BY <2>1
  <2> QED
    BY <1>1, <2>2 DEF GoodItem, GoodMessage
<1>2. CASE conf.api = "chat"
  <2> DEFINE none == <<>>
  <2>1. Item(role, parts) = [role |-> role, content |-> parts, tool_calls |-> none]
    BY <1>2 DEF Item
  <2>2. IsSeq(none)
    BY EmptyIs
  <2> HIDE DEF none
  <2>3. /\ Item(role, parts).role = role /\ Item(role, parts).content = parts
        /\ Item(role, parts).tool_calls = none
    BY <2>1
  <2> QED
    BY <1>2, <2>2, <2>3 DEF GoodItem, GoodChat
<1>3. CASE conf.api = "responses"
  <2>1. Item(role, parts) = [type |-> "message", role |-> role, content |-> parts]
    BY <1>3 DEF Item
  <2>2. Item(role, parts).role = role /\ Item(role, parts).content = parts
    BY <2>1
  <2> QED
    BY <1>3, <2>2 DEF GoodItem, GoodInput
<1> QED
  BY <1>1, <1>2, <1>3

LEMMA ResultItemIs ==
    ASSUME NEW id, NEW parts, GoodParts(parts),
           conf.api \in {"messages", "chat", "responses"}
    PROVE  GoodItem(ResultItem(id, parts), conf.api)
<1>1. CASE conf.api = "messages"
  <2> DEFINE b == [k |-> "tool_result", id |-> id, content |-> parts]
             content == <<b>>
  <2>1. ResultItem(id, parts) = [role |-> "user", content |-> content]
    BY <1>1 DEF ResultItem
  <2>2. b.k = "tool_result" /\ b.content = parts
    OBVIOUS
  <2> HIDE DEF b
  <2>3. GoodBlock(b, "user")
    BY <2>2 DEF GoodBlock
  <2>4. GoodContent(content, "user")
    BY <2>3, OneBlock
  <2> HIDE DEF content
  <2>5. ResultItem(id, parts).role = "user" /\ ResultItem(id, parts).content = content
    BY <2>1
  <2> QED
    BY <1>1, <2>4, <2>5 DEF GoodItem, GoodMessage
<1>2. CASE conf.api = "chat"
  <2>1. ResultItem(id, parts).role = "tool"
    BY <1>2 DEF ResultItem
  <2> QED
    BY <1>2, <2>1 DEF GoodItem, GoodChat
<1>3. CASE conf.api = "responses"
  <2>1. ResultItem(id, parts).type = "function_call_output"
    BY <1>3 DEF ResultItem
  <2> QED
    BY <1>3, <2>1 DEF GoodItem, GoodInput
<1> QED
  BY <1>1, <1>2, <1>3

(* What post_messages receives of them.                                        *)
LEMMA MessagesMade ==
    ASSUME GoodItems(items, conf.api), conf.api \in {"messages", "chat", "responses"}
    PROVE  GoodMessages(ToMessages)
<1>1. IsSeq(items) /\ \A m : In(m, items) => GoodItem(m, conf.api)
  BY DEF GoodItems, In
<1>2. CASE conf.api = "messages"
  BY <1>1, <1>2 DEF ToMessages, GoodItem, GoodMessages
<1>3. CASE conf.api = "chat"
  <2>1. \A m : In(m, items) => GoodChat(m)
    BY <1>1, <1>3 DEF GoodItem
  <2>2. ToMessages = OpenaiToAnthropic(items)
    BY <1>3 DEF ToMessages
  <2> QED
    BY <1>1, <2>1, <2>2, ChatTurns
<1>4. CASE conf.api = "responses"
  <2>1. \A m : In(m, items) => GoodInput(m)
    BY <1>1, <1>4 DEF GoodItem
  <2>2. ToMessages = ResponsesToAnthropic(items)
    BY <1>4 DEF ToMessages
  <2> QED
    BY <1>1, <2>1, <2>2, ResponsesTurns
<1> QED
  BY <1>2, <1>3, <1>4

-------------------------------------------------------------------------------
(* The answer a client reads.                                                  *)
LEMMA TextPartIs ==
    ASSUME NEW text
    PROVE  GoodContent(TextPart(text), "assistant")
<1> DEFINE p == [k |-> "text", text |-> text]
<1>1. p.k \notin {"image", "tool_result"}
  OBVIOUS
<1>2. TextPart(text) \in {<<>>, <<p>>}
  BY DEF TextPart
<1> HIDE DEF p
<1>3. GoodContent(<<p>>, "assistant")
  BY <1>1, PlainBlock, OneBlock
<1> QED
  BY <1>2, <1>3, NoContent

(* A message of a Chat client, read at once or put together of chunks.         *)
IsChatMessage(m) ==
    /\ m = [role |-> m.role, content |-> m.content, tool_calls |-> m.tool_calls,
            finish_reason |-> m.finish_reason]
    /\ GoodContent(m.content, "assistant") /\ IsSeq(m.tool_calls)

LEMMA ChunkRead ==
    ASSUME NEW m, IsChatMessage(m), NEW chunk
    PROVE  IsChatMessage(ReadChatChunk(m, chunk))
<1> DEFINE d == ReadChatChunk(m, chunk)
<1>1. CASE chunk.k = "content"
  <2> DEFINE part == TextPart(chunk.text)
  <2>1. d = [m EXCEPT !.content = part]
    BY <1>1 DEF ReadChatChunk
  <2>2. GoodContent(part, "assistant")
    BY TextPartIs
  <2> HIDE DEF part, d
  <2>3. d = [role |-> m.role, content |-> part, tool_calls |-> m.tool_calls,
             finish_reason |-> m.finish_reason]
    BY <2>1 DEF IsChatMessage
  <2> QED
    BY <2>2, <2>3 DEF IsChatMessage, d
<1>2. CASE chunk.k = "call" /\ chunk.index = Len(m.tool_calls) + 1
  <2> DEFINE more == Append(m.tool_calls, chunk.call)
  <2>1. d = [m EXCEPT !.tool_calls = more]
    BY <1>2 DEF ReadChatChunk
  <2>2. IsSeq(more)
    BY AppendIs DEF IsChatMessage
  <2> HIDE DEF more, d
  <2>3. d = [role |-> m.role, content |-> m.content, tool_calls |-> more,
             finish_reason |-> m.finish_reason]
    BY <2>1 DEF IsChatMessage
  <2> QED
    BY <2>2, <2>3 DEF IsChatMessage, d
<1>3. CASE chunk.k = "finish"
  <2>1. d = [m EXCEPT !.finish_reason = chunk.reason]
    BY <1>3 DEF ReadChatChunk
  <2> HIDE DEF d
  <2>2. d = [role |-> m.role, content |-> m.content, tool_calls |-> m.tool_calls,
             finish_reason |-> chunk.reason]
    BY <2>1 DEF IsChatMessage
  <2> QED
    BY <2>2 DEF IsChatMessage, d
<1>4. CASE /\ chunk.k \notin {"content", "finish"}
           /\ ~(chunk.k = "call" /\ chunk.index = Len(m.tool_calls) + 1)
  BY <1>4 DEF ReadChatChunk
<1> QED
  BY <1>1, <1>2, <1>3, <1>4

LEMMA ChunksRead ==
    ASSUME NEW chunks, IsSeq(chunks)
    PROVE  IsChatMessage(ReadChatStream(chunks))
<1> DEFINE none == <<>>
           base == [role |-> "assistant", content |-> none, tool_calls |-> none,
                    finish_reason |-> "none"]
<1>1. ReadChatStream(chunks) = AllChunk(base, chunks)
  BY DEF ReadChatStream, AllChunk
<1>2. IsChatMessage(base)
  <2>1. GoodContent(none, "assistant") /\ IsSeq(none)
    BY NoContent, EmptyIs
  <2> HIDE DEF none
  <2> QED
    BY <2>1 DEF IsChatMessage
<1>3. Len(chunks) \in Nat /\ DOMAIN chunks = 1 .. Len(chunks)
  BY SeqIs
<1> HIDE DEF base
<1>4. PICK f : /\ f[0] = base
               /\ \A i \in 1 .. Len(chunks) : f[i] = ReadChatChunk(f[i - 1], chunks[i])
               /\ AllChunk(base, chunks) = f[Len(chunks)]
  BY ChunkLoop
<1> DEFINE G == {k \in 0 .. Len(chunks) : IsChatMessage(f[k])}
<1>5. 0 \in G
  BY <1>2, <1>3, <1>4
<1>6. ASSUME NEW k \in 1 .. Len(chunks), k - 1 \in G PROVE k \in G
  <2>1. IsChatMessage(f[k - 1]) /\ f[k] = ReadChatChunk(f[k - 1], chunks[k])
    BY <1>3, <1>4, <1>6
  <2>2. IsChatMessage(f[k])
    BY <2>1, ChunkRead
  <2> QED
    BY <1>3, <2>2
<1>7. IsChatMessage(f[Len(chunks)])
  <2>1. \A k \in 0 .. Len(chunks) : k \in G
    <3> HIDE DEF G
    <3> QED
      BY <1>3, <1>5, <1>6, UpTo
  <2> QED
    BY <1>3, <2>1
<1> QED
  BY <1>1, <1>4, <1>7

(* What a Messages answer is parsed into.                                      *)
IsParsed(p) == IsSeq(p.tool_calls) /\ IsSeq(p.web_searches)

LEMMA ParsedIs ==
    ASSUME NEW a, GoodContent(a.content, "assistant")
    PROVE  IsParsed(ParseAnthropicMessage(a))
<1> DEFINE searches == OfKind(a.content, "server_tool_use")
           made == OfKind(a.content, "tool_use")
           f == [i \in DOMAIN made |-> [id |-> made[i].id, name |-> made[i].name,
                                        input |-> made[i].input]]
           g == [i \in DOMAIN searches |-> searches[i].query]
           p == ParseAnthropicMessage(a)
<1>1. p.tool_calls = f /\ p.web_searches = g
  BY DEF ParseAnthropicMessage
<1>2. IsSeq(searches) /\ IsSeq(made)
  BY KindsAre DEF GoodContent
<1> HIDE DEF searches, made
<1>3. f = [i \in DOMAIN made |-> f[i]] /\ g = [i \in DOMAIN searches |-> g[i]]
  OBVIOUS
<1> HIDE DEF f, g, p
<1>4. IsSeq(f) /\ IsSeq(g)
  BY <1>2, <1>3, MapIs
<1> QED
  BY <1>1, <1>4 DEF IsParsed, p

LEMMA StreamSseIs ==
    ASSUME NEW p, IsParsed(p)
    PROVE  IsSeq(BuildStreamSse(p))
<1> DEFINE a == <<[k |-> "role"]>>
           b == IF p.text = <<>> THEN <<>> ELSE <<[k |-> "content", text |-> p.text]>>
           c == [i \in DOMAIN p.tool_calls |->
                   [k |-> "call", index |-> i, call |-> p.tool_calls[i]]]
           d == <<[k |-> "finish", reason |-> p.finish_reason]>>
<1>1. BuildStreamSse(p) = a \o b \o c \o d
  BY DEF BuildStreamSse
<1>2. IsSeq(a) /\ IsSeq(d)
  BY OneIs
<1>3. IsSeq(b)
  BY OneIs, EmptyIs
<1>4. IsSeq(c)
  <2>1. c = [i \in DOMAIN p.tool_calls |-> c[i]]
    OBVIOUS
  <2> HIDE DEF c
  <2> QED
    BY <2>1, MapIs DEF IsParsed
<1> HIDE DEF a, b, c, d
<1>5. IsSeq(a \o b)
  BY <1>2, <1>3, ConcatIs
<1>6. IsSeq(a \o b \o c)
  BY <1>4, <1>5, ConcatIs
<1> QED
  BY <1>1, <1>2, <1>6, ConcatIs

LEMMA ChatAnswerIs ==
    ASSUME NEW p, IsParsed(p)
    PROVE  GoodItems(ChatAnswer(p), "chat")
<1> DEFINE m == IF conf.stream THEN ReadChatStream(BuildStreamSse(p))
                ELSE BuildCompletionJson(p)
<1>1. IsChatMessage(m)
  <2>1. CASE conf.stream
    BY <2>1, StreamSseIs, ChunksRead
  <2>2. CASE ~conf.stream
    <3> DEFINE text == TextPart(p.text)
    <3>1. m = [role |-> "assistant", content |-> text, tool_calls |-> p.tool_calls,
               finish_reason |-> p.finish_reason]
      BY <2>2 DEF BuildCompletionJson
    <3>2. GoodContent(text, "assistant")
      BY TextPartIs
    <3> HIDE DEF m, text
    <3>3. m.content = text /\ m.tool_calls = p.tool_calls
      BY <3>1
    <3>4. m = [role |-> m.role, content |-> m.content, tool_calls |-> m.tool_calls,
               finish_reason |-> m.finish_reason]
      BY <3>1
    <3> QED
      BY <3>2, <3>3, <3>4 DEF IsChatMessage, IsParsed
  <2> QED
    BY <2>1, <2>2
<1>2. ChatAnswer(p) = <<ChatItem(m)>>
  BY DEF ChatAnswer
<1> HIDE DEF m
<1>3. /\ ChatItem(m).role = "assistant" /\ ChatItem(m).content = m.content
      /\ ChatItem(m).tool_calls = m.tool_calls
  BY DEF ChatItem
<1>4. GoodItem(ChatItem(m), "chat")
  BY <1>1, <1>3 DEF GoodItem, GoodChat, IsChatMessage
<1> QED
  BY <1>2, <1>4, OneItem

-------------------------------------------------------------------------------
(* An output item of Responses: of a kind that has events, its text good.      *)
IsOutput(item) ==
    /\ item.type \in {"message", "function_call", "custom_tool_call", "reasoning",
                      "web_search_call"}
    /\ item.type = "message" => GoodContent(item.content, "assistant") /\ item.role = "assistant"

IsView(view) == IsSeq(view) /\ \A y : In(y, view) => IsOutput(y)

LEMMA ViewJoined ==
    ASSUME NEW s, NEW t, IsView(s), IsView(t)
    PROVE  IsView(s \o t)
<1>1. IsSeq(s \o t) /\ \A y : In(y, s \o t) <=> In(y, s) \/ In(y, t)
  BY ConcatIs DEF IsView
<1> DEFINE u == s \o t
<1> HIDE DEF u
<1>2. IsSeq(u) /\ \A y : In(y, u) <=> In(y, s) \/ In(y, t)
  BY <1>1 DEF u
<1>3. IsView(u)
  BY <1>2 DEF IsView
<1> QED
  BY <1>3 DEF u

LEMMA ViewOne ==
    ASSUME NEW x, IsOutput(x)
    PROVE  IsView(<<x>>)
<1> DEFINE s == <<x>>
<1>1. IsSeq(s) /\ DOMAIN s = {1} /\ s[1] = x
  BY OneIs
<1> HIDE DEF s
<1>2. IsView(s)
  BY <1>1 DEF IsView, In
<1> QED
  BY <1>2 DEF s

LEMMA ViewNone == IsView(<<>>)
BY EmptyIs DEF IsView, In

LEMMA ViewMap ==
    ASSUME NEW s, IsSeq(s), NEW f, f = [i \in DOMAIN s |-> f[i]],
           \A i \in DOMAIN s : IsOutput(f[i])
    PROVE  IsView(f)
<1>1. IsSeq(f) /\ DOMAIN f = DOMAIN s
  BY MapIs
<1> QED
  BY <1>1 DEF IsView, In

LEMMA CallItemIs ==
    ASSUME NEW call, NEW kinds
    PROVE  IsOutput(CallItem(call, kinds))
<1>1. CallItem(call, kinds).type \in {"custom_tool_call", "function_call"}
  BY DEF CallItem
<1> QED
  BY <1>1 DEF IsOutput

LEMMA ViewIs ==
    ASSUME NEW p, IsParsed(p), NEW kinds
    PROVE  IsView(BuildView(p, kinds))
<1> DEFINE thought == [type |-> "reasoning", summary |-> p.thinking]
           said == [type |-> "message", role |-> "assistant", content |-> TextPart(p.text)]
           a == IF p.thinking = <<>> THEN <<>> ELSE <<thought>>
           b == [i \in DOMAIN p.web_searches |->
                   [type |-> "web_search_call", query |-> p.web_searches[i]]]
           c == IF p.text = <<>> THEN <<>> ELSE <<said>>
           d == [i \in DOMAIN p.tool_calls |-> CallItem(p.tool_calls[i], kinds)]
<1>1. BuildView(p, kinds) = a \o b \o c \o d
  BY DEF BuildView
<1>2. IsOutput(thought)
  BY DEF IsOutput
<1>3. IsOutput(said)
  <2> DEFINE text == TextPart(p.text)
  <2>1. GoodContent(text, "assistant")
    BY TextPartIs
  <2>2. said = [type |-> "message", role |-> "assistant", content |-> text]
    OBVIOUS
  <2> HIDE DEF text, said
  <2>3. said.type = "message" /\ said.role = "assistant" /\ said.content = text
    BY <2>2
  <2> QED
    BY <2>1, <2>3 DEF IsOutput
<1> HIDE DEF thought, said
<1>4. IsView(a) /\ IsView(c)
  BY <1>2, <1>3, ViewOne, ViewNone
<1>5. IsView(b)
  <2>1. b = [i \in DOMAIN p.web_searches |-> b[i]]
    OBVIOUS
  <2>2. \A i \in DOMAIN p.web_searches : IsOutput(b[i])
    BY DEF IsOutput
  <2> HIDE DEF b
  <2> QED
    BY <2>1, <2>2, ViewMap DEF IsParsed
<1>6. IsView(d)
  <2>1. d = [i \in DOMAIN p.tool_calls |-> d[i]]
    OBVIOUS
  <2>2. \A i \in DOMAIN p.tool_calls : IsOutput(d[i])
    BY CallItemIs
  <2> HIDE DEF d
  <2> QED
    BY <2>1, <2>2, ViewMap DEF IsParsed
<1> HIDE DEF a, b, c, d
<1>7. IsView(a \o b)
  BY <1>4, <1>5, ViewJoined
<1>8. IsView(a \o b \o c)
  BY <1>4, <1>7, ViewJoined
<1> QED
  BY <1>1, <1>6, <1>8, ViewJoined

(* The events of an item: only the last one has the item.                      *)
LEMMA ItemEventsAre ==
    ASSUME NEW item, IsOutput(item), NEW index
    PROVE  /\ IsSeq(ItemEvents(item, index))
           /\ \A e : In(e, ItemEvents(item, index)) /\ e.ev = "output_item.done" => e.item = item
<1> DEFINE deltas == Deltas[item.type]
           first == [ev |-> "output_item.added", index |-> index]
           last == [ev |-> "output_item.done", index |-> index, item |-> item]
           a == <<first>>
           b == [i \in DOMAIN deltas |-> [ev |-> deltas[i], index |-> index]]
           c == <<last>>
<1>1. ItemEvents(item, index) = a \o b \o c
  BY DEF ItemEvents
<1>2. IsSeq(deltas) /\ \A i \in DOMAIN deltas : deltas[i] # "output_item.done"
  <2>1. CASE item.type = "message"
    BY <2>1 DEF Deltas, IsSeq
  <2>2. CASE item.type = "function_call"
    BY <2>2 DEF Deltas, IsSeq
  <2>3. CASE item.type = "custom_tool_call"
    BY <2>3 DEF Deltas, IsSeq
  <2>4. CASE item.type = "reasoning"
    BY <2>4 DEF Deltas, IsSeq
  <2>5. CASE item.type = "web_search_call"
    BY <2>5 DEF Deltas, IsSeq
  <2> QED
    BY <2>1, <2>2, <2>3, <2>4, <2>5 DEF IsOutput
<1>3. IsSeq(a) /\ \A e : In(e, a) => e.ev # "output_item.done"
  <2>1. IsSeq(a) /\ DOMAIN a = {1} /\ a[1] = first
    BY OneIs
  <2>2. first.ev # "output_item.done"
    OBVIOUS
  <2> HIDE DEF first, a
  <2> QED
    BY <2>1, <2>2 DEF In
<1> HIDE DEF deltas
<1>4. IsSeq(b) /\ \A e : In(e, b) => e.ev # "output_item.done"
  <2>1. b = [i \in DOMAIN deltas |-> b[i]] /\ DOMAIN b = DOMAIN deltas
    OBVIOUS
  <2>2. \A i \in DOMAIN b : b[i].ev = deltas[i]
    OBVIOUS
  <2> HIDE DEF b
  <2> QED
    BY <1>2, <2>1, <2>2, MapIs DEF In
<1>5. IsSeq(c) /\ \A e : In(e, c) => e.item = item
  <2>1. IsSeq(c) /\ DOMAIN c = {1} /\ c[1] = last
    BY OneIs
  <2>2. last.item = item
    OBVIOUS
  <2> HIDE DEF last, c
  <2> QED
    BY <2>1, <2>2 DEF In
<1> HIDE DEF a, b, c
<1>6. IsSeq(a \o b) /\ \A e : In(e, a \o b) <=> In(e, a) \/ In(e, b)
  BY <1>3, <1>4, ConcatIs
<1> DEFINE ab == a \o b
<1> HIDE DEF ab
<1>7. IsSeq(ab) /\ \A e : In(e, ab) <=> In(e, a) \/ In(e, b)
  BY <1>6 DEF ab
<1>8. IsSeq(ab \o c) /\ \A e : In(e, ab \o c) <=> In(e, ab) \/ In(e, c)
  BY <1>5, <1>7, ConcatIs
<1>9. ItemEvents(item, index) = ab \o c
  BY <1>1 DEF ab
<1> QED
  BY <1>3, <1>4, <1>5, <1>7, <1>8, <1>9

(* What is read of a stream of a view is of the view.                          *)
LEMMA ViewRead ==
    ASSUME NEW view, IsView(view), NEW reason
    PROVE  GoodItems(ReadResponsesStream(BuildResponsesSse(view, reason)), "responses")
<1> DEFINE opens == <<[ev |-> "created"], [ev |-> "in_progress"]>>
           each == [i \in DOMAIN view |-> ItemEvents(view[i], i)]
           body == FlattenSeq(each)
           end == [ev |-> IF reason = "length" THEN "incomplete" ELSE "completed"]
           closes == <<end>>
           events == BuildResponsesSse(view, reason)
           chosen == {i \in DOMAIN events : events[i].ev = "output_item.done"}
           done == Selected(events, chosen)
           got == [i \in DOMAIN done |-> done[i].item]
<1>1. events = opens \o body \o closes
  BY DEF BuildResponsesSse
<1>2. ReadResponsesStream(events) = got
  BY DEF ReadResponsesStream, Those
<1>3. IsSeq(opens) /\ \A e : In(e, opens) => e.ev # "output_item.done"
  <2> DEFINE one == [ev |-> "created"]
             two == [ev |-> "in_progress"]
  <2>1. one.ev # "output_item.done" /\ two.ev # "output_item.done" /\ opens = <<one, two>>
    OBVIOUS
  <2> HIDE DEF one, two, opens
  <2>2. IsSeq(opens) /\ DOMAIN opens = {1, 2} /\ opens[1] = one /\ opens[2] = two
    BY <2>1, TwoIs
  <2> QED
    BY <2>1, <2>2 DEF In
<1>4. IsSeq(closes) /\ \A e : In(e, closes) => e.ev # "output_item.done"
  <2>1. IsSeq(closes) /\ DOMAIN closes = {1} /\ closes[1] = end
    BY OneIs
  <2>2. end.ev # "output_item.done"
    OBVIOUS
  <2> HIDE DEF end, closes
  <2> QED
    BY <2>1, <2>2 DEF In
<1>5. IsSeq(each) /\ AllSeqs(each) /\ DOMAIN each = DOMAIN view
  <2>1. each = [i \in DOMAIN view |-> each[i]] /\ DOMAIN each = DOMAIN view
    OBVIOUS
  <2>2. \A i \in DOMAIN view : IsSeq(each[i])
    BY ItemEventsAre DEF IsView, In
  <2> HIDE DEF each
  <2> QED
    BY <2>1, <2>2, MapIs DEF IsView, AllSeqs
<1>6. \A i \in DOMAIN view : \A e : In(e, each[i]) /\ e.ev = "output_item.done" => e.item = view[i]
  BY ItemEventsAre DEF IsView, In
<1> HIDE DEF opens, closes, each
<1>7. IsSeq(body) /\ \A e : In(e, body) <=> \E i \in DOMAIN each : In(e, each[i])
  BY <1>5, FlatIs
<1> HIDE DEF body
<1> DEFINE start == opens \o body
<1>8. IsSeq(start) /\ \A e : In(e, start) <=> In(e, opens) \/ In(e, body)
  BY <1>3, <1>7, ConcatIs
<1>9. events = start \o closes
  BY <1>1
<1> HIDE DEF start
<1>10. IsSeq(start \o closes) /\ \A e : In(e, start \o closes) <=> In(e, start) \/ In(e, closes)
  BY <1>4, <1>8, ConcatIs
<1> HIDE DEF events
<1>11. IsSeq(events) /\ \A e : In(e, events) <=> In(e, start) \/ In(e, closes)
  BY <1>9, <1>10
<1>12. /\ IsSeq(done)
       /\ \A y : In(y, done) <=> \E i \in DOMAIN events : i \in chosen /\ events[i] = y
  <2> HIDE DEF chosen
  <2> QED
    BY <1>11, SelectedIs
<1> HIDE DEF done
<1>13. ASSUME NEW i \in DOMAIN done PROVE IsOutput(done[i].item)
  <2> DEFINE e == done[i]
  <2>1. In(e, done)
    BY DEF In
  <2>2. In(e, events) /\ e.ev = "output_item.done"
    BY <1>12, <2>1 DEF In
  <2> HIDE DEF e
  <2>3. In(e, body)
    BY <1>3, <1>4, <1>8, <1>11, <2>2
  <2>4. PICK j \in DOMAIN view : In(e, each[j])
    BY <1>5, <1>7, <2>3
  <2>5. e.item = view[j]
    BY <1>6, <2>2, <2>4
  <2>6. IsOutput(e.item)
    BY <2>5 DEF IsView, In
  <2> QED
    BY <2>6 DEF e
<1>14. got = [i \in DOMAIN done |-> got[i]] /\ \A i \in DOMAIN done : got[i] = done[i].item
  OBVIOUS
<1> HIDE DEF got
<1>15. IsView(got)
  BY <1>12, <1>13, <1>14, ViewMap
<1>16. \A y : IsOutput(y) => GoodItem(y, "responses")
  BY DEF IsOutput, GoodItem, GoodInput
<1>17. GoodItems(got, "responses")
  BY <1>15, <1>16 DEF GoodItems, IsView, In
<1> QED
  BY <1>2, <1>17 DEF events

LEMMA ViewItems ==
    ASSUME NEW view, IsView(view)
    PROVE  GoodItems(view, "responses")
<1>1. \A y : IsOutput(y) => GoodItem(y, "responses")
  BY DEF IsOutput, GoodItem, GoodInput
<1> QED
  BY <1>1 DEF GoodItems, IsView, In

(* The client appends only what it may send back.                              *)
LEMMA AnswerIs ==
    ASSUME NEW a, GoodContent(a.content, "assistant"),
           conf.api \in {"messages", "chat", "responses"}
    PROVE  GoodItems(AnswerItems(a), conf.api)
<1> DEFINE p == ParseAnthropicMessage(a)
<1>1. IsParsed(p)
  BY ParsedIs
<1> HIDE DEF p
<1>2. CASE conf.api = "messages"
  <2> DEFINE m == [role |-> "assistant", content |-> a.content]
  <2>1. AnswerItems(a) = <<m>>
    BY <1>2 DEF AnswerItems
  <2>2. m.role = "assistant" /\ m.content = a.content
    OBVIOUS
  <2> HIDE DEF m
  <2>3. GoodItem(m, conf.api)
    BY <1>2, <2>2 DEF GoodItem, GoodMessage
  <2> QED
    BY <2>1, <2>3, OneItem
<1>3. CASE conf.api = "chat"
  <2>1. AnswerItems(a) = ChatAnswer(p)
    BY <1>3 DEF AnswerItems, p
  <2> QED
    BY <1>1, <1>3, <2>1, ChatAnswerIs
<1>4. CASE conf.api = "responses"
  <2> DEFINE view == BuildView(p, ToolKinds(ConvertResponsesTools(tools)))
  <2>1. AnswerItems(a) = ResponsesAnswer(p, view)
    BY <1>4 DEF AnswerItems, p
  <2>2. IsView(view)
    BY <1>1, ViewIs
  <2> HIDE DEF view
  <2>3. CASE conf.stream
    <3>1. AnswerItems(a) = ReadResponsesStream(BuildResponsesSse(view, p.finish_reason))
      BY <2>1, <2>3 DEF ResponsesAnswer
    <3> QED
      BY <1>4, <2>2, <3>1, ViewRead
  <2>4. CASE ~conf.stream
    BY <1>4, <2>1, <2>2, <2>4, ViewItems DEF ResponsesAnswer
  <2> QED
    BY <2>3, <2>4
<1> QED
  BY <1>2, <1>3, <1>4

-------------------------------------------------------------------------------
(* What the proxy answers with.                                                *)
LEMMA ContentFlat ==
    ASSUME NEW ss, IsSeq(ss), NEW role, \A i \in DOMAIN ss : GoodContent(ss[i], role)
    PROVE  GoodContent(FlattenSeq(ss), role)
<1>1. AllSeqs(ss)
  BY DEF AllSeqs, GoodContent
<1>2. IsSeq(FlattenSeq(ss)) /\ \A y : In(y, FlattenSeq(ss)) <=> \E i \in DOMAIN ss : In(y, ss[i])
  BY <1>1, FlatIs
<1> DEFINE flat == FlattenSeq(ss)
<1> HIDE DEF flat
<1>3. IsSeq(flat) /\ \A y : In(y, flat) <=> \E i \in DOMAIN ss : In(y, ss[i])
  BY <1>2 DEF flat
<1>4. GoodContent(flat, role)
  BY <1>3 DEF GoodContent
<1> QED
  BY <1>4 DEF flat

LEMMA PresentationIs ==
    ASSUME NEW use, NEW found
    PROVE  GoodContent(Presentation(use, found), "assistant")
<1> DEFINE x == [k |-> "server_tool_use", name |-> use.name, query |-> use.input]
           y == [k |-> "web_search_tool_result", found |-> found]
           s == <<x, y>>
<1>1. Presentation(use, found) = s
  BY DEF Presentation
<1>2. x.k = "server_tool_use" /\ y.k = "web_search_tool_result"
  OBVIOUS
<1> HIDE DEF x, y
<1>3. IsSeq(s) /\ DOMAIN s = {1, 2} /\ s[1] = x /\ s[2] = y
  BY TwoIs
<1>4. GoodBlock(x, "assistant") /\ GoodBlock(y, "assistant")
  BY <1>2, PlainBlock
<1> HIDE DEF s
<1>5. GoodContent(s, "assistant")
  BY <1>3, <1>4 DEF GoodContent, In
<1> QED
  BY <1>1, <1>5

(* What a round of the upstream left: calls, and calls that leaked.            *)
GoodRound(round) == GoodContent(round.uses, "assistant") /\ IsSeq(round.invokes)

LEMMA RestoredIs ==
    ASSUME NEW r, IsSeq(r.uses), IsSeq(r.invokes)
    PROVE  GoodRound(Restored(r))
<1> DEFINE round == Restored(r)
           f == [i \in DOMAIN r.uses |->
                   RestoreToolUse([r.uses[i] EXCEPT !.id = "c" \o Name(i),
                                                     !.input = Received(r, i)], request.names)]
           g == [i \in DOMAIN r.invokes |->
                   RestoreToolUse([r.invokes[i] EXCEPT !.id = "v" \o Name(i)], request.names)
                   @@ [kiro_name |-> r.invokes[i].name]]
<1>1. round.uses = f /\ round.invokes = g
  BY DEF Restored
<1>2. f = [i \in DOMAIN r.uses |-> f[i]] /\ g = [i \in DOMAIN r.invokes |-> g[i]]
  OBVIOUS
<1>3. \A i \in DOMAIN r.uses : f[i].k \notin {"image", "tool_result"}
  <2>1. \A use, names : RestoreToolUse(use, names).k = "tool_use"
    BY DEF RestoreToolUse
  <2> QED
    BY <2>1
<1> HIDE DEF round, f, g
<1>4. GoodContent(f, "assistant")
  BY <1>2, <1>3, UsesAsBlocks
<1>5. IsSeq(g)
  BY <1>2, MapIs
<1> QED
  BY <1>1, <1>4, <1>5 DEF GoodRound, round

LEMMA NonStreamIs ==
    ASSUME NEW out
    PROVE  GoodContent(BuildNonStreamContent(out), "assistant")
<1>1. CASE ~conf.thinking
  BY <1>1, TextPartIs DEF BuildNonStreamContent
<1>2. CASE conf.thinking
  <2> DEFINE b == [k |-> "thinking", text |-> out.thinking]
             first == IF out.thinking = <<>> THEN <<>> ELSE <<b>>
             text == TextPart(out.text)
  <2>1. BuildNonStreamContent(out) = first \o text
    BY <1>2 DEF BuildNonStreamContent
  <2>2. b.k = "thinking"
    OBVIOUS
  <2> HIDE DEF b
  <2>3. GoodContent(<<b>>, "assistant")
    BY <2>2, PlainBlock, OneBlock
  <2>4. GoodContent(first, "assistant")
    BY <2>3, NoContent
  <2>5. GoodContent(text, "assistant")
    BY TextPartIs
  <2> HIDE DEF first, text
  <2> QED
    BY <2>1, <2>4, <2>5, ContentJoined
<1> QED
  BY <1>1, <1>2

LEMMA FlushIs ==
    ASSUME NEW shown, GoodContent(shown, "assistant"), NEW round, GoodRound(round),
           NEW searched, NEW known
    PROVE  GoodContent(BuildFlushContent(shown, round, searched, known), "assistant")
<1> DEFINE text == TextPart(round.text \o Verbatim(round, known))
           leaked == Reclaimed(round, known)
           made == [i \in DOMAIN leaked |-> ToolUse(leaked[i])]
           each == [i \in DOMAIN round.uses |->
                      IF IsSearch(round.uses[i]) THEN Presentation(round.uses[i], searched[i])
                      ELSE <<round.uses[i]>>]
<1>1. BuildFlushContent(shown, round, searched, known)
         = shown \o text \o made \o FlattenSeq(each)
  BY DEF BuildFlushContent
<1>2. GoodContent(text, "assistant")
  BY TextPartIs
<1>3. GoodContent(made, "assistant")
  <2> DEFINE chosen == {i \in DOMAIN round.invokes :
                          /\ round.invokes[i].kiro_name \in known \ {"web_search"}
                          /\ ~\E j \in DOMAIN round.uses :
                                 SameCall(round.invokes[i], round.uses[j])
                                 /\ ~IsSearch(round.uses[j])}
  <2>1. leaked = Selected(round.invokes, chosen)
    BY DEF Reclaimed, Those
  <2>2. IsSeq(Selected(round.invokes, chosen))
    <3> HIDE DEF chosen
    <3> QED
      BY SelectedIs DEF GoodRound
  <2> HIDE DEF leaked
  <2>3. IsSeq(leaked)
    BY <2>1, <2>2
  <2> QED
    BY <2>3, CallsAsBlocks
<1>4. GoodContent(FlattenSeq(each), "assistant")
  <2>1. each = [i \in DOMAIN round.uses |-> each[i]] /\ DOMAIN each = DOMAIN round.uses
    OBVIOUS
  <2>2. ASSUME NEW i \in DOMAIN round.uses PROVE GoodContent(each[i], "assistant")
    <3>1. CASE IsSearch(round.uses[i])
      BY <3>1, PresentationIs
    <3>2. CASE ~IsSearch(round.uses[i])
      <4> DEFINE u == round.uses[i]
      <4>1. GoodBlock(u, "assistant")
        BY DEF GoodRound, GoodContent, In
      <4>2. each[i] = <<u>>
        BY <3>2
      <4> HIDE DEF u
      <4>3. GoodContent(<<u>>, "assistant")
        BY <4>1, OneBlock
      <4> QED
        BY <4>2, <4>3
    <3> QED
      BY <3>1, <3>2
  <2>3. IsSeq(round.uses)
    BY DEF GoodRound, GoodContent
  <2> HIDE DEF each
  <2>4. IsSeq(each)
    BY <2>1, <2>3, MapIs
  <2> QED
    BY <2>1, <2>2, <2>4, ContentFlat
<1> HIDE DEF text, made, each
<1>5. GoodContent(shown \o text, "assistant")
  BY <1>2, ContentJoined
<1>6. GoodContent(shown \o text \o made, "assistant")
  BY <1>3, <1>5, ContentJoined
<1> QED
  BY <1>1, <1>4, <1>6, ContentJoined

LEMMA PresentedIs ==
    ASSUME NEW l, GoodRound(l.outcome)
    PROVE  GoodContent(Presented(l), "assistant")
<1> DEFINE each == [i \in DOMAIN l.outcome.uses |->
                      Presentation(l.outcome.uses[i], l.searched[i])]
<1>1. Presented(l) = FlattenSeq(each)
  BY DEF Presented
<1>2. each = [i \in DOMAIN l.outcome.uses |-> each[i]] /\ DOMAIN each = DOMAIN l.outcome.uses
  OBVIOUS
<1>3. \A i \in DOMAIN l.outcome.uses : GoodContent(each[i], "assistant")
  BY PresentationIs
<1> HIDE DEF each
<1>4. IsSeq(each)
  BY <1>2, MapIs DEF GoodRound, GoodContent
<1> QED
  BY <1>1, <1>2, <1>3, <1>4, ContentFlat

LEMMA RoundAppended ==
    ASSUME NEW ms, GoodMessages(ms), NEW round, GoodRound(round), NEW searched
    PROVE  /\ GoodMessages(AppendSearchRound(ms, round, searched))
           /\ AppendSearchRound(ms, round, searched) # <<>>
<1> DEFINE said == TextPart(round.text) \o round.uses
           found(i) == <<[k |-> "text", text |-> IF searched[i] THEN <<"[results]">>
                                                 ELSE <<"[no results]">>]>>
           results == [i \in DOMAIN round.uses |->
                         [k |-> "tool_result", id |-> round.uses[i].id, content |-> found(i)]]
           x == [role |-> "assistant", content |-> said]
           y == [role |-> "user", content |-> results]
           more == AppendSearchRound(ms, round, searched)
<1>1. more = ms \o <<x, y>>
  BY DEF AppendSearchRound
<1>2. GoodContent(said, "assistant")
  <2> DEFINE text == TextPart(round.text)
  <2>1. GoodContent(text, "assistant")
    BY TextPartIs
  <2> HIDE DEF text
  <2>2. GoodContent(text \o round.uses, "assistant")
    BY <2>1, ContentJoined DEF GoodRound
  <2> QED
    BY <2>2 DEF text
<1>3. GoodContent(results, "user")
  <2>1. results = [i \in DOMAIN round.uses |-> results[i]] /\ DOMAIN results = DOMAIN round.uses
    OBVIOUS
  <2>2. ASSUME NEW i \in DOMAIN round.uses PROVE GoodBlock(results[i], "user")
    <3>1. results[i] = [k |-> "tool_result", id |-> round.uses[i].id, content |-> found(i)]
      OBVIOUS
    <3>2. GoodParts(found(i))
      BY OneText
    <3> DEFINE b == results[i]
               parts == found(i)
               id == round.uses[i].id
    <3>4. GoodParts(parts) /\ b = [k |-> "tool_result", id |-> id, content |-> parts]
      BY <3>1, <3>2
    <3> HIDE DEF b, parts, results, id
    <3>3. b.k = "tool_result" /\ b.content = parts
      BY <3>4
    <3>5. GoodBlock(b, "user")
      BY <3>3, <3>4 DEF GoodBlock
    <3> QED
      BY <3>5 DEF b
  <2>3. IsSeq(round.uses)
    BY DEF GoodRound, GoodContent
  <2> HIDE DEF results
  <2>4. IsSeq(results)
    BY <2>1, <2>3, MapIs
  <2> QED
    BY <2>1, <2>2, <2>4 DEF GoodContent, In
<1> HIDE DEF said, results
<1>4. x.role = "assistant" /\ x.content = said /\ y.role = "user" /\ y.content = results
  OBVIOUS
<1> HIDE DEF x, y
<1>5. GoodMessage(x) /\ GoodMessage(y)
  BY <1>2, <1>3, <1>4 DEF GoodMessage
<1> DEFINE pair == <<x, y>>
<1>6. IsSeq(pair) /\ Len(pair) = 2 /\ DOMAIN pair = {1, 2} /\ pair[1] = x /\ pair[2] = y
  BY TwoIs
<1>7. more = ms \o pair
  BY <1>1
<1> HIDE DEF pair, more
<1>8. /\ IsSeq(ms \o pair) /\ Len(ms \o pair) = Len(ms) + Len(pair)
      /\ \A z : In(z, ms \o pair) <=> In(z, ms) \/ In(z, pair)
  BY <1>6, ConcatIs DEF GoodMessages
<1>9. IsSeq(more) /\ Len(more) = Len(ms) + 2 /\ \A z : In(z, more) <=> In(z, ms) \/ In(z, pair)
  BY <1>6, <1>7, <1>8
<1>10. GoodMessages(more)
  <2>1. \A z : In(z, pair) => GoodMessage(z)
    BY <1>5, <1>6 DEF In
  <2> QED
    BY <1>9, <2>1 DEF GoodMessages
<1>11. more # <<>>
  <2>1. Len(ms) \in Nat
    BY SeqIs DEF GoodMessages
  <2> QED
    BY <1>9, <2>1, EmptyOrNot
<1> QED
  BY <1>10, <1>11 DEF more

-------------------------------------------------------------------------------
(* What the conversation is made of, between any two steps: items that may be  *)
(* sent back, a payload that may be converted, and, while the upstream has it, *)
(* the request made of this payload and of no other.                           *)
IsAnswer(a) ==
    a = [status |-> a.status, content |-> a.content, stop_reason |-> a.stop_reason,
         kiro_thinking |-> a.kiro_thinking]

Sent ==
    /\ request = ConvertRequest(payload, DeclaredNames, conf.mode)
    /\ request.error = "none"

Talk ==
    /\ conf \in Scenarios /\ GoodTools(tools, conf.api)
    /\ GoodItems(items, conf.api)
    /\ IsAnswer(answer)
    /\ phase # "client" => GoodMessages(payload) /\ payload # <<>>
    /\ phase \in {"upstream", "search"} => Sent
    /\ GoodContent(loop.presentation, "assistant")
    /\ phase = "search" => GoodRound(loop.outcome)

LEMMA ConfIs ==
    ASSUME Talk
    PROVE  /\ conf.api \in {"messages", "chat", "responses"}
           /\ \A kinds \in conf.says \cup conf.returns : IsSeq(kinds)
           /\ \A r \in conf.rounds : IsSeq(r.uses) /\ IsSeq(r.invokes)
BY ScenariosAssumption DEF Talk

LEMMA TalkRests ==
    ASSUME Talk, conf' = conf, GoodTools(tools', conf.api), GoodItems(items', conf.api),
           IsAnswer(answer'), phase' = "client", GoodContent(loop'.presentation, "assistant")
    PROVE  Talk'
BY DEF Talk

LEMMA TalkEnds ==
    ASSUME Talk, Ends, UNCHANGED <<conf, tools, items>>,
           GoodContent(loop'.presentation, "assistant")
    PROVE  Talk'
<1> DEFINE none == <<>>
<1>1. answer' = [status |-> "error", content |-> none, stop_reason |-> "none",
                 kiro_thinking |-> none]
  BY DEF Ends, NoAnswer
<1> HIDE DEF none
<1>2. IsAnswer(answer')
  BY <1>1 DEF IsAnswer
<1>3. phase' = "client" /\ GoodTools(tools', conf.api) /\ GoodItems(items', conf.api)
  BY DEF Ends, Talk
<1> QED
  BY <1>2, <1>3, TalkRests

LEMMA ContentSet ==
    ASSUME NEW a, IsAnswer(a), NEW content, NEW stop, NEW thinking
    PROVE  [a EXCEPT !.content = content, !.stop_reason = stop,
                     !.kiro_thinking = thinking].content = content
<1>1. DOMAIN a = {"status", "content", "stop_reason", "kiro_thinking"}
  BY DEF IsAnswer
<1> QED
  BY <1>1

LEMMA TalkDelivers ==
    ASSUME Talk, UNCHANGED <<conf, tools>>, GoodContent(loop'.presentation, "assistant"),
           NEW content, GoodContent(content, "assistant"),
           NEW stop, NEW thinking, NEW credits, Deliver(content, stop, thinking, credits)
    PROVE  Talk'
<1> DEFINE a == [answer EXCEPT !.content = content, !.stop_reason = stop,
                               !.kiro_thinking = thinking]
<1>1. /\ answer' = [status |-> "success", content |-> content, stop_reason |-> stop,
                    kiro_thinking |-> thinking]
      /\ items' = items \o AnswerItems(a) /\ phase' = "client"
  BY DEF Deliver
<1>2. IsAnswer(answer')
  BY <1>1 DEF IsAnswer
<1>3. a.content = content
  <2>1. IsAnswer(answer)
    BY DEF Talk
  <2> QED
    BY <2>1, ContentSet
<1> HIDE DEF a
<1>4. GoodItems(AnswerItems(a), conf.api)
  BY <1>3, ConfIs, AnswerIs
<1>5. GoodItems(items', conf.api)
  BY <1>1, <1>4, ItemsJoined DEF Talk
<1>6. GoodTools(tools', conf.api)
  BY DEF Talk
<1> QED
  BY <1>1, <1>2, <1>5, <1>6, TalkRests

(* The client.                                                                 *)
LEMMA TalkAdds ==
    ASSUME Talk, NEW item, GoodItem(item, conf.api), NEW names, Adds(<<item>>, names)
    PROVE  Talk'
<1>1. GoodItems(<<item>>, conf.api)
  BY OneItem
<1>2. /\ items' = items \o <<item>> /\ phase = "client"
      /\ UNCHANGED <<conf, tools, phase, loop, answer>>
  BY DEF Adds, Idle
<1>3. GoodItems(items', conf.api)
  BY <1>1, <1>2, ItemsJoined DEF Talk
<1> QED
  BY <1>2, <1>3, TalkRests DEF Talk

LEMMA ClientTalks ==
    ASSUME Talk, ClientSays \/ ClientReturns \/ ClientKeepsPartial
    PROVE  Talk'
<1>1. CASE ClientSays
  <2>1. PICK kinds \in conf.says : Adds(<<Item("user", Parts(kinds))>>, Len(kinds))
    BY <1>1 DEF ClientSays
  <2>2. GoodContent(Parts(kinds), "user")
    BY <2>1, ConfIs, PartsAre
  <2>3. GoodItem(Item("user", Parts(kinds)), conf.api)
    BY <2>2, ConfIs, ItemIs
  <2> QED
    BY <2>1, <2>3, TalkAdds
<1>2. CASE ClientReturns
  <2>1. PICK id \in Called, kinds \in conf.returns :
               Adds(<<ResultItem(id, Parts(kinds))>>, Len(kinds))
    BY <1>2 DEF ClientReturns
  <2>2. GoodParts(Parts(kinds))
    BY <2>1, ConfIs, PartsAre
  <2>3. GoodItem(ResultItem(id, Parts(kinds)), conf.api)
    BY <2>2, ConfIs, ResultItemIs
  <2> QED
    BY <2>1, <2>3, TalkAdds
<1>3. CASE ClientKeepsPartial
  <2> DEFINE text == "text"
             kinds == <<text>>
  <2>1. Adds(<<Item("assistant", Parts(kinds))>>, 1)
    BY <1>3 DEF ClientKeepsPartial
  <2>2. IsSeq(kinds) /\ DOMAIN kinds = {1} /\ kinds[1] = text
    <3> HIDE DEF text
    <3> QED
      BY OneIs
  <2>3. \A i \in DOMAIN kinds : kinds[i] = "text"
    BY <2>2
  <2> HIDE DEF kinds
  <2>4. GoodContent(Parts(kinds), "assistant")
    BY <2>2, <2>3, PartsAre
  <2>5. GoodItem(Item("assistant", Parts(kinds)), conf.api)
    BY <2>4, ConfIs, ItemIs
  <2> QED
    BY <2>1, <2>5, TalkAdds
<1> QED
  BY <1>1, <1>2, <1>3

LEMMA ClientDrops ==
    ASSUME Talk, ClientForgets \/ ClientUndeclares
    PROVE  Talk'
<1>1. CASE ClientForgets
  <2>1. /\ phase = "client" /\ items' = Tail(items) /\ Len(items) > 1
        /\ UNCHANGED <<conf, tools, phase, loop, answer>>
    BY <1>1 DEF ClientForgets, Idle
  <2>2. IsSeq(items) /\ items # <<>>
    BY <2>1, EmptyOrNot DEF Talk, GoodItems
  <2>3. IsSeq(items') /\ \A i \in DOMAIN items' : In(items'[i], items)
    BY <2>1, <2>2, TailIs
  <2>4. GoodItems(items', conf.api)
    BY <2>3 DEF Talk, GoodItems, In
  <2> QED
    BY <2>1, <2>4, TalkRests DEF Talk
<1>2. CASE ClientUndeclares
  <2>1. /\ phase = "client" /\ tools' = Tail(tools) /\ tools # <<>>
        /\ UNCHANGED <<conf, items, phase, loop, answer>>
    BY <1>2 DEF ClientUndeclares, Idle
  <2>2. IsSeq(tools') /\ \A i \in DOMAIN tools' : In(tools'[i], tools)
    BY <2>1, TailIs DEF Talk, GoodTools
  <2>3. GoodTools(tools', conf.api)
    BY <2>2 DEF Talk, GoodTools, In
  <2> QED
    BY <2>1, <2>3, TalkRests DEF Talk
<1> QED
  BY <1>1, <1>2

(* A request that goes to the upstream is the one made of its payload.         *)
LEMMA TalkConverts ==
    ASSUME Talk, UNCHANGED <<conf, tools, items>>, GoodContent(loop'.presentation, "assistant"),
           GoodMessages(payload'), payload' # <<>>,
           LET converted == ConvertRequest(payload', DeclaredNames, conf.mode)
           IN  RefusedByConversion(converted) \/ GoesToUpstream(converted)
    PROVE  Talk'
<1> DEFINE converted == ConvertRequest(payload', DeclaredNames, conf.mode)
<1>1. CASE RefusedByConversion(converted)
  BY <1>1, TalkEnds DEF RefusedByConversion
<1>2. CASE GoesToUpstream(converted)
  <2>1. request' = converted /\ converted.error = "none" /\ phase' = "upstream" /\ answer' = answer
    BY <1>2 DEF GoesToUpstream
  <2>2. Sent'
    <3>1. DeclaredNames' = DeclaredNames
      BY DEF DeclaredNames
    <3> QED
      BY <2>1, <3>1 DEF Sent
  <2> QED
    BY <2>1, <2>2 DEF Talk
<1> QED
  BY <1>1, <1>2

LEMMA ClientSendsTalk ==
    ASSUME Talk, ClientSends
    PROVE  Talk'
<1>1. Begin(ToMessages) /\ Serve(ToMessages)
  BY DEF ClientSends
<1>2. GoodMessages(ToMessages)
  BY ConfIs, MessagesMade DEF Talk
<1> DEFINE messages == ToMessages
<1> HIDE DEF messages
<1>3. /\ payload' = messages /\ GoodMessages(messages) /\ Serve(messages)
      /\ loop' = Loop0 /\ UNCHANGED <<conf, tools, items>>
  BY <1>1, <1>2 DEF Begin, messages
<1>4. GoodContent(loop'.presentation, "assistant")
  BY <1>3, NoContent DEF Loop0
<1>5. CASE RefusedByFrontEnd(messages)
  BY <1>3, <1>4, <1>5, TalkEnds DEF RefusedByFrontEnd
<1>6. CASE messages # <<>> /\ phase' = "fast" /\ answer' = answer
  BY <1>3, <1>4, <1>6 DEF Talk
<1>7. CASE /\ messages # <<>>
           /\ \E converted \in {ConvertRequest(messages, DeclaredNames, conf.mode)} :
                 RefusedByConversion(converted) \/ GoesToUpstream(converted)
  BY <1>3, <1>4, <1>7, TalkConverts
<1> QED
  BY <1>3, <1>5, <1>6, <1>7 DEF Serve

(* The proxy.                                                                  *)
LEMMA FastSearchTalk ==
    ASSUME Talk, FastSearch
    PROVE  Talk'
<1>1. loop' = loop /\ UNCHANGED <<conf, tools>> /\ GoodContent(loop'.presentation, "assistant")
  BY DEF FastSearch, Fails, Talk
<1>2. CASE Fails(0)
  BY <1>1, <1>2, TalkEnds DEF Fails
<1>3. CASE ~Fails(0)
  <2> DEFINE x == [k |-> "text", text |-> <<"[decision]">>]
             y == Presentation([name |-> "web_search", input |-> FastQuery], TRUE)
             z == [k |-> "text", text |-> <<"[summary]">>]
             content == <<x>> \o y \o <<z>>
  <2>1. Deliver(content, "end_turn", <<>>, 0)
    BY <1>3 DEF FastSearch
  <2>2. x.k = "text" /\ z.k = "text"
    OBVIOUS
  <2>3. GoodContent(y, "assistant")
    BY PresentationIs
  <2> HIDE DEF x, y, z
  <2>4. GoodContent(<<x>>, "assistant") /\ GoodContent(<<z>>, "assistant")
    BY <2>2, PlainBlock, OneBlock
  <2>5. GoodContent(<<x>> \o y, "assistant")
    BY <2>3, <2>4, ContentJoined
  <2>6. GoodContent(content, "assistant")
    BY <2>4, <2>5, ContentJoined
  <2> HIDE DEF content
  <2> QED
    BY <1>1, <2>1, <2>6, TalkDelivers
<1> QED
  BY <1>2, <1>3

LEMMA FlushTalk ==
    ASSUME Talk, UNCHANGED <<conf, tools>>, NEW l, loop' = l, Flush(l),
           GoodContent(l.presentation, "assistant"), GoodRound(l.outcome)
    PROVE  Talk'
<1> DEFINE content == BuildFlushContent(l.presentation, l.outcome, l.searched, Known)
<1>1. Deliver(content, ResolveFlushStopReason(l.outcome, content), l.thinking, metered')
  BY DEF Flush
<1>2. GoodContent(content, "assistant")
  BY FlushIs
<1> HIDE DEF content
<1> QED
  BY <1>1, <1>2, TalkDelivers

(* What stays with the upstream or goes to the search tool is the same request.*)
LEMMA TalkWaits ==
    ASSUME Talk, UNCHANGED <<conf, tools, items, payload, request, answer>>,
           phase \in {"upstream", "search"}, phase' \in {"upstream", "search"},
           GoodContent(loop'.presentation, "assistant"),
           phase' = "search" => GoodRound(loop'.outcome)
    PROVE  Talk'
<1>1. DeclaredNames' = DeclaredNames
  BY DEF DeclaredNames
<1>2. Sent'
  BY <1>1 DEF Talk, Sent
<1> QED
  BY <1>2 DEF Talk

LEMMA UpstreamTalk ==
    ASSUME CallInv, Talk, UpstreamAnswers \/ UpstreamFails
    PROVE  Talk'
<1>1. phase = "upstream" /\ GoodContent(loop.presentation, "assistant")
  BY DEF UpstreamAnswers, UpstreamFails, Talk
<1>2. CASE UpstreamAnswers
  <2>1. PICK r \in conf.rounds : LoopRound(Restored(r)) \/ DirectAnswer(r, Restored(r))
    BY <1>2 DEF UpstreamAnswers
  <2> DEFINE out == Restored(r)
  <2>2. GoodRound(out)
    BY ConfIs, RestoredIs
  <2> HIDE DEF out
  <2>3. CASE LoopRound(out)
    <3> DEFINE verdict == EmptyToolResultDisposition(payload, out, loop.retries)
    <3>1. CASE verdict = "accept"
      <4> DEFINE l == Accepted(out)
      <4>1. LoopAccepts(l)
        BY <2>3, <3>1 DEF LoopRound
      <4>2. GoodContent(l.presentation, "assistant") /\ GoodRound(l.outcome)
        BY <1>1, <2>2, LoopSteps
      <4> HIDE DEF l
      <4>3. CASE NextSearch(l) = {}
        <5>1. loop' = l /\ Flush(l) /\ UNCHANGED <<conf, tools>>
          BY <4>1, <4>3 DEF LoopAccepts, Flush
        <5> QED
          BY <4>2, <5>1, FlushTalk
      <4>4. CASE NextSearch(l) # {}
        <5>1. /\ loop' = l /\ phase' = "search"
              /\ UNCHANGED <<conf, tools, items, payload, request, answer>>
          BY <4>1, <4>4 DEF LoopAccepts
        <5> QED
          BY <1>1, <4>2, <5>1, TalkWaits
      <4> QED
        BY <4>3, <4>4
    <3>2. CASE verdict = "retry"
      <4>1. /\ loop' = [loop EXCEPT !.retries = @ + 1]
            /\ UNCHANGED <<conf, tools, items, phase, payload, request, answer>>
        BY <2>3, <3>2 DEF LoopRound
      <4>2. loop'.presentation = loop.presentation
        BY <4>1 DEF CallInv, WithinBudget, IsLoop
      <4> QED
        BY <1>1, <4>1, <4>2, TalkWaits
    <3>3. CASE verdict \notin {"accept", "retry"}
      <4>1. Ends /\ UNCHANGED <<conf, tools, items, loop>>
        BY <2>3, <3>3 DEF LoopRound
      <4> QED
        BY <1>1, <4>1, TalkEnds
    <3> QED
      BY <3>1, <3>2, <3>3
  <2>4. CASE DirectAnswer(r, out)
    <3>1. CASE r.broken
      BY <1>1, <2>4, <3>1, TalkEnds DEF DirectAnswer, Fails
    <3>2. CASE ~r.broken
      <4> DEFINE content == BuildNonStreamContent(out) \o out.uses
                 stop == IF out.uses # <<>> /\ out.override = "none" THEN "tool_use"
                         ELSE IF out.override = "none" THEN "end_turn" ELSE out.override
      <4>1. Deliver(content, stop, <<>>, metered') /\ UNCHANGED <<conf, tools, loop>>
        BY <2>4, <3>2 DEF DirectAnswer
      <4>2. GoodContent(content, "assistant")
        BY <2>2, NonStreamIs, ContentJoined DEF GoodRound
      <4> HIDE DEF content, stop
      <4> QED
        BY <1>1, <4>1, <4>2, TalkDelivers
    <3> QED
      BY <3>1, <3>2
  <2> QED
    BY <2>1, <2>3, <2>4 DEF out
<1>3. CASE UpstreamFails
  BY <1>1, <1>3, TalkEnds DEF UpstreamFails, Fails
<1> QED
  BY <1>2, <1>3

LEMMA NextRoundTalk ==
    ASSUME CallInv, Talk, phase = "search", NEW l, IsLoop(l), NextRound(l),
           GoodContent(l.presentation, "assistant"), GoodRound(l.outcome)
    PROVE  Talk'
<1> DEFINE p == l.presentation \o Presented(l)
           more == AppendSearchRound(payload, l.outcome, l.searched)
<1>1. /\ payload' = more
      /\ loop' = [l EXCEPT !.round = @ + 1, !.retries = 0, !.presentation = p]
      /\ UNCHANGED <<conf, tools, items>>
  BY DEF NextRound
<1>2. GoodContent(p, "assistant")
  BY PresentedIs, ContentJoined
<1>3. GoodMessages(more) /\ more # <<>>
  BY RoundAppended DEF Talk
<1> HIDE DEF p, more
<1>4. loop'.presentation = p
  BY <1>1 DEF IsLoop
<1>5. LET converted == ConvertRequest(payload', DeclaredNames, conf.mode)
      IN  RefusedByConversion(converted) \/ GoesToUpstream(converted)
  BY DEF NextRound
<1> QED
  BY <1>1, <1>2, <1>3, <1>4, <1>5, TalkConverts

LEMMA SearchTalk ==
    ASSUME CallInv, Talk, SearchReturns \/ SearchFails
    PROVE  Talk'
<1>1. /\ phase = "search" /\ GoodContent(loop.presentation, "assistant")
      /\ GoodRound(loop.outcome)
  BY DEF SearchReturns, SearchFails, Talk
<1>2. CASE SearchReturns
  <2>1. PICK found \in BOOLEAN :
            LET l == Searched(found)
            IN  IF NextSearch(l) # {}
                THEN loop' = l /\ UNCHANGED <<conf, tools, items, phase, payload, request,
                                              answer, records>>
                ELSE IF ShouldSearchRound(l.round, l.outcome.uses) THEN NextRound(l)
                ELSE loop' = l /\ Flush(l)
    BY <1>2 DEF SearchReturns
  <2> DEFINE l == Searched(found)
  <2>2. IsLoop(l) /\ GoodContent(l.presentation, "assistant") /\ GoodRound(l.outcome)
    BY <1>1, LoopSteps DEF SameRound
  <2>3. \/ loop' = l /\ UNCHANGED <<conf, tools, items, phase, payload, request, answer>>
        \/ NextRound(l)
        \/ loop' = l /\ Flush(l)
    BY <2>1
  <2> HIDE DEF l
  <2>4. CASE loop' = l /\ UNCHANGED <<conf, tools, items, phase, payload, request, answer>>
    BY <1>1, <2>2, <2>4, TalkWaits
  <2>5. CASE NextRound(l)
    BY <1>1, <2>2, <2>5, NextRoundTalk
  <2>6. CASE loop' = l /\ Flush(l)
    BY <2>2, <2>6, FlushTalk DEF Flush
  <2> QED
    BY <2>3, <2>4, <2>5, <2>6
<1>3. CASE SearchFails
  BY <1>1, <1>3, TalkEnds DEF SearchFails, Fails
<1> QED
  BY <1>2, <1>3

LEMMA InitTalk == Init => Talk
<1> SUFFICES ASSUME Init PROVE Talk
  OBVIOUS
<1>1. /\ conf \in Scenarios /\ tools = conf.tools /\ items = <<>> /\ phase = "client"
      /\ loop = Loop0 /\ answer = NoAnswer
  BY DEF Init
<1>2. GoodTools(tools, conf.api)
  BY <1>1, ScenariosAssumption DEF GoodTools
<1>3. GoodItems(items, conf.api)
  BY <1>1, EmptyIs DEF GoodItems
<1>4. IsAnswer(answer)
  <2> DEFINE none == <<>>
  <2>1. answer = [status |-> "none", content |-> none, stop_reason |-> "none",
                  kiro_thinking |-> none]
    BY <1>1 DEF NoAnswer
  <2> HIDE DEF none
  <2> QED
    BY <2>1 DEF IsAnswer
<1>5. GoodContent(loop.presentation, "assistant")
  BY <1>1, NoContent DEF Loop0
<1> QED
  BY <1>1, <1>2, <1>3, <1>4, <1>5 DEF Talk

LEMMA NextTalk ==
    ASSUME CallInv, Talk, [Next]_vars
    PROVE  Talk'
<1>1. CASE ClientSays \/ ClientReturns \/ ClientKeepsPartial
  BY <1>1, ClientTalks
<1>2. CASE ClientForgets \/ ClientUndeclares
  BY <1>2, ClientDrops
<1>3. CASE ClientSends
  BY <1>3, ClientSendsTalk
<1>4. CASE FastSearch
  BY <1>4, FastSearchTalk
<1>5. CASE UpstreamAnswers \/ UpstreamFails
  BY <1>5, UpstreamTalk
<1>6. CASE SearchReturns \/ SearchFails
  BY <1>6, SearchTalk
<1>7. CASE UNCHANGED vars
  BY <1>7 DEF vars, Talk, Sent, DeclaredNames
<1> QED
  BY <1>1, <1>2, <1>3, <1>4, <1>5, <1>6, <1>7 DEF Next

-------------------------------------------------------------------------------
(* The theorems of what the conversation says.                                 *)

(* Between any two steps, whatever the client repeats, forgets or leaves out   *)
(* and however often the proxy searches: the items may be sent back, and the   *)
(* request the upstream has is the conversion of the payload being served.     *)
THEOREM ConversationInvariant == Spec => [](CallInv /\ Talk)
<1>1. Init => CallInv /\ Talk
  BY InitCall, InitTalk
<1>2. CallInv /\ Talk /\ [Next]_vars => (CallInv /\ Talk)'
  BY NextCall, NextTalk
<1> QED
  BY <1>1, <1>2, PTL DEF Spec

LEMMA AskedIs ==
    ASSUME Talk, Asked
    PROVE  /\ CallsAnswered(request)
           /\ WellFormed(request, payload, DeclaredNames, conf.mode)
           /\ ImagesOnce(request, payload)
<1>1. GoodMessages(payload) /\ payload # <<>> /\ Sent
  BY DEF Talk, Asked
<1>2. IsSeq(DeclaredNames)
  BY NamesAre DEF Talk
<1> QED
  BY <1>1, <1>2, RequestIs DEF Sent

(* The upstream never sees a call without its result, nor a result without its *)
(* call: whatever the client repeated, forgot or left out, every call of a     *)
(* request has one result.                                                     *)
THEOREM EveryCallHasItsResult == Spec => []EveryCallAnswered
<1>1. Talk => EveryCallAnswered
  BY AskedIs DEF EveryCallAnswered, CallsAnswered
<1> QED
  BY <1>1, ConversationInvariant, PTL

(* The history alternates up to an assistant's last answer, no call goes       *)
(* without a text or without a declared tool, and of the tools of one name but *)
(* for its case at most one was declared.                                      *)
THEOREM HistoriesAreWellFormed == Spec => []HistoryWellFormed
<1>1. ASSUME Talk, Asked PROVE HistoryWellFormed
  <2> DEFINE h == request.history
             lower == [i \in DOMAIN request.tools |-> ToLower(request.tools[i])]
             uses == UsesOf(h)
             kept == ConvertTools(DeclaredNames, conf.mode)
  <2>1. /\ payload[1].role = "user" =>
              \A i \in DOMAIN h : h[i].role = IF i % 2 = 1 THEN "user" ELSE "assistant"
        /\ Last(h).role = "assistant"
        /\ \A i \in DOMAIN h : h[i].uses # <<>> => h[i].text # <<>>
        /\ \A u : In(u, uses) =>
              \E i \in DOMAIN request.tools : ToLower(request.tools[i]) = ToLower(u.name)
        /\ \A i, j \in DOMAIN request.tools :
              i # j /\ ToLower(request.tools[i]) = ToLower(request.tools[j]) =>
                 request.tools[i] # request.tools[j] /\ ~In(request.tools[i], kept)
    BY <1>1, AskedIs DEF WellFormed, InTurn, SpeaksWhenCalling
  <2>2. /\ DOMAIN lower = DOMAIN request.tools
        /\ \A i \in DOMAIN lower : lower[i] = ToLower(request.tools[i])
    OBVIOUS
  <2>3. \A y, s : y \in Range(s) <=> In(y, s)
    BY DEF Range, In
  <2>4. \A u \in Range(uses) : ToLower(u.name) \in Range(lower)
    <3> HIDE DEF lower, uses
    <3> QED
      BY <2>1, <2>2, <2>3 DEF In
  <2>5. \A i, j \in DOMAIN lower :
           i # j /\ lower[i] = lower[j] =>
              request.tools[i] # request.tools[j] /\ request.tools[i] \notin Range(kept)
    <3> HIDE DEF lower, kept
    <3> QED
      BY <2>1, <2>2, <2>3
  <2> QED
    BY <2>1, <2>4, <2>5 DEF HistoryWellFormed
<1>2. Talk => HistoryWellFormed
  <2>1. ~Asked => HistoryWellFormed
    BY DEF HistoryWellFormed
  <2> QED
    BY <1>1, <2>1
<1> QED
  BY <1>2, ConversationInvariant, PTL

(* An image of the conversation, wherever it is repeated, is in the history    *)
(* once, and none is left out.                                                 *)
THEOREM ImagesGoOnce == Spec => []ImagesSentOnce
<1>1. ASSUME Talk, Asked PROVE ImagesSentOnce
  <2> DEFINE sent == SentImages(request)
             now == request.current.images
             shown == UNION {ImagesIn(payload[i].content) : i \in DOMAIN payload}
             sendable == {img.data : img \in {s \in shown : s.format \in Formats}}
  <2>1. /\ IsSeq(sent) /\ Distinct(sent)
        /\ \A y : OfMessages(y, payload) <=> In(y, sent) \/ In(y, now)
    BY <1>1, AskedIs DEF ImagesOnce
  <2>2. Cardinality(Range(sent)) = Len(sent)
    <3> HIDE DEF sent
    <3> QED
      BY <2>1, DistinctCount
  <2>3. \A y : OfMessages(y, payload) <=> y \in sendable
    <3>1. \A i \in DOMAIN payload : GoodContent(payload[i].content, payload[i].role)
      BY <1>1 DEF Talk, Asked, GoodMessages, GoodMessage, In
    <3>2. ASSUME NEW i \in DOMAIN payload, NEW y
          PROVE  y \in ContentData(payload[i].content)
                    <=> \E img \in ImagesIn(payload[i].content) :
                           img.format \in Formats /\ img.data = y
      BY <3>1, ImagesAre
    <3>3. \A y : OfMessages(y, payload) <=> \E i \in DOMAIN payload : y \in ContentData(payload[i].content)
      BY DEF OfMessages, In
    <3>4. \A y : y \in sendable <=> \E i \in DOMAIN payload :
                    \E img \in ImagesIn(payload[i].content) :
                       img.format \in Formats /\ img.data = y
      OBVIOUS
    <3> HIDE DEF sendable
    <3> QED
      BY <3>2, <3>3, <3>4
  <2>4. sendable = Range(sent) \cup Range(now)
    <3>1. \A y, s : y \in Range(s) <=> In(y, s)
      BY DEF Range, In
    <3> HIDE DEF sendable, sent, now
    <3> QED
      BY <2>1, <2>3, <3>1
  <2> QED
    BY <2>2, <2>4 DEF ImagesSentOnce, SentImages
<1>2. Talk => ImagesSentOnce
  <2>1. ~Asked => ImagesSentOnce
    BY DEF ImagesSentOnce
  <2> QED
    BY <1>1, <2>1
<1> QED
  BY <1>2, ConversationInvariant, PTL

===============================================================================
