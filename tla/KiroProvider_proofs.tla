------------------------ MODULE KiroProvider_proofs ------------------------
(***************************************************************************)
(* Proofs about AcquireContext and KiroProvider, for every set of          *)
(* requests, ids and settings: whatever requests, calls, operator and      *)
(* crashes interleave, they only ever take the pool's critical sections,   *)
(* so the theorems of CredentialPool_proofs hold of the concurrent system. *)
(***************************************************************************)
EXTENDS AcquireHistory, ProviderHistory, CredentialPool_proofs,
        FiniteSetTheorems, WellFoundedInduction

---------------------------------------------------------------------------
(* What no critical section of the pool does to an entry.                  *)

(* The change leaves the configuration and the RPM window alone. *)
Untouched(f, e) == f.credentials = e.credentials /\ f.rpm_used = e.rpm_used

(* What the operator, the subscription and the files may give a credential. *)
Possible(cred) == cred.priority \in Priorities /\ cred.opus \in OpusLevels

(* The change keeps the configuration among the possible ones and whether  *)
(* the API key is there, and counts no call beyond the limit.              *)
Follows(f, e) ==
    /\ f.credentials.broken = e.credentials.broken
    /\ Possible(f.credentials)
    /\ f.rpm_used <= e.rpm_used \/ f.rpm_used <= settings.rpm_limit

(* One step of the pool while the process lives: credentials change as     *)
(* above, one may be added under the next id, some may go.                 *)
PoolStep ==
    /\ next_id' \in Nat /\ next_id' >= next_id
    /\ settings' \in [mode: Modes, heal: HealConfigs, rpm_limit: RpmLimits]
    /\ \A c \in Live' :
          \/ c \in Live /\ Follows(entries'[c], entries[c])
          \/ /\ c = next_id
             /\ Possible(entries'[c].credentials) /\ entries'[c].rpm_used = 0

(* What the pool keeps beside the invariants of CredentialPool. *)
PoolData ==
    /\ IsFiniteSet(Live)
    /\ \A c \in Live : Possible(entries[c].credentials)
    /\ IsFiniteSet(DOMAIN disk)
    /\ \A c \in DOMAIN disk : Possible(disk[c].credentials)
    /\ RpmNeverExceeded

PoolFacts == PoolInv /\ StreakDurable /\ IdsNeverReused /\ PoolData

LEMMA UntouchedTransitive ==
    ASSUME NEW d, NEW e, NEW f, Untouched(f, e), Untouched(e, d)
    PROVE  Untouched(f, d)
BY DEF Untouched

(* The changes of the report methods, self-heal, the operator and the clock. *)
LEMMA UntouchedByChange ==
    ASSUME NEW e \in CredentialEntry
    PROVE  /\ Untouched(Calm(e), e) /\ Untouched(Reenabled(e), e) /\ Untouched(ClearedStreak(e), e)
           /\ \A reason : Untouched(DisabledFor(e, reason), e)
           /\ \A x, reason :
                 /\ Untouched([e EXCEPT !.failure_count = x], e)
                 /\ Untouched(DisabledFor([e EXCEPT !.failure_count = x], reason), e)
                 /\ Untouched([e EXCEPT !.refresh_failure_count = x], e)
                 /\ Untouched(DisabledFor([e EXCEPT !.refresh_failure_count = x], reason), e)
                 /\ Untouched([e EXCEPT !.throttled = x], e)
                 /\ Untouched([e EXCEPT !.success_count = x], e)
                 /\ Untouched([e EXCEPT !.streak = x], e)
           /\ Untouched(Reenabled([e EXCEPT !.refresh_failure_count = 0]), e)
<1>1. Untouched(Calm(e), e) /\ Untouched(Reenabled(e), e) /\ Untouched(ClearedStreak(e), e)
  BY DEF Untouched, Calm, Reenabled, ClearedStreak, CredentialEntry
<1>2. \A reason : Untouched(DisabledFor(e, reason), e)
  BY DEF Untouched, DisabledFor, CredentialEntry
<1>3. \A x : /\ Untouched([e EXCEPT !.failure_count = x], e)
             /\ Untouched([e EXCEPT !.refresh_failure_count = x], e)
             /\ Untouched([e EXCEPT !.throttled = x], e)
             /\ Untouched([e EXCEPT !.success_count = x], e)
             /\ Untouched([e EXCEPT !.streak = x], e)
  BY DEF Untouched, CredentialEntry
<1>4. \A x, reason :
          Untouched(DisabledFor([e EXCEPT !.failure_count = x], reason), e)
  BY DEF Untouched, DisabledFor, CredentialEntry
<1>5. \A x, reason :
          Untouched(DisabledFor([e EXCEPT !.refresh_failure_count = x], reason), e)
  BY DEF Untouched, DisabledFor, CredentialEntry
<1>6. Untouched(Reenabled([e EXCEPT !.refresh_failure_count = 0]), e)
  BY DEF Untouched, Reenabled, CredentialEntry
<1> QED
  BY <1>1, <1>2, <1>3, <1>4, <1>5, <1>6

(* ... and those made of several. *)
LEMMA UntouchedByReport ==
    ASSUME NEW e \in CredentialEntry
    PROVE  /\ Untouched(Succeeded(e), e) /\ Untouched(ClearedStreak(Succeeded(e)), e)
           /\ Untouched(CountedFailure(e), e)
           /\ \A rule : \A action \in RuleAction : Untouched(AfterRule(e, rule, action), e)
<1>1. Calm(e) \in CredentialEntry
  BY ChangeType
<1>2. Untouched(Succeeded(e), Calm(e))
  BY <1>1, UntouchedByChange DEF Succeeded
<1>3. Untouched(ClearedStreak(Succeeded(e)), Calm(e))
  BY <1>1 DEF Untouched, ClearedStreak, Succeeded, CredentialEntry
<1>4. Untouched(Succeeded(e), e) /\ Untouched(ClearedStreak(Succeeded(e)), e)
  BY <1>2, <1>3, UntouchedByChange, UntouchedTransitive
<1>5. Untouched(CountedFailure(e), e)
  BY UntouchedByChange DEF CountedFailure
<1>6. \A rule : \A action \in RuleAction : Untouched(AfterRule(e, rule, action), e)
  <2> SUFFICES ASSUME NEW rule, NEW action \in RuleAction
               PROVE  Untouched(AfterRule(e, rule, action), e)
    OBVIOUS
  <2>1. CASE action = "disable"
    BY <2>1, UntouchedByChange DEF AfterRule
  <2>2. CASE action = "cooldown"
    BY <2>2, UntouchedByChange DEF AfterRule
  <2>3. CASE action = "countFailure"
    BY <2>3, <1>5 DEF AfterRule
  <2>4. CASE action = "abort"
    BY <2>4 DEF AfterRule, Untouched
  <2> QED
    BY <2>1, <2>2, <2>3, <2>4 DEF RuleAction
<1> QED
  BY <1>4, <1>5, <1>6

LEMMA UntouchedByOthers ==
    ASSUME NEW e \in CredentialEntry
    PROVE  /\ \A model : Untouched(Healed(e, model), e)
           /\ Untouched(ClearedStreak(Reenabled(Calm(e))), e)
           /\ Untouched(Aged(e), e)
<1>1. \A model : Untouched(Healed(e, model), e)
  BY DEF Healed, Reenabled, Untouched, CredentialEntry
<1>2. Untouched(ClearedStreak(Reenabled(Calm(e))), e)
  <2>1. Calm(e) \in CredentialEntry
    BY ChangeType
  <2>2. Untouched(ClearedStreak(Reenabled(Calm(e))), Calm(e))
    BY <2>1 DEF ClearedStreak, Reenabled, Untouched, CredentialEntry
  <2> QED
    BY <2>2, UntouchedByChange, UntouchedTransitive
<1>3. Untouched(Aged(e), e)
  BY DEF Aged, Untouched, CredentialEntry
<1> QED
  BY <1>1, <1>2, <1>3


---------------------------------------------------------------------------
(* Every critical section of a running process is a PoolStep.              *)

LEMMA UntouchedFollows ==
    ASSUME PoolFacts, NEW c \in Live, NEW f, Untouched(f, entries[c])
    PROVE  Follows(f, entries[c])
<1>1. entries[c] \in CredentialEntry
  BY DEF PoolFacts, PoolInv, EntriesInv
<1>2. entries[c].rpm_used \in Nat /\ Possible(entries[c].credentials)
  BY <1>1 DEF CredentialEntry, PoolFacts, PoolData
<1> QED
  BY <1>2 DEF Untouched, Follows

LEMMA SetStep ==
    ASSUME PoolFacts, NEW c \in Live, NEW f, Set(c, f), Follows(f, entries[c]),
           UNCHANGED <<next_id, settings>>
    PROVE  PoolStep
<1>1. Live' = Live /\ \A d \in Live : entries'[d] = IF d = c THEN f ELSE entries[d]
  BY DEF Set, Live, PoolFacts, PoolInv, EntriesInv
<1>2. \A d \in Live : Follows(entries[d], entries[d])
  BY UntouchedFollows DEF Untouched
<1>3. next_id \in Nat /\ settings \in [mode: Modes, heal: HealConfigs, rpm_limit: RpmLimits]
  BY DEF PoolFacts, PoolInv
<1> QED
  BY <1>1, <1>2, <1>3 DEF PoolStep

LEMMA SetUntouched ==
    ASSUME PoolFacts, NEW c \in Live, NEW f, Set(c, f), Untouched(f, entries[c]),
           UNCHANGED <<next_id, settings>>
    PROVE  PoolStep
BY UntouchedFollows, SetStep

LEMMA FewerStep ==
    ASSUME PoolFacts, Live' \subseteq Live, next_id' \in Nat, next_id' >= next_id,
           settings' \in [mode: Modes, heal: HealConfigs, rpm_limit: RpmLimits],
           \A c \in Live' : Untouched(entries'[c], entries[c])
    PROVE  PoolStep
BY UntouchedFollows DEF PoolStep

LEMMA SameEntriesStep ==
    ASSUME PoolFacts, UNCHANGED <<entries, next_id, settings>>
    PROVE  PoolStep
<1>1. next_id \in Nat /\ settings \in [mode: Modes, heal: HealConfigs, rpm_limit: RpmLimits]
  BY DEF PoolFacts, PoolInv
<1> QED
  BY <1>1, FewerStep DEF Untouched, Live

LEMMA ReportStep ==
    ASSUME PoolFacts, NEW c \in Ids, ReportNext(c)
    PROVE  PoolStep
<1> DEFINE e == entries[c]
<1>0. c \in Live => e \in CredentialEntry
  BY DEF PoolFacts, PoolInv, EntriesInv
<1>1. ASSUME NEW model \in ModelArgs, ReportSuccess(c, model)
      PROVE  PoolStep
  <2>1. /\ c \in Live /\ UNCHANGED <<next_id, settings>>
        /\ Set(c, Succeeded(e)) \/ Set(c, ClearedStreak(Succeeded(e)))
    BY <1>1 DEF ReportSuccess
  <2> QED
    BY <1>0, <2>1, UntouchedByReport, SetUntouched
<1>2. ASSUME ReportFailure(c)
      PROVE  PoolStep
  BY <1>0, <1>2, UntouchedByReport, SetUntouched DEF ReportFailure, Enabled
<1>3. ASSUME ReportQuotaExhausted(c)
      PROVE  PoolStep
  BY <1>0, <1>3, UntouchedByChange, SetUntouched DEF ReportQuotaExhausted, Enabled
<1>4. ASSUME ReportRefreshFailure(c)
      PROVE  PoolStep
  <2> DEFINE f == [e EXCEPT !.refresh_failure_count = e.refresh_failure_count + 1]
  <2>1. /\ c \in Live /\ UNCHANGED <<next_id, settings>>
        /\ Set(c, f) \/ Set(c, DisabledFor(f, "TooManyRefreshFailures"))
    BY <1>4 DEF ReportRefreshFailure, Enabled
  <2> QED
    BY <1>0, <2>1, UntouchedByChange, SetUntouched
<1>5. ASSUME ReportRefreshTokenInvalid(c)
      PROVE  PoolStep
  BY <1>0, <1>5, UntouchedByChange, SetUntouched DEF ReportRefreshTokenInvalid, Enabled
<1>6. ASSUME ReportAccountThrottled(c)
      PROVE  PoolStep
  BY <1>0, <1>6, UntouchedByChange, SetUntouched DEF ReportAccountThrottled
<1>7. ASSUME NEW rule \in Rules, NEW model \in ModelArgs, NEW group \in GroupArgs,
             ReportCustomRuleHit(c, rule, model, group)
      PROVE  PoolStep
  <2>1. EffectiveAction(rule, model, group) \in RuleAction
    <3>1. rule.action \in RuleAction
      BY PoolAssumption DEF ErrorRule
    <3>2. EffectiveAction(rule, model, group) \in {"countFailure", rule.action}
      BY DEF EffectiveAction
    <3> QED
      BY <3>1, <3>2 DEF RuleAction
  <2>2. /\ c \in Live /\ UNCHANGED <<next_id, settings>>
        /\ Set(c, AfterRule(e, rule, EffectiveAction(rule, model, group)))
    BY <1>7 DEF ReportCustomRuleHit, Enabled
  <2>3. Untouched(AfterRule(e, rule, EffectiveAction(rule, model, group)), e)
    BY <1>0, <2>1, <2>2, UntouchedByReport
  <2> QED
    BY <2>2, <2>3, SetUntouched
<1> QED
  BY <1>1, <1>2, <1>3, <1>4, <1>5, <1>6, <1>7 DEF ReportNext

LEMMA RecordStep ==
    ASSUME PoolFacts, NEW c, RecordRequest(c)
    PROVE  PoolStep
<1> DEFINE e == entries[c]
           n == IF settings.rpm_limit = 0 THEN 0 ELSE e.rpm_used + 1
<1>1. c \in Live /\ e \in CredentialEntry
  BY DEF RecordRequest, PoolFacts, PoolInv, EntriesInv
<1>2. e.rpm_used \in Nat /\ settings.rpm_limit \in Nat
  BY <1>1, PoolAssumption DEF CredentialEntry, PoolFacts, PoolInv
<1>3. settings.rpm_limit > 0 => e.rpm_used < settings.rpm_limit
  BY <1>2 DEF RecordRequest, RpmExceeded
<1>4. n <= e.rpm_used \/ n <= settings.rpm_limit
  BY <1>2, <1>3
<1>5. Set(c, [e EXCEPT !.rpm_used = n]) /\ UNCHANGED <<next_id, settings>>
  BY DEF RecordRequest
<1> HIDE DEF n
<1>6. /\ [e EXCEPT !.rpm_used = n].credentials = e.credentials
      /\ [e EXCEPT !.rpm_used = n].rpm_used = n
  BY <1>1 DEF CredentialEntry
<1>7. Follows([e EXCEPT !.rpm_used = n], e)
  BY <1>1, <1>4, <1>6 DEF Follows, PoolFacts, PoolData
<1> QED
  BY <1>1, <1>5, <1>7, SetStep

LEMMA TokenStep ==
    ASSUME PoolFacts, NEW c, NEW cred \in Snapshots, NEW refreshed \in BOOLEAN,
           NEW counted \in BOOLEAN, TokenObtained(c, cred, refreshed, counted)
    PROVE  PoolStep
<1> DEFINE e == entries[c]
           k == IF refreshed THEN cred ELSE e.credentials
           n == IF counted THEN 0 ELSE e.refresh_failure_count
           f == [e EXCEPT !.credentials = k, !.refresh_failure_count = n]
<1>1. c \in Live /\ e \in CredentialEntry /\ ~e.credentials.broken
  BY DEF TokenObtained, PoolFacts, PoolInv, EntriesInv
<1>2. e.rpm_used \in Nat /\ e.credentials \in KiroCredentials
      /\ Possible(e.credentials)
  BY <1>1 DEF CredentialEntry, PoolFacts, PoolData
<1>3. k.broken = e.credentials.broken /\ Possible(k)
  BY <1>1, <1>2 DEF Snapshots, KiroCredentials, Possible
<1>4. Set(c, f) /\ UNCHANGED <<next_id, settings>>
  BY DEF TokenObtained
<1> HIDE DEF k, n
<1>5. f.credentials = k /\ f.rpm_used = e.rpm_used
  BY <1>1 DEF CredentialEntry
<1> HIDE DEF f
<1>6. Follows(f, e)
  BY <1>2, <1>3, <1>5 DEF Follows
<1> QED
  BY <1>1, <1>4, <1>6, SetStep

LEMMA RequestStep ==
    ASSUME PoolFacts, RequestNext \/ RotationNext
    PROVE  PoolStep
<1>0. \A c \in Live : entries[c] \in CredentialEntry
  BY DEF PoolFacts, PoolInv, EntriesInv
<1>1. ASSUME NEW c \in Ids, AcquireNext(c)
      PROVE  PoolStep
  <2>1. CASE BindCurrent(c)
    BY <2>1, SameEntriesStep DEF BindCurrent
  <2> QED
    BY <1>1, <2>1, RecordStep, TokenStep DEF AcquireNext
<1>2. ASSUME NEW model \in ModelArgs, NEW group \in GroupArgs, TrySelfHeal(model, group)
      PROVE  PoolStep
  <2>1. entries' = [c \in Live |-> IF c \in HealSet(model, group) THEN Healed(entries[c], model)
                                                                   ELSE entries[c]]
    BY <1>2 DEF TrySelfHeal
  <2>2. Live' = Live /\ UNCHANGED <<next_id, settings>>
    BY <1>2, <2>1 DEF TrySelfHeal, Live
  <2>3. \A c \in Live : Untouched(entries'[c], entries[c])
    BY <1>0, <2>1, UntouchedByOthers DEF Untouched
  <2>4. next_id \in Nat /\ settings \in [mode: Modes, heal: HealConfigs, rpm_limit: RpmLimits]
    BY DEF PoolFacts, PoolInv
  <2> QED
    BY <2>2, <2>3, <2>4, FewerStep
<1>3. ASSUME NEW c \in Ids, ReloadFromFile(c)
      PROVE  PoolStep
  BY <1>0, <1>3, UntouchedByChange, SetUntouched DEF ReloadFromFile
<1> QED
  BY <1>1, <1>2, <1>3, ReportStep DEF RequestNext, RotationNext


LEMMA OperatorTakesStep ==
    ASSUME PoolFacts, OperatorNext
    PROVE  PoolStep
<1>0. /\ \A c \in Live : entries[c] \in CredentialEntry
      /\ \A c \in Live : entries[c].credentials \in KiroCredentials /\ entries[c].rpm_used \in Nat
      /\ \A c \in Live : Possible(entries[c].credentials)
  BY DEF PoolFacts, PoolInv, EntriesInv, PoolData, CredentialEntry
<1>0a. next_id \in Nat /\ settings \in [mode: Modes, heal: HealConfigs, rpm_limit: RpmLimits]
  BY DEF PoolFacts, PoolInv
<1>1. ASSUME NEW c \in Ids,
             \/ \E b \in BOOLEAN : SetDisabled(c, b)
             \/ ResetAndEnable(c) \/ ClearThrottle(c) \/ DisableQuotaExceeded(c)
             \/ UpdateRefreshToken(c)
      PROVE  PoolStep
  <2> DEFINE e == entries[c]
  <2>1. c \in Live /\ UNCHANGED <<next_id, settings>>
    BY <1>1 DEF SetDisabled, ResetAndEnable, ClearThrottle, DisableQuotaExceeded,
       UpdateRefreshToken
  <2>2. \/ \E reason : Set(c, DisabledFor(e, reason))
        \/ Set(c, ClearedStreak(Reenabled(Calm(e))))
        \/ Set(c, [e EXCEPT !.throttled = FALSE])
        \/ Set(c, [e EXCEPT !.refresh_failure_count = 0])
    BY <1>1 DEF SetDisabled, ResetAndEnable, ClearThrottle, DisableQuotaExceeded,
       UpdateRefreshToken
  <2> QED
    BY <1>0, <2>1, <2>2, UntouchedByChange, UntouchedByOthers, SetUntouched
<1>2. ASSUME NEW c \in Ids,
             \/ \E b \in OpusLevels : UpdateSubscription(c, b)
             \/ \E p \in Priorities : SetPriority(c, p)
             \/ \E gs \in SUBSET Groups : UpdateCredential(c, gs)
      PROVE  PoolStep
  <2> DEFINE e == entries[c]
  <2>1. c \in Live /\ UNCHANGED <<next_id, settings>>
    BY <1>2 DEF UpdateSubscription, SetPriority, UpdateCredential
  <2>2. PICK k : /\ Set(c, [e EXCEPT !.credentials = k])
                 /\ k.broken = e.credentials.broken /\ Possible(k)
    <3>1. ASSUME NEW b \in OpusLevels, UpdateSubscription(c, b)
          PROVE  \E k : /\ Set(c, [e EXCEPT !.credentials = k])
                        /\ k.broken = e.credentials.broken /\ Possible(k)
      <4> DEFINE k == [e.credentials EXCEPT !.opus = b]
      <4>1. Set(c, [e EXCEPT !.credentials = k])
        BY <3>1 DEF UpdateSubscription
      <4>2. k.broken = e.credentials.broken /\ k.opus = b
            /\ k.priority = e.credentials.priority
        BY <1>0, <2>1 DEF KiroCredentials
      <4> HIDE DEF k
      <4> QED
        BY <1>0, <2>1, <4>1, <4>2 DEF Possible
    <3>2. ASSUME NEW p \in Priorities, SetPriority(c, p)
          PROVE  \E k : /\ Set(c, [e EXCEPT !.credentials = k])
                        /\ k.broken = e.credentials.broken /\ Possible(k)
      <4> DEFINE k == [e.credentials EXCEPT !.priority = p]
      <4>1. Set(c, [e EXCEPT !.credentials = k])
        BY <3>2 DEF SetPriority
      <4>2. k.broken = e.credentials.broken /\ k.priority = p
            /\ k.opus = e.credentials.opus
        BY <1>0, <2>1 DEF KiroCredentials
      <4> HIDE DEF k
      <4> QED
        BY <1>0, <2>1, <4>1, <4>2 DEF Possible
    <3>3. ASSUME NEW gs \in SUBSET Groups, UpdateCredential(c, gs)
          PROVE  \E k : /\ Set(c, [e EXCEPT !.credentials = k])
                        /\ k.broken = e.credentials.broken /\ Possible(k)
      <4> DEFINE k == [e.credentials EXCEPT !.groups = gs]
      <4>1. Set(c, [e EXCEPT !.credentials = k])
        BY <3>3 DEF UpdateCredential
      <4>2. k.broken = e.credentials.broken /\ k.priority = e.credentials.priority
            /\ k.opus = e.credentials.opus
        BY <1>0, <2>1 DEF KiroCredentials
      <4> HIDE DEF k
      <4> QED
        BY <1>0, <2>1, <4>1, <4>2 DEF Possible
    <3> QED
      BY <1>2, <3>1, <3>2, <3>3
  <2>3. /\ [e EXCEPT !.credentials = k].credentials = k
        /\ [e EXCEPT !.credentials = k].rpm_used = e.rpm_used
    BY <1>0, <2>1 DEF CredentialEntry
  <2>4. Follows([e EXCEPT !.credentials = k], e)
    BY <1>0, <2>1, <2>2, <2>3 DEF Follows
  <2> QED
    BY <2>1, <2>2, <2>4, SetStep
<1>3. ASSUME NEW S, ResetSuccessCount(S)
      PROVE  PoolStep
  <2>1. /\ Live' = Live /\ UNCHANGED <<next_id, settings>>
        /\ \A c \in Live : entries'[c] = IF c \in S THEN [entries[c] EXCEPT !.success_count = 0]
                                                    ELSE entries[c]
    BY <1>3 DEF ResetSuccessCount, Live
  <2>2. \A c \in Live : Untouched([entries[c] EXCEPT !.success_count = 0], entries[c])
    BY <1>0, UntouchedByChange
  <2>3. \A c \in Live : Untouched(entries[c], entries[c])
    BY DEF Untouched
  <2>4. \A c \in Live : Untouched(entries'[c], entries[c])
    BY <2>1, <2>2, <2>3
  <2> QED
    BY <1>0a, <2>1, <2>4, FewerStep
<1>4. ASSUME NEW cred \in NewCredentials, NEW duplicate \in BOOLEAN, AddCredential(cred, duplicate)
      PROVE  PoolStep
  <2>1. next_id' = next_id + 1 /\ UNCHANGED settings
    BY <1>4 DEF AddCredential
  <2>2. CASE duplicate
    <3>1. UNCHANGED entries
      BY <1>4, <2>2 DEF AddCredential
    <3>2. Live' = Live /\ next_id' >= next_id
      BY <1>0a, <2>1, <3>1 DEF Live
    <3> QED
      BY <1>0a, <2>1, <3>1, <3>2, FewerStep DEF Untouched
  <2>3. CASE ~duplicate
    <3>1. entries' = [c \in Live \cup {next_id} |->
                         IF c = next_id THEN FreshEntry(cred) ELSE entries[c]]
      BY <1>4, <2>3 DEF AddCredential
    <3>2. /\ Live' = Live \cup {next_id}
          /\ entries'[next_id] = FreshEntry(cred)
          /\ \A c \in Live \ {next_id} : entries'[c] = entries[c]
      BY <3>1 DEF Live
    <3>3. Possible(FreshEntry(cred).credentials) /\ FreshEntry(cred).rpm_used = 0
      BY PoolAssumption DEF FreshEntry, Possible
    <3>4. \A c \in Live \ {next_id} : Follows(entries'[c], entries[c])
      BY <3>2, UntouchedFollows DEF Untouched
    <3> QED
      BY <1>0a, <2>1, <3>2, <3>3, <3>4 DEF PoolStep
  <2> QED
    BY <2>2, <2>3
<1>5. ASSUME NEW old, NEW new, entries' = Regroup(entries, old, new),
             UNCHANGED <<next_id, settings>>
      PROVE  PoolStep
  <2>1. /\ Live' = Live
        /\ \A c \in Live : entries'[c] =
               IF old \in entries[c].credentials.groups
               THEN [entries[c] EXCEPT !.credentials.groups = (@ \ {old}) \cup new]
               ELSE entries[c]
    BY <1>5 DEF Regroup, Live
  <2>2. ASSUME NEW c \in Live
        PROVE  Follows(entries'[c], entries[c])
    <3> DEFINE e == entries[c]
               k == [e.credentials EXCEPT !.groups = (e.credentials.groups \ {old}) \cup new]
    <3>1. entries'[c] = e \/ entries'[c] = [e EXCEPT !.credentials = k]
      BY <2>1
    <3>2. /\ k.broken = e.credentials.broken /\ k.priority = e.credentials.priority
          /\ k.opus = e.credentials.opus
      BY <1>0 DEF KiroCredentials
    <3> HIDE DEF k
    <3>3. /\ [e EXCEPT !.credentials = k].credentials = k
          /\ [e EXCEPT !.credentials = k].rpm_used = e.rpm_used
      BY <1>0 DEF CredentialEntry
    <3>4. Follows([e EXCEPT !.credentials = k], e)
      BY <1>0, <3>2, <3>3 DEF Follows, Possible
    <3>5. Follows(e, e)
      BY UntouchedFollows DEF Untouched
    <3> QED
      BY <3>1, <3>4, <3>5
  <2> QED
    BY <1>0a, <1>5, <2>1, <2>2 DEF PoolStep
<1>6. ASSUME NEW c \in Ids, DeleteCredential(c)
      PROVE  PoolStep
  <2>1. /\ Live' = Live \ {c} /\ UNCHANGED <<next_id, settings>>
        /\ \A d \in Live \ {c} : entries'[d] = entries[d]
    BY <1>6 DEF DeleteCredential, Live
  <2> QED
    BY <1>0a, <2>1, FewerStep DEF Untouched
<1>7. ASSUME SwitchToNext
      PROVE  PoolStep
  BY <1>7, SameEntriesStep DEF SwitchToNext
<1>8. ASSUME \/ \E mode \in Modes : SetLoadBalancingMode(mode)
             \/ \E h \in HealConfigs : SetSelfHealConfig(h)
             \/ \E n \in RpmLimits : SetAccountRpmConfig(n)
      PROVE  PoolStep
  <2>1. /\ settings' \in [mode: Modes, heal: HealConfigs, rpm_limit: RpmLimits]
        /\ UNCHANGED <<entries, next_id>>
    BY <1>0a, <1>8 DEF SetLoadBalancingMode, SetSelfHealConfig, SetAccountRpmConfig, Configure
  <2>2. Live' = Live /\ next_id' \in Nat /\ next_id' >= next_id
    BY <1>0a, <2>1 DEF Live
  <2> QED
    BY <2>1, <2>2, FewerStep DEF Untouched
<1>9. ASSUME NEW h \in Groups, NEW j \in Groups, RenameGroup(h, j)
      PROVE  PoolStep
  BY <1>5, <1>9 DEF RenameGroup
<1>10. ASSUME NEW h \in Groups, RemoveGroup(h)
       PROVE  PoolStep
  BY <1>5, <1>10 DEF RemoveGroup
<1> QED
  BY <1>1, <1>2, <1>3, <1>4, <1>6, <1>7, <1>8, <1>9, <1>10 DEF OperatorNext

LEMMA TimeStep ==
    ASSUME PoolFacts, TimeNext
    PROVE  PoolStep
<1>0. \A c \in Live : entries[c] \in CredentialEntry
  BY DEF PoolFacts, PoolInv, EntriesInv
<1>1. CASE Tick
  <2>1. /\ Live' = Live /\ UNCHANGED <<next_id, settings>>
        /\ \A c \in Live : entries'[c] = Aged(entries[c])
    BY <1>1 DEF Tick, Live
  <2>2. next_id \in Nat /\ settings \in [mode: Modes, heal: HealConfigs, rpm_limit: RpmLimits]
    BY DEF PoolFacts, PoolInv
  <2> QED
    BY <1>0, <2>1, <2>2, UntouchedByOthers, FewerStep
<1>2. ASSUME NEW c \in Ids, ThrottleExpire(c)
      PROVE  PoolStep
  BY <1>0, <1>2, UntouchedByChange, SetUntouched DEF ThrottleExpire
<1>3. ASSUME NEW c \in Ids, RpmSlide(c)
      PROVE  PoolStep
  <2> DEFINE e == entries[c]
             f == [e EXCEPT !.rpm_used = e.rpm_used - 1]
  <2>1. c \in Live /\ Set(c, f) /\ UNCHANGED <<next_id, settings>>
    BY <1>3 DEF RpmSlide
  <2>2. e \in CredentialEntry /\ e.rpm_used \in Nat
    BY <1>0, <2>1 DEF CredentialEntry
  <2>3. f.credentials = e.credentials /\ f.rpm_used = e.rpm_used - 1
    BY <2>2 DEF CredentialEntry
  <2> HIDE DEF f
  <2>4. Follows(f, e)
    BY <2>1, <2>2, <2>3 DEF Follows, PoolFacts, PoolData
  <2> QED
    BY <2>1, <2>4, SetStep
<1> QED
  BY <1>1, <1>2, <1>3 DEF TimeNext

\* A step of the pool other than a restart.
Running ==
    RequestNext \/ RotationNext \/ OperatorNext \/ TimeNext \/ Persist \/ UNCHANGED pool

LEMMA RunningStep ==
    ASSUME PoolFacts, Running
    PROVE  PoolStep
BY RequestStep, OperatorTakesStep, TimeStep, SameEntriesStep DEF Running, pool, Persist

(* What a step of a running process leaves in the file. *)
Stored ==
    \/ disk' \in {disk, Image(entries'), Image(entries)}
    \/ disk' = [c \in DOMAIN disk |-> Aged(disk[c])]

LEMMA SaveStores == \A S : Save(S) \/ UNCHANGED storage => Stored
BY DEF Save, Write, SaveLater, storage, Stored

LEMMA StepStores ==
    ASSUME Running
    PROVE  Stored
<1>1. ASSUME RequestNext \/ RotationNext PROVE Stored
  <2>1. ASSUME NEW c, ReportNext(c) PROVE Stored
    BY <2>1, SaveStores
       DEF ReportNext, ReportSuccess, ReportFailure, ReportQuotaExhausted, ReportRefreshFailure,
           ReportRefreshTokenInvalid, ReportAccountThrottled, ReportCustomRuleHit
  <2>2. ASSUME NEW c, AcquireNext(c) \/ ReloadFromFile(c) PROVE Stored
    BY <2>2, SaveStores DEF AcquireNext, BindCurrent, RecordRequest, TokenObtained, ReloadFromFile
  <2>3. ASSUME NEW model, NEW group, TrySelfHeal(model, group) PROVE Stored
    BY <2>3, SaveStores DEF TrySelfHeal
  <2> QED
    BY <1>1, <2>1, <2>2, <2>3 DEF RequestNext, RotationNext
<1>2. ASSUME OperatorNext PROVE Stored
  <2>1. ASSUME NEW c,
               \/ \E b : SetDisabled(c, b) \/ UpdateSubscription(c, b)
               \/ ResetAndEnable(c) \/ ClearThrottle(c) \/ DisableQuotaExceeded(c)
               \/ DeleteCredential(c) \/ UpdateRefreshToken(c)
        PROVE  Stored
    BY <2>1, SaveStores
       DEF SetDisabled, UpdateSubscription, ResetAndEnable, ClearThrottle, DisableQuotaExceeded,
           DeleteCredential, UpdateRefreshToken
  <2>2. ASSUME NEW c, (\E p : SetPriority(c, p)) \/ \E gs : UpdateCredential(c, gs)
        PROVE  Stored
    BY <2>2, SaveStores DEF SetPriority, UpdateCredential
  <2>3. ASSUME NEW cred, NEW duplicate, AddCredential(cred, duplicate) PROVE Stored
    BY <2>3, SaveStores DEF AddCredential
  <2>4. ASSUME NEW a, NEW b, RenameGroup(a, b) \/ RemoveGroup(a) PROVE Stored
    BY <2>4, SaveStores DEF RenameGroup, RemoveGroup
  <2>5. ASSUME (\E S : ResetSuccessCount(S)) \/ SwitchToNext PROVE Stored
    BY <2>5, SaveStores DEF ResetSuccessCount, SwitchToNext
  <2>6. ASSUME \/ \E x : SetLoadBalancingMode(x) \/ SetSelfHealConfig(x) \/ SetAccountRpmConfig(x)
        PROVE  Stored
    BY <2>6, SaveStores
       DEF SetLoadBalancingMode, SetSelfHealConfig, SetAccountRpmConfig, Configure
  <2> QED
    BY <1>2, <2>1, <2>2, <2>3, <2>4, <2>5, <2>6 DEF OperatorNext
<1>3. ASSUME TimeNext PROVE Stored
  BY <1>3, SaveStores DEF TimeNext, Tick, ThrottleExpire, RpmSlide, Stored
<1>4. ASSUME Persist PROVE Stored
  BY <1>4 DEF Persist, Stored
<1>5. ASSUME UNCHANGED pool PROVE Stored
  BY <1>5, SaveStores DEF pool
<1> QED
  BY <1>1, <1>2, <1>3, <1>4, <1>5 DEF Running

(* What one step keeps, the next finds. *)
LEMMA StepKeepsData ==
    ASSUME PoolFacts, PoolStep, Stored, PoolInv'
    PROVE  PoolData'
<1>1. IsFiniteSet(Live')
  <2>1. Live' \subseteq Live \cup {next_id}
    BY DEF PoolStep
  <2> QED
    BY <2>1, FS_AddElement, FS_Subset DEF PoolFacts, PoolData
<1>2. \A c \in Live' : Possible(entries'[c].credentials)
  BY DEF PoolStep, Follows
<1>3. RpmNeverExceeded'
  <2> SUFFICES ASSUME 0 \notin RpmLimits, NEW c \in Live'
               PROVE  \E n \in RpmLimits : entries'[c].rpm_used <= n
    BY DEF RpmNeverExceeded
  <2>1. settings.rpm_limit \in RpmLimits /\ RpmLimits \subseteq Nat
    BY PoolAssumption DEF PoolFacts, PoolInv
  <2>2. entries'[c].rpm_used \in Nat
    BY DEF PoolInv, EntriesInv, CredentialEntry
  <2>3. CASE c = next_id /\ entries'[c].rpm_used = 0
    <3>1. settings.rpm_limit \in Nat
      BY <2>1
    <3> QED
      BY <2>1, <2>3, <3>1
  <2>4. CASE c \in Live /\ Follows(entries'[c], entries[c])
    <3>1. PICK n \in RpmLimits : entries[c].rpm_used <= n
      BY <2>4 DEF PoolFacts, PoolData, RpmNeverExceeded
    <3>2. entries[c].rpm_used \in Nat /\ n \in Nat
      BY <2>1, <2>4 DEF PoolFacts, PoolInv, EntriesInv, CredentialEntry
    <3>3. CASE entries'[c].rpm_used <= entries[c].rpm_used
      BY <2>2, <3>1, <3>2, <3>3
    <3>4. CASE entries'[c].rpm_used <= settings.rpm_limit
      BY <2>1, <3>4
    <3> QED
      BY <2>4, <3>3, <3>4 DEF Follows
  <2> QED
    BY <2>3, <2>4 DEF PoolStep
<1>4. /\ IsFiniteSet(DOMAIN disk')
      /\ \A c \in DOMAIN disk' : Possible(disk'[c].credentials)
  <2>1. /\ IsFiniteSet(Live) /\ IsFiniteSet(DOMAIN disk)
        /\ \A c \in Live : Possible(entries[c].credentials)
        /\ \A c \in DOMAIN disk : /\ disk[c] \in Persisted
                                   /\ Possible(disk[c].credentials)
    BY DEF PoolFacts, PoolData, PoolInv, IsFile
  <2>2. CASE disk' \in {disk, Image(entries'), Image(entries)}
    BY <1>1, <1>2, <2>1, <2>2 DEF Image, Saved, Live
  <2>3. CASE disk' = [c \in DOMAIN disk |-> Aged(disk[c])]
    <3>1. \A p \in Persisted : Aged(p).credentials = p.credentials
      BY DEF Aged, Persisted
    <3> QED
      BY <2>1, <2>3, <3>1
  <2> QED
    BY <2>2, <2>3 DEF Stored
<1> QED
  BY <1>1, <1>2, <1>3, <1>4 DEF PoolData

LEMMA RestartKeepsData ==
    ASSUME PoolFacts, Restart
    PROVE  PoolData'
<1>1. PICK uses : Boot(disk, uses)
  BY DEF Restart
<1>2. /\ Live' = DOMAIN disk
      /\ \A c \in DOMAIN disk : entries'[c] = Loaded(disk[c], uses[c])
      /\ disk' \in {disk, Image(entries')}
  BY <1>1 DEF Boot, Live
<1>3. /\ IsFiniteSet(DOMAIN disk)
      /\ \A c \in DOMAIN disk : Possible(disk[c].credentials)
  BY DEF PoolFacts, PoolData
<1>4. \A c \in Live' : /\ Possible(entries'[c].credentials)
                       /\ entries'[c].rpm_used = 0
  <2>1. \A p, n : Loaded(p, n).credentials = p.credentials /\ Loaded(p, n).rpm_used = 0
    BY DEF Loaded
  <2> QED
    BY <1>2, <1>3, <2>1
<1>5. settings.rpm_limit \in RpmLimits /\ RpmLimits \subseteq Nat
  BY PoolAssumption DEF PoolFacts, PoolInv
<1>6. RpmNeverExceeded'
  <2>1. settings'= settings /\ settings.rpm_limit \in Nat
    BY <1>5 DEF Restart
  <2> QED
    BY <1>4, <1>5, <2>1 DEF RpmNeverExceeded
<1>7. /\ IsFiniteSet(DOMAIN disk')
      /\ \A c \in DOMAIN disk' : Possible(disk'[c].credentials)
  BY <1>2, <1>3, <1>4 DEF Image, Saved, Live
<1> QED
  BY <1>2, <1>3, <1>4, <1>6, <1>7 DEF PoolData

LEMMA InitFacts == Init => PoolFacts
<1> SUFFICES ASSUME Init PROVE PoolFacts
  OBVIOUS
<1>1. PICK f \in InitialFiles :
        /\ entries = [c \in DOMAIN f |-> Loaded(f[c], 0)]
        /\ disk \in {f, Image(entries)}
        /\ settings \in [mode: Modes, heal: HealConfigs, rpm_limit: RpmLimits]
  BY DEF Init
<1>2. /\ IsFiniteSet(DOMAIN f)
      /\ \A c \in DOMAIN f : Possible(f[c].credentials)
  BY PoolAssumption DEF Possible
<1>3. Live = DOMAIN f /\ \A c \in Live : /\ entries[c].credentials = f[c].credentials
                                        /\ entries[c].rpm_used = 0
  BY <1>1 DEF Live, Loaded
<1>4. settings.rpm_limit \in RpmLimits /\ RpmLimits \subseteq Nat
  BY <1>1, PoolAssumption
<1>5. RpmNeverExceeded
  <2>1. settings.rpm_limit \in Nat
    BY <1>4
  <2> QED
    BY <1>3, <1>4, <2>1 DEF RpmNeverExceeded
<1>6. /\ IsFiniteSet(DOMAIN disk)
      /\ \A c \in DOMAIN disk : Possible(disk[c].credentials)
  BY <1>1, <1>2, <1>3 DEF Image, Saved, Live
<1>7. PoolData
  BY <1>2, <1>3, <1>5, <1>6 DEF PoolData
<1> QED
  BY <1>7, InitInv, InitDurable, InitIds DEF PoolFacts

LEMMA NextFacts ==
    ASSUME PoolFacts, [Next]_pool
    PROVE  PoolFacts'
<1>1. PoolInv' /\ StreakDurable' /\ IdsNeverReused'
  BY NextInv, NextDurable, NextIds DEF PoolFacts
<1>2. Running \/ Restart
  BY DEF Running, Next
<1>3. PoolData'
  BY <1>1, <1>2, RunningStep, StepStores, StepKeepsData, RestartKeepsData
<1> QED
  BY <1>1, <1>3 DEF PoolFacts


---------------------------------------------------------------------------
(* acquire_context: the inductive invariant.                               *)

(* Where a request still counts on its attempts, and where it has a        *)
(* credential picked.                                                      *)
Trying == {"select", "heal", "reselect", "explain", "bind", "token", "refresh",
           "failed", "invalid", "record"}
Holding == {"bind", "token", "refresh", "failed", "invalid", "record", "ctx"}

(* A request remembers an id the counter handed out and, while the         *)
(* credential lives, whether it has its key: the id names the same one.    *)
Tracks(c, snap) ==
    /\ c \in Ids /\ c < next_id
    /\ Possible(snap)
    /\ c \in Live => snap.broken = entries[c].credentials.broken

TracksAfter(c, snap) ==
    /\ c \in Ids /\ c < next_id'
    /\ Possible(snap)
    /\ c \in Live' => snap.broken = entries'[c].credentials.broken

RequestTypes ==
    /\ pc \in [Requests -> PC]
    /\ picked \in [Requests -> Nat]
    /\ snapshot \in [Requests -> KiroCredentials]
    /\ attempts \in [Requests -> Nat] /\ max_attempts \in [Requests -> Nat]
    /\ outcome \in [Requests -> Outcome]

AttemptsLeft ==
    \A r \in Requests :
        /\ attempts[r] <= max_attempts[r]
        /\ pc[r] \in Trying => attempts[r] < max_attempts[r]
        /\ pc[r] = "idle" => max_attempts[r] = 0

PickedTracked == \A r \in Requests : pc[r] \in Holding => Tracks(picked[r], snapshot[r])

RequestsInv == RequestTypes /\ AttemptsLeft /\ PickedTracked

SharedInv ==
    /\ refresh_lock \in Requests \cup {NoRequest}
    /\ rotations \in 0 .. MaxRotations /\ edits \in 0 .. MaxEdits

AcquireIInv == PoolFacts /\ RequestsInv /\ SharedInv

LEMMA TracksStays ==
    ASSUME PoolFacts, PoolStep, NEW c, NEW snap, Tracks(c, snap)
    PROVE  TracksAfter(c, snap)
<1>1. c \in Ids /\ c < next_id /\ c < next_id'
  BY PoolAssumption DEF Tracks, PoolStep, PoolFacts, PoolInv
<1>2. ASSUME c \in Live'
      PROVE  snap.broken = entries'[c].credentials.broken
  <2>1. c # next_id
    BY <1>1, PoolAssumption
  <2>2. c \in Live /\ Follows(entries'[c], entries[c])
    BY <1>2, <2>1 DEF PoolStep
  <2> QED
    BY <2>2 DEF Follows, Tracks
<1> QED
  BY <1>1, <1>2 DEF Tracks, TracksAfter

(* A credential just read is tracked after the step that read it. *)
LEMMA TracksPicked ==
    ASSUME PoolFacts, PoolStep, NEW c \in Live
    PROVE  TracksAfter(c, entries[c].credentials)
<1>1. Tracks(c, entries[c].credentials)
  BY DEF Tracks, PoolFacts, PoolInv, EntriesInv, IdsNeverReused, PoolData
<1> QED
  BY <1>1, TracksStays

LEMMA OthersTracked ==
    ASSUME PoolFacts, PoolStep, PickedTracked, NEW q \in Requests,
           pc'[q] \in Holding => pc[q] \in Holding,
           picked'[q] = picked[q], snapshot'[q] = snapshot[q]
    PROVE  pc'[q] \in Holding => TracksAfter(picked'[q], snapshot'[q])
BY TracksStays DEF PickedTracked

LEMMA TrackedAfter ==
    ASSUME \A q \in Requests : pc'[q] \in Holding => TracksAfter(picked'[q], snapshot'[q])
    PROVE  PickedTracked'
BY DEF PickedTracked, TracksAfter, Tracks, Live

---------------------------------------------------------------------------
(* How a step moves its request, while the pool takes a step of its own.   *)

LEMMA StayKeeps ==
    ASSUME PoolFacts, PoolStep, RequestsInv, UNCHANGED request_vars
    PROVE  RequestsInv'
<1>1. RequestTypes' /\ AttemptsLeft'
  BY DEF RequestsInv, RequestTypes, AttemptsLeft, request_vars
<1>2. PickedTracked'
  BY OthersTracked, TrackedAfter DEF RequestsInv, request_vars
<1> QED
  BY <1>1, <1>2 DEF RequestsInv

LEMMA GotoKeeps ==
    ASSUME PoolFacts, PoolStep, RequestsInv, NEW r \in Requests, NEW where \in PC \ {"idle"},
           Goto(r, where), where \in Holding => pc[r] \in Holding,
           where \in Trying => attempts[r] < max_attempts[r]
    PROVE  RequestsInv'
<1>1. /\ \A q \in Requests : pc'[q] = IF q = r THEN where ELSE pc[q]
      /\ pc' \in [Requests -> PC]
      /\ UNCHANGED <<picked, snapshot, attempts, max_attempts, outcome>>
  BY DEF Goto, RequestsInv, RequestTypes
<1>2. RequestTypes' /\ AttemptsLeft'
  BY <1>1 DEF RequestsInv, RequestTypes, AttemptsLeft
<1>3. PickedTracked'
  BY <1>1, OthersTracked, TrackedAfter DEF RequestsInv
<1> QED
  BY <1>2, <1>3 DEF RequestsInv

LEMMA PickKeeps ==
    ASSUME PoolFacts, PoolStep, RequestsInv, NEW r \in Requests, NEW where \in PC \ {"idle"},
           NEW c \in Live, Pick(r, c, where), attempts[r] < max_attempts[r]
    PROVE  RequestsInv'
<1>1. c \in Nat /\ entries[c].credentials \in KiroCredentials
  BY PoolAssumption DEF PoolFacts, PoolInv, EntriesInv, CredentialEntry
<1>2. /\ \A q \in Requests : /\ pc'[q] = IF q = r THEN where ELSE pc[q]
                             /\ picked'[q] = IF q = r THEN c ELSE picked[q]
                             /\ snapshot'[q] = IF q = r THEN entries[c].credentials ELSE snapshot[q]
      /\ pc' \in [Requests -> PC] /\ picked' \in [Requests -> Nat]
      /\ snapshot' \in [Requests -> KiroCredentials]
      /\ UNCHANGED <<attempts, max_attempts, outcome>>
  BY <1>1 DEF Pick, RequestsInv, RequestTypes
<1>3. RequestTypes' /\ AttemptsLeft'
  BY <1>2 DEF RequestsInv, RequestTypes, AttemptsLeft
<1>4. PickedTracked'
  <2>1. ASSUME NEW q \in Requests, pc'[q] \in Holding
        PROVE  TracksAfter(picked'[q], snapshot'[q])
    <3>1. CASE q = r
      BY <1>2, <3>1, TracksPicked
    <3>2. CASE q # r
      BY <1>2, <2>1, <3>2, OthersTracked DEF RequestsInv
    <3> QED
      BY <3>1, <3>2
  <2> QED
    BY <2>1, TrackedAfter
<1> QED
  BY <1>3, <1>4 DEF RequestsInv

LEMMA LeaveKeeps ==
    ASSUME PoolFacts, PoolStep, RequestsInv, NEW r \in Requests, NEW where \in {"idle", "done"},
           NEW how \in Outcome, Leave(r, where, how)
    PROVE  RequestsInv'
<1>1. /\ \A q \in Requests :
             /\ pc'[q] = IF q = r THEN where ELSE pc[q]
             /\ picked'[q] = IF q = r THEN NoCurrent ELSE picked[q]
             /\ snapshot'[q] = IF q = r THEN Blank ELSE snapshot[q]
             /\ attempts'[q] = IF q = r THEN 0 ELSE attempts[q]
             /\ max_attempts'[q] = IF q = r THEN 0 ELSE max_attempts[q]
  BY DEF Leave, RequestsInv, RequestTypes
<1>2. NoCurrent \in Nat /\ Blank \in KiroCredentials /\ where \in PC
  BY DEF NoCurrent, Blank, KiroCredentials, PC
<1>3. RequestTypes'
  BY <1>2 DEF Leave, RequestsInv, RequestTypes
<1>4. AttemptsLeft'
  BY <1>1 DEF RequestsInv, AttemptsLeft, Trying
<1>5. PickedTracked'
  <2>1. ASSUME NEW q \in Requests, pc'[q] \in Holding
        PROVE  TracksAfter(picked'[q], snapshot'[q])
    <3>1. q # r
      BY <1>1, <2>1 DEF Holding
    <3> QED
      BY <1>1, <2>1, <3>1, OthersTracked DEF RequestsInv
  <2> QED
    BY <2>1, TrackedAfter
<1> QED
  BY <1>3, <1>4, <1>5 DEF RequestsInv

LEMMA RetryKeeps ==
    ASSUME PoolFacts, PoolStep, RequestsInv, NEW r \in Requests, pc[r] \in Trying, Retry(r)
    PROVE  RequestsInv'
<1>1. /\ \A q \in Requests :
             /\ pc'[q] = IF q = r THEN "top" ELSE pc[q]
             /\ attempts'[q] = IF q = r THEN attempts[r] + 1 ELSE attempts[q]
      /\ pc' \in [Requests -> PC] /\ attempts' \in [Requests -> Nat]
      /\ UNCHANGED <<picked, snapshot, max_attempts, outcome>>
  BY DEF Retry, RequestsInv, RequestTypes, PC
<1>2. RequestTypes'
  BY <1>1 DEF RequestsInv, RequestTypes
<1>3. attempts[r] \in Nat /\ max_attempts[r] \in Nat /\ attempts[r] < max_attempts[r]
  BY DEF RequestsInv, RequestTypes, AttemptsLeft
<1>4. AttemptsLeft'
  BY <1>1, <1>3 DEF RequestsInv, AttemptsLeft, Trying
<1>5. PickedTracked'
  BY <1>1, OthersTracked, TrackedAfter DEF RequestsInv, Holding
<1> QED
  BY <1>2, <1>4, <1>5 DEF RequestsInv

---------------------------------------------------------------------------
(* Every step of acquire_context is a critical section of the pool, or     *)
(* none, and keeps the invariant of the requests.                          *)

LEMMA SelectableLive == \A model, group : Selectable(model, group) \subseteq Live
BY DEF Selectable, InScope, Live

LEMMA SelectNextSubset ==
    \A model, group : SelectNext(model, group) \subseteq Selectable(model, group)
BY DEF SelectNext, LeastUsed, HighestPriority

(* Without its key a credential never gets as far as a token, so what is   *)
(* written back for it is what the pool allows to write back.              *)
LEMMA SnapshotType ==
    ASSUME NEW snap \in KiroCredentials, Possible(snap), ~snap.broken
    PROVE  snap \in Snapshots
BY DEF KiroCredentials, Snapshots, Possible

LEMMA TokenIsRequest ==
    ASSUME NEW c \in Ids, NEW snap \in Snapshots, NEW refreshed \in BOOLEAN,
           NEW counted \in BOOLEAN, TokenObtained(c, snap, refreshed, counted)
    PROVE  RequestNext
BY DEF RequestNext, AcquireNext

LEMMA RequestArgs == \A r \in Requests : m(r) \in ModelArgs /\ g(r) \in GroupArgs
BY AcquireAssumption DEF m, g

LEMMA LiveFacts ==
    ASSUME PoolFacts, NEW c \in Live
    PROVE  /\ c \in Ids /\ entries[c].credentials \in KiroCredentials
           /\ Possible(entries[c].credentials)
BY DEF PoolFacts, PoolInv, EntriesInv, CredentialEntry, PoolData

LEMMA RunningMoves ==
    ASSUME PoolFacts
    PROVE  /\ UNCHANGED pool => Running
           /\ RequestNext => Running
           /\ RotationNext => Running
           /\ Running => PoolStep
BY RunningStep DEF Running

LEMMA SelectKeeps ==
    ASSUME PoolFacts, RequestsInv, SharedInv, NEW r \in Requests,
           NEW here \in {"select", "reselect"}, NEW otherwise \in {"heal", "explain"},
           SelectOr(r, here, otherwise)
    PROVE  Running /\ RequestsInv' /\ SharedInv'
<1>1. /\ pc[r] = here /\ UNCHANGED <<pool, refresh_lock, rotations, edits>>
      /\ \/ Goto(r, otherwise)
         \/ \E c \in SelectNext(m(r), g(r)) : Pick(r, c, "bind")
  BY DEF SelectOr, At, Local, bounds
<1>2. Running /\ PoolStep /\ SharedInv'
  BY <1>1, RunningMoves DEF SharedInv
<1>3. pc[r] \in Trying /\ attempts[r] < max_attempts[r]
  BY <1>1 DEF Trying, RequestsInv, AttemptsLeft
<1>4. CASE Goto(r, otherwise)
  <2>1. otherwise \in PC \ {"idle"} /\ otherwise \notin Holding
    BY DEF PC, Holding
  <2> QED
    BY <1>2, <1>3, <1>4, <2>1, GotoKeeps
<1>5. ASSUME NEW c \in SelectNext(m(r), g(r)), Pick(r, c, "bind")
      PROVE  RequestsInv'
  <2>1. c \in Live
    BY <1>5, SelectNextSubset, SelectableLive
  <2>2. "bind" \in PC \ {"idle"}
    BY DEF PC
  <2> QED
    BY <1>2, <1>3, <1>5, <2>1, <2>2, PickKeeps
<1> QED
  BY <1>1, <1>2, <1>4, <1>5

(* handle_token_refresh_error, whichever way it goes on. *)
LEMMA RetryIfAnyKeeps ==
    ASSUME PoolFacts, PoolStep, RequestsInv, NEW r \in Requests, pc[r] \in Trying,
           RetryIfAny(r)
    PROVE  RequestsInv'
BY RetryKeeps, LeaveKeeps DEF RetryIfAny, Fail, Outcome

LEMMA TokenKeeps ==
    ASSUME PoolFacts, RequestsInv, SharedInv, NEW r \in Requests,
           TokenValid(r) \/ BeginRefresh(r) \/ EndRefresh(r)
    PROVE  Running /\ RequestsInv' /\ SharedInv'
<1>0. /\ pc[r] \in Trying /\ pc[r] \in Holding /\ attempts[r] < max_attempts[r]
      /\ Tracks(picked[r], snapshot[r]) /\ snapshot[r] \in KiroCredentials
  <2>1. pc[r] \in {"token", "refresh"}
    BY DEF TokenValid, BeginRefresh, EndRefresh, At
  <2>2. pc[r] \in Trying /\ pc[r] \in Holding
    BY <2>1 DEF Trying, Holding
  <2> QED
    BY <2>2 DEF RequestsInv, RequestTypes, AttemptsLeft, PickedTracked
<1>1. ASSUME NEW where \in {"failed", "invalid", "record", "refresh"}, PoolStep, Goto(r, where)
      PROVE  RequestsInv'
  <2>1. where \in PC \ {"idle"}
    BY DEF PC
  <2> QED
    BY <1>0, <1>1, <2>1, GotoKeeps
<1>2. ASSUME NEW where \in {"record", "refresh"}, PoolStep, picked[r] \in Live,
             Pick(r, picked[r], where)
      PROVE  RequestsInv'
  <2>1. where \in PC \ {"idle"}
    BY DEF PC
  <2> QED
    BY <1>0, <1>2, <2>1, PickKeeps
<1>3. /\ picked[r] \in Ids /\ Possible(snapshot[r])
      /\ picked[r] \in Live => snapshot[r].broken = entries[picked[r]].credentials.broken
  BY <1>0 DEF Tracks
<1>4. CASE TokenValid(r)
  <2>1. SharedInv'
    BY <1>4 DEF TokenValid, Local, SharedInv, bounds
  <2>2. CASE Goto(r, "failed") /\ UNCHANGED pool
    BY <1>1, <2>1, <2>2, RunningMoves
  <2>3. CASE Goto(r, "record") /\ UNCHANGED pool
    BY <1>1, <2>1, <2>3, RunningMoves
  <2>4. CASE /\ Goto(r, "record") /\ ~snapshot[r].broken
             /\ TokenObtained(picked[r], snapshot[r], FALSE, TRUE)
    <3>1. RequestNext
      BY <1>0, <1>3, <2>4, SnapshotType, TokenIsRequest
    <3> QED
      BY <1>1, <2>1, <2>4, <3>1, RunningMoves
  <2> QED
    BY <1>4, <2>2, <2>3, <2>4 DEF TokenValid
<1>5. CASE BeginRefresh(r)
  <2>1. SharedInv'
    BY <1>5 DEF BeginRefresh, SharedInv, bounds
  <2>2. CASE Goto(r, "failed") /\ UNCHANGED pool
    BY <1>1, <2>1, <2>2, RunningMoves
  <2>3. CASE /\ picked[r] \in Live /\ Pick(r, picked[r], "record")
             /\ TokenObtained(picked[r], entries[picked[r]].credentials, FALSE, TRUE)
    <3>1. ~entries[picked[r]].credentials.broken
      BY <2>3 DEF TokenObtained
    <3>2. RequestNext
      BY <1>3, <2>3, <3>1, LiveFacts, SnapshotType, TokenIsRequest
    <3> QED
      BY <1>2, <2>1, <2>3, <3>2, RunningMoves
  <2>4. CASE picked[r] \in Live /\ Pick(r, picked[r], "refresh") /\ UNCHANGED pool
    BY <1>2, <2>1, <2>4, RunningMoves
  <2> QED
    BY <1>5, <2>2, <2>3, <2>4 DEF BeginRefresh
<1>6. CASE EndRefresh(r)
  <2>1. SharedInv'
    BY <1>6 DEF EndRefresh, SharedInv, bounds
  <2>2. ASSUME NEW where \in {"failed", "invalid", "record"}, Goto(r, where), UNCHANGED pool
        PROVE  Running /\ RequestsInv'
    BY <1>1, <2>2, RunningMoves
  <2>3. CASE /\ Goto(r, "record") /\ picked[r] \in Live
             /\ TokenObtained(picked[r], snapshot[r], TRUE, TRUE)
    <3>1. ~entries[picked[r]].credentials.broken
      BY <2>3 DEF TokenObtained
    <3>2. RequestNext
      BY <1>0, <1>3, <2>3, <3>1, SnapshotType, TokenIsRequest
    <3> QED
      BY <1>1, <2>1, <2>3, <3>2, RunningMoves
  <2>4. CASE Fail(r, "limited") /\ UNCHANGED pool
    BY <2>1, <2>4, RunningMoves, LeaveKeeps DEF Fail, Outcome
  <2> QED
    BY <1>6, <2>1, <2>2, <2>3, <2>4 DEF EndRefresh
<1> QED
  BY <1>4, <1>5, <1>6

LEMMA AcquireStepKeeps ==
    ASSUME PoolFacts, RequestsInv, SharedInv, NEW r \in Requests, AcquireStep(r)
    PROVE  Running /\ RequestsInv' /\ SharedInv'
<1>0. /\ pc[r] \in Trying => attempts[r] < max_attempts[r]
      /\ pc[r] \in Holding => picked[r] \in Ids
  BY DEF RequestsInv, AttemptsLeft, PickedTracked, Tracks
<1>1. Local => SharedInv'
  BY DEF Local, SharedInv, bounds
<1>2. ASSUME Exhausted(r) \/ Explain(r)
      PROVE  Running /\ RequestsInv' /\ SharedInv'
  <2>1. PICK how \in Outcome : Leave(r, "done", how) /\ UNCHANGED pool /\ Local
    BY <1>2 DEF Exhausted, Explain, Fail, Outcome
  <2> QED
    BY <1>1, <2>1, RunningMoves, LeaveKeeps
<1>3. CASE TryCurrent(r)
  <2>1. /\ UNCHANGED pool /\ Local /\ attempts[r] < max_attempts[r]
        /\ \/ current_id \in Live /\ Pick(r, current_id, "token")
           \/ Goto(r, "select")
    BY <1>3, SelectableLive DEF TryCurrent, CurrentHit
  <2>2. /\ "token" \in PC \ {"idle"} /\ "select" \in PC \ {"idle"}
        /\ "select" \notin Holding
    BY DEF PC, Holding
  <2> QED
    BY <1>1, <2>1, <2>2, RunningMoves, PickKeeps, GotoKeeps
<1>4. CASE Select(r) \/ Reselect(r)
  BY <1>4, SelectKeeps DEF Select, Reselect
<1>5. CASE Heal(r)
  <2>1. PICK where \in {"reselect", "explain"} :
            Goto(r, where) /\ Running /\ Local /\ pc[r] = "heal"
    <3>1. /\ m(r) \in ModelArgs /\ g(r) \in GroupArgs
      BY RequestArgs
    <3>2. TrySelfHeal(m(r), g(r)) => Running
      BY <3>1, RunningMoves DEF RequestNext
    <3>3. SelfHealRefused(m(r), g(r)) => Running
      BY RunningMoves DEF SelfHealRefused
    <3> QED
      BY <1>5, <3>2, <3>3 DEF Heal, At
  <2>2. where \in PC \ {"idle"} /\ where \notin Holding /\ pc[r] \in Trying
    BY <2>1 DEF PC, Holding, Trying
  <2> QED
    BY <1>0, <1>1, <2>1, <2>2, RunningMoves, GotoKeeps
<1>6. CASE Bind(r)
  <2>1. pc[r] = "bind" /\ BindCurrent(picked[r]) /\ Goto(r, "token") /\ Local
    BY <1>6 DEF Bind, At
  <2>2. pc[r] \in Holding /\ pc[r] \in Trying /\ "token" \in PC \ {"idle"}
    BY <2>1 DEF Holding, Trying, PC
  <2>3. RequestNext
    BY <1>0, <2>1, <2>2 DEF RequestNext, AcquireNext
  <2> QED
    BY <1>0, <1>1, <2>1, <2>2, <2>3, RunningMoves, GotoKeeps
<1>7. CASE TokenValid(r) \/ BeginRefresh(r) \/ EndRefresh(r)
  BY <1>7, TokenKeeps
<1>8. CASE RefreshFailed(r) \/ RefreshTokenInvalid(r)
  <2>1. pc[r] \in {"failed", "invalid"} /\ RetryIfAny(r) /\ Local
    BY <1>8 DEF RefreshFailed, RefreshTokenInvalid, At
  <2>2. pc[r] \in Holding /\ pc[r] \in Trying
    BY <2>1 DEF Holding, Trying
  <2>3. RequestNext \/ UNCHANGED pool
    BY <1>0, <1>8, <2>2
       DEF RefreshFailed, RefreshTokenInvalid, RequestNext, ReportNext, Ignored
  <2> QED
    BY <1>1, <2>1, <2>2, <2>3, RunningMoves, RetryIfAnyKeeps
<1>9. CASE Reloaded(r)
  <2>1. /\ pc[r] = "invalid" /\ ReloadFromFile(picked[r]) /\ Goto(r, "top")
        /\ rotations < MaxRotations /\ rotations' = rotations + 1
        /\ UNCHANGED <<refresh_lock, edits>>
    BY <1>9 DEF Reloaded, At
  <2>2. pc[r] \in Holding /\ "top" \in PC \ {"idle"} /\ "top" \notin Holding \cup Trying
    BY <2>1 DEF Holding, Trying, PC
  <2>3. RotationNext
    BY <1>0, <2>1, <2>2 DEF RotationNext
  <2>4. SharedInv'
    BY <2>1, AcquireAssumption DEF SharedInv
  <2> QED
    BY <2>1, <2>2, <2>3, <2>4, RunningMoves, GotoKeeps
<1>10. CASE Record(r)
  <2>1. /\ pc[r] = "record" /\ Local
        /\ \/ RecordRequest(picked[r]) /\ Goto(r, "ctx")
           \/ UNCHANGED pool /\ Retry(r)
    BY <1>10 DEF Record, At, RecordRefused
  <2>2. /\ pc[r] \in Holding /\ pc[r] \in Trying
        /\ "ctx" \in PC \ {"idle"} /\ "ctx" \notin Trying
    BY <2>1 DEF Holding, Trying, PC
  <2>3. RecordRequest(picked[r]) => RequestNext
    BY <1>0, <2>2 DEF RequestNext, AcquireNext
  <2> QED
    BY <1>1, <2>1, <2>2, <2>3, RunningMoves, GotoKeeps, RetryKeeps
<1> QED
  BY <1>2, <1>3, <1>4, <1>5, <1>6, <1>7, <1>8, <1>9, <1>10 DEF AcquireStep

(* total_count_in_group counts a finite set. *)
LEMMA InGroupCount ==
    ASSUME PoolFacts, NEW group
    PROVE  Cardinality({c \in Live : GroupMatches(entries[c].credentials, group)}) \in Nat
BY FS_Subset, FS_CardinalityType DEF PoolFacts, PoolData

LEMMA StartKeeps ==
    ASSUME PoolFacts, RequestsInv, SharedInv, NEW r \in Requests, Start(r)
    PROVE  Running /\ RequestsInv' /\ SharedInv'
<1> DEFINE total == Cardinality({c \in Live : GroupMatches(entries[c].credentials, g(r))})
           most == total * MAX_FAILURES_PER_CREDENTIAL
           n == IF most > 1 THEN most ELSE 1
<1>1. n \in Nat
  <2>1. total \in Nat
    BY InGroupCount
  <2> HIDE DEF total
  <2> QED
    BY <2>1, PoolAssumption
<1>2. /\ max_attempts' = [max_attempts EXCEPT ![r] = n]
      /\ pc' = [pc EXCEPT ![r] = "top"] /\ pc[r] = "idle"
      /\ UNCHANGED <<picked, snapshot, attempts, outcome, pool, refresh_lock, rotations, edits>>
  BY DEF Start, At, Local, bounds
<1> HIDE DEF n
<1>3. RequestTypes'
  BY <1>1, <1>2 DEF RequestsInv, RequestTypes, PC
<1>4. AttemptsLeft'
  <2>1. attempts[r] = 0
    BY <1>2 DEF RequestsInv, RequestTypes, AttemptsLeft
  <2> QED
    BY <1>1, <1>2, <2>1 DEF RequestsInv, RequestTypes, AttemptsLeft, Trying
<1>5. Running /\ PoolStep /\ SharedInv'
  BY <1>2, RunningMoves DEF SharedInv
<1>6. PickedTracked'
  BY <1>2, <1>5, OthersTracked, TrackedAfter DEF RequestsInv, RequestTypes, Holding
<1> QED
  BY <1>3, <1>4, <1>5, <1>6 DEF RequestsInv

LEMMA CallerKeeps ==
    ASSUME PoolFacts, RequestsInv, SharedInv, NEW r \in Requests, Caller(r) \/ GiveUp(r)
    PROVE  Running /\ RequestsInv' /\ SharedInv'
<1>1. /\ Leave(r, "idle", "none") /\ UNCHANGED <<refresh_lock, rotations, edits>>
  BY DEF Caller, GiveUp, Local, bounds
<1>2. Running
  <2>1. CASE GiveUp(r) \/ Ignored(picked[r])
    BY <2>1, RunningMoves DEF GiveUp, Ignored
  <2>2. ASSUME NEW kind, At(r, "ctx"), ReportOf(kind, picked[r], r)
        PROVE  RequestNext
    <3>1. picked[r] \in Ids
      BY <2>2 DEF At, RequestsInv, PickedTracked, Holding, Tracks
    <3>2. m(r) \in ModelArgs /\ g(r) \in GroupArgs
      BY RequestArgs
    <3>3. ReportNext(picked[r])
      BY <2>2, <3>2 DEF ReportOf, ReportNext
    <3> QED
      BY <3>1, <3>3 DEF RequestNext
  <2> QED
    BY <2>1, <2>2, RunningMoves DEF Caller
<1> QED
  BY <1>1, <1>2, RunningMoves, LeaveKeeps DEF SharedInv, Outcome

LEMMA CrashKeeps ==
    ASSUME SharedInv, Crash
    PROVE  Restart /\ RequestsInv' /\ SharedInv'
<1>1. RequestTypes'
  BY DEF Crash, RequestTypes, PC, NoCurrent, Blank, KiroCredentials, Outcome
<1>2. AttemptsLeft' /\ PickedTracked'
  BY DEF Crash, AttemptsLeft, PickedTracked, Trying, Holding
<1>3. SharedInv'
  BY AcquireAssumption DEF Crash, SharedInv
<1> QED
  BY <1>1, <1>2, <1>3 DEF Crash, RequestsInv

LEMMA EnvironmentKeeps ==
    ASSUME PoolFacts, RequestsInv, SharedInv, Operator \/ Clock
    PROVE  Running /\ RequestsInv' /\ SharedInv'
<1>1. Running /\ UNCHANGED request_vars
  BY DEF Operator, Clock, Running, acquire
<1>2. SharedInv'
  BY AcquireAssumption DEF Operator, Clock, SharedInv, acquire, bounds
<1> QED
  BY <1>1, <1>2, RunningMoves, StayKeeps

LEMMA RunningIsNext == Running \/ Restart => [Next]_pool
BY DEF Running, Next

LEMMA InitAcquireInv == InitAcquire => AcquireIInv
<1> SUFFICES ASSUME InitAcquire PROVE AcquireIInv
  OBVIOUS
<1>1. RequestTypes
  BY DEF InitAcquire, RequestTypes, PC, NoCurrent, Blank, KiroCredentials, Outcome
<1>2. AttemptsLeft /\ PickedTracked
  BY DEF InitAcquire, AttemptsLeft, PickedTracked, Trying, Holding
<1>3. SharedInv
  BY AcquireAssumption DEF InitAcquire, SharedInv
<1>4. PoolFacts
  BY InitFacts DEF InitAcquire
<1> QED
  BY <1>1, <1>2, <1>3, <1>4 DEF AcquireIInv, RequestsInv

LEMMA NextAcquireKeeps ==
    ASSUME AcquireIInv, [NextAcquire]_vars
    PROVE  [Next]_pool /\ AcquireIInv'
<1>1. PoolFacts /\ RequestsInv /\ SharedInv
  BY DEF AcquireIInv
<1>2. (Running \/ Restart) /\ RequestsInv' /\ SharedInv'
  <2>1. ASSUME NEW r \in Requests, Start(r) \/ AcquireStep(r) \/ Caller(r) \/ GiveUp(r)
        PROVE  Running /\ RequestsInv' /\ SharedInv'
    BY <1>1, <2>1, StartKeeps, AcquireStepKeeps, CallerKeeps
  <2>2. CASE Operator \/ Clock
    BY <1>1, <2>2, EnvironmentKeeps
  <2>3. CASE Crash
    BY <1>1, <2>3, CrashKeeps
  <2>4. CASE UNCHANGED vars
    <3>1. UNCHANGED pool /\ UNCHANGED request_vars
          /\ UNCHANGED <<refresh_lock, rotations, edits>>
      BY <2>4 DEF vars, acquire, bounds
    <3> QED
      BY <1>1, <3>1, RunningMoves, StayKeeps DEF SharedInv
  <2> QED
    BY <2>1, <2>2, <2>3, <2>4 DEF NextAcquire, Environment
<1>3. [Next]_pool
  BY <1>2, RunningIsNext
<1> QED
  BY <1>1, <1>2, <1>3, NextFacts DEF AcquireIInv

---------------------------------------------------------------------------
(* acquire_context: the theorems.                                          *)

(* Type correctness of the requests, and the bound on the attempts of      *)
(* acquire_context, for any number of requests and credentials.            *)
THEOREM RequestsTypeCorrect == SpecAcquire => []TypeOKAcquire
<1>1. AcquireIInv => TypeOKAcquire
  BY DEF AcquireIInv, RequestsInv, RequestTypes, AttemptsLeft, SharedInv, TypeOKAcquire
<1> QED
  BY <1>1, InitAcquireInv, NextAcquireKeeps, PTL DEF SpecAcquire

(* However the lock sections of the requests interleave, with the operator *)
(* changing the limit and the process crashing meanwhile, no credential    *)
(* starts more calls in a window than the largest limit (record_request    *)
(* checks and counts in one lock section).                                 *)
THEOREM RpmLimitHolds == SpecAcquire => []RpmNeverExceeded
<1>1. AcquireIInv => RpmNeverExceeded
  BY DEF AcquireIInv, PoolFacts, PoolData
<1> QED
  BY <1>1, InitAcquireInv, NextAcquireKeeps, PTL DEF SpecAcquire

(* Requests running in parallel only ever take the critical sections of    *)
(* the pool: what CredentialPool_proofs shows of MultiTokenManager holds   *)
(* under acquire_context.                                                  *)
THEOREM AcquireImplementsPool == SpecAcquire => Spec
<1>1. InitAcquire => Init
  BY DEF InitAcquire
<1> QED
  BY <1>1, InitAcquireInv, NextAcquireKeeps, PTL DEF SpecAcquire, Spec

---------------------------------------------------------------------------
(* No request is told "disabled" while a credential stays selectable.      *)

LEMMA LeastNat ==
    ASSUME NEW S, S # {}, S \subseteq Nat
    PROVE  \E least \in S : \A n \in S : least <= n
<1>1. PICK least \in S : \A n \in S : ~ (<<n, least>> \in OpToRel(<, Nat))
  BY NatLessThanWellFounded, WFMin
<1>2. ASSUME NEW n \in S
      PROVE  least <= n
  <2>1. n \in Nat /\ least \in Nat
    OBVIOUS
  <2>2. n < least => <<n, least>> \in OpToRel(<, Nat)
    BY <2>1 DEF OpToRel
  <2>3. ~ (n < least)
    BY <1>1, <2>2
  <2> QED
    BY <2>1, <2>3
<1> QED
  BY <1>2

LEMMA LeastValue ==
    ASSUME NEW S, S # {}, NEW f \in [S -> Nat]
    PROVE  \E c \in S : \A d \in S : f[c] <= f[d]
<1>1. {f[c] : c \in S} # {} /\ {f[c] : c \in S} \subseteq Nat
  OBVIOUS
<1>2. PICK least \in {f[c] : c \in S} : \A n \in {f[c] : c \in S} : least <= n
  BY <1>1, LeastNat
<1>3. PICK c \in S : least = f[c]
  BY <1>2
<1> QED
  BY <1>2, <1>3

(* select_next_credential finds one whenever there is one to find. *)
LEMMA SelectNextFinds ==
    ASSUME PoolFacts, NEW model, NEW group, Selectable(model, group) # {}
    PROVE  SelectNext(model, group) # {}
<1> DEFINE S == Selectable(model, group)
           priority == [c \in S |-> entries[c].credentials.priority]
           uses == [c \in S |-> entries[c].success_count]
<1>1. \A c \in S : entries[c].credentials.priority \in Nat /\ entries[c].success_count \in Nat
  BY SelectableLive DEF PoolFacts, PoolInv, EntriesInv, CredentialEntry, KiroCredentials
<1>2. S # {} /\ priority \in [S -> Nat] /\ uses \in [S -> Nat]
  BY <1>1
<1> HIDE DEF S
<1>3. CASE settings.mode = "balanced"
  <2> DEFINE T == {c \in S : \A d \in S : uses[c] <= uses[d]}
             rank == [c \in T |-> priority[c]]
  <2>1. T # {}
    BY <1>2, LeastValue
  <2>2. rank \in [T -> Nat]
    BY <1>2
  <2>3. PICK c \in T : \A d \in T : rank[c] <= rank[d]
    <3> HIDE DEF T, rank
    <3> QED
      BY <2>1, <2>2, LeastValue
  <2>4. ASSUME NEW d \in S
        PROVE  \/ entries[c].success_count < entries[d].success_count
               \/ /\ entries[c].success_count = entries[d].success_count
                  /\ entries[c].credentials.priority <= entries[d].credentials.priority
    <3>1. uses[c] <= uses[d] /\ uses[c] \in Nat /\ uses[d] \in Nat
      BY <1>2
    <3>2. CASE uses[c] < uses[d]
      BY <3>2
    <3>3. CASE uses[c] = uses[d]
      <4>1. d \in T
        BY <1>2, <3>3
      <4> QED
        BY <2>3, <3>3, <4>1
    <3> QED
      BY <3>1, <3>2, <3>3
  <2>5. c \in LeastUsed(S)
    BY <2>4 DEF LeastUsed
  <2> QED
    BY <1>3, <2>5 DEF SelectNext, S
<1>4. CASE settings.mode # "balanced"
  <2>1. PICK c \in S : \A d \in S : priority[c] <= priority[d]
    BY <1>2, LeastValue
  <2>2. c \in HighestPriority(entries, S)
    BY <2>1 DEF HighestPriority
  <2> QED
    BY <1>4, <2>2 DEF SelectNext, S
<1> QED
  BY <1>3, <1>4

(* Past the selection nothing that was selectable all along is left, and   *)
(* only a request that gave up holds "disabled".                           *)
Searched == {"heal", "reselect", "explain"}

SteadyInv ==
    \A r \in Requests :
        /\ pc[r] \in Searched => steady[r] = {}
        /\ outcome[r] = "disabled" => pc[r] = "done" /\ steady[r] = {}

Unmoved(r) == pc'[r] = pc[r] /\ outcome'[r] = outcome[r]

(* What a step may do to its request r: stay clear of "disabled", go on    *)
(* searching, or find nothing selectable.                                  *)
Moved(r) ==
    /\ outcome'[r] = "disabled" => pc'[r] = "done"
    /\ \/ pc'[r] \notin Searched /\ outcome'[r] # "disabled"
       \/ pc[r] \in Searched /\ pc'[r] # "idle"
       \/ pc[r] # "idle" /\ Selectable(m(r), g(r))' = {}

LEMMA MovedKeepsSteady ==
    ASSUME SteadyInv, \A r \in Requests : Unmoved(r) \/ Moved(r),
           steady' = [r \in Requests |->
              IF pc'[r] \in {"idle", "ctx"} THEN {}
              ELSE IF pc[r] = "idle" THEN Selectable(m(r), g(r))'
              ELSE steady[r] \cap Selectable(m(r), g(r))']
    PROVE  SteadyInv'
<1> SUFFICES ASSUME NEW r \in Requests
             PROVE  /\ pc'[r] \in Searched => steady'[r] = {}
                    /\ outcome'[r] = "disabled" => pc'[r] = "done" /\ steady'[r] = {}
  BY DEF SteadyInv
<1>1. /\ pc[r] \in Searched => steady[r] = {}
      /\ outcome[r] = "disabled" => pc[r] = "done" /\ steady[r] = {}
  BY DEF SteadyInv
<1>2. /\ pc'[r] \in {"idle", "ctx"} => steady'[r] = {}
      /\ pc'[r] \notin {"idle", "ctx"} /\ pc[r] # "idle" =>
            steady'[r] = steady[r] \cap Selectable(m(r), g(r))'
  OBVIOUS
<1>3. CASE Unmoved(r)
  <2>1. pc'[r] = pc[r] /\ outcome'[r] = outcome[r]
    BY <1>3 DEF Unmoved
  <2> QED
    BY <1>1, <1>2, <2>1 DEF Searched
<1>4. CASE Moved(r)
  <2>1. outcome'[r] = "disabled" => pc'[r] = "done"
    BY <1>4 DEF Moved
  <2>2. CASE pc'[r] \notin Searched /\ outcome'[r] # "disabled"
    BY <2>2
  <2>3. CASE pc[r] \in Searched /\ pc'[r] # "idle"
    BY <1>1, <1>2, <2>1, <2>3 DEF Searched
  <2>4. CASE pc[r] # "idle" /\ Selectable(m(r), g(r))' = {}
    BY <1>2, <2>1, <2>4
  <2> QED
    BY <1>4, <2>2, <2>3, <2>4 DEF Moved
<1> QED
  BY <1>3, <1>4

(* What a step of r does to pc and outcome. *)
LEMMA GotoMoves ==
    ASSUME RequestTypes, NEW r \in Requests, NEW where, Goto(r, where)
    PROVE  /\ pc'[r] = where /\ outcome'[r] = outcome[r]
           /\ \A q \in Requests \ {r} : Unmoved(q)
BY DEF Goto, RequestTypes, Unmoved

LEMMA PickMoves ==
    ASSUME RequestTypes, NEW r \in Requests, NEW where, NEW c, Pick(r, c, where)
    PROVE  /\ pc'[r] = where /\ outcome'[r] = outcome[r]
           /\ \A q \in Requests \ {r} : Unmoved(q)
BY DEF Pick, RequestTypes, Unmoved

LEMMA LeaveMoves ==
    ASSUME RequestTypes, NEW r \in Requests, NEW where, NEW how, Leave(r, where, how)
    PROVE  /\ pc'[r] = where /\ outcome'[r] = how
           /\ \A q \in Requests \ {r} : Unmoved(q)
BY DEF Leave, RequestTypes, Unmoved

LEMMA RetryMoves ==
    ASSUME RequestTypes, NEW r \in Requests, Retry(r)
    PROVE  /\ pc'[r] = "top" /\ outcome'[r] = outcome[r]
           /\ \A q \in Requests \ {r} : Unmoved(q)
BY DEF Retry, RequestTypes, Unmoved

(* With every credential disabled nothing is selectable. *)
LEMMA NoneEnabled ==
    ASSUME ~AnyEnabled(entries'), NEW model, NEW group
    PROVE  Selectable(model, group)' = {}
BY DEF AnyEnabled, EnabledIn, Selectable, InScope

LEMMA SamePool ==
    ASSUME UNCHANGED pool, NEW model, NEW group
    PROVE  Selectable(model, group)' = Selectable(model, group)
BY DEF pool, Selectable, InScope, RpmExceeded

LEMMA SelectMoves ==
    ASSUME PoolFacts, RequestTypes, NEW r \in Requests, outcome[r] # "disabled",
           NEW here \in {"select", "reselect"}, NEW otherwise \in {"heal", "explain"},
           SelectOr(r, here, otherwise)
    PROVE  Moved(r) /\ \A q \in Requests \ {r} : Unmoved(q)
<1>1. pc[r] = here /\ UNCHANGED pool
  BY DEF SelectOr, At
<1>2. CASE SelectNext(m(r), g(r)) = {}
  <2>1. Goto(r, otherwise)
    BY <1>2 DEF SelectOr
  <2>2. Selectable(m(r), g(r))' = {}
    BY <1>1, <1>2, SelectNextFinds, SamePool
  <2> QED
    BY <1>1, <2>1, <2>2, GotoMoves DEF Moved
<1>3. CASE SelectNext(m(r), g(r)) # {}
  <2>1. PICK c : Pick(r, c, "bind")
    BY <1>3 DEF SelectOr
  <2> QED
    BY <2>1, PickMoves DEF Moved, Searched
<1> QED
  BY <1>2, <1>3

(* A refresh error is answered "disabled" only when nothing is enabled. *)
LEMMA RetryIfAnyMoves ==
    ASSUME RequestTypes, NEW r \in Requests, pc[r] # "idle", outcome[r] # "disabled",
           RetryIfAny(r)
    PROVE  Moved(r) /\ \A q \in Requests \ {r} : Unmoved(q)
<1>1. CASE AnyEnabled(entries')
  <2>1. Retry(r)
    BY <1>1 DEF RetryIfAny
  <2> QED
    BY <2>1, RetryMoves DEF Moved, Searched
<1>2. CASE ~AnyEnabled(entries')
  <2>1. Leave(r, "done", "disabled")
    BY <1>2 DEF RetryIfAny, Fail
  <2>2. Selectable(m(r), g(r))' = {}
    BY <1>2, NoneEnabled
  <2> QED
    BY <2>1, <2>2, LeaveMoves DEF Moved
<1> QED
  BY <1>1, <1>2

LEMMA AcquireMoves ==
    ASSUME PoolFacts, RequestTypes, SteadyInv, NEW r \in Requests, AcquireStep(r)
    PROVE  Moved(r) /\ \A q \in Requests \ {r} : Unmoved(q)
<1>0. outcome[r] # "disabled" /\ pc[r] # "idle"
  <2>1. pc[r] \notin {"idle", "done"}
    BY DEF AcquireStep, At, Exhausted, TryCurrent, Select, Reselect, SelectOr, Heal, Explain,
           Bind, TokenValid, BeginRefresh, EndRefresh, RefreshFailed, Reloaded,
           RefreshTokenInvalid, Record
  <2> QED
    BY <2>1 DEF SteadyInv
<1>1. ASSUME NEW where \in {"top", "select", "token", "failed", "invalid", "record", "ctx"},
             Goto(r, where)
      PROVE  Moved(r) /\ \A q \in Requests \ {r} : Unmoved(q)
  BY <1>0, <1>1, GotoMoves DEF Moved, Searched
<1>2. ASSUME NEW where \in {"token", "record", "refresh"}, NEW c, Pick(r, c, where)
      PROVE  Moved(r) /\ \A q \in Requests \ {r} : Unmoved(q)
  BY <1>0, <1>2, PickMoves DEF Moved, Searched
<1>3. ASSUME NEW how \in {"exhausted", "limited"}, Leave(r, "done", how)
      PROVE  Moved(r) /\ \A q \in Requests \ {r} : Unmoved(q)
  BY <1>0, <1>3, LeaveMoves DEF Moved, Searched
<1>4. CASE Exhausted(r)
  BY <1>3, <1>4 DEF Exhausted, Fail
<1>5. CASE TryCurrent(r)
  BY <1>1, <1>2, <1>5 DEF TryCurrent
<1>6. CASE Select(r) \/ Reselect(r)
  BY <1>0, <1>6, SelectMoves DEF Select, Reselect
<1>7. CASE Heal(r)
  <2>1. pc[r] = "heal" /\ (Goto(r, "reselect") \/ Goto(r, "explain"))
    BY <1>7 DEF Heal, At
  <2> QED
    BY <1>0, <2>1, GotoMoves DEF Moved, Searched
<1>8. CASE Explain(r)
  <2>1. pc[r] = "explain" /\ \E how : Leave(r, "done", how)
    BY <1>8 DEF Explain, At, Fail
  <2> QED
    BY <2>1, LeaveMoves DEF Moved, Searched
<1>9. CASE Bind(r)
  BY <1>1, <1>9 DEF Bind
<1>10. CASE TokenValid(r)
  BY <1>1, <1>10 DEF TokenValid
<1>11. CASE BeginRefresh(r)
  BY <1>1, <1>2, <1>11 DEF BeginRefresh
<1>12. CASE EndRefresh(r)
  BY <1>1, <1>3, <1>12 DEF EndRefresh, Fail
<1>13. CASE RefreshFailed(r) \/ RefreshTokenInvalid(r)
  BY <1>0, <1>13, RetryIfAnyMoves DEF RefreshFailed, RefreshTokenInvalid
<1>14. CASE Reloaded(r)
  BY <1>1, <1>14 DEF Reloaded
<1>15. CASE Record(r)
  <2>1. CASE Goto(r, "ctx")
    BY <1>1, <2>1
  <2>2. CASE Retry(r)
    BY <1>0, <2>2, RetryMoves DEF Moved, Searched
  <2> QED
    BY <1>15, <2>1, <2>2 DEF Record
<1> QED
  BY <1>4, <1>5, <1>6, <1>7, <1>8, <1>9, <1>10, <1>11, <1>12, <1>13, <1>14, <1>15
     DEF AcquireStep

LEMMA NextSteadyKeeps ==
    ASSUME AcquireIInv, SteadyInv, [NextSteady]_<<vars, steady>>
    PROVE  SteadyInv'
<1>1. PoolFacts /\ RequestTypes
  BY DEF AcquireIInv, RequestsInv
<1>2. CASE UNCHANGED <<vars, steady>>
  <2>1. UNCHANGED <<pc, outcome, steady>>
    BY <1>2 DEF vars, acquire, request_vars
  <2> QED
    BY <2>1 DEF SteadyInv
<1>3. CASE NextSteady
  <2>1. \A r \in Requests : Unmoved(r) \/ Moved(r)
    <3>1. ASSUME NEW r \in Requests, AcquireStep(r)
          PROVE  \A q \in Requests : Unmoved(q) \/ Moved(q)
      BY <1>1, <3>1, AcquireMoves
    <3>2. ASSUME NEW r \in Requests, Start(r)
          PROVE  \A q \in Requests : Unmoved(q) \/ Moved(q)
      <4>1. /\ pc'[r] = "top" /\ outcome'[r] = outcome[r] /\ pc[r] = "idle"
            /\ \A q \in Requests \ {r} : Unmoved(q)
        BY <1>1, <3>2 DEF Start, At, RequestTypes, Unmoved
      <4>2. Moved(r)
        BY <4>1 DEF Moved, Searched, SteadyInv
      <4> QED
        BY <4>1, <4>2
    <3>3. ASSUME NEW r \in Requests, Caller(r) \/ GiveUp(r)
          PROVE  \A q \in Requests : Unmoved(q) \/ Moved(q)
      <4>1. Leave(r, "idle", "none")
        BY <3>3 DEF Caller, GiveUp
      <4>2. Moved(r)
        BY <1>1, <4>1, LeaveMoves DEF Moved, Searched
      <4> QED
        BY <1>1, <4>1, <4>2, LeaveMoves
    <3>4. ASSUME Operator \/ Clock, NEW q \in Requests
          PROVE  Unmoved(q)
      BY <3>4 DEF Operator, Clock, Unmoved, acquire, request_vars
    <3>5. ASSUME Crash, NEW q \in Requests
          PROVE  Moved(q)
      BY <3>5 DEF Crash, Moved, Searched
    <3> QED
      BY <1>3, <3>1, <3>2, <3>3, <3>4, <3>5 DEF NextSteady, NextAcquire, Environment
  <2> QED
    BY <1>3, <2>1, MovedKeepsSteady DEF NextSteady
<1> QED
  BY <1>2, <1>3

(* A request is told that every credential is disabled only if none of its *)
(* scope stayed selectable since it asked, for any number of requests and  *)
(* credentials: none of the gaps between the lock sections of              *)
(* acquire_context makes it overlook a credential that could serve it.     *)
THEOREM RefusedOnlyWithoutChoice == SpecSteady => []NeverRefusedWhileServable
<1>1. InitSteady => AcquireIInv /\ SteadyInv
  BY InitAcquireInv DEF InitSteady, InitAcquire, SteadyInv, Searched
<1>2. AcquireIInv /\ [NextSteady]_<<vars, steady>> => AcquireIInv'
  BY NextAcquireKeeps DEF NextSteady
<1>3. AcquireIInv /\ SteadyInv /\ [NextSteady]_<<vars, steady>> => SteadyInv'
  BY NextSteadyKeeps
<1>4. SteadyInv => NeverRefusedWhileServable
  BY DEF SteadyInv, NeverRefusedWhileServable
<1> QED
  BY <1>1, <1>2, <1>3, <1>4, PTL DEF SpecSteady

---------------------------------------------------------------------------
(* kiro/provider.rs: the inductive invariant.                              *)

(* An attempt is under way; a call holds a context. *)
WithContext == {"profile", "upstream", "forcing", "forced", "blamed"}
Attempting == {"acquiring"} \cup WithContext

CallTypes ==
    /\ call \in [Requests -> Call]
    /\ tries \in [Requests -> Nat]
    /\ max_retries \in [Requests -> 0 .. MAX_TOTAL_RETRIES]
    /\ last_error \in [Requests -> Error]
    /\ force_refreshed \in [Requests -> SUBSET Ids]
    /\ result \in [Requests -> Error \cup {"ok"}]

(* A call in an attempt has not used up its attempts, one that is over     *)
(* starts from nothing, and a call past the acquire has its context.       *)
CallOK(r) ==
    /\ tries[r] <= max_retries[r]
    /\ call[r] \in Attempting => tries[r] < max_retries[r]
    /\ call[r] \in {"idle", "returned"} => tries[r] = 0 /\ last_error[r] = "none"
    /\ result[r] # "none" => call[r] = "returned"
    /\ call[r] \in WithContext => pc[r] = "ctx"

CallsInv == CallTypes /\ \A r \in Requests : CallOK(r)

ProviderIInv == AcquireIInv /\ CallsInv

(* A step of one call leaves the others where they are. *)
CallStays(q) ==
    /\ pc'[q] = pc[q] /\ call'[q] = call[q] /\ tries'[q] = tries[q]
    /\ max_retries'[q] = max_retries[q] /\ last_error'[q] = last_error[q]
    /\ result'[q] = result[q]

LEMMA CallStaysKeeps ==
    ASSUME NEW q \in Requests, CallOK(q), CallStays(q)
    PROVE  CallOK(q)'
BY DEF CallOK, CallStays

OthersStay(r) == \A q \in Requests \ {r} : pc'[q] = pc[q]

LEMMA EnterKeeps ==
    ASSUME CallsInv, NEW r \in Requests, NEW where \in Attempting, Enter(r, where),
           tries[r] < max_retries[r], result[r] = "none", OthersStay(r),
           where \in WithContext => pc'[r] = "ctx"
    PROVE  CallsInv'
<1>1. /\ \A q \in Requests : call'[q] = IF q = r THEN where ELSE call[q]
      /\ UNCHANGED <<tries, max_retries, last_error, force_refreshed, result>>
  BY DEF Enter, CallsInv, CallTypes
<1>2. CallTypes'
  BY DEF Enter, CallsInv, CallTypes, Call, Attempting, WithContext
<1>3. CallOK(r)'
  BY <1>1 DEF CallsInv, CallTypes, CallOK, Attempting, WithContext
<1>4. ASSUME NEW q \in Requests, q # r PROVE CallOK(q)'
  BY <1>1, <1>4, CallStaysKeeps DEF CallsInv, CallStays, OthersStay
<1> QED
  BY <1>2, <1>3, <1>4 DEF CallsInv

LEMMA NextTryKeeps ==
    ASSUME CallsInv, NEW r \in Requests, NEW e \in Error, NextTry(r, e),
           call[r] \in Attempting, OthersStay(r)
    PROVE  CallsInv'
<1>1. /\ \A q \in Requests :
             /\ call'[q] = IF q = r THEN "loop" ELSE call[q]
             /\ tries'[q] = IF q = r THEN tries[r] + 1 ELSE tries[q]
             /\ q # r => last_error'[q] = last_error[q]
      /\ UNCHANGED <<max_retries, force_refreshed, result>>
  BY DEF NextTry, CallsInv, CallTypes
<1>2. CallTypes'
  BY DEF NextTry, CallsInv, CallTypes, Call, Error
<1>3. CallOK(r)'
  <2>1. /\ tries[r] \in Nat /\ max_retries[r] \in 0 .. MAX_TOTAL_RETRIES
        /\ tries[r] < max_retries[r] /\ result[r] = "none"
    BY DEF CallsInv, CallTypes, CallOK, Attempting, WithContext
  <2>2. max_retries[r] \in Nat
    BY <2>1, ProviderAssumption
  <2>3. tries[r] + 1 <= max_retries[r]
    BY <2>1, <2>2
  <2> QED
    BY <1>1, <2>1, <2>3 DEF CallOK, Attempting, WithContext
<1>4. ASSUME NEW q \in Requests, q # r PROVE CallOK(q)'
  BY <1>1, <1>4, CallStaysKeeps DEF CallsInv, CallStays, OthersStay
<1> QED
  BY <1>2, <1>3, <1>4 DEF CallsInv

LEMMA ReturnKeeps ==
    ASSUME CallsInv, NEW r \in Requests, NEW e \in Error \cup {"ok"}, Return(r, e),
           OthersStay(r)
    PROVE  CallsInv'
<1>1. \A q \in Requests :
          /\ call'[q] = IF q = r THEN "returned" ELSE call[q]
          /\ tries'[q] = IF q = r THEN 0 ELSE tries[q]
          /\ max_retries'[q] = IF q = r THEN 0 ELSE max_retries[q]
          /\ last_error'[q] = IF q = r THEN "none" ELSE last_error[q]
          /\ q # r => result'[q] = result[q]
  BY DEF Return, CallsInv, CallTypes
<1>2. CallTypes'
  BY ProviderAssumption DEF Return, CallsInv, CallTypes, Call, Error
<1>3. CallOK(r)'
  BY <1>1 DEF CallOK, Attempting, WithContext
<1>4. ASSUME NEW q \in Requests, q # r PROVE CallOK(q)'
  BY <1>1, <1>4, CallStaysKeeps DEF CallsInv, CallStays, OthersStay
<1> QED
  BY <1>2, <1>3, <1>4 DEF CallsInv

(* What the calls need of a step of the pool that leaves call_vars alone. *)
LEMMA CallVarsKept ==
    ASSUME CallsInv, UNCHANGED call_vars,
           \A q \in Requests : call[q] \in WithContext => pc'[q] = pc[q]
    PROVE  CallsInv'
<1>1. CallTypes'
  BY DEF CallsInv, CallTypes, call_vars
<1>2. ASSUME NEW q \in Requests PROVE CallOK(q)'
  BY DEF CallsInv, CallOK, call_vars
<1> QED
  BY <1>1, <1>2 DEF CallsInv

(* One step of acquire_context moves one request. *)
LEMMA AcquireMovesOne ==
    ASSUME RequestTypes, NEW r \in Requests, AcquireStep(r)
    PROVE  OthersStay(r)
<1>1. ASSUME NEW where, Goto(r, where) PROVE OthersStay(r)
  BY <1>1, GotoMoves DEF OthersStay, Unmoved
<1>2. ASSUME NEW where, NEW c, Pick(r, c, where) PROVE OthersStay(r)
  BY <1>2, PickMoves DEF OthersStay, Unmoved
<1>3. ASSUME NEW answer, Leave(r, "done", answer) PROVE OthersStay(r)
  BY <1>3, LeaveMoves DEF OthersStay, Unmoved
<1>4. ASSUME Retry(r) PROVE OthersStay(r)
  BY <1>4, RetryMoves DEF OthersStay, Unmoved
<1>5. CASE Exhausted(r) \/ Explain(r)
  BY <1>3, <1>5 DEF Exhausted, Explain, Fail
<1>6. CASE TryCurrent(r) \/ Heal(r) \/ Bind(r)
  BY <1>1, <1>2, <1>6 DEF TryCurrent, Heal, Bind
<1>7. CASE Select(r) \/ Reselect(r)
  BY <1>1, <1>2, <1>7 DEF Select, Reselect, SelectOr
<1>8. CASE TokenValid(r) \/ BeginRefresh(r)
  BY <1>1, <1>2, <1>8 DEF TokenValid, BeginRefresh
<1>9. CASE EndRefresh(r)
  BY <1>1, <1>3, <1>9 DEF EndRefresh, Fail
<1>10. CASE RefreshFailed(r) \/ RefreshTokenInvalid(r) \/ Reloaded(r)
  BY <1>1, <1>3, <1>4, <1>10 DEF RefreshFailed, RefreshTokenInvalid, RetryIfAny, Reloaded, Fail
<1>11. CASE Record(r)
  BY <1>1, <1>4, <1>11 DEF Record
<1> QED
  BY <1>5, <1>6, <1>7, <1>8, <1>9, <1>10, <1>11 DEF AcquireStep

---------------------------------------------------------------------------
(* The steps of a call.                                                    *)

LEMMA LeavePool ==
    ASSUME PoolFacts, RequestsInv, SharedInv, NEW r \in Requests, Running,
           Leave(r, "idle", "none"),
           refresh_lock' \in {refresh_lock, NoRequest}, UNCHANGED bounds
    PROVE  RequestsInv' /\ SharedInv' /\ OthersStay(r) /\ pc'[r] = "idle"
<1>1. RequestsInv'
  BY RunningMoves, LeaveKeeps DEF Outcome
<1>2. SharedInv'
  BY DEF SharedInv, bounds
<1>3. OthersStay(r) /\ pc'[r] = "idle"
  BY LeaveMoves DEF RequestsInv, OthersStay, Unmoved
<1> QED
  BY <1>1, <1>2, <1>3

LEMMA DropKeeps ==
    ASSUME PoolFacts, RequestsInv, SharedInv, NEW r \in Requests, Running, Drop(r)
    PROVE  RequestsInv' /\ SharedInv' /\ OthersStay(r) /\ pc'[r] = "idle"
BY LeavePool DEF Drop, KeepBounds, bounds

(* The requests stand still. *)
LEMMA StillKeeps ==
    ASSUME PoolFacts, RequestsInv, SharedInv, Running, UNCHANGED request_vars,
           refresh_lock' \in Requests \cup {NoRequest}, UNCHANGED bounds
    PROVE  RequestsInv' /\ SharedInv' /\ UNCHANGED pc
<1>1. RequestsInv'
  BY RunningMoves, StayKeeps
<1>2. SharedInv' /\ UNCHANGED pc
  BY DEF SharedInv, bounds, request_vars
<1> QED
  BY <1>1, <1>2

LEMMA StillOthers == \A r : UNCHANGED pc => OthersStay(r)
BY DEF OthersStay

(* BeginCall, GiveUpCall, EndCall: nothing but the call moves. *)
LEMMA BeginCallKeeps ==
    ASSUME PoolFacts, RequestsInv, SharedInv, CallsInv, NEW r \in Requests,
           BeginCall(r) \/ EndCall(r) \/ GiveUpCall(r)
    PROVE  Running /\ RequestsInv' /\ SharedInv' /\ CallsInv'
<1>1. /\ UNCHANGED <<pool, request_vars, refresh_lock, bounds>>
  BY DEF BeginCall, EndCall, GiveUpCall, vars, acquire
<1>2. Running /\ RequestsInv' /\ SharedInv' /\ UNCHANGED pc
  BY <1>1, RunningMoves, StillKeeps DEF SharedInv
<1>3. CASE BeginCall(r)
  <2> DEFINE total == Cardinality({c \in Live : GroupMatches(entries[c].credentials, g(r))})
             most == (IF total > 1 THEN total ELSE 1) * MAX_RETRIES_PER_CREDENTIAL
             n == IF most < MAX_TOTAL_RETRIES THEN most ELSE MAX_TOTAL_RETRIES
  <2>1. n \in 0 .. MAX_TOTAL_RETRIES
    <3>1. total \in Nat
      BY InGroupCount
    <3> HIDE DEF total
    <3> QED
      BY <3>1, ProviderAssumption
  <2>2. /\ max_retries' = [max_retries EXCEPT ![r] = n]
        /\ call' = [call EXCEPT ![r] = "loop"] /\ call[r] = "idle"
        /\ UNCHANGED <<tries, last_error, force_refreshed, result>>
    BY <1>3 DEF BeginCall, In
  <2> HIDE DEF n
  <2>3. CallTypes'
    BY <2>1, <2>2 DEF CallsInv, CallTypes, Call
  <2>4. CallOK(r)'
    BY <2>1, <2>2 DEF CallsInv, CallTypes, CallOK, Attempting, WithContext
  <2>5. ASSUME NEW q \in Requests, q # r PROVE CallOK(q)'
    BY <1>2, <2>2, <2>5, CallStaysKeeps DEF CallsInv, CallTypes, CallStays
  <2> QED
    BY <1>2, <2>3, <2>4, <2>5 DEF CallsInv
<1>4. CASE EndCall(r)
  <2>1. /\ call' = [call EXCEPT ![r] = "idle"] /\ result' = [result EXCEPT ![r] = "none"]
        /\ call[r] = "returned" /\ UNCHANGED <<tries, max_retries, last_error, force_refreshed>>
    BY <1>4 DEF EndCall, In
  <2>2. CallTypes'
    BY <2>1 DEF CallsInv, CallTypes, Call, Error
  <2>3. CallOK(r)'
    BY <2>1 DEF CallsInv, CallTypes, CallOK, Attempting, WithContext
  <2>4. ASSUME NEW q \in Requests, q # r PROVE CallOK(q)'
    BY <1>2, <2>1, <2>4, CallStaysKeeps DEF CallsInv, CallTypes, CallStays
  <2> QED
    BY <1>2, <2>2, <2>3, <2>4 DEF CallsInv
<1>5. CASE GiveUpCall(r)
  <2>1. PICK e \in Error : Return(r, e)
    BY <1>5 DEF GiveUpCall, Error
  <2> QED
    BY <1>2, <2>1, StillOthers, ReturnKeeps
<1> QED
  BY <1>3, <1>4, <1>5

(* The steps around acquire_context. *)
LEMMA AcquiringKeeps ==
    ASSUME PoolFacts, RequestsInv, SharedInv, CallsInv, NEW r \in Requests,
           BeginTry(r) \/ Acquire(r) \/ AcquireFailed(r) \/ Acquired(r)
    PROVE  Running /\ RequestsInv' /\ SharedInv' /\ CallsInv'
<1>0. RequestTypes /\ CallOK(r)
  BY DEF RequestsInv, CallsInv
<1>1. CASE BeginTry(r)
  <2>1. Running /\ RequestsInv' /\ SharedInv'
    BY <1>1, StartKeeps DEF BeginTry
  <2>2. OthersStay(r)
    BY <1>0, <1>1 DEF BeginTry, Start, RequestTypes, OthersStay
  <2>3. Enter(r, "acquiring") /\ tries[r] < max_retries[r] /\ result[r] = "none"
    BY <1>0, <1>1 DEF BeginTry, In, CallOK
  <2> QED
    BY <2>1, <2>2, <2>3, EnterKeeps DEF Attempting, WithContext
<1>2. CASE Acquire(r)
  <2>1. AcquireStep(r) /\ UNCHANGED call_vars /\ call[r] = "acquiring"
    BY <1>2 DEF Acquire, In
  <2>2. Running /\ RequestsInv' /\ SharedInv'
    BY <2>1, AcquireStepKeeps
  <2>3. ASSUME NEW q \in Requests, call[q] \in WithContext
        PROVE  pc'[q] = pc[q]
    BY <1>0, <2>1, <2>3, AcquireMovesOne DEF OthersStay, WithContext
  <2> QED
    BY <2>1, <2>2, <2>3, CallVarsKept
<1>3. CASE AcquireFailed(r)
  <2>1. Running
    BY <1>3, RunningMoves DEF AcquireFailed
  <2>2. RequestsInv' /\ SharedInv' /\ OthersStay(r)
    BY <1>3, <2>1, DropKeeps DEF AcquireFailed
  <2>3. call[r] \in Attempting /\ (Return(r, "429") \/ NextTry(r, "generic"))
    BY <1>3 DEF AcquireFailed, In, Attempting
  <2> QED
    BY <2>1, <2>2, <2>3, ReturnKeeps, NextTryKeeps DEF Error
<1>4. CASE Acquired(r)
  <2>1. UNCHANGED <<pool, request_vars, refresh_lock, bounds>>
    BY <1>4 DEF Acquired, KeepAcquire
  <2>2. Running /\ RequestsInv' /\ SharedInv' /\ UNCHANGED pc
    BY <2>1, RunningMoves, StillKeeps DEF SharedInv
  <2>3. PICK where \in WithContext : Enter(r, where) /\ pc[r] = "ctx"
    BY <1>4 DEF Acquired, WithContext
  <2>4. call[r] \in Attempting
    BY <1>4 DEF Acquired, In, Attempting
  <2>5. tries[r] < max_retries[r] /\ result[r] = "none"
    BY <1>0, <2>4 DEF CallOK, Attempting, WithContext
  <2> QED
    BY <2>2, <2>3, <2>5, StillOthers, EnterKeeps DEF Attempting
<1> QED
  BY <1>1, <1>2, <1>3, <1>4

(* A call past the acquire holds a credential it may report on. *)
LEMMA ContextFacts ==
    ASSUME RequestsInv, CallsInv, NEW r \in Requests, call[r] \in WithContext
    PROVE  /\ pc[r] = "ctx" /\ picked[r] \in Ids /\ Tracks(picked[r], snapshot[r])
           /\ snapshot[r] \in KiroCredentials
           /\ call[r] \in Attempting /\ tries[r] < max_retries[r] /\ result[r] = "none"
<1>1. pc[r] = "ctx" /\ call[r] \in Attempting
  BY DEF CallsInv, CallOK, Attempting
<1>2. tries[r] < max_retries[r] /\ result[r] = "none"
  BY DEF CallsInv, CallOK, Attempting, WithContext
<1>3. Tracks(picked[r], snapshot[r]) /\ snapshot[r] \in KiroCredentials
  BY <1>1 DEF RequestsInv, RequestTypes, PickedTracked, Holding
<1> QED
  BY <1>1, <1>2, <1>3 DEF Tracks

LEMMA ProfileKeeps ==
    ASSUME PoolFacts, RequestsInv, SharedInv, CallsInv, NEW r \in Requests, EnsureProfileArn(r)
    PROVE  Running /\ RequestsInv' /\ SharedInv' /\ CallsInv'
<1>1. /\ pc[r] = "ctx" /\ picked[r] \in Ids /\ tries[r] < max_retries[r] /\ result[r] = "none"
  BY ContextFacts DEF EnsureProfileArn, In, WithContext
<1>2. CASE Enter(r, "upstream") /\ KeepAcquire /\ Running
  <2>1. RequestsInv' /\ SharedInv' /\ UNCHANGED pc
    BY <1>2, StillKeeps DEF KeepAcquire, SharedInv
  <2>2. "upstream" \in Attempting
    BY DEF Attempting, WithContext
  <2> QED
    BY <1>1, <1>2, <2>1, <2>2, StillOthers, EnterKeeps
<1>3. CASE Return(r, "429") /\ Drop(r) /\ UNCHANGED pool
  BY <1>3, RunningMoves, DropKeeps, ReturnKeeps DEF Error
<1>4. ASSUME picked[r] \in Live,
             TokenObtained(picked[r], entries[picked[r]].credentials, TRUE, FALSE)
      PROVE  Running
  <2>1. ~entries[picked[r]].credentials.broken
    BY <1>4 DEF TokenObtained
  <2> QED
    BY <1>1, <1>4, <2>1, LiveFacts, SnapshotType, TokenIsRequest, RunningMoves
<1> QED
  BY <1>2, <1>3, <1>4, RunningMoves DEF EnsureProfileArn

(* An answer that ends the attempt. *)
LEMMA AnsweredKeeps ==
    ASSUME PoolFacts, RequestsInv, SharedInv, CallsInv, NEW r \in Requests,
           In(r, "upstream"), NEW a, Answered(r, a), Drop(r)
    PROVE  Running /\ RequestsInv' /\ SharedInv' /\ CallsInv'
<1>0. /\ picked[r] \in Ids /\ call[r] \in Attempting
      /\ m(r) \in ModelArgs /\ g(r) \in GroupArgs
  BY ContextFacts, RequestArgs DEF In, WithContext
<1>1. ASSUME ReportNext(picked[r])
      PROVE  Running
  BY <1>0, <1>1, RunningMoves DEF RequestNext
<1>2. Ignored(picked[r]) => Running
  BY RunningMoves DEF Ignored
<1>3. /\ Running
      /\ \/ \E e \in Error : NextTry(r, e)
         \/ \E e \in Error \cup {"ok"} : Return(r, e)
  <2>1. CASE Success(r)
    <3>1. ASSUME NEW told \in ModelArgs, ReportSuccess(picked[r], told)
          PROVE  Running
      BY <1>1, <3>1 DEF ReportNext
    <3>2. m(r) \in ModelArgs /\ NoModel \in ModelArgs
      BY <1>0 DEF ModelArgs
    <3> QED
      BY <2>1, <3>1, <3>2, RunningMoves DEF Success
  <2>2. CASE NoEndpoint(r)
    BY <1>1, <1>2, <2>2 DEF NoEndpoint, ReportNext, Error
  <2>3. ASSUME NEW rule \in Rules, RuleHit(r, rule)
        PROVE  /\ Running
               /\ \/ \E e \in Error : NextTry(r, e)
                  \/ \E e \in Error \cup {"ok"} : Return(r, e)
    <3>1. CASE rule.action = "abort"
      BY <2>3, <3>1, RunningMoves DEF RuleHit, Final, Error
    <3>2. CASE rule.action # "abort"
      <4>1. ReportCustomRuleHit(picked[r], rule, m(r), g(r)) \/ Ignored(picked[r])
        BY <2>3, <3>2 DEF RuleHit
      <4>2. Running
        BY <1>0, <1>1, <1>2, <4>1 DEF ReportNext
      <4>3. NextTry(r, "generic") \/ Return(r, "generic")
        BY <2>3, <3>2 DEF RuleHit
      <4> QED
        BY <4>2, <4>3 DEF Error
    <3> QED
      BY <3>1, <3>2
  <2>4. CASE Quota(r)
    <3>1. Running
      BY <1>1, <1>2, <2>4 DEF Quota, ReportNext
    <3> QED
      BY <2>4, <3>1 DEF Quota, Error
  <2>5. CASE NextTry(r, "429") /\ UNCHANGED pool
    BY <2>5, RunningMoves DEF Error
  <2>6. CASE Final(r, "429") \/ Final(r, "generic") \/ Transient(r)
    BY <2>6, RunningMoves DEF Final, Transient, Error
  <2>7. ASSUME NEW wait, Suspicious(r, wait)
        PROVE  /\ Running
               /\ \/ \E e \in Error : NextTry(r, e)
                  \/ \E e \in Error \cup {"ok"} : Return(r, e)
    <3>1. UNCHANGED pool \/ (ThrottleFailover /\ ReportAccountThrottled(picked[r]))
      BY <2>7 DEF Suspicious
    <3>2. Running
      BY <1>1, <3>1, RunningMoves DEF ReportNext
    <3>3. NextTry(r, "429") \/ Return(r, "429")
      BY <2>7 DEF Suspicious
    <3> QED
      BY <3>2, <3>3 DEF Error
  <2> QED
    BY <2>1, <2>2, <2>3, <2>4, <2>5, <2>6, <2>7 DEF Answered
<1>4. RequestsInv' /\ SharedInv' /\ OthersStay(r)
  BY <1>3, DropKeeps
<1> QED
  BY <1>0, <1>3, <1>4, NextTryKeeps, ReturnKeeps

(* 401/403: the credential is read again, before the refresh lock is taken. *)
LEMMA DeniedKeeps ==
    ASSUME PoolFacts, RequestsInv, SharedInv, CallsInv, NEW r \in Requests,
           In(r, "upstream"), NEW token_invalid, Denied(r, token_invalid),
           snapshot' = [snapshot EXCEPT ![r] =
              IF picked[r] \in Live THEN entries[picked[r]].credentials ELSE @],
           UNCHANGED <<pc, picked, attempts, max_attempts, outcome, refresh_lock, bounds>>
    PROVE  Running /\ RequestsInv' /\ SharedInv' /\ CallsInv'
<1>0. /\ pc[r] = "ctx" /\ picked[r] \in Ids /\ Tracks(picked[r], snapshot[r])
      /\ call[r] \in Attempting /\ tries[r] < max_retries[r] /\ result[r] = "none"
  BY ContextFacts DEF In, WithContext
<1>1. /\ UNCHANGED <<tries, max_retries, last_error, result>> /\ UNCHANGED pool
  BY DEF Denied
<1>2. Running /\ PoolStep
  BY <1>1, RunningMoves
<1> DEFINE snap == IF picked[r] \in Live THEN entries[picked[r]].credentials ELSE snapshot[r]
<1>3. /\ snap \in KiroCredentials /\ Tracks(picked[r], snap)
  <2>1. CASE picked[r] \in Live
    BY <1>0, <2>1, LiveFacts DEF Tracks
  <2>2. CASE picked[r] \notin Live
    BY <1>0, <2>2 DEF RequestsInv, RequestTypes
  <2> QED
    BY <2>1, <2>2
<1>4. /\ \A q \in Requests : snapshot'[q] = IF q = r THEN snap ELSE snapshot[q]
      /\ snapshot' = [snapshot EXCEPT ![r] = snap]
  BY DEF RequestsInv, RequestTypes
<1> HIDE DEF snap
<1>5. RequestTypes' /\ AttemptsLeft'
  BY <1>3, <1>4 DEF RequestsInv, RequestTypes, AttemptsLeft
<1>6. PickedTracked'
  <2>1. ASSUME NEW q \in Requests, pc'[q] \in Holding
        PROVE  TracksAfter(picked'[q], snapshot'[q])
    <3>1. CASE q = r
      BY <1>2, <1>3, <1>4, <3>1, TracksStays
    <3>2. CASE q # r
      BY <1>2, <1>4, <2>1, <3>2, OthersTracked DEF RequestsInv
    <3> QED
      BY <3>1, <3>2
  <2> QED
    BY <2>1, TrackedAfter
<1>7. SharedInv'
  BY DEF SharedInv, bounds
<1>8. PICK where \in {"forcing", "blamed"} : call' = [call EXCEPT ![r] = where]
  BY DEF Denied
<1>9. force_refreshed' \in [Requests -> SUBSET Ids]
  <2>1. \/ force_refreshed' = [force_refreshed EXCEPT ![r] = @ \cup {picked[r]}]
        \/ UNCHANGED force_refreshed
    BY DEF Denied
  <2> QED
    BY <1>0, <2>1 DEF CallsInv, CallTypes
<1>10. CallTypes'
  BY <1>1, <1>8, <1>9 DEF CallsInv, CallTypes, Call
<1>11. CallOK(r)'
  BY <1>0, <1>1, <1>8 DEF CallsInv, CallTypes, CallOK, Attempting, WithContext
<1>12. ASSUME NEW q \in Requests, q # r PROVE CallOK(q)'
  BY <1>1, <1>8, <1>12, CallStaysKeeps DEF CallsInv, CallTypes, CallStays
<1> QED
  BY <1>2, <1>5, <1>6, <1>7, <1>10, <1>11, <1>12 DEF RequestsInv, CallsInv

LEMMA ForceKeeps ==
    ASSUME PoolFacts, RequestsInv, SharedInv, CallsInv, NEW r \in Requests,
           ForceLock(r) \/ ForceRefreshed(r)
    PROVE  Running /\ RequestsInv' /\ SharedInv' /\ CallsInv'
<1>0. /\ pc[r] = "ctx" /\ picked[r] \in Ids /\ Tracks(picked[r], snapshot[r])
      /\ snapshot[r] \in KiroCredentials
      /\ call[r] \in Attempting /\ tries[r] < max_retries[r] /\ result[r] = "none"
  BY ContextFacts DEF ForceLock, ForceRefreshed, In, WithContext
<1>1. ASSUME NEW where \in {"forced", "blamed"}, Enter(r, where), UNCHANGED <<pool, request_vars>>,
             refresh_lock' \in Requests \cup {NoRequest}, UNCHANGED bounds
      PROVE  Running /\ RequestsInv' /\ SharedInv' /\ CallsInv'
  <2>1. Running
    BY <1>1, RunningMoves
  <2>2. RequestsInv' /\ SharedInv' /\ UNCHANGED pc
    BY <1>1, <2>1, StillKeeps
  <2>3. where \in Attempting
    BY DEF Attempting, WithContext
  <2> QED
    BY <1>0, <1>1, <2>1, <2>2, <2>3, StillOthers, EnterKeeps
<1>2. CASE ForceLock(r)
  BY <1>1, <1>2 DEF ForceLock
<1>3. CASE ForceRefreshed(r)
  <2>1. refresh_lock' = NoRequest /\ UNCHANGED bounds
    BY <1>3 DEF ForceRefreshed
  <2>2. CASE Enter(r, "blamed") /\ UNCHANGED <<pool, request_vars>>
    BY <1>1, <2>1, <2>2
  <2>3. CASE Return(r, "429") /\ Leave(r, "idle", "none") /\ UNCHANGED pool
    BY <2>1, <2>3, RunningMoves, LeavePool, ReturnKeeps DEF Error
  <2>4. CASE /\ NextTry(r, "none") /\ Leave(r, "idle", "none")
             /\ \/ UNCHANGED pool
                \/ picked[r] \in Live /\ TokenObtained(picked[r], snapshot[r], TRUE, TRUE)
    <3>1. ASSUME picked[r] \in Live, TokenObtained(picked[r], snapshot[r], TRUE, TRUE)
          PROVE  RequestNext
      <4>1. ~snapshot[r].broken /\ Possible(snapshot[r])
        BY <1>0, <3>1 DEF TokenObtained, Tracks
      <4> QED
        BY <1>0, <3>1, <4>1, SnapshotType, TokenIsRequest
    <3>2. Running
      BY <2>4, <3>1, RunningMoves
    <3> QED
      BY <1>0, <2>1, <2>4, <3>2, LeavePool, NextTryKeeps DEF Error
  <2> QED
    BY <1>3, <2>2, <2>3, <2>4 DEF ForceRefreshed
<1> QED
  BY <1>2, <1>3

LEMMA BlameKeeps ==
    ASSUME PoolFacts, RequestsInv, SharedInv, CallsInv, NEW r \in Requests, Blame(r)
    PROVE  Running /\ RequestsInv' /\ SharedInv' /\ CallsInv'
<1>1. picked[r] \in Ids /\ call[r] \in Attempting
  BY ContextFacts DEF Blame, In, WithContext
<1>2. Running
  BY <1>1, RunningMoves DEF Blame, Ignored, RequestNext, ReportNext
<1>3. RequestsInv' /\ SharedInv' /\ OthersStay(r)
  BY <1>2, DropKeeps DEF Blame
<1>4. NextTry(r, "generic") \/ Return(r, "generic")
  BY DEF Blame
<1> QED
  BY <1>1, <1>2, <1>3, <1>4, NextTryKeeps, ReturnKeeps DEF Error

LEMMA CallStepKeeps ==
    ASSUME PoolFacts, RequestsInv, SharedInv, CallsInv, NEW r \in Requests,
           BeginCall(r) \/ CallStep(r) \/ EndCall(r)
    PROVE  Running /\ RequestsInv' /\ SharedInv' /\ CallsInv'
<1>1. CASE BeginCall(r) \/ EndCall(r) \/ GiveUpCall(r)
  BY <1>1, BeginCallKeeps
<1>2. CASE BeginTry(r) \/ Acquire(r) \/ AcquireFailed(r) \/ Acquired(r)
  BY <1>2, AcquiringKeeps
<1>3. CASE EnsureProfileArn(r)
  BY <1>3, ProfileKeeps
<1>4. ASSUME NEW a, Receive(r, a)
      PROVE  Running /\ RequestsInv' /\ SharedInv' /\ CallsInv'
  <2>1. IF a \in {"denied", "token_invalid"}
        THEN /\ Denied(r, a = "token_invalid")
             /\ snapshot' = [snapshot EXCEPT ![r] =
                   IF picked[r] \in Live THEN entries[picked[r]].credentials ELSE @]
             /\ UNCHANGED <<pc, picked, attempts, max_attempts, outcome,
                            refresh_lock, bounds>>
        ELSE Answered(r, a) /\ Drop(r)
    BY <1>4 DEF Receive
  <2>2. In(r, "upstream")
    BY <1>4 DEF Receive
  <2>3. CASE a \in {"denied", "token_invalid"}
    BY <2>1, <2>2, <2>3, DeniedKeeps
  <2>4. CASE a \notin {"denied", "token_invalid"}
    BY <2>1, <2>2, <2>4, AnsweredKeeps
  <2> QED
    BY <2>3, <2>4
<1>5. CASE ForceLock(r) \/ ForceRefreshed(r)
  BY <1>5, ForceKeeps
<1>6. CASE Blame(r)
  BY <1>6, BlameKeeps
<1> QED
  BY <1>1, <1>2, <1>3, <1>4, <1>5, <1>6 DEF CallStep, Quiet

LEMMA InitProviderInv == InitProvider => ProviderIInv
<1> SUFFICES ASSUME InitProvider PROVE ProviderIInv
  OBVIOUS
<1>1. CallTypes
  BY ProviderAssumption DEF InitProvider, CallTypes, Call, Error
<1>2. ASSUME NEW r \in Requests PROVE CallOK(r)
  BY DEF InitProvider, CallOK, Attempting, WithContext
<1>3. AcquireIInv
  BY InitAcquireInv DEF InitProvider
<1> QED
  BY <1>1, <1>2, <1>3 DEF ProviderIInv, CallsInv

LEMMA NextProviderKeeps ==
    ASSUME ProviderIInv, [NextProvider]_provider
    PROVE  [Next]_pool /\ ProviderIInv'
<1>1. PoolFacts /\ RequestsInv /\ SharedInv /\ CallsInv
  BY DEF ProviderIInv, AcquireIInv
<1>2. (Running \/ Restart) /\ RequestsInv' /\ SharedInv' /\ CallsInv'
  <2>1. ASSUME NEW r \in Requests, BeginCall(r) \/ CallStep(r) \/ EndCall(r)
        PROVE  Running /\ RequestsInv' /\ SharedInv' /\ CallsInv'
    BY <1>1, <2>1, CallStepKeeps
  <2>2. ASSUME Running, RequestsInv', SharedInv', UNCHANGED request_vars, UNCHANGED call_vars
        PROVE  Running /\ RequestsInv' /\ SharedInv' /\ CallsInv'
    <3>1. UNCHANGED pc
      BY <2>2 DEF request_vars
    <3> QED
      BY <1>1, <2>2, <3>1, CallVarsKept
  <2>3. CASE (Operator \/ Clock) /\ UNCHANGED call_vars
    <3>1. Running /\ RequestsInv' /\ SharedInv'
      BY <1>1, <2>3, EnvironmentKeeps
    <3>2. UNCHANGED request_vars
      BY <2>3 DEF Operator, Clock, acquire
    <3> QED
      BY <2>2, <2>3, <3>1, <3>2
  <2>4. CASE OtherTraffic /\ UNCHANGED call_vars
    <3>1. Running /\ UNCHANGED request_vars
      <4>1. RequestNext /\ UNCHANGED request_vars
        BY <2>4 DEF OtherTraffic
      <4>2. Running
        BY <1>1, <4>1, RunningMoves
      <4> QED
        BY <4>1, <4>2
    <3>2. RequestsInv'
      BY <1>1, <3>1, RunningMoves, StayKeeps
    <3>3. SharedInv'
      <4>1. edits \in Nat /\ edits < MaxEdits /\ edits' = edits + 1
        BY <1>1, <2>4, AcquireAssumption DEF OtherTraffic, SharedInv
      <4>2. edits' \in 0 .. MaxEdits /\ UNCHANGED <<refresh_lock, rotations>>
        BY <2>4, <4>1, AcquireAssumption DEF OtherTraffic
      <4> QED
        BY <1>1, <4>2 DEF SharedInv
    <3> QED
      BY <2>2, <2>4, <3>1, <3>2, <3>3
  <2>5. CASE CrashCalls
    <3>1. Restart /\ RequestsInv' /\ SharedInv'
      BY <1>1, <2>5, CrashKeeps DEF CrashCalls
    <3>2. CallTypes'
      BY <2>5, ProviderAssumption DEF CrashCalls, CallTypes, Call, Error
    <3>3. ASSUME NEW q \in Requests PROVE CallOK(q)'
      BY <2>5 DEF CrashCalls, CallOK, Attempting, WithContext
    <3> QED
      BY <3>1, <3>2, <3>3 DEF CallsInv
  <2>6. CASE UNCHANGED provider
    <3>1. UNCHANGED pool /\ UNCHANGED request_vars /\ UNCHANGED call_vars
          /\ UNCHANGED <<refresh_lock, rotations, edits>>
      BY <2>6 DEF provider, vars, acquire, bounds
    <3>2. Running /\ RequestsInv' /\ SharedInv'
      BY <1>1, <3>1, RunningMoves, StayKeeps DEF SharedInv
    <3> QED
      BY <2>2, <3>1, <3>2
  <2> QED
    BY <2>1, <2>3, <2>4, <2>5, <2>6 DEF NextProvider, OtherSteps
<1>3. [Next]_pool
  BY <1>2, RunningIsNext
<1> QED
  BY <1>1, <1>2, <1>3, NextFacts DEF ProviderIInv, AcquireIInv

---------------------------------------------------------------------------
(* kiro/provider.rs: the theorems.                                         *)

(* Type correctness of the calls, and the bound on their attempts: a call  *)
(* makes no more than it was given, and never more than MAX_TOTAL_RETRIES. *)
THEOREM CallsTypeCorrect == SpecProvider => []TypeOKProvider
<1>1. ASSUME ProviderIInv PROVE TypeOKProvider
  <2>1. CallTypes /\ \A r \in Requests : tries[r] <= max_retries[r]
    BY <1>1 DEF ProviderIInv, CallsInv, CallOK
  <2>2. tries \in [Requests -> 0 .. MAX_TOTAL_RETRIES]
    <3>1. ASSUME NEW r \in Requests PROVE tries[r] \in 0 .. MAX_TOTAL_RETRIES
      <4>1. /\ tries[r] \in Nat /\ max_retries[r] \in 0 .. MAX_TOTAL_RETRIES
            /\ tries[r] <= max_retries[r]
        BY <2>1 DEF CallTypes
      <4> QED
        BY <4>1, ProviderAssumption
    <3> QED
      BY <2>1, <3>1 DEF CallTypes
  <2> QED
    BY <2>1, <2>2 DEF CallTypes, TypeOKProvider
<1> QED
  BY <1>1, InitProviderInv, NextProviderKeeps, PTL DEF SpecProvider

(* The provider's calls, with other traffic, the operator and crashes,     *)
(* take only the pool's critical sections, so the theorems of              *)
(* CredentialPool_proofs hold of the whole request path.                   *)
THEOREM ProviderImplementsPool == SpecProvider => Spec
<1>1. InitProvider => Init
  BY DEF InitProvider, InitAcquire
<1> QED
  BY <1>1, InitProviderInv, NextProviderKeeps, PTL DEF SpecProvider, Spec

(* The RPM limit holds of the whole request path, too. *)
THEOREM ProviderKeepsRpmLimit == SpecProvider => []RpmNeverExceeded
<1>1. ProviderIInv => RpmNeverExceeded
  BY DEF ProviderIInv, AcquireIInv, PoolFacts, PoolData
<1> QED
  BY <1>1, InitProviderInv, NextProviderKeeps, PTL DEF SpecProvider

---------------------------------------------------------------------------
(* A 429 is never lost on its way to the client.                           *)

(* Where a refused call waits to blame its credential. *)
Accused == {"forcing", "forced", "blamed"}

(* The 429 is in last_error until it is the result. *)
LimitedInv ==
    \A r \in Requests : limited[r] => /\ "429" \in {last_error[r], result[r]}
                                     /\ call[r] \notin Accused

Remembers(q) == last_error'[q] = last_error[q] /\ result'[q] = result[q]

OthersRemember(r) == \A q \in Requests \ {r} : Remembers(q) /\ call'[q] = call[q]

(* A step at which no answer comes may drop last_error only when it holds  *)
(* no 429, or to return it, or when the call was refused meanwhile.        *)
Follows429(q) ==
    \/ call[q] \in Accused
    \/ /\ call'[q] \notin Accused
       /\ \/ result'[q] = "429"
          \/ Remembers(q)
          \/ (last_error[q] # "429" /\ result[q] = "none")

LEMMA Follows429Keeps ==
    ASSUME LimitedInv, \A r \in Requests : Follows429(r), UNCHANGED limited
    PROVE  LimitedInv'
BY DEF LimitedInv, Follows429, Remembers

LEMMA OthersFollow ==
    ASSUME NEW r \in Requests, OthersRemember(r), Follows429(r)
    PROVE  \A q \in Requests : Follows429(q)
BY DEF OthersRemember, Follows429

LEMMA EnterRemembers ==
    ASSUME CallTypes, NEW r \in Requests, NEW where, Enter(r, where)
    PROVE  OthersRemember(r) /\ Remembers(r) /\ call'[r] = where
BY DEF Enter, CallTypes, Remembers, OthersRemember

LEMMA NextTryRemembers ==
    ASSUME CallTypes, NEW r \in Requests, NEW e, NextTry(r, e)
    PROVE  /\ OthersRemember(r) /\ call'[r] = "loop"
           /\ e = "none" => Remembers(r)
           /\ e # "none" => last_error'[r] = e
BY DEF NextTry, CallTypes, Remembers, OthersRemember

LEMMA ReturnRemembers ==
    ASSUME CallTypes, NEW r \in Requests, NEW e, Return(r, e)
    PROVE  OthersRemember(r) /\ call'[r] = "returned" /\ result'[r] = e
BY DEF Return, CallTypes, Remembers, OthersRemember

(* The end of an attempt follows a refusal, or it holds no 429 to lose. *)
LEMMA EndFollows ==
    ASSUME CallTypes, NEW r \in Requests, NEW e, NextTry(r, e) \/ Return(r, e),
           call[r] \in Accused \/ (last_error[r] # "429" /\ result[r] = "none")
    PROVE  \A q \in Requests : Follows429(q)
BY NextTryRemembers, ReturnRemembers, OthersFollow DEF Follows429, Accused

LEMMA QuietFollows ==
    ASSUME CallsInv, NEW r \in Requests, Quiet(r)
    PROVE  \A q \in Requests : Follows429(q)
<1>0. CallTypes /\ CallOK(r)
  BY DEF CallsInv
<1>1. ASSUME Return(r, "429")
      PROVE  \A q \in Requests : Follows429(q)
  BY <1>0, <1>1, ReturnRemembers, OthersFollow DEF Follows429, Accused
<1>2. ASSUME NEW where, Enter(r, where), where \notin Accused \/ call[r] \in Accused
      PROVE  \A q \in Requests : Follows429(q)
  BY <1>0, <1>2, EnterRemembers, OthersFollow DEF Follows429
<1>3. CASE GiveUpCall(r)
  <2>1. CASE last_error[r] = "429"
    BY <1>1, <1>3, <2>1 DEF GiveUpCall
  <2>2. CASE last_error[r] # "429"
    <3>1. Return(r, "generic") /\ call[r] = "loop"
      BY <1>3, <2>2 DEF GiveUpCall, In
    <3> QED
      BY <1>0, <2>2, <3>1, EndFollows DEF CallOK
  <2> QED
    BY <2>1, <2>2
<1>4. CASE Acquire(r)
  <2>1. UNCHANGED call_vars
    BY <1>4 DEF Acquire
  <2> QED
    BY <2>1 DEF call_vars, Follows429, Remembers
<1>5. CASE BeginTry(r) \/ Acquired(r)
  <2>1. \E where \in {"acquiring", "profile", "upstream"} : Enter(r, where)
    BY <1>5 DEF BeginTry, Acquired
  <2> QED
    BY <1>2, <2>1 DEF Accused
<1>6. CASE AcquireFailed(r)
  <2>1. CASE Return(r, "429")
    BY <1>1, <2>1
  <2>2. CASE NextTry(r, "generic") /\ last_error[r] # "429"
    <3>1. result[r] = "none"
      BY <1>0, <1>6 DEF AcquireFailed, In, CallOK
    <3> QED
      BY <1>0, <2>2, <3>1, EndFollows
  <2> QED
    BY <1>6, <2>1, <2>2 DEF AcquireFailed
<1>7. CASE EnsureProfileArn(r)
  <2>1. Enter(r, "upstream") \/ Return(r, "429")
    BY <1>7 DEF EnsureProfileArn
  <2>2. "upstream" \notin Accused
    BY DEF Accused
  <2> QED
    BY <1>1, <1>2, <2>1, <2>2
<1>8. CASE ForceLock(r)
  <2>1. Enter(r, "forced") /\ call[r] \in Accused
    BY <1>8 DEF ForceLock, In, Accused
  <2> QED
    BY <1>2, <2>1
<1>9. CASE ForceRefreshed(r)
  <2>1. call[r] \in Accused
    BY <1>9 DEF ForceRefreshed, In, Accused
  <2>2. NextTry(r, "none") \/ Return(r, "429") \/ Enter(r, "blamed")
    BY <1>9 DEF ForceRefreshed
  <2> QED
    BY <1>0, <1>2, <2>1, <2>2, EndFollows
<1>10. CASE Blame(r)
  <2>1. call[r] \in Accused /\ (NextTry(r, "generic") \/ Return(r, "generic"))
    BY <1>10 DEF Blame, In, Accused
  <2> QED
    BY <1>0, <2>1, EndFollows
<1> QED
  BY <1>3, <1>4, <1>5, <1>6, <1>7, <1>8, <1>9, <1>10 DEF Quiet

LEMMA AnsweredLeaves ==
    ASSUME NEW r, NEW a, Answered(r, a)
    PROVE  \E e : NextTry(r, e) \/ Return(r, e)
<1>1. ASSUME NEW rule, RuleHit(r, rule)
      PROVE  \E e : NextTry(r, e) \/ Return(r, e)
  BY <1>1 DEF RuleHit, Final
<1>2. ASSUME NEW wait, Suspicious(r, wait)
      PROVE  \E e : NextTry(r, e) \/ Return(r, e)
  BY <1>2 DEF Suspicious
<1>3. ASSUME Success(r) \/ NoEndpoint(r) \/ Quota(r) \/ Transient(r)
             \/ Final(r, "429") \/ Final(r, "generic")
      PROVE  \E e : NextTry(r, e) \/ Return(r, e)
  BY <1>3 DEF Success, NoEndpoint, Quota, Transient, Final
<1> QED
  BY <1>1, <1>2, <1>3 DEF Answered

(* Every branch on a 429 keeps it, in last_error or as the result. *)
LEMMA ReceiveLimits ==
    ASSUME CallTypes, NEW r \in Requests, NEW a, Receive(r, a)
    PROVE  /\ OthersRemember(r)
           /\ a \in RateLimited => /\ "429" \in {last_error'[r], result'[r]}
                                   /\ call'[r] \notin Accused
<1>1. CASE a \in {"denied", "token_invalid"}
  <2>1. Denied(r, a = "token_invalid") /\ a \notin RateLimited
    BY <1>1 DEF Receive, RateLimited
  <2> QED
    BY <2>1 DEF Denied, CallTypes, OthersRemember, Remembers
<1>2. CASE a \notin {"denied", "token_invalid"}
  <2>1. Answered(r, a)
    BY <1>2 DEF Receive
  <2>2. OthersRemember(r) /\ call'[r] \in {"loop", "returned"}
    BY <2>1, AnsweredLeaves, NextTryRemembers, ReturnRemembers
  <2>3. ASSUME a \in RateLimited PROVE NextTry(r, "429") \/ Return(r, "429")
    <3>1. CASE a \in {"limited", "limited_wait"}
      BY <2>1, <3>1 DEF Answered, Final
    <3>2. CASE a \in {"suspicious", "suspicious_wait"}
      <4>1. Suspicious(r, a = "suspicious_wait")
        BY <2>1, <3>2 DEF Answered
      <4> QED
        BY <4>1 DEF Suspicious
    <3> QED
      BY <2>3, <3>1, <3>2 DEF RateLimited
  <2> QED
    BY <2>2, <2>3, NextTryRemembers, ReturnRemembers DEF Accused
<1> QED
  BY <1>1, <1>2

LEMMA LimitedTypes ==
    ASSUME limited \in [Requests -> BOOLEAN], [NextLimited]_<<provider, limited>>
    PROVE  limited' \in [Requests -> BOOLEAN]
<1>1. ASSUME NEW r, NEW a, limited' = [limited EXCEPT ![r] = a \in RateLimited]
      PROVE  limited' \in [Requests -> BOOLEAN]
  <2>1. (a \in RateLimited) \in BOOLEAN
    OBVIOUS
  <2> QED
    BY <1>1, <2>1
<1>2. ASSUME NEW r, limited' = [limited EXCEPT ![r] = FALSE]
      PROVE  limited' \in [Requests -> BOOLEAN]
  BY <1>2
<1> QED
  BY <1>1, <1>2 DEF NextLimited

LEMMA NextLimitedKeeps ==
    ASSUME ProviderIInv, LimitedInv, limited \in [Requests -> BOOLEAN],
           [NextLimited]_<<provider, limited>>
    PROVE  LimitedInv'
<1>0. CallsInv /\ CallTypes
  BY DEF ProviderIInv, CallsInv
<1>1. ASSUME UNCHANGED call_vars, UNCHANGED limited PROVE LimitedInv'
  BY <1>1 DEF LimitedInv, call_vars
<1>2. ASSUME NEW r \in Requests, NEW a, Receive(r, a),
             limited' = [limited EXCEPT ![r] = a \in RateLimited]
      PROVE  LimitedInv'
  BY <1>0, <1>2, ReceiveLimits DEF LimitedInv, OthersRemember, Remembers
<1>3. ASSUME NEW r \in Requests, Quiet(r), UNCHANGED limited
      PROVE  LimitedInv'
  BY <1>0, <1>3, QuietFollows, Follows429Keeps
<1>4. ASSUME NEW r \in Requests, BeginCall(r) \/ EndCall(r),
             limited' = [limited EXCEPT ![r] = FALSE]
      PROVE  LimitedInv'
  <2>1. OthersRemember(r)
    BY <1>0, <1>4 DEF BeginCall, EndCall, CallTypes, OthersRemember, Remembers
  <2> QED
    BY <1>4, <2>1 DEF LimitedInv, OthersRemember, Remembers
<1>5. ASSUME limited' = [r \in Requests |-> FALSE] PROVE LimitedInv'
  BY <1>5 DEF LimitedInv
<1>6. CASE UNCHANGED <<provider, limited>>
  BY <1>1, <1>6 DEF provider
<1> QED
  BY <1>1, <1>2, <1>3, <1>4, <1>5, <1>6 DEF NextLimited, OtherSteps

(* A call whose last attempt to reach an upstream was answered with a 429  *)
(* ends with a 429, whatever other requests, the operator or a failing     *)
(* token endpoint do after that, and when the attempts run out             *)
(* (take_rate_limit_error). An attempt that goes wrong later in another    *)
(* way - no endpoint, no client, no connection, another answer - takes the *)
(* place of the 429, as it does in last_error.                             *)
THEOREM RateLimitReachesClient == SpecLimited => []RateLimitPreserved
<1> DEFINE Inv == ProviderIInv /\ LimitedInv /\ limited \in [Requests -> BOOLEAN]
<1>1. InitLimited => Inv
  BY InitProviderInv DEF InitLimited, LimitedInv
<1>2. Inv /\ [NextLimited]_<<provider, limited>> => Inv'
  <2> SUFFICES ASSUME Inv, [NextLimited]_<<provider, limited>> PROVE Inv'
    OBVIOUS
  <2>1. [NextProvider]_provider
    BY DEF NextLimited, NextProvider, CallStep
  <2>2. ProviderIInv'
    BY <2>1, NextProviderKeeps
  <2>3. LimitedInv' /\ limited' \in [Requests -> BOOLEAN]
    BY NextLimitedKeeps, LimitedTypes
  <2> QED
    BY <2>2, <2>3
<1>3. Inv => RateLimitPreserved
  <2> SUFFICES ASSUME Inv, NEW r \in Requests, limited[r]
               PROVE  result[r] \in {"none", "429"}
    BY DEF RateLimitPreserved
  <2>1. "429" \in {last_error[r], result[r]} /\ CallOK(r)
    BY DEF LimitedInv, ProviderIInv, CallsInv
  <2> QED
    BY <2>1 DEF CallOK
<1> HIDE DEF Inv
<1> QED
  BY <1>1, <1>2, <1>3, PTL DEF SpecLimited


---------------------------------------------------------------------------
(* The refresh lock.                                                       *)

(* Waiting for the token endpoint, in try_ensure_token or in               *)
(* force_refresh_token_for.                                                *)
Refreshing(r) == pc[r] = "refresh" \/ call[r] = "forced"

RefreshLockHeld == \A r \in Requests : Refreshing(r) <=> refresh_lock = r

(* The request neither takes nor gives back the lock. *)
LEMMA LockSteady ==
    ASSUME RefreshLockHeld, NEW r \in Requests, refresh_lock' = refresh_lock,
           Refreshing(r)' <=> Refreshing(r),
           \A q \in Requests \ {r} : Refreshing(q)' <=> Refreshing(q)
    PROVE  RefreshLockHeld'
BY DEF RefreshLockHeld

LEMMA LockTaken ==
    ASSUME RefreshLockHeld, NEW r \in Requests, refresh_lock = NoRequest, refresh_lock' = r,
           Refreshing(r)', \A q \in Requests \ {r} : Refreshing(q)' <=> Refreshing(q)
    PROVE  RefreshLockHeld'
BY AcquireAssumption DEF RefreshLockHeld

LEMMA LockReleased ==
    ASSUME RefreshLockHeld, NEW r \in Requests, refresh_lock' = NoRequest,
           Refreshing(r), ~Refreshing(r)',
           \A q \in Requests \ {r} : Refreshing(q)' <=> Refreshing(q)
    PROVE  RefreshLockHeld'
BY AcquireAssumption DEF RefreshLockHeld

(* Where a step of the call leaves it. *)
LEMMA CallLeaves ==
    ASSUME CallTypes, NEW r \in Requests, NEW e, NextTry(r, e) \/ Return(r, e)
    PROVE  call'[r] \in {"loop", "returned"} /\ \A q \in Requests \ {r} : call'[q] = call[q]
BY DEF CallTypes, NextTry, Return

LEMMA CallEnters ==
    ASSUME CallTypes, NEW r \in Requests, NEW where, Enter(r, where)
    PROVE  call'[r] = where /\ \A q \in Requests \ {r} : call'[q] = call[q]
BY DEF CallTypes, Enter

LEMMA DropMoves ==
    ASSUME RequestTypes, NEW r \in Requests, Leave(r, "idle", "none")
    PROVE  pc'[r] = "idle" /\ OthersStay(r)
BY LeaveMoves DEF OthersStay, Unmoved

(* A step of acquire_context moves the lock with `refresh`. *)
LEMMA AcquireLock ==
    ASSUME RequestTypes, CallTypes, RefreshLockHeld, NEW r \in Requests,
           AcquireStep(r), UNCHANGED call_vars, call[r] = "acquiring"
    PROVE  RefreshLockHeld'
<1>1. OthersStay(r) /\ call' = call
  BY AcquireMovesOne DEF call_vars
<1>2. \A q \in Requests \ {r} : Refreshing(q)' <=> Refreshing(q)
  BY <1>1 DEF OthersStay, Refreshing
<1>3. ASSUME Local, pc[r] # "refresh", pc'[r] # "refresh"
      PROVE  RefreshLockHeld'
  BY <1>1, <1>2, <1>3, LockSteady DEF Local, Refreshing
<1>4. ASSUME NEW where \in PC \ {"refresh"}, Goto(r, where), Local, pc[r] # "refresh"
      PROVE  RefreshLockHeld'
  BY <1>3, <1>4, GotoMoves
<1>5. ASSUME NEW where \in PC \ {"refresh"}, NEW c, Pick(r, c, where), Local, pc[r] # "refresh"
      PROVE  RefreshLockHeld'
  BY <1>3, <1>5, PickMoves
<1>6. ASSUME Retry(r) \/ (\E how : Fail(r, how)), Local, pc[r] # "refresh"
      PROVE  RefreshLockHeld'
  BY <1>3, <1>6, RetryMoves, LeaveMoves DEF Fail
<1>7. CASE Exhausted(r) \/ Explain(r)
  BY <1>6, <1>7 DEF Exhausted, Explain, At
<1>8. CASE TryCurrent(r) \/ Heal(r) \/ Bind(r) \/ TokenValid(r)
  BY <1>4, <1>5, <1>8 DEF TryCurrent, Heal, Bind, TokenValid, At, PC
<1>9. CASE Select(r) \/ Reselect(r)
  BY <1>4, <1>5, <1>9 DEF Select, Reselect, SelectOr, At, PC
<1>10. CASE RefreshFailed(r) \/ RefreshTokenInvalid(r) \/ Record(r)
  BY <1>4, <1>6, <1>10 DEF RefreshFailed, RefreshTokenInvalid, Record, RetryIfAny, At, PC
<1>11. CASE Reloaded(r)
  <2>1. refresh_lock' = refresh_lock /\ Goto(r, "top") /\ pc[r] = "invalid"
    BY <1>11 DEF Reloaded, At
  <2> QED
    BY <1>1, <1>2, <2>1, GotoMoves, LockSteady DEF Refreshing
<1>12. CASE BeginRefresh(r)
  <2>1. pc[r] = "token" /\ refresh_lock = NoRequest
    BY <1>12 DEF BeginRefresh, At
  <2>2. CASE /\ UNCHANGED refresh_lock
             /\ Goto(r, "failed") \/ \E c : Pick(r, c, "record")
    BY <1>1, <1>2, <2>1, <2>2, GotoMoves, PickMoves, LockSteady DEF Refreshing
  <2>3. CASE refresh_lock' = r /\ Pick(r, picked[r], "refresh")
    BY <1>1, <1>2, <2>1, <2>3, PickMoves, LockTaken DEF Refreshing
  <2> QED
    BY <1>12, <2>2, <2>3 DEF BeginRefresh
<1>13. CASE EndRefresh(r)
  <2>1. /\ pc[r] = "refresh" /\ refresh_lock' = NoRequest
        /\ \/ \E where \in {"record", "failed", "invalid"} : Goto(r, where)
           \/ Leave(r, "done", "limited")
    BY <1>13 DEF EndRefresh, At, Fail
  <2>2. pc'[r] # "refresh"
    BY <2>1, GotoMoves, LeaveMoves
  <2> QED
    BY <1>1, <1>2, <2>1, <2>2, LockReleased DEF Refreshing
<1> QED
  BY <1>7, <1>8, <1>9, <1>10, <1>11, <1>12, <1>13 DEF AcquireStep

(* A step that ends where no request refreshes, the lock left alone. *)
LEMMA CallLock ==
    ASSUME RefreshLockHeld, NEW r \in Requests, refresh_lock' = refresh_lock,
           ~Refreshing(r), ~Refreshing(r)', OthersStay(r),
           \A q \in Requests \ {r} : call'[q] = call[q]
    PROVE  RefreshLockHeld'
BY LockSteady DEF OthersStay, Refreshing

LEMMA CallStepLock ==
    ASSUME RequestsInv, CallsInv, RefreshLockHeld, NEW r \in Requests,
           BeginCall(r) \/ CallStep(r) \/ EndCall(r)
    PROVE  RefreshLockHeld'
<1>0. RequestTypes /\ CallTypes
  BY DEF RequestsInv, CallsInv
<1>1. call[r] \in WithContext => pc[r] = "ctx"
  BY DEF CallsInv, CallOK
<1>2. CASE BeginCall(r) \/ EndCall(r) \/ GiveUpCall(r)
  <2>1. /\ UNCHANGED <<pc, refresh_lock>> /\ call[r] # "forced"
        /\ call'[r] # "forced" /\ \A q \in Requests \ {r} : call'[q] = call[q]
    <3>1. UNCHANGED <<pc, refresh_lock>> /\ call[r] # "forced"
      BY <1>2 DEF BeginCall, EndCall, GiveUpCall, vars, acquire, request_vars, In
    <3>2. call'[r] # "forced" /\ \A q \in Requests \ {r} : call'[q] = call[q]
      BY <1>0, <1>2, CallLeaves DEF BeginCall, EndCall, GiveUpCall, CallTypes
    <3> QED
      BY <3>1, <3>2
  <2> QED
    BY <2>1, LockSteady DEF Refreshing
<1>3. CASE BeginTry(r)
  <2>1. /\ pc[r] = "idle" /\ pc'[r] = "top" /\ OthersStay(r)
        /\ refresh_lock' = refresh_lock /\ call[r] = "loop" /\ Enter(r, "acquiring")
    BY <1>0, <1>3 DEF BeginTry, Start, At, In, Local, RequestTypes, OthersStay
  <2> QED
    BY <1>0, <2>1, CallEnters, CallLock DEF Refreshing
<1>4. CASE Acquire(r)
  BY <1>0, <1>4, AcquireLock DEF Acquire, In
<1>5. CASE AcquireFailed(r)
  <2>1. /\ call[r] = "acquiring" /\ pc[r] = "done" /\ Leave(r, "idle", "none")
        /\ refresh_lock' = refresh_lock /\ \E e : NextTry(r, e) \/ Return(r, e)
    BY <1>5 DEF AcquireFailed, In, Drop, KeepBounds
  <2> QED
    BY <1>0, <2>1, CallLeaves, DropMoves, CallLock DEF Refreshing
<1>6. CASE Acquired(r)
  <2>1. /\ call[r] = "acquiring" /\ pc[r] = "ctx" /\ UNCHANGED <<pc, refresh_lock>>
        /\ \E where \in {"profile", "upstream"} : Enter(r, where)
    BY <1>6 DEF Acquired, In, KeepAcquire, request_vars
  <2> QED
    BY <1>0, <2>1, CallEnters, StillOthers, CallLock DEF Refreshing
<1>7. CASE EnsureProfileArn(r)
  <2>1. /\ call[r] = "profile" /\ pc[r] = "ctx" /\ refresh_lock' = refresh_lock
        /\ \/ Enter(r, "upstream") /\ UNCHANGED pc
           \/ Return(r, "429") /\ Leave(r, "idle", "none")
    BY <1>1, <1>7
       DEF EnsureProfileArn, In, KeepAcquire, Drop, KeepBounds, request_vars, WithContext
  <2>2. CASE Enter(r, "upstream") /\ UNCHANGED pc
    BY <1>0, <2>1, <2>2, CallEnters, StillOthers, CallLock DEF Refreshing
  <2>3. CASE Return(r, "429") /\ Leave(r, "idle", "none")
    BY <1>0, <2>1, <2>3, CallLeaves, DropMoves, CallLock DEF Refreshing
  <2> QED
    BY <2>1, <2>2, <2>3
<1>8. ASSUME NEW a, Receive(r, a)
      PROVE  RefreshLockHeld'
  <2>1. call[r] = "upstream" /\ pc[r] = "ctx"
    BY <1>1, <1>8 DEF Receive, In, WithContext
  <2>2. \/ /\ Denied(r, a = "token_invalid") /\ UNCHANGED <<pc, refresh_lock>>
        \/ Answered(r, a) /\ Drop(r)
    BY <1>8 DEF Receive
  <2>3. CASE Denied(r, a = "token_invalid") /\ UNCHANGED <<pc, refresh_lock>>
    <3>1. call'[r] \in {"forcing", "blamed"} /\ \A q \in Requests \ {r} : call'[q] = call[q]
      BY <1>0, <2>3 DEF Denied, CallTypes
    <3> QED
      BY <2>1, <2>3, <3>1, StillOthers, CallLock DEF Refreshing
  <2>4. CASE Answered(r, a) /\ Drop(r)
    BY <1>0, <2>1, <2>4, AnsweredLeaves, CallLeaves, DropMoves, CallLock
       DEF Refreshing, Drop, KeepBounds
  <2> QED
    BY <2>2, <2>3, <2>4
<1>9. CASE ForceLock(r)
  <2>1. /\ refresh_lock = NoRequest /\ refresh_lock' = r /\ UNCHANGED pc
        /\ Enter(r, "forced")
    BY <1>9 DEF ForceLock, request_vars
  <2> QED
    BY <1>0, <2>1, CallEnters, LockTaken DEF Refreshing
<1>10. CASE ForceRefreshed(r)
  <2>1. /\ call[r] = "forced" /\ pc[r] = "ctx" /\ refresh_lock' = NoRequest
        /\ \/ Enter(r, "blamed") /\ UNCHANGED pc
           \/ /\ Leave(r, "idle", "none")
              /\ \E e : NextTry(r, e) \/ Return(r, e)
    BY <1>1, <1>10 DEF ForceRefreshed, In, request_vars, WithContext
  <2>2. CASE Enter(r, "blamed") /\ UNCHANGED pc
    BY <1>0, <2>1, <2>2, CallEnters, LockReleased DEF Refreshing
  <2>3. CASE Leave(r, "idle", "none") /\ \E e : NextTry(r, e) \/ Return(r, e)
    BY <1>0, <2>1, <2>3, CallLeaves, DropMoves, LockReleased DEF Refreshing, OthersStay
  <2> QED
    BY <2>1, <2>2, <2>3
<1>11. CASE Blame(r)
  <2>1. /\ call[r] = "blamed" /\ pc[r] = "ctx" /\ Leave(r, "idle", "none")
        /\ refresh_lock' = refresh_lock /\ \E e : NextTry(r, e) \/ Return(r, e)
    BY <1>1, <1>11 DEF Blame, In, Drop, KeepBounds, WithContext
  <2> QED
    BY <1>0, <2>1, CallLeaves, DropMoves, CallLock DEF Refreshing
<1> QED
  BY <1>2, <1>3, <1>4, <1>5, <1>6, <1>7, <1>8, <1>9, <1>10, <1>11 DEF CallStep, Quiet

LEMMA NextLock ==
    ASSUME ProviderIInv, RefreshLockHeld, [NextProvider]_provider
    PROVE  RefreshLockHeld'
<1>1. RequestsInv /\ CallsInv
  BY DEF ProviderIInv, AcquireIInv
<1>2. ASSUME NEW r \in Requests, BeginCall(r) \/ CallStep(r) \/ EndCall(r)
      PROVE  RefreshLockHeld'
  BY <1>1, <1>2, CallStepLock
<1>3. CASE UNCHANGED <<pc, call, refresh_lock>>
  BY <1>3 DEF RefreshLockHeld, Refreshing
<1>4. CASE (Operator \/ Clock \/ OtherTraffic) /\ UNCHANGED call_vars
  BY <1>3, <1>4 DEF Operator, Clock, OtherTraffic, acquire, request_vars, call_vars
<1>5. CASE UNCHANGED provider
  BY <1>3, <1>5 DEF provider, vars, acquire, request_vars, call_vars
<1>6. CASE CrashCalls
  <2>1. /\ pc' = [r \in Requests |-> "idle"] /\ call' = [r \in Requests |-> "idle"]
        /\ refresh_lock' = NoRequest
    BY <1>6 DEF CrashCalls, Crash
  <2> QED
    BY <2>1, AcquireAssumption DEF RefreshLockHeld, Refreshing
<1> QED
  BY <1>2, <1>4, <1>5, <1>6 DEF NextProvider, OtherSteps

(* Whether a request's own token ran out or the upstream refused it, and   *)
(* whatever the endpoint answers or a crash cuts short: one request at a   *)
(* time refreshes, it holds the lock while it does, and the lock is never  *)
(* left with a request that does not.                                      *)
THEOREM OneRefreshAtATime == SpecProvider => []RefreshLockHeld
<1>1. InitProvider => RefreshLockHeld
  BY AcquireAssumption DEF InitProvider, InitAcquire, RefreshLockHeld, Refreshing
<1>2. ProviderIInv /\ RefreshLockHeld /\ [NextProvider]_provider => RefreshLockHeld'
  BY NextLock
<1>3. SpecProvider => []ProviderIInv
  BY InitProviderInv, NextProviderKeeps, PTL DEF SpecProvider
<1> QED
  BY <1>1, <1>2, <1>3, PTL DEF SpecProvider

=============================================================================
