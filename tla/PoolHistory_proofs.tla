------------------------ MODULE PoolHistory_proofs ------------------------
(***************************************************************************)
(* Proofs about PoolHistory: what an observer outside the process can rely *)
(* on, for every pool, every limit of self-healing and every order of      *)
(* requests, rotations, operator calls, ticks and restarts.                *)
(*                                                                         *)
(* First what each group of actions does to the status and the streak of   *)
(* an entry, one lemma per group; then the three results are read off.     *)
(***************************************************************************)
EXTENDS PoolHistory, CredentialPool_proofs

(* An entry that keeps its status and its streak; one that a request took  *)
(* out of service.                                                         *)
SameStatus(f, e) == f.disabled = e.disabled /\ f.disabled_reason = e.disabled_reason
Same(f, e) == SameStatus(f, e) /\ f.streak = e.streak
Tripped(f, e) ==
    /\ ~e.disabled /\ f.disabled /\ f.streak = e.streak
    /\ f.disabled_reason \in DisabledReason \ {"Manual"}

(* Nothing changes but the entry of c. *)
OnlyAt(c) == Live' = Live /\ \A d \in Live \ {c} : entries'[d] = entries[d]

LEMMA SetOnly ==
    ASSUME PoolInv, NEW c \in Live, NEW e, Set(c, e)
    PROVE  OnlyAt(c) /\ entries'[c] = e
BY DEF OnlyAt, Set, Live, PoolInv, EntriesInv

(* A counter, the cooldown or the configuration set to anything leaves     *)
(* status and streak; disabling keeps the streak, enabling too.            *)
LEMMA FieldsSame ==
    ASSUME NEW e \in CredentialEntry, NEW x, NEW y
    PROVE  /\ Same([e EXCEPT !.failure_count = x], e)
           /\ Same([e EXCEPT !.refresh_failure_count = x], e)
           /\ Same([e EXCEPT !.throttled = x], e)
           /\ Same([e EXCEPT !.rpm_used = x], e)
           /\ Same([e EXCEPT !.success_count = x], e)
           /\ Same([e EXCEPT !.credentials = x], e)
           /\ Same([e EXCEPT !.credentials = x, !.refresh_failure_count = y], e)
           /\ Same([e EXCEPT !.credentials.priority = x], e)
           /\ Same([e EXCEPT !.credentials.groups = x], e)
           /\ Same([e EXCEPT !.credentials.opus = x], e)
           /\ Same(Calm(e), e)
<1>1. /\ Same([e EXCEPT !.failure_count = x], e)
      /\ Same([e EXCEPT !.refresh_failure_count = x], e)
      /\ Same([e EXCEPT !.throttled = x], e)
      /\ Same([e EXCEPT !.rpm_used = x], e)
      /\ Same([e EXCEPT !.success_count = x], e)
  BY DEF Same, SameStatus, CredentialEntry
<1>2. /\ Same([e EXCEPT !.credentials = x], e)
      /\ Same([e EXCEPT !.credentials = x, !.refresh_failure_count = y], e)
  BY DEF Same, SameStatus, CredentialEntry
<1>3. /\ Same([e EXCEPT !.credentials.priority = x], e)
      /\ Same([e EXCEPT !.credentials.groups = x], e)
      /\ Same([e EXCEPT !.credentials.opus = x], e)
  BY DEF Same, SameStatus, CredentialEntry
<1>4. Same(Calm(e), e)
  BY DEF Same, SameStatus, CredentialEntry, Calm
<1> QED
  BY <1>1, <1>2, <1>3, <1>4

(* Disabling, after a counter changed or not. *)
LEMMA DisabledFields ==
    ASSUME NEW e \in CredentialEntry, ~e.disabled,
           NEW reason \in DisabledReason \ {"Manual"}, NEW x
    PROVE  /\ Tripped(DisabledFor(e, reason), e)
           /\ Tripped(DisabledFor([e EXCEPT !.failure_count = x], reason), e)
           /\ Tripped(DisabledFor([e EXCEPT !.refresh_failure_count = x], reason), e)
<1>1. Tripped(DisabledFor(e, reason), e)
  BY DEF Tripped, DisabledFor, CredentialEntry
<1>2. Tripped(DisabledFor([e EXCEPT !.failure_count = x], reason), e)
  BY DEF Tripped, DisabledFor, CredentialEntry
<1>3. Tripped(DisabledFor([e EXCEPT !.refresh_failure_count = x], reason), e)
  BY DEF Tripped, DisabledFor, CredentialEntry
<1> QED
  BY <1>1, <1>2, <1>3

LEMMA CountedFields ==
    ASSUME NEW e \in CredentialEntry, ~e.disabled
    PROVE  Same(CountedFailure(e), e) \/ Tripped(CountedFailure(e), e)
<1> DEFINE f == [e EXCEPT !.failure_count = e.failure_count + 1]
<1>1. Same(f, e)
  BY FieldsSame
<1>2. Tripped(DisabledFor(f, "TooManyFailures"), e)
  BY DisabledFields DEF DisabledReason
<1>3. CountedFailure(e) \in {f, DisabledFor(f, "TooManyFailures")}
  BY DEF CountedFailure
<1> HIDE DEF f
<1> QED
  BY <1>1, <1>2, <1>3

LEMMA ReenabledFields ==
    ASSUME NEW e \in CredentialEntry
    PROVE  /\ Reenabled(e).disabled = FALSE
           /\ Reenabled(e).disabled_reason = NoReason
           /\ Reenabled(e).streak = e.streak
           /\ ClearedStreak(e).disabled = e.disabled
           /\ ClearedStreak(e).disabled_reason = e.disabled_reason
           /\ ClearedStreak(e).streak = NoStreak
BY DEF Reenabled, ClearedStreak, CredentialEntry

---------------------------------------------------------------------------
(* What the steps of a request do.                                         *)

LEMMA ReportEffect ==
    ASSUME PoolInv, NEW c \in Ids,
           \/ ReportFailure(c) \/ ReportQuotaExhausted(c) \/ ReportRefreshFailure(c)
           \/ ReportRefreshTokenInvalid(c) \/ ReportAccountThrottled(c)
           \/ \E r \in Rules, m \in ModelArgs, g \in GroupArgs :
                  ReportCustomRuleHit(c, r, m, g)
    PROVE  /\ c \in Live /\ OnlyAt(c)
           /\ Same(entries'[c], entries[c]) \/ Tripped(entries'[c], entries[c])
<1> DEFINE e == entries[c]
<1>0. c \in Live => e \in CredentialEntry
  BY DEF PoolInv, EntriesInv
<1>1. CASE ReportFailure(c)
  <2>1. c \in Live /\ ~e.disabled /\ Set(c, CountedFailure(e))
    BY <1>1 DEF ReportFailure, Enabled
  <2>2. Same(CountedFailure(e), e) \/ Tripped(CountedFailure(e), e)
    BY <1>0, <2>1, CountedFields
  <2> QED
    BY <2>1, <2>2, SetOnly
<1>2. CASE ReportQuotaExhausted(c)
  <2> DEFINE f == DisabledFor([e EXCEPT !.failure_count = MAX_FAILURES_PER_CREDENTIAL],
                              "QuotaExceeded")
  <2>1. c \in Live /\ ~e.disabled /\ Set(c, f)
    BY <1>2 DEF ReportQuotaExhausted, Enabled
  <2>2. Tripped(f, e)
    BY <1>0, <2>1, DisabledFields DEF DisabledReason
  <2> HIDE DEF f
  <2> QED
    BY <2>1, <2>2, SetOnly
<1>3. CASE ReportRefreshFailure(c)
  <2> DEFINE f == [e EXCEPT !.refresh_failure_count = e.refresh_failure_count + 1]
             last == f.refresh_failure_count >= MAX_FAILURES_PER_CREDENTIAL
             h == IF last THEN DisabledFor(f, "TooManyRefreshFailures") ELSE f
  <2>1. c \in Live /\ ~e.disabled /\ Set(c, h)
    BY <1>3 DEF ReportRefreshFailure, Enabled
  <2>2. Same(f, e)
    BY <1>0, <2>1, FieldsSame
  <2>3. Tripped(DisabledFor(f, "TooManyRefreshFailures"), e)
    BY <1>0, <2>1, DisabledFields DEF DisabledReason
  <2>4. h \in {f, DisabledFor(f, "TooManyRefreshFailures")}
    OBVIOUS
  <2> HIDE DEF h, f
  <2> QED
    BY <2>1, <2>2, <2>3, <2>4, SetOnly
<1>4. CASE ReportRefreshTokenInvalid(c)
  <2>1. c \in Live /\ ~e.disabled /\ Set(c, DisabledFor(e, "InvalidRefreshToken"))
    BY <1>4 DEF ReportRefreshTokenInvalid, Enabled
  <2>2. Tripped(DisabledFor(e, "InvalidRefreshToken"), e)
    BY <1>0, <2>1, DisabledFields DEF DisabledReason
  <2> QED
    BY <2>1, <2>2, SetOnly
<1>5. CASE ReportAccountThrottled(c)
  <2> DEFINE f == [e EXCEPT !.throttled = TRUE]
  <2>1. c \in Live /\ Set(c, f)
    BY <1>5 DEF ReportAccountThrottled
  <2>2. Same(f, e)
    BY <1>0, <2>1, FieldsSame
  <2> HIDE DEF f
  <2> QED
    BY <2>1, <2>2, SetOnly
<1>6. ASSUME NEW r \in Rules, NEW m \in ModelArgs, NEW g \in GroupArgs,
             ReportCustomRuleHit(c, r, m, g)
      PROVE  /\ c \in Live /\ OnlyAt(c)
             /\ Same(entries'[c], entries[c]) \/ Tripped(entries'[c], entries[c])
  <2> DEFINE a == EffectiveAction(r, m, g)
  <2>1. c \in Live /\ ~e.disabled /\ Set(c, AfterRule(e, r, a))
    BY <1>6 DEF ReportCustomRuleHit, Enabled
  <2>2. a \in RuleAction
    BY PoolAssumption DEF EffectiveAction, ErrorRule, RuleAction
  <2>3. Same(CountedFailure(e), e) \/ Tripped(CountedFailure(e), e)
    BY <1>0, <2>1, CountedFields
  <2>4. \A reason \in {"CustomHealable", "CustomFinal"} : Tripped(DisabledFor(e, reason), e)
    BY <1>0, <2>1, DisabledFields DEF DisabledReason
  <2>5. Same(e, e) /\ Same([e EXCEPT !.throttled = TRUE], e)
    BY <1>0, <2>1, FieldsSame DEF Same, SameStatus
  <2> HIDE DEF a
  <2>6. Same(AfterRule(e, r, a), e) \/ Tripped(AfterRule(e, r, a), e)
    <3>1. CASE a = "disable"
      BY <2>4, <3>1 DEF AfterRule
    <3>2. CASE a = "cooldown"
      BY <2>5, <3>2 DEF AfterRule
    <3>3. CASE a = "countFailure"
      BY <2>3, <3>3 DEF AfterRule
    <3>4. CASE a = "abort"
      BY <2>5, <3>4 DEF AfterRule
    <3> QED
      BY <2>2, <3>1, <3>2, <3>3, <3>4 DEF RuleAction
  <2> QED
    BY <2>1, <2>6, SetOnly
<1> QED
  BY <1>1, <1>2, <1>3, <1>4, <1>5, <1>6

LEMMA SuccessEffect ==
    ASSUME PoolInv, NEW c \in Ids, NEW m, ReportSuccess(c, m)
    PROVE  /\ c \in Live /\ OnlyAt(c) /\ SameStatus(entries'[c], entries[c])
           /\ entries'[c].streak =
                  IF entries[c].streak.rounds > 0 /\ entries[c].streak.model = m
                  THEN NoStreak ELSE entries[c].streak
<1> DEFINE e == entries[c]
           f == Succeeded(e)
<1>1. c \in Live /\ e \in CredentialEntry /\ EntryOK(e)
  BY DEF ReportSuccess, PoolInv, EntriesInv
<1>2. f \in CredentialEntry
  BY <1>1, SucceededOK DEF EntryOK
<1>3. Same(f, e)
  <2>1. Calm(e) \in CredentialEntry
    BY <1>1, ChangeType
  <2>2. Same(Calm(e), e) /\ Same(f, Calm(e))
    BY <1>1, <2>1, FieldsSame DEF Succeeded
  <2> QED
    BY <2>2 DEF Same, SameStatus
<1>4. Set(c, IF f.streak.rounds > 0 /\ f.streak.model = m THEN ClearedStreak(f) ELSE f)
  BY DEF ReportSuccess
<1> HIDE DEF f
<1>5. /\ OnlyAt(c)
      /\ entries'[c] = IF f.streak.rounds > 0 /\ f.streak.model = m
                       THEN ClearedStreak(f) ELSE f
  BY <1>1, <1>4, SetOnly
<1> QED
  BY <1>1, <1>2, <1>3, <1>5, ReenabledFields DEF Same, SameStatus

LEMMA AcquireEffect ==
    ASSUME PoolInv, NEW c \in Ids, AcquireNext(c)
    PROVE  Live' = Live /\ \A d \in Live : Same(entries'[d], entries[d])
<1> DEFINE e == entries[c]
<1>0. c \in Live => e \in CredentialEntry
  BY DEF PoolInv, EntriesInv
<1>1. CASE BindCurrent(c)
  BY <1>1 DEF BindCurrent, Live, Same, SameStatus
<1>2. CASE RecordRequest(c)
  <2> DEFINE x == IF settings.rpm_limit = 0 THEN 0 ELSE e.rpm_used + 1
  <2>1. c \in Live /\ Set(c, [e EXCEPT !.rpm_used = x])
    BY <1>2 DEF RecordRequest
  <2>2. Same([e EXCEPT !.rpm_used = x], e)
    BY <1>0, <2>1, FieldsSame
  <2> QED
    BY <2>1, <2>2, SetOnly, ZenonT(30) DEF OnlyAt, Same, SameStatus
<1>3. ASSUME NEW cred \in Snapshots, NEW refreshed \in BOOLEAN, NEW counted \in BOOLEAN,
             TokenObtained(c, cred, refreshed, counted)
      PROVE  Live' = Live /\ \A d \in Live : Same(entries'[d], entries[d])
  <2> DEFINE x == IF refreshed THEN cred ELSE e.credentials
             y == IF counted THEN 0 ELSE e.refresh_failure_count
  <2>1. c \in Live /\ Set(c, [e EXCEPT !.credentials = x, !.refresh_failure_count = y])
    BY <1>3 DEF TokenObtained
  <2>2. Same([e EXCEPT !.credentials = x, !.refresh_failure_count = y], e)
    BY <1>0, <2>1, FieldsSame
  <2> QED
    BY <2>1, <2>2, SetOnly, ZenonT(30) DEF OnlyAt, Same, SameStatus
<1> QED
  BY <1>1, <1>2, <1>3 DEF AcquireNext

LEMMA HealEffect ==
    ASSUME PoolInv, NEW m \in ModelArgs, NEW g \in GroupArgs, TrySelfHeal(m, g)
    PROVE  /\ Live' = Live
           /\ \A d \in Live \ HealSet(m, g) : entries'[d] = entries[d]
           /\ \A d \in HealSet(m, g) :
                 /\ d \in Live /\ ~entries'[d].disabled
                 /\ entries'[d].disabled_reason = NoReason
                 /\ entries'[d].streak = Extended(entries[d].streak, m)
<1>1. /\ Live' = Live
      /\ \A d \in Live : entries'[d] = IF d \in HealSet(m, g) THEN Healed(entries[d], m)
                                                                ELSE entries[d]
  BY DEF TrySelfHeal, Live
<1>2. HealSet(m, g) \subseteq Live
  BY DEF HealSet
<1>3. ASSUME NEW d \in HealSet(m, g)
      PROVE  LET f == Healed(entries[d], m)
             IN  /\ ~f.disabled /\ f.disabled_reason = NoReason
                 /\ f.streak = Extended(entries[d].streak, m)
  BY <1>2 DEF PoolInv, EntriesInv, Healed, Reenabled, CredentialEntry
<1> QED
  BY <1>1, <1>2, <1>3

(* The reload of a rotated token. *)
LEMMA ReloadEffect ==
    ASSUME PoolInv, NEW c \in Ids, ReloadFromFile(c)
    PROVE  /\ c \in Live /\ OnlyAt(c)
           /\ ~entries'[c].disabled /\ entries'[c].streak = entries[c].streak
<1> DEFINE f == [entries[c] EXCEPT !.refresh_failure_count = 0]
<1>1. c \in Live /\ entries[c] \in CredentialEntry /\ Set(c, Reenabled(f))
  BY DEF ReloadFromFile, PoolInv, EntriesInv
<1>2. Reenabled(f).disabled = FALSE /\ Reenabled(f).streak = entries[c].streak
  BY <1>1 DEF Reenabled, CredentialEntry
<1> QED
  BY <1>1, <1>2, SetOnly

---------------------------------------------------------------------------
(* What the operator, time and a restart do.                               *)

(* No status and no streak changes. *)
AllSame == Live' = Live /\ \A d \in Live : Same(entries'[d], entries[d])

LEMMA SetSame ==
    ASSUME PoolInv, NEW c \in Live, NEW e, Set(c, e), Same(e, entries[c])
    PROVE  AllSame
BY SetOnly DEF AllSame, OnlyAt, Same, SameStatus

LEMMA ReleaseEffect ==
    ASSUME PoolInv, NEW c \in Ids, SetDisabled(c, FALSE) \/ ResetAndEnable(c)
    PROVE  /\ c \in Live /\ OnlyAt(c) /\ Save({c})
           /\ ~entries'[c].disabled /\ entries'[c].streak = NoStreak
<1> DEFINE e == entries[c]
           f == ClearedStreak(Reenabled(Calm(e)))
<1>1. c \in Live /\ e \in CredentialEntry /\ Set(c, f) /\ Save({c})
  BY DEF SetDisabled, ResetAndEnable, PoolInv, EntriesInv
<1>2. Calm(e) \in CredentialEntry /\ Reenabled(Calm(e)) \in CredentialEntry
  BY <1>1, ChangeType
<1>3. f.disabled = FALSE /\ f.streak = NoStreak
  BY <1>2, ReenabledFields
<1> HIDE DEF f
<1> QED
  BY <1>1, <1>3, SetOnly

(* A hold by the operator, or the quota found spent. *)
LEMMA HoldEffect ==
    ASSUME PoolInv, NEW c \in Ids, SetDisabled(c, TRUE) \/ DisableQuotaExceeded(c)
    PROVE  /\ c \in Live /\ OnlyAt(c) /\ Save({c})
           /\ entries'[c].streak = entries[c].streak
<1>1. c \in Live /\ entries[c] \in CredentialEntry /\ Save({c})
  BY DEF SetDisabled, DisableQuotaExceeded, PoolInv, EntriesInv
<1>2. ASSUME NEW reason, Set(c, DisabledFor(entries[c], reason))
      PROVE  OnlyAt(c) /\ entries'[c].streak = entries[c].streak
  <2>1. DisabledFor(entries[c], reason).streak = entries[c].streak
    BY <1>1 DEF DisabledFor, CredentialEntry
  <2> QED
    BY <1>1, <1>2, <2>1, SetOnly
<1> QED
  BY <1>1, <1>2 DEF SetDisabled, DisableQuotaExceeded

LEMMA EditEffect ==
    ASSUME PoolInv, NEW c \in Ids,
           \/ \E b \in OpusLevels : UpdateSubscription(c, b)
           \/ ClearThrottle(c) \/ UpdateRefreshToken(c)
           \/ \E p \in Priorities : SetPriority(c, p)
           \/ \E gs \in SUBSET Groups : UpdateCredential(c, gs)
    PROVE  AllSame
<1>1. c \in Live /\ entries[c] \in CredentialEntry
  BY DEF UpdateSubscription, ClearThrottle, UpdateRefreshToken, SetPriority, UpdateCredential,
     PoolInv, EntriesInv
<1>2. \A x : /\ Same([entries[c] EXCEPT !.credentials.opus = x], entries[c])
             /\ Same([entries[c] EXCEPT !.throttled = x], entries[c])
             /\ Same([entries[c] EXCEPT !.refresh_failure_count = x], entries[c])
             /\ Same([entries[c] EXCEPT !.credentials.priority = x], entries[c])
             /\ Same([entries[c] EXCEPT !.credentials.groups = x], entries[c])
  BY <1>1, FieldsSame
<1>3. \/ \E x : Set(c, [entries[c] EXCEPT !.credentials.opus = x])
      \/ \E x : Set(c, [entries[c] EXCEPT !.throttled = x])
      \/ \E x : Set(c, [entries[c] EXCEPT !.refresh_failure_count = x])
      \/ \E x : Set(c, [entries[c] EXCEPT !.credentials.priority = x])
      \/ \E x : Set(c, [entries[c] EXCEPT !.credentials.groups = x])
  BY DEF UpdateSubscription, ClearThrottle, UpdateRefreshToken, SetPriority, UpdateCredential
<1> QED
  BY <1>1, <1>2, <1>3, SetSame

LEMMA BulkEffect ==
    ASSUME PoolInv,
           \/ \E S : ResetSuccessCount(S)
           \/ \E g, h \in Groups : RenameGroup(g, h)
           \/ \E g \in Groups : RemoveGroup(g)
           \/ SwitchToNext
           \/ \E mode \in Modes : SetLoadBalancingMode(mode)
           \/ \E h \in HealConfigs : SetSelfHealConfig(h)
           \/ \E n \in RpmLimits : SetAccountRpmConfig(n)
    PROVE  AllSame
<1>0. \A d \in Live : entries[d] \in CredentialEntry
  BY DEF PoolInv, EntriesInv
<1>1. ASSUME NEW S, ResetSuccessCount(S)
      PROVE  AllSame
  <2>1. \A d \in Live : Same([entries[d] EXCEPT !.success_count = 0], entries[d])
    BY <1>0, FieldsSame
  <2> QED
    BY <1>1, <2>1 DEF ResetSuccessCount, AllSame, Live, Same, SameStatus
<1>2. ASSUME NEW old, NEW new, entries' = Regroup(entries, old, new)
      PROVE  AllSame
  <2>1. \A d \in Live : Same(Regroup(entries, old, new)[d], entries[d])
    BY <1>0, FieldsSame DEF Regroup, Live, Same, SameStatus
  <2> QED
    BY <1>2, <2>1 DEF AllSame, Live, Regroup
<1>3. ASSUME UNCHANGED entries
      PROVE  AllSame
  BY <1>3 DEF AllSame, Live, Same, SameStatus
<1> QED
  BY <1>1, <1>2, <1>3 DEF RenameGroup, RemoveGroup, SwitchToNext, SetLoadBalancingMode,
     SetSelfHealConfig, SetAccountRpmConfig, Configure

LEMMA DeleteEffect ==
    ASSUME PoolInv, NEW c \in Ids, DeleteCredential(c)
    PROVE  /\ c \in Live /\ Live' = Live \ {c} /\ Save({c})
           /\ \A d \in Live' : entries'[d] = entries[d]
BY DEF DeleteCredential, Live

LEMMA AddEffect ==
    ASSUME PoolInv, IdsNeverReused, NEW cred \in NewCredentials, NEW duplicate \in BOOLEAN,
           AddCredential(cred, duplicate)
    PROVE  /\ next_id \in Ids \ Live
           /\ \A d \in Live : d \in Live' /\ entries'[d] = entries[d]
           /\ \/ Live' = Live /\ UNCHANGED <<entries, storage>>
              \/ /\ Live' = Live \cup {next_id} /\ Save({next_id})
                 /\ ~entries'[next_id].disabled /\ entries'[next_id].streak = NoStreak
<1>1. next_id \in Ids \ Live
  <2>1. next_id \in Ids /\ \A c \in Live : c < next_id
    BY DEF AddCredential, IdsNeverReused
  <2> QED
    BY <2>1, PoolAssumption
<1>2. CASE duplicate
  BY <1>1, <1>2 DEF AddCredential, Live
<1>3. CASE ~duplicate
  <2>1. /\ entries' = [c \in Live \cup {next_id} |->
                          IF c = next_id THEN FreshEntry(cred) ELSE entries[c]]
        /\ Save({next_id})
    BY <1>3 DEF AddCredential
  <2>2. /\ Live' = Live \cup {next_id} /\ entries'[next_id] = FreshEntry(cred)
        /\ \A d \in Live : entries'[d] = entries[d]
    BY <1>1, <2>1 DEF Live
  <2>3. FreshEntry(cred).disabled = FALSE /\ FreshEntry(cred).streak = NoStreak
    BY DEF FreshEntry
  <2> QED
    BY <1>1, <2>1, <2>2, <2>3
<1> QED
  BY <1>2, <1>3

LEMMA TimeEffect ==
    ASSUME PoolInv, NEW c \in Ids, ThrottleExpire(c) \/ RpmSlide(c)
    PROVE  AllSame
<1>1. c \in Live /\ entries[c] \in CredentialEntry
  BY DEF ThrottleExpire, RpmSlide, PoolInv, EntriesInv
<1>2. \A x : /\ Same([entries[c] EXCEPT !.throttled = x], entries[c])
             /\ Same([entries[c] EXCEPT !.rpm_used = x], entries[c])
  BY <1>1, FieldsSame
<1>3. \/ \E x : Set(c, [entries[c] EXCEPT !.throttled = x])
      \/ \E x : Set(c, [entries[c] EXCEPT !.rpm_used = x])
  BY DEF ThrottleExpire, RpmSlide
<1> QED
  BY <1>1, <1>2, <1>3, SetSame

LEMMA AgedFields ==
    ASSUME NEW e \in CredentialEntry
    PROVE  /\ SameStatus(Aged(e), e)
           /\ Aged(e).streak.rounds = e.streak.rounds
           /\ Aged(e).streak.age = Older(e.streak.age)
           /\ Aged(e).streak.model = e.streak.model
<1>1. \A st \in Streak : LET old == [st EXCEPT !.age = Older(@)]
                         IN  /\ old.rounds = st.rounds /\ old.model = st.model
                             /\ old.age = Older(st.age)
  BY DEF Streak
<1>2. SameStatus(Aged(e), e) /\ Aged(e).streak = [e.streak EXCEPT !.age = Older(@)]
  BY DEF Aged, SameStatus, CredentialEntry
<1>3. e.streak \in Streak
  BY DEF CredentialEntry
<1> QED
  BY <1>1, <1>2, <1>3

LEMMA TickEffect ==
    ASSUME PoolInv, Tick
    PROVE  /\ Live' = Live
           /\ \A d \in Live :
                 /\ SameStatus(entries'[d], entries[d])
                 /\ entries'[d].streak.rounds = entries[d].streak.rounds
                 /\ entries'[d].streak.age = Older(entries[d].streak.age)
                 /\ entries'[d].streak.model = entries[d].streak.model
<1>1. Live' = Live /\ \A d \in Live : entries'[d] = Aged(entries[d])
  BY DEF Tick, Live
<1> QED
  BY <1>1, AgedFields DEF PoolInv, EntriesInv

LEMMA RestartEffect ==
    ASSUME Restart
    PROVE  /\ Live' = DOMAIN disk /\ saves' = NothingOwed
           /\ \E uses : \A d \in DOMAIN disk : entries'[d] = Loaded(disk[d], uses[d])
           /\ \A d \in DOMAIN disk : entries'[d].streak = disk[d].streak
           /\ disk' = disk \/ disk' = Image(entries')
<1>1. PICK uses : Boot(disk, uses)
  BY DEF Restart
<1>2. /\ Live' = DOMAIN disk
      /\ \A d \in DOMAIN disk : entries'[d] = Loaded(disk[d], uses[d])
  BY <1>1 DEF Boot, Live
<1>3. \A d \in DOMAIN disk : entries'[d].streak = disk[d].streak
  <2>1. \A p, n : Loaded(p, n).streak = p.streak
    BY DEF Loaded
  <2> QED
    BY <1>2, <2>1
<1>4. disk' = disk \/ disk' = Image(entries')
  BY <1>1 DEF Boot
<1> QED
  BY <1>2, <1>3, <1>4 DEF Restart

---------------------------------------------------------------------------
(* What a step leaves to be saved.                                         *)

(* The step saved, or has yet to save, what it changed of S, or left the   *)
(* file alone.                                                             *)
Saves(S) == UNCHANGED storage \/ Save(S)

LEMMA SavesUnsaved ==
    ASSUME PoolInv, NEW S, Saves(S)
    PROVE  /\ saves'.unsaved \in {{}, saves.unsaved, saves.unsaved \cup S}
           /\ \/ disk' = Image(entries') /\ saves'.unsaved = {}
              \/ disk' = disk /\ saves'.unsaved = saves.unsaved
              \/ disk' = disk /\ saves'.unsaved = saves.unsaved \cup S
<1>1. CASE UNCHANGED storage
  BY <1>1 DEF storage
<1>2. CASE Write
  BY <1>2 DEF Write, PoolInv, Debts
<1>3. CASE SaveLater(S)
  BY <1>3 DEF SaveLater
<1> QED
  BY <1>1, <1>2, <1>3 DEF Saves, Save

LEMMA RequestSaves ==
    ASSUME NEW c, ReportNext(c) \/ AcquireNext(c)
    PROVE  Saves({c})
<1>1. ASSUME ReportNext(c)
      PROVE  Saves({c})
  BY <1>1 DEF ReportNext, ReportSuccess, ReportFailure, ReportQuotaExhausted,
     ReportRefreshFailure, ReportRefreshTokenInvalid, ReportAccountThrottled,
     ReportCustomRuleHit, Saves
<1>2. ASSUME AcquireNext(c)
      PROVE  Saves({c})
  BY <1>2 DEF AcquireNext, BindCurrent, RecordRequest, TokenObtained, Saves
<1> QED
  BY <1>1, <1>2

LEMMA EditSaves ==
    ASSUME NEW c \in Ids,
           \/ SetDisabled(c, TRUE) \/ DisableQuotaExceeded(c)
           \/ \E b \in OpusLevels : UpdateSubscription(c, b)
           \/ ClearThrottle(c) \/ UpdateRefreshToken(c)
           \/ \E p \in Priorities : SetPriority(c, p)
           \/ \E gs \in SUBSET Groups : UpdateCredential(c, gs)
    PROVE  Saves({c})
BY DEF SetDisabled, DisableQuotaExceeded, UpdateSubscription, ClearThrottle, UpdateRefreshToken,
   SetPriority, UpdateCredential, Saves

LEMMA BulkSaves ==
    ASSUME PoolInv,
           \/ \E S : ResetSuccessCount(S)
           \/ \E g, h \in Groups : RenameGroup(g, h)
           \/ \E g \in Groups : RemoveGroup(g)
           \/ SwitchToNext
           \/ \E mode \in Modes : SetLoadBalancingMode(mode)
           \/ \E h \in HealConfigs : SetSelfHealConfig(h)
           \/ \E n \in RpmLimits : SetAccountRpmConfig(n)
    PROVE  \E S \in SUBSET Ids : Saves(S)
<1>1. \A g : InGroup(g) \in SUBSET Ids
  BY DEF InGroup, PoolInv, EntriesInv
<1>2. CASE (\E g, h \in Groups : RenameGroup(g, h)) \/ (\E g \in Groups : RemoveGroup(g))
  BY <1>1, <1>2 DEF RenameGroup, RemoveGroup, Saves
<1>3. CASE UNCHANGED storage
  BY <1>3 DEF Saves
<1> QED
  BY <1>2, <1>3 DEF ResetSuccessCount, SwitchToNext, SetLoadBalancingMode,
     SetSelfHealConfig, SetAccountRpmConfig, Configure

---------------------------------------------------------------------------
(* The streak the observer counts.                                         *)

(* A step the observer has nothing to remember of, and one that ends the   *)
(* fault line of c.                                                        *)
LEMMA RememberStep ==
    ASSUME StreakObserved, Remember, Live' \subseteq Live,
           \A d \in Live' : entries'[d].streak = entries[d].streak
    PROVE  StreakObserved'
BY DEF StreakObserved, Remember

LEMMA ForgetStep ==
    ASSUME HistoryTypeOK, StreakObserved, NEW c \in Ids, Forget(c), Live \subseteq Ids,
           \A d \in Live' \ {c} : d \in Live /\ entries'[d].streak = entries[d].streak,
           c \in Live' => entries'[c].streak = NoStreak
    PROVE  StreakObserved'
<1>1. ASSUME NEW d \in Live'
      PROVE  /\ heals'[d] = entries'[d].streak.rounds
             /\ since'[d] = entries'[d].streak.age
             /\ healed_for'[d] = entries'[d].streak.model
  <2>1. CASE d = c
    BY <2>1 DEF Forget, HistoryTypeOK, NoStreak
  <2>2. CASE d # c
    BY <2>2 DEF Forget, HistoryTypeOK, StreakObserved
  <2> QED
    BY <2>1, <2>2
<1> QED
  BY <1>1 DEF StreakObserved

LEMMA AllSameStep ==
    ASSUME StreakObserved, Remember, AllSame
    PROVE  StreakObserved'
BY RememberStep DEF AllSame, Same

LEMMA RequestObserved ==
    ASSUME PoolInv, HistoryTypeOK, StreakObserved, RequestH
    PROVE  StreakObserved'
<1>0. Live \subseteq Ids
  BY DEF PoolInv, EntriesInv
<1>1. ASSUME NEW c \in Ids, NEW m \in ModelArgs, Success(c, m)
      PROVE  StreakObserved'
  <2>1. /\ c \in Live /\ OnlyAt(c)
        /\ entries'[c].streak =
              IF entries[c].streak.rounds > 0 /\ entries[c].streak.model = m
              THEN NoStreak ELSE entries[c].streak
    BY <1>1, SuccessEffect DEF Success
  <2>2. heals[c] = entries[c].streak.rounds /\ healed_for[c] = entries[c].streak.model
    BY <2>1 DEF StreakObserved
  <2>3. CASE heals[c] > 0 /\ healed_for[c] = m
    BY <1>0, <1>1, <2>1, <2>2, <2>3, ForgetStep DEF Success, OnlyAt
  <2>4. CASE ~(heals[c] > 0 /\ healed_for[c] = m)
    BY <1>1, <2>1, <2>2, <2>4, RememberStep DEF Success, OnlyAt
  <2> QED
    BY <2>3, <2>4
<1>2. ASSUME NEW c \in Ids, OtherRequest(c)
      PROVE  StreakObserved'
  <2>1. CASE AcquireNext(c)
    BY <1>2, <2>1, AcquireEffect, RememberStep DEF OtherRequest, Same
  <2>2. CASE ~AcquireNext(c)
    <3>1. OnlyAt(c) /\ entries'[c].streak = entries[c].streak
      BY <1>2, <2>2, ReportEffect DEF OtherRequest, Same, Tripped
    <3> QED
      BY <1>2, <3>1, RememberStep DEF OtherRequest, OnlyAt
  <2> QED
    BY <2>1, <2>2
<1>3. ASSUME NEW m \in ModelArgs, NEW g \in GroupArgs, Heal(m, g)
      PROVE  StreakObserved'
  <2>1. /\ Live' = Live
        /\ \A d \in Live \ HealSet(m, g) : entries'[d] = entries[d]
        /\ \A d \in HealSet(m, g) : entries'[d].streak = Extended(entries[d].streak, m)
    BY <1>3, HealEffect DEF Heal
  <2>2. ASSUME NEW d \in Live
        PROVE  /\ heals'[d] = entries'[d].streak.rounds
               /\ since'[d] = entries'[d].streak.age
               /\ healed_for'[d] = entries'[d].streak.model
    <3>1. CASE d \in HealSet(m, g)
      <4>1. /\ heals'[d] = OneMore(heals[d], U32_MAX)
            /\ since'[d] = 0 /\ healed_for'[d] = m
        BY <1>0, <1>3, <3>1 DEF Heal
      <4>2. /\ entries'[d].streak.rounds = OneMore(entries[d].streak.rounds, U32_MAX)
            /\ entries'[d].streak.age = 0 /\ entries'[d].streak.model = m
        <5>1. \A st : /\ Extended(st, m).rounds = OneMore(st.rounds, U32_MAX)
                      /\ Extended(st, m).age = 0 /\ Extended(st, m).model = m
          BY DEF Extended
        <5> QED
          BY <2>1, <3>1, <5>1
      <4>3. heals[d] = entries[d].streak.rounds
        BY DEF StreakObserved
      <4> QED
        BY <4>1, <4>2, <4>3
    <3>2. CASE d \notin HealSet(m, g)
      BY <1>0, <1>3, <2>1, <3>2 DEF Heal, StreakObserved
    <3> QED
      BY <3>1, <3>2
  <2> QED
    BY <2>1, <2>2 DEF StreakObserved
<1> QED
  BY <1>1, <1>2, <1>3 DEF RequestH

LEMMA OperatorObserved ==
    ASSUME PoolInv, IdsNeverReused, HistoryTypeOK, StreakObserved, OperatorH
    PROVE  StreakObserved'
<1>0. Live \subseteq Ids
  BY DEF PoolInv, EntriesInv
<1>1. ASSUME NEW c \in Ids, Release(c)
      PROVE  StreakObserved'
  BY <1>0, <1>1, ReleaseEffect, ForgetStep DEF Release, OnlyAt
<1>4. ASSUME NEW c \in Ids, Remove(c)
      PROVE  StreakObserved'
  BY <1>0, <1>4, DeleteEffect, ForgetStep DEF Remove
<1>2. CASE Import
  <2>1. PICK cred \in NewCredentials, duplicate \in BOOLEAN :
          AddCredential(cred, duplicate) /\ Forget(next_id)
    BY <1>2 DEF Import
  <2>2. /\ next_id \in Ids \ Live
        /\ \A d \in Live : d \in Live' /\ entries'[d] = entries[d]
        /\ \/ Live' = Live
           \/ Live' = Live \cup {next_id} /\ entries'[next_id].streak = NoStreak
    BY <2>1, AddEffect
  <2> QED
    BY <1>0, <2>1, <2>2, ForgetStep
<1>3. CASE OtherOperator
  <2>1. ASSUME NEW c \in Ids, SetDisabled(c, TRUE) \/ DisableQuotaExceeded(c)
        PROVE  StreakObserved'
    BY <1>3, <2>1, HoldEffect, RememberStep DEF OtherOperator, OnlyAt
  <2>2. ASSUME AllSame
        PROVE  StreakObserved'
    BY <1>3, <2>2, AllSameStep DEF OtherOperator
  <2> QED
    BY <1>3, <2>1, <2>2, EditEffect, BulkEffect DEF OtherOperator
<1> QED
  BY <1>1, <1>2, <1>3, <1>4 DEF OperatorH

LEMMA ClockObserved ==
    ASSUME PoolInv, HistoryTypeOK, StreakObserved, ClockH
    PROVE  StreakObserved'
<1>0. Live \subseteq Ids
  BY DEF PoolInv, EntriesInv
<1>1. ASSUME Tick, since' = [c \in Ids |-> Older(since[c])], UNCHANGED <<heals, healed_for>>
      PROVE  StreakObserved'
  BY <1>0, <1>1, TickEffect DEF StreakObserved
<1>2. ASSUME NEW c \in Ids, ThrottleExpire(c) \/ RpmSlide(c), Remember
      PROVE  StreakObserved'
  BY <1>2, TimeEffect, AllSameStep
<1> QED
  BY <1>1, <1>2 DEF ClockH

(* The three the observer remembers of c, as a streak. *)
Now(c) == [rounds |-> heals[c], age |-> since[c], model |-> healed_for[c]]

NowTyped ==
    /\ heals \in [Ids -> Nat] /\ since \in [Ids -> {Never} \cup Nat]
    /\ healed_for \in [Ids -> ModelArgs]

LEMMA KeepType ==
    ASSUME NowTyped', NEW former \in [Ids -> Streak], Keep(former)
    PROVE  kept' \in [Ids -> Streak]
<1>1. \A c \in Ids : Now(c)' \in Streak
  BY DEF NowTyped, Now, Streak
<1> QED
  BY <1>1 DEF Keep, Now

LEMMA HistoryType ==
    ASSUME HistoryTypeOK, PoolInv, [NextH]_vars
    PROVE  HistoryTypeOK'
<1>0. HistoryTypeOK <=> /\ actor \in {"request", "rotation", "operator", "clock", "restart"}
                        /\ NowTyped /\ kept \in [Ids -> Streak]
  BY DEF HistoryTypeOK, NowTyped
<1>1. \A n \in Nat : OneMore(n, U32_MAX) \in Nat
  BY DEF OneMore
<1>2. \A age \in {Never} \cup Nat : Older(age) \in {Never} \cup Nat
  BY DEF Older, OneMore
<1>3. ASSUME NEW c, Forget(c)
      PROVE  NowTyped'
  BY <1>0, <1>3 DEF Forget, NowTyped, ModelArgs
<1>4. ASSUME Remember
      PROVE  NowTyped'
  BY <1>0, <1>4 DEF Remember, NowTyped
<1>5. ASSUME NEW m \in ModelArgs, NEW g, Heal(m, g)
      PROVE  NowTyped'
  BY <1>0, <1>1, <1>5 DEF Heal, NowTyped
<1>6. ASSUME NowTyped', Keep(kept),
             actor' \in {"request", "rotation", "operator", "clock", "restart"}
      PROVE  HistoryTypeOK'
  BY <1>0, <1>6, KeepType DEF HistoryTypeOK, NowTyped
<1>7. CASE RequestH
  <2>1. NowTyped'
    BY <1>3, <1>4, <1>5, <1>7 DEF RequestH, Success, OtherRequest
  <2> QED
    BY <1>6, <1>7, <2>1 DEF RequestH
<1>8. CASE OperatorH
  <2>1. NowTyped'
    BY <1>3, <1>4, <1>8 DEF OperatorH, Release, Remove, Import, OtherOperator
  <2> QED
    BY <1>6, <1>8, <2>1 DEF OperatorH
<1>9. CASE ClockH
  <2>1. ASSUME since' = [c \in Ids |-> Older(since[c])], UNCHANGED <<heals, healed_for>>,
               Keep([c \in Ids |-> [kept[c] EXCEPT !.age = Older(@)]])
        PROVE  NowTyped' /\ kept' \in [Ids -> Streak]
    <3>1. NowTyped'
      BY <1>0, <1>2, <2>1 DEF NowTyped
    <3>2. \A st \in Streak : [st EXCEPT !.age = Older(@)] \in Streak
      BY <1>2 DEF Streak
    <3>3. [c \in Ids |-> [kept[c] EXCEPT !.age = Older(@)]] \in [Ids -> Streak]
      BY <1>0, <3>2
    <3> QED
      BY <2>1, <3>1, <3>3, KeepType
  <2>2. NowTyped' /\ kept' \in [Ids -> Streak]
    BY <1>0, <1>4, <1>9, <2>1, KeepType DEF ClockH
  <2> QED
    BY <1>9, <2>2 DEF ClockH, HistoryTypeOK, NowTyped
<1>10. CASE RotationH \/ SaveH
  BY <1>4, <1>6, <1>10 DEF RotationH, SaveH
<1>11. CASE RestartH
  <2>1. \A c \in Ids : /\ kept[c].rounds \in Nat /\ kept[c].age \in {Never} \cup Nat
                       /\ kept[c].model \in ModelArgs
    BY <1>0 DEF Streak
  <2> QED
    BY <1>0, <1>11, <2>1 DEF RestartH, HistoryTypeOK
<1>12. CASE UNCHANGED vars
  BY <1>12 DEF vars, history, HistoryTypeOK
<1> QED
  BY <1>7, <1>8, <1>9, <1>10, <1>11, <1>12 DEF NextH

(* The observer keeps of a saved credential what he remembers now, and of  *)
(* every credential in the file what the file says.                        *)
KeptNow == \A c \in Ids \ saves.unsaved : kept[c] = Now(c)
KeptFile == \A c \in DOMAIN disk : disk[c].streak = kept[c]
StreakKept == KeptNow /\ KeptFile

(* A streak is what it holds. *)
LEMMA StreakFields ==
    ASSUME NEW st \in Streak, NEW t \in Streak,
           st.rounds = t.rounds, st.age = t.age, st.model = t.model
    PROVE  st = t
BY DEF Streak

LEMMA ObservedNow ==
    ASSUME PoolInv, HistoryTypeOK, StreakObserved, NEW c \in Live
    PROVE  entries[c].streak = Now(c)
<1>1. c \in Ids /\ entries[c].streak \in Streak /\ Now(c) \in Streak
  BY DEF PoolInv, EntriesInv, CredentialEntry, HistoryTypeOK, Now, Streak
<1>2. /\ Now(c).rounds = entries[c].streak.rounds
      /\ Now(c).age = entries[c].streak.age
      /\ Now(c).model = entries[c].streak.model
  BY DEF Now, StreakObserved
<1> QED
  BY <1>1, <1>2, StreakFields

(* The file replaced by an image of the entries, all of them kept. *)
LEMMA KeptByWrite ==
    ASSUME PoolInv', HistoryTypeOK', StreakObserved', NEW former, Keep(former),
           disk' = Image(entries'), saves'.unsaved = {}
    PROVE  StreakKept'
<1>1. \A c \in Ids : kept'[c] = Now(c)'
  BY DEF Keep, Now
<1>2. DOMAIN disk' = Live' /\ Live' \subseteq Ids
      /\ \A c \in Live' : disk'[c].streak = entries'[c].streak
  BY DEF Image, Saved, Live, PoolInv, EntriesInv
<1>3. \A c \in Live' : entries'[c].streak = Now(c)'
  <2> SUFFICES ASSUME NEW c \in Live'
               PROVE  entries'[c].streak = Now(c)'
    OBVIOUS
  <2>1. c \in Ids /\ entries'[c].streak \in Streak /\ Now(c)' \in Streak
    BY <1>2 DEF PoolInv, EntriesInv, CredentialEntry, HistoryTypeOK, Now, Streak, Live
  <2>2. /\ Now(c)'.rounds = entries'[c].streak.rounds
        /\ Now(c)'.age = entries'[c].streak.age
        /\ Now(c)'.model = entries'[c].streak.model
    BY DEF Now, StreakObserved
  <2> QED
    BY <2>1, <2>2, StreakFields
<1> QED
  BY <1>1, <1>2, <1>3 DEF StreakKept, KeptNow, KeptFile, Now

(* The file left as it is, and so what is kept of what it does not show.   *)
LEMMA KeptByWaiting ==
    ASSUME PoolInv, StreakDurable, StreakKept, Keep(kept), disk' = disk,
           saves.unsaved \subseteq saves'.unsaved,
           \A c \in Live \ saves'.unsaved : Now(c)' = Now(c)
    PROVE  StreakKept'
<1>1. \A c \in Ids : kept'[c] = IF c \in saves'.unsaved THEN kept[c] ELSE Now(c)'
  BY DEF Keep, Now
<1>2. ASSUME NEW c \in DOMAIN disk
      PROVE  c \in Ids /\ disk[c].streak = kept'[c]
  <2>1. c \in Ids /\ disk[c].streak = kept[c]
    BY DEF PoolInv, IsFile, StreakKept, KeptFile
  <2>2. CASE c \in saves'.unsaved
    BY <1>1, <2>1, <2>2
  <2>3. CASE c \notin saves'.unsaved
    <3>1. c \in Live /\ kept[c] = Now(c)
      BY <2>1, <2>3 DEF StreakDurable, StreakKept, KeptNow
    <3> QED
      BY <1>1, <2>1, <2>3, <3>1
  <2> QED
    BY <2>2, <2>3
<1> QED
  BY <1>1, <1>2 DEF StreakKept, KeptNow, KeptFile, Now

LEMMA KeptBySaves ==
    ASSUME PoolInv, StreakDurable, StreakKept, PoolInv', HistoryTypeOK', StreakObserved',
           Keep(kept), NEW S, Saves(S), \A c \in Live \ saves'.unsaved : Now(c)' = Now(c)
    PROVE  StreakKept'
<1>1. \/ disk' = Image(entries') /\ saves'.unsaved = {}
      \/ disk' = disk /\ saves.unsaved \subseteq saves'.unsaved
  BY SavesUnsaved
<1> QED
  BY <1>1, KeptByWrite, KeptByWaiting

LEMMA RememberNow ==
    ASSUME Remember
    PROVE  \A c : Now(c)' = Now(c)
BY DEF Remember, Now

LEMMA ForgetNow ==
    ASSUME NEW c, Forget(c)
    PROVE  \A d \in Ids \ {c} : HistoryTypeOK => Now(d)' = Now(d)
BY DEF Forget, Now, HistoryTypeOK

(* A saving step that the observer remembers nothing of, or that ends the  *)
(* fault line of a credential it has saved.                                *)
LEMMA KeptByStep ==
    ASSUME PoolInv, StreakDurable, HistoryTypeOK, StreakKept,
           PoolInv', HistoryTypeOK', StreakObserved', Keep(kept),
           \/ Remember /\ \E S : Saves(S)
           \/ \E c \in Ids : Forget(c) /\ (Save({c}) \/ (c \notin Live /\ UNCHANGED storage))
    PROVE  StreakKept'
<1>0. Live \subseteq Ids
  BY DEF PoolInv, EntriesInv
<1>1. ASSUME Remember, NEW S, Saves(S)
      PROVE  StreakKept'
  BY <1>1, RememberNow, KeptBySaves
<1>2. ASSUME NEW c \in Ids, Forget(c), Save({c})
      PROVE  StreakKept'
  <2>1. Saves({c})
    BY <1>2 DEF Saves
  <2>2. (saves'.unsaved = {} /\ disk' = Image(entries')) \/ c \in saves'.unsaved
    BY <1>2 DEF Save, Write, SaveLater, PoolInv, Debts
  <2>3. CASE c \in saves'.unsaved
    BY <1>0, <1>2, <2>1, <2>3, ForgetNow, KeptBySaves
  <2> QED
    BY <2>2, <2>3, KeptByWrite
<1>3. ASSUME NEW c \in Ids, Forget(c), c \notin Live, UNCHANGED storage
      PROVE  StreakKept'
  <2>1. Saves({c})
    BY <1>3 DEF Saves
  <2> QED
    BY <1>0, <1>3, <2>1, ForgetNow, KeptBySaves
<1> QED
  BY <1>1, <1>2, <1>3

LEMMA RequestKept ==
    ASSUME PoolInv, StreakDurable, HistoryTypeOK, StreakObserved, StreakKept,
           PoolInv', HistoryTypeOK', StreakObserved', RequestH
    PROVE  StreakKept'
<1>0. Keep(kept) /\ Live \subseteq Ids
  BY DEF RequestH, PoolInv, EntriesInv
<1>1. ASSUME NEW c \in Ids, NEW m \in ModelArgs, Success(c, m)
      PROVE  StreakKept'
  <2>1. c \in Live /\ ReportSuccess(c, m)
    BY <1>1 DEF Success, ReportSuccess
  <2>2. heals[c] = entries[c].streak.rounds /\ healed_for[c] = entries[c].streak.model
    BY <2>1 DEF StreakObserved
  <2>3. CASE heals[c] > 0 /\ healed_for[c] = m
    <3>1. Succeeded(entries[c]).streak = entries[c].streak
      BY <2>1 DEF Succeeded, Calm, PoolInv, EntriesInv, CredentialEntry
    <3>2. Save({c})
      BY <2>1, <2>2, <2>3, <3>1 DEF ReportSuccess
    <3> QED
      BY <1>0, <1>1, <2>3, <3>2, KeptByStep DEF Success
  <2>4. CASE ~(heals[c] > 0 /\ healed_for[c] = m)
    <3>1. Saves({c})
      BY <2>1 DEF ReportSuccess, Saves
    <3> QED
      BY <1>0, <1>1, <2>4, <3>1, KeptByStep DEF Success
  <2> QED
    BY <2>3, <2>4
<1>2. ASSUME NEW c \in Ids, OtherRequest(c)
      PROVE  StreakKept'
  <2>1. ReportNext(c) \/ AcquireNext(c)
    BY <1>2 DEF OtherRequest, ReportNext
  <2>2. Saves({c})
    BY <2>1, RequestSaves
  <2> QED
    BY <1>0, <1>2, <2>2, KeptByStep DEF OtherRequest
<1>3. ASSUME NEW m \in ModelArgs, NEW g \in GroupArgs, Heal(m, g)
      PROVE  StreakKept'
  <2> DEFINE S == HealSet(m, g)
  <2>1. Saves(S) /\ ((saves'.unsaved = {} /\ disk' = Image(entries')) \/ S \subseteq saves'.unsaved)
    BY <1>3 DEF Heal, TrySelfHeal, Saves, Save, Write, SaveLater, PoolInv, Debts
  <2>2. \A c \in Ids \ S : Now(c)' = Now(c)
    BY <1>3 DEF Heal, Now
  <2> HIDE DEF S
  <2>3. CASE S \subseteq saves'.unsaved
    BY <1>0, <2>1, <2>2, <2>3, KeptBySaves
  <2> QED
    BY <1>0, <2>1, <2>3, KeptByWrite
<1> QED
  BY <1>1, <1>2, <1>3 DEF RequestH

LEMMA OperatorKept ==
    ASSUME PoolInv, StreakDurable, IdsNeverReused, HistoryTypeOK, StreakKept,
           PoolInv', HistoryTypeOK', StreakObserved', OperatorH
    PROVE  StreakKept'
<1>0. Keep(kept)
  BY DEF OperatorH
<1>1. ASSUME NEW c \in Ids, Release(c)
      PROVE  StreakKept'
  BY <1>0, <1>1, ReleaseEffect, KeptByStep DEF Release
<1>2. ASSUME NEW c \in Ids, Remove(c)
      PROVE  StreakKept'
  BY <1>0, <1>2, DeleteEffect, KeptByStep DEF Remove
<1>3. CASE Import
  <2>1. PICK cred \in NewCredentials, duplicate \in BOOLEAN :
          AddCredential(cred, duplicate) /\ Forget(next_id)
    BY <1>3 DEF Import
  <2>2. next_id \in Ids \ Live /\ (UNCHANGED storage \/ Save({next_id}))
    BY <2>1, AddEffect
  <2> QED
    BY <1>0, <2>1, <2>2, KeptByStep
<1>4. CASE OtherOperator
  <2>1. \E S : Saves(S)
    BY <1>4, EditSaves, BulkSaves DEF OtherOperator
  <2> QED
    BY <1>0, <1>4, <2>1, KeptByStep DEF OtherOperator
<1> QED
  BY <1>1, <1>2, <1>3, <1>4 DEF OperatorH

(* Time passes for the file and for what is kept alike. *)
LEMMA ClockKept ==
    ASSUME PoolInv, StreakDurable, HistoryTypeOK, StreakKept,
           PoolInv', HistoryTypeOK', StreakObserved', ClockH
    PROVE  StreakKept'
<1> DEFINE former == [c \in Ids |-> [kept[c] EXCEPT !.age = Older(@)]]
<1>1. ASSUME Tick, since' = [c \in Ids |-> Older(since[c])], UNCHANGED <<heals, healed_for>>,
             Keep(former)
      PROVE  StreakKept'
  <2>1. /\ DOMAIN disk' = DOMAIN disk /\ saves' = saves
        /\ \A c \in DOMAIN disk : disk'[c] = Aged(disk[c])
    BY <1>1 DEF Tick
  <2>2. \A c \in DOMAIN disk : c \in Ids /\ disk[c] \in Persisted /\ disk[c].streak = kept[c]
    BY DEF PoolInv, IsFile, StreakKept, KeptFile
  <2>3. \A c \in DOMAIN disk : disk'[c].streak = [kept[c] EXCEPT !.age = Older(@)]
    <3>1. \A q \in Persisted : Aged(q).streak = [q.streak EXCEPT !.age = Older(@)]
      BY DEF Aged, Persisted
    <3> QED
      BY <2>1, <2>2, <3>1
  <2>4. \A c \in Ids : Now(c)' = [Now(c) EXCEPT !.age = Older(@)]
    BY <1>1 DEF Now
  <2>5. \A c \in Ids : kept'[c] = IF c \in saves.unsaved THEN [kept[c] EXCEPT !.age = Older(@)]
                                                         ELSE Now(c)'
    BY <1>1, <2>1 DEF Keep, Now
  <2>6. \A c \in Ids : kept'[c] = [kept[c] EXCEPT !.age = Older(@)]
    BY <2>4, <2>5 DEF StreakKept, KeptNow
  <2>7. \A c \in DOMAIN disk' : disk'[c].streak = kept'[c]
    BY <2>1, <2>2, <2>3, <2>6
  <2>8. \A c \in Ids \ saves'.unsaved : kept'[c] = Now(c)'
    BY <2>1, <2>5
  <2> QED
    BY <2>7, <2>8 DEF StreakKept, KeptNow, KeptFile, Now
<1>2. ASSUME NEW c \in Ids, ThrottleExpire(c) \/ RpmSlide(c), Remember, Keep(kept)
      PROVE  StreakKept'
  <2>1. Saves({})
    BY <1>2 DEF ThrottleExpire, RpmSlide, Saves
  <2> QED
    BY <1>2, <2>1, KeptByStep
<1> QED
  BY <1>1, <1>2 DEF ClockH

LEMMA SaveKept ==
    ASSUME PoolInv, StreakDurable, HistoryTypeOK, StreakKept,
           PoolInv', HistoryTypeOK', StreakObserved', SaveH
    PROVE  StreakKept'
<1>1. Keep(kept) /\ (\A c : Now(c)' = Now(c)) /\ entries' = entries
  BY RememberNow DEF SaveH, Persist
<1>2. CASE disk' = Image(entries) /\ saves'.unsaved = {}
  BY <1>1, <1>2, KeptByWrite
<1>3. CASE disk' = disk /\ saves'.unsaved = saves.unsaved
  BY <1>1, <1>3, KeptByWaiting
<1> QED
  BY <1>2, <1>3 DEF SaveH, Persist, PoolInv, Debts

(* A crash takes both the pool and the observer back to what was saved.    *)
LEMMA RestartObserved ==
    ASSUME PoolInv, HistoryTypeOK, StreakKept, RestartH
    PROVE  StreakObserved' /\ (PoolInv' => StreakKept')
<1>1. /\ Live' = DOMAIN disk /\ saves' = NothingOwed
      /\ \A c \in DOMAIN disk : entries'[c].streak = disk[c].streak
      /\ disk' = disk \/ disk' = Image(entries')
  BY RestartEffect DEF RestartH
<1>2. \A c \in DOMAIN disk : c \in Ids /\ disk[c].streak = kept[c]
  BY DEF PoolInv, IsFile, StreakKept, KeptFile
<1>3. StreakObserved'
  BY <1>1, <1>2 DEF StreakObserved, RestartH
<1>4. \A c \in Ids : kept'[c] = Now(c)'
  <2> SUFFICES ASSUME NEW c \in Ids
               PROVE  kept[c] = [rounds |-> kept[c].rounds, age |-> kept[c].age,
                                 model |-> kept[c].model]
    BY DEF RestartH, Now
  <2>1. kept[c] \in Streak
    BY DEF HistoryTypeOK
  <2> QED
    BY <2>1 DEF Streak
<1>5. \A c \in DOMAIN disk' : c \in DOMAIN disk /\ disk'[c].streak = disk[c].streak
  BY <1>1 DEF Image, Saved, Live
<1>6. KeptFile'
  BY <1>2, <1>5 DEF KeptFile, RestartH
<1> QED
  BY <1>3, <1>4, <1>6 DEF StreakKept, KeptNow, Now

LEMMA NextObserved ==
    ASSUME PoolInv, IdsNeverReused, HistoryTypeOK, StreakObserved, StreakKept, [NextH]_vars
    PROVE  StreakObserved'
<1>1. CASE RotationH
  <2>1. PICK c \in Ids : ReloadFromFile(c)
    BY <1>1 DEF RotationH, RotationNext
  <2> QED
    BY <1>1, <2>1, ReloadEffect, RememberStep DEF RotationH, OnlyAt
<1>2. CASE RestartH
  BY <1>2, RestartObserved
<1>3. CASE SaveH
  BY <1>3, AllSameStep DEF SaveH, Persist, AllSame, Same, SameStatus, Live
<1>4. CASE UNCHANGED vars
  BY <1>4 DEF vars, pool, history, StreakObserved, Live
<1> QED
  BY <1>1, <1>2, <1>3, <1>4, RequestObserved, OperatorObserved, ClockObserved DEF NextH

LEMMA NextKept ==
    ASSUME PoolInv, StreakDurable, IdsNeverReused, HistoryTypeOK, StreakObserved, StreakKept,
           PoolInv', HistoryTypeOK', StreakObserved', [NextH]_vars
    PROVE  StreakKept'
<1>1. CASE RotationH
  <2>1. Remember /\ Keep(kept) /\ Saves({})
    BY <1>1 DEF RotationH, RotationNext, ReloadFromFile, Saves
  <2> QED
    BY <2>1, KeptByStep
<1>2. CASE UNCHANGED vars
  BY <1>2 DEF vars, pool, storage, history, StreakKept, KeptNow, KeptFile, Now
<1> QED
  BY <1>1, <1>2, RequestKept, OperatorKept, ClockKept, SaveKept, RestartObserved DEF NextH

(* The history only watches: its steps are steps of the pool. *)
LEMMA HistoryOnlyWatches ==
    ASSUME [NextH]_vars
    PROVE  [Next]_pool
<1>1. CASE RequestH
  BY <1>1 DEF RequestH, Success, OtherRequest, Heal, Next, RequestNext, ReportNext
<1>2. CASE OperatorH
  BY <1>2 DEF OperatorH, Release, Remove, Import, OtherOperator, Next, OperatorNext
<1>3. CASE ClockH \/ SaveH \/ RotationH \/ RestartH
  BY <1>3 DEF ClockH, SaveH, RotationH, RestartH, Next, TimeNext
<1>4. CASE UNCHANGED vars
  BY <1>4 DEF vars
<1> QED
  BY <1>1, <1>2, <1>3, <1>4 DEF NextH

LEMMA InitHistory ==
    ASSUME InitH
    PROVE  HistoryTypeOK /\ StreakObserved /\ StreakKept
<1>0. Init
  BY DEF InitH
<1>1. PoolInv /\ StreakDurable /\ Live \subseteq Ids /\ saves.unsaved = {}
  <2>1. PoolInv /\ StreakDurable
    BY <1>0, InitInv, InitDurable
  <2>2. saves = NothingOwed
    BY <1>0 DEF Init
  <2> QED
    BY <2>1, <2>2 DEF NothingOwed, PoolInv, EntriesInv
<1>2. \A c \in Live : entries[c].streak \in Streak
  BY <1>1 DEF PoolInv, EntriesInv, CredentialEntry
<1>3. NowTyped /\ actor = "restart"
  BY <1>2 DEF InitH, NowTyped, Streak, ModelArgs
<1>4. \A c \in Ids : Now(c) \in Streak /\ kept[c] = Now(c)
  BY <1>3 DEF InitH, NowTyped, Now, Streak
<1>5. HistoryTypeOK
  <2>1. kept \in [Ids -> Streak]
    BY <1>4 DEF InitH
  <2> QED
    BY <1>3, <2>1 DEF HistoryTypeOK, NowTyped
<1>6. StreakObserved
  BY <1>1 DEF InitH, StreakObserved
<1>7. StreakKept
  <2>1. \A c \in DOMAIN disk : c \in Live /\ disk[c].streak = entries[c].streak
    BY <1>1 DEF StreakDurable, PoolInv, IsFile
  <2>2. \A c \in DOMAIN disk : disk[c].streak = Now(c)
    BY <1>1, <1>5, <1>6, <2>1, ObservedNow
  <2> QED
    BY <1>1, <1>4, <2>1, <2>2 DEF StreakKept, KeptNow, KeptFile
<1> QED
  BY <1>5, <1>6, <1>7

(* What holds of the pool and the observer together. *)
HistoryInv ==
    /\ PoolInv /\ StreakDurable /\ IdsNeverReused
    /\ HistoryTypeOK /\ StreakObserved /\ StreakKept

LEMMA HistoryInvStep ==
    ASSUME HistoryInv, [NextH]_vars
    PROVE  HistoryInv'
<1>1. [Next]_pool
  BY HistoryOnlyWatches
<1>2. PoolInv' /\ IdsNeverReused' /\ StreakDurable'
  BY <1>1, NextInv, NextIds, NextDurable DEF HistoryInv
<1>3. HistoryTypeOK' /\ StreakObserved'
  BY HistoryType, NextObserved DEF HistoryInv
<1>4. StreakKept'
  BY <1>2, <1>3, NextKept DEF HistoryInv
<1> QED
  BY <1>2, <1>3, <1>4 DEF HistoryInv

LEMMA HistoryInvInit ==
    ASSUME InitH
    PROVE  HistoryInv
BY InitInv, InitDurable, InitIds, InitHistory DEF InitH, HistoryInv

(* What the entries and the file say of the healing of a credential is     *)
(* what happened to it, through every restart: the rounds, the time and    *)
(* the model of the streak are those an observer outside would count, who  *)
(* at a crash falls back to the last save of that credential.              *)
THEOREM StreakIsWhatHappened == SpecH => []StreakObserved
<1>1. InitH => HistoryInv
  BY HistoryInvInit
<1>2. HistoryInv /\ [NextH]_vars => HistoryInv'
  BY HistoryInvStep
<1>3. HistoryInv => StreakObserved
  BY DEF HistoryInv
<1> QED
  BY <1>1, <1>2, <1>3, PTL DEF SpecH

(* Only self-heal revives a credential during a request, and self-heal     *)
(* looks at the streak, which is what happened.                            *)
LEMMA RequestHealsWithin ==
    ASSUME HistoryInv, NextH
    PROVE  HealWithinLimits
<1> SUFFICES ASSUME actor' = "request", NEW c \in Live \cap DOMAIN entries',
                    entries[c].disabled, ~entries'[c].disabled
             PROVE  /\ settings.heal.max_rounds > 0 => heals[c] < settings.heal.max_rounds
                    /\ since[c] # Never => since[c] >= settings.heal.min_interval
  BY DEF HealWithinLimits
<1>0. PoolInv
  BY DEF HistoryInv
<1>1. RequestH
  BY DEF NextH, RotationH, OperatorH, ClockH, SaveH, RestartH
<1>2. ASSUME NEW d \in Ids, NEW m \in ModelArgs, Success(d, m)
      PROVE  FALSE
  BY <1>0, <1>2, SuccessEffect DEF Success, OnlyAt, SameStatus
<1>3. ASSUME NEW d \in Ids, OtherRequest(d)
      PROVE  FALSE
  <2>1. CASE AcquireNext(d)
    BY <1>0, <2>1, AcquireEffect DEF Same, SameStatus
  <2>2. CASE ~AcquireNext(d)
    <3>1. OnlyAt(d) /\ (Same(entries'[d], entries[d]) \/ Tripped(entries'[d], entries[d]))
      BY <1>0, <1>3, <2>2, ReportEffect DEF OtherRequest
    <3> QED
      BY <3>1 DEF OnlyAt, Same, SameStatus, Tripped
  <2> QED
    BY <2>1, <2>2
<1>4. PICK m \in ModelArgs, g \in GroupArgs : Heal(m, g)
  BY <1>1, <1>2, <1>3 DEF RequestH
<1>5. c \in HealSet(m, g)
  BY <1>0, <1>4, HealEffect DEF Heal
<1>6. heals[c] = entries[c].streak.rounds /\ since[c] = entries[c].streak.age
  BY DEF HistoryInv, StreakObserved
<1> QED
  BY <1>5, <1>6 DEF HealSet

(* A request revives a credential only within the limits the operator set, *)
(* counted from outside: crashes in between forget what was not saved, and *)
(* nothing else.                                                           *)
THEOREM HealsStayWithinBudget == SpecH => HealBudget
<1>1. InitH => HistoryInv
  BY HistoryInvInit
<1>2. HistoryInv /\ [NextH]_vars => HistoryInv'
  BY HistoryInvStep
<1>3. HistoryInv /\ [NextH]_vars => [HealWithinLimits]_vars
  BY RequestHealsWithin
<1> QED
  BY <1>1, <1>2, <1>3, PTL DEF SpecH, HealBudget

---------------------------------------------------------------------------
(* Each step of the pool is a step of the life cycle.                      *)

status == [c \in Ids |-> StatusOf(c)]

LEMMA StatusType == status \in [Ids -> LC!Status]
<1>1. \A c \in Ids : StatusOf(c) \in LC!Status
  BY DEF StatusOf, LC!Status
<1> QED
  BY <1>1 DEF status

LEMMA StatusStays ==
    ASSUME NEW c \in Ids,
           \/ c \notin Live /\ c \notin Live'
           \/ c \in Live /\ c \in Live' /\ SameStatus(entries'[c], entries[c])
    PROVE  status'[c] = status[c]
BY DEF status, StatusOf, SameStatus

(* When no entry but that of c changes, no status but that of c does. *)
LEMMA StatusOnlyAt ==
    ASSUME NEW c \in Ids,
           \A d \in Ids \ {c} : (d \in Live' <=> d \in Live),
           \A d \in Live \ {c} : SameStatus(entries'[d], entries[d])
    PROVE  status' = [status EXCEPT ![c] = StatusOf(c)']
<1>1. \A d \in Ids \ {c} : status'[d] = status[d]
  BY StatusStays
<1>2. status'[c] = StatusOf(c)'
  BY DEF status
<1> QED
  BY <1>1, <1>2 DEF status

LEMMA StatusAllSame ==
    ASSUME AllSame
    PROVE  status' = status
<1>1. \A c \in Ids : status'[c] = status[c]
  BY StatusStays DEF AllSame, Same
<1> QED
  BY <1>1 DEF status

(* What a step saves is what the life cycle calls touched. *)
LEMMA TouchedBySaves ==
    ASSUME PoolInv, NEW S, Saves(S)
    PROVE  LC!Touched(S)
BY SavesUnsaved DEF LC!Touched

(* A step in which no status changes only refreshes a credential.          *)
LEMMA RequestStutter ==
    ASSUME PoolInv, actor' = "request", status' = status, NEW c \in Ids, Saves({c})
    PROVE  LC!Request
BY TouchedBySaves DEF LC!Request, LC!Refresh, status

LEMMA OperatorStep ==
    ASSUME PoolInv, actor' = "operator",
           \/ status' = status /\ \E S \in SUBSET Ids : Saves(S)
           \/ \E c \in Ids : Saves({c}) /\ status' = [status EXCEPT ![c] = StatusOf(c)']
    PROVE  LC!Operator
<1>1. \A c \in Ids : StatusOf(c)' \in LC!Status
  BY DEF StatusOf, LC!Status
<1>2. CASE status' = status /\ \E S \in SUBSET Ids : Saves(S)
  BY <1>2, TouchedBySaves DEF LC!Operator, status
<1>3. ASSUME NEW c \in Ids, Saves({c}), status' = [status EXCEPT ![c] = StatusOf(c)']
      PROVE  LC!Operator
  BY <1>1, <1>3, TouchedBySaves DEF LC!Operator, status
<1> QED
  BY <1>2, <1>3

LEMMA RequestRefines ==
    ASSUME PoolInv, RequestH
    PROVE  LC!Request
<1>0. Live \subseteq Ids /\ actor' = "request"
  BY DEF PoolInv, EntriesInv, RequestH
<1>1. ASSUME NEW c \in Ids, NEW m \in ModelArgs, Success(c, m)
      PROVE  LC!Request
  <2>1. OnlyAt(c) /\ SameStatus(entries'[c], entries[c])
    BY <1>1, SuccessEffect DEF Success
  <2>2. \A d \in Ids : status'[d] = status[d]
    BY <2>1, StatusStays DEF OnlyAt, SameStatus
  <2>3. Saves({c})
    BY <1>1, RequestSaves DEF Success, ReportNext
  <2> QED
    BY <1>0, <2>2, <2>3, RequestStutter DEF status
<1>2. ASSUME NEW c \in Ids, OtherRequest(c)
      PROVE  LC!Request
  <2>0. Saves({c})
    BY <1>2, RequestSaves DEF OtherRequest, ReportNext
  <2>1. CASE AcquireNext(c)
    BY <1>0, <2>0, <2>1, AcquireEffect, StatusAllSame, RequestStutter DEF AllSame
  <2>2. CASE ~AcquireNext(c)
    <3>1. /\ c \in Live /\ OnlyAt(c)
          /\ Same(entries'[c], entries[c]) \/ Tripped(entries'[c], entries[c])
      BY <1>2, <2>2, ReportEffect DEF OtherRequest
    <3>2. CASE Same(entries'[c], entries[c])
      <4>1. AllSame
        BY <3>1, <3>2 DEF AllSame, OnlyAt, Same, SameStatus
      <4> QED
        BY <1>0, <2>0, <4>1, StatusAllSame, RequestStutter
    <3>3. CASE Tripped(entries'[c], entries[c])
      <4>1. status' = [status EXCEPT ![c] = StatusOf(c)']
        BY <3>1, StatusOnlyAt DEF OnlyAt, SameStatus
      <4>2. status[c] = "active" /\ StatusOf(c)' \in {"healable", "final"}
        BY <3>1, <3>3 DEF status, StatusOf, Tripped, OnlyAt, DisabledReason
      <4>3. LC!Use(c)
        BY <2>0, <4>1, <4>2, TouchedBySaves DEF LC!Use, status
      <4> QED
        BY <1>0, <4>3 DEF LC!Request
    <3> QED
      BY <3>1, <3>2, <3>3
  <2> QED
    BY <2>1, <2>2
<1>3. ASSUME NEW m \in ModelArgs, NEW g \in GroupArgs, Heal(m, g)
      PROVE  LC!Request
  <2> DEFINE S == HealSet(m, g)
  <2>1. /\ Live' = Live
        /\ \A d \in Live \ S : entries'[d] = entries[d]
        /\ \A d \in S : d \in Live /\ ~entries'[d].disabled
    BY <1>3, HealEffect DEF Heal
  <2>2. \A d \in S : d \in Ids /\ status[d] = "healable" /\ status'[d] = "active"
    BY <1>0, <2>1 DEF HealSet, IsSelfHealable, status, StatusOf
  <2>3. \A d \in Ids \ S : status'[d] = status[d]
    BY <2>1, StatusStays DEF SameStatus
  <2>4. S \in SUBSET Ids /\ Saves(S)
    BY <1>3, <2>2 DEF Heal, TrySelfHeal, Saves
  <2> HIDE DEF S
  <2>5. status' = [d \in Ids |-> IF d \in S THEN "active" ELSE status[d]]
    BY <2>2, <2>3 DEF status
  <2>6. LC!Revive(S)
    BY <2>2, <2>4, <2>5, TouchedBySaves DEF LC!Revive, status
  <2> QED
    BY <1>0, <2>4, <2>6 DEF LC!Request
<1> QED
  BY <1>1, <1>2, <1>3 DEF RequestH

LEMMA OperatorRefines ==
    ASSUME PoolInv, IdsNeverReused, OperatorH
    PROVE  LC!Operator
<1>0. actor' = "operator"
  BY DEF OperatorH
<1>1. ASSUME NEW c \in Ids, Release(c)
      PROVE  LC!Operator
  <2>1. OnlyAt(c) /\ Saves({c})
    BY <1>1, ReleaseEffect DEF Release, Saves
  <2> QED
    BY <1>0, <2>1, StatusOnlyAt, OperatorStep DEF OnlyAt, SameStatus
<1>2. CASE Import
  <2>1. PICK cred \in NewCredentials, duplicate \in BOOLEAN : AddCredential(cred, duplicate)
    BY <1>2 DEF Import
  <2>2. PICK n \in Ids \ Live :
          /\ \A d \in Live : d \in Live' /\ entries'[d] = entries[d]
          /\ Live' = Live \/ Live' = Live \cup {n}
          /\ Saves({n})
    BY <2>1, AddEffect DEF Saves
  <2>3. status' = [status EXCEPT ![n] = StatusOf(n)']
    BY <2>2, StatusOnlyAt DEF SameStatus
  <2> QED
    BY <1>0, <2>2, <2>3, OperatorStep
<1>3. CASE OtherOperator
  <2>1. ASSUME NEW c \in Ids, SetDisabled(c, TRUE) \/ DisableQuotaExceeded(c)
        PROVE  LC!Operator
    <3>1. OnlyAt(c) /\ Saves({c})
      BY <2>1, HoldEffect DEF Saves
    <3> QED
      BY <1>0, <3>1, StatusOnlyAt, OperatorStep DEF OnlyAt, SameStatus
  <2>2. ASSUME AllSame, NEW S \in SUBSET Ids, Saves(S)
        PROVE  LC!Operator
    BY <1>0, <2>2, StatusAllSame, OperatorStep
  <2>3. ASSUME NEW c \in Ids, AllSame, Saves({c})
        PROVE  LC!Operator
    BY <2>2, <2>3
  <2> QED
    BY <1>3, <2>1, <2>2, <2>3, EditEffect, EditSaves, BulkEffect, BulkSaves DEF OtherOperator
<1>4. ASSUME NEW c \in Ids, Remove(c)
      PROVE  LC!Operator
  <2>1. Live' = Live \ {c} /\ (\A d \in Live' : entries'[d] = entries[d]) /\ Saves({c})
    BY <1>4, DeleteEffect DEF Remove, Saves
  <2> QED
    BY <1>0, <2>1, StatusOnlyAt, OperatorStep DEF SameStatus
<1> QED
  BY <1>1, <1>2, <1>3, <1>4 DEF OperatorH

LEMMA RotationRefines ==
    ASSUME PoolInv, RotationH
    PROVE  LC!Rotation
<1>1. PICK c \in Ids : ReloadFromFile(c)
  BY DEF RotationH, RotationNext
<1>2. c \in Live /\ OnlyAt(c) /\ ~entries'[c].disabled
  BY <1>1, ReloadEffect
<1>3. status' = [status EXCEPT ![c] = StatusOf(c)']
  BY <1>2, StatusOnlyAt DEF OnlyAt, SameStatus
<1>4. status[c] # "absent" /\ StatusOf(c)' = "active"
  BY <1>2 DEF status, StatusOf, OnlyAt
<1>5. UNCHANGED saves.unsaved
  BY <1>1 DEF ReloadFromFile, storage
<1> QED
  BY <1>3, <1>4, <1>5 DEF LC!Rotation, RotationH, status

LEMMA ClockRefines ==
    ASSUME PoolInv, ClockH \/ SaveH
    PROVE  LC!Clock
<1>1. status' = status /\ saves'.unsaved \in {{}, saves.unsaved}
  <2>1. CASE Tick
    <3>1. \A c \in Ids : status'[c] = status[c]
      BY <2>1, TickEffect, StatusStays
    <3> QED
      BY <2>1, <3>1 DEF status, Tick
  <2>2. ASSUME NEW c \in Ids, ThrottleExpire(c) \/ RpmSlide(c)
        PROVE  status' = status /\ UNCHANGED saves
    BY <2>2, TimeEffect, StatusAllSame DEF ThrottleExpire, RpmSlide, storage
  <2>3. CASE Persist
    <3>1. AllSame /\ saves'.unsaved \in {{}, saves.unsaved}
      BY <2>3 DEF Persist, AllSame, Same, SameStatus, Live, PoolInv, Debts
    <3> QED
      BY <3>1, StatusAllSame
  <2> QED
    BY <2>1, <2>2, <2>3 DEF ClockH, SaveH
<1> QED
  BY <1>1 DEF LC!Clock, ClockH, SaveH, status

(* A restart reads a manual hold of the file as a manual hold, unless the  *)
(* credential is broken.                                                   *)
LEMMA LoadedManual ==
    ASSUME NEW q, NEW n, q.disabled, q.disabled_reason \in {"Manual", NoReason}
    PROVE  /\ Loaded(q, n).disabled
           /\ Loaded(q, n).disabled_reason \in {"Manual", "InvalidConfig"}
BY DEF Loaded, LoadedReason, NoReason

LEMMA RestartRefines ==
    ASSUME PoolInv, StreakDurable, RestartH
    PROVE  LC!Restart
<1>1. Live' = DOMAIN disk /\ saves' = NothingOwed
  BY RestartEffect DEF RestartH
<1>2. PICK uses : \A d \in DOMAIN disk : entries'[d] = Loaded(disk[d], uses[d])
  BY RestartEffect DEF RestartH
<1>3. status' \in [Ids -> LC!Status]
  <2>1. \A c \in Ids : StatusOf(c)' \in LC!Status
    BY DEF StatusOf, LC!Status
  <2> QED
    BY <2>1 DEF status
<1>4. \A c \in Ids \ saves.unsaved : (status'[c] = "absent") <=> (status[c] = "absent")
  BY <1>1 DEF status, StatusOf, StreakDurable
<1>5. ASSUME NEW c \in Ids \ saves.unsaved, status[c] = "manual"
      PROVE  status'[c] \in {"manual", "final"}
  <2>1. c \in Live /\ entries[c].disabled_reason = "Manual"
    BY <1>5 DEF status, StatusOf
  <2>2. /\ c \in DOMAIN disk
        /\ disk[c].disabled /\ disk[c].disabled_reason \in {"Manual", NoReason}
    BY <2>1 DEF StreakDurable
  <2>3. entries'[c].disabled /\ entries'[c].disabled_reason \in {"Manual", "InvalidConfig"}
    BY <1>2, <2>2, LoadedManual
  <2> QED
    BY <1>1, <2>2, <2>3 DEF status, StatusOf
<1> QED
  BY <1>1, <1>3, <1>4, <1>5 DEF LC!Restart, RestartH, NothingOwed, status

LEMMA StepRefines ==
    ASSUME HistoryInv, [NextH]_vars
    PROVE  [LC!Next]_<<[c \in Ids |-> StatusOf(c)], saves.unsaved, actor>>
<1>1. PoolInv /\ StreakDurable /\ IdsNeverReused
  BY DEF HistoryInv
<1>2. CASE NextH
  BY <1>1, <1>2, RequestRefines, OperatorRefines, RotationRefines, ClockRefines,
     RestartRefines DEF NextH, LC!Next
<1>3. CASE UNCHANGED vars
  BY <1>3 DEF vars, pool, storage, history, StatusOf, Live
<1> QED
  BY <1>2, <1>3

(* Every behaviour of the pool is one of the life cycle: request traffic   *)
(* never revives a manual or a final credential and trips one at a time, a *)
(* rotation revives the one it is for, and a restart, of the credentials   *)
(* whose last change was saved, neither loses nor invents one and lifts no *)
(* manual hold.                                                            *)
THEOREM PoolImplementsLifecycle == SpecH => ImplementsLifecycle
<1>1. InitH => HistoryInv
  BY HistoryInvInit
<1>2. InitH => LC!Init
  BY StatusType DEF InitH, Init, NothingOwed, LC!Init, LC!TypeOK, LC!Actor, status
<1>3. HistoryInv /\ [NextH]_vars => HistoryInv'
  BY HistoryInvStep
<1>4. HistoryInv /\ [NextH]_vars => [LC!Next]_<<[c \in Ids |-> StatusOf(c)], saves.unsaved, actor>>
  BY StepRefines
<1> QED
  BY <1>1, <1>2, <1>3, <1>4, PTL DEF SpecH, ImplementsLifecycle, LC!Spec

=============================================================================
