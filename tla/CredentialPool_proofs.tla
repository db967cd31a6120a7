----------------------- MODULE CredentialPool_proofs -----------------------
(***************************************************************************)
(* Proofs about CredentialPool, for every set of ids, models, groups,      *)
(* rules, settings and credential files and every threshold.               *)
(***************************************************************************)
EXTENDS CredentialPool, TLAPS

(* What the loop invariant of the pool says of one entry: its type and the *)
(* thresholds. Neither is inductive alone: that a counter stays in range   *)
(* needs that an enabled credential has failures left.                     *)
EntryOK(e) == e \in CredentialEntry /\ BelowThreshold(e)

EntriesInv ==
    /\ Live \subseteq Ids
    /\ entries \in [Live -> CredentialEntry]
    /\ \A c \in Live : EntryOK(entries[c])

Debts == [late: 0 .. MaxLate, unsaved: SUBSET Ids]

PoolInv ==
    /\ EntriesInv
    /\ current_id \in Nat
    /\ next_id \in Nat \ {0}
    /\ settings \in [mode: Modes, heal: HealConfigs, rpm_limit: RpmLimits]
    /\ IsFile(disk)
    /\ saves \in Debts

---------------------------------------------------------------------------
(* Lemmas about the operators. *)

(* Saving an entry yields a well-formed record of the file. *)
LEMMA SavedType ==
    ASSUME NEW e \in CredentialEntry
    PROVE  Saved(e) \in Persisted
BY DEF Saved, CredentialEntry, Persisted

(* Saving well-formed entries yields a credential file. *)
LEMMA ImageType ==
    ASSUME NEW es, DOMAIN es \subseteq Ids, es \in [DOMAIN es -> CredentialEntry]
    PROVE  IsFile(Image(es))
<1>1. \A c \in DOMAIN es : es[c] \in CredentialEntry
  OBVIOUS
<1>2. \A c \in DOMAIN es : Saved(es[c]) \in Persisted
  BY <1>1, SavedType
<1> QED
  BY <1>2 DEF IsFile, Image

(* Whatever record the file holds, new() makes a sound entry of it. *)
LEMMA LoadedOK ==
    ASSUME NEW p \in Persisted, NEW uses \in Nat
    PROVE  EntryOK(Loaded(p, uses))
<1>1. LoadedReason(p) \in DisabledReason \cup {NoReason}
  BY DEF LoadedReason, Persisted, DisabledReason, NoReason, KiroCredentials
<1>2. (p.disabled \/ p.credentials.broken) <=> LoadedReason(p) # NoReason
  BY DEF LoadedReason, Persisted, NoReason, DisabledReason, KiroCredentials
<1>3. Loaded(p, uses) \in CredentialEntry
  BY <1>1, PoolAssumption DEF Loaded, CredentialEntry, Persisted
<1>4. BelowThreshold(Loaded(p, uses))
  <2>1. /\ Loaded(p, uses).disabled = (p.disabled \/ p.credentials.broken)
        /\ Loaded(p, uses).disabled_reason = LoadedReason(p)
        /\ Loaded(p, uses).failure_count = 0
        /\ Loaded(p, uses).refresh_failure_count = 0
    BY DEF Loaded
  <2>2. 0 < MAX_FAILURES_PER_CREDENTIAL
    BY PoolAssumption
  <2> QED
    BY <1>2, <2>1, <2>2, Zenon DEF BelowThreshold
<1> QED
  BY <1>3, <1>4 DEF EntryOK

(* A new credential starts sound. *)
LEMMA FreshOK ==
    ASSUME NEW cred \in KiroCredentials
    PROVE  EntryOK(FreshEntry(cred))
BY PoolAssumption DEF EntryOK, FreshEntry, BelowThreshold, CredentialEntry, NoStreak, Streak,
   NoReason, ModelArgs

(* A candidate of the highest priority is a candidate. *)
LEMMA HighestPrioritySubset ==
    ASSUME NEW es, NEW S
    PROVE  HighestPriority(es, S) \subseteq S
BY DEF HighestPriority

LEMMA FreeIdAboveType ==
    ASSUME NEW S \in SUBSET Nat
    PROVE  FreeIdAbove(S) \subseteq Nat \ {0}
<1>1. ASSUME NEW n \in FreeIdAbove(S)
      PROVE  n \in Nat \ {0}
  <2>1. n = 1 \/ \E c \in S : n = c + 1
    BY DEF FreeIdAbove
  <2> QED
    BY <2>1
<1> QED
  BY <1>1

(* One field changed within its type keeps an entry an entry. *)
LEMMA FieldType ==
    ASSUME NEW e \in CredentialEntry
    PROVE  /\ \A x \in KiroCredentials : [e EXCEPT !.credentials = x] \in CredentialEntry
           /\ \A x \in BOOLEAN : [e EXCEPT !.disabled = x] \in CredentialEntry
           /\ \A x \in DisabledReason \cup {NoReason} :
                 [e EXCEPT !.disabled_reason = x] \in CredentialEntry
           /\ \A x \in 0 .. MAX_FAILURES_PER_CREDENTIAL :
                 /\ [e EXCEPT !.failure_count = x] \in CredentialEntry
                 /\ [e EXCEPT !.refresh_failure_count = x] \in CredentialEntry
           /\ \A x \in BOOLEAN : [e EXCEPT !.throttled = x] \in CredentialEntry
           /\ \A x \in Streak : [e EXCEPT !.streak = x] \in CredentialEntry
           /\ \A x \in Nat : /\ [e EXCEPT !.rpm_used = x] \in CredentialEntry
                            /\ [e EXCEPT !.success_count = x] \in CredentialEntry
<1>1. \A x \in KiroCredentials : [e EXCEPT !.credentials = x] \in CredentialEntry
  BY DEF CredentialEntry
<1>2. \A x \in BOOLEAN : [e EXCEPT !.disabled = x] \in CredentialEntry
  BY DEF CredentialEntry
<1>3. \A x \in DisabledReason \cup {NoReason} :
          [e EXCEPT !.disabled_reason = x] \in CredentialEntry
  BY DEF CredentialEntry
<1>4. \A x \in 0 .. MAX_FAILURES_PER_CREDENTIAL :
          /\ [e EXCEPT !.failure_count = x] \in CredentialEntry
          /\ [e EXCEPT !.refresh_failure_count = x] \in CredentialEntry
  BY DEF CredentialEntry
<1>5. \A x \in BOOLEAN : [e EXCEPT !.throttled = x] \in CredentialEntry
  BY DEF CredentialEntry
<1>6. \A x \in Streak : [e EXCEPT !.streak = x] \in CredentialEntry
  BY DEF CredentialEntry
<1>7. \A x \in Nat : /\ [e EXCEPT !.rpm_used = x] \in CredentialEntry
                     /\ [e EXCEPT !.success_count = x] \in CredentialEntry
  BY DEF CredentialEntry
<1> QED
  BY <1>1, <1>2, <1>3, <1>4, <1>5, <1>6, <1>7

(* The changes the operations are made of keep an entry an entry. *)
LEMMA ChangeType ==
    ASSUME NEW e \in CredentialEntry
    PROVE  /\ Calm(e) \in CredentialEntry
           /\ Reenabled(e) \in CredentialEntry
           /\ ClearedStreak(e) \in CredentialEntry
           /\ \A reason \in DisabledReason : DisabledFor(e, reason) \in CredentialEntry
<1>0. 0 \in 0 .. MAX_FAILURES_PER_CREDENTIAL
  BY PoolAssumption
<1>1. Calm(e) \in CredentialEntry
  <2>1. [e EXCEPT !.failure_count = 0] \in CredentialEntry
    BY <1>0, FieldType
  <2>2. [e EXCEPT !.failure_count = 0, !.refresh_failure_count = 0] \in CredentialEntry
    BY <1>0, <2>1, FieldType
  <2> QED
    BY <2>2, FieldType DEF Calm
<1>2. Reenabled(e) \in CredentialEntry
  <2>1. [e EXCEPT !.disabled = FALSE] \in CredentialEntry
    BY FieldType
  <2>2. [e EXCEPT !.disabled = FALSE, !.disabled_reason = NoReason] \in CredentialEntry
    BY <2>1, FieldType
  <2> QED
    BY <1>0, <2>2, FieldType DEF Reenabled
<1>3. ClearedStreak(e) \in CredentialEntry
  <2>1. NoStreak \in Streak
    BY DEF NoStreak, Streak, ModelArgs
  <2> QED
    BY <2>1, FieldType DEF ClearedStreak
<1>4. \A reason \in DisabledReason : DisabledFor(e, reason) \in CredentialEntry
  <2>1. [e EXCEPT !.disabled = TRUE] \in CredentialEntry
    BY FieldType
  <2> QED
    BY <2>1, FieldType DEF DisabledFor
<1> QED
  BY <1>1, <1>2, <1>3, <1>4

(* A changed entry that is sound keeps the entries sound. *)
LEMMA SetInv ==
    ASSUME EntriesInv, NEW c \in Live, NEW e, EntryOK(e), Set(c, e)
    PROVE  EntriesInv' /\ Live' = Live
<1>1. Live' = Live
  BY DEF Set, Live, EntriesInv
<1>2. \A d \in Live : entries'[d] = IF d = c THEN e ELSE entries[d]
  BY DEF Set, Live, EntriesInv
<1>3. \A d \in Live : EntryOK(entries'[d])
  BY <1>2 DEF EntriesInv
<1>4. entries' \in [Live -> CredentialEntry]
  BY DEF Set, EntriesInv, EntryOK
<1>5. (\A d \in Live : EntryOK(entries[d]))'
  BY <1>1, <1>3 DEF EntryOK, BelowThreshold
<1> QED
  BY <1>1, <1>4, <1>5 DEF EntriesInv

(* The file is well formed after a save, and while one is still to come.   *)
LEMMA SaveInv ==
    ASSUME PoolInv, EntriesInv', NEW S \in SUBSET Ids, Save(S)
    PROVE  IsFile(disk)' /\ saves' \in Debts
<1>1. CASE Write
  <2>1. /\ DOMAIN entries' \subseteq Ids
        /\ entries' \in [DOMAIN entries' -> CredentialEntry]
    BY DEF EntriesInv, Live
  <2>2. IsFile(disk')
    BY <1>1, <2>1, ImageType DEF Write
  <2>3. saves' \in Debts
    BY <1>1 DEF Write, PoolInv, Debts
  <2> QED
    BY <2>2, <2>3 DEF IsFile
<1>2. CASE SaveLater(S)
  <2>0. saves.late \in 0 .. MaxLate /\ saves.unsaved \in SUBSET Ids
    BY DEF PoolInv, Debts
  <2>1. MaxLate \in Nat /\ saves.late < MaxLate
    BY <1>2, PoolAssumption DEF SaveLater
  <2>2. saves.late + 1 \in 0 .. MaxLate
    BY <2>0, <2>1
  <2>3. saves.unsaved \cup S \in SUBSET Ids
    BY <2>0
  <2>4. saves' \in Debts
    BY <1>2, <2>2, <2>3 DEF SaveLater, Debts
  <2> QED
    BY <1>2, <2>4 DEF SaveLater, PoolInv, IsFile
<1> QED
  BY <1>1, <1>2 DEF Save

(* Retargeting leaves current_id a natural number. *)
LEMMA RetargetInv ==
    ASSUME current_id \in Nat, EntriesInv', NEW S, S \subseteq DOMAIN entries',
           Retarget(entries', S)
    PROVE  current_id' \in Nat
<1>1. S \subseteq Nat
  BY PoolAssumption DEF EntriesInv, Live
<1> QED
  BY <1>1, HighestPrioritySubset DEF Retarget

(* Soundness depends on the status and the two counters only. *)
LEMMA SameStatusOK ==
    ASSUME NEW e, EntryOK(e), NEW f \in CredentialEntry,
           f.disabled = e.disabled, f.disabled_reason = e.disabled_reason,
           f.failure_count = e.failure_count,
           f.refresh_failure_count = e.refresh_failure_count
    PROVE  EntryOK(f)
BY DEF EntryOK, BelowThreshold

(* Disabling is sound for every reason; a healable reason needs refresh    *)
(* failures left.                                                          *)
LEMMA DisabledForOK ==
    ASSUME NEW e \in CredentialEntry, NEW reason \in DisabledReason,
           IsSelfHealable(reason) => e.refresh_failure_count < MAX_FAILURES_PER_CREDENTIAL
    PROVE  EntryOK(DisabledFor(e, reason))
<1>1. /\ DisabledFor(e, reason).disabled = TRUE
      /\ DisabledFor(e, reason).disabled_reason = reason
      /\ DisabledFor(e, reason).refresh_failure_count = e.refresh_failure_count
  BY DEF DisabledFor, CredentialEntry
<1>2. reason # NoReason
  BY DEF DisabledReason, NoReason
<1> QED
  BY <1>1, <1>2, ChangeType DEF EntryOK, BelowThreshold, IsSelfHealable

(* A credential with refresh failures left may be enabled again. *)
LEMMA ReenabledOK ==
    ASSUME NEW e \in CredentialEntry, e.refresh_failure_count < MAX_FAILURES_PER_CREDENTIAL
    PROVE  EntryOK(Reenabled(e))
<1>1. /\ Reenabled(e).disabled = FALSE
      /\ Reenabled(e).disabled_reason = NoReason
      /\ Reenabled(e).failure_count = 0
      /\ Reenabled(e).refresh_failure_count = e.refresh_failure_count
  BY DEF Reenabled, CredentialEntry
<1>2. 0 < MAX_FAILURES_PER_CREDENTIAL
  BY PoolAssumption
<1> QED
  BY <1>1, <1>2, ChangeType DEF EntryOK, BelowThreshold, NoReason

(* The counters of a calm entry are zero. *)
LEMMA CalmFields ==
    ASSUME NEW e \in CredentialEntry
    PROVE  /\ Calm(e).disabled = e.disabled
           /\ Calm(e).disabled_reason = e.disabled_reason
           /\ Calm(e).failure_count = 0
           /\ Calm(e).refresh_failure_count = 0
BY DEF Calm, CredentialEntry

LEMMA CalmOK ==
    ASSUME NEW e, EntryOK(e)
    PROVE  EntryOK(Calm(e))
<1>1. 0 < MAX_FAILURES_PER_CREDENTIAL
  BY PoolAssumption
<1> QED
  BY <1>1, CalmFields, ChangeType DEF EntryOK, BelowThreshold

(* A new streak leaves an entry sound. *)
LEMMA StreakOK ==
    ASSUME NEW e, EntryOK(e), NEW st \in Streak
    PROVE  EntryOK([e EXCEPT !.streak = st])
<1> DEFINE f == [e EXCEPT !.streak = st]
<1>1. e \in CredentialEntry
  BY DEF EntryOK
<1>2. f \in CredentialEntry
  BY <1>1, FieldType
<1>3. /\ f.disabled = e.disabled /\ f.disabled_reason = e.disabled_reason
      /\ f.failure_count = e.failure_count
      /\ f.refresh_failure_count = e.refresh_failure_count
  BY <1>1 DEF CredentialEntry
<1> QED
  BY <1>2, <1>3, SameStatusOK

LEMMA ClearedStreakOK ==
    ASSUME NEW e, EntryOK(e)
    PROVE  EntryOK(ClearedStreak(e))
<1>1. NoStreak \in Streak
  BY DEF NoStreak, Streak, ModelArgs
<1> QED
  BY <1>1, StreakOK DEF ClearedStreak

LEMMA SucceededOK ==
    ASSUME NEW e, EntryOK(e)
    PROVE  EntryOK(Succeeded(e))
<1> DEFINE n == OneMore(Calm(e).success_count, SuccessCap)
           f == [Calm(e) EXCEPT !.success_count = n]
<1>1. EntryOK(Calm(e)) /\ Calm(e) \in CredentialEntry
  BY CalmOK DEF EntryOK
<1>2. n \in Nat
  BY <1>1 DEF OneMore, CredentialEntry
<1>3. f \in CredentialEntry
  BY <1>1, <1>2, FieldType
<1>4. /\ f.disabled = Calm(e).disabled /\ f.disabled_reason = Calm(e).disabled_reason
      /\ f.failure_count = Calm(e).failure_count
      /\ f.refresh_failure_count = Calm(e).refresh_failure_count
  BY <1>1 DEF CredentialEntry
<1>5. EntryOK(f)
  BY <1>1, <1>3, <1>4, SameStatusOK
<1> QED
  BY <1>5 DEF Succeeded

(* One more failure of an enabled credential, the last one included. *)
LEMMA CountedFailureOK ==
    ASSUME NEW e, EntryOK(e), ~e.disabled
    PROVE  EntryOK(CountedFailure(e))
<1> DEFINE n == e.failure_count + 1
           f == [e EXCEPT !.failure_count = n]
<1>1. e \in CredentialEntry /\ BelowThreshold(e)
  BY DEF EntryOK
<1>2. n \in 0 .. MAX_FAILURES_PER_CREDENTIAL
  BY <1>1, PoolAssumption DEF BelowThreshold, CredentialEntry
<1>3. f \in CredentialEntry
  BY <1>1, <1>2, FieldType
<1>4. /\ f.disabled = e.disabled /\ f.disabled_reason = e.disabled_reason
      /\ f.failure_count = n /\ f.refresh_failure_count = e.refresh_failure_count
  BY <1>1 DEF CredentialEntry
<1>5. f.refresh_failure_count < MAX_FAILURES_PER_CREDENTIAL
  BY <1>1, <1>4 DEF BelowThreshold
<1>6. EntryOK(DisabledFor(f, "TooManyFailures"))
  BY <1>3, <1>5, DisabledForOK DEF DisabledReason
<1>7. ASSUME ~(n >= MAX_FAILURES_PER_CREDENTIAL)
      PROVE  EntryOK(f)
  <2>1. n < MAX_FAILURES_PER_CREDENTIAL
    BY <1>2, <1>7, PoolAssumption
  <2> QED
    BY <1>1, <1>3, <1>4, <1>5, <2>1 DEF EntryOK, BelowThreshold
<1> QED
  BY <1>4, <1>6, <1>7 DEF CountedFailure

LEMMA HealedOK ==
    ASSUME NEW e, EntryOK(e), e.disabled, IsSelfHealable(e.disabled_reason), NEW m \in ModelArgs
    PROVE  EntryOK(Healed(e, m))
<1> DEFINE st == Extended(e.streak, m)
           f == [e EXCEPT !.streak = st]
<1>1. e \in CredentialEntry /\ BelowThreshold(e)
  BY DEF EntryOK
<1>2. st \in Streak
  BY <1>1 DEF Extended, OneMore, CredentialEntry, Streak
<1>3. f \in CredentialEntry
  BY <1>1, <1>2, FieldType
<1>4. f.refresh_failure_count = e.refresh_failure_count
  BY <1>1 DEF CredentialEntry
<1>5. EntryOK(Reenabled(f))
  BY <1>1, <1>3, <1>4, ReenabledOK DEF BelowThreshold, IsSelfHealable
<1> QED
  BY <1>5 DEF Healed

(* Time passing leaves entries and saved records sound. *)
LEMMA AgedOK ==
    /\ \A e : EntryOK(e) => EntryOK(Aged(e))
    /\ \A p \in Persisted : Aged(p) \in Persisted
<1>1. \A st \in Streak : [st EXCEPT !.age = Older(@)] \in Streak
  BY DEF Streak, Older, OneMore, Never
<1>2. ASSUME NEW e, EntryOK(e)
      PROVE  EntryOK(Aged(e))
  <2>1. e.streak \in Streak
    BY <1>2 DEF EntryOK, CredentialEntry
  <2> QED
    BY <1>1, <1>2, <2>1, StreakOK DEF Aged
<1>3. ASSUME NEW p \in Persisted
      PROVE  Aged(p) \in Persisted
  <2>1. p.streak \in Streak
    BY DEF Persisted
  <2>2. \A st \in Streak : [p EXCEPT !.streak = st] \in Persisted
    BY DEF Persisted
  <2> QED
    BY <1>1, <2>1, <2>2 DEF Aged
<1> QED
  BY <1>2, <1>3

(* Fields that are not the status or a counter, and a counter set to zero. *)
LEMMA FieldOK ==
    ASSUME NEW e, EntryOK(e)
    PROVE  /\ \A x \in KiroCredentials : EntryOK([e EXCEPT !.credentials = x])
           /\ \A x \in BOOLEAN : EntryOK([e EXCEPT !.throttled = x])
           /\ \A x \in Nat : EntryOK([e EXCEPT !.rpm_used = x])
           /\ \A x \in Nat : EntryOK([e EXCEPT !.success_count = x])
           /\ EntryOK([e EXCEPT !.refresh_failure_count = 0])
<1>0. e \in CredentialEntry /\ BelowThreshold(e)
  BY DEF EntryOK
<1>1. ASSUME NEW x \in KiroCredentials
      PROVE  EntryOK([e EXCEPT !.credentials = x])
  <2>1. [e EXCEPT !.credentials = x] \in CredentialEntry
    BY <1>0, FieldType
  <2> QED
    BY <1>0, <2>1 DEF EntryOK, BelowThreshold, CredentialEntry
<1>2. ASSUME NEW x \in BOOLEAN
      PROVE  EntryOK([e EXCEPT !.throttled = x])
  <2>1. [e EXCEPT !.throttled = x] \in CredentialEntry
    BY <1>0, FieldType
  <2> QED
    BY <1>0, <2>1 DEF EntryOK, BelowThreshold, CredentialEntry
<1>3. ASSUME NEW x \in Nat
      PROVE  EntryOK([e EXCEPT !.rpm_used = x]) /\ EntryOK([e EXCEPT !.success_count = x])
  <2>1. /\ [e EXCEPT !.rpm_used = x] \in CredentialEntry
        /\ [e EXCEPT !.success_count = x] \in CredentialEntry
    BY <1>0, FieldType
  <2> QED
    BY <1>0, <2>1 DEF EntryOK, BelowThreshold, CredentialEntry
<1>4. EntryOK([e EXCEPT !.refresh_failure_count = 0])
  <2>1. 0 < MAX_FAILURES_PER_CREDENTIAL /\ 0 \in 0 .. MAX_FAILURES_PER_CREDENTIAL
    BY PoolAssumption
  <2>2. [e EXCEPT !.refresh_failure_count = 0] \in CredentialEntry
    BY <1>0, <2>1, FieldType
  <2> QED
    BY <1>0, <2>1, <2>2 DEF EntryOK, BelowThreshold, CredentialEntry
<1> QED
  BY <1>1, <1>2, <1>3, <1>4

(* Whatever a custom rule does to an enabled credential. *)
LEMMA AfterRuleOK ==
    ASSUME NEW e, EntryOK(e), ~e.disabled, NEW rule, NEW action \in RuleAction
    PROVE  EntryOK(AfterRule(e, rule, action))
<1>1. e \in CredentialEntry /\ BelowThreshold(e)
  BY DEF EntryOK
<1>2. CASE action = "disable"
  <2>1. \A reason \in {"CustomHealable", "CustomFinal"} : EntryOK(DisabledFor(e, reason))
    BY <1>1, DisabledForOK DEF BelowThreshold, DisabledReason
  <2> QED
    BY <1>2, <2>1 DEF AfterRule
<1>3. CASE action = "cooldown"
  BY <1>3, FieldOK DEF AfterRule
<1>4. CASE action = "countFailure"
  BY <1>4, CountedFailureOK DEF AfterRule
<1>5. CASE action = "abort"
  BY <1>5 DEF AfterRule
<1> QED
  BY <1>2, <1>3, <1>4, <1>5 DEF RuleAction

(* A step that changes entries soundly, has them saved or leaves the file  *)
(* alone, and retargets current_id or leaves it alone, keeps the invariant. *)
LEMMA EntriesStep ==
    ASSUME PoolInv, EntriesInv', UNCHANGED <<next_id, settings>>,
           \/ UNCHANGED current_id
           \/ \E S \in SUBSET DOMAIN entries' : Retarget(entries', S),
           UNCHANGED storage \/ \E S \in SUBSET Ids : Save(S)
    PROVE  PoolInv'
<1>1. current_id' \in Nat
  BY RetargetInv DEF PoolInv
<1>2. IsFile(disk)' /\ saves' \in Debts
  <2>1. CASE UNCHANGED storage
    BY <2>1 DEF PoolInv, IsFile, storage
  <2> QED
    BY <2>1, SaveInv
<1> QED
  BY <1>1, <1>2 DEF PoolInv, Debts

LEMMA EnabledInSubset == \A es : EnabledIn(es) \subseteq DOMAIN es
BY DEF EnabledIn

---------------------------------------------------------------------------
(* The invariant is inductive: one lemma per group of actions, one step    *)
(* per action.                                                             *)

LEMMA InitInv == Init => PoolInv
<1> SUFFICES ASSUME Init PROVE PoolInv
  OBVIOUS
<1>1. PICK f \in InitialFiles :
        /\ entries = [c \in DOMAIN f |-> Loaded(f[c], 0)]
        /\ IF EnabledIn(entries) = {} THEN current_id = NoCurrent
           ELSE current_id \in HighestPriority(entries, EnabledIn(entries))
        /\ next_id \in FreeIdAbove(DOMAIN f)
        /\ disk \in {f, Image(entries)}
        /\ saves = NothingOwed
        /\ settings \in [mode: Modes, heal: HealConfigs, rpm_limit: RpmLimits]
  BY DEF Init
<1>2. IsFile(f)
  BY PoolAssumption
<1>3. Live = DOMAIN f /\ Live \subseteq Ids /\ DOMAIN entries = DOMAIN f
  BY <1>1, <1>2 DEF Live, IsFile
<1>4. \A c \in Live : EntryOK(entries[c])
  BY <1>1, <1>2, <1>3, LoadedOK DEF IsFile
<1>5. EntriesInv
  BY <1>1, <1>3, <1>4 DEF EntriesInv, EntryOK
<1>6. current_id \in Nat
  <2>1. EnabledIn(entries) \subseteq Nat
    BY <1>3, EnabledInSubset, PoolAssumption
  <2>2. HighestPriority(entries, EnabledIn(entries)) \subseteq Nat
    BY <2>1, HighestPrioritySubset
  <2> QED
    BY <1>1, <2>2 DEF NoCurrent
<1>7. next_id \in Nat \ {0}
  BY <1>1, <1>3, FreeIdAboveType, PoolAssumption
<1>8. IsFile(disk)
  BY <1>1, <1>2, <1>5, ImageType DEF EntriesInv, Live
<1>9. saves \in Debts
  BY <1>1, PoolAssumption DEF NothingOwed, Debts
<1> QED
  BY <1>1, <1>5, <1>6, <1>7, <1>8, <1>9 DEF PoolInv

LEMMA ReportInv ==
    ASSUME PoolInv, NEW c \in Ids, ReportNext(c)
    PROVE  PoolInv'
<1> DEFINE e == entries[c]
<1>0. EntriesInv /\ (c \in Live => EntryOK(e) /\ e \in CredentialEntry)
  BY DEF PoolInv, EntriesInv, EntryOK
<1>1. ASSUME NEW m \in ModelArgs, ReportSuccess(c, m)
      PROVE  PoolInv'
  <2>1. EntriesInv'
    BY <1>0, <1>1, SucceededOK, ClearedStreakOK, SetInv DEF ReportSuccess
  <2> QED
    BY <1>1, <2>1, EntriesStep DEF ReportSuccess
<1>2. ASSUME ReportFailure(c)
      PROVE  PoolInv'
  <2>1. EntriesInv'
    BY <1>0, <1>2, CountedFailureOK, SetInv DEF ReportFailure, Enabled
  <2>2. UNCHANGED current_id \/ Retarget(entries', EnabledIn(entries'))
    BY <1>2 DEF ReportFailure
  <2> QED
    BY <1>2, <2>1, <2>2, EntriesStep, EnabledInSubset DEF ReportFailure
<1>3. ASSUME ReportQuotaExhausted(c)
      PROVE  PoolInv'
  <2> DEFINE f == [e EXCEPT !.failure_count = MAX_FAILURES_PER_CREDENTIAL]
  <2>0. MAX_FAILURES_PER_CREDENTIAL \in 0 .. MAX_FAILURES_PER_CREDENTIAL
    BY PoolAssumption
  <2>1. f \in CredentialEntry
    BY <1>0, <1>3, <2>0, FieldType DEF ReportQuotaExhausted, Enabled
  <2>2. EntryOK(DisabledFor(f, "QuotaExceeded"))
    BY <2>1, DisabledForOK DEF DisabledReason, IsSelfHealable
  <2>3. EntriesInv'
    BY <1>0, <1>3, <2>2, SetInv DEF ReportQuotaExhausted, Enabled
  <2> QED
    BY <1>3, <2>3, EntriesStep, EnabledInSubset DEF ReportQuotaExhausted
<1>4. ASSUME ReportRefreshFailure(c)
      PROVE  PoolInv'
  <2> DEFINE n == e.refresh_failure_count + 1
             f == [e EXCEPT !.refresh_failure_count = n]
             last == f.refresh_failure_count >= MAX_FAILURES_PER_CREDENTIAL
  <2>1. c \in Live /\ ~e.disabled /\ BelowThreshold(e)
    BY <1>0, <1>4 DEF ReportRefreshFailure, Enabled, EntryOK
  <2>2. n \in 0 .. MAX_FAILURES_PER_CREDENTIAL
    BY <1>0, <2>1, PoolAssumption DEF BelowThreshold, CredentialEntry
  <2>3. f \in CredentialEntry
    BY <1>0, <2>1, <2>2, FieldType
  <2>4. EntryOK(DisabledFor(f, "TooManyRefreshFailures"))
    BY <2>3, DisabledForOK DEF DisabledReason, IsSelfHealable
  <2>5. /\ f.refresh_failure_count = n /\ f.failure_count = e.failure_count
        /\ f.disabled = e.disabled /\ f.disabled_reason = e.disabled_reason
    BY <1>0, <2>1 DEF CredentialEntry
  <2>6. ASSUME ~last
        PROVE  EntryOK(f)
    <3>1. n < MAX_FAILURES_PER_CREDENTIAL
      BY <2>2, <2>5, <2>6, PoolAssumption
    <3> QED
      BY <2>1, <2>3, <2>5, <3>1 DEF EntryOK, BelowThreshold
  <2>7. Set(c, IF last THEN DisabledFor(f, "TooManyRefreshFailures") ELSE f)
    BY <1>4 DEF ReportRefreshFailure
  <2>8. EntriesInv'
    BY <1>0, <2>1, <2>4, <2>6, <2>7, SetInv
  <2>9. UNCHANGED current_id \/ Retarget(entries', EnabledIn(entries'))
    BY <1>4 DEF ReportRefreshFailure
  <2> QED
    BY <1>4, <2>8, <2>9, EntriesStep, EnabledInSubset DEF ReportRefreshFailure
<1>5. ASSUME ReportRefreshTokenInvalid(c)
      PROVE  PoolInv'
  <2>1. EntryOK(DisabledFor(e, "InvalidRefreshToken"))
    BY <1>0, <1>5, DisabledForOK
       DEF ReportRefreshTokenInvalid, Enabled, DisabledReason, IsSelfHealable
  <2>2. EntriesInv'
    BY <1>0, <1>5, <2>1, SetInv DEF ReportRefreshTokenInvalid, Enabled
  <2> QED
    BY <1>5, <2>2, EntriesStep, EnabledInSubset DEF ReportRefreshTokenInvalid
<1>6. ASSUME ReportAccountThrottled(c)
      PROVE  PoolInv'
  <2>1. EntriesInv'
    BY <1>0, <1>6, FieldOK, SetInv DEF ReportAccountThrottled
  <2> QED
    BY <1>6, <2>1, EntriesStep DEF ReportAccountThrottled
<1>7. ASSUME NEW r \in Rules, NEW m \in ModelArgs, NEW g \in GroupArgs,
             ReportCustomRuleHit(c, r, m, g)
      PROVE  PoolInv'
  <2>1. EffectiveAction(r, m, g) \in RuleAction
    BY PoolAssumption DEF EffectiveAction, ErrorRule, RuleAction
  <2>2. EntriesInv'
    BY <1>0, <1>7, <2>1, AfterRuleOK, SetInv DEF ReportCustomRuleHit, Enabled
  <2>3. UNCHANGED current_id \/ Retarget(entries', InScope(entries', m, g))
    BY <1>7 DEF ReportCustomRuleHit
  <2>4. InScope(entries', m, g) \subseteq DOMAIN entries'
    BY DEF InScope
  <2> QED
    BY <1>7, <2>2, <2>3, <2>4, EntriesStep DEF ReportCustomRuleHit
<1> QED
  BY <1>1, <1>2, <1>3, <1>4, <1>5, <1>6, <1>7 DEF ReportNext

LEMMA AcquireInv ==
    ASSUME PoolInv, NEW c \in Ids, AcquireNext(c)
    PROVE  PoolInv'
<1> DEFINE e == entries[c]
<1>0. EntriesInv /\ (c \in Live => EntryOK(e) /\ e \in CredentialEntry)
  BY DEF PoolInv, EntriesInv, EntryOK
<1>1. ASSUME BindCurrent(c)
      PROVE  PoolInv'
  <2>1. EntriesInv'
    BY <1>1 DEF BindCurrent, PoolInv, EntriesInv, Live, EntryOK, BelowThreshold
  <2>2. IsFile(disk)' /\ saves' \in Debts
    BY <1>1 DEF BindCurrent, PoolInv, IsFile, storage
  <2> QED
    BY <1>1, <2>1, <2>2, PoolAssumption DEF BindCurrent, PoolInv, Debts
<1>2. ASSUME RecordRequest(c)
      PROVE  PoolInv'
  <2> DEFINE n == IF settings.rpm_limit = 0 THEN 0 ELSE e.rpm_used + 1
  <2>1. n \in Nat
    BY <1>0, <1>2 DEF RecordRequest, CredentialEntry
  <2>2. EntryOK([e EXCEPT !.rpm_used = n])
    BY <1>0, <1>2, <2>1, FieldOK DEF RecordRequest
  <2>3. EntriesInv'
    BY <1>0, <1>2, <2>2, SetInv DEF RecordRequest
  <2> QED
    BY <1>2, <2>3, EntriesStep DEF RecordRequest
<1>3. ASSUME NEW cred \in Snapshots, NEW refreshed \in BOOLEAN, NEW counted \in BOOLEAN,
             TokenObtained(c, cred, refreshed, counted)
      PROVE  PoolInv'
  <2> DEFINE k == IF refreshed THEN cred ELSE e.credentials
             f == [e EXCEPT !.credentials = k]
             n == IF counted THEN 0 ELSE e.refresh_failure_count
  <2>1. c \in Live /\ EntryOK(e) /\ e \in CredentialEntry
    BY <1>0, <1>3 DEF TokenObtained
  <2>2. k \in KiroCredentials
    BY <2>1, PoolAssumption DEF Snapshots, KiroCredentials, CredentialEntry
  <2>3. EntryOK(f) /\ f \in CredentialEntry
    BY <2>1, <2>2, FieldOK DEF EntryOK
  <2>4. f.refresh_failure_count = e.refresh_failure_count
    BY <2>1 DEF CredentialEntry
  <2>5. [f EXCEPT !.refresh_failure_count = f.refresh_failure_count] = f
    BY <2>3 DEF CredentialEntry
  <2>6. EntryOK([f EXCEPT !.refresh_failure_count = n])
    BY <2>3, <2>4, <2>5, FieldOK
  <2>7. EntriesInv'
    BY <1>0, <1>3, <2>1, <2>6, SetInv DEF TokenObtained
  <2> QED
    BY <1>3, <2>7, EntriesStep DEF TokenObtained
<1> QED
  BY <1>1, <1>2, <1>3 DEF AcquireNext

(* Self-heal and the reload from the file. *)
LEMMA ReviveInv ==
    ASSUME PoolInv,
           \/ \E m \in ModelArgs, g \in GroupArgs : TrySelfHeal(m, g)
           \/ \E c \in Ids : ReloadFromFile(c)
    PROVE  PoolInv'
<1>0. EntriesInv
  BY DEF PoolInv
<1>1. ASSUME NEW m \in ModelArgs, NEW g \in GroupArgs, TrySelfHeal(m, g)
      PROVE  PoolInv'
  <2>1. /\ DOMAIN entries' = Live
        /\ \A c \in Live : entries'[c] = IF c \in HealSet(m, g) THEN Healed(entries[c], m)
                                                               ELSE entries[c]
    BY <1>1 DEF TrySelfHeal
  <2>2. ASSUME NEW c \in HealSet(m, g)
        PROVE  EntryOK(Healed(entries[c], m))
    BY <1>0, HealedOK DEF HealSet, EntriesInv
  <2>3. \A c \in Live : EntryOK(entries'[c])
    BY <1>0, <2>1, <2>2 DEF EntriesInv
  <2>4. entries' \in [Live -> CredentialEntry]
    BY <1>1, <2>1, <2>3 DEF TrySelfHeal, EntryOK
  <2>5. EntriesInv'
    BY <1>0, <2>1, <2>3, <2>4 DEF EntriesInv, Live, EntryOK, BelowThreshold
  <2>6. HealSet(m, g) \in SUBSET Ids
    BY <1>0 DEF HealSet, EntriesInv
  <2> QED
    BY <1>1, <2>5, <2>6, EntriesStep DEF TrySelfHeal
<1>2. ASSUME NEW c \in Ids, ReloadFromFile(c)
      PROVE  PoolInv'
  <2> DEFINE f == [entries[c] EXCEPT !.refresh_failure_count = 0]
  <2>1. c \in Live /\ entries[c] \in CredentialEntry /\ EntryOK(entries[c])
    BY <1>0, <1>2 DEF ReloadFromFile, EntriesInv
  <2>2. f \in CredentialEntry
    BY <2>1, FieldOK DEF EntryOK
  <2>3. f.refresh_failure_count < MAX_FAILURES_PER_CREDENTIAL
    BY <2>1, PoolAssumption DEF CredentialEntry
  <2>4. EntryOK(Reenabled(f))
    BY <2>2, <2>3, ReenabledOK
  <2>5. EntriesInv'
    BY <1>0, <1>2, <2>1, <2>4, SetInv DEF ReloadFromFile
  <2> QED
    BY <1>2, <2>5, EntriesStep DEF ReloadFromFile
<1> QED
  BY <1>1, <1>2

(* An enable or a reset by the operator. *)
LEMMA ReleasedOK ==
    ASSUME NEW e, EntryOK(e)
    PROVE  EntryOK(ClearedStreak(Reenabled(Calm(e))))
<1>1. Calm(e) \in CredentialEntry /\ Calm(e).refresh_failure_count = 0
  BY CalmFields, ChangeType DEF EntryOK
<1>2. EntryOK(Reenabled(Calm(e)))
  BY <1>1, ReenabledOK, PoolAssumption
<1> QED
  BY <1>2, ClearedStreakOK

(* A step that gives every live credential a sound entry. *)
LEMMA MapInv ==
    ASSUME EntriesInv, entries' = [c \in Live |-> entries'[c]],
           \A c \in Live : EntryOK(entries'[c])
    PROVE  EntriesInv'
<1>1. DOMAIN entries' = Live
  OBVIOUS
<1>2. entries' \in [Live -> CredentialEntry]
  BY DEF EntryOK
<1> QED
  BY <1>1, <1>2 DEF EntriesInv, Live, EntryOK, BelowThreshold

(* Adding an entry and dropping entries. *)
LEMMA AddInv ==
    ASSUME EntriesInv, NEW n \in Ids, NEW e, EntryOK(e),
           entries' = [c \in Live \cup {n} |-> IF c = n THEN e ELSE entries[c]]
    PROVE  EntriesInv'
<1>1. /\ DOMAIN entries' = Live \cup {n}
      /\ \A c \in Live \cup {n} : entries'[c] = IF c = n THEN e ELSE entries[c]
  OBVIOUS
<1>2. \A c \in Live \cup {n} : EntryOK(entries'[c])
  BY <1>1 DEF EntriesInv
<1>3. entries' \in [Live \cup {n} -> CredentialEntry]
  BY <1>1, <1>2 DEF EntryOK
<1> QED
  BY <1>1, <1>2, <1>3 DEF EntriesInv, Live, EntryOK, BelowThreshold

LEMMA DropInv ==
    ASSUME EntriesInv, NEW S, entries' = [d \in Live \ S |-> entries[d]]
    PROVE  EntriesInv'
<1>1. /\ DOMAIN entries' = Live \ S
      /\ \A c \in Live \ S : entries'[c] = entries[c]
  OBVIOUS
<1>2. \A c \in Live \ S : EntryOK(entries'[c])
  BY <1>1 DEF EntriesInv
<1>3. entries' \in [Live \ S -> CredentialEntry]
  BY <1>1, <1>2 DEF EntryOK
<1> QED
  BY <1>1, <1>2, <1>3 DEF EntriesInv, Live, EntryOK, BelowThreshold

LEMMA OperatorInv ==
    ASSUME PoolInv, OperatorNext
    PROVE  PoolInv'
<1>0. EntriesInv /\ \A c \in Live : EntryOK(entries[c]) /\ entries[c] \in CredentialEntry
  BY DEF PoolInv, EntriesInv, EntryOK
<1>1. ASSUME NEW c \in Ids, NEW b \in BOOLEAN, SetDisabled(c, b)
      PROVE  PoolInv'
  <2>1. EntryOK(DisabledFor(entries[c], "Manual"))
    BY <1>0, <1>1, DisabledForOK DEF SetDisabled, DisabledReason, IsSelfHealable
  <2>2. EntriesInv'
    BY <1>0, <1>1, <2>1, ReleasedOK, SetInv DEF SetDisabled
  <2> QED
    BY <1>1, <2>2, EntriesStep DEF SetDisabled
<1>2. ASSUME NEW c \in Ids, NEW b \in BOOLEAN, UpdateSubscription(c, b)
      PROVE  PoolInv'
  <2> DEFINE k == [entries[c].credentials EXCEPT !.opus = b]
  <2>1. k \in KiroCredentials
    BY <1>0, <1>2 DEF UpdateSubscription, CredentialEntry, KiroCredentials
  <2>2. EntryOK([entries[c] EXCEPT !.credentials = k])
    BY <1>0, <1>2, <2>1, FieldOK DEF UpdateSubscription
  <2>3. EntriesInv'
    BY <1>0, <1>2, <2>2, SetInv DEF UpdateSubscription
  <2> QED
    BY <1>2, <2>3, EntriesStep DEF UpdateSubscription
<1>3. ASSUME NEW c \in Ids, ResetAndEnable(c)
      PROVE  PoolInv'
  <2>1. EntriesInv'
    BY <1>0, <1>3, ReleasedOK, SetInv DEF ResetAndEnable
  <2> QED
    BY <1>3, <2>1, EntriesStep DEF ResetAndEnable
<1>4. ASSUME NEW c \in Ids, ClearThrottle(c)
      PROVE  PoolInv'
  <2>1. EntriesInv'
    BY <1>0, <1>4, FieldOK, SetInv DEF ClearThrottle
  <2> QED
    BY <1>4, <2>1, EntriesStep DEF ClearThrottle
<1>5. ASSUME NEW c \in Ids, DisableQuotaExceeded(c)
      PROVE  PoolInv'
  <2>1. EntryOK(DisabledFor(entries[c], "QuotaExceeded"))
    BY <1>0, <1>5, DisabledForOK DEF DisableQuotaExceeded, DisabledReason, IsSelfHealable
  <2>2. EntriesInv'
    BY <1>0, <1>5, <2>1, SetInv DEF DisableQuotaExceeded
  <2> QED
    BY <1>5, <2>2, EntriesStep DEF DisableQuotaExceeded
<1>6. ASSUME NEW c \in Ids, NEW p \in Priorities, SetPriority(c, p)
      PROVE  PoolInv'
  <2> DEFINE k == [entries[c].credentials EXCEPT !.priority = p]
  <2>1. k \in KiroCredentials
    BY <1>0, <1>6, PoolAssumption DEF SetPriority, CredentialEntry, KiroCredentials
  <2>2. EntryOK([entries[c] EXCEPT !.credentials = k])
    BY <1>0, <1>6, <2>1, FieldOK DEF SetPriority
  <2>3. EntriesInv'
    BY <1>0, <1>6, <2>2, SetInv DEF SetPriority
  <2> QED
    BY <1>6, <2>3, EntriesStep, EnabledInSubset DEF SetPriority
<1>7. ASSUME NEW c \in Ids, NEW gs \in SUBSET Groups, UpdateCredential(c, gs)
      PROVE  PoolInv'
  <2> DEFINE k == [entries[c].credentials EXCEPT !.groups = gs]
  <2>1. k \in KiroCredentials
    BY <1>0, <1>7 DEF UpdateCredential, CredentialEntry, KiroCredentials
  <2>2. EntryOK([entries[c] EXCEPT !.credentials = k])
    BY <1>0, <1>7, <2>1, FieldOK DEF UpdateCredential
  <2>3. EntriesInv'
    BY <1>0, <1>7, <2>2, SetInv DEF UpdateCredential
  <2> QED
    BY <1>7, <2>3, EntriesStep DEF UpdateCredential
<1>8. ASSUME NEW c \in Ids, DeleteCredential(c)
      PROVE  PoolInv'
  <2>1. EntriesInv'
    BY <1>0, <1>8, DropInv DEF DeleteCredential
  <2>2. current_id' = NoCurrent \/ UNCHANGED current_id
        \/ Retarget(entries', EnabledIn(entries'))
    BY <1>8 DEF DeleteCredential
  <2>3. CASE current_id' = NoCurrent
    <3>1. IsFile(disk)' /\ saves' \in Debts
      BY <1>8, <2>1, SaveInv DEF DeleteCredential
    <3> QED
      BY <1>8, <2>1, <2>3, <3>1 DEF DeleteCredential, PoolInv, NoCurrent, Debts
  <2> QED
    BY <1>8, <2>1, <2>2, <2>3, EntriesStep, EnabledInSubset DEF DeleteCredential
<1>9. ASSUME NEW c \in Ids, UpdateRefreshToken(c)
      PROVE  PoolInv'
  <2>1. EntriesInv'
    BY <1>0, <1>9, FieldOK, SetInv DEF UpdateRefreshToken
  <2> QED
    BY <1>9, <2>1, EntriesStep DEF UpdateRefreshToken
<1>10. ASSUME NEW S, ResetSuccessCount(S)
      PROVE  PoolInv'
  <2>1. \A c \in Live : EntryOK(entries'[c])
    BY <1>0, <1>10, FieldOK DEF ResetSuccessCount
  <2>2. entries' = [c \in Live |-> entries'[c]]
    BY <1>10 DEF ResetSuccessCount
  <2>3. EntriesInv'
    BY <1>0, <2>1, <2>2, MapInv
  <2> QED
    BY <1>10, <2>3, EntriesStep DEF ResetSuccessCount
<1>11. ASSUME NEW cred \in NewCredentials, NEW duplicate \in BOOLEAN,
              AddCredential(cred, duplicate)
      PROVE  PoolInv'
  <2>1. EntryOK(FreshEntry(cred)) /\ next_id \in Ids
    BY <1>11, FreshOK, PoolAssumption DEF AddCredential
  <2>2. CASE duplicate
    BY <1>11, <2>2, <2>1, PoolAssumption
       DEF AddCredential, PoolInv, EntriesInv, Live, EntryOK, BelowThreshold, IsFile,
           storage, Debts
  <2>3. CASE ~duplicate
    <3>1. EntriesInv'
      BY <1>0, <1>11, <2>1, <2>3, AddInv DEF AddCredential
    <3>2. IsFile(disk)' /\ saves' \in Debts
      BY <1>11, <2>1, <2>3, <3>1, SaveInv DEF AddCredential
    <3>3. next_id' \in Nat \ {0}
      BY <1>11 DEF AddCredential, PoolInv
    <3> QED
      BY <1>11, <3>1, <3>2, <3>3 DEF AddCredential, PoolInv, Debts
  <2> QED
    BY <2>2, <2>3
<1>12. ASSUME NEW old \in Groups, NEW new \in SUBSET Groups,
              entries' = Regroup(entries, old, new), Save(InGroup(old)),
              UNCHANGED <<current_id, next_id, settings>>
       PROVE  PoolInv'
  <2>1. ASSUME NEW c \in Live
        PROVE  EntryOK(entries'[c])
    <3> DEFINE k == [entries[c].credentials EXCEPT !.groups = (@ \ {old}) \cup new]
    <3>1. k \in KiroCredentials
      BY <1>0 DEF CredentialEntry, KiroCredentials
    <3>2. EntryOK([entries[c] EXCEPT !.credentials = k])
      BY <1>0, <3>1, FieldOK
    <3> QED
      BY <1>0, <1>12, <3>2 DEF Regroup, Live
  <2>2. entries' = [c \in Live |-> entries'[c]]
    BY <1>12 DEF Regroup, Live
  <2>3. EntriesInv'
    BY <1>0, <2>1, <2>2, MapInv
  <2>4. InGroup(old) \in SUBSET Ids
    BY <1>0 DEF InGroup, EntriesInv
  <2> QED
    BY <1>12, <2>3, <2>4, EntriesStep
<1>13. ASSUME SwitchToNext
       PROVE  PoolInv'
  <2>1. EntriesInv'
    BY <1>0, <1>13 DEF SwitchToNext, EntriesInv, Live, EntryOK, BelowThreshold
  <2>2. Retarget(entries', EnabledIn(entries') \ {current_id})
    BY <1>13 DEF SwitchToNext, Retarget
  <2> QED
    BY <1>13, <2>1, <2>2, EntriesStep, EnabledInSubset DEF SwitchToNext
<1>14. ASSUME NEW s \in [mode: Modes, heal: HealConfigs, rpm_limit: RpmLimits], Configure(s)
       PROVE  PoolInv'
  BY <1>14 DEF Configure, PoolInv, EntriesInv, Live, EntryOK, BelowThreshold, IsFile,
     storage, Debts
<1>15. ASSUME \/ \E mode \in Modes : SetLoadBalancingMode(mode)
              \/ \E h \in HealConfigs : SetSelfHealConfig(h)
              \/ \E n \in RpmLimits : SetAccountRpmConfig(n)
       PROVE  PoolInv'
  <2>1. settings \in [mode: Modes, heal: HealConfigs, rpm_limit: RpmLimits]
    BY DEF PoolInv
  <2> QED
    BY <1>14, <1>15, <2>1 DEF SetLoadBalancingMode, SetSelfHealConfig, SetAccountRpmConfig
<1>16. ASSUME NEW old \in Groups, NEW new \in Groups, RenameGroup(old, new)
       PROVE  PoolInv'
  BY <1>12, <1>16 DEF RenameGroup
<1>17. ASSUME NEW g \in Groups, RemoveGroup(g)
       PROVE  PoolInv'
  BY <1>12, <1>17 DEF RemoveGroup
<1> QED
  BY <1>1, <1>2, <1>3, <1>4, <1>5, <1>6, <1>7, <1>8, <1>9, <1>10, <1>11, <1>13, <1>15,
     <1>16, <1>17, PoolAssumption DEF OperatorNext

LEMMA TimeInv ==
    ASSUME PoolInv, TimeNext
    PROVE  PoolInv'
<1>0. EntriesInv /\ \A c \in Live : EntryOK(entries[c]) /\ entries[c] \in CredentialEntry
  BY DEF PoolInv, EntriesInv, EntryOK
<1>1. ASSUME Tick
      PROVE  PoolInv'
  <2>1. /\ entries' = [c \in Live |-> entries'[c]]
        /\ \A c \in Live : EntryOK(entries'[c])
    BY <1>0, <1>1, AgedOK DEF Tick
  <2>2. EntriesInv'
    BY <1>0, <2>1, MapInv
  <2>3. DOMAIN disk \subseteq Ids /\ \A c \in DOMAIN disk : disk[c] \in Persisted
    BY DEF PoolInv, IsFile
  <2>4. DOMAIN disk' = DOMAIN disk /\ \A c \in DOMAIN disk : disk'[c] \in Persisted
    BY <1>1, <2>3, AgedOK DEF Tick
  <2>5. disk' \in [DOMAIN disk -> Persisted]
    BY <1>1, <2>4 DEF Tick
  <2> QED
    BY <1>1, <2>2, <2>3, <2>4, <2>5 DEF Tick, PoolInv, IsFile, Debts
<1>2. ASSUME NEW c \in Ids, ThrottleExpire(c)
      PROVE  PoolInv'
  <2>1. EntriesInv'
    BY <1>0, <1>2, FieldOK, SetInv DEF ThrottleExpire
  <2> QED
    BY <1>2, <2>1, EntriesStep DEF ThrottleExpire
<1>3. ASSUME NEW c \in Ids, RpmSlide(c)
      PROVE  PoolInv'
  <2>1. entries[c].rpm_used - 1 \in Nat
    BY <1>0, <1>3 DEF RpmSlide, CredentialEntry
  <2>2. EntriesInv'
    BY <1>0, <1>3, <2>1, FieldOK, SetInv DEF RpmSlide
  <2> QED
    BY <1>3, <2>2, EntriesStep DEF RpmSlide
<1> QED
  BY <1>1, <1>2, <1>3 DEF TimeNext

LEMMA RestartInv ==
    ASSUME PoolInv, Restart
    PROVE  PoolInv'
<1>1. PICK uses \in [DOMAIN disk -> 0 .. SuccessCap] : Boot(disk, uses)
  BY DEF Restart
<1>2. DOMAIN disk \subseteq Ids /\ \A c \in DOMAIN disk : disk[c] \in Persisted
  BY DEF PoolInv, IsFile
<1>3. /\ DOMAIN entries' = DOMAIN disk
      /\ \A c \in DOMAIN disk : entries'[c] = Loaded(disk[c], uses[c])
  BY <1>1 DEF Boot
<1>4. \A c \in DOMAIN disk : uses[c] \in Nat
  BY PoolAssumption
<1>5. \A c \in DOMAIN disk : EntryOK(entries'[c])
  BY <1>2, <1>3, <1>4, LoadedOK
<1>6. entries' \in [DOMAIN disk -> CredentialEntry]
  BY <1>1, <1>3, <1>5 DEF Boot, EntryOK
<1>7. EntriesInv'
  BY <1>2, <1>3, <1>5, <1>6 DEF EntriesInv, Live, EntryOK, BelowThreshold
<1>8. current_id' \in Nat
  <2>1. EnabledIn(entries') \subseteq Nat
    BY <1>2, <1>3, EnabledInSubset, PoolAssumption
  <2>2. HighestPriority(entries', EnabledIn(entries')) \subseteq Nat
    BY <2>1, HighestPrioritySubset
  <2> QED
    BY <1>1, <2>2 DEF Boot, NoCurrent
<1>9. next_id' \in Nat \ {0}
  BY <1>1, <1>2, FreeIdAboveType, PoolAssumption DEF Boot
<1>10. IsFile(disk')
  <2>1. IsFile(Image(entries'))
    BY <1>2, <1>3, <1>6, ImageType
  <2> QED
    BY <1>1, <2>1 DEF Boot, PoolInv
<1>11. IsFile(disk)' /\ saves' \in Debts
  BY <1>10, PoolAssumption DEF IsFile, Restart, NothingOwed, Debts
<1> QED
  BY <1>7, <1>8, <1>9, <1>11 DEF PoolInv, Restart, Debts

(* A save that was still to come writes the entries there are, or fails. *)
LEMMA PersistInv ==
    ASSUME PoolInv, Persist
    PROVE  PoolInv'
<1>1. EntriesInv'
  BY DEF Persist, PoolInv, EntriesInv, Live, EntryOK, BelowThreshold
<1>2. IsFile(Image(entries))
  BY ImageType DEF PoolInv, EntriesInv, Live
<1>3. IsFile(disk)'
  BY <1>2 DEF Persist, PoolInv, IsFile
<1>4. saves.late - 1 \in 0 .. MaxLate /\ saves.unsaved \in SUBSET Ids
  BY PoolAssumption DEF Persist, PoolInv, Debts
<1>5. saves' \in Debts
  <2>1. CASE saves' = [late |-> saves.late - 1, unsaved |-> {}]
    BY <2>1, <1>4 DEF Debts
  <2>2. CASE saves' = [saves EXCEPT !.late = @ - 1]
    BY <2>2, <1>4 DEF Debts, PoolInv
  <2> QED
    BY <2>1, <2>2 DEF Persist
<1> QED
  BY <1>1, <1>3, <1>5 DEF Persist, PoolInv, Debts

(* Whoever acts, the invariant holds afterwards. *)
LEMMA NextInv ==
    ASSUME PoolInv, [Next]_pool
    PROVE  PoolInv'
<1>1. CASE RequestNext
  BY <1>1, ReportInv, AcquireInv, ReviveInv DEF RequestNext
<1>2. CASE RotationNext
  BY <1>2, ReviveInv DEF RotationNext
<1>3. CASE OperatorNext
  BY <1>3, OperatorInv
<1>4. CASE TimeNext
  BY <1>4, TimeInv
<1>5. CASE Restart
  BY <1>5, RestartInv
<1>6. CASE UNCHANGED pool
  BY <1>6 DEF pool, storage, PoolInv, EntriesInv, Live, EntryOK, BelowThreshold, IsFile, Debts
<1> QED
  BY <1>1, <1>2, <1>3, <1>4, <1>5, <1>6, PersistInv DEF Next

(* The inductive invariant holds in every reachable state of the pool.     *)
THEOREM PoolInvariant == Spec => []PoolInv
BY InitInv, NextInv, PTL DEF Spec

(* Every variable of the pool keeps its type: no counter of any credential *)
(* passes the threshold, and the file never holds an ill-formed record,    *)
(* whatever requests, operator, rotations, time and crashes do.            *)
THEOREM PoolTypeCorrect == Spec => []TypeOK
<1>1. PoolInv => TypeOK
  BY DEF PoolInv, EntriesInv, TypeOK, Debts
<1> QED
  BY <1>1, PoolInvariant, PTL

(* A credential is disabled exactly when it has a reason; an enabled one   *)
(* has failures left, and one that self-heal may revive has refresh        *)
(* failures left (try_self_heal resets only failure_count).                *)
THEOREM EnabledMeansBelowThreshold == Spec => []EnabledBelowThreshold
<1>1. PoolInv => EnabledBelowThreshold
  BY DEF PoolInv, EntriesInv, EntryOK, EnabledBelowThreshold
<1> QED
  BY <1>1, PoolInvariant, PTL

---------------------------------------------------------------------------
(* What a crash may rewind.                                                *)

(* Nothing a save would write differently: the configuration and the streak *)
(* of e, and no manual hold that e had not.                                *)
Kept(f, e) ==
    /\ f.credentials = e.credentials
    /\ f.streak = e.streak
    /\ f.disabled_reason = "Manual" => e.disabled_reason = "Manual"

(* A step changes nothing of that outside S. *)
KeptOutside(S) ==
    \A c \in Ids \ S : /\ c \in Live <=> c \in Live'
                       /\ c \in Live => Kept(entries'[c], entries[c])

(* The record p of the file says what a save of e would. *)
Durable(p, e) ==
    /\ p.credentials = e.credentials
    /\ p.streak = e.streak
    /\ e.disabled_reason = "Manual" => p.disabled /\ p.disabled_reason \in {"Manual", NoReason}

(* None of the changes that are not saved touches what is durable. *)
LEMMA KeptByChange ==
    ASSUME NEW e \in CredentialEntry
    PROVE  /\ Kept(e, e)
           /\ Kept(Calm(e), e)
           /\ Kept(Reenabled(e), e)
           /\ \A reason : reason # "Manual" => Kept(DisabledFor(e, reason), e)
           /\ \A x : /\ Kept([e EXCEPT !.failure_count = x], e)
                   /\ Kept([e EXCEPT !.refresh_failure_count = x], e)
                   /\ Kept([e EXCEPT !.throttled = x], e)
                   /\ Kept([e EXCEPT !.rpm_used = x], e)
                   /\ Kept([e EXCEPT !.success_count = x], e)
<1>1. Kept(e, e) /\ Kept(Calm(e), e) /\ Kept(Reenabled(e), e)
  BY DEF Kept, Calm, Reenabled, CredentialEntry, NoReason
<1>2. \A reason : reason # "Manual" => Kept(DisabledFor(e, reason), e)
  BY DEF Kept, DisabledFor, CredentialEntry
<1>3. \A x : /\ Kept([e EXCEPT !.failure_count = x], e)
            /\ Kept([e EXCEPT !.refresh_failure_count = x], e)
            /\ Kept([e EXCEPT !.throttled = x], e)
            /\ Kept([e EXCEPT !.rpm_used = x], e)
            /\ Kept([e EXCEPT !.success_count = x], e)
  BY DEF Kept, CredentialEntry
<1> QED
  BY <1>1, <1>2, <1>3

LEMMA KeptTransitive ==
    ASSUME NEW d, NEW e, NEW f, Kept(f, e), Kept(e, d)
    PROVE  Kept(f, d)
BY DEF Kept

(* What a save writes of a sound entry is durable. *)
LEMMA SavedDurable ==
    ASSUME NEW e, EntryOK(e)
    PROVE  Durable(Saved(e), e)
BY DEF Durable, Saved, EntryOK, BelowThreshold, NoReason

LEMMA DurableMeans ==
    StreakDurable <=> \A c \in Ids \ saves.unsaved :
                          /\ c \in Live <=> c \in DOMAIN disk
                          /\ c \in Live => Durable(disk[c], entries[c])
BY DEF StreakDurable, Durable

(* When the file is the image of the entries, nothing can be rewound. *)
LEMMA ImageDurable ==
    ASSUME EntriesInv, disk = Image(entries)
    PROVE  StreakDurable
<1>1. DOMAIN disk = Live /\ \A c \in Live : disk[c] = Saved(entries[c])
  BY DEF Image, Live
<1>2. \A c \in Live : Durable(disk[c], entries[c])
  BY <1>1, SavedDurable DEF EntriesInv
<1> QED
  BY <1>1, <1>2, DurableMeans

(* A step that changes what is durable only where it has that saved.       *)
LEMMA SaveDurable ==
    ASSUME EntriesInv', StreakDurable, NEW S \in SUBSET Ids, KeptOutside(S), Save(S),
           saves \in Debts
    PROVE  StreakDurable'
<1>1. CASE Write
  <2>1. disk' = Image(entries')
    BY <1>1 DEF Write
  <2>2. DOMAIN disk' = Live' /\ \A c \in Live' : disk'[c] = Saved(entries'[c])
    BY <2>1 DEF Image, Live
  <2>3. \A c \in Live' : Durable(disk'[c], entries'[c])
    <3>1. \A c \in Live' : EntryOK(entries'[c])
      BY DEF EntriesInv, EntryOK, BelowThreshold, Live
    <3> QED
      BY <2>2, <3>1, SavedDurable
  <2> QED
    BY <2>2, <2>3 DEF StreakDurable, Durable
<1>2. CASE SaveLater(S)
  <2>1. disk' = disk /\ saves'.unsaved = saves.unsaved \cup S
    BY <1>2 DEF SaveLater
  <2>2. \A c \in Ids \ saves'.unsaved : /\ c \in Live' <=> c \in DOMAIN disk
                                        /\ c \in Live' => Durable(disk[c], entries'[c])
    BY <2>1, DurableMeans DEF KeptOutside, Kept, Durable
  <2> QED
    BY <2>1, <2>2 DEF StreakDurable, Durable
<1> QED
  BY <1>1, <1>2 DEF Save

(* A change that is not saved, and keeps what is durable, loses nothing. *)
LEMMA KeepDurable ==
    ASSUME StreakDurable, KeptOutside({}), UNCHANGED storage
    PROVE  StreakDurable'
<1>1. disk' = disk /\ saves' = saves
  BY DEF storage
<1>2. \A c \in Ids \ saves.unsaved : /\ c \in Live' <=> c \in DOMAIN disk
                                     /\ c \in Live' => Durable(disk[c], entries'[c])
  BY DurableMeans DEF KeptOutside, Kept, Durable
<1> QED
  BY <1>1, <1>2 DEF StreakDurable, Durable

(* A change of one entry. *)
LEMMA SetKept ==
    ASSUME PoolInv, NEW c \in Live, NEW e, Set(c, e)
    PROVE  KeptOutside({c}) /\ (Kept(e, entries[c]) => KeptOutside({}))
<1>1. Live' = Live /\ \A d \in Live : entries'[d] = IF d = c THEN e ELSE entries[d]
  BY DEF Set, Live, PoolInv, EntriesInv
<1> QED
  BY <1>1 DEF KeptOutside, Kept

LEMMA SetDurable ==
    ASSUME PoolInv, EntriesInv', StreakDurable, NEW c \in Live, NEW e, Set(c, e),
           Save({c}) \/ (Kept(e, entries[c]) /\ UNCHANGED storage)
    PROVE  StreakDurable'
<1>1. {c} \in SUBSET Ids
  BY DEF PoolInv, EntriesInv
<1> QED
  BY <1>1, SetKept, SaveDurable, KeepDurable DEF PoolInv

LEMMA SameEntriesDurable ==
    ASSUME StreakDurable, UNCHANGED <<entries, storage>>
    PROVE  StreakDurable'
BY DEF StreakDurable, Live, storage

LEMMA InitDurable == Init => StreakDurable
<1> SUFFICES ASSUME Init PROVE StreakDurable
  OBVIOUS
<1>1. PICK f \in InitialFiles :
        /\ entries = [c \in DOMAIN f |-> Loaded(f[c], 0)]
        /\ disk \in {f, Image(entries)}
  BY DEF Init
<1>2. CASE disk = f
  <2>1. \A p, n : Durable(p, Loaded(p, n))
    BY DEF Durable, Loaded, LoadedReason, NoReason
  <2> QED
    BY <1>1, <1>2, <2>1, DurableMeans DEF Live
<1>3. CASE disk = Image(entries)
  BY <1>3, InitInv, ImageDurable DEF PoolInv
<1> QED
  BY <1>1, <1>2, <1>3

LEMMA ReportDurable ==
    ASSUME PoolInv, EntriesInv', StreakDurable, NEW c \in Ids, ReportNext(c)
    PROVE  StreakDurable'
<1> DEFINE e == entries[c]
<1>0. c \in Live => e \in CredentialEntry
  BY DEF PoolInv, EntriesInv
<1>1. ASSUME NEW m \in ModelArgs, ReportSuccess(c, m)
      PROVE  StreakDurable'
  <2> DEFINE cleared == Succeeded(e).streak.rounds > 0 /\ Succeeded(e).streak.model = m
             f == IF cleared THEN ClearedStreak(Succeeded(e)) ELSE Succeeded(e)
  <2>1. c \in Live /\ e \in CredentialEntry /\ Calm(e) \in CredentialEntry
    BY <1>0, <1>1, ChangeType DEF ReportSuccess
  <2>2. Kept(Succeeded(e), e)
    <3>1. \A x : Kept([Calm(e) EXCEPT !.success_count = x], Calm(e))
      BY <2>1, KeptByChange
    <3>2. Kept(Calm(e), e)
      BY <2>1, KeptByChange
    <3>3. Kept(Succeeded(e), Calm(e))
      BY <3>1 DEF Succeeded
    <3> QED
      BY <3>2, <3>3, KeptTransitive
  <2>3. Set(c, f) /\ (IF cleared THEN Save({c}) ELSE UNCHANGED storage)
    BY <1>1 DEF ReportSuccess
  <2> QED
    BY <2>1, <2>2, <2>3, SetDurable
<1>2. ASSUME ReportFailure(c)
      PROVE  StreakDurable'
  <2> DEFINE f == [e EXCEPT !.failure_count = e.failure_count + 1]
  <2>1. c \in Live /\ e \in CredentialEntry /\ Kept(f, e)
    BY <1>0, <1>2, KeptByChange DEF ReportFailure, Enabled
  <2>2. Kept(DisabledFor(f, "TooManyFailures"), f)
    BY <2>1 DEF Kept, DisabledFor, CredentialEntry
  <2>3. Kept(CountedFailure(e), e)
    BY <2>1, <2>2, KeptTransitive DEF CountedFailure
  <2> QED
    BY <1>2, <2>1, <2>3, SetDurable DEF ReportFailure
<1>3. ASSUME ReportQuotaExhausted(c)
      PROVE  StreakDurable'
  <2> DEFINE f == [e EXCEPT !.failure_count = MAX_FAILURES_PER_CREDENTIAL]
  <2>1. c \in Live /\ e \in CredentialEntry /\ Kept(f, e)
    BY <1>0, <1>3, KeptByChange DEF ReportQuotaExhausted, Enabled
  <2>2. Kept(DisabledFor(f, "QuotaExceeded"), f)
    BY <2>1 DEF Kept, DisabledFor, CredentialEntry
  <2>3. Kept(DisabledFor(f, "QuotaExceeded"), e)
    BY <2>1, <2>2, KeptTransitive
  <2> QED
    BY <1>3, <2>1, <2>3, SetDurable DEF ReportQuotaExhausted
<1>4. ASSUME ReportRefreshFailure(c)
      PROVE  StreakDurable'
  <2> DEFINE f == [e EXCEPT !.refresh_failure_count = e.refresh_failure_count + 1]
             last == f.refresh_failure_count >= MAX_FAILURES_PER_CREDENTIAL
             h == IF last THEN DisabledFor(f, "TooManyRefreshFailures") ELSE f
  <2>1. c \in Live /\ e \in CredentialEntry /\ Kept(f, e)
    BY <1>0, <1>4, KeptByChange DEF ReportRefreshFailure, Enabled
  <2>2. Kept(DisabledFor(f, "TooManyRefreshFailures"), f)
    BY <2>1 DEF Kept, DisabledFor, CredentialEntry
  <2>3. Kept(h, e)
    BY <2>1, <2>2, KeptTransitive
  <2>4. Set(c, h) /\ UNCHANGED storage
    BY <1>4 DEF ReportRefreshFailure
  <2> QED
    BY <2>1, <2>3, <2>4, SetDurable
<1>5. ASSUME ReportRefreshTokenInvalid(c)
      PROVE  StreakDurable'
  <2>1. c \in Live /\ Kept(DisabledFor(e, "InvalidRefreshToken"), e)
    BY <1>0, <1>5, KeptByChange DEF ReportRefreshTokenInvalid, Enabled
  <2> QED
    BY <1>5, <2>1, SetDurable DEF ReportRefreshTokenInvalid
<1>6. ASSUME ReportAccountThrottled(c)
      PROVE  StreakDurable'
  BY <1>0, <1>6, KeptByChange, SetDurable DEF ReportAccountThrottled
<1>7. ASSUME NEW r \in Rules, NEW m \in ModelArgs, NEW g \in GroupArgs,
             ReportCustomRuleHit(c, r, m, g)
      PROVE  StreakDurable'
  BY <1>7, SetDurable DEF ReportCustomRuleHit, Enabled
<1> QED
  BY <1>1, <1>2, <1>3, <1>4, <1>5, <1>6, <1>7 DEF ReportNext

LEMMA AcquireDurable ==
    ASSUME PoolInv, EntriesInv', StreakDurable, NEW c \in Ids, AcquireNext(c)
    PROVE  StreakDurable'
<1> DEFINE e == entries[c]
<1>0. c \in Live => e \in CredentialEntry
  BY DEF PoolInv, EntriesInv
<1>1. ASSUME BindCurrent(c)
      PROVE  StreakDurable'
  BY <1>1, SameEntriesDurable DEF BindCurrent
<1>2. ASSUME RecordRequest(c)
      PROVE  StreakDurable'
  BY <1>0, <1>2, KeptByChange, SetDurable DEF RecordRequest
<1>3. ASSUME NEW cred \in Snapshots, NEW refreshed \in BOOLEAN, NEW counted \in BOOLEAN,
             TokenObtained(c, cred, refreshed, counted)
      PROVE  StreakDurable'
  <2>1. CASE refreshed
    BY <1>3, <2>1, SetDurable DEF TokenObtained
  <2>2. CASE ~refreshed
    <3> DEFINE n == IF counted THEN 0 ELSE e.refresh_failure_count
               f == [e EXCEPT !.credentials = e.credentials]
    <3>1. c \in Live /\ e \in CredentialEntry
      BY <1>0, <1>3 DEF TokenObtained
    <3>2. f = e
      BY <3>1 DEF CredentialEntry
    <3>3. Set(c, [f EXCEPT !.refresh_failure_count = n]) /\ UNCHANGED storage
      BY <1>3, <2>2 DEF TokenObtained
    <3>4. Kept([f EXCEPT !.refresh_failure_count = n], e)
      BY <3>1, <3>2, KeptByChange
    <3> QED
      BY <3>1, <3>3, <3>4, SetDurable
  <2> QED
    BY <2>1, <2>2
<1> QED
  BY <1>1, <1>2, <1>3 DEF AcquireNext

LEMMA ReviveDurable ==
    ASSUME PoolInv, EntriesInv', StreakDurable,
           \/ \E m \in ModelArgs, g \in GroupArgs : TrySelfHeal(m, g)
           \/ \E c \in Ids : ReloadFromFile(c)
    PROVE  StreakDurable'
<1>0. \A c \in Live : Kept(entries[c], entries[c])
  BY DEF Kept
<1>1. ASSUME NEW m \in ModelArgs, NEW g \in GroupArgs, TrySelfHeal(m, g)
      PROVE  StreakDurable'
  <2>1. /\ Live' = Live
        /\ \A c \in Live \ HealSet(m, g) : entries'[c] = entries[c]
    BY <1>1 DEF TrySelfHeal, Live
  <2>2. KeptOutside(HealSet(m, g)) /\ HealSet(m, g) \in SUBSET Ids
    BY <1>0, <2>1 DEF KeptOutside, HealSet, PoolInv, EntriesInv
  <2> QED
    BY <1>1, <2>2, SaveDurable DEF TrySelfHeal, PoolInv
<1>2. ASSUME NEW c \in Ids, ReloadFromFile(c)
      PROVE  StreakDurable'
  <2> DEFINE e == entries[c]
             f == [e EXCEPT !.refresh_failure_count = 0]
  <2>1. c \in Live /\ e \in CredentialEntry
    BY <1>2 DEF ReloadFromFile, PoolInv, EntriesInv
  <2>2. f \in CredentialEntry
    BY <2>1, FieldOK DEF EntryOK, PoolInv, EntriesInv
  <2>3. Kept(Reenabled(f), e)
    BY <2>1, <2>2, KeptByChange, KeptTransitive, ZenonT(30)
  <2> QED
    BY <1>2, <2>1, <2>3, SetDurable DEF ReloadFromFile
<1> QED
  BY <1>1, <1>2

LEMMA OperatorDurable ==
    ASSUME PoolInv, EntriesInv', StreakDurable, OperatorNext
    PROVE  StreakDurable'
<1>0. \A c \in Live : entries[c] \in CredentialEntry /\ Kept(entries[c], entries[c])
  BY DEF PoolInv, EntriesInv, Kept
<1>1. ASSUME NEW c \in Ids,
             \/ \E b \in BOOLEAN : SetDisabled(c, b)
             \/ \E b \in OpusLevels : UpdateSubscription(c, b)
             \/ ResetAndEnable(c) \/ DisableQuotaExceeded(c)
             \/ \E p \in Priorities : SetPriority(c, p)
             \/ \E gs \in SUBSET Groups : UpdateCredential(c, gs)
             \/ UpdateRefreshToken(c)
      PROVE  StreakDurable'
  BY <1>1, SetDurable
     DEF SetDisabled, UpdateSubscription, ResetAndEnable, DisableQuotaExceeded, SetPriority,
         UpdateCredential, UpdateRefreshToken
<1>2. ASSUME NEW c \in Ids, ClearThrottle(c)
      PROVE  StreakDurable'
  BY <1>0, <1>2, KeptByChange, SetDurable DEF ClearThrottle
<1>3. ASSUME NEW S, ResetSuccessCount(S)
      PROVE  StreakDurable'
  <2>1. /\ Live' = Live
        /\ \A c \in Live : Kept(entries'[c], entries[c])
    BY <1>0, <1>3, KeptByChange DEF ResetSuccessCount, Live, Kept
  <2> QED
    BY <1>3, <2>1, KeepDurable DEF ResetSuccessCount, KeptOutside
<1>4. ASSUME NEW cred \in NewCredentials, NEW duplicate \in BOOLEAN,
             AddCredential(cred, duplicate)
      PROVE  StreakDurable'
  <2>1. CASE duplicate
    BY <1>4, <2>1, SameEntriesDurable DEF AddCredential
  <2>2. CASE ~duplicate
    <3>1. /\ Live' = Live \cup {next_id} /\ Save({next_id}) /\ next_id \in Ids
          /\ \A c \in Live \ {next_id} : entries'[c] = entries[c]
      BY <1>4, <2>2 DEF AddCredential, Live
    <3>2. KeptOutside({next_id})
      BY <1>0, <3>1 DEF KeptOutside
    <3> QED
      BY <3>1, <3>2, SaveDurable DEF PoolInv
  <2> QED
    BY <2>1, <2>2
<1>5. ASSUME NEW old, NEW new, entries' = Regroup(entries, old, new), Save(InGroup(old))
      PROVE  StreakDurable'
  <2>1. /\ Live' = Live /\ InGroup(old) \in SUBSET Ids
        /\ \A c \in Live \ InGroup(old) : entries'[c] = entries[c]
    BY <1>5 DEF Regroup, InGroup, Live, PoolInv, EntriesInv
  <2>2. KeptOutside(InGroup(old))
    BY <1>0, <2>1 DEF KeptOutside
  <2> QED
    BY <1>5, <2>1, <2>2, SaveDurable DEF PoolInv
<1>6. ASSUME \/ SwitchToNext
             \/ \E mode \in Modes : SetLoadBalancingMode(mode)
             \/ \E h \in HealConfigs : SetSelfHealConfig(h)
             \/ \E n \in RpmLimits : SetAccountRpmConfig(n)
      PROVE  StreakDurable'
  BY <1>6, SameEntriesDurable
     DEF SwitchToNext, SetLoadBalancingMode, SetSelfHealConfig, SetAccountRpmConfig, Configure
<1>7. ASSUME NEW c \in Ids, DeleteCredential(c)
      PROVE  StreakDurable'
  <2>1. /\ Live' = Live \ {c}
        /\ \A d \in Live \ {c} : entries'[d] = entries[d]
    BY <1>7 DEF DeleteCredential, Live
  <2>2. KeptOutside({c})
    BY <1>0, <2>1 DEF KeptOutside
  <2> QED
    BY <1>7, <2>2, SaveDurable DEF DeleteCredential, PoolInv
<1>8. ASSUME (\E g, h \in Groups : RenameGroup(g, h)) \/ (\E g \in Groups : RemoveGroup(g))
      PROVE  StreakDurable'
  BY <1>5, <1>8 DEF RenameGroup, RemoveGroup
<1> QED
  BY <1>1, <1>2, <1>3, <1>4, <1>6, <1>7, <1>8 DEF OperatorNext

(* Time passes for memory and for the file alike. *)
LEMMA TimeDurable ==
    ASSUME PoolInv, EntriesInv', StreakDurable, TimeNext
    PROVE  StreakDurable'
<1>0. \A c \in Live : entries[c] \in CredentialEntry
  BY DEF PoolInv, EntriesInv
<1>1. ASSUME Tick
      PROVE  StreakDurable'
  <2>1. \A c \in DOMAIN disk : disk[c] \in Persisted
    BY DEF PoolInv, IsFile
  <2>2. /\ DOMAIN disk' = DOMAIN disk /\ Live' = Live /\ saves' = saves
        /\ \A c \in Live : entries'[c] = Aged(entries[c])
        /\ \A c \in DOMAIN disk : disk'[c] = Aged(disk[c])
    BY <1>1 DEF Tick, Live
  <2>3. ASSUME NEW p \in Persisted, NEW e \in CredentialEntry, Durable(p, e)
        PROVE  Durable(Aged(p), Aged(e))
    <3>1. /\ Aged(e).credentials = e.credentials /\ Aged(p).credentials = p.credentials
          /\ Aged(e).disabled_reason = e.disabled_reason
          /\ Aged(p).disabled_reason = p.disabled_reason /\ Aged(p).disabled = p.disabled
          /\ Aged(e).streak = [e.streak EXCEPT !.age = Older(e.streak.age)]
          /\ Aged(p).streak = [p.streak EXCEPT !.age = Older(p.streak.age)]
      BY DEF Aged, CredentialEntry, Persisted
    <3> QED
      BY <2>3, <3>1 DEF Durable
  <2>4. \A c \in Ids \ saves.unsaved : /\ c \in Live' <=> c \in DOMAIN disk'
                                       /\ c \in Live' => Durable(disk'[c], entries'[c])
    BY <1>0, <2>1, <2>2, <2>3, DurableMeans
  <2> QED
    BY <2>2, <2>4 DEF StreakDurable, Durable
<1>2. ASSUME NEW c \in Ids, ThrottleExpire(c) \/ RpmSlide(c)
      PROVE  StreakDurable'
  BY <1>0, <1>2, KeptByChange, SetDurable DEF ThrottleExpire, RpmSlide
<1> QED
  BY <1>1, <1>2 DEF TimeNext

(* After a restart memory is what the file said. *)
LEMMA RestartDurable ==
    ASSUME EntriesInv', Restart
    PROVE  StreakDurable'
<1>1. PICK uses : Boot(disk, uses)
  BY DEF Restart
<1>2. /\ entries' = [c \in DOMAIN disk |-> Loaded(disk[c], uses[c])]
      /\ disk' \in {disk, Image(entries')}
  BY <1>1 DEF Boot
<1>3. CASE disk' = disk
  <2>1. \A p, n : Durable(p, Loaded(p, n))
    BY DEF Durable, Loaded, LoadedReason, NoReason
  <2> QED
    BY <1>2, <1>3, <2>1 DEF StreakDurable, Durable, Live
<1>4. CASE disk' = Image(entries')
  <2>1. \A c \in Live' : EntryOK(entries'[c])
    BY DEF EntriesInv, EntryOK, BelowThreshold, Live
  <2>2. DOMAIN disk' = Live' /\ \A c \in Live' : disk'[c] = Saved(entries'[c])
    BY <1>4 DEF Image, Live
  <2>3. \A c \in Live' : Durable(disk'[c], entries'[c])
    BY <2>1, <2>2, SavedDurable
  <2> QED
    BY <2>2, <2>3 DEF StreakDurable, Durable
<1> QED
  BY <1>2, <1>3, <1>4

LEMMA PersistDurable ==
    ASSUME PoolInv, StreakDurable, Persist
    PROVE  StreakDurable'
<1>1. Live' = Live /\ entries' = entries
  BY DEF Persist, Live
<1>2. CASE disk' = Image(entries)
  <2>1. DOMAIN disk' = Live /\ \A c \in Live : disk'[c] = Saved(entries[c])
    BY <1>2 DEF Image, Live
  <2>2. \A c \in Live : Durable(disk'[c], entries[c])
    BY <2>1, SavedDurable DEF PoolInv, EntriesInv
  <2> QED
    BY <1>1, <2>1, <2>2 DEF StreakDurable, Durable
<1>3. CASE UNCHANGED disk /\ saves' = [saves EXCEPT !.late = @ - 1]
  <2>1. saves'.unsaved = saves.unsaved
    BY <1>3 DEF PoolInv, Debts
  <2> QED
    BY <1>1, <1>3, <2>1 DEF StreakDurable
<1> QED
  BY <1>2, <1>3 DEF Persist

LEMMA NextDurable ==
    ASSUME PoolInv, StreakDurable, [Next]_pool
    PROVE  StreakDurable'
<1>1. EntriesInv'
  BY NextInv DEF PoolInv
<1> QED
  BY <1>1, ReportDurable, AcquireDurable, ReviveDurable, OperatorDurable, TimeDurable,
     RestartDurable, PersistDurable, SameEntriesDurable DEF Next, RequestNext, RotationNext, pool

(* Of a credential with no change whose save is still to come or failed, a *)
(* crash at any moment rewinds neither the configuration nor the self-heal *)
(* streak, and forgets no manual hold: whatever else was saved, failed to  *)
(* be saved or overtook a save in between.                                 *)
THEOREM StreakAlwaysDurable == Spec => []StreakDurable
<1>1. Init => PoolInv /\ StreakDurable
  BY InitInv, InitDurable
<1>2. PoolInv /\ StreakDurable /\ [Next]_pool => (PoolInv /\ StreakDurable)'
  BY NextInv, NextDurable
<1> QED
  BY <1>1, <1>2, PTL DEF Spec

---------------------------------------------------------------------------
(* Ids.                                                                    *)

(* A step that adds no credential and does not lower the counter. *)
LEMMA RetargetIds ==
    ASSUME PoolInv, IdsNeverReused, DOMAIN entries' \subseteq Live, UNCHANGED next_id,
           \/ UNCHANGED current_id
           \/ current_id' = NoCurrent
           \/ \E S \in SUBSET DOMAIN entries' : Retarget(entries', S)
    PROVE  IdsNeverReused'
<1>1. \A c \in Live' : c < next_id'
  BY DEF IdsNeverReused, Live
<1>2. \A S \in SUBSET DOMAIN entries' : HighestPriority(entries', S) \subseteq Live
  BY HighestPrioritySubset
<1>3. current_id' < next_id'
  BY <1>2 DEF IdsNeverReused, Retarget, PoolInv, NoCurrent
<1> QED
  BY <1>1, <1>3 DEF IdsNeverReused

LEMMA FreeIdAboveAll ==
    ASSUME NEW S \in SUBSET Nat, NEW n \in FreeIdAbove(S)
    PROVE  n > 0 /\ \A c \in S : c < n
<1>1. n \in Nat \ {0}
  BY FreeIdAboveType
<1>2. \A c \in S : c < n
  BY DEF FreeIdAbove
<1> QED
  BY <1>1, <1>2

LEMMA InitIds == Init => IdsNeverReused
<1> SUFFICES ASSUME Init PROVE IdsNeverReused
  OBVIOUS
<1>1. PICK f \in InitialFiles :
        /\ entries = [c \in DOMAIN f |-> Loaded(f[c], 0)]
        /\ IF EnabledIn(entries) = {} THEN current_id = NoCurrent
           ELSE current_id \in HighestPriority(entries, EnabledIn(entries))
        /\ next_id \in FreeIdAbove(DOMAIN f)
  BY DEF Init
<1>2. DOMAIN f \in SUBSET Nat /\ Live = DOMAIN f
  BY <1>1, PoolAssumption DEF IsFile, Live
<1>3. next_id > 0 /\ \A c \in Live : c < next_id
  BY <1>1, <1>2, FreeIdAboveAll
<1>4. HighestPriority(entries, EnabledIn(entries)) \subseteq Live
  BY EnabledInSubset, HighestPrioritySubset DEF Live
<1> QED
  BY <1>1, <1>3, <1>4 DEF IdsNeverReused, NoCurrent

LEMMA RestartIds ==
    ASSUME PoolInv, Restart
    PROVE  IdsNeverReused'
<1>1. PICK uses : Boot(disk, uses)
  BY DEF Restart
<1>2. DOMAIN disk \in SUBSET Nat /\ Live' = DOMAIN disk
  BY <1>1, PoolAssumption DEF Boot, PoolInv, IsFile, Live
<1>3. next_id' > 0 /\ \A c \in Live' : c < next_id'
  BY <1>1, <1>2, FreeIdAboveAll DEF Boot
<1>4. HighestPriority(entries', EnabledIn(entries')) \subseteq Live'
  BY EnabledInSubset, HighestPrioritySubset DEF Live
<1> QED
  BY <1>1, <1>3, <1>4 DEF IdsNeverReused, NoCurrent, Boot

LEMMA NextIds ==
    ASSUME PoolInv, IdsNeverReused, [Next]_pool
    PROVE  IdsNeverReused'
<1>1. ASSUME NEW c \in Ids, ReportNext(c)
      PROVE  IdsNeverReused'
  <2>1. DOMAIN entries' = Live
    BY <1>1 DEF ReportNext, ReportSuccess, ReportFailure, ReportQuotaExhausted,
       ReportRefreshFailure, ReportRefreshTokenInvalid, ReportAccountThrottled,
       ReportCustomRuleHit, Set, Live
  <2>2. UNCHANGED next_id
    BY <1>1 DEF ReportNext, ReportSuccess, ReportFailure, ReportQuotaExhausted,
       ReportRefreshFailure, ReportRefreshTokenInvalid, ReportAccountThrottled,
       ReportCustomRuleHit
  <2>3. \A m, g : InScope(entries', m, g) \subseteq DOMAIN entries'
    BY DEF InScope
  <2>4. UNCHANGED current_id \/ \E S \in SUBSET DOMAIN entries' : Retarget(entries', S)
    BY <1>1, <2>3, EnabledInSubset
       DEF ReportNext, ReportSuccess, ReportFailure, ReportQuotaExhausted,
       ReportRefreshFailure, ReportRefreshTokenInvalid, ReportAccountThrottled,
       ReportCustomRuleHit
  <2> QED
    BY <2>1, <2>2, <2>4, RetargetIds
<1>2. ASSUME NEW c \in Ids, BindCurrent(c)
      PROVE  IdsNeverReused'
  BY <1>2 DEF BindCurrent, IdsNeverReused, Live
<1>3. ASSUME NEW c \in Ids,
             \/ RecordRequest(c)
             \/ \E cred \in Snapshots, refreshed, counted \in BOOLEAN :
                   TokenObtained(c, cred, refreshed, counted)
             \/ ReloadFromFile(c) \/ ThrottleExpire(c) \/ RpmSlide(c)
      PROVE  IdsNeverReused'
  BY <1>3, RetargetIds
     DEF RecordRequest, TokenObtained, ReloadFromFile, ThrottleExpire, RpmSlide, Set, Live
<1>4. ASSUME (\E m \in ModelArgs, g \in GroupArgs : TrySelfHeal(m, g)) \/ Tick
      PROVE  IdsNeverReused'
  BY <1>4, RetargetIds DEF TrySelfHeal, Tick
<1>5. ASSUME OperatorNext
      PROVE  IdsNeverReused'
  <2>1. ASSUME NEW c \in Ids,
               \/ \E b \in BOOLEAN : SetDisabled(c, b) \/ UpdateSubscription(c, b)
               \/ ResetAndEnable(c) \/ ClearThrottle(c) \/ DisableQuotaExceeded(c)
               \/ \E p \in Priorities : SetPriority(c, p)
               \/ \E gs \in SUBSET Groups : UpdateCredential(c, gs)
               \/ UpdateRefreshToken(c)
        PROVE  IdsNeverReused'
    BY <2>1, RetargetIds, EnabledInSubset
       DEF SetDisabled, UpdateSubscription, ResetAndEnable, ClearThrottle,
           DisableQuotaExceeded, SetPriority, UpdateCredential, UpdateRefreshToken, Set, Live
  <2>2. ASSUME NEW c \in Ids, DeleteCredential(c)
        PROVE  IdsNeverReused'
    BY <2>2, RetargetIds, EnabledInSubset DEF DeleteCredential
  <2>3. ASSUME NEW S, ResetSuccessCount(S)
        PROVE  IdsNeverReused'
    BY <2>3, RetargetIds DEF ResetSuccessCount
  <2>4. ASSUME NEW cred \in NewCredentials, NEW duplicate \in BOOLEAN,
               AddCredential(cred, duplicate)
        PROVE  IdsNeverReused'
    <3>1. next_id' = next_id + 1 /\ next_id \in Nat /\ current_id' = current_id
      BY <2>4 DEF AddCredential, PoolInv
    <3>2. Live' \subseteq Live \cup {next_id}
      BY <2>4 DEF AddCredential, Live
    <3>3. \A c \in Live : c \in Nat /\ c < next_id
      BY PoolAssumption DEF PoolInv, EntriesInv, IdsNeverReused
    <3> QED
      BY <3>1, <3>2, <3>3 DEF IdsNeverReused, PoolInv
  <2>5. ASSUME \/ \E g, h \in Groups : RenameGroup(g, h)
               \/ \E g \in Groups : RemoveGroup(g)
        PROVE  IdsNeverReused'
    BY <2>5, RetargetIds DEF RenameGroup, RemoveGroup, Regroup, Live
  <2>6. ASSUME SwitchToNext
        PROVE  IdsNeverReused'
    <3>1. Retarget(entries', EnabledIn(entries') \ {current_id})
      BY <2>6 DEF SwitchToNext, Retarget
    <3>2. EnabledIn(entries') \ {current_id} \in SUBSET DOMAIN entries'
      BY EnabledInSubset
    <3> QED
      BY <2>6, <3>1, <3>2, RetargetIds DEF SwitchToNext, Live
  <2>7. ASSUME \/ \E mode \in Modes : SetLoadBalancingMode(mode)
               \/ \E h \in HealConfigs : SetSelfHealConfig(h)
               \/ \E n \in RpmLimits : SetAccountRpmConfig(n)
        PROVE  IdsNeverReused'
    BY <2>7, RetargetIds
       DEF SetLoadBalancingMode, SetSelfHealConfig, SetAccountRpmConfig, Configure, Live
  <2> QED
    BY <1>5, <2>1, <2>2, <2>3, <2>4, <2>5, <2>6, <2>7, PoolAssumption DEF OperatorNext
<1>6. CASE Persist \/ UNCHANGED pool
  BY <1>6, RetargetIds DEF pool, Persist, Live
<1> QED
  BY <1>1, <1>2, <1>3, <1>4, <1>5, <1>6, RestartIds
     DEF Next, RequestNext, RotationNext, TimeNext, AcquireNext

(* The id counter stays above every live credential and above current_id,  *)
(* so no id is handed out twice while the process lives, whatever order    *)
(* imports, deletions, reports and selections come in.                     *)
THEOREM IdsHandedOutOnce == Spec => []IdsNeverReused
<1>1. Init => PoolInv /\ IdsNeverReused
  BY InitInv, InitIds
<1>2. PoolInv /\ IdsNeverReused /\ [Next]_pool => (PoolInv /\ IdsNeverReused)'
  BY NextInv, NextIds
<1> QED
  BY <1>1, <1>2, PTL DEF Spec

=============================================================================
