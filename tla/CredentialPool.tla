-------------------------- MODULE CredentialPool --------------------------
(***************************************************************************)
(* The credential pool of kiro/token_manager.rs (MultiTokenManager): the   *)
(* entries guarded by the `entries` mutex, the `current_id` pointer, the   *)
(* id counter, the run-time settings and the credentials file.             *)
(*                                                                         *)
(* One action is one critical section of the code.  The save that ends it  *)
(* (persist_credentials) takes the lock again: it comes before anyone else *)
(* moves, or later (`saves.late`), or fails; then the change is in memory  *)
(* only until another save writes all entries (`saves.unsaved`), and a     *)
(* crash loses it.  Who calls an action, and when, is left open here: the  *)
(* modules built on this one (AcquireContext, KiroProvider) say which      *)
(* thread takes which step.                                                *)
(*                                                                         *)
(* Abstractions.  A deadline (throttled_until, a timestamp of rpm_window)  *)
(* is replaced by the action that lets it pass; last_self_heal_at by its   *)
(* age in ticks.  Of KiroCredentials only the fields selection looks at    *)
(* are kept.  Display-only fields (total_failure_count, last_used_at,      *)
(* self_heal_total_count) are left out.                                    *)
(***************************************************************************)
EXTENDS Integers, FiniteSets

CONSTANTS
    Ids,                          \* ids a credential may get, a set of positive integers
    Models, OpusModels,           \* model names; those whose name contains "opus"
    Groups,                       \* group names
    Priorities,                   \* priorities a credential may have
    OpusLevels,                   \* whether a subscription has opus: some of TRUE, FALSE
    ThrottleFailover,             \* account_throttle_failover
    Rules,                        \* custom error rules in config.json
    Modes, HealConfigs, RpmLimits,\* values the settings may take (RpmLimits: 0 = off)
    InitialFiles,                 \* credential files the process may first start from
    NewCredentials,               \* credentials an operator may import
    MaxLive,                      \* bound: credentials alive at a time
    SuccessCap,                   \* bound: success_count saturates here
    AgeCap,                       \* bound: ages saturate here, beyond every interval
    MaxLate,                      \* bound: saves that are still to come
    MAX_FAILURES_PER_CREDENTIAL, U32_MAX

NoModel == "no-model"             \* an MCP request, or a request without a model
NoGroup == "no-group"             \* a key bound to no group
NoReason == "none"
Never == -1                       \* last_self_heal_at = None
NoCurrent == 0                    \* current_id when the pool is empty

ModelArgs == Models \cup {NoModel}
GroupArgs == Groups \cup {NoGroup}

(* DisabledReason; the rule's name of CustomRule is dropped, its flag kept. *)
DisabledReason ==
    {"Manual", "TooManyFailures", "TooManyRefreshFailures", "QuotaExceeded",
     "InvalidRefreshToken", "InvalidConfig", "CustomHealable", "CustomFinal"}

(* What selection reads of KiroCredentials. `broken`: api_key without a key. *)
KiroCredentials ==
    [priority: Nat, groups: SUBSET Groups, opus: BOOLEAN, broken: BOOLEAN]

(* The self-heal streak: self_heal_rounds, the age of last_self_heal_at,   *)
(* self_heal_model.                                                        *)
Streak == [rounds: Nat, age: {Never} \cup Nat, model: ModelArgs]
NoStreak == [rounds |-> 0, age |-> Never, model |-> NoModel]

(* One credential as credentials.json holds it. *)
Persisted ==
    [credentials: KiroCredentials, disabled: BOOLEAN,
     disabled_reason: DisabledReason \cup {NoReason}, streak: Streak]

CredentialEntry ==
    [credentials: KiroCredentials, disabled: BOOLEAN,
     disabled_reason: DisabledReason \cup {NoReason},
     failure_count: 0 .. MAX_FAILURES_PER_CREDENTIAL,
     refresh_failure_count: 0 .. MAX_FAILURES_PER_CREDENTIAL,
     throttled: BOOLEAN, streak: Streak, rpm_used: Nat, success_count: Nat]

RuleAction == {"disable", "cooldown", "countFailure", "abort"}
ErrorRule == [action: RuleAction, min_available: Nat, self_healable: BOOLEAN]

HealConfig == [enabled: BOOLEAN, min_interval: Nat, max_rounds: Nat]

(* A credential file: some ids, each with its saved record. *)
IsFile(f) == DOMAIN f \subseteq Ids /\ f \in [DOMAIN f -> Persisted]

ASSUME PoolAssumption ==
    /\ Ids \subseteq Nat \ {0} /\ Ids # {}
    /\ MAX_FAILURES_PER_CREDENTIAL \in Nat \ {0}
    /\ U32_MAX \in Nat \ {0}
    /\ AgeCap \in Nat /\ SuccessCap \in Nat /\ MaxLive \in Nat /\ MaxLate \in Nat
    /\ OpusModels \subseteq Models
    /\ OpusLevels \subseteq BOOLEAN /\ ThrottleFailover \in BOOLEAN
    /\ Priorities \subseteq Nat /\ RpmLimits \subseteq Nat
    /\ Rules \subseteq ErrorRule
    /\ HealConfigs \subseteq HealConfig
    /\ NewCredentials \subseteq KiroCredentials
    /\ \A cred \in NewCredentials : cred.priority \in Priorities /\ cred.opus \in OpusLevels
    /\ \A f \in InitialFiles :
          /\ IsFile(f) /\ IsFiniteSet(DOMAIN f)
          /\ \A c \in DOMAIN f : /\ f[c].credentials.priority \in Priorities
                                 /\ f[c].credentials.opus \in OpusLevels

VARIABLES
    entries,        \* Mutex<Vec<CredentialEntry>>: live id -> entry
    current_id,     \* Mutex<u64>
    next_id,        \* AtomicU64
    settings,       \* load-balancing mode, self-heal and RPM atomics
    disk,           \* credentials.json: id -> saved record
    saves           \* how many saves are still to come, and the ids whose
                    \* changes the file may lack

storage == <<disk, saves>>
pool == <<entries, current_id, next_id, settings, storage>>

---------------------------------------------------------------------------
(* Reading the pool. *)

Live == DOMAIN entries
Enabled(c) == c \in Live /\ ~entries[c].disabled
EnabledIn(es) == {c \in DOMAIN es : ~es[c].disabled}

(* The candidates iter().min_by_key(priority) may return: ties fall to the *)
(* order of the vector, which a restart may change, so any of them.        *)
HighestPriority(es, S) ==
    {c \in S : \A d \in S : es[c].credentials.priority <= es[d].credentials.priority}

GroupMatches(cred, g) == g = NoGroup \/ g \in cred.groups

MatchesRequest(cred, m, g) ==
    /\ m \in OpusModels => cred.opus
    /\ GroupMatches(cred, g)

RpmExceeded(e) == settings.rpm_limit > 0 /\ e.rpm_used >= settings.rpm_limit

(* Enabled, not cooling down and in the scope of the request. *)
InScope(es, m, g) ==
    {c \in DOMAIN es : /\ ~es[c].disabled
                       /\ ~es[c].throttled
                       /\ MatchesRequest(es[c].credentials, m, g)}

Selectable(m, g) == {c \in InScope(entries, m, g) : ~RpmExceeded(entries[c])}

(* select_next_credential: what it may return, empty for None. *)
LeastUsed(S) ==
    {c \in S : \A d \in S :
        \/ entries[c].success_count < entries[d].success_count
        \/ /\ entries[c].success_count = entries[d].success_count
           /\ entries[c].credentials.priority <= entries[d].credentials.priority}

SelectNext(m, g) ==
    IF settings.mode = "balanced" THEN LeastUsed(Selectable(m, g))
                                  ELSE HighestPriority(entries, Selectable(m, g))

(* rpm_retry_after_secs is Some: candidates exist and all spent their quota. *)
OnlyRpmExhausted(m, g) ==
    /\ settings.rpm_limit > 0
    /\ InScope(entries, m, g) # {}
    /\ Selectable(m, g) = {}

---------------------------------------------------------------------------
(* The credentials file. *)

SavedWithoutRounds(e) ==    \* a mutant: the rounds are not written
    [credentials |-> e.credentials, disabled |-> e.disabled,
     disabled_reason |-> e.disabled_reason, streak |-> [e.streak EXCEPT !.rounds = 0]]

SavedWithoutHealTime(e) ==  \* a mutant: the time of the last heal is not written
    [credentials |-> e.credentials, disabled |-> e.disabled,
     disabled_reason |-> e.disabled_reason, streak |-> [e.streak EXCEPT !.age = Never]]

Saved(e) ==
    [credentials |-> e.credentials, disabled |-> e.disabled,
     disabled_reason |-> e.disabled_reason, streak |-> e.streak]

Image(es) == [c \in DOMAIN es |-> Saved(es[c])]

NothingOwed == [late |-> 0, unsaved |-> {}]

(* persist_credentials snapshots all entries and replaces the file.        *)
Write == disk' = Image(entries') /\ saves' = [saves EXCEPT !.unsaved = {}]

(* The call that changed the credentials S has yet to save them.           *)
SaveLater(S) ==
    /\ saves.late < MaxLate
    /\ saves' = [late |-> saves.late + 1, unsaved |-> saves.unsaved \cup S]
    /\ UNCHANGED disk

Save(S) == Write \/ SaveLater(S)

(* A save that was still to come; a failure is logged or returned, and     *)
(* nothing is rolled back.                                                 *)
Persist ==
    /\ saves.late > 0
    /\ \/ disk' = Image(entries) /\ saves' = [late |-> saves.late - 1, unsaved |-> {}]
       \/ UNCHANGED disk /\ saves' = [saves EXCEPT !.late = @ - 1]
    /\ UNCHANGED <<entries, current_id, next_id, settings>>

(* The reason new() gives a loaded credential: unknown means Manual, and an *)
(* API-key credential without a key is InvalidConfig whatever the file says. *)
LoadedReason(p) ==
    IF p.credentials.broken THEN "InvalidConfig"
    ELSE IF ~p.disabled THEN NoReason
    ELSE IF p.disabled_reason = NoReason THEN "Manual" ELSE p.disabled_reason

Loaded(p, uses) ==
    [credentials |-> p.credentials,
     disabled |-> p.disabled \/ p.credentials.broken,
     disabled_reason |-> LoadedReason(p),
     failure_count |-> 0, refresh_failure_count |-> 0, throttled |-> FALSE,
     streak |-> p.streak, rpm_used |-> 0, success_count |-> uses]

FreshEntry(cred) ==
    [credentials |-> cred, disabled |-> FALSE, disabled_reason |-> NoReason,
     failure_count |-> 0, refresh_failure_count |-> 0, throttled |-> FALSE,
     streak |-> NoStreak, rpm_used |-> 0, success_count |-> 0]

(* max id + 1, as a set of one. *)
FreeIdAbove(S) ==
    {n \in {1} \cup {c + 1 : c \in S} : \A c \in S : c < n}

(* new() over the file f with the statistics file `uses`. Filling in a     *)
(* missing machine id or profile ARN makes it write the file back.         *)
Boot(f, uses) ==
    /\ entries' = [c \in DOMAIN f |-> Loaded(f[c], uses[c])]
    /\ IF EnabledIn(entries') = {} THEN current_id' = NoCurrent
       ELSE current_id' \in HighestPriority(entries', EnabledIn(entries'))
    /\ next_id' \in FreeIdAbove(DOMAIN f)
    /\ disk' \in {f, Image(entries')}

Init ==
    \E f \in InitialFiles :
        /\ entries = [c \in DOMAIN f |-> Loaded(f[c], 0)]
        /\ IF EnabledIn(entries) = {} THEN current_id = NoCurrent
           ELSE current_id \in HighestPriority(entries, EnabledIn(entries))
        /\ next_id \in FreeIdAbove(DOMAIN f)
        /\ disk \in {f, Image(entries)}
        /\ saves = NothingOwed
        /\ settings \in [mode: Modes, heal: HealConfigs, rpm_limit: RpmLimits]

---------------------------------------------------------------------------
(* What a finished call reports about its credential. A report on a        *)
(* credential that is gone or already disabled changes nothing.            *)

Set(c, e) == entries' = [entries EXCEPT ![c] = e]

(* current_id moves to the best of S, or stays when S is empty. *)
Retarget(es, S) ==
    IF S = {} THEN UNCHANGED current_id
              ELSE current_id' \in HighestPriority(es, S)

(* `any(|e| !e.disabled)`: what the report methods return. *)
AnyEnabled(es) == EnabledIn(es) # {}

Ignored(c) == ~Enabled(c) /\ UNCHANGED pool

ClearedStreak(e) == [e EXCEPT !.streak = NoStreak]

DisabledFor(e, reason) == [e EXCEPT !.disabled = TRUE, !.disabled_reason = reason]

(* Back in service with a clean failure count. *)
Reenabled(e) ==
    [e EXCEPT !.disabled = FALSE, !.disabled_reason = NoReason, !.failure_count = 0]

(* Both counters at zero and no cooldown. *)
Calm(e) == [e EXCEPT !.failure_count = 0, !.refresh_failure_count = 0, !.throttled = FALSE]

OneMore(n, cap) == IF n < cap THEN n + 1 ELSE n

Succeeded(e) == [Calm(e) EXCEPT !.success_count = OneMore(@, SuccessCap)]

ReportSuccessUnsaved(c, m) ==   \* a mutant: the cleared streak stays in memory
    /\ c \in Live
    /\ LET e == Succeeded(entries[c])
       IN  Set(c, IF e.streak.rounds > 0 /\ e.streak.model = m THEN ClearedStreak(e) ELSE e)
    /\ UNCHANGED <<current_id, next_id, settings, storage>>

ReportSuccess(c, m) ==
    /\ c \in Live
    /\ LET e == Succeeded(entries[c])
           cleared == e.streak.rounds > 0 /\ e.streak.model = m
       IN  /\ Set(c, IF cleared THEN ClearedStreak(e) ELSE e)
           /\ IF cleared THEN Save({c}) ELSE UNCHANGED storage
    /\ UNCHANGED <<current_id, next_id, settings>>

CountedFailureUnchecked(e) ==  \* a mutant: the threshold is never reached
    [e EXCEPT !.failure_count = @ + 1]

(* One more failure; the last one allowed disables the credential. *)
CountedFailure(e) ==
    LET failed == [e EXCEPT !.failure_count = @ + 1]
    IN  IF failed.failure_count >= MAX_FAILURES_PER_CREDENTIAL
        THEN DisabledFor(failed, "TooManyFailures") ELSE failed

ReportFailure(c) ==
    /\ Enabled(c)
    /\ Set(c, CountedFailure(entries[c]))
    /\ IF entries'[c].disabled THEN Retarget(entries', EnabledIn(entries'))
                               ELSE UNCHANGED current_id
    /\ UNCHANGED <<next_id, settings, storage>>

ReportQuotaExhausted(c) ==
    /\ Enabled(c)
    /\ Set(c, DisabledFor([entries[c] EXCEPT !.failure_count = MAX_FAILURES_PER_CREDENTIAL],
                       "QuotaExceeded"))
    /\ Retarget(entries', EnabledIn(entries'))
    /\ UNCHANGED <<next_id, settings, storage>>

ReportRefreshFailure(c) ==
    /\ Enabled(c)
    /\ LET e == [entries[c] EXCEPT !.refresh_failure_count = @ + 1]
           last == e.refresh_failure_count >= MAX_FAILURES_PER_CREDENTIAL
       IN  /\ Set(c, IF last THEN DisabledFor(e, "TooManyRefreshFailures") ELSE e)
           /\ IF last THEN Retarget(entries', EnabledIn(entries'))
                      ELSE UNCHANGED current_id
    /\ UNCHANGED <<next_id, settings, storage>>

ReportRefreshTokenInvalid(c) ==
    /\ Enabled(c)
    /\ Set(c, DisabledFor(entries[c], "InvalidRefreshToken"))
    /\ Retarget(entries', EnabledIn(entries'))
    /\ UNCHANGED <<next_id, settings, storage>>

(* Account-level 429: a cooldown, also of a disabled credential; no count. *)
ReportAccountThrottled(c) ==
    /\ c \in Live
    /\ Set(c, [entries[c] EXCEPT !.throttled = TRUE])
    /\ UNCHANGED <<current_id, next_id, settings, storage>>

(* min_available turns a disable into a counted failure when disabling     *)
(* would leave fewer credentials in the scope of the request.              *)
EffectiveAction(rule, m, g) ==
    IF /\ rule.action = "disable"
       /\ rule.min_available > 0
       /\ Cardinality(InScope(entries, m, g)) - 1 < rule.min_available
    THEN "countFailure" ELSE rule.action

AfterRule(e, rule, action) ==
    CASE action = "disable" ->
            DisabledFor(e, IF rule.self_healable THEN "CustomHealable" ELSE "CustomFinal")
      [] action = "cooldown" -> [e EXCEPT !.throttled = TRUE]
      [] action = "countFailure" -> CountedFailure(e)
      [] action = "abort" -> e

ReportCustomRuleHit(c, rule, m, g) ==
    /\ Enabled(c)
    /\ Set(c, AfterRule(entries[c], rule, EffectiveAction(rule, m, g)))
    /\ IF entries'[c].disabled \/ entries'[c].throttled
       THEN Retarget(entries', InScope(entries', m, g))
       ELSE UNCHANGED current_id
    /\ Save({c})
    /\ UNCHANGED <<next_id, settings>>

---------------------------------------------------------------------------
(* What acquire_context does to the pool on its way to a context. *)

(* `*current_id = new_id`, under a lock of its own after the selection. *)
BindCurrent(c) ==
    /\ c < next_id              \* an id the counter has handed out
    /\ current_id' = c
    /\ UNCHANGED <<entries, next_id, settings, storage>>

RecordRequestUnchecked(c) ==    \* a mutant: counted without looking at the quota again
    /\ c \in Live
    /\ Set(c, [entries[c] EXCEPT !.rpm_used = IF settings.rpm_limit = 0 THEN 0 ELSE @ + 1])
    /\ UNCHANGED <<current_id, next_id, settings, storage>>

(* record_request: clear the window when there is no limit, else take one  *)
(* unit of quota if one is left. RecordRefused is its `return false`.      *)
RecordRequest(c) ==
    /\ c \in Live
    /\ ~RpmExceeded(entries[c])
    /\ Set(c, [entries[c] EXCEPT !.rpm_used = IF settings.rpm_limit = 0 THEN 0 ELSE @ + 1])
    /\ UNCHANGED <<current_id, next_id, settings, storage>>

RecordRefused(c) == ~(c \in Live /\ ~RpmExceeded(entries[c])) /\ UNCHANGED pool

(* A token was obtained. When it was refreshed, the whole KiroCredentials  *)
(* read before the call is written back, with whatever it held then, and   *)
(* saved; `counted`: the caller then zeroes refresh_failure_count.         *)
TokenObtained(c, cred, refreshed, counted) ==
    /\ c \in Live /\ ~entries[c].credentials.broken
    /\ Set(c, [entries[c] EXCEPT
                 !.credentials = IF refreshed THEN cred ELSE @,
                 !.refresh_failure_count = IF counted THEN 0 ELSE @])
    /\ IF refreshed THEN Save({c}) ELSE UNCHANGED storage
    /\ UNCHANGED <<current_id, next_id, settings>>

(* try_reload_credential_from_file: another client rotated the token in    *)
(* the file. Whatever the reason it was disabled for, the credential is    *)
(* enabled; nothing is saved.                                              *)
ReloadFromFile(c) ==
    /\ c \in Live
    /\ Set(c, Reenabled([entries[c] EXCEPT !.refresh_failure_count = 0]))
    /\ UNCHANGED <<current_id, next_id, settings, storage>>

SelfHealableAny(reason) ==      \* a mutant: quota counts as healable
    reason \in {"TooManyFailures", "CustomHealable", "QuotaExceeded"}

IsSelfHealable(reason) == reason \in {"TooManyFailures", "CustomHealable"}

(* The credentials try_self_heal restores for a request of model m, group g. *)
HealSet(m, g) ==
    {c \in Live :
        LET e == entries[c] IN
        /\ e.disabled
        /\ IsSelfHealable(e.disabled_reason)
        /\ MatchesRequest(e.credentials, m, g)
        /\ e.streak.rounds > 0 => e.streak.model = m
        /\ settings.heal.max_rounds > 0 => e.streak.rounds < settings.heal.max_rounds
        /\ e.streak.age # Never => e.streak.age >= settings.heal.min_interval}

Extended(streak, m) ==
    [rounds |-> OneMore(streak.rounds, U32_MAX), age |-> 0, model |-> m]

HealedKeepsCount(e, m) ==       \* a mutant: the failure count survives the heal
    [e EXCEPT !.streak = Extended(@, m), !.disabled = FALSE, !.disabled_reason = NoReason]

Healed(e, m) == Reenabled([e EXCEPT !.streak = Extended(@, m)])

TrySelfHeal(m, g) ==
    /\ settings.heal.enabled
    /\ HealSet(m, g) # {}
    /\ entries' = [c \in Live |-> IF c \in HealSet(m, g) THEN Healed(entries[c], m)
                                                         ELSE entries[c]]
    /\ Save(HealSet(m, g))
    /\ UNCHANGED <<current_id, next_id, settings>>

SelfHealRefused(m, g) ==
    ~(settings.heal.enabled /\ HealSet(m, g) # {}) /\ UNCHANGED pool

---------------------------------------------------------------------------
(* The operator. *)

(* set_disabled *)
SetDisabled(c, disabled) ==
    /\ c \in Live
    /\ Set(c, IF disabled THEN DisabledFor(entries[c], "Manual")
                          ELSE ClearedStreak(Reenabled(Calm(entries[c]))))
    /\ Save({c})
    /\ UNCHANGED <<current_id, next_id, settings>>

ResetAndEnable(c) ==
    /\ c \in Live
    /\ entries[c].disabled_reason # "InvalidConfig"
    /\ Set(c, ClearedStreak(Reenabled(Calm(entries[c]))))
    /\ Save({c})
    /\ UNCHANGED <<current_id, next_id, settings>>

ClearThrottle(c) ==
    /\ c \in Live
    /\ Set(c, [entries[c] EXCEPT !.throttled = FALSE])
    /\ UNCHANGED <<current_id, next_id, settings, storage>>

DisableQuotaExceeded(c) ==
    /\ c \in Live
    /\ Set(c, DisabledFor(entries[c], "QuotaExceeded"))
    /\ Save({c})
    /\ UNCHANGED <<current_id, next_id, settings>>

SetPriority(c, p) ==
    /\ c \in Live
    /\ Set(c, [entries[c] EXCEPT !.credentials.priority = p])
    /\ Retarget(entries', EnabledIn(entries'))
    /\ Save({c})
    /\ UNCHANGED <<next_id, settings>>

(* reset_success_count, of one credential or of all. *)
ResetSuccessCount(S) ==
    /\ S \subseteq Live
    /\ entries' = [c \in Live |-> IF c \in S THEN [entries[c] EXCEPT !.success_count = 0]
                                             ELSE entries[c]]
    /\ UNCHANGED <<current_id, next_id, settings, storage>>

(* The end of add_credential: the id is drawn from the counter before the  *)
(* second duplicate check, so a duplicate burns it.                        *)
AddCredentialMaxPlusOne(cred, duplicate) ==   \* a mutant: ids from the entries
    /\ next_id \in Ids /\ Cardinality(Live) < MaxLive
    /\ next_id' \in FreeIdAbove(Live \cup IF duplicate THEN {} ELSE {next_id})
    /\ IF duplicate
       THEN UNCHANGED <<entries, storage>>
       ELSE /\ entries' = [c \in Live \cup {next_id} |->
                              IF c = next_id THEN FreshEntry(cred) ELSE entries[c]]
            /\ Save({next_id})
    /\ UNCHANGED <<current_id, settings>>

AddCredential(cred, duplicate) ==
    /\ next_id \in Ids /\ Cardinality(Live) < MaxLive
    /\ next_id' = next_id + 1
    /\ IF duplicate
       THEN UNCHANGED <<entries, storage>>
       ELSE /\ entries' = [c \in Live \cup {next_id} |->
                              IF c = next_id THEN FreshEntry(cred) ELSE entries[c]]
            /\ Save({next_id})
    /\ UNCHANGED <<current_id, settings>>

(* update_credential *)
UpdateCredential(c, groups) ==
    /\ c \in Live
    /\ Set(c, [entries[c] EXCEPT !.credentials.groups = groups])
    /\ Save({c})
    /\ UNCHANGED <<current_id, next_id, settings>>

(* get_usage_limits_for: the subscription title decides supports_opus. *)
UpdateSubscription(c, opus) ==
    /\ c \in Live
    /\ entries[c].credentials.opus # opus
    /\ Set(c, [entries[c] EXCEPT !.credentials.opus = opus])
    /\ Save({c})
    /\ UNCHANGED <<current_id, next_id, settings>>

(* rename_credential_group and remove_credential_group over every entry. *)
Regroup(es, old, new) ==
    [c \in DOMAIN es |->
        IF old \in es[c].credentials.groups
        THEN [es[c] EXCEPT !.credentials.groups = (@ \ {old}) \cup new]
        ELSE es[c]]

InGroup(g) == {c \in Live : g \in entries[c].credentials.groups}

RenameGroup(old, new) ==
    /\ InGroup(old) # {}
    /\ entries' = Regroup(entries, old, {new})
    /\ Save(InGroup(old))
    /\ UNCHANGED <<current_id, next_id, settings>>

RemoveGroup(g) ==
    /\ InGroup(g) # {}
    /\ entries' = Regroup(entries, g, {})
    /\ Save(InGroup(g))
    /\ UNCHANGED <<current_id, next_id, settings>>

(* delete_credential: no guard on disabled. *)
DeleteCredential(c) ==
    /\ c \in Live
    /\ entries' = [d \in Live \ {c} |-> entries[d]]
    /\ IF Live = {c} THEN current_id' = NoCurrent
       ELSE IF current_id = c THEN Retarget(entries', EnabledIn(entries'))
       ELSE UNCHANGED current_id
    /\ Save({c})
    /\ UNCHANGED <<next_id, settings>>

UpdateRefreshToken(c) ==
    /\ c \in Live
    /\ entries[c].disabled
    /\ Set(c, [entries[c] EXCEPT !.refresh_failure_count = 0])
    /\ Save({c})
    /\ UNCHANGED <<current_id, next_id, settings>>

SwitchToNext ==
    /\ Retarget(entries, EnabledIn(entries) \ {current_id})
    /\ UNCHANGED <<entries, next_id, settings, storage>>

(* The setters store in memory, save config.json and roll back when that   *)
(* fails, so a failed call changes nothing.                                *)
Configure(s) ==
    /\ settings' = s
    /\ UNCHANGED <<entries, current_id, next_id, storage>>

SetLoadBalancingMode(mode) == settings.mode # mode /\ Configure([settings EXCEPT !.mode = mode])
SetSelfHealConfig(h) == settings.heal # h /\ Configure([settings EXCEPT !.heal = h])
SetAccountRpmConfig(n) == settings.rpm_limit # n /\ Configure([settings EXCEPT !.rpm_limit = n])

---------------------------------------------------------------------------
(* Time and the process. *)

ThrottleExpire(c) ==
    /\ c \in Live /\ entries[c].throttled
    /\ Set(c, [entries[c] EXCEPT !.throttled = FALSE])
    /\ UNCHANGED <<current_id, next_id, settings, storage>>

(* The oldest request of the 60 second window falls out of it. *)
RpmSlide(c) ==
    /\ c \in Live /\ entries[c].rpm_used > 0
    /\ Set(c, [entries[c] EXCEPT !.rpm_used = @ - 1])
    /\ UNCHANGED <<current_id, next_id, settings, storage>>

Older(age) == IF age = Never THEN Never ELSE OneMore(age, AgeCap)
Aged(r) == [r EXCEPT !.streak.age = Older(@)]

Tick ==
    /\ \E c \in Live : Older(entries[c].streak.age) # entries[c].streak.age
    /\ entries' = [c \in Live |-> Aged(entries[c])]
    /\ disk' = [c \in DOMAIN disk |-> Aged(disk[c])]
    /\ UNCHANGED <<current_id, next_id, settings, saves>>

(* The process dies at any point and starts again from what it saved: the  *)
(* settings were saved with each change, the success counts lag behind,    *)
(* and what no save followed is gone.                                      *)
Restart ==
    /\ \E uses \in [DOMAIN disk -> 0 .. SuccessCap] :
          /\ \A c \in DOMAIN disk \cap Live : uses[c] <= entries[c].success_count
          /\ Boot(disk, uses)
    /\ saves' = NothingOwed
    /\ UNCHANGED settings

---------------------------------------------------------------------------
(* What a request may have read of a credential some time before. *)
Snapshots == [priority: Priorities, groups: SUBSET Groups, opus: OpusLevels, broken: {FALSE}]

ReportNext(c) ==
    \/ \E m \in ModelArgs : ReportSuccess(c, m)
    \/ ReportFailure(c)
    \/ ReportQuotaExhausted(c)
    \/ ReportRefreshFailure(c)
    \/ ReportRefreshTokenInvalid(c)
    \/ ThrottleFailover /\ ReportAccountThrottled(c)
    \/ \E r \in Rules, m \in ModelArgs, g \in GroupArgs : ReportCustomRuleHit(c, r, m, g)

AcquireNext(c) ==
    \/ BindCurrent(c)
    \/ RecordRequest(c)
    \/ \E cred \in Snapshots, refreshed, counted \in BOOLEAN :
          TokenObtained(c, cred, refreshed, counted)

RequestNext ==
    \/ \E c \in Ids : ReportNext(c) \/ AcquireNext(c)
    \/ \E m \in ModelArgs, g \in GroupArgs : TrySelfHeal(m, g)

RotationNext == \E c \in Ids : ReloadFromFile(c)

OperatorNext ==
    \/ \E c \in Ids :
          \/ \E b \in BOOLEAN : SetDisabled(c, b)
          \/ \E b \in OpusLevels : UpdateSubscription(c, b)
          \/ ResetAndEnable(c) \/ ClearThrottle(c) \/ DisableQuotaExceeded(c)
          \/ \E p \in Priorities : SetPriority(c, p)
          \/ \E gs \in SUBSET Groups : UpdateCredential(c, gs)
          \/ DeleteCredential(c) \/ UpdateRefreshToken(c) \/ ResetSuccessCount({c})
    \/ ResetSuccessCount(Live)
    \/ \E cred \in NewCredentials, duplicate \in BOOLEAN : AddCredential(cred, duplicate)
    \/ \E g, h \in Groups : RenameGroup(g, h)
    \/ \E g \in Groups : RemoveGroup(g)
    \/ SwitchToNext
    \/ \E mode \in Modes : SetLoadBalancingMode(mode)
    \/ \E h \in HealConfigs : SetSelfHealConfig(h)
    \/ \E n \in RpmLimits : SetAccountRpmConfig(n)

TimeNext == Tick \/ \E c \in Ids : ThrottleExpire(c) \/ RpmSlide(c)

Next == RequestNext \/ RotationNext \/ OperatorNext \/ TimeNext \/ Persist \/ Restart

Spec == Init /\ [][Next]_pool

---------------------------------------------------------------------------
(* Every variable holds a value of its type; the counters never pass the   *)
(* threshold that disables a credential.                                   *)
TypeOK ==
    /\ Live \subseteq Ids /\ entries \in [Live -> CredentialEntry]
    /\ current_id \in Nat
    /\ next_id \in Nat \ {0}
    /\ settings \in [mode: Modes, heal: HealConfigs, rpm_limit: RpmLimits]
    /\ IsFile(disk)
    /\ saves \in [late: 0 .. MaxLate, unsaved: SUBSET Ids]

(* A credential is disabled exactly when it has a reason, and an enabled   *)
(* one has failures left in both counters: self-heal resets only           *)
(* failure_count, so a credential it may revive must not have spent its    *)
(* refresh failures (try_self_heal, report_refresh_failure).               *)
BelowThreshold(e) ==
    /\ e.disabled <=> e.disabled_reason # NoReason
    /\ ~e.disabled => e.failure_count < MAX_FAILURES_PER_CREDENTIAL
    /\ ~e.disabled \/ e.disabled_reason \in {"TooManyFailures", "CustomHealable"}
           => e.refresh_failure_count < MAX_FAILURES_PER_CREDENTIAL

EnabledBelowThreshold == \A c \in Live : BelowThreshold(entries[c])

(* Unless the save of its last change is still to come or failed, the file *)
(* has a credential, with its configuration and its self-heal streak, and  *)
(* holds what the operator held; and it has no other.  Whatever interleaves *)
(* with a save, and however many changes wait for one, a crash rewinds     *)
(* nothing else (persist_credentials snapshots every entry under           *)
(* persist_lock).                                                          *)
StreakDurable ==
    \A c \in Ids \ saves.unsaved :
        /\ c \in Live <=> c \in DOMAIN disk
        /\ c \in Live =>
              /\ disk[c].credentials = entries[c].credentials
              /\ disk[c].streak = entries[c].streak
              /\ entries[c].disabled_reason = "Manual" =>
                    disk[c].disabled /\ disk[c].disabled_reason \in {"Manual", NoReason}

(* An id is handed out once in the life of a process: the counter is above *)
(* every live credential and above current_id, so a report or current_id   *)
(* that outlived its credential never hits a later one.                    *)
IdsNeverReused ==
    /\ \A c \in Live : c < next_id
    /\ current_id < next_id

=============================================================================
