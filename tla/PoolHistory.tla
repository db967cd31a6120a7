---------------------------- MODULE PoolHistory ----------------------------
(***************************************************************************)
(* The pool of CredentialPool with what an observer outside the process    *)
(* remembers: who acted last, how often each credential was revived since  *)
(* its fault line last ended, how long ago, and for which model, and what  *)
(* of this was saved when. A crash takes the observer back to what was     *)
(* saved, and no further, so it shows whether the limits of self-healing   *)
(* hold across restarts (the comments in persist_credentials claim it).    *)
(***************************************************************************)
EXTENDS CredentialPool

VARIABLES actor,        \* who took the last step
          heals,        \* id -> revivals since the fault line last ended
          since,        \* id -> ticks since the last of them, or Never
          healed_for,   \* id -> the model of the last of them
          kept          \* id -> these three, at the last save of the id

history == <<actor, heals, since, healed_for, kept>>
vars == <<pool, history>>

InitH ==
    /\ Init
    /\ actor = "restart"
    /\ heals = [c \in Ids |-> IF c \in Live THEN entries[c].streak.rounds ELSE 0]
    /\ since = [c \in Ids |-> IF c \in Live THEN entries[c].streak.age ELSE Never]
    /\ healed_for = [c \in Ids |-> IF c \in Live THEN entries[c].streak.model ELSE NoModel]
    /\ kept = [c \in Ids |-> [rounds |-> heals[c], age |-> since[c], model |-> healed_for[c]]]

(* An id whose last change is saved is kept as it is now.                  *)
Keep(former) ==
    kept' = [c \in Ids |->
                IF c \in saves'.unsaved THEN former[c]
                ELSE [rounds |-> heals'[c], age |-> since'[c], model |-> healed_for'[c]]]

Remember == UNCHANGED <<heals, since, healed_for>>

(* The fault line of c is over: a success on its model, an operator's      *)
(* enable or reset, or a credential that is new or gone.                   *)
Forget(c) ==
    /\ heals' = [heals EXCEPT ![c] = 0]
    /\ since' = [since EXCEPT ![c] = Never]
    /\ healed_for' = [healed_for EXCEPT ![c] = NoModel]

Success(c, m) ==
    /\ ReportSuccess(c, m)
    /\ IF heals[c] > 0 /\ healed_for[c] = m THEN Forget(c) ELSE Remember

Heal(m, g) ==
    /\ TrySelfHeal(m, g)
    /\ LET S == HealSet(m, g) IN
       /\ heals' = [c \in Ids |-> IF c \in S THEN OneMore(heals[c], U32_MAX) ELSE heals[c]]
       /\ since' = [c \in Ids |-> IF c \in S THEN 0 ELSE since[c]]
       /\ healed_for' = [c \in Ids |-> IF c \in S THEN m ELSE healed_for[c]]

OtherRequest(c) ==
    /\ \/ ReportFailure(c) \/ ReportQuotaExhausted(c) \/ ReportRefreshFailure(c)
       \/ ReportRefreshTokenInvalid(c) \/ (ThrottleFailover /\ ReportAccountThrottled(c))
       \/ \E r \in Rules, m \in ModelArgs, g \in GroupArgs : ReportCustomRuleHit(c, r, m, g)
       \/ AcquireNext(c)
    /\ Remember

RequestH ==
    /\ actor' = "request"
    /\ \/ \E c \in Ids : \/ \E m \in ModelArgs : Success(c, m)
                         \/ OtherRequest(c)
       \/ \E m \in ModelArgs, g \in GroupArgs : Heal(m, g)
    /\ Keep(kept)

RotationH == actor' = "rotation" /\ RotationNext /\ Remember /\ Keep(kept)

Release(c) == (SetDisabled(c, FALSE) \/ ResetAndEnable(c)) /\ Forget(c)

Remove(c) == DeleteCredential(c) /\ Forget(c)

Import ==
    \E cred \in NewCredentials, duplicate \in BOOLEAN :
        AddCredential(cred, duplicate) /\ Forget(next_id)

OtherOperator ==
    /\ \/ \E c \in Ids :
             \/ SetDisabled(c, TRUE)
             \/ \E b \in OpusLevels : UpdateSubscription(c, b)
             \/ ClearThrottle(c) \/ DisableQuotaExceeded(c)
             \/ \E p \in Priorities : SetPriority(c, p)
             \/ \E gs \in SUBSET Groups : UpdateCredential(c, gs)
             \/ UpdateRefreshToken(c) \/ ResetSuccessCount({c})
       \/ ResetSuccessCount(Live)
       \/ \E g, h \in Groups : RenameGroup(g, h)
       \/ \E g \in Groups : RemoveGroup(g)
       \/ SwitchToNext
       \/ \E mode \in Modes : SetLoadBalancingMode(mode)
       \/ \E h \in HealConfigs : SetSelfHealConfig(h)
       \/ \E n \in RpmLimits : SetAccountRpmConfig(n)
    /\ Remember

OperatorH ==
    /\ actor' = "operator"
    /\ (\E c \in Ids : Release(c) \/ Remove(c)) \/ Import \/ OtherOperator
    /\ Keep(kept)

ClockH ==
    /\ actor' = "clock"
    /\ \/ /\ Tick
          /\ since' = [c \in Ids |-> Older(since[c])]
          /\ UNCHANGED <<heals, healed_for>>
          /\ Keep([c \in Ids |-> [kept[c] EXCEPT !.age = Older(@)]])
       \/ (\E c \in Ids : ThrottleExpire(c) \/ RpmSlide(c)) /\ Remember /\ Keep(kept)

SaveH == actor' = "clock" /\ Persist /\ Remember /\ Keep(kept)

RestartH ==
    /\ actor' = "restart"
    /\ Restart
    /\ heals' = [c \in Ids |-> kept[c].rounds]
    /\ since' = [c \in Ids |-> kept[c].age]
    /\ healed_for' = [c \in Ids |-> kept[c].model]
    /\ UNCHANGED kept

NextH == RequestH \/ RotationH \/ OperatorH \/ ClockH \/ SaveH \/ RestartH

SpecH == InitH /\ [][NextH]_vars

---------------------------------------------------------------------------
(* The history variables hold values of their types. *)
HistoryTypeOK ==
    /\ actor \in {"request", "rotation", "operator", "clock", "restart"}
    /\ heals \in [Ids -> Nat]
    /\ since \in [Ids -> {Never} \cup Nat]
    /\ healed_for \in [Ids -> ModelArgs]
    /\ kept \in [Ids -> Streak]

(* What the observer counts is what the entries hold, in every state: a    *)
(* crash takes both back to the same save.                                 *)
StreakObserved ==
    \A c \in Live :
        /\ heals[c] = entries[c].streak.rounds
        /\ since[c] = entries[c].streak.age
        /\ healed_for[c] = entries[c].streak.model

(* A request revives a credential only within the operator's limits, as    *)
(* counted by the observer: fewer revivals than max_consecutive_rounds     *)
(* since the fault line ended, and min_interval after the last one -       *)
(* crashes in between do not help, save that one forgets the revivals no   *)
(* save followed (comment in persist_credentials).                         *)
HealWithinLimits ==
    actor' = "request" =>
        \A c \in Live \cap DOMAIN entries' :
            entries[c].disabled /\ ~entries'[c].disabled =>
                /\ settings.heal.max_rounds > 0 => heals[c] < settings.heal.max_rounds
                /\ since[c] # Never => since[c] >= settings.heal.min_interval

HealBudget == [][HealWithinLimits]_vars

StatusOf(c) ==
    IF c \notin Live THEN "absent"
    ELSE IF ~entries[c].disabled THEN "active"
    ELSE IF entries[c].disabled_reason = "Manual" THEN "manual"
    ELSE IF entries[c].disabled_reason \in {"TooManyFailures", "CustomHealable"}
         THEN "healable" ELSE "final"

LC == INSTANCE CredentialLifecycle
      WITH status <- [c \in Ids |-> StatusOf(c)], unsaved <- saves.unsaved

(* The pool implements the life cycle: request traffic never revives a     *)
(* manual or final credential, a restart never lifts a manual hold that    *)
(* was saved nor loses or invents a credential, a rotation revives one at  *)
(* a time.                                                                 *)
ImplementsLifecycle == LC!Spec

=============================================================================
