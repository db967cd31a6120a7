---------------------------- MODULE KiroProvider ----------------------------
(***************************************************************************)
(* kiro/provider.rs: one client call is a loop of attempts, each of which  *)
(* acquires a context, sends the request upstream and decides from the     *)
(* answer what to tell the pool and whether to go on                       *)
(* (call_api_with_retry, call_mcp_with_retry).                             *)
(*                                                                         *)
(*   call       where a call is                                            *)
(*   loop       the head of `for attempt in 0..max_retries`                *)
(*   acquiring  inside acquire_context (AcquireContext's pc says where)    *)
(*   profile    ensure_profile_arn (API calls only)                        *)
(*   upstream   the request is out                                         *)
(*   forcing    force_refresh_token_for waits for the refresh lock         *)
(*   forced     ... holds it and waits for the token endpoint              *)
(*   blamed     report_failure after a 401/403                             *)
(*   returned   the caller has `result`                                    *)
(*                                                                         *)
(* Upstream answers are the classes the code tells apart, in its order:    *)
(* a custom rule is matched before every status branch, the account-level  *)
(* 429, the client-validation and gateway-timeout answers before the       *)
(* transient ones.  "..._wait" carries a Retry-After the client must obey; *)
(* "no_endpoint", "no_client" (client_for or build fails, the `?` exits)   *)
(* and "network" stand for a request that got no answer.                   *)
(***************************************************************************)
EXTENDS AcquireContext

CONSTANTS
    KindOf,                     \* request -> "api" or "mcp"
    Upstream,                   \* answers the upstream may give
    MAX_RETRIES_PER_CREDENTIAL, MAX_TOTAL_RETRIES

ApiOnly == {"suspicious", "suspicious_wait", "invalid_messages", "gateway_timeout"}

UpstreamAnswer ==
    {"no_endpoint", "no_client", "network", "success", "rule", "quota", "bad_request", "denied",
     "token_invalid", "limited", "limited_wait", "transient", "client_error", "other"}
        \cup ApiOnly

ASSUME ProviderAssumption ==
    /\ KindOf \in [Requests -> {"api", "mcp"}]
    /\ \A r \in Requests : KindOf[r] = "mcp" => ModelOf[r] = NoModel
    /\ Upstream \subseteq UpstreamAnswer
    /\ MAX_RETRIES_PER_CREDENTIAL \in Nat \ {0} /\ MAX_TOTAL_RETRIES \in Nat \ {0}

Call == {"idle", "loop", "acquiring", "profile", "upstream", "forcing", "forced",
         "blamed", "returned"}

Error == {"none", "generic", "429"}

VARIABLES
    call,               \* request -> where its call is
    tries,              \* request -> attempt
    max_retries,        \* request -> its bound, fixed on entry
    last_error,         \* request -> last_error
    force_refreshed,    \* request -> ids it forced a refresh of
    result              \* request -> what the caller got: "ok" or an Error

call_vars == <<call, tries, max_retries, last_error, force_refreshed, result>>
provider == <<vars, call_vars>>

InitProvider ==
    /\ InitAcquire
    /\ call = [r \in Requests |-> "idle"]
    /\ tries = [r \in Requests |-> 0]
    /\ max_retries = [r \in Requests |-> 0]
    /\ last_error = [r \in Requests |-> "none"]
    /\ force_refreshed = [r \in Requests |-> {}]
    /\ result = [r \in Requests |-> "none"]

---------------------------------------------------------------------------
In(r, where) == call[r] = where

Enter(r, where) ==
    call' = [call EXCEPT ![r] = where]
    /\ UNCHANGED <<tries, max_retries, last_error, force_refreshed, result>>

(* The next attempt, after an error e ("none" leaves last_error alone). *)
NextTryUncounted(r, e) ==   \* a mutant: the attempt is not counted
    /\ call' = [call EXCEPT ![r] = "loop"]
    /\ last_error' = [last_error EXCEPT ![r] = IF e = "none" THEN @ ELSE e]
    /\ UNCHANGED <<tries, max_retries, force_refreshed, result>>

NextTry(r, e) ==
    /\ call' = [call EXCEPT ![r] = "loop"]
    /\ tries' = [tries EXCEPT ![r] = @ + 1]
    /\ last_error' = [last_error EXCEPT ![r] = IF e = "none" THEN @ ELSE e]
    /\ UNCHANGED <<max_retries, force_refreshed, result>>

Return(r, e) ==
    /\ call' = [call EXCEPT ![r] = "returned"]
    /\ result' = [result EXCEPT ![r] = e]
    /\ tries' = [tries EXCEPT ![r] = 0]
    /\ max_retries' = [max_retries EXCEPT ![r] = 0]
    /\ last_error' = [last_error EXCEPT ![r] = "none"]
    /\ force_refreshed' = [force_refreshed EXCEPT ![r] = {}]

KeepBounds == UNCHANGED <<refresh_lock, bounds>>
KeepAcquire == UNCHANGED <<request_vars, refresh_lock, bounds>>

(* The context is dropped and the call goes on or ends. *)
Drop(r) == Leave(r, "idle", "none") /\ KeepBounds

---------------------------------------------------------------------------
BeginCall(r) ==
    /\ In(r, "idle")
    /\ LET total == Cardinality({c \in Live : GroupMatches(entries[c].credentials, g(r))})
           most == (IF total > 1 THEN total ELSE 1) * MAX_RETRIES_PER_CREDENTIAL
       IN  max_retries' =
               [max_retries EXCEPT ![r] = IF most < MAX_TOTAL_RETRIES THEN most
                                                                     ELSE MAX_TOTAL_RETRIES]
    /\ call' = [call EXCEPT ![r] = "loop"]
    /\ UNCHANGED <<tries, last_error, force_refreshed, result, vars>>

BeginTryUnbounded(r) ==     \* a mutant: one attempt too many
    /\ In(r, "loop") /\ tries[r] <= max_retries[r]
    /\ Start(r)
    /\ Enter(r, "acquiring")

BeginTry(r) ==
    /\ In(r, "loop") /\ tries[r] < max_retries[r]
    /\ Start(r)
    /\ Enter(r, "acquiring")

(* The loop is over: the last error, or a generic one when there is none. *)
GiveUpCall(r) ==
    /\ In(r, "loop") /\ tries[r] >= max_retries[r]
    /\ Return(r, IF last_error[r] = "429" THEN "429" ELSE "generic")
    /\ UNCHANGED vars

Acquire(r) == In(r, "acquiring") /\ AcquireStep(r) /\ UNCHANGED call_vars

(* A 429 of the acquire is returned as it is; an earlier upstream 429 wins *)
(* over a generic failure to select (take_rate_limit_error).               *)
AcquireFailedForgets(r) ==  \* a mutant: the earlier 429 is overwritten
    /\ In(r, "acquiring") /\ pc[r] = "done"
    /\ IF outcome[r] = "limited" THEN Return(r, "429") ELSE NextTry(r, "generic")
    /\ Drop(r) /\ UNCHANGED pool

AcquireFailed(r) ==
    /\ In(r, "acquiring") /\ pc[r] = "done"
    /\ IF outcome[r] = "limited" \/ last_error[r] = "429"
       THEN Return(r, "429") ELSE NextTry(r, "generic")
    /\ Drop(r) /\ UNCHANGED pool

Acquired(r) ==
    /\ In(r, "acquiring") /\ pc[r] = "ctx"
    /\ Enter(r, IF KindOf[r] = "api" THEN "profile" ELSE "upstream")
    /\ KeepAcquire /\ UNCHANGED pool

(* ensure_profile_arn: a resolved ARN is saved, a 429 ends the call, any   *)
(* other error is ignored.                                                 *)
EnsureProfileArn(r) ==
    /\ In(r, "profile")
    /\ \/ Enter(r, "upstream") /\ KeepAcquire /\ UNCHANGED pool
       \/ /\ Enter(r, "upstream") /\ KeepAcquire
          /\ LET c == picked[r]
             IN  c \in Live /\ TokenObtained(c, entries[c].credentials, TRUE, FALSE)
       \/ "limited" \in Answers[picked[r]] /\ Return(r, "429") /\ Drop(r) /\ UNCHANGED pool

---------------------------------------------------------------------------
(* The branches on the upstream answer. *)

Success(r) ==
    LET told == IF KindOf[r] = "api" THEN m(r) ELSE NoModel IN
    /\ IF picked[r] \in Live THEN ReportSuccess(picked[r], told) ELSE UNCHANGED pool
    /\ Return(r, "ok")

NoEndpoint(r) ==
    /\ ReportFailure(picked[r]) \/ Ignored(picked[r])
    /\ NextTry(r, "generic")

(* Errors that say nothing about the credential: the pool is not told. *)
Transient(r) == NextTry(r, "generic") /\ UNCHANGED pool

Final(r, e) == Return(r, e) /\ UNCHANGED pool

RuleHit(r, rule) ==
    IF rule.action = "abort" THEN Final(r, "generic")
    ELSE /\ ReportCustomRuleHit(picked[r], rule, m(r), g(r)) \/ Ignored(picked[r])
         /\ IF InScope(entries', m(r), g(r)) = {} THEN Return(r, "generic")
                                                  ELSE NextTry(r, "generic")

Quota(r) ==
    /\ ReportQuotaExhausted(picked[r]) \/ Ignored(picked[r])
    /\ IF AnyEnabled(entries') THEN NextTry(r, "generic") ELSE Return(r, "generic")

(* Account-level 429: cooldown and failover, unless the upstream said how  *)
(* long to wait or nothing is left in the scope. With the switch off it is *)
(* an ordinary 429.                                                        *)
Suspicious(r, wait) ==
    IF ~ThrottleFailover
    THEN (IF wait THEN Return(r, "429") ELSE NextTry(r, "429")) /\ UNCHANGED pool
    ELSE /\ IF picked[r] \in Live THEN ReportAccountThrottled(picked[r]) ELSE UNCHANGED pool
         /\ IF wait \/ InScope(entries', m(r), g(r)) = {} THEN Return(r, "429")
                                                          ELSE NextTry(r, "429")

(* 401/403. A token the upstream no longer accepts is refreshed once per   *)
(* credential and call; otherwise the credential is blamed.                *)
Denied(r, token_invalid) ==
    /\ UNCHANGED <<pool, tries, max_retries, last_error, result>>
    /\ IF token_invalid /\ picked[r] \notin force_refreshed[r]
       THEN /\ force_refreshed' = [force_refreshed EXCEPT ![r] = @ \cup {picked[r]}]
            /\ call' = [call EXCEPT ![r] = IF picked[r] \in Live THEN "forcing" ELSE "blamed"]
       ELSE /\ call' = [call EXCEPT ![r] = "blamed"]
            /\ UNCHANGED force_refreshed

Answered(r, a) ==
    \/ a = "success" /\ Success(r)
    \/ a = "no_endpoint" /\ NoEndpoint(r)
    \/ a = "rule" /\ \E rule \in Rules : RuleHit(r, rule)
    \/ a = "quota" /\ Quota(r)
    \/ a = "limited" /\ NextTry(r, "429") /\ UNCHANGED pool
    \/ a = "limited_wait" /\ Final(r, "429")
    \/ a \in {"suspicious", "suspicious_wait"} /\ Suspicious(r, a = "suspicious_wait")
    \/ a \in {"network", "transient", "other"} /\ Transient(r)
    \/ a \in {"no_client", "bad_request", "client_error", "invalid_messages", "gateway_timeout"}
           /\ Final(r, "generic")

AnswersTo(r) == IF KindOf[r] = "api" THEN Upstream ELSE Upstream \ ApiOnly

Receive(r, a) ==
    /\ In(r, "upstream")
    /\ IF a \in {"denied", "token_invalid"}
       THEN /\ Denied(r, a = "token_invalid")
            /\ snapshot' = [snapshot EXCEPT ![r] =     \* read before the lock is taken
                  IF picked[r] \in Live THEN entries[picked[r]].credentials ELSE @]
            /\ UNCHANGED <<pc, picked, attempts, max_attempts, outcome, refresh_lock, bounds>>
       ELSE Answered(r, a) /\ Drop(r)

(* force_refresh_token_for: unlike try_ensure_token it does not look at    *)
(* the credential again once it holds the lock.                            *)
ForceLock(r) ==
    /\ In(r, "forcing") /\ refresh_lock = NoRequest
    /\ refresh_lock' = r
    /\ Enter(r, "forced")
    /\ UNCHANGED <<pool, request_vars, bounds>>

ForceRefreshed(r) ==
    /\ In(r, "forced")
    /\ refresh_lock' = NoRequest /\ UNCHANGED bounds
    /\ LET c == picked[r] IN
       \/ /\ "refreshed" \in Answers[c]
          /\ IF c \in Live THEN TokenObtained(c, snapshot[r], TRUE, TRUE) ELSE UNCHANGED pool
          /\ NextTry(r, "none") /\ Leave(r, "idle", "none")
       \/ /\ "limited" \in Answers[c]
          /\ Return(r, "429") /\ Leave(r, "idle", "none") /\ UNCHANGED pool
       \/ /\ Answers[c] \cap ({"failed", "invalid"} \cup NoRefresh) # {}
          /\ Enter(r, "blamed") /\ UNCHANGED <<pool, request_vars>>

Blame(r) ==
    /\ In(r, "blamed")
    /\ ReportFailure(picked[r]) \/ Ignored(picked[r])
    /\ IF AnyEnabled(entries') THEN NextTry(r, "generic") ELSE Return(r, "generic")
    /\ Drop(r)

EndCall(r) ==
    /\ In(r, "returned")
    /\ call' = [call EXCEPT ![r] = "idle"]
    /\ result' = [result EXCEPT ![r] = "none"]
    /\ UNCHANGED <<tries, max_retries, last_error, force_refreshed, vars>>

Quiet(r) ==                 \* the steps at which no answer comes
    \/ BeginTry(r) \/ GiveUpCall(r) \/ Acquire(r) \/ AcquireFailed(r) \/ Acquired(r)
    \/ EnsureProfileArn(r) \/ ForceLock(r) \/ ForceRefreshed(r) \/ Blame(r)

CallStep(r) == Quiet(r) \/ \E a \in AnswersTo(r) : Receive(r, a)

(* Calls of other clients, bounded with the operator's steps. *)
OtherTraffic ==
    /\ edits < MaxEdits /\ edits' = edits + 1
    /\ RequestNext
    /\ UNCHANGED <<request_vars, refresh_lock, rotations>>

CrashCalls ==
    /\ Crash
    /\ call' = [r \in Requests |-> "idle"]
    /\ tries' = [r \in Requests |-> 0]
    /\ max_retries' = [r \in Requests |-> 0]
    /\ last_error' = [r \in Requests |-> "none"]
    /\ force_refreshed' = [r \in Requests |-> {}]
    /\ result' = [r \in Requests |-> "none"]

OtherSteps == (Operator \/ Clock \/ OtherTraffic) /\ UNCHANGED call_vars

NextProvider ==
    \/ \E r \in Requests : BeginCall(r) \/ CallStep(r) \/ EndCall(r)
    \/ OtherSteps
    \/ CrashCalls

FairnessProvider ==
    \A r \in Requests :
        /\ WF_provider(CallStep(r))
        /\ SF_provider(In(r, "acquiring") /\ BeginRefresh(r) /\ UNCHANGED call_vars)
        /\ SF_provider(ForceLock(r))

SpecProvider == InitProvider /\ [][NextProvider]_provider /\ FairnessProvider

---------------------------------------------------------------------------
(* Every call variable holds a value of its type; a call makes no more     *)
(* attempts than it was given, and never more than the hard limit.         *)
TypeOKProvider ==
    /\ call \in [Requests -> Call]
    /\ tries \in [Requests -> 0 .. MAX_TOTAL_RETRIES]
    /\ max_retries \in [Requests -> 0 .. MAX_TOTAL_RETRIES]
    /\ \A r \in Requests : tries[r] <= max_retries[r]
    /\ last_error \in [Requests -> Error]
    /\ force_refreshed \in [Requests -> SUBSET Ids]
    /\ result \in [Requests -> Error \cup {"ok"}]

(* Every call returns, whatever the upstream and the token endpoint        *)
(* answer and whatever other clients do to the pool meanwhile.             *)
CallEnds == \A r \in Requests : call[r] \notin {"idle", "returned"} ~> call[r] \in {"idle", "returned"}

=============================================================================
