--------------------------- MODULE AcquireContext ---------------------------
(***************************************************************************)
(* acquire_context: how concurrent requests get a credential and a token.  *)
(* Each step of a request is one lock section of the code (or the wait for *)
(* an upstream answer), so everything that can happen between two of them  *)
(* does: other requests, the operator, time, a restart.                    *)
(*                                                                         *)
(*   pc         where in the code                                          *)
(*   top        the head of `loop`                                         *)
(*   select     select_next_credential, after the current_id shortcut      *)
(*   heal       try_self_heal, nothing was selectable                      *)
(*   reselect   the second select_next_credential                          *)
(*   explain    nothing to select: RPM exhausted or all disabled           *)
(*   bind       `*current_id = new_id`                                     *)
(*   token      try_ensure_token before the refresh lock                   *)
(*   refresh    the upstream token call, refresh_lock held                 *)
(*   failed, invalid   handle_token_refresh_error                          *)
(*   record     record_request                                             *)
(*   ctx        the caller holds a CallContext                             *)
(*   done       the caller holds an error, in `outcome`                    *)
(***************************************************************************)
EXTENDS CredentialPool

CONSTANTS
    Requests,
    ModelOf, GroupOf,   \* what each request asks for
    Answers,            \* id -> answers the token endpoint may give
    MaxRotations,       \* bound: rotations by other clients
    MaxEdits            \* bound: steps of the operator and restarts

(* What becomes of a token: an API key, or an access token, needs no refresh; *)
(* there is none; or the token endpoint answers.                              *)
Answer == {"api_key", "valid", "missing", "refreshed", "limited", "failed", "invalid"}
Outcome == {"none", "disabled", "exhausted", "limited"}
PC == {"idle", "top", "select", "heal", "reselect", "explain", "bind", "token",
       "refresh", "failed", "invalid", "record", "ctx", "done"}
NoRequest == "no-request"

ASSUME AcquireAssumption ==
    /\ ModelOf \in [Requests -> ModelArgs]
    /\ GroupOf \in [Requests -> GroupArgs]
    /\ Answers \in [Ids -> SUBSET Answer]
    /\ MaxRotations \in Nat /\ MaxEdits \in Nat
    /\ NoRequest \notin Requests

VARIABLES
    pc,             \* request -> where it is
    picked,         \* request -> the id it selected
    snapshot,       \* request -> the KiroCredentials it read with it
    attempts,       \* request -> attempt_count
    max_attempts,   \* request -> its bound, fixed on entry
    outcome,        \* request -> how its last acquire failed
    refresh_lock,   \* the request holding the refresh lock
    rotations, edits

request_vars == <<pc, picked, snapshot, attempts, max_attempts, outcome>>
bounds == <<rotations, edits>>
acquire == <<request_vars, refresh_lock, bounds>>
vars == <<pool, acquire>>

m(r) == ModelOf[r]
g(r) == GroupOf[r]

Blank == [priority |-> 0, groups |-> {}, opus |-> TRUE, broken |-> FALSE]

InitAcquire ==
    /\ Init
    /\ pc = [r \in Requests |-> "idle"]
    /\ picked = [r \in Requests |-> NoCurrent]
    /\ snapshot = [r \in Requests |-> Blank]
    /\ attempts = [r \in Requests |-> 0]
    /\ max_attempts = [r \in Requests |-> 0]
    /\ outcome = [r \in Requests |-> "none"]
    /\ refresh_lock = NoRequest
    /\ rotations = 0 /\ edits = 0

---------------------------------------------------------------------------
(* How a step moves its request. *)

At(r, where) == pc[r] = where
Goto(r, where) ==
    pc' = [pc EXCEPT ![r] = where] /\ UNCHANGED <<picked, snapshot, attempts, max_attempts, outcome>>

Pick(r, c, where) ==
    /\ pc' = [pc EXCEPT ![r] = where]
    /\ picked' = [picked EXCEPT ![r] = c]
    /\ snapshot' = [snapshot EXCEPT ![r] = entries[c].credentials]
    /\ UNCHANGED <<attempts, max_attempts, outcome>>

(* The request forgets all but the outcome. *)
Leave(r, where, result) ==
    /\ pc' = [pc EXCEPT ![r] = where]
    /\ picked' = [picked EXCEPT ![r] = NoCurrent]
    /\ snapshot' = [snapshot EXCEPT ![r] = Blank]
    /\ attempts' = [attempts EXCEPT ![r] = 0]
    /\ max_attempts' = [max_attempts EXCEPT ![r] = 0]
    /\ outcome' = [outcome EXCEPT ![r] = result]

Fail(r, result) == Leave(r, "done", result)

RetryUncounted(r) ==        \* a mutant: `attempt_count += 1` is missing
    Goto(r, "top")

Retry(r) ==
    /\ pc' = [pc EXCEPT ![r] = "top"]
    /\ attempts' = [attempts EXCEPT ![r] = @ + 1]
    /\ UNCHANGED <<picked, snapshot, max_attempts, outcome>>

Local == UNCHANGED <<refresh_lock, bounds>>

---------------------------------------------------------------------------
(* total_count_in_group fixes the number of attempts on entry. *)
Start(r) ==
    /\ At(r, "idle")
    /\ LET total == Cardinality({c \in Live : GroupMatches(entries[c].credentials, g(r))})
           most == total * MAX_FAILURES_PER_CREDENTIAL
       IN  max_attempts' = [max_attempts EXCEPT ![r] = IF most > 1 THEN most ELSE 1]
    /\ pc' = [pc EXCEPT ![r] = "top"]
    /\ UNCHANGED <<picked, snapshot, attempts, outcome, pool>> /\ Local

Exhausted(r) ==
    /\ At(r, "top") /\ attempts[r] >= max_attempts[r]
    /\ Fail(r, "exhausted")
    /\ UNCHANGED pool /\ Local

(* Priority mode tries current_id before it selects. *)
CurrentHit(r) ==
    /\ settings.mode = "priority"
    /\ current_id \in Selectable(m(r), g(r))

TryCurrentUnbounded(r) ==   \* a mutant: attempt_count is not compared with its bound
    /\ At(r, "top")
    /\ IF CurrentHit(r) THEN Pick(r, current_id, "token") ELSE Goto(r, "select")
    /\ UNCHANGED pool /\ Local

TryCurrent(r) ==
    /\ At(r, "top") /\ attempts[r] < max_attempts[r]
    /\ IF CurrentHit(r) THEN Pick(r, current_id, "token") ELSE Goto(r, "select")
    /\ UNCHANGED pool /\ Local

SelectOr(r, here, otherwise) ==
    /\ At(r, here)
    /\ LET S == SelectNext(m(r), g(r)) IN
       IF S = {} THEN Goto(r, otherwise) ELSE \E c \in S : Pick(r, c, "bind")
    /\ UNCHANGED pool /\ Local

Select(r) == SelectOr(r, "select", "heal")

Heal(r) ==
    /\ At(r, "heal")
    /\ \/ TrySelfHeal(m(r), g(r)) /\ Goto(r, "reselect")
       \/ SelfHealRefused(m(r), g(r)) /\ Goto(r, "explain")
    /\ Local

Reselect(r) == SelectOr(r, "reselect", "explain")

Bind(r) == At(r, "bind") /\ BindCurrent(picked[r]) /\ Goto(r, "token") /\ Local

Explain(r) ==
    /\ At(r, "explain")
    /\ Fail(r, IF OnlyRpmExhausted(m(r), g(r)) THEN "limited" ELSE "disabled")
    /\ UNCHANGED pool /\ Local

(* try_ensure_token: nothing to refresh. An API key returns early; a       *)
(* missing key or access token is an error.                                *)
NoRefresh == {"api_key", "valid", "missing"}

TokenValid(r) ==
    /\ At(r, "token")
    /\ Local
    /\ \/ /\ snapshot[r].broken \/ "missing" \in Answers[picked[r]]
          /\ Goto(r, "failed") /\ UNCHANGED pool
       \/ /\ ~snapshot[r].broken /\ "api_key" \in Answers[picked[r]]
          /\ Goto(r, "record") /\ UNCHANGED pool
       \/ /\ ~snapshot[r].broken /\ "valid" \in Answers[picked[r]]
          /\ Goto(r, "record")
          /\ IF picked[r] \in Live THEN TokenObtained(picked[r], snapshot[r], FALSE, TRUE)
                                   ELSE UNCHANGED pool

(* The refresh lock, then the second look at the credential: gone, without *)
(* a token, already refreshed by the previous holder, or to be refreshed.  *)
BeginRefresh(r) ==
    /\ At(r, "token")
    /\ ~snapshot[r].broken /\ Answers[picked[r]] \ NoRefresh # {}
    /\ refresh_lock = NoRequest
    /\ UNCHANGED bounds
    /\ LET c == picked[r] IN
       \/ /\ c \notin Live \/ "missing" \in Answers[c]
          /\ Goto(r, "failed")
          /\ UNCHANGED <<pool, refresh_lock>>
       \/ /\ c \in Live /\ "refreshed" \in Answers[c]
          /\ Pick(r, c, "record")
          /\ TokenObtained(c, entries[c].credentials, FALSE, TRUE)
          /\ UNCHANGED refresh_lock
       \/ /\ c \in Live
          /\ Pick(r, c, "refresh")
          /\ refresh_lock' = r
          /\ UNCHANGED pool

(* The answer of the token endpoint; the lock is released. *)
EndRefresh(r) ==
    /\ At(r, "refresh")
    /\ refresh_lock' = NoRequest
    /\ UNCHANGED bounds
    /\ \E a \in Answers[picked[r]] :
          \/ /\ a = "refreshed"
             /\ Goto(r, "record")
             /\ IF picked[r] \in Live THEN TokenObtained(picked[r], snapshot[r], TRUE, TRUE)
                                      ELSE UNCHANGED pool
          \/ a = "limited" /\ Fail(r, "limited") /\ UNCHANGED pool
          \/ a \in {"failed", "invalid"} /\ Goto(r, a) /\ UNCHANGED pool

(* handle_token_refresh_error: after a counted failure the loop goes on    *)
(* while any credential at all is enabled.                                 *)
RetryIfStillEnabled(r) ==   \* a mutant: gives up when its own credential is disabled
    IF picked[r] \in EnabledIn(entries') THEN Retry(r) ELSE Fail(r, "disabled")

RetryIfAny(r) == IF AnyEnabled(entries') THEN Retry(r) ELSE Fail(r, "disabled")

RefreshFailed(r) ==
    /\ At(r, "failed")
    /\ ReportRefreshFailure(picked[r]) \/ Ignored(picked[r])
    /\ RetryIfAny(r)
    /\ Local

(* A token newer than ours in the file is taken and the attempt not counted. *)
Reloaded(r) ==
    /\ At(r, "invalid") /\ rotations < MaxRotations
    /\ ReloadFromFile(picked[r])
    /\ rotations' = rotations + 1
    /\ Goto(r, "top")
    /\ UNCHANGED <<refresh_lock, edits>>

RefreshTokenInvalid(r) ==
    /\ At(r, "invalid")
    /\ ReportRefreshTokenInvalid(picked[r]) \/ Ignored(picked[r])
    /\ RetryIfAny(r)
    /\ Local

Record(r) ==
    /\ At(r, "record")
    /\ \/ RecordRequest(picked[r]) /\ Goto(r, "ctx")
       \/ RecordRefused(picked[r]) /\ Retry(r)
    /\ Local

AcquireStep(r) ==
    \/ Exhausted(r) \/ TryCurrent(r) \/ Select(r) \/ Heal(r) \/ Reselect(r)
    \/ Explain(r) \/ Bind(r) \/ TokenValid(r) \/ BeginRefresh(r) \/ EndRefresh(r)
    \/ RefreshFailed(r) \/ Reloaded(r) \/ RefreshTokenInvalid(r) \/ Record(r)

---------------------------------------------------------------------------
(* A caller that reports anything, or nothing. *)
CONSTANT CallerReports

ReportOf(kind, c, r) ==
    \/ kind = "success" /\ ReportSuccess(c, m(r))
    \/ kind = "failure" /\ ReportFailure(c)
    \/ kind = "quota" /\ ReportQuotaExhausted(c)
    \/ kind = "throttled" /\ ThrottleFailover /\ ReportAccountThrottled(c)
    \/ kind = "rule" /\ \E rule \in Rules : ReportCustomRuleHit(c, rule, m(r), g(r))

Caller(r) ==
    /\ At(r, "ctx")
    /\ (\E kind \in CallerReports : ReportOf(kind, picked[r], r)) \/ Ignored(picked[r])
    /\ Leave(r, "idle", "none")
    /\ Local

GiveUp(r) == At(r, "done") /\ Leave(r, "idle", "none") /\ UNCHANGED pool /\ Local

Operator ==
    /\ edits < MaxEdits /\ edits' = edits + 1
    /\ OperatorNext
    /\ UNCHANGED <<request_vars, refresh_lock, rotations>>

Clock == (TimeNext \/ Persist) /\ UNCHANGED acquire

(* A crash loses every request. *)
Crash ==
    /\ edits < MaxEdits /\ edits' = edits + 1
    /\ Restart
    /\ pc' = [r \in Requests |-> "idle"]
    /\ picked' = [r \in Requests |-> NoCurrent]
    /\ snapshot' = [r \in Requests |-> Blank]
    /\ attempts' = [r \in Requests |-> 0]
    /\ max_attempts' = [r \in Requests |-> 0]
    /\ outcome' = [r \in Requests |-> "none"]
    /\ refresh_lock' = NoRequest
    /\ UNCHANGED rotations

Environment == Operator \/ Clock \/ Crash

NextAcquire ==
    \/ \E r \in Requests : Start(r) \/ AcquireStep(r) \/ Caller(r) \/ GiveUp(r)
    \/ Environment

(* The executor runs every ready task and the network answers or times    *)
(* out; tokio's Mutex serves its waiters in order, so a waiter is not      *)
(* overtaken forever.                                                      *)
Fairness ==
    \A r \in Requests : WF_vars(AcquireStep(r)) /\ SF_vars(BeginRefresh(r))

SpecAcquire == InitAcquire /\ [][NextAcquire]_vars /\ Fairness

---------------------------------------------------------------------------
(* Every variable of a request holds a value of its type, and no acquire   *)
(* counts more attempts than it was given on entry.                        *)
TypeOKAcquire ==
    /\ pc \in [Requests -> PC]
    /\ picked \in [Requests -> Nat]
    /\ snapshot \in [Requests -> KiroCredentials]
    /\ attempts \in [Requests -> Nat] /\ max_attempts \in [Requests -> Nat]
    /\ \A r \in Requests : attempts[r] <= max_attempts[r]
    /\ outcome \in [Requests -> Outcome]
    /\ refresh_lock \in Requests \cup {NoRequest}
    /\ rotations \in 0 .. MaxRotations /\ edits \in 0 .. MaxEdits

(* However requests interleave between selecting a credential and          *)
(* recording the call, no credential starts more calls in a window than    *)
(* the largest limit configured (record_request checks and counts in one   *)
(* lock section).                                                          *)
RpmNeverExceeded ==
    0 \notin RpmLimits =>
        \A c \in Live : \E n \in RpmLimits : entries[c].rpm_used <= n

(* Every acquire ends, with a context or an error, whatever the token      *)
(* endpoint answers, as long as other clients do not rotate the token      *)
(* forever (acquire_context's attempt_count).                              *)
Acquiring(r) == pc[r] \notin {"idle", "ctx", "done"}

AcquireEnds == \A r \in Requests : Acquiring(r) ~> ~Acquiring(r)

=============================================================================
