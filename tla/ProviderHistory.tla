-------------------------- MODULE ProviderHistory --------------------------
(***************************************************************************)
(* KiroProvider with an observer at the upstream's side: it remembers, for *)
(* every call, whether the last attempt that went out came back with a     *)
(* 429. What the call does with the answer it does not see.                *)
(***************************************************************************)
EXTENDS KiroProvider

VARIABLE limited

InitLimited == InitProvider /\ limited = [r \in Requests |-> FALSE]

RateLimited == {"limited", "limited_wait", "suspicious", "suspicious_wait"}

NextLimited ==
    \/ \E r \in Requests :
          \/ \E a \in AnswersTo(r) :
                /\ Receive(r, a)
                /\ limited' = [limited EXCEPT ![r] = a \in RateLimited]
          \/ Quiet(r) /\ UNCHANGED limited
          \/ (BeginCall(r) \/ EndCall(r)) /\ limited' = [limited EXCEPT ![r] = FALSE]
    \/ OtherSteps /\ UNCHANGED limited
    \/ CrashCalls /\ limited' = [r \in Requests |-> FALSE]

SpecLimited == InitLimited /\ [][NextLimited]_<<provider, limited>> /\ FairnessProvider

(* If the last attempt of a call that got as far as a credential came back *)
(* with a 429, the call ends with a 429: no later failure to acquire one   *)
(* takes its place, though a concurrent request, the operator or a rule    *)
(* may have taken the last credential away meanwhile, and running out of   *)
(* attempts does not either (take_rate_limit_error and its test). A later  *)
(* attempt that goes wrong in another way - no endpoint, no client, no     *)
(* connection, another answer, a 429 that a custom rule takes for          *)
(* something else - does: last_error is then that error.                   *)
RateLimitPreserved ==
    \A r \in Requests : limited[r] => result[r] \in {"none", "429"}

=============================================================================
