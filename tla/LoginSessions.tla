---------------------------- MODULE LoginSessions ----------------------------
(***************************************************************************)
(* Interactive logins: the social one with its callback server             *)
(* (src/kiro/auth/social.rs), the device authorisation                     *)
(* (src/kiro/auth/idc.rs), and the sessions that src/admin/service.rs      *)
(* keeps while the panel polls them or an operator pastes the callback.    *)
(* What a successful login does to the credential is in TokenRotation.     *)
(***************************************************************************)
EXTENDS Naturals, FiniteSets, Functions

CONSTANTS Sessions,        \* session ids: each is drawn once
          Pollers,       \* requests of the panel that run at the same time
          Ports          \* how many callback ports there are

VARIABLES
    session,       \* social_sessions and idc_sessions: id |-> session
    listening,     \* logins whose callback server holds a port
    channel,       \* the oneshot between a callback server and its session
    approved,      \* device codes the user approved, not spent yet
    poller,        \* what each request of the panel is doing
    presented,     \* history: codes presented to the token endpoint, per login
    gained         \* history: credentials gained (or renewed), per login

loginVars == <<session, listening, channel, approved, poller, presented, gained>>

Resting == [pc |-> "idle", login |-> "none", callback |-> "none", relogin |-> FALSE]
Unused(s) == s \notin DOMAIN session /\ channel[s] = "unused"
Step(t, r) == poller' = [poller EXCEPT ![t] = r]
Opened(s, kind, relogin) ==
    session' = [x \in DOMAIN session \cup {s} |->
                   IF x = s THEN [kind |-> kind, relogin |-> relogin, expired |-> FALSE]
                   ELSE session[x]]
WithoutLogin(s) == Restrict(session, DOMAIN session \ {s})

LoginInit ==
    /\ session = <<>> /\ listening = {} /\ approved = {}
    /\ channel = [s \in Sessions |-> "unused"]
    /\ poller = [t \in Pollers |-> Resting]
    /\ presented = [s \in Sessions |-> 0] /\ gained = [s \in Sessions |-> 0]

\* start_social_login, start_social_relogin: refused when no port is free.
StartSocial(s, relogin) ==
    /\ Unused(s) /\ Cardinality(listening) < Ports
    /\ Opened(s, "social", relogin)
    /\ listening' = listening \cup {s} /\ channel' = [channel EXCEPT ![s] = "empty"]
    /\ UNCHANGED <<approved, poller, presented, gained>>

\* run_callback_server: the first callback ends it; one that reports an error
\* closes the channel, any other goes through unchecked.
Callback(s, callback) ==
    /\ s \in listening /\ callback \in {"genuine", "foreign", "error"}
    /\ listening' = listening \ {s}
    /\ channel' = [channel EXCEPT ![s] = IF callback = "error" THEN "closed" ELSE callback]
    /\ UNCHANGED <<session, approved, poller, presented, gained>>

ExpireLogin(s) ==
    /\ s \in DOMAIN session /\ ~session[s].expired
    /\ session' = [session EXCEPT ![s].expired = TRUE]
    /\ UNCHANGED <<listening, channel, approved, poller, presented, gained>>

\* The background task that AdminService::new starts, for both kinds of session.
SweepExpired ==
    LET over == {s \in DOMAIN session : session[s].expired}
    IN  /\ over # {} /\ session' = Restrict(session, DOMAIN session \ over)
        /\ listening' = listening \ over
        /\ UNCHANGED <<channel, approved, poller, presented, gained>>

-----------------------------------------------------------------------------
(* Social: poll, or paste; then the state is compared, the session taken   *)
(* out and the code exchanged, each under a lock of its own.               *)
PollSocial(t, s) ==
    /\ poller[t] = Resting /\ s \in DOMAIN session /\ session[s].kind = "social"
    /\ \/ /\ session[s].expired \/ channel[s] = "closed"
          /\ Step(t, [Resting EXCEPT !.pc = "discard", !.login = s])
          /\ UNCHANGED channel
       \/ /\ ~session[s].expired /\ channel[s] \in {"genuine", "foreign"}
          /\ Step(t, [Resting EXCEPT !.pc = "compare", !.login = s, !.callback = channel[s]])
          /\ channel' = [channel EXCEPT ![s] = "closed"]
    /\ UNCHANGED <<session, listening, approved, presented, gained>>

\* Dropping the session drops the handle of its server, which frees the port;
\* a session that another request has taken out is not there to be dropped.
Discard(t) ==
    /\ poller[t].pc = "discard" /\ Step(t, Resting)
    /\ session' = WithoutLogin(poller[t].login)
    /\ listening' = listening \ ({poller[t].login} \cap DOMAIN session)
    /\ UNCHANGED <<channel, approved, presented, gained>>

\* complete_social_login.
PasteCallback(t, s, callback) ==
    /\ poller[t] = Resting /\ s \in DOMAIN session /\ session[s].kind = "social"
    /\ ~session[s].expired /\ callback \in {"genuine", "foreign"}
    /\ Step(t, [Resting EXCEPT !.pc = "compare", !.login = s, !.callback = callback])
    /\ UNCHANGED <<session, listening, channel, approved, presented, gained>>

\* A foreign state leaves the session for another attempt.
CompareState(t) ==
    /\ poller[t].pc = "compare"
    /\ Step(t, IF poller[t].callback = "genuine" /\ poller[t].login \in DOMAIN session
               THEN [poller[t] EXCEPT !.pc = "claim"] ELSE Resting)
    /\ UNCHANGED <<session, listening, channel, approved, presented, gained>>

SessionKept(s) == session             \* mutant: removed only when it succeeded
SessionTaken(s) == WithoutLogin(s)

Claim(t) ==
    /\ poller[t].pc = "claim"
    /\ LET s == poller[t].login
       IN  IF s \in DOMAIN session
           THEN /\ session' = SessionTaken(s)
                /\ Step(t, [poller[t] EXCEPT !.pc = "exchange", !.relogin = session[s].relogin])
           ELSE Step(t, Resting) /\ UNCHANGED session
    /\ UNCHANGED <<listening, channel, approved, presented, gained>>

\* exchange_code_for_token; its end also drops the session and frees the port.
ExchangeCode(t, ok) ==
    /\ poller[t].pc = "exchange" /\ Step(t, Resting)
    /\ LET s == poller[t].login
       IN  /\ presented' = [presented EXCEPT ![s] = @ + 1]
           /\ gained' = [gained EXCEPT ![s] = IF ok THEN @ + 1 ELSE @]
           /\ listening' = listening \ {s}
    /\ UNCHANGED <<session, channel, approved>>

-----------------------------------------------------------------------------
(* Device authorisation: the session stays until the endpoint has decided. *)
StartIdc(s, relogin) ==
    /\ Unused(s) /\ Opened(s, "idc", relogin)
    /\ channel' = [channel EXCEPT ![s] = "device"]
    /\ UNCHANGED <<listening, approved, poller, presented, gained>>

Approve(s) ==
    /\ channel[s] = "device" /\ presented[s] = 0 /\ s \notin approved
    /\ approved' = approved \cup {s}
    /\ UNCHANGED <<session, listening, channel, poller, presented, gained>>

\* The lock is released before the endpoint is asked; an expired session
\* answers Expired and stays.
PollIdc(t, s) ==
    /\ poller[t] = Resting /\ s \in DOMAIN session /\ session[s].kind = "idc"
    /\ ~session[s].expired
    /\ Step(t, [Resting EXCEPT !.pc = "ask", !.login = s, !.relogin = session[s].relogin])
    /\ UNCHANGED <<session, listening, channel, approved, presented, gained>>

\* poll_token: the endpoint hands a device code's token out once; the answer
\* may be lost, or come without a refresh token, which a relogin ignores.
AskEndpoint(t, answer) ==
    /\ poller[t].pc = "ask" /\ Step(t, Resting)
    /\ LET s == poller[t].login
       IN  \/ /\ answer \in {"pending", "failed"} /\ s \notin approved
              /\ UNCHANGED <<session, approved, presented, gained>>
           \/ /\ answer = "expired" /\ s \notin approved /\ session' = WithoutLogin(s)
              /\ UNCHANGED <<approved, presented, gained>>
           \/ /\ answer \in {"token", "lost"} /\ s \in approved
              /\ approved' = approved \ {s}
              /\ presented' = [presented EXCEPT ![s] = @ + 1]
              /\ IF answer = "lost" THEN UNCHANGED <<session, gained>>
                 ELSE session' = WithoutLogin(s) /\ gained' = [gained EXCEPT ![s] = @ + 1]
    /\ UNCHANGED <<listening, channel>>

LoginNext ==
    \/ \E s \in Sessions :
        \/ \E b \in BOOLEAN : StartSocial(s, b) \/ StartIdc(s, b)
        \/ \E c \in {"genuine", "foreign", "error"} : Callback(s, c)
        \/ ExpireLogin(s) \/ Approve(s)
        \/ \E t \in Pollers :
            \/ PollSocial(t, s) \/ PollIdc(t, s)
            \/ \E c \in {"genuine", "foreign"} : PasteCallback(t, s, c)
    \/ SweepExpired
    \/ \E t \in Pollers :
        \/ Discard(t) \/ CompareState(t) \/ Claim(t)
        \/ \E ok \in BOOLEAN : ExchangeCode(t, ok)
        \/ \E a \in {"pending", "failed", "expired", "token", "lost"} : AskEndpoint(t, a)

-----------------------------------------------------------------------------
(* Property                                                                *)

\* However polls and a pasted callback race, an authorisation is exchanged at
\* most once and gains at most one credential; and a callback server outlives
\* its session only while the request that claimed it is exchanging the code,
\* so no port is lost with a login that is over.
LoginUsedOnce ==
    /\ \A s \in Sessions : presented[s] <= 1 /\ gained[s] <= presented[s]
    /\ \A s \in listening :
        \/ s \in DOMAIN session
        \/ \E t \in Pollers : poller[t].pc = "exchange" /\ poller[t].login = s
=============================================================================
