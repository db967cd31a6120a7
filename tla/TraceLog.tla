------------------------------ MODULE TraceLog ------------------------------
(***************************************************************************)
(* The hops of a request and their rows in traces.db: RequestTracer of     *)
(* src/anthropic/handlers.rs and src/admin/trace_db.rs, with the deletion  *)
(* of an account in src/admin/service.rs.  Ids are given again after a     *)
(* restart, so an account is the number of those added before it.          *)
(***************************************************************************)
EXTENDS Naturals, Sequences, SequencesExt, FiniteSetsExt, Functions

CONSTANTS Tracers,       \* requests that run at the same time
          MaxTraced,     \* bound: requests ever started
          MaxAdded,      \* bound: accounts ever added
          MaxHops        \* bound: hops of a request

VARIABLES
    account,       \* credentials.json: id |-> its account
    nextAccount,   \* next_id
    added,         \* accounts added so far
    purging,       \* ids deleted from the pool, not yet from traces.db
    tracer,        \* the RequestTracer of each running request
    traced,        \* requests started so far
    traces,        \* the rows: the last hop's id, the hops, whether it is old
    tracing,       \* TraceStore.enabled
    outlived       \* history: ids with hops stored after the account went, or
                   \* left behind by a deletion that an error or a crash cut short

traceVars == <<account, nextAccount, added, purging, tracer, traced, traces,
               tracing, outlived>>

NoTracer == [pc |-> "none", id |-> 0, account |-> 0, attempts |-> <<>>]
Hop(r, ok) == [id |-> r.id, account |-> r.account, ok |-> ok]
Lives(h) == h.id \in DOMAIN account /\ account[h.id] = h.account
Using(r, pc, id) == [r EXCEPT !.pc = pc, !.id = id, !.account = account[id]]

TraceInit ==
    /\ account = [id \in {1, 2} |-> id - 1] /\ nextAccount = 3 /\ added = 2 /\ purging = {}
    /\ tracer = [t \in Tracers |-> NoTracer] /\ traced = 0
    /\ traces = {} /\ tracing = TRUE /\ outlived = {}

BeginTrace(t, id) ==
    /\ tracer[t] = NoTracer /\ id \in DOMAIN account
    /\ traced < MaxTraced /\ traced' = traced + 1
    /\ tracer' = [tracer EXCEPT ![t] = Using(NoTracer, "hop", id)]
    /\ UNCHANGED <<account, nextAccount, added, purging, traces, tracing, outlived>>

\* on_attempt: the hop is over; after a failure another account may be tried.
OnAttempt(t, ok, next) ==
    /\ tracer[t].pc = "hop"
    /\ LET r == [tracer[t] EXCEPT !.attempts = Append(@, Hop(tracer[t], ok))]
           over == ok \/ Len(r.attempts) = MaxHops \/ account = <<>>
       IN  /\ over <=> next = 0
           /\ tracer' = [tracer EXCEPT ![t] =
                  IF over THEN [r EXCEPT !.pc = "finalize"] ELSE Using(r, "hop", next)]
    /\ UNCHANGED <<account, nextAccount, added, purging, traced, traces, tracing, outlived>>

\* finalize and TraceStore::insert: one transaction, which may fail; nothing
\* is stored while tracing is off.
Finalize(t, ok) ==
    /\ tracer[t].pc = "finalize"
    /\ LET hops == tracer[t].attempts
           row == [final |-> Last(hops).id, hops |-> ToSet(hops), old |-> FALSE]
       IN  IF ok /\ tracing
           THEN /\ traces' = traces \cup {row}
                /\ outlived' = outlived \cup {h.id : h \in {g \in row.hops : ~Lives(g)}}
           ELSE UNCHANGED <<traces, outlived>>
    /\ tracer' = [tracer EXCEPT ![t] = NoTracer]
    /\ UNCHANGED <<account, nextAccount, added, purging, traced, tracing>>

AddAccount ==
    /\ added < MaxAdded /\ added' = added + 1
    /\ account' = [id \in DOMAIN account \cup {nextAccount} |->
                       IF id = nextAccount THEN added ELSE account[id]]
    /\ nextAccount' = nextAccount + 1
    /\ UNCHANGED <<purging, tracer, traced, traces, tracing, outlived>>

\* AdminService::delete_credential: the pool first, then traces.db.
DeleteAccount(id) ==
    /\ id \in DOMAIN account
    /\ account' = Restrict(account, DOMAIN account \ {id})
    /\ purging' = purging \cup {id}
    /\ UNCHANGED <<nextAccount, added, tracer, traced, traces, tracing, outlived>>

\* delete_for_credential: the traces that end with it, its hops in the others.
PurgedByFinal(id) == {t \in traces : t.final # id}              \* mutant
Purged(id) == {[t EXCEPT !.hops = {h \in @ : h.id # id}] : t \in {u \in traces : u.final # id}}
\* The transaction may fail, which is only logged.
Purge(id, ok) ==
    /\ id \in purging /\ purging' = purging \ {id}
    /\ traces' = IF ok THEN Purged(id) ELSE traces
    /\ outlived' = IF ok THEN outlived \ {id} ELSE outlived \cup {id}
    /\ UNCHANGED <<account, nextAccount, added, tracer, traced, tracing>>

SetTracing(on) ==
    /\ tracing' = on
    /\ UNCHANGED <<account, nextAccount, added, purging, tracer, traced, traces, outlived>>

\* cleanup: rows grow old as days pass, then they go with their hops.
CleanUpTraces ==
    /\ traces' = {[t EXCEPT !.old = TRUE] : t \in {u \in traces : ~u.old}}
    /\ UNCHANGED <<account, nextAccount, added, purging, tracer, traced, tracing, outlived>>

\* The process dies and comes back: ids start after the highest one saved.
TraceRestart ==
    /\ tracer' = [t \in Tracers |-> NoTracer]
    /\ nextAccount' = Max(DOMAIN account \cup {0}) + 1
    /\ outlived' = outlived \cup purging /\ purging' = {}
    /\ UNCHANGED <<account, added, traced, traces, tracing>>

TraceNext ==
    \/ \E t \in Tracers :
        \/ \E id \in DOMAIN account : BeginTrace(t, id)
        \/ \E ok \in BOOLEAN, next \in DOMAIN account \cup {0} : OnAttempt(t, ok, next)
        \/ \E ok \in BOOLEAN : Finalize(t, ok)
    \/ \E id \in DOMAIN account : DeleteAccount(id)
    \/ \E id \in purging, ok \in BOOLEAN : Purge(id, ok)
    \/ \E on \in BOOLEAN : SetTracing(on)
    \/ AddAccount \/ CleanUpTraces \/ TraceRestart

\* failure_stats: the failed hops counted against an id.
FailedHops(id) == {h \in UNION {t.hops : t \in traces} : h.id = id /\ ~h.ok}

\* An id given again does not inherit failures: what the panel counts against
\* an id are failures of the account that has it, unless a request outlived
\* that account or its deletion was cut short by an error or a crash.
FailuresAreItsOwn ==
    \A id \in DOMAIN account \ outlived : \A h \in FailedHops(id) : Lives(h)
=============================================================================
