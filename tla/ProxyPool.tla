------------------------------ MODULE ProxyPool ------------------------------
(***************************************************************************)
(* The proxy pool of src/admin/proxy_pool.rs: entries with their health,   *)
(* probes that run without the lock and are judged by id afterwards, and   *)
(* the assignment of proxies to credentials in src/admin/service.rs.       *)
(* Every operation ends with a save, so proxy_pool.json holds the entries; *)
(* a crash before the save undoes the operation, as if it had not begun.   *)
(***************************************************************************)
EXTENDS Naturals, FiniteSetsExt, Functions, SequencesExt

CONSTANTS Urls,          \* proxy URLs
          Clients,       \* credentials that may go through a proxy
          Checkers,      \* the periodic check and the test buttons
          MaxFailed,     \* MAX_PROXY_PROBE_FAILURES
          MaxProxies     \* bound: proxies ever added

ASSUME ProxyAssumption == MaxFailed \in Nat \ {0} /\ MaxProxies \in Nat

VARIABLES
    proxies,       \* entries: id |-> proxy
    nextProxy,     \* next_id
    probing,       \* what each checker probes: id |-> URL
    through,       \* credentials.proxy_url, or "direct"
    failedInARow   \* history, per URL: probes of it that failed since it was
                   \* added, was enabled or last answered

proxyVars == <<proxies, nextProxy, probing, through, failedInARow>>

Proxy(u) == [url |-> u, enabled |-> TRUE, health |-> "unknown", failures |-> 0,
             autoDisabled |-> FALSE]
UrlsIn(p) == {p[i].url : i \in DOMAIN p}

\* The largest id is looked up at boot only; afterwards next_id counts up.
FreshIdLookedUp == Max(DOMAIN proxies \cup {0}) + 1        \* mutant
FreshId == nextProxy
AfterIds(entries) ==     \* one above the highest, and only that
    {n \in {i + 1 : i \in DOMAIN entries \cup {0}} : \A i \in DOMAIN entries : i < n}

ProxyInit ==
    /\ proxies = <<>> /\ nextProxy = 1
    /\ probing = [t \in Checkers |-> <<>>]
    /\ through = [c \in Clients |-> "direct"]
    /\ failedInARow = [u \in Urls |-> 0]

\* add; batch_add is several of them under one lock and with one save.
AddProxy(u) ==
    /\ u \notin UrlsIn(proxies) /\ nextProxy <= MaxProxies
    /\ proxies' = [i \in DOMAIN proxies \cup {FreshId} |->
                      IF i = FreshId THEN Proxy(u) ELSE proxies[i]]
    /\ nextProxy' = nextProxy + 1
    /\ failedInARow' = [failedInARow EXCEPT ![u] = 0]
    /\ UNCHANGED <<probing, through>>

\* Credentials keep the URL of a proxy that is deleted.
DeleteProxy(i) ==
    /\ proxies' = Restrict(proxies, DOMAIN proxies \ {i})
    /\ failedInARow' = [failedInARow EXCEPT ![proxies[i].url] = 0]
    /\ UNCHANGED <<nextProxy, probing, through>>

SetProxyEnabled(i, enabled) ==
    /\ proxies' = [proxies EXCEPT ![i] =
            IF enabled THEN [@ EXCEPT !.enabled = TRUE, !.autoDisabled = FALSE, !.failures = 0]
            ELSE [@ EXCEPT !.enabled = FALSE]]
    /\ failedInARow' = [failedInARow EXCEPT ![proxies[i].url] = IF enabled THEN 0 ELSE @]
    /\ UNCHANGED <<nextProxy, probing, through>>

-----------------------------------------------------------------------------
(* check_all and check_one: a snapshot of (id, URL), probes without the    *)
(* lock, and the verdicts applied to the ids that still exist.             *)
StartCheck(t, ids) ==
    /\ probing[t] = <<>> /\ ids # {}
    /\ \/ ids = {i \in DOMAIN proxies : proxies[i].enabled}
       \/ \E i \in DOMAIN proxies : ids = {i}
    /\ probing' = [probing EXCEPT ![t] = [i \in ids |-> proxies[i].url]]
    /\ UNCHANGED <<proxies, nextProxy, through, failedInARow>>

\* apply_probe_result: a failure counts for a disabled proxy too.
Judged(p, answered) ==
    IF answered THEN [p EXCEPT !.health = "healthy", !.failures = 0]
    ELSE LET failures == p.failures + 1
             disable == failures >= MaxFailed /\ p.enabled
         IN  [p EXCEPT !.health = "unhealthy", !.failures = failures,
                       !.enabled = p.enabled /\ ~disable,
                       !.autoDisabled = p.autoDisabled \/ disable]

FinishCheck(t, answered) ==
    /\ probing[t] # <<>>
    /\ LET there == DOMAIN probing[t] \cap DOMAIN proxies
           probed == {probing[t][i] : i \in there}
           up == {probing[t][i] : i \in there \cap answered}
       IN  /\ answered \subseteq there
           \* bound: a proxy that reached the limit is not seen to fail again
           /\ \A i \in there \ answered : proxies[i].failures < MaxFailed
           /\ proxies' = [i \in DOMAIN proxies |->
                  IF i \in there THEN Judged(proxies[i], i \in answered) ELSE proxies[i]]
           /\ failedInARow' = [u \in Urls |->
                  IF u \in up THEN 0
                  ELSE IF u \in probed THEN failedInARow[u] + 1 ELSE failedInARow[u]]
    /\ probing' = [probing EXCEPT ![t] = <<>>]
    /\ UNCHANGED <<nextProxy, through>>

-----------------------------------------------------------------------------
(* Assignment                                                              *)

\* assign_proxy_to_credential: an enabled proxy, or none.
AssignProxy(c, u) ==
    /\ u = "direct" \/ \E i \in DOMAIN proxies : proxies[i].url = u /\ proxies[i].enabled
    /\ through' = [through EXCEPT ![c] = u]
    /\ UNCHANGED <<proxies, nextProxy, probing, failedInARow>>

\* assignable_urls, in the order of the entries.
Assignable ==
    LET ids == {i \in DOMAIN proxies : proxies[i].enabled /\ proxies[i].health # "unhealthy"}
    IN  [n \in 1..Cardinality(ids) |-> proxies[SetToSortSeq(ids, <)[n]].url]

\* assign_proxies_round_robin over every credential, in the order of their ids.
AssignRoundRobin ==
    /\ Assignable # <<>>
    /\ LET order == SetToSeq(Clients)
       IN  through' = [c \in Clients |->
               LET n == CHOOSE k \in DOMAIN order : order[k] = c
               IN  Assignable[((n - 1) % Len(Assignable)) + 1]]
    /\ UNCHANGED <<proxies, nextProxy, probing, failedInARow>>

\* The process starts again from the file: probes under way are forgotten.
ProxyRestart ==
    /\ nextProxy' \in AfterIds(proxies)
    /\ probing' = [t \in Checkers |-> <<>>]
    /\ UNCHANGED <<proxies, through, failedInARow>>

ProxyNext ==
    \/ \E u \in Urls : AddProxy(u)
    \/ \E i \in DOMAIN proxies :
        DeleteProxy(i) \/ \E b \in BOOLEAN : SetProxyEnabled(i, b)
    \/ \E t \in Checkers, S \in SUBSET DOMAIN proxies : StartCheck(t, S) \/ FinishCheck(t, S)
    \/ \E c \in Clients, u \in Urls \cup {"direct"} : AssignProxy(c, u)
    \/ AssignRoundRobin
    \/ ProxyRestart

-----------------------------------------------------------------------------
(* Property                                                                *)

\* Whatever is deleted, added, enabled or checked twice while probes run, a
\* proxy is judged by probes of its own URL only, and it stays enabled exactly
\* until MAX_PROXY_PROBE_FAILURES of them failed in a row.
JudgedByItsOwnProbes ==
    \A i \in DOMAIN proxies :
        /\ proxies[i].failures = failedInARow[proxies[i].url]
        /\ proxies[i].enabled => proxies[i].failures < MaxFailed
        /\ proxies[i].autoDisabled => ~proxies[i].enabled
=============================================================================
