---------------------------- MODULE MCBackOffice ----------------------------
(***************************************************************************)
(* The back office of the proxy: what happens beside the requests.  Its    *)
(* parts keep their own state and never read one another's, so a behaviour *)
(* exercises one of them and the others rest.                              *)
(***************************************************************************)
EXTENDS TokenRotation, Registry, ProxyPool, LoginSessions, CacheMeter,
        UsageStats, TraceLog, TLC

CONSTANT MaxCalls            \* bound: calls of the token rotation that begin

VARIABLES area, calls

parts == <<rotationVars, registryVars, proxyVars, loginVars, cacheVars,
           statsVars, traceVars>>
vars == <<area, calls, parts>>

ModesV == {[mode |-> "off", creation |-> 0, hit |-> 0, cacheable |-> 0],
           [mode |-> "auto", creation |-> 0, hit |-> 0, cacheable |-> 0],
           [mode |-> "official", creation |-> 0, hit |-> 0, cacheable |-> 0],
           [mode |-> "force", creation |-> 50, hit |-> 50, cacheable |-> 100],
           [mode |-> "force", creation |-> 100, hit |-> 150, cacheable |-> 120]}
ReportsV == {NoReport, Split(1, 2, 3)}

Init ==
    /\ area \in {"rotation", "keys", "groups", "proxies", "logins", "cache", "stats", "traces"}
    /\ calls = 0
    /\ RotationInit /\ RegistryInit /\ ProxyInit /\ LoginInit
    /\ CacheInit /\ StatsInit /\ TraceInit
    \* A part that rests starts in one of its initial states only.
    /\ area # "rotation" => rotates
    /\ area # "groups" => \A a \in Accounts : belongs[a] = {} /\ "g" \in groups
    /\ area # "cache" => mode.mode = "off"
    /\ area # "stats" => retention = 1

\* Calls that begin in this step.
Beginning == Cardinality({c \in Callers : caller[c] = Idle /\ caller'[c] # Idle})

Next ==
    \/ /\ area = "rotation" /\ RotationNext
       /\ calls' = calls + Beginning /\ calls' <= MaxCalls
       /\ UNCHANGED <<area, registryVars, proxyVars, loginVars, cacheVars, statsVars, traceVars>>
    \/ /\ \/ area = "keys" /\ (KeyNext \/ \E p \in BootTexts : Reboot(p))
          \/ area = "groups" /\ (GroupNext \/ Reboot(apiKey))
       /\ UNCHANGED <<area, calls, rotationVars, proxyVars, loginVars, cacheVars, statsVars, traceVars>>
    \/ /\ area = "proxies" /\ ProxyNext
       /\ UNCHANGED <<area, calls, rotationVars, registryVars, loginVars, cacheVars, statsVars, traceVars>>
    \/ /\ area = "logins" /\ LoginNext
       /\ UNCHANGED <<area, calls, rotationVars, registryVars, proxyVars, cacheVars, statsVars, traceVars>>
    \/ /\ area = "cache" /\ CacheNext
       /\ UNCHANGED <<area, calls, rotationVars, registryVars, proxyVars, loginVars, statsVars, traceVars>>
    \/ /\ area = "stats" /\ StatsNext
       /\ UNCHANGED <<area, calls, rotationVars, registryVars, proxyVars, loginVars, cacheVars, traceVars>>
    \/ /\ area = "traces" /\ TraceNext
       /\ UNCHANGED <<area, calls, rotationVars, registryVars, proxyVars, loginVars, cacheVars, statsVars>>

\* Requests of the admin API are alike.
SymmetryOfHandlers == Permutations(Handlers)

Spec == Init /\ [][Next]_vars

\* What the two panels show is what happened: the chart of usage_stats.rs is
\* that of the logs, and the failures trace_db.rs counts against an id are
\* those of the account that has the id.
PanelsTellTheTruth == ChartMatchesLogs /\ FailuresAreItsOwn
=============================================================================
