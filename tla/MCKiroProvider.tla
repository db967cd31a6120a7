--------------------------- MODULE MCKiroProvider ---------------------------
(* One API call over two credentials, of which the first needs a refreshed *)
(* token, while other clients and the operator change the pool.            *)
EXTENDS ProviderHistory

MCIds == 1 .. 2
MCRequests == {"api"}
MCModelOf == [r \in MCRequests |-> "m"]
MCGroupOf == [r \in MCRequests |-> NoGroup]
MCKindOf == [r \in MCRequests |-> r]
MCAnswers ==
    [c \in MCIds |-> IF c = 1 THEN {"refreshed", "failed", "missing"}
                             ELSE {"api_key", "valid", "limited"}]
MCUpstream == UpstreamAnswer
MCHealConfigs == {[enabled |-> FALSE, min_interval |-> 0, max_rounds |-> 0]}
MCRules == {[action |-> "disable", min_available |-> 0, self_healable |-> TRUE],
            [action |-> "abort", min_available |-> 0, self_healable |-> FALSE]}

Cred(priority) ==
    [priority |-> priority, groups |-> {}, opus |-> TRUE, broken |-> FALSE]

(* The second credential may have lost its API key.                        *)
MCInitialFiles ==
    {[c \in MCIds |->
        [credentials |-> [Cred(c - 1) EXCEPT !.broken = c = 2 /\ lost], disabled |-> FALSE,
         disabled_reason |-> NoReason, streak |-> NoStreak]] : lost \in BOOLEAN}

=============================================================================
