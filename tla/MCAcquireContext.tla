-------------------------- MODULE MCAcquireContext --------------------------
(* Two requests over two credentials, of which the first has a refresh     *)
(* token that no longer works.                                             *)
EXTENDS AcquireHistory

MCIds == 1 .. 2
MCRequests == {"r1", "r2"}
MCModelOf == [r \in MCRequests |-> NoModel]
MCGroupOf == [r \in MCRequests |-> NoGroup]
MCAnswers == [c \in MCIds |-> IF c = 1 THEN {"invalid"} ELSE {"valid"}]
MCHealConfigs == {[enabled |-> TRUE, min_interval |-> 0, max_rounds |-> 1]}
MCRules == {[action |-> "disable", min_available |-> 0, self_healable |-> TRUE]}

Cred(priority) ==
    [priority |-> priority, groups |-> {}, opus |-> TRUE, broken |-> FALSE]

MCInitialFiles ==
    {[c \in MCIds |-> [credentials |-> Cred(c - 1), disabled |-> FALSE,
                       disabled_reason |-> NoReason, streak |-> NoStreak]]}

=============================================================================
