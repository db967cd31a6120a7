--------------------------- MODULE MCPoolHistory ---------------------------
(* One credential at a time, two ids: everything that can happen to a      *)
(* credential between import and deletion, with a restart at any point.    *)
EXTENDS PoolHistory

MCIds == 1 .. 2
MCModels == {"m"}
MCPriorities == {0}
MCRules == {[action |-> "disable", min_available |-> 0, self_healable |-> TRUE]}
MCHealConfigs == {[enabled |-> TRUE, min_interval |-> 1, max_rounds |-> 1],
                  [enabled |-> TRUE, min_interval |-> 1, max_rounds |-> 0]}

Cred == [priority |-> 0, groups |-> {}, opus |-> TRUE, broken |-> FALSE]

Record(disabled, reason, rounds, age) ==
    [credentials |-> Cred, disabled |-> disabled, disabled_reason |-> reason,
     streak |-> [rounds |-> rounds, age |-> age,
                 model |-> IF rounds = 0 THEN NoModel ELSE "m"]]

(* A new file, one of an older release without reasons, one saved in the   *)
(* middle of a fault line, an empty one.                                   *)
MCInitialFiles ==
    {[c \in {1} |-> Record(FALSE, NoReason, 0, Never)],
     [c \in {1} |-> Record(TRUE, NoReason, 0, Never)],
     [c \in {1} |-> Record(TRUE, "TooManyFailures", 1, 0)],
     [c \in {} |-> Record(FALSE, NoReason, 0, Never)]}

MCNewCredentials == {Cred}

=============================================================================
