------------------------- MODULE MCAcquireFindings -------------------------
(* Instances of AcquireContext on which the code does not do what one of   *)
(* its comments says; one property and one configuration for each.         *)
EXTENDS AcquireContext

MCIds == 1 .. 2
NoRules == {}
OneRequest == {"r1"}
MCModelOf == [r \in OneRequest |-> NoModel]
MCGroupOf == [r \in OneRequest |-> NoGroup]
AlwaysValid == [c \in MCIds |-> {"valid"}]
NeedsRefresh == [c \in MCIds |-> {"refreshed"}]
NeedsRotation == [c \in MCIds |-> {"invalid"}]

NoHealing == {[enabled |-> FALSE, min_interval |-> 0, max_rounds |-> 0]}
FloorRule == {[action |-> "disable", min_available |-> 1, self_healable |-> FALSE]}

Cred == [priority |-> 0, groups |-> {}, opus |-> TRUE, broken |-> FALSE]

MCInitialFiles ==
    {[c \in MCIds |-> [credentials |-> Cred, disabled |-> FALSE,
                       disabled_reason |-> NoReason, streak |-> NoStreak]]}

(* error_rules.rs says min_available credentials are kept available so     *)
(* that a rule cannot disable the whole pool one by one. Here rule hits    *)
(* are the only errors there are.                                          *)
MinAvailableFloor ==
    \A rule \in Rules : Cardinality(InScope(entries, NoModel, NoGroup)) >= rule.min_available

(* set_priority promises that the new priority takes effect in memory,     *)
(* even when saving fails. So only an operator's step or a restart changes *)
(* a priority: a finished edit is not undone by a request.                 *)
EditSurvivesRefresh ==
    [][\A c \in Live \cap DOMAIN entries' :
          entries'[c].credentials.priority # entries[c].credentials.priority
              => edits' # edits]_vars

(* is_self_healable says a manual disable must not be revived              *)
(* automatically: only an operator's step or a restart may lift it.        *)
ManualHoldKept ==
    [][\A c \in Live \cap DOMAIN entries' :
          entries[c].disabled_reason = "Manual" /\ ~entries'[c].disabled => edits' # edits]_vars

=============================================================================
