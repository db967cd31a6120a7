------------------------ MODULE CredentialLifecycle ------------------------
(***************************************************************************)
(* What the pool promises about one credential, whoever acts on it: the    *)
(* comment of DisabledReason::is_self_healable ("a manual disable, a spent *)
(* quota, a dead token or a bad configuration must not be revived          *)
(* automatically") and the persistence rules of new() and                  *)
(* persist_credentials, without counters, cooldowns, files or locks.       *)
(*                                                                         *)
(*   active    takes requests                                              *)
(*   healable  disabled by failures that may pass                          *)
(*   final     disabled by something that does not pass by itself          *)
(*   manual    disabled by the operator                                    *)
(***************************************************************************)
(* A call changes memory first and the file after that; `unsaved` are the  *)
(* credentials a call touched that the file may not show yet, because that *)
(* save is still to come or failed.  One save writes all of them.          *)
CONSTANT Ids

VARIABLES status,       \* credential -> its status
          unsaved,      \* credentials whose last change a crash may lose
          actor         \* who took the last step

Status == {"absent", "active", "healable", "final", "manual"}
Actor == {"request", "rotation", "operator", "clock", "restart"}

TypeOK == status \in [Ids -> Status] /\ unsaved \in SUBSET Ids /\ actor \in Actor

Init == TypeOK /\ unsaved = {} /\ actor = "restart"

(* A call has touched S, and saves, or does not save, or has yet to.       *)
Touched(S) == unsaved' \in {{}, unsaved, unsaved \cup S}

(* A request may disable the one credential it used, by something that     *)
(* passes or does not ...                                                  *)
Use(c) ==
    /\ status[c] = "active"
    /\ \E s \in {"healable", "final"} : status' = [status EXCEPT ![c] = s]
    /\ Touched({c})

(* ... or only refresh its token, whatever became of it meanwhile ...      *)
Refresh(c) == UNCHANGED status /\ Touched({c})

(* ... and when nothing is left to serve it, revive healable ones: never a *)
(* manual or a final one.                                                  *)
Revive(S) ==
    /\ \A c \in S : status[c] = "healable"
    /\ status' = [c \in Ids |-> IF c \in S THEN "active" ELSE status[c]]
    /\ Touched(S)

Request ==
    /\ actor' = "request"
    /\ \/ \E c \in Ids : Use(c) \/ Refresh(c)
       \/ \E S \in SUBSET Ids : Revive(S)

(* Another client rotated the token in the file: whatever disabled the     *)
(* credential, it is back, in memory.                                      *)
Rotation ==
    /\ actor' = "rotation"
    /\ \E c \in Ids : /\ status[c] # "absent"
                      /\ status' = [status EXCEPT ![c] = "active"]
    /\ UNCHANGED unsaved

(* The operator adds, removes, holds and releases, one at a time, or       *)
(* changes what is no part of the life cycle, of many at a time.           *)
Operator ==
    /\ actor' = "operator"
    /\ \/ \E c \in Ids, s \in Status :
             status' = [status EXCEPT ![c] = s] /\ Touched({c})
       \/ UNCHANGED status /\ \E S \in SUBSET Ids : Touched(S)

(* A restart may forget an automatic verdict.  Of what was saved it never  *)
(* forgets a manual hold, and neither loses nor invents a credential.      *)
Restart ==
    /\ actor' = "restart"
    /\ status' \in [Ids -> Status]
    /\ \A c \in Ids \ unsaved :
          /\ (status'[c] = "absent") <=> (status[c] = "absent")
          /\ status[c] = "manual" => status'[c] \in {"manual", "final"}
    /\ unsaved' = {}

(* Time passes, or a save that was still to come writes them all, or fails. *)
Clock == actor' = "clock" /\ UNCHANGED status /\ unsaved' \in {{}, unsaved}

Next == Request \/ Rotation \/ Operator \/ Clock \/ Restart

Spec == Init /\ [][Next]_<<status, unsaved, actor>>

=============================================================================
