--------------------------- MODULE AcquireHistory ---------------------------
(***************************************************************************)
(* AcquireContext with an observer that remembers, for every request, the  *)
(* credentials that stayed selectable for it since it entered              *)
(* acquire_context. The observer changes nothing the requests see.         *)
(***************************************************************************)
EXTENDS AcquireContext

VARIABLE steady

InitSteady == InitAcquire /\ steady = [r \in Requests |-> {}]

NextSteady ==
    /\ NextAcquire
    /\ steady' = [r \in Requests |->
          IF pc'[r] \in {"idle", "ctx"} THEN {}
          ELSE IF pc[r] = "idle" THEN Selectable(m(r), g(r))'
          ELSE steady[r] \cap Selectable(m(r), g(r))']

SpecSteady == InitSteady /\ [][NextSteady]_<<vars, steady>> /\ Fairness

(* A request is told that every credential is disabled only if none of     *)
(* its scope stayed selectable since it asked: the shortcut, the two       *)
(* selections, self-heal and the final explanation are separate lock       *)
(* sections, and none of the gaps between them makes the request overlook  *)
(* a credential that could serve it.                                       *)
NeverRefusedWhileServable ==
    \A r \in Requests : outcome[r] = "disabled" => steady[r] = {}

=============================================================================
