----------------------------- MODULE MCRegistry -----------------------------
(***************************************************************************)
(* The registry alone: one operator, and saves of credentials.json that    *)
(* may fail.                                                               *)
(***************************************************************************)
EXTENDS Registry

Spec == RegistryInit /\ [][RegistryNext]_registryVars
=============================================================================
