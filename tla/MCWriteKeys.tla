----------------------------- MODULE MCWriteKeys -----------------------------
(***************************************************************************)
(* An instance of WriteKeys for TLC: the secret is created without a value, *)
(* filled, and rotated from one key to another.                             *)
(***************************************************************************)
EXTENDS WriteKeys

Rotation == <<Unset, {"old"}, {"old", "new"}, {"new"}>>
=============================================================================
