----------------------------- MODULE MCOwnership -----------------------------
(* Instances of OwnershipFlow for TLC. *)
EXTENDS OwnershipFlow
=============================================================================
