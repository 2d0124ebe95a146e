------------------------------ MODULE MCLowering ------------------------------
(* Instances of ControlLowering for TLC. *)
EXTENDS ControlLowering
=============================================================================
