------------------------------ MODULE MCRunning ------------------------------
(* The instance of RunningProgram for TLC. *)
EXTENDS RunningProgram, MCArithmetic
=============================================================================
