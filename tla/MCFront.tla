------------------------------- MODULE MCFront -------------------------------
(* The instance of Compilation for TLC, made of the instances of its parts. *)
EXTENDS Compilation, MCLexer, MCParser, MCDiscovery, MCModules, MCGlobals, MCSpecialization, MCLayout
=============================================================================
