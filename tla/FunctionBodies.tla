---------------------------- MODULE FunctionBodies ----------------------------
(***************************************************************************)
(* What the compiler does with the body of one function, in two stages:    *)
(* the analyser follows initialisation and ownership through it            *)
(* (OwnershipFlow), and an accepted body is lowered to CogIR and run       *)
(* (ControlLowering).  The stages look at different parts of a body, and   *)
(* the analyser treats every variable alike and by itself.  So a behaviour *)
(* here follows one variable through the analysis, or lowers a body whose  *)
(* deferred statements are of one kind.                                    *)
(***************************************************************************)
EXTENDS OwnershipFlow, ControlLowering

VARIABLE subject  \* a variable, or a kind of deferred statement

Others == Vars \ {subject}

BodyInit == /\ subject \in Vars \cup DeferKinds
            /\ Init /\ \A v \in Others : flow.init[v] = {U}
            /\ LoweringInit

(* A variable that is no resource is followed to one level less.           *)
Analyse == /\ subject \in Vars /\ Next /\ \A v \in Others : flow'.init[v] = {U}
           /\ subject \in Resources \/ Len(stack') < MaxDepth
           /\ UNCHANGED <<subject, cvars>>
LowerAndRun == /\ subject \in DeferKinds /\ LoweringNext /\ \A i \in DOMAIN deferred' : deferred'[i].kind = subject
               /\ UNCHANGED <<subject, vars>>
BodySpec == BodyInit /\ [][Analyse \/ LowerAndRun]_<<subject, vars, cvars>>
=============================================================================
