---------------------------- MODULE OwnershipFlow ----------------------------
(***************************************************************************)
(* The definite-initialisation and resource-ownership analysis of          *)
(* semantic_anal.c, run in lock step with the executions of the function   *)
(* it analyses.                                                            *)
(*                                                                         *)
(* A behaviour is one depth-first walk of check_node over one function     *)
(* body: every action is one construct (or one side of one construct) the  *)
(* walk meets, so the behaviours of this module are the programs, of any   *)
(* length and of nesting at most MaxDepth.  Two things are kept:           *)
(*                                                                         *)
(*   - what the analyser knows: ctx->flow, the loop context, the resources *)
(*     captured by active defers, and the FlowStates the C functions hold  *)
(*     in locals across their recursive calls (the frames of stack);       *)
(*                                                                         *)
(*   - what the lowered code does (history variables the analyser never    *)
(*     reads): path[v][s] is the set of states variable v can have here    *)
(*     when it had state s at the head of the innermost loop (or at the    *)
(*     function's entry), over every control-flow path; bad[v] the head    *)
(*     states from which some path has already used v while uninitialised  *)
(*     or overwritten a live owner; pend the effect of the deferred        *)
(*     statements still registered.                                        *)
(*                                                                         *)
(* Branch conditions other than compile-time constants are                 *)
(* nondeterministic in both, so the executions considered are those of the *)
(* control-flow graph.  Vars are the parameters and the locals declared at *)
(* the head of the body.                                                   *)
(***************************************************************************)
EXTENDS Naturals, Sequences

CONSTANTS
  Vars,       \* the function's parameters and leading locals
  Resources,  \* those whose type contains a resource by value
  NonVoid,    \* the function's return type is not void
  Constructs, \* the constructs the programs may use
  MaxDepth    \* bound on the nesting of constructs

\* "return_branch" is an && / || / if expression inside a return value,
\* "defer_transfer" a deferred statement that moves or assigns a resource.
AllConstructs ==
  {"logical", "ifexpr", "block", "if", "switch", "while", "break", "continue",
   "return", "return_branch", "defer", "defer_transfer"}

ASSUME ConstantsAssumption ==
  /\ Resources \subseteq Vars
  /\ NonVoid \in BOOLEAN
  /\ Constructs \subseteq AllConstructs
  /\ MaxDepth \in Nat

\* The two bits of FlowState.initialized[i]: a variable's entry is the set
\* of states it may have, so the bitwise or of two entries is their union.
U == "uninitialized"
I == "initialized"
States == {U, I}

Entries == (SUBSET States) \ {{}}

\* FlowState.
Flow == [reachable : BOOLEAN, init : [Vars -> Entries]]

-----------------------------------------------------------------------------
(* Relations on the states of each variable: the paths of the lowered code. *)

Rel  == [Vars -> [States -> SUBSET States]]
Uses == [Vars -> SUBSET States]

\* No path at all, and the path that does nothing.
NoPath   == [v \in Vars |-> [s \in States |-> {}]]
Identity == [v \in Vars |-> [s \in States |-> {s}]]
NoUse    == [v \in Vars |-> {}]

\* The paths of P and those of Q: code two branches rejoin at.
Join(P, Q) == [v \in Vars |-> [s \in States |-> P[v][s] \cup Q[v][s]]]

\* P, then Q.
Then(P, Q) == [v \in Vars |-> [s \in States |-> UNION {Q[v][t] : t \in P[v][s]}]]

\* Any number of iterations of B.  A variable has two states, so a walk of B
\* between two different states can be cut to a single step of B.
Star(B) == Join(Identity, B)

\* The states from which P leads to a state of D.
Before(P, D) == [v \in Vars |-> {s \in States : P[v][s] \cap D[v] # {}}]

UseOr(D, E) == [v \in Vars |-> D[v] \cup E[v]]

\* v gets state t on every path of P.
SetOn(P, v, t) ==
  [P EXCEPT ![v] = [s \in States |-> IF P[v][s] = {} THEN {} ELSE {t}]]

\* A use of v that goes wrong when v has state t.
UseOn(P, D, v, t) == [D EXCEPT ![v] = @ \cup {s \in States : t \in P[v][s]}]

\* Deferred statements: their effect, and the states they go wrong in.
Deferred == [rel : Rel, bad : Uses]
NoDefer  == [rel |-> Identity, bad |-> NoUse]

\* remember_defer: the newest deferred statement runs first.
Remember(d, new) ==
  [rel |-> Then(new.rel, d.rel), bad |-> UseOr(new.bad, Before(new.rel, d.bad))]

\* run_deferred_from: the paths and the bad uses once d has run.
RunPath(P, d)   == Then(P, d.rel)
RunBad(P, D, d) == UseOr(D, Before(P, d.bad))

\* The deferred statements of the block, of the innermost loop's body, and of
\* the function.
Pend    == [block : Deferred, loop : Deferred, all : Deferred]
NoPend  == [block |-> NoDefer, loop |-> NoDefer, all |-> NoDefer]
OpenBlock(p)    == [p EXCEPT !.block = NoDefer]
OpenLoopBody(p) == [p EXCEPT !.block = NoDefer, !.loop = NoDefer]

-----------------------------------------------------------------------------
(* The analyser's operations on FlowState. *)

MarkInitialized(F, v)   == [F EXCEPT !.init[v] = {I}]
MarkUninitialized(F, v) == [F EXCEPT !.init[v] = {U}]
IsInitialized(F, v) == F.init[v] = {I}

\* The definitions named Slip... are never used by the specification: each is a
\* plausible slip in the code of the definition that follows it, kept to show
\* that the properties below notice it.
SlipMaybeUninitialized(F, v) == U \in F.init[v]
IsDefinitelyUninitialized(F, v) == F.init[v] = {U}
Unreachable(F) == [F EXCEPT !.reachable = FALSE]

\* flow_merge_continuing_paths.
Merge(L, R) ==
  IF L.reachable /\ R.reachable
  THEN [L EXCEPT !.init = [v \in Vars |-> L.init[v] \cup R.init[v]]]
  ELSE IF R.reachable THEN R ELSE L

\* flow_accumulate_reachable_path on an accumulator and its has_ flag.
Acc == [has : BOOLEAN, flow : Flow]
SlipAccumulateNeverStarts(a, F) ==
  IF F.reachable /\ a.has THEN [a EXCEPT !.flow = Merge(@, F)] ELSE a
Accumulate(a, F) ==
  IF ~F.reachable THEN a
  ELSE [has |-> TRUE, flow |-> IF a.has THEN Merge(a.flow, F) ELSE F]

\* LoopFlowContext, with the lowered paths to its break and continue targets
\* and the resources captured by defers outside the loop.
Loop == [inside : BOOLEAN, base : SUBSET Resources, brk : Acc, cont : Acc, gbrk : Rel, gcont : Rel]
NewLoop(F, A) ==
  [inside |-> TRUE, base |-> A,
   brk    |-> [has |-> FALSE, flow |-> F], cont  |-> [has |-> FALSE, flow |-> F],
   gbrk   |-> NoPath,                      gcont |-> NoPath]
NoLoop(F)     == [NewLoop(F, {}) EXCEPT !.inside = FALSE]

\* loop_iteration_flow.
IterationFlow(l, F) == IF l.cont.has THEN Merge(F, l.cont.flow) ELSE F

SlipBackedgeMayRestore(entry, backedge) ==
  backedge.reachable => \A v \in Resources : entry.init[v] \cap backedge.init[v] # {}

\* flow_validate_loop_backedge_resources.
BackedgeRestoresResources(entry, backedge) ==
  backedge.reachable => \A v \in Resources : entry.init[v] = backedge.init[v]

SlipExitAlwaysFalls(l, normal, alwaysTrue) ==
  IF l.brk.has THEN Merge(normal, l.brk.flow) ELSE normal

\* loop_exit_flow, and its callers' treatment of a loop that cannot exit.
ExitFlow(l, normal, alwaysTrue) ==
  IF alwaysTrue
  THEN IF l.brk.has THEN l.brk.flow ELSE Unreachable(normal)
  ELSE IF l.brk.has THEN Merge(normal, l.brk.flow) ELSE normal

-----------------------------------------------------------------------------
VARIABLES
  status,    \* "checking", "accepted" or "rejected" (an error was reported)
  flow,      \* ctx->flow
  loop,      \* *ctx->current_loop
  active,    \* ctx->active_deferred_resources
  captured,  \* ctx->captured_deferred_resources
  stack,     \* the C frames of the constructs being checked
  head,      \* the flow at the head the paths start from
  path, bad, \* what the lowered code may have done since that head
  pend       \* the deferred statements registered so far

vars  == <<status, flow, loop, active, captured, stack, head, path, bad, pend>>
ghost == <<head, path, bad, pend>>

\* What a frame's construct is, and which part of it is being checked.
Kinds == {"block", "then", "else", "xthen", "xelse", "logical", "assign", "return",
          "switch", "case", "cond", "body", "post", "defer"}

NoVar  == "no variable"
Consts == {"unknown", "executes", "skipped"}

Frame == [kind : Kinds, target : Vars \cup {NoVar}, left : Consts, always : BOOLEAN,
          in : Flow, alt : Acc, loop : Loop, active : SUBSET Resources,
          head : Flow, gin : Rel, galt : Rel, bad : Uses, pend : Pend]

Top    == stack[Len(stack)]
Under  == SubSeq(stack, 1, Len(stack) - 1)
At(k)  == Len(stack) > 0 /\ Top.kind = k
Retop(f) == stack' = Append(Under, f)

\* The frame of a construct entered now.
NewFrame(k) ==
  [kind |-> k, target |-> NoVar, left |-> "unknown", always |-> FALSE,
   in   |-> flow, alt |-> [has |-> FALSE, flow |-> flow], loop |-> loop,
   active |-> active, head |-> head, gin |-> path, galt |-> NoPath,
   bad  |-> bad, pend |-> pend]
Push(f) == Len(stack) < MaxDepth /\ stack' = Append(stack, f)
Pop     == stack' = Under

Checking == status = "checking"
Has(c)   == c \in Constructs

\* The walk is between two statements of a block.
InBlock == IF Len(stack) = 0 THEN TRUE
           ELSE Top.kind \in {"block", "then", "else", "case", "body"}

\* It is inside an expression.
InExpression ==
  Len(stack) > 0 /\ Top.kind \in {"xthen", "xelse", "logical", "assign", "return", "cond", "post", "defer"}

\* ctx->defer_depth > 0.
InDefer == \E i \in 1..Len(stack) : stack[i].kind = "defer"

\* check_block reports a statement no path reaches instead of checking it.
AtStatement == Checking /\ InBlock /\ flow.reachable

\* Where an expression may be evaluated.
AtExpression == Checking /\ (AtStatement \/ InExpression)

\* Where an expression may branch.  Deferred statements are straight-line here.
AtBranchingExpression ==
  AtExpression /\ ~InDefer /\ ((\A i \in 1..Len(stack) : stack[i].kind # "return") \/ Has("return_branch"))

\* Where an assignment may stand: a statement, a for loop's post expression, a deferred statement.
AtAssignment == AtStatement \/ (Checking /\ Len(stack) > 0 /\ Top.kind \in {"post", "defer"})

\* semantic_error.  The walk goes on only to report further errors: the
\* verdict is settled, and nothing of the walk matters any more.
Reject ==
  /\ status' = "rejected" /\ stack' = <<>>
  /\ UNCHANGED <<flow, loop, active, captured, ghost>>

-----------------------------------------------------------------------------
(* Uses of a variable. *)

UnreachableStatement == Checking /\ InBlock /\ ~flow.reachable /\ Reject

\* capture_deferred_resource_use.
Capture(v) == captured' = IF InDefer /\ v \in Resources THEN captured \cup {v} ELSE captured

\* check_identifier_expression, IDENTIFIER_USE_READ.
Read(v) ==
  /\ AtExpression
  /\ IF IsInitialized(flow, v)
     THEN /\ Capture(v)
          /\ bad' = UseOn(path, bad, v, U)
          /\ UNCHANGED <<status, flow, loop, active, stack, head, path, pend>>
     ELSE Reject

\* check_expression, TOK_MOVE.
Move(v) ==
  /\ AtExpression
  /\ v \in Resources
  /\ InDefer => Has("defer_transfer")
  /\ IF IsInitialized(flow, v) /\ v \notin active
     THEN /\ Capture(v)
          /\ flow' = MarkUninitialized(flow, v)
          /\ bad'  = UseOn(path, bad, v, U)
          /\ path' = SetOn(path, v, U)
          /\ UNCHANGED <<status, loop, active, stack, head, pend>>
     ELSE Reject

\* check_assignment_statement: the target is checked before the value ...
AssignBegin(v) ==
  /\ AtAssignment
  /\ InDefer /\ v \in Resources => Has("defer_transfer")
  /\ IF v \in Resources => IsDefinitelyUninitialized(flow, v)
     THEN /\ Capture(v)
          /\ Push([NewFrame("assign") EXCEPT !.target = v])
          /\ UNCHANGED <<status, flow, loop, active, ghost>>
     ELSE Reject

\* ... and marked initialised after it.  Storing over a live owner loses it.
AssignEnd ==
  /\ Checking /\ At("assign")
  /\ LET v == Top.target IN
     /\ flow' = MarkInitialized(flow, v)
     /\ bad'  = IF v \in Resources THEN UseOn(path, bad, v, I) ELSE bad
     /\ path' = SetOn(path, v, I)
  /\ Pop
  /\ UNCHANGED <<status, loop, active, captured, head, pend>>

-----------------------------------------------------------------------------
(* Branching expressions. *)

\* check_expression, TOK_AND_AND and TOK_OR_OR, once the left operand is
\* checked: whether the right one runs may be known at compile time.
LogicalBegin(left) ==
  /\ Has("logical")
  /\ AtBranchingExpression
  /\ Push([NewFrame("logical") EXCEPT !.left = left])
  /\ UNCHANGED <<status, flow, loop, active, captured, ghost>>

LogicalFlow(left, afterLeft, afterRight) ==
  CASE left = "executes" -> afterRight
    [] left = "skipped"  -> afterLeft
    [] left = "unknown"  -> Merge(afterLeft, afterRight)

LogicalEnd ==
  /\ Checking /\ At("logical")
  /\ flow' = LogicalFlow(Top.left, Top.in, flow)
  /\ path' = CASE Top.left = "executes" -> path
               [] Top.left = "skipped"  -> Top.gin
               [] Top.left = "unknown"  -> Join(Top.gin, path)
  /\ bad'  = IF Top.left = "skipped" THEN Top.bad ELSE bad
  /\ Pop
  /\ UNCHANGED <<status, loop, active, captured, head, pend>>

\* check_if_expression, once its condition is checked.
IfExprBegin ==
  /\ Has("ifexpr")
  /\ AtBranchingExpression
  /\ Push(NewFrame("xthen"))
  /\ UNCHANGED <<status, flow, loop, active, captured, ghost>>

IfExprElse ==
  /\ Checking /\ At("xthen")
  /\ Retop([Top EXCEPT !.kind = "xelse", !.alt = [has |-> TRUE, flow |-> flow], !.galt = path])
  /\ flow' = Top.in
  /\ path' = Top.gin
  /\ UNCHANGED <<status, loop, active, captured, head, bad, pend>>

IfExprEnd ==
  /\ Checking /\ At("xelse")
  /\ flow' = Merge(Top.alt.flow, flow)
  /\ path' = Join(Top.galt, path)
  /\ Pop
  /\ UNCHANGED <<status, loop, active, captured, head, bad, pend>>

-----------------------------------------------------------------------------
(* Statements that branch.  Their bodies are lexical blocks: leaving one    *)
(* runs the statements deferred in it and reactivates the resources that    *)
(* were captured outside it.                                                *)

EnterBlock(f) == pend' = OpenBlock(f.pend) /\ active' = f.active
LeaveBlock(f) == pend' = f.pend /\ active' = f.active

\* The lowered paths at the end of the current block.
EndPath == RunPath(path, pend.block)
EndBad  == RunBad(path, bad, pend.block)

BlockBegin ==
  /\ Has("block")
  /\ AtStatement
  /\ Push(NewFrame("block"))
  /\ EnterBlock(NewFrame("block"))
  /\ UNCHANGED <<status, flow, loop, captured, head, path, bad>>

BlockEnd ==
  /\ Checking /\ At("block")
  /\ path' = EndPath /\ bad' = EndBad
  /\ LeaveBlock(Top)
  /\ Pop
  /\ UNCHANGED <<status, flow, loop, captured, head>>

\* check_if_statement, once its condition is checked.
IfBegin ==
  /\ Has("if")
  /\ AtStatement
  /\ Push(NewFrame("then"))
  /\ EnterBlock(NewFrame("then"))
  /\ UNCHANGED <<status, flow, loop, captured, head, path, bad>>

IfElse ==
  /\ Checking /\ At("then")
  /\ Retop([Top EXCEPT !.kind = "else", !.alt = [has |-> TRUE, flow |-> flow], !.galt = EndPath])
  /\ flow' = Top.in
  /\ path' = Top.gin /\ bad' = EndBad
  /\ EnterBlock(Top)
  /\ UNCHANGED <<status, loop, captured, head>>

IfEnd ==
  /\ Checking /\ At("else")
  /\ flow' = Merge(Top.alt.flow, flow)
  /\ path' = Join(Top.galt, EndPath) /\ bad' = EndBad
  /\ LeaveBlock(Top)
  /\ Pop
  /\ UNCHANGED <<status, loop, captured, head>>

\* check_switch_statement, once its expression is checked.
SwitchBegin ==
  /\ Has("switch")
  /\ AtStatement
  /\ Push(NewFrame("switch"))
  /\ UNCHANGED <<status, flow, loop, active, captured, ghost>>

CaseBegin ==
  /\ Checking /\ At("switch")
  /\ Retop([Top EXCEPT !.kind = "case"])
  /\ EnterBlock(Top)
  /\ UNCHANGED <<status, flow, loop, captured, head, path, bad>>

CaseFlow(a, F) == [has |-> TRUE, flow |-> IF a.has THEN Merge(a.flow, F) ELSE F]

CaseEnd ==
  /\ Checking /\ At("case")
  /\ Retop([Top EXCEPT !.kind = "switch", !.alt = CaseFlow(Top.alt, flow),
                       !.galt = Join(Top.galt, EndPath)])
  /\ flow' = Top.in
  /\ path' = Top.gin /\ bad' = EndBad
  /\ LeaveBlock(Top)
  /\ UNCHANGED <<status, loop, captured, head>>

SwitchFlow(f, exhaustive) ==
  IF ~f.alt.has THEN f.in
  ELSE IF exhaustive THEN f.alt.flow ELSE Merge(f.alt.flow, f.in)

SwitchEnd(exhaustive) ==
  /\ Checking /\ At("switch")
  /\ exhaustive => Top.alt.has
  /\ flow' = SwitchFlow(Top, exhaustive)
  /\ path' = IF exhaustive THEN Top.galt ELSE Join(Top.galt, Top.gin)
  /\ Pop
  /\ UNCHANGED <<status, loop, active, captured, head, bad, pend>>

-----------------------------------------------------------------------------
(* Loops.  The paths inside one are relative to its head. *)

\* check_while_statement, check_for_statement: a loop whose condition is
\* compile-time true (or absent) has no condition to check.
LoopBegin(always) ==
  /\ Has("while")
  /\ AtStatement
  /\ Push([NewFrame(IF always THEN "body" ELSE "cond") EXCEPT
             !.always = always, !.alt = [has |-> TRUE, flow |-> flow], !.galt = Identity])
  /\ loop' = NewLoop(flow, active)
  /\ head' = flow
  /\ path' = Identity /\ bad' = NoUse
  /\ pend' = IF always THEN OpenLoopBody(pend) ELSE pend
  /\ UNCHANGED <<status, flow, active, captured>>

\* The condition has been checked: condition_exit is the flow now.
LoopBody ==
  /\ Checking /\ At("cond")
  /\ Retop([Top EXCEPT !.kind = "body", !.alt.flow = flow, !.galt = path])
  /\ pend' = OpenLoopBody(pend)
  /\ UNCHANGED <<status, flow, loop, active, captured, head, path, bad>>

\* The end of the body, where continue rejoins; a for loop then checks its
\* post expression.
LoopPost ==
  /\ Checking /\ At("body")
  /\ Retop([Top EXCEPT !.kind = "post"])
  /\ flow' = IterationFlow(loop, flow)
  /\ path' = Join(EndPath, loop.gcont) /\ bad' = EndBad
  /\ LeaveBlock(Top)
  /\ UNCHANGED <<status, loop, captured, head>>

\* The backedge.  The head is reached by the loop's entry and any number of
\* iterations.
LoopEnd ==
  /\ Checking /\ At("post")
  /\ IF BackedgeRestoresResources(Top.in, flow)
     THEN LET atHead == Then(Top.gin, Star(path)) IN
          /\ flow' = ExitFlow(loop, Top.alt.flow, Top.always)
          /\ path' = Join(IF Top.always THEN NoPath ELSE Then(atHead, Top.galt),
                          Then(atHead, loop.gbrk))
          /\ bad'  = UseOr(Top.bad, Before(atHead, bad))
          /\ head' = Top.head
          /\ loop' = Top.loop
          /\ Pop
          /\ UNCHANGED <<status, active, captured, pend>>
     ELSE Reject

\* loop_record_break, and lower_break_statement running the defers of the loop's body.
Break ==
  /\ Has("break")
  /\ AtStatement /\ loop.inside
  /\ loop' = [loop EXCEPT !.brk  = Accumulate(@, flow),
                          !.gbrk = Join(@, RunPath(path, pend.loop))]
  /\ flow' = Unreachable(flow)
  /\ path' = NoPath /\ bad' = RunBad(path, bad, pend.loop)
  /\ UNCHANGED <<status, active, captured, stack, head, pend>>

\* loop_record_continue.
Continue ==
  /\ Has("continue")
  /\ AtStatement /\ loop.inside
  /\ loop' = [loop EXCEPT !.cont  = Accumulate(@, flow),
                          !.gcont = Join(@, RunPath(path, pend.loop))]
  /\ flow' = Unreachable(flow)
  /\ path' = NoPath /\ bad' = RunBad(path, bad, pend.loop)
  /\ UNCHANGED <<status, active, captured, stack, head, pend>>

-----------------------------------------------------------------------------
(* Return, defer, and the end of the function. *)

\* check_node, NODE_RETURN: the flow is unreachable before the value is checked.
ReturnBegin ==
  /\ Has("return")
  /\ AtStatement
  /\ Push(NewFrame("return"))
  /\ flow' = Unreachable(flow)
  /\ UNCHANGED <<status, loop, active, captured, ghost>>

\* lower_return_statement evaluates the value, then runs every deferred statement.
ReturnEnd ==
  /\ Checking /\ At("return")
  /\ bad'  = RunBad(path, bad, pend.all)
  /\ path' = NoPath
  /\ Pop
  /\ UNCHANGED <<status, flow, loop, active, captured, head, pend>>

\* check_node, NODE_DEFER: the deferred statement (an expression or an
\* assignment here) is checked in the flow of the defer, which is then restored.
DeferBegin ==
  /\ Has("defer")
  /\ AtStatement
  /\ Push(NewFrame("defer"))
  /\ captured' = {}
  /\ loop' = NoLoop(flow)
  /\ head' = flow
  /\ path' = Identity /\ bad' = NoUse
  /\ UNCHANGED <<status, flow, active, pend>>

SlipActivateNothing(f) == f.active

\* activate_captured_deferred_resources.
ActivateCaptured(f) == f.active \cup captured

DeferEnd ==
  /\ Checking /\ At("defer")
  /\ LET new == [rel |-> path, bad |-> bad] IN
     pend' = [k \in {"block", "loop", "all"} |-> Remember(pend[k], new)]
  /\ captured' = {}
  /\ active' = ActivateCaptured(Top)
  /\ flow' = Top.in /\ loop' = Top.loop
  /\ head' = Top.head /\ path' = Top.gin /\ bad' = Top.bad
  /\ Pop
  /\ UNCHANGED status

SlipFunctionEnd ==
  /\ Checking /\ Len(stack) = 0 /\ status' = "accepted"
  /\ path' = EndPath /\ bad' = EndBad
  /\ UNCHANGED <<flow, loop, active, captured, stack, head, pend>>

\* check_function_body, after the body.
FunctionEnd ==
  /\ Checking /\ Len(stack) = 0
  /\ IF NonVoid /\ flow.reachable
     THEN Reject
     ELSE /\ status' = "accepted"
          /\ path' = EndPath /\ bad' = EndBad
          /\ UNCHANGED <<flow, loop, active, captured, stack, head, pend>>

-----------------------------------------------------------------------------
\* check_param_decl registers a parameter initialised, check_var_decl a local
\* by whether it has an initialiser.
Init ==
  /\ status = "checking"
  /\ flow \in [reachable : {TRUE}, init : [Vars -> {{U}, {I}}]]
  /\ loop = NoLoop(flow)
  /\ active = {} /\ captured = {}
  /\ stack = <<>>
  /\ head = flow
  /\ path = Identity /\ bad = NoUse
  /\ pend = NoPend

Done == ~Checking /\ UNCHANGED vars

Next ==
  \/ \E v \in Vars : Read(v) \/ Move(v) \/ AssignBegin(v)
  \/ AssignEnd
  \/ \E left \in Consts : LogicalBegin(left)
  \/ LogicalEnd
  \/ IfExprBegin \/ IfExprElse \/ IfExprEnd
  \/ BlockBegin \/ BlockEnd
  \/ IfBegin \/ IfElse \/ IfEnd
  \/ SwitchBegin \/ CaseBegin \/ CaseEnd \/ \E e \in BOOLEAN : SwitchEnd(e)
  \/ \E always \in BOOLEAN : LoopBegin(always)
  \/ LoopBody \/ LoopPost \/ LoopEnd
  \/ Break \/ Continue
  \/ ReturnBegin \/ ReturnEnd
  \/ DeferBegin \/ DeferEnd
  \/ UnreachableStatement
  \/ FunctionEnd
  \/ Done

Spec == Init /\ [][Next]_vars

-----------------------------------------------------------------------------
(* Properties. *)

\* The analyser's state keeps its types: in particular every flow entry is one
\* of the three non-empty sets of states, and only resources are captured by a
\* defer (capture_deferred_resource_use).
TypeOK ==
  /\ status \in {"checking", "accepted", "rejected"}
  /\ flow \in Flow /\ head \in Flow
  /\ loop \in Loop
  /\ active \subseteq Resources /\ captured \subseteq Resources
  /\ stack \in Seq(Frame)
  /\ path \in Rel /\ bad \in Uses
  /\ pend \in Pend

\* An accepted function never reads or moves an uninitialised variable and
\* never overwrites a live resource, on any path through its branches, loops,
\* early exits and deferred statements.
AcceptedIsSafe ==
  status = "accepted" => \A v \in Vars : head.init[v] \cap bad[v] = {}

Alive(P) == \E v \in Vars : \E s \in States : P[v][s] # {}

\* A non-void function that is accepted cannot fall off its end.
AcceptedReturns ==
  status = "accepted" /\ NonVoid => ~Alive(path)

\* The analyser never declares a point unreachable that some path reaches.
ReachedIsReachable ==
  Alive(path) /\ Checking /\ (\A i \in 1..Len(stack) : stack[i].kind # "return") => flow.reachable

\* Every state the analyser allows a variable at a reachable point is the
\* variable's state on some path to it: nothing is rejected for a path the
\* program does not have.  A deferred assignment may have run on that path and
\* initialised an ordinary variable, which the flow does not record.
FlowWitnessed ==
  flow.reachable /\ Checking =>
    \A v \in Vars : \A t \in flow.init[v] : \E s \in head.init[v] :
      t \in path[v][s] \/ (v \notin Resources /\ I \in path[v][s])

\* docs/language.md, Loops: "every reachable loop backedge must restore each
\* resource that existed at loop entry to the ownership state under which the
\* condition was checked" - of the lowered code, not only of the analyser's flow.
BackedgesRestoreOwners ==
  [][At("post") /\ Len(stack') < Len(stack) /\ status' = "checking" =>
       \A v \in Resources : \A s \in head.init[v] : path[v][s] \subseteq head.init[v]]_vars

\* A resource a registered deferred statement relies on is owned when it runs.
DeferredIsOwned ==
  Checking => \A v \in Vars : pend.all.bad[v] # {} => flow.init[v] = {I}
=============================================================================
