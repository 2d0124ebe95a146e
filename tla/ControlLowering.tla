--------------------------- MODULE ControlLowering ---------------------------
(***************************************************************************)
(* The lowering of a function body's control flow and deferred statements  *)
(* to CogIR basic blocks (cog_ir_lower.c), the verifier's view of the      *)
(* result (cog_ir_verify.c), and the execution of the lowered function.    *)
(*                                                                         *)
(* A behaviour first lowers one function, construct by construct: it       *)
(* chooses the program as it goes, so the behaviours are the programs of   *)
(* at most MaxBlocks basic blocks (plus those the deferred statements      *)
(* add) and MaxDefers defer statements.  reachable is the analyser's       *)
(* verdict on the point being lowered: only functions the analyser         *)
(* accepts are lowered.  Then the function is verified and run; branch     *)
(* conditions that are not compile-time constants are free.                *)
(*                                                                         *)
(* Instructions are dropped, except the two markers the properties need:   *)
(* "reg" where the source registers a defer (no instruction is emitted for *)
(* it) and "run" in front of each lowered copy of a deferred statement.    *)
(***************************************************************************)
EXTENDS Naturals, Sequences

CONSTANTS
  ReturnsValue,     \* the function's return type is not void
  DeferKinds,  \* what deferred statements may do
  BareCases,   \* a switch case's body may be a defer without braces
  MaxBlocks,   \* bound on the basic blocks of the constructs
  MaxDefers,   \* bound on the defer statements
  MaxNesting,    \* bound on the nesting of constructs
  MaxCases     \* bound on the cases of a switch

\* A deferred statement is straight-line, or branches, or never ends, or is a
\* block that declares a local variable.
AllDeferKinds == {"plain", "branch", "diverge", "declare"}

ASSUME LoweringAssumption ==
  /\ ReturnsValue \in BOOLEAN /\ BareCases \in BOOLEAN
  /\ DeferKinds \subseteq AllDeferKinds
  /\ {MaxBlocks, MaxDefers, MaxNesting, MaxCases} \subseteq Nat

-----------------------------------------------------------------------------
(* Blocks and terminators. *)

BlockId  == Nat \ {0}
Entry    == 1
NoBlock  == 0
Defer    == [site : Nat, kind : AllDeferKinds]
Op       == [op : {"reg", "run"}, defer : Defer]

\* CogIrTerminator.  to holds the targets an execution may take, value the
\* block in which the returned value is available.
TermKinds == {"none", "br", "ret", "unreachable"}
Term      == [kind : TermKinds, to : SUBSET BlockId, value : Nat]
OpenTerm        == [kind |-> "none", to |-> {}, value |-> NoBlock]
Br(targets)     == [kind |-> "br", to |-> targets, value |-> NoBlock]
Ret(v)          == [kind |-> "ret", to |-> {}, value |-> v]
UnreachableTerm == [kind |-> "unreachable", to |-> {}, value |-> NoBlock]

\* CogIrBlock.  entry (history) is the list of the defers that are registered
\* and not yet run wherever the source enters this block.
Block == [ops : Seq(Op), term : Term, entry : Seq(Defer)]

\* add_block, n times: the new blocks are Len(bs) + 1 .. Len(bs) + n.
AddBlocks(bs, n, lexical) ==
  bs \o [i \in 1..n |-> [ops |-> <<>>, term |-> OpenTerm, entry |-> lexical]]

IsOpen(bs, b) == bs[b].term.kind = "none"

\* cog_ir_set_terminator.
SetTerm(bs, b, t)    == [bs EXCEPT ![b].term = t]
SetTermIfOpen(bs, b, t) == IF IsOpen(bs, b) THEN SetTerm(bs, b, t) ELSE bs
Emit(bs, b, o, d) == [bs EXCEPT ![b].ops = Append(@, [op |-> o, defer |-> d])]

\* What verify_function asks of the blocks of a defined function.
VerifyFunction(bs) ==
  \A b \in 1..Len(bs) :
    /\ bs[b].term.kind # "none"
    /\ bs[b].term.to \subseteq 1..Len(bs)
    /\ bs[b].term.kind = "ret" => bs[b].term.value = IF ReturnsValue THEN b ELSE NoBlock

-----------------------------------------------------------------------------
VARIABLES
  phase,     \* "lowering", "rejected", "failed", "running" or "returned"
  blocks,    \* the CogIR function
  cur,       \* state->block
  deferred,  \* state->deferred[0 .. defer_count)
  loop_state, \* *state->loop
  unwind,    \* the run_deferred_from in progress
  constructs, \* the C frames of the constructs being lowered
  bound,     \* the defers whose local declaration has been bound to a slot
  sites,     \* the defer statements met so far
  reachable, \* the analyser's ctx->flow.reachable at this point
  pc, live   \* execution: next instruction, and the defers registered and not run

cvars == <<phase, blocks, cur, deferred, loop_state, unwind, constructs, bound, sites, reachable, pc, live>>
running == <<pc, live>>

\* ExecLoopContext; sawBreak is LoopFlowContext.has_break_flow of the analyser.
LoopState   == [inside : BOOLEAN, brk : Nat, cont : Nat, base : Nat, hasBreak : BOOLEAN, sawBreak : BOOLEAN]
NoLoopState == [inside |-> FALSE, brk |-> NoBlock, cont |-> NoBlock, base |-> 0,
                hasBreak |-> FALSE, sawBreak |-> FALSE]

\* run_deferred_from(base), called by why: deferred[next] is to be run next.
Unwind  == [why : {"idle", "block", "return", "break", "continue"}, base : Nat, next : Nat, value : Nat]
NoUnwind == [why |-> "idle", base |-> 0, next |-> 0, value |-> NoBlock]

FrameKinds == {"function", "block", "then", "else", "loop", "switch", "case"}

\* base is the frame's defer_base, left says that the block's own statements
\* are done, merge is the block the construct continues at, other the else
\* block, post block or next case block, falls whether some path reaches merge,
\* reach the same according to the analyser.
ConstructFrame ==
  [kind : FrameKinds, base : Nat, left : BOOLEAN, merge : Nat, other : Nat,
   cond : Nat, cases : Nat, always : BOOLEAN, falls : BOOLEAN, reach : BOOLEAN, loop_state : LoopState]

NewConstruct(k) ==
  [kind |-> k, base |-> Len(deferred), left |-> FALSE, merge |-> NoBlock, other |-> NoBlock,
   cond |-> NoBlock, cases |-> 0, always |-> FALSE, falls |-> FALSE, reach |-> FALSE, loop_state |-> loop_state]

Innermost == constructs[Len(constructs)]
Outward == SubSeq(constructs, 1, Len(constructs) - 1)
Reframe(f) == constructs' = Append(Outward, f)
PushConstruct(f) == Len(constructs) <= MaxNesting /\ constructs' = Append(constructs, f)
PopConstruct == constructs' = Outward

Lowering == phase = "lowering"
Idle     == Lowering /\ unwind.why = "idle"
Open     == IsOpen(blocks, cur)
AtConstruct(k)    == Idle /\ Innermost.kind = k

\* lower_block_statements is between two statements of the block on top.
InBody  == Idle /\ Innermost.kind # "switch" /\ ~Innermost.left

\* The analyser accepts a statement here, and lower_block_statements lowers it.
LowersStatement == InBody /\ reachable /\ Open

\* The block on top is done, its defers included: the construct goes on.
BlockDone(k) == AtConstruct(k) /\ Innermost.left

\* The definitions named Slip... are plausible slips in the code of the
\* definition that follows; the specification never uses them.
Room(n) == Len(blocks) + n <= MaxBlocks

\* cog_ir_add_block: a new block's id is the number of blocks before it.
New(i) == Len(blocks) + i

-----------------------------------------------------------------------------
(* Deferred statements. *)

Prefix(s, n) == SubSeq(s, 1, n)

\* remember_defer.
RememberDefer(kind) ==
  /\ LowersStatement /\ sites < MaxDefers
  /\ LET d == [site |-> sites, kind |-> kind] IN
     /\ deferred' = Append(deferred, d)
     /\ blocks' = Emit(blocks, cur, "reg", d)
  /\ sites' = sites + 1
  /\ UNCHANGED <<phase, cur, loop_state, unwind, constructs, bound, reachable, running>>

\* lower_statement on a deferred statement that branches: an if without else.
LowerBranch(bs, b, lexical) ==
  LET new == AddBlocks(bs, 2, lexical)
      then == Len(bs) + 1
      merge == Len(bs) + 2
  IN SetTerm(SetTerm(new, b, Br({then, merge})), then, Br({merge}))

\* ... and on one that never ends: while true {}.
LowerDiverge(bs, b, lexical) ==
  LET new == AddBlocks(bs, 3, lexical)
      cond == Len(bs) + 1
      body == Len(bs) + 2
      exit == Len(bs) + 3
  IN SetTerm(SetTerm(SetTerm(SetTerm(new, b, Br({cond})), cond, Br({body})),
             body, Br({cond})), exit, UnreachableTerm)

\* run_deferred_from takes the newest first.
NextDeferred(u) == deferred[u.next]

\* One iteration of run_deferred_from.  A declaration is bound once:
\* bind_local_declaration fails when its binding is no longer pending.
RunDeferred ==
  /\ Lowering /\ unwind.why # "idle"
  /\ Open /\ unwind.next > unwind.base
  /\ LET d       == NextDeferred(unwind)
         lexical == Prefix(deferred, unwind.next - 1)
         ran     == Emit(blocks, cur, "run", d)
     IN CASE d.kind = "plain" ->
               /\ blocks' = ran
               /\ UNCHANGED <<phase, cur, bound>>
          [] d.kind = "branch" ->
               /\ blocks' = LowerBranch(ran, cur, lexical)
               /\ cur' = New(2)
               /\ UNCHANGED <<phase, bound>>
          [] d.kind = "diverge" ->
               /\ blocks' = LowerDiverge(ran, cur, lexical)
               /\ cur' = New(3)
               /\ UNCHANGED <<phase, bound>>
          [] d.kind = "declare" ->
               /\ IF d.site \in bound
                  THEN phase' = "failed" /\ UNCHANGED <<blocks, bound>>
                  ELSE blocks' = ran /\ bound' = bound \cup {d.site} /\ UNCHANGED phase
               /\ UNCHANGED cur
  /\ unwind' = [unwind EXCEPT !.next = @ - 1]
  /\ UNCHANGED <<deferred, loop_state, constructs, sites, reachable, running>>

StartUnwind(why, base, value) ==
  unwind' = [why |-> why, base |-> base, next |-> Len(deferred), value |-> value]

Unwound(why) ==
  /\ Lowering /\ unwind.why = why
  /\ ~Open \/ unwind.next = unwind.base

SlipKeepDeferred(u) == deferred

\* lower_block_statements: state->defer_count = defer_base.
RestoreDeferCount(u) == Prefix(deferred, u.base)

\* The end of lower_block_statements: the block's own defers run and are dropped.
LowerBlockEnd ==
  /\ InBody
  /\ StartUnwind("block", Innermost.base, NoBlock)
  /\ Reframe([Innermost EXCEPT !.left = TRUE])
  /\ UNCHANGED <<phase, blocks, cur, deferred, loop_state, bound, sites, reachable, running>>

BlockUnwound ==
  /\ Unwound("block")
  /\ deferred' = RestoreDeferCount(unwind)
  /\ unwind' = NoUnwind
  /\ UNCHANGED <<phase, blocks, cur, loop_state, constructs, bound, sites, reachable, running>>

\* lower_return_statement: the value is computed first, and kept in a slot when
\* deferred statements run after it.
Return ==
  /\ LowersStatement
  /\ StartUnwind("return", 0, IF ReturnsValue THEN cur ELSE NoBlock)
  /\ reachable' = FALSE
  /\ UNCHANGED <<phase, blocks, cur, deferred, loop_state, constructs, bound, sites, running>>

SlipNoSpill(u) == u.value

\* The block the returned value is available in: it is reloaded from its slot
\* once the deferred statements are lowered.
ReturnedValue(u) == IF ReturnsValue /\ Len(deferred) > 0 THEN cur ELSE u.value

ReturnUnwound ==
  /\ Unwound("return")
  /\ blocks' = SetTermIfOpen(blocks, cur, Ret(ReturnedValue(unwind)))
  /\ unwind' = NoUnwind
  /\ UNCHANGED <<phase, cur, deferred, loop_state, constructs, bound, sites, reachable, running>>

SlipJumpBase == Innermost.base

\* The defers of the loop's body and of the blocks inside it run.
JumpBase == loop_state.base

LowerBreak ==
  /\ LowersStatement /\ loop_state.inside
  /\ StartUnwind("break", JumpBase, NoBlock)
  /\ loop_state' = [loop_state EXCEPT !.hasBreak = TRUE, !.sawBreak = TRUE]
  /\ reachable' = FALSE
  /\ UNCHANGED <<phase, blocks, cur, deferred, constructs, bound, sites, running>>

LowerContinue ==
  /\ LowersStatement /\ loop_state.inside
  /\ StartUnwind("continue", JumpBase, NoBlock)
  /\ reachable' = FALSE
  /\ UNCHANGED <<phase, blocks, cur, deferred, loop_state, constructs, bound, sites, running>>

JumpUnwound ==
  /\ Unwound("break") \/ Unwound("continue")
  /\ blocks' = SetTermIfOpen(blocks, cur,
                 Br({IF unwind.why = "break" THEN loop_state.brk ELSE loop_state.cont}))
  /\ unwind' = NoUnwind
  /\ UNCHANGED <<phase, cur, deferred, loop_state, constructs, bound, sites, reachable, running>>

\* A deferred statement that never ends closes the block at a point the analyser
\* holds reachable: lower_block_statements drops the statements it still accepts.
SkippedStatement(falls, breaks) ==
  /\ InBody /\ reachable /\ ~Open
  /\ breaks => loop_state.inside
  /\ reachable' = falls
  /\ loop_state' = [loop_state EXCEPT !.sawBreak = @ \/ breaks]
  /\ UNCHANGED <<phase, blocks, cur, deferred, unwind, constructs, bound, sites, running>>

-----------------------------------------------------------------------------
(* Blocks, if and switch. *)

LowerBlock ==
  /\ LowersStatement
  /\ PushConstruct(NewConstruct("block"))
  /\ UNCHANGED <<phase, blocks, cur, deferred, loop_state, unwind, bound, sites, reachable, running>>

BlockLeave ==
  /\ BlockDone("block")
  /\ PopConstruct
  /\ UNCHANGED <<phase, blocks, cur, deferred, loop_state, unwind, bound, sites, reachable, running>>

\* lower_if_statement: if.then, if.end and, with an else branch, if.else.
LowerIf(hasElse) ==
  /\ LowersStatement /\ Room(IF hasElse THEN 3 ELSE 2)
  /\ LET then  == New(1)
         merge == New(2)
         else  == IF hasElse THEN New(3) ELSE merge
     IN /\ blocks' = SetTerm(AddBlocks(blocks, IF hasElse THEN 3 ELSE 2, deferred), cur, Br({then, else}))
        /\ cur' = then
        /\ PushConstruct([NewConstruct("then") EXCEPT !.merge = merge, !.other = else])
  /\ UNCHANGED <<phase, deferred, loop_state, unwind, bound, sites, reachable, running>>

SlipJoinAlwaysOpen(bs, merge, falls) == bs

\* The block after a construct no path of which falls through is closed.
JoinAt(bs, merge, falls) == IF falls THEN bs ELSE SetTerm(bs, merge, UnreachableTerm)

\* The then branch is lowered: on to the else branch, if there is one.
LowerElse ==
  /\ BlockDone("then") /\ Innermost.other # Innermost.merge
  /\ blocks' = SetTermIfOpen(blocks, cur, Br({Innermost.merge}))
  /\ cur' = Innermost.other
  /\ Reframe([Innermost EXCEPT !.kind = "else", !.left = FALSE, !.falls = Open, !.reach = reachable])
  /\ reachable' = TRUE
  /\ UNCHANGED <<phase, deferred, loop_state, unwind, bound, sites, running>>

LowerIfEnd ==
  /\ BlockDone("else") \/ (BlockDone("then") /\ Innermost.other = Innermost.merge)
  /\ LET noElse == Innermost.kind = "then" IN
     /\ blocks' = JoinAt(SetTermIfOpen(blocks, cur, Br({Innermost.merge})), Innermost.merge,
                         Open \/ Innermost.falls \/ noElse)
     /\ cur' = Innermost.merge
     /\ reachable' = (reachable \/ Innermost.reach \/ noElse)
  /\ PopConstruct
  /\ UNCHANGED <<phase, deferred, loop_state, unwind, bound, sites, running>>

\* lower_switch_statement.  An exhaustive switch without a default gets an
\* unmatched block, which no value selects; one that is not exhaustive goes to
\* switch.end when no case matches.
LowerSwitch(n, hasDefault, exhaustive) ==
  /\ LowersStatement
  /\ hasDefault => exhaustive
  /\ exhaustive => n > 0
  /\ LET merge     == New(1)
         caseBlocks == {New(1 + i) : i \in 1..n}
         unmatched == exhaustive /\ ~hasDefault
         added     == n + (IF unmatched THEN 2 ELSE 1)
         targets   == IF exhaustive THEN caseBlocks ELSE caseBlocks \cup {merge}
         new       == SetTerm(AddBlocks(blocks, added, deferred), cur, Br(targets))
     IN /\ Room(added)
        /\ blocks' = IF unmatched THEN SetTerm(new, New(added), UnreachableTerm) ELSE new
        /\ PushConstruct([NewConstruct("switch") EXCEPT !.merge = merge, !.other = New(2), !.cases = n,
                                           !.falls = ~exhaustive, !.reach = ~exhaustive])
  /\ UNCHANGED <<phase, cur, deferred, loop_state, unwind, bound, sites, reachable, running>>

LowerCase ==
  /\ AtConstruct("switch") /\ Innermost.cases > 0
  /\ cur' = Innermost.other
  /\ Reframe([Innermost EXCEPT !.kind = "case", !.left = FALSE, !.base = Len(deferred)])
  /\ reachable' = TRUE
  /\ UNCHANGED <<phase, blocks, deferred, loop_state, unwind, bound, sites, running>>

NextCase(f, falls, reach) ==
  [f EXCEPT !.kind = "switch", !.other = @ + 1, !.cases = @ - 1,
            !.falls = @ \/ falls, !.reach = @ \/ reach]

LowerCaseEnd ==
  /\ BlockDone("case")
  /\ blocks' = SetTermIfOpen(blocks, cur, Br({Innermost.merge}))
  /\ Reframe(NextCase(Innermost, Open, reachable))
  /\ UNCHANGED <<phase, cur, deferred, loop_state, unwind, bound, sites, reachable, running>>

\* A case whose body is a defer without braces: parse_switch_case takes any
\* statement, and no lower_block_statements is around it.  (Every other
\* statement without braces lowers like a block of that one statement.)
BareCaseDefer(kind) ==
  /\ BareCases
  /\ AtConstruct("switch") /\ Innermost.cases > 0 /\ sites < MaxDefers
  /\ LET d == [site |-> sites, kind |-> kind] IN
     /\ deferred' = Append(deferred, d)
     /\ blocks' = SetTerm(Emit(blocks, Innermost.other, "reg", d), Innermost.other, Br({Innermost.merge}))
  /\ cur' = Innermost.other
  /\ sites' = sites + 1
  /\ Reframe(NextCase(Innermost, TRUE, TRUE))
  /\ UNCHANGED <<phase, loop_state, unwind, bound, reachable, running>>

LowerSwitchEnd ==
  /\ AtConstruct("switch") /\ Innermost.cases = 0
  /\ blocks' = JoinAt(blocks, Innermost.merge, Innermost.falls)
  /\ cur' = Innermost.merge
  /\ reachable' = Innermost.reach
  /\ PopConstruct
  /\ UNCHANGED <<phase, deferred, loop_state, unwind, bound, sites, running>>

-----------------------------------------------------------------------------
(* Loops. *)

\* lower_while_statement and, with a post block, lower_for_statement.
LowerLoop(known, hasPost) ==
  /\ LowersStatement /\ Room(IF hasPost THEN 4 ELSE 3)
  /\ LET cond == New(1)
         body == New(2)
         exit == IF hasPost THEN New(4) ELSE New(3)
         post == IF hasPost THEN New(3) ELSE cond
         new  == AddBlocks(blocks, IF hasPost THEN 4 ELSE 3, deferred)
     IN /\ blocks' = SetTerm(SetTerm(new, cur, Br({cond})), cond,
                       Br(CASE known = "true"    -> {body}
                            [] known = "false"   -> {exit}
                            [] known = "unknown" -> {body, exit}))
        /\ cur' = body
        /\ loop_state' = [inside |-> TRUE, brk |-> exit, cont |-> post, base |-> Len(deferred),
                         hasBreak |-> FALSE, sawBreak |-> FALSE]
        /\ PushConstruct([NewConstruct("loop") EXCEPT !.merge = exit, !.other = post, !.cond = cond,
                                         !.always = (known = "true")])
  /\ UNCHANGED <<phase, deferred, unwind, bound, sites, reachable, running>>

SlipExitNeverOpen(f) == ~f.always

\* Some path reaches the end of the loop.
LoopExits(f) == ~f.always \/ loop_state.hasBreak

LowerLoopEnd ==
  /\ BlockDone("loop")
  /\ LET toPost == SetTermIfOpen(blocks, cur, Br({Innermost.other}))
         back   == IF Innermost.other = Innermost.cond THEN toPost ELSE SetTerm(toPost, Innermost.other, Br({Innermost.cond}))
     IN blocks' = JoinAt(back, Innermost.merge, LoopExits(Innermost))
  /\ cur' = Innermost.merge
  /\ reachable' = (~Innermost.always \/ loop_state.sawBreak)
  /\ loop_state' = Innermost.loop_state
  /\ PopConstruct
  /\ UNCHANGED <<phase, deferred, unwind, bound, sites, running>>

-----------------------------------------------------------------------------
(* The end of the function, the verifier, and the execution. *)

\* check_function_body rejects a non-void function whose end is reachable;
\* finish_void_function_if_needed closes the last block of a void one, and
\* cog_ir_verify must then accept the function.
LowerFunctionEnd ==
  /\ BlockDone("function")
  /\ LET finished == IF ReturnsValue THEN blocks ELSE SetTermIfOpen(blocks, cur, Ret(NoBlock)) IN
     IF ReturnsValue /\ reachable
     THEN phase' = "rejected" /\ UNCHANGED blocks
     ELSE /\ blocks' = finished
          /\ phase' = IF VerifyFunction(finished) THEN "running" ELSE "failed"
  /\ UNCHANGED <<cur, deferred, loop_state, unwind, constructs, bound, sites, reachable, running>>

Running   == phase = "running"
Code      == blocks[pc.block]
AtOp(o)   == Running /\ pc.next <= Len(Code.ops) /\ Code.ops[pc.next].op = o
AtTerm(k) == Running /\ pc.next > Len(Code.ops) /\ Code.term.kind = k
ThisDefer == Code.ops[pc.next].defer

Register ==
  /\ AtOp("reg")
  /\ live' = Append(live, ThisDefer)
  /\ pc' = [pc EXCEPT !.next = @ + 1]
  /\ UNCHANGED <<phase, blocks, cur, deferred, loop_state, unwind, constructs, bound, sites, reachable>>

\* A deferred statement that runs takes back its newest registration, if any.
Unregister(s, d) ==
  LET at == {i \in 1..Len(s) : s[i] = d}
      newest == CHOOSE i \in at : \A j \in at : j <= i
  IN IF at = {} THEN s ELSE SubSeq(s, 1, newest - 1) \o SubSeq(s, newest + 1, Len(s))

RunCleanup ==
  /\ AtOp("run")
  /\ live' = Unregister(live, ThisDefer)
  /\ pc' = [pc EXCEPT !.next = @ + 1]
  /\ UNCHANGED <<phase, blocks, cur, deferred, loop_state, unwind, constructs, bound, sites, reachable>>

Jump ==
  /\ AtTerm("br")
  /\ \E b \in Code.term.to : pc' = [block |-> b, next |-> 1]
  /\ UNCHANGED <<phase, blocks, cur, deferred, loop_state, unwind, constructs, bound, sites, reachable, live>>

Leave ==
  /\ AtTerm("ret")
  /\ phase' = "returned"
  /\ UNCHANGED <<blocks, cur, deferred, loop_state, unwind, constructs, bound, sites, reachable, running>>

-----------------------------------------------------------------------------
\* lower_function_body: one entry block.
LoweringInit ==
  /\ phase = "lowering"
  /\ blocks = AddBlocks(<<>>, 1, <<>>) /\ cur = Entry
  /\ deferred = <<>> /\ loop_state = NoLoopState /\ unwind = NoUnwind
  /\ constructs = <<[kind |-> "function", base |-> 0, left |-> FALSE, merge |-> NoBlock, other |-> NoBlock,
                cond |-> NoBlock, cases |-> 0, always |-> FALSE, falls |-> FALSE, reach |-> FALSE,
                loop_state |-> NoLoopState]>>
  /\ bound = {} /\ sites = 0
  /\ reachable = TRUE
  /\ pc = [block |-> Entry, next |-> 1] /\ live = <<>>

LoweringDone == phase \in {"rejected", "failed", "returned"} /\ UNCHANGED cvars

LoweringNext ==
  \/ \E k \in DeferKinds : RememberDefer(k) \/ BareCaseDefer(k)
  \/ RunDeferred \/ LowerBlockEnd \/ BlockUnwound
  \/ Return \/ ReturnUnwound \/ LowerBreak \/ LowerContinue \/ JumpUnwound
  \/ \E falls, breaks \in BOOLEAN : SkippedStatement(falls, breaks)
  \/ LowerBlock \/ BlockLeave
  \/ (\E hasElse \in BOOLEAN : LowerIf(hasElse)) \/ LowerElse \/ LowerIfEnd
  \/ \E n \in 0..MaxCases, d, e \in BOOLEAN : LowerSwitch(n, d, e)
  \/ LowerCase \/ LowerCaseEnd \/ LowerSwitchEnd
  \/ (\E known \in {"unknown", "true", "false"}, p \in BOOLEAN : LowerLoop(known, p)) \/ LowerLoopEnd
  \/ LowerFunctionEnd
  \/ Register \/ RunCleanup \/ Jump \/ Leave
  \/ LoweringDone

LoweringSpec == LoweringInit /\ [][LoweringNext]_cvars

-----------------------------------------------------------------------------
(* Properties. *)

\* The lowering keeps its types.
LoweringTypeOK ==
  /\ phase \in {"lowering", "rejected", "failed", "running", "returned"}
  /\ blocks \in Seq(Block) /\ cur \in 1..Len(blocks)
  /\ deferred \in Seq(Defer) /\ live \in Seq(Defer)
  /\ loop_state \in LoopState /\ unwind \in Unwind
  /\ constructs \in Seq(ConstructFrame)
  /\ bound \subseteq Nat /\ sites \in Nat
  /\ reachable \in BOOLEAN
  /\ pc \in [block : BlockId, next : BlockId]

\* lower_function_body and cog_ir_verify succeed on every function the analyser
\* accepts: no internal error, no block without a terminator, no value used
\* outside the block that computes it.
LoweringSucceeds == phase # "failed"

\* docs/grammar.md, Deferred cleanup: "Deferred bodies execute in reverse
\* registration order when their lexical block is left, including exits through
\* return, break, and continue" - a deferred statement runs only while it is
\* registered and the newest, and no function returns before all have run.
DeferDiscipline ==
  /\ AtOp("run")  => Len(live) > 0 /\ live[Len(live)] = ThisDefer
  /\ AtTerm("ret") => live = <<>>

\* No execution reaches a terminator the lowering marked unreachable.
NeverUnreachable == ~AtTerm("unreachable")

\* The lowering emits code only where the analyser sees a reachable point.
OpenIsReachable == InBody /\ Open => reachable

\* What the builder holds between two statements is in order.
LoweringInvariant == LoweringTypeOK /\ OpenIsReachable

\* However a loop is left or repeated, the defers registered are those the
\* source has registered at the block entered.
BlocksEnteredLexically == Running /\ pc.next = 1 => live = Code.entry
=============================================================================
