--------------------------- MODULE OwnershipProof ---------------------------
(***************************************************************************)
(* The analyser of OwnershipFlow is sound, and what it allows is met on    *)
(* paths, for every set of variables and every nesting depth, on the       *)
(* programs that neither branch inside a return value nor transfer a       *)
(* resource in a deferred statement.                                       *)
(***************************************************************************)
EXTENDS OwnershipFlow, SequenceTheorems, TLAPS

-----------------------------------------------------------------------------
(* The inductive invariant. *)

\* The states an entry of FlowState stands for.  An ordinary variable may be
\* initialised by an earlier iteration, so {U} says nothing about it.
Gamma(v, A) == IF v \in Resources \/ A = {I} THEN A ELSE States

\* From the states H allows, the paths P only lead to states F allows ...
Sound(H, P, F) ==
  \A v \in Vars : \A s \in Gamma(v, H.init[v]) : P[v][s] \subseteq Gamma(v, F.init[v])

\* ... and none of the uses D has gone wrong.
Safe(H, D) == \A v \in Vars : \A s \in Gamma(v, H.init[v]) : s \notin D[v]

\* No path reaches a point the analyser calls unreachable.
Dead(P)      == \A v \in Vars : \A s \in States : P[v][s] = {}
DeadOK(P, F) == ~F.reachable => Dead(P)

\* What no step inside a construct undoes: an ordinary variable, or a resource
\* of A, that is initialised in F is initialised in G.
Keeps(A, F, G) ==
  \A v \in Vars : (v \in Resources => v \in A) /\ F.init[v] = {I} => G.init[v] = {I}

\* An expression initialises nothing.
StaysUninitialized(F, G) == \A v \in Vars : F.init[v] = {U} => G.init[v] = {U}

\* The deferred statements d need only what is initialised and stays so, and
\* transfer no resource.
DeferOK(d, A, F) ==
  \A v \in Vars :
    /\ I \notin d.bad[v]
    /\ U \in d.bad[v] => F.init[v] = {I} /\ (v \in Resources => v \in A)
    /\ U \notin d.rel[v][I]
    /\ v \in Resources => I \notin d.rel[v][U]
PendOK(p, A, F) == DeferOK(p.block, A, F) /\ DeferOK(p.loop, A, F) /\ DeferOK(p.all, A, F)

\* The paths g to a break or continue target are those its accumulator stands for.
AccOK(a, g, H, A) ==
  IF a.has THEN a.flow.reachable /\ Sound(H, g, a.flow) /\ Keeps(A, H, a.flow)
  ELSE Dead(g)
LoopOK(l, H) == AccOK(l.brk, l.gbrk, H, l.base) /\ AccOK(l.cont, l.gcont, H, l.base)

\* A point of the walk: head h, paths P, bad uses D, flow F, captured
\* resources A, deferred statements p, resources B captured outside the loop.
PointOK(h, P, D, F, A, p, B) ==
  /\ Sound(h, P, F)
  /\ Safe(h, D)
  /\ PendOK(p, A, F)
  /\ B \subseteq A
  /\ Keeps(B, h, F)

\* Frames whose construct starts paths of its own, frames of expressions, and
\* frames during which no defer is registered.
HeadKinds  == {"cond", "body", "post", "defer"}
ExprKinds  == {"xthen", "xelse", "logical"}
QuietKinds == ExprKinds \cup {"assign", "return", "switch", "cond", "post", "defer"}

InnerHead(f) == IF f.kind \in HeadKinds THEN f.in ELSE f.head
InnerBase(f) == IF f.kind = "defer" THEN {}
                ELSE IF f.kind \in HeadKinds THEN f.active ELSE f.loop.base

FrameOK(f) ==
  /\ PointOK(f.head, f.gin, f.bad, f.in, f.active, f.pend, f.loop.base)
  /\ DeadOK(f.gin, f.in)
  /\ f.kind \in HeadKinds => LoopOK(f.loop, f.head)
  /\ f.kind = "assign" => f.target \in Vars
  /\ IF f.alt.has
     THEN /\ Sound(InnerHead(f), f.galt, f.alt.flow)
          /\ DeadOK(f.galt, f.alt.flow)
          /\ Keeps(f.active, f.in, f.alt.flow)
          /\ f.kind \in ExprKinds => StaysUninitialized(f.in, f.alt.flow)
     ELSE Dead(f.galt) /\ f.kind \notin {"cond", "body", "post", "else", "xelse"}

\* What frame f and the point of the walk just inside it have in common.
Link(f, h, F, A, p, B) ==
  /\ InnerHead(f) = h
  /\ InnerBase(f) = B
  /\ Keeps(f.active, f.in, F)
  /\ f.active \subseteq A
  /\ f.kind \in QuietKinds => A = f.active /\ p = f.pend
  /\ f.kind \in ExprKinds => StaysUninitialized(f.in, F)
  /\ f.kind = "assign" /\ f.target \in Resources => F.init[f.target] = {U}

\* Which frame may stand directly on which.
Shape(f, g) ==
  /\ f.kind \in QuietKinds => g.kind \in ExprKinds \cup {"assign"}
  /\ f.kind \in ExprKinds \cup {"assign"} => g.kind \in ExprKinds

StackOK(st, h, F, A, p, B) ==
  /\ \A i \in 1..Len(st) : FrameOK(st[i])
  /\ \A i \in 1..(Len(st) - 1) :
       /\ Link(st[i], st[i+1].head, st[i+1].in, st[i+1].active, st[i+1].pend, st[i+1].loop.base)
       /\ Shape(st[i], st[i+1])
  /\ Len(st) > 0 => Link(st[Len(st)], h, F, A, p, B)
  /\ \A i \in 1..Len(st) : st[i].kind = "defer" =>
       i = Len(st) \/ (i = Len(st) - 1 /\ st[Len(st)].kind = "assign")

\* Inside a deferred statement: it only needs what is initialised where it is
\* registered, and every resource it needs is captured.
DeferBody ==
  \A v \in Vars :
    /\ I \notin bad[v]
    /\ U \in bad[v] => head.init[v] = {I} /\ (v \in Resources => v \in captured)
    /\ U \notin path[v][I]
    /\ v \in Resources => I \notin path[v][U] /\ flow.init[v] = head.init[v]

WalkOK ==
  /\ PointOK(head, path, bad, flow, active, pend, loop.base)
  /\ LoopOK(loop, head)
  /\ StackOK(stack, head, flow, active, pend, loop.base)
  /\ ~At("return") => DeadOK(path, flow)
  /\ InDefer => DeferBody
  /\ InDefer /\ At("assign") => Top.target \notin Resources

Inv ==
  /\ TypeOK
  /\ Checking => WalkOK
  /\ status = "accepted" => Safe(head, bad) /\ (NonVoid => Dead(path))

-----------------------------------------------------------------------------
(* Types. *)

LEMMA RelTypes ==
  /\ NoPath \in Rel /\ Identity \in Rel /\ NoUse \in Uses
  /\ \A P, Q \in Rel : Join(P, Q) \in Rel /\ Then(P, Q) \in Rel
  /\ \A P \in Rel : Star(P) \in Rel
  /\ \A P \in Rel, D \in Uses : Before(P, D) \in Uses
  /\ \A D, E \in Uses : UseOr(D, E) \in Uses
  /\ \A P \in Rel, v \in Vars \cup {NoVar}, t \in States : SetOn(P, v, t) \in Rel
  /\ \A P \in Rel, D \in Uses, v \in Vars \cup {NoVar}, t \in States : UseOn(P, D, v, t) \in Uses
  <1>1. NoPath \in Rel /\ Identity \in Rel /\ NoUse \in Uses
    BY DEF Rel, Uses, NoPath, Identity, NoUse, States
  <1>2. \A P, Q \in Rel : Join(P, Q) \in Rel /\ Then(P, Q) \in Rel
    BY DEF Rel, Join, Then
  <1>3. \A P \in Rel : Star(P) \in Rel
    BY <1>1, <1>2 DEF Star
  <1>4. /\ \A P \in Rel, D \in Uses : Before(P, D) \in Uses
        /\ \A D, E \in Uses : UseOr(D, E) \in Uses
    BY DEF Rel, Uses, Before, UseOr
  <1>5. \A P \in Rel, v \in Vars \cup {NoVar}, t \in States : SetOn(P, v, t) \in Rel
    BY DEF Rel, SetOn
  <1>6. \A P \in Rel, D \in Uses, v \in Vars \cup {NoVar}, t \in States : UseOn(P, D, v, t) \in Uses
    BY DEF Uses, UseOn
  <1> QED
    BY <1>1, <1>2, <1>3, <1>4, <1>5, <1>6

LEMMA PendTypes ==
  /\ NoDefer \in Deferred /\ NoPend \in Pend
  /\ \A d, new \in Deferred : Remember(d, new) \in Deferred
  /\ \A P \in Rel, d \in Deferred : RunPath(P, d) \in Rel
  /\ \A P \in Rel, D \in Uses, d \in Deferred : RunBad(P, D, d) \in Uses
  /\ \A p \in Pend : OpenBlock(p) \in Pend /\ OpenLoopBody(p) \in Pend
  <1>1. NoDefer \in Deferred
    BY RelTypes DEF Deferred, NoDefer
  <1>2. NoPend \in Pend /\ \A p \in Pend : OpenBlock(p) \in Pend /\ OpenLoopBody(p) \in Pend
    BY <1>1 DEF Pend, NoPend, OpenBlock, OpenLoopBody
  <1>3. \A d, new \in Deferred : Remember(d, new) \in Deferred
    BY RelTypes DEF Deferred, Remember
  <1>4. /\ \A P \in Rel, d \in Deferred : RunPath(P, d) \in Rel
        /\ \A P \in Rel, D \in Uses, d \in Deferred : RunBad(P, D, d) \in Uses
    BY RelTypes DEF Deferred, RunPath, RunBad
  <1> QED
    BY <1>1, <1>2, <1>3, <1>4

LEMMA FlowTypes ==
  /\ \A F, G \in Flow : Merge(F, G) \in Flow
  /\ \A F \in Flow, v \in Vars \cup {NoVar} : MarkInitialized(F, v) \in Flow /\ MarkUninitialized(F, v) \in Flow
  /\ \A F \in Flow : Unreachable(F) \in Flow /\ NoLoop(F) \in Loop
  /\ \A F \in Flow, a \in Acc : Accumulate(a, F) \in Acc /\ CaseFlow(a, F) \in Acc
  /\ \A F \in Flow, A \in SUBSET Resources : NewLoop(F, A) \in Loop
  /\ \A F \in Flow, l \in Loop : IterationFlow(l, F) \in Flow
  /\ \A F \in Flow, l \in Loop, b \in BOOLEAN : ExitFlow(l, F, b) \in Flow
  /\ \A F, G \in Flow, k \in Consts : LogicalFlow(k, F, G) \in Flow
  /\ \A f \in Frame, b \in BOOLEAN : SwitchFlow(f, b) \in Flow
  <1>1. \A F, G \in Flow : Merge(F, G) \in Flow
    <2>1. \A A, B \in Entries : A \cup B \in Entries
      BY DEF Entries
    <2>2. \A f, g \in [Vars -> Entries] : [v \in Vars |-> f[v] \cup g[v]] \in [Vars -> Entries]
      BY <2>1
    <2> QED
      BY <2>2 DEF Flow, Merge
  <1>2. /\ \A F \in Flow, v \in Vars \cup {NoVar} : MarkInitialized(F, v) \in Flow /\ MarkUninitialized(F, v) \in Flow
        /\ \A F \in Flow : Unreachable(F) \in Flow
    <2>1. {I} \in Entries /\ {U} \in Entries
      BY DEF States, Entries
    <2> QED
      BY <2>1 DEF Flow, MarkInitialized, MarkUninitialized, Unreachable
  <1>3. \A F \in Flow, a \in Acc : Accumulate(a, F) \in Acc /\ CaseFlow(a, F) \in Acc
    BY <1>1 DEF Acc, Accumulate, CaseFlow
  <1>4. /\ \A F \in Flow, A \in SUBSET Resources : NewLoop(F, A) \in Loop
        /\ \A F \in Flow : NoLoop(F) \in Loop
    BY RelTypes DEF Loop, Acc, NewLoop, NoLoop
  <1>5. /\ \A F \in Flow, l \in Loop : IterationFlow(l, F) \in Flow
        /\ \A F \in Flow, l \in Loop, b \in BOOLEAN : ExitFlow(l, F, b) \in Flow
    BY <1>1, <1>2 DEF IterationFlow, ExitFlow, Loop, Acc
  <1>6. \A F, G \in Flow, k \in Consts : LogicalFlow(k, F, G) \in Flow
    BY <1>1 DEF LogicalFlow, Consts
  <1>7. \A f \in Frame, b \in BOOLEAN : SwitchFlow(f, b) \in Flow
    BY <1>1 DEF SwitchFlow, Frame, Acc
  <1> QED
    BY <1>1, <1>2, <1>3, <1>4, <1>5, <1>6, <1>7

LEMMA StackTypes ==
  ASSUME stack \in Seq(Frame)
  PROVE  /\ \A f \in Frame : Append(stack, f) \in Seq(Frame)
         /\ Len(stack) > 0 => /\ Top \in Frame /\ Under \in Seq(Frame)
                              /\ \A f \in Frame : Append(Under, f) \in Seq(Frame)
  BY DEF Top, Under

LEMMA FrameTypes ==
  ASSUME TypeOK
  PROVE  /\ \A k \in Kinds : NewFrame(k) \in Frame
         /\ EndPath \in Rel /\ EndBad \in Uses
  <1>1. \A k \in Kinds : NewFrame(k) \in Frame
    BY RelTypes DEF TypeOK, NewFrame, Frame, Acc, Consts
  <1>2. pend.block \in Deferred
    BY DEF TypeOK, Pend
  <1> QED
    BY <1>1, <1>2, PendTypes DEF TypeOK, EndPath, EndBad

LEMMA TypeInit == Init => TypeOK
  <1> SUFFICES ASSUME Init PROVE TypeOK
    OBVIOUS
  <1>1. flow \in Flow /\ head \in Flow
    <2>1. \A x \in {{U}, {I}} : x \in Entries
      BY DEF States, Entries
    <2>2. [Vars -> {{U}, {I}}] \subseteq [Vars -> Entries]
      BY <2>1
    <2> QED
      BY <2>2 DEF Init, Flow
  <1>2. loop \in Loop
    BY <1>1, FlowTypes DEF Init
  <1>3. path \in Rel /\ bad \in Uses /\ pend \in Pend
    BY RelTypes, PendTypes DEF Init
  <1> QED
    BY <1>1, <1>2, <1>3 DEF Init, TypeOK

LEMMA TypeStep == TypeOK /\ [Next]_vars => TypeOK'
  <1> SUFFICES ASSUME TypeOK, [Next]_vars PROVE TypeOK'
    OBVIOUS
  <1>k. /\ {"block", "then", "else", "xthen", "xelse", "logical", "assign", "return",
             "switch", "case", "cond", "body", "post", "defer"} \subseteq Kinds
        /\ U \in States /\ I \in States
    BY DEF Kinds, States
  <1>u. Len(stack) > 0 => Top \in Frame /\ Under \in Seq(Frame)
    BY StackTypes DEF TypeOK
  <1>n. \A f \in Frame : Append(stack, f) \in Seq(Frame)
    BY StackTypes DEF TypeOK
  <1>r. \A f \in Frame : Len(stack) > 0 => Append(Under, f) \in Seq(Frame)
    BY StackTypes DEF TypeOK
  <1>e. EndPath \in Rel /\ EndBad \in Uses /\ \A k \in Kinds : NewFrame(k) \in Frame
    BY FrameTypes
  <1>p. pend.block \in Deferred /\ pend.loop \in Deferred /\ pend.all \in Deferred
    BY DEF TypeOK, Pend
  <1>rej. ASSUME Reject PROVE TypeOK'
    BY <1>rej DEF TypeOK, Reject, ghost
  <1>1. ASSUME NEW v \in Vars, Read(v) PROVE TypeOK'
    <2>1. CASE Reject
      BY <2>1, <1>rej
    <2>2. CASE ~Reject
      <3>1. captured' \subseteq Resources
        BY <1>1, <2>2 DEF Read, Capture, TypeOK
      <3> QED
        BY <1>1, <2>2, <3>1, <1>k, RelTypes DEF Read, TypeOK
    <2> QED
      BY <2>1, <2>2
  <1>2. ASSUME NEW v \in Vars, Move(v) PROVE TypeOK'
    <2>1. CASE Reject
      BY <2>1, <1>rej
    <2>2. CASE ~Reject
      <3>1. captured' \subseteq Resources
        BY <1>2, <2>2 DEF Move, Capture, TypeOK
      <3>2. flow' \in Flow
        BY <1>2, <2>2, FlowTypes DEF Move, TypeOK
      <3>3. path' \in Rel /\ bad' \in Uses
        BY <1>2, <2>2, <1>k, RelTypes DEF Move, TypeOK
      <3> QED
        BY <1>2, <2>2, <3>1, <3>2, <3>3 DEF Move, TypeOK
    <2> QED
      BY <2>1, <2>2
  <1>3. ASSUME NEW v \in Vars, AssignBegin(v) PROVE TypeOK'
    <2>1. CASE Reject
      BY <2>1, <1>rej
    <2>2. CASE ~Reject
      <3>1. captured' \subseteq Resources
        BY <1>3, <2>2 DEF AssignBegin, Capture, TypeOK
      <3>2. [NewFrame("assign") EXCEPT !.target = v] \in Frame
        BY <1>e, <1>k DEF Frame
      <3>3. stack' \in Seq(Frame)
        BY <1>3, <2>2, <3>2, <1>n DEF AssignBegin, Push
      <3> QED
        BY <1>3, <2>2, <3>1, <3>3 DEF AssignBegin, TypeOK, ghost
    <2> QED
      BY <2>1, <2>2
  <1>4. ASSUME AssignEnd PROVE TypeOK'
    <2>1. Top.target \in Vars \cup {NoVar}
      BY <1>4, <1>u DEF AssignEnd, At, Frame
    <2>2. flow' \in Flow
      BY <1>4, <2>1, FlowTypes DEF AssignEnd, TypeOK
    <2>3. path' \in Rel /\ bad' \in Uses
      BY <1>4, <2>1, <1>k, RelTypes DEF AssignEnd, TypeOK
    <2> QED
      BY <2>2, <2>3, <1>4, <1>u DEF AssignEnd, At, Pop, TypeOK
  <1>5. ASSUME NEW left \in Consts, LogicalBegin(left) PROVE TypeOK'
    <2>1. [NewFrame("logical") EXCEPT !.left = left] \in Frame
      BY <1>e, <1>k DEF Frame
    <2> QED
      BY <1>5, <2>1, <1>n DEF LogicalBegin, Push, TypeOK, ghost
  <1>6. ASSUME LogicalEnd PROVE TypeOK'
    <2>1. /\ Top.in \in Flow /\ Top.left \in Consts /\ Top.gin \in Rel /\ Top.bad \in Uses
          /\ Under \in Seq(Frame)
      BY <1>6, <1>u DEF LogicalEnd, At, Frame
    <2>2. flow' \in Flow
      BY <1>6, <2>1, FlowTypes DEF LogicalEnd, TypeOK
    <2>3. path' \in Rel
      BY <1>6, <2>1, RelTypes DEF LogicalEnd, TypeOK, Consts
    <2> QED
      BY <1>6, <2>1, <2>2, <2>3 DEF LogicalEnd, Pop, TypeOK
  <1>7. ASSUME IfExprBegin \/ IfBegin \/ BlockBegin \/ SwitchBegin PROVE TypeOK'
    <2>1. stack' \in Seq(Frame)
      BY <1>7, <1>e, <1>k, <1>n DEF IfExprBegin, IfBegin, BlockBegin, SwitchBegin, Push
    <2>2. pend' \in Pend
      BY <1>7, PendTypes DEF IfExprBegin, IfBegin, BlockBegin, SwitchBegin, EnterBlock, NewFrame, TypeOK, ghost
    <2> QED
      BY <1>7, <2>1, <2>2
      DEF IfExprBegin, IfBegin, BlockBegin, SwitchBegin, EnterBlock, NewFrame, TypeOK, ghost
  <1>8. ASSUME IfExprElse \/ IfElse PROVE TypeOK'
    <2>1. /\ Top \in Frame /\ Top.in \in Flow /\ Top.gin \in Rel /\ Top.active \subseteq Resources
          /\ Top.pend \in Pend
      BY <1>8, <1>u DEF IfExprElse, IfElse, At, Frame
    <2>2. \A P \in Rel, k \in Kinds :
            [Top EXCEPT !.kind = k, !.alt = [has |-> TRUE, flow |-> flow], !.galt = P] \in Frame
      BY <2>1 DEF Frame, Acc, TypeOK
    <2>3. stack' \in Seq(Frame)
      BY <1>8, <2>2, <1>r, <1>e, <1>k DEF IfExprElse, IfElse, Retop, At, TypeOK
    <2>4. pend' \in Pend
      BY <1>8, <2>1, PendTypes DEF IfExprElse, IfElse, EnterBlock, TypeOK
    <2> QED
      BY <1>8, <2>1, <2>3, <2>4, <1>e DEF IfExprElse, IfElse, EnterBlock, TypeOK
  <1>9. ASSUME IfExprEnd \/ IfEnd PROVE TypeOK'
    <2>1. /\ Top.alt.flow \in Flow /\ Top.galt \in Rel /\ Top.active \subseteq Resources
          /\ Top.pend \in Pend /\ Under \in Seq(Frame)
      BY <1>9, <1>u DEF IfExprEnd, IfEnd, At, Frame, Acc
    <2>2. flow' \in Flow
      BY <1>9, <2>1, FlowTypes DEF IfExprEnd, IfEnd, TypeOK
    <2>3. path' \in Rel
      BY <1>9, <2>1, <1>e, RelTypes DEF IfExprEnd, IfEnd, TypeOK
    <2> QED
      BY <1>9, <2>1, <2>2, <2>3, <1>e DEF IfExprEnd, IfEnd, LeaveBlock, Pop, TypeOK
  <1>10. ASSUME BlockEnd PROVE TypeOK'
    <2>1. Top.active \subseteq Resources /\ Top.pend \in Pend /\ Under \in Seq(Frame)
      BY <1>10, <1>u DEF BlockEnd, At, Frame
    <2> QED
      BY <1>10, <2>1, <1>e DEF BlockEnd, LeaveBlock, Pop, TypeOK
  <1>11. ASSUME CaseBegin PROVE TypeOK'
    <2>1. Top \in Frame /\ Top.active \subseteq Resources /\ Top.pend \in Pend
      BY <1>11, <1>u DEF CaseBegin, At, Frame
    <2>2. [Top EXCEPT !.kind = "case"] \in Frame
      BY <2>1, <1>k DEF Frame
    <2>3. pend' \in Pend
      BY <1>11, <2>1, PendTypes DEF CaseBegin, EnterBlock
    <2> QED
      BY <1>11, <2>1, <2>2, <2>3, <1>r DEF CaseBegin, At, Retop, EnterBlock, TypeOK
  <1>12. ASSUME CaseEnd PROVE TypeOK'
    <2>1. /\ Top \in Frame /\ Top.active \subseteq Resources /\ Top.pend \in Pend
          /\ Top.in \in Flow /\ Top.gin \in Rel /\ Top.alt \in Acc /\ Top.galt \in Rel
      BY <1>12, <1>u DEF CaseEnd, At, Frame
    <2>2. CaseFlow(Top.alt, flow) \in Acc
      BY <2>1, FlowTypes DEF TypeOK
    <2>3. Join(Top.galt, EndPath) \in Rel
      BY <2>1, <1>e, RelTypes
    <2>4. [Top EXCEPT !.kind = "switch", !.alt = CaseFlow(Top.alt, flow),
                      !.galt = Join(Top.galt, EndPath)] \in Frame
      BY <2>1, <2>2, <2>3, <1>k DEF Frame
    <2> QED
      BY <1>12, <2>1, <2>4, <1>r, <1>e DEF CaseEnd, At, Retop, LeaveBlock, TypeOK
  <1>13. ASSUME NEW e \in BOOLEAN, SwitchEnd(e) PROVE TypeOK'
    <2>1. Top \in Frame /\ Top.gin \in Rel /\ Top.galt \in Rel /\ Under \in Seq(Frame)
      BY <1>13, <1>u DEF SwitchEnd, At, Frame
    <2>2. flow' \in Flow
      BY <1>13, <2>1, FlowTypes DEF SwitchEnd
    <2>3. path' \in Rel
      BY <1>13, <2>1, RelTypes DEF SwitchEnd
    <2> QED
      BY <1>13, <2>1, <2>2, <2>3 DEF SwitchEnd, Pop, TypeOK
  <1>14. ASSUME NEW always \in BOOLEAN, LoopBegin(always) PROVE TypeOK'
    <2> DEFINE k == IF always THEN "body" ELSE "cond"
               a == [has |-> TRUE, flow |-> flow]
    <2>1. k \in Kinds /\ a \in Acc
      BY <1>k DEF TypeOK, Acc
    <2>2. NewFrame(k) \in Frame
      BY <2>1, <1>e
    <2>3. [NewFrame(k) EXCEPT !.always = always, !.alt = a, !.galt = Identity] \in Frame
      BY <2>1, <2>2, RelTypes DEF Frame
    <2>4. stack' \in Seq(Frame)
      BY <1>14, <2>3, <1>n DEF LoopBegin, Push
    <2>5. loop' \in Loop
      BY <1>14, FlowTypes DEF LoopBegin, TypeOK
    <2>6. pend' \in Pend
      BY <1>14, PendTypes DEF LoopBegin, TypeOK
    <2> QED
      BY <1>14, <2>4, <2>5, <2>6, RelTypes DEF LoopBegin, TypeOK
  <1>15. ASSUME LoopBody PROVE TypeOK'
    <2>1. Top \in Frame /\ Top.alt \in Acc
      BY <1>15, <1>u DEF LoopBody, At, Frame
    <2>2. [Top EXCEPT !.kind = "body", !.alt.flow = flow, !.galt = path] \in Frame
      BY <2>1, <1>k DEF Frame, Acc, TypeOK
    <2>3. pend' \in Pend
      BY <1>15, PendTypes DEF LoopBody, TypeOK
    <2> QED
      BY <1>15, <2>2, <2>3, <1>r DEF LoopBody, At, Retop, TypeOK
  <1>16. ASSUME LoopPost PROVE TypeOK'
    <2>1. Top \in Frame /\ Top.active \subseteq Resources /\ Top.pend \in Pend
      BY <1>16, <1>u DEF LoopPost, At, Frame
    <2>2. [Top EXCEPT !.kind = "post"] \in Frame
      BY <2>1, <1>k DEF Frame
    <2>3. flow' \in Flow
      BY <1>16, FlowTypes DEF LoopPost, TypeOK
    <2>4. loop.gcont \in Rel
      BY DEF TypeOK, Loop
    <2>5. path' \in Rel
      BY <1>16, <2>4, <1>e, RelTypes DEF LoopPost
    <2> QED
      BY <1>16, <2>1, <2>2, <2>3, <2>5, <1>r, <1>e DEF LoopPost, At, Retop, LeaveBlock, TypeOK
  <1>17. ASSUME LoopEnd PROVE TypeOK'
    <2>1. CASE Reject
      BY <2>1, <1>rej
    <2>2. CASE ~Reject
      <3> DEFINE atHead == Then(Top.gin, Star(path))
      <3>1. /\ Top.in \in Flow /\ Top.gin \in Rel /\ Top.alt.flow \in Flow /\ Top.always \in BOOLEAN
            /\ Top.galt \in Rel /\ Top.bad \in Uses /\ Top.head \in Flow /\ Top.loop \in Loop
            /\ Under \in Seq(Frame)
        BY <1>17, <1>u DEF LoopEnd, At, Frame, Acc
      <3>2. atHead \in Rel /\ loop.gbrk \in Rel
        BY <3>1, RelTypes DEF TypeOK, Loop
      <3>3. flow' \in Flow
        BY <1>17, <2>2, <3>1, FlowTypes DEF LoopEnd, TypeOK
      <3>4. path' \in Rel
        <4>1. Then(atHead, Top.galt) \in Rel /\ Then(atHead, loop.gbrk) \in Rel
          BY <3>1, <3>2, RelTypes
        <4> QED
          BY <1>17, <2>2, <4>1, RelTypes DEF LoopEnd
      <3>5. bad' \in Uses
        <4>1. Before(atHead, bad) \in Uses
          BY <3>2, RelTypes DEF TypeOK
        <4> QED
          BY <1>17, <2>2, <3>1, <4>1, RelTypes DEF LoopEnd
      <3> QED
        BY <1>17, <2>2, <3>1, <3>3, <3>4, <3>5 DEF LoopEnd, Pop, TypeOK
    <2> QED
      BY <2>1, <2>2
  <1>18. ASSUME Break \/ Continue PROVE TypeOK'
    <2>1. RunPath(path, pend.loop) \in Rel /\ RunBad(path, bad, pend.loop) \in Uses
      BY <1>p, PendTypes DEF TypeOK
    <2>2. Accumulate(loop.brk, flow) \in Acc /\ Accumulate(loop.cont, flow) \in Acc
      BY FlowTypes DEF TypeOK, Loop
    <2>3. /\ Join(loop.gbrk, RunPath(path, pend.loop)) \in Rel
          /\ Join(loop.gcont, RunPath(path, pend.loop)) \in Rel
      BY <2>1, RelTypes DEF TypeOK, Loop
    <2>4. loop' \in Loop
      BY <1>18, <2>2, <2>3 DEF Break, Continue, TypeOK, Loop
    <2>5. flow' \in Flow /\ path' \in Rel
      BY <1>18, FlowTypes, RelTypes DEF Break, Continue, TypeOK
    <2> QED
      BY <1>18, <2>1, <2>4, <2>5 DEF Break, Continue, TypeOK
  <1>19. ASSUME ReturnBegin PROVE TypeOK'
    <2>1. stack' \in Seq(Frame)
      BY <1>19, <1>e, <1>k, <1>n DEF ReturnBegin, Push
    <2>2. flow' \in Flow
      BY <1>19, FlowTypes DEF ReturnBegin, TypeOK
    <2> QED
      BY <1>19, <2>1, <2>2 DEF ReturnBegin, TypeOK, ghost
  <1>20. ASSUME ReturnEnd PROVE TypeOK'
    <2>1. Under \in Seq(Frame)
      BY <1>20, <1>u DEF ReturnEnd, At
    <2>2. bad' \in Uses /\ path' \in Rel
      BY <1>20, <1>p, PendTypes, RelTypes DEF ReturnEnd, TypeOK
    <2> QED
      BY <1>20, <2>1, <2>2 DEF ReturnEnd, Pop, TypeOK
  <1>21. ASSUME DeferBegin PROVE TypeOK'
    <2>1. stack' \in Seq(Frame)
      BY <1>21, <1>e, <1>k, <1>n DEF DeferBegin, Push
    <2>2. loop' \in Loop
      BY <1>21, FlowTypes DEF DeferBegin, TypeOK
    <2> QED
      BY <1>21, <2>1, <2>2, RelTypes DEF DeferBegin, TypeOK
  <1>22. ASSUME DeferEnd PROVE TypeOK'
    <2> DEFINE new == [rel |-> path, bad |-> bad]
    <2>1. new \in Deferred
      BY DEF TypeOK, Deferred
    <2>2. \A k \in {"block", "loop", "all"} : Remember(pend[k], new) \in Deferred
      BY <2>1, <1>p, PendTypes
    <2>3. pend' \in Pend
      BY <1>22, <2>2 DEF DeferEnd, Pend
    <2>4. /\ Top.active \subseteq Resources /\ Top.in \in Flow /\ Top.loop \in Loop /\ Top.head \in Flow
          /\ Top.gin \in Rel /\ Top.bad \in Uses /\ Under \in Seq(Frame)
      BY <1>22, <1>u DEF DeferEnd, At, Frame
    <2> QED
      BY <1>22, <2>3, <2>4 DEF DeferEnd, ActivateCaptured, Pop, TypeOK
  <1>23. ASSUME FunctionEnd PROVE TypeOK'
    BY <1>23, <1>rej, <1>e DEF FunctionEnd, TypeOK
  <1>24. ASSUME UnreachableStatement PROVE TypeOK'
    BY <1>24, <1>rej DEF UnreachableStatement
  <1>25. ASSUME Done \/ UNCHANGED vars PROVE TypeOK'
    BY <1>25 DEF Done, vars, TypeOK
  <1> QED
    BY <1>1, <1>2, <1>3, <1>4, <1>5, <1>6, <1>7, <1>8, <1>9, <1>10, <1>11, <1>12, <1>13, <1>14,
       <1>15, <1>16, <1>17, <1>18, <1>19, <1>20, <1>21, <1>22, <1>23, <1>24, <1>25 DEF Next

\* The type invariant of the walk.
THEOREM TypeCorrect == Spec => []TypeOK
  BY TypeInit, TypeStep, PTL DEF Spec

-----------------------------------------------------------------------------
(* What the operators preserve. *)

LEMMA GammaSubset ==
  ASSUME NEW F \in Flow, NEW v \in Vars
  PROVE  Gamma(v, F.init[v]) \subseteq States /\ F.init[v] \subseteq Gamma(v, F.init[v])
  BY DEF Gamma, Flow, Entries

LEMMA KeepsTrans ==
  ASSUME NEW F, NEW G, NEW H, NEW A, NEW B, A \subseteq B, Keeps(A, F, G), Keeps(B, G, H)
  PROVE  Keeps(A, F, H)
  BY DEF Keeps

LEMMA KeepsGamma ==
  ASSUME NEW F \in Flow, NEW G \in Flow, NEW A, Keeps(A, F, G), NEW v \in Vars \ Resources
  PROVE  Gamma(v, G.init[v]) \subseteq Gamma(v, F.init[v])
  BY DEF Keeps, Gamma, Flow, Entries

LEMMA ThenSound ==
  ASSUME NEW H \in Flow, NEW F \in Flow, NEW G \in Flow, NEW P \in Rel, NEW Q \in Rel,
         Sound(H, P, F), Sound(F, Q, G)
  PROVE  Sound(H, Then(P, Q), G)
  <1> SUFFICES ASSUME NEW v \in Vars, NEW s \in Gamma(v, H.init[v]), NEW u \in Then(P, Q)[v][s]
               PROVE  u \in Gamma(v, G.init[v])
    BY DEF Sound
  <1>1. s \in States
    BY GammaSubset
  <1>2. PICK t \in P[v][s] : u \in Q[v][t]
    BY <1>1 DEF Then
  <1> QED
    BY <1>2 DEF Sound

LEMMA BeforeSafe ==
  ASSUME NEW H \in Flow, NEW F \in Flow, NEW P \in Rel, NEW D \in Uses, NEW E \in Uses,
         Sound(H, P, F), Safe(F, D), Safe(H, E)
  PROVE  Safe(H, UseOr(E, Before(P, D)))
  BY GammaSubset DEF Sound, Safe, UseOr, Before

LEMMA JoinMerge ==
  ASSUME NEW H \in Flow, NEW F \in Flow, NEW G \in Flow, NEW P \in Rel, NEW Q \in Rel,
         Sound(H, P, F), Sound(H, Q, G), DeadOK(P, F), DeadOK(Q, G)
  PROVE  Sound(H, Join(P, Q), Merge(F, G)) /\ DeadOK(Join(P, Q), Merge(F, G))
  <1>1. DeadOK(Join(P, Q), Merge(F, G))
    BY DEF DeadOK, Dead, Join, Merge, Flow, Entries
  <1>2. ASSUME NEW v \in Vars, NEW s \in Gamma(v, H.init[v])
        PROVE  Join(P, Q)[v][s] \subseteq Gamma(v, Merge(F, G).init[v])
    <2>1. s \in States
      BY GammaSubset
    <2>2. Join(P, Q)[v][s] = P[v][s] \cup Q[v][s]
      BY <2>1 DEF Join
    <2>3. P[v][s] \subseteq Gamma(v, F.init[v]) /\ Q[v][s] \subseteq Gamma(v, G.init[v])
      BY DEF Sound
    <2>4. CASE F.reachable /\ G.reachable
      <3>1. Merge(F, G).init[v] = F.init[v] \cup G.init[v]
        BY <2>4 DEF Merge, Flow, Entries
      <3>2. F.init[v] \in Entries /\ G.init[v] \in Entries
        BY DEF Flow, Entries
      <3> QED
        BY <2>2, <2>3, <3>1, <3>2 DEF Gamma, States, Entries
    <2>5. CASE ~F.reachable
      BY <2>1, <2>2, <2>3, <2>5 DEF DeadOK, Dead, Merge, Flow, Entries
    <2>6. CASE ~G.reachable
      BY <2>1, <2>2, <2>3, <2>6 DEF DeadOK, Dead, Merge, Flow, Entries
    <2> QED
      BY <2>4, <2>5, <2>6
  <1> QED
    BY <1>1, <1>2 DEF Sound

LEMMA MergeKeeps ==
  ASSUME NEW A, NEW E, NEW F \in Flow, NEW G \in Flow, Keeps(A, E, F), Keeps(A, E, G)
  PROVE  Keeps(A, E, Merge(F, G))
  BY DEF Keeps, Merge, Flow, Entries

LEMMA MergeStays ==
  ASSUME NEW E, NEW F \in Flow, NEW G \in Flow, StaysUninitialized(E, F), StaysUninitialized(E, G)
  PROVE  StaysUninitialized(E, Merge(F, G))
  BY DEF StaysUninitialized, Merge, Flow, Entries

LEMMA IdentityOK ==
  ASSUME NEW F \in Flow, NEW A
  PROVE  /\ Sound(F, Identity, F) /\ Safe(F, NoUse) /\ Keeps(A, F, F) /\ Dead(NoPath)
         /\ Sound(F, NoPath, F) /\ StaysUninitialized(F, F)
  BY GammaSubset DEF Sound, Safe, Keeps, Dead, Identity, NoUse, NoPath, StaysUninitialized

LEMMA DeadSound ==
  ASSUME NEW H \in Flow, NEW F, NEW P \in Rel, Dead(P)
  PROVE  Sound(H, P, F)
  BY GammaSubset DEF Sound, Dead

LEMMA DeadThen ==
  ASSUME NEW P \in Rel, NEW Q \in Rel
  PROVE  /\ Dead(P) => Dead(Then(P, Q))
         /\ Dead(Q) => Dead(Then(P, Q))
         /\ Dead(P) /\ Dead(Q) => Dead(Join(P, Q))
  BY DEF Dead, Then, Join, Rel

LEMMA RunOK ==
  ASSUME NEW H \in Flow, NEW F \in Flow, NEW P \in Rel, NEW D \in Uses, NEW d \in Deferred, NEW A,
         Sound(H, P, F), Safe(H, D), DeferOK(d, A, F)
  PROVE  /\ Sound(H, RunPath(P, d), F)
         /\ Safe(H, RunBad(P, D, d))
         /\ DeadOK(P, F) => DeadOK(RunPath(P, d), F)
  <1>1. d.rel \in Rel /\ d.bad \in Uses
    BY DEF Deferred
  <1>2. Sound(F, d.rel, F)
    BY <1>1 DEF Sound, DeferOK, Gamma, Flow, Entries, Rel, States
  <1>3. Safe(F, d.bad)
    BY <1>1 DEF Safe, DeferOK, Gamma, Flow, Entries, Uses, States, U, I
  <1>4. Sound(H, RunPath(P, d), F)
    BY <1>1, <1>2, ThenSound DEF RunPath
  <1>5. Safe(H, RunBad(P, D, d))
    BY <1>1, <1>3, BeforeSafe DEF RunBad
  <1>6. DeadOK(P, F) => DeadOK(RunPath(P, d), F)
    BY <1>1, DeadThen DEF DeadOK, RunPath
  <1> QED
    BY <1>4, <1>5, <1>6

LEMMA DeferKeeps ==
  ASSUME NEW d, NEW A, NEW B, NEW F, NEW G, A \subseteq B, Keeps(A, F, G), DeferOK(d, A, F)
  PROVE  DeferOK(d, B, G)
  BY DEF DeferOK, Keeps

LEMMA PendKeeps ==
  ASSUME NEW p, NEW A, NEW B, NEW F, NEW G, A \subseteq B, Keeps(A, F, G), PendOK(p, A, F)
  PROVE  PendOK(p, B, G)
  BY DeferKeeps DEF PendOK

LEMMA OpenOK ==
  ASSUME NEW p \in Pend, NEW A, NEW F, PendOK(p, A, F)
  PROVE  PendOK(OpenBlock(p), A, F) /\ PendOK(OpenLoopBody(p), A, F)
  <1>1. DeferOK(NoDefer, A, F)
    BY DEF DeferOK, NoDefer, Identity, NoUse, States, U, I
  <1> QED
    BY <1>1 DEF PendOK, OpenBlock, OpenLoopBody, Pend

\* A deferred statement that keeps resources where they are, after d.
LEMMA RememberOK ==
  ASSUME NEW d \in Deferred, NEW new \in Deferred, NEW A, NEW B, NEW F,
         DeferOK(d, A, F), DeferOK(new, A \cup B, F)
  PROVE  DeferOK(Remember(d, new), A \cup B, F)
  <1>1. \A v \in Vars : new.rel[v] \in [States -> SUBSET States] /\ d.rel[v] \in [States -> SUBSET States]
    BY DEF Deferred, Rel
  <1> SUFFICES ASSUME NEW v \in Vars
               PROVE  /\ I \notin Remember(d, new).bad[v]
                      /\ U \in Remember(d, new).bad[v] =>
                           F.init[v] = {I} /\ (v \in Resources => v \in A \cup B)
                      /\ U \notin Remember(d, new).rel[v][I]
                      /\ v \in Resources => I \notin Remember(d, new).rel[v][U]
    BY DEF DeferOK
  <1>2. \A s \in States : Remember(d, new).rel[v][s] = UNION {d.rel[v][t] : t \in new.rel[v][s]}
    BY DEF Remember, Then
  <1>3. Remember(d, new).bad[v] = new.bad[v] \cup {s \in States : new.rel[v][s] \cap d.bad[v] # {}}
    BY DEF Remember, UseOr, Before
  <1>4. /\ I \notin d.bad[v] /\ U \notin d.rel[v][I]
        /\ U \in d.bad[v] => F.init[v] = {I} /\ (v \in Resources => v \in A)
        /\ v \in Resources => I \notin d.rel[v][U]
    BY DEF DeferOK
  <1>5. /\ I \notin new.bad[v] /\ U \notin new.rel[v][I]
        /\ U \in new.bad[v] => F.init[v] = {I} /\ (v \in Resources => v \in A \cup B)
        /\ v \in Resources => I \notin new.rel[v][U]
    BY DEF DeferOK
  <1>6. new.rel[v][I] \subseteq {I} /\ (v \in Resources => new.rel[v][U] \subseteq {U})
    BY <1>1, <1>5 DEF States
  <1>7. I \notin Remember(d, new).bad[v]
    BY <1>3, <1>4, <1>5, <1>6
  <1>8. U \in Remember(d, new).bad[v] => F.init[v] = {I} /\ (v \in Resources => v \in A \cup B)
    BY <1>1, <1>3, <1>4, <1>5 DEF States
  <1>9. U \notin Remember(d, new).rel[v][I]
    BY <1>2, <1>4, <1>6 DEF States
  <1>10. v \in Resources => I \notin Remember(d, new).rel[v][U]
    BY <1>2, <1>4, <1>6 DEF States
  <1> QED
    BY <1>7, <1>8, <1>9, <1>10

\* A use of an initialised variable is safe, and an assignment or a move puts
\* every path in the state the analyser records.
LEMMA UseOK ==
  ASSUME NEW H \in Flow, NEW F \in Flow, NEW P \in Rel, NEW D \in Uses, NEW v \in Vars, NEW t \in States,
         Sound(H, P, F), Safe(H, D), t \notin Gamma(v, F.init[v])
  PROVE  Safe(H, UseOn(P, D, v, t))
  BY GammaSubset DEF Sound, Safe, UseOn, Uses

LEMMA SetOK ==
  ASSUME NEW H \in Flow, NEW F \in Flow, NEW P \in Rel, NEW v \in Vars, Sound(H, P, F)
  PROVE  /\ Sound(H, SetOn(P, v, I), MarkInitialized(F, v))
         /\ v \in Resources => Sound(H, SetOn(P, v, U), MarkUninitialized(F, v))
         /\ DeadOK(P, F) => DeadOK(SetOn(P, v, I), MarkInitialized(F, v))
         /\ DeadOK(P, F) => DeadOK(SetOn(P, v, U), MarkUninitialized(F, v))
  <1>1. \A w \in Vars, s \in States, t \in States :
          SetOn(P, v, t)[w][s] = IF w = v THEN IF P[w][s] = {} THEN {} ELSE {t} ELSE P[w][s]
    BY DEF SetOn, Rel
  <1>2. \A w \in Vars : /\ MarkInitialized(F, v).init[w] = IF w = v THEN {I} ELSE F.init[w]
                        /\ MarkUninitialized(F, v).init[w] = IF w = v THEN {U} ELSE F.init[w]
    BY DEF MarkInitialized, MarkUninitialized, Flow
  <1>3. MarkInitialized(F, v).reachable = F.reachable /\ MarkUninitialized(F, v).reachable = F.reachable
    BY DEF MarkInitialized, MarkUninitialized, Flow
  <1>4. U \in States /\ I \in States
    BY DEF States
  <1>5. ASSUME NEW w \in Vars, NEW s \in Gamma(w, H.init[w])
        PROVE  /\ SetOn(P, v, I)[w][s] \subseteq Gamma(w, MarkInitialized(F, v).init[w])
               /\ v \in Resources => SetOn(P, v, U)[w][s] \subseteq Gamma(w, MarkUninitialized(F, v).init[w])
    <2>1. s \in States /\ P[w][s] \subseteq Gamma(w, F.init[w])
      BY GammaSubset DEF Sound
    <2>2. CASE w # v
      BY <1>1, <1>2, <1>4, <2>1, <2>2
    <2>3. CASE w = v
      <3>1. SetOn(P, v, I)[w][s] \subseteq {I} /\ SetOn(P, v, U)[w][s] \subseteq {U}
        <4>1. \A t \in States : SetOn(P, v, t)[w][s] = IF P[w][s] = {} THEN {} ELSE {t}
          BY <1>1, <2>1, <2>3
        <4> QED
          BY <1>4, <4>1
      <3>2. MarkInitialized(F, v).init[w] = {I} /\ MarkUninitialized(F, v).init[w] = {U}
        BY <1>2, <2>3
      <3> QED
        BY <2>3, <3>1, <3>2 DEF Gamma
    <2> QED
      BY <2>2, <2>3
  <1>6. DeadOK(P, F) => DeadOK(SetOn(P, v, I), MarkInitialized(F, v))
    <2>1. Dead(P) => Dead(SetOn(P, v, I))
      BY DEF Dead, SetOn, Rel
    <2> QED
      BY <2>1, <1>3 DEF DeadOK
  <1>7. DeadOK(P, F) => DeadOK(SetOn(P, v, U), MarkUninitialized(F, v))
    <2>1. Dead(P) => Dead(SetOn(P, v, U))
      BY DEF Dead, SetOn, Rel
    <2> QED
      BY <2>1, <1>3 DEF DeadOK
  <1> QED
    BY <1>5, <1>6, <1>7 DEF Sound


LEMMA MarkKeeps ==
  ASSUME NEW F \in Flow, NEW v \in Vars, NEW A
  PROVE  /\ Keeps(A, F, MarkInitialized(F, v))
         /\ v \in Resources \ A => Keeps(A, F, MarkUninitialized(F, v))
         /\ StaysUninitialized(F, MarkUninitialized(F, v))
         /\ Keeps(A, F, Unreachable(F)) /\ StaysUninitialized(F, Unreachable(F))
  BY DEF Keeps, StaysUninitialized, MarkInitialized, MarkUninitialized, Unreachable, Flow

LEMMA PointStep ==
  ASSUME NEW h, NEW P, NEW D, NEW F, NEW A, NEW p, NEW B, PointOK(h, P, D, F, A, p, B),
         NEW Q, NEW E, NEW G, Keeps(A, F, G), Sound(h, Q, G), Safe(h, E)
  PROVE  PointOK(h, Q, E, G, A, p, B)
  <1>1. PendOK(p, A, G)
    BY PendKeeps DEF PointOK
  <1>2. Keeps(B, h, G)
    BY KeepsTrans DEF PointOK
  <1> QED
    BY <1>1, <1>2 DEF PointOK

-----------------------------------------------------------------------------
(* The stack. *)

LEMMA FrontSeq ==
  ASSUME NEW S, NEW s \in Seq(S), NEW n \in 0..Len(s)
  PROVE  Len(SubSeq(s, 1, n)) = n /\ \A i \in 1..n : SubSeq(s, 1, n)[i] = s[i]
  OBVIOUS

LEMMA LinkStep ==
  ASSUME NEW f, NEW h, NEW F, NEW A, NEW p, NEW B, Link(f, h, F, A, p, B),
         NEW G, Keeps(A, F, G),
         f.kind \in ExprKinds \cup {"assign"} => StaysUninitialized(F, G)
  PROVE  Link(f, h, G, A, p, B)
  <1>1. Keeps(f.active, f.in, G)
    BY KeepsTrans DEF Link
  <1>2. f.kind \in ExprKinds => StaysUninitialized(f.in, G)
    BY DEF Link, StaysUninitialized
  <1>3. f.kind = "assign" /\ f.target \in Resources => G.init[f.target] = {U}
    BY ConstantsAssumption DEF Link, StaysUninitialized
  <1> QED
    BY <1>1, <1>2, <1>3 DEF Link

LEMMA StackPush ==
  ASSUME NEW st \in Seq(Frame), NEW f \in Frame,
         NEW h, NEW F, NEW A, NEW p, NEW B, StackOK(st, h, F, A, p, B),
         f.head = h, f.in = F, f.active = A, f.pend = p, f.loop.base = B, FrameOK(f),
         Len(st) > 0 => Shape(st[Len(st)], f),
         \A i \in 1..Len(st) : st[i].kind = "defer" => i = Len(st) /\ f.kind = "assign",
         NEW h2, NEW F2, NEW A2, NEW p2, NEW B2, Link(f, h2, F2, A2, p2, B2)
  PROVE  StackOK(Append(st, f), h2, F2, A2, p2, B2)
  <1> DEFINE new == Append(st, f)
  <1>1. /\ Len(st) \in Nat /\ Len(new) = Len(st) + 1 /\ new[Len(st) + 1] = f
        /\ \A i \in 1..Len(st) : new[i] = st[i]
    OBVIOUS
  <1> HIDE DEF new
  <1>2. \A i \in 1..Len(new) : FrameOK(new[i])
    BY <1>1 DEF StackOK
  <1>3. ASSUME NEW i \in 1..(Len(new) - 1)
        PROVE  /\ Link(new[i], new[i+1].head, new[i+1].in, new[i+1].active, new[i+1].pend, new[i+1].loop.base)
               /\ Shape(new[i], new[i+1])
    <2>1. CASE i = Len(st)
      BY <2>1, <1>1 DEF StackOK
    <2>2. CASE i < Len(st)
      <3>1. i \in 1..(Len(st) - 1) /\ new[i] = st[i] /\ new[i+1] = st[i+1]
        BY <2>2, <1>1
      <3> QED
        BY <3>1 DEF StackOK
    <2> QED
      BY <2>1, <2>2, <1>1
  <1>4. \A i \in 1..Len(new) : new[i].kind = "defer" =>
          i = Len(new) \/ (i = Len(new) - 1 /\ new[Len(new)].kind = "assign")
    BY <1>1
  <1> QED
    BY <1>1, <1>2, <1>3, <1>4 DEF StackOK, new

LEMMA StackPop ==
  ASSUME NEW st \in Seq(Frame), Len(st) > 0,
         NEW h, NEW F, NEW A, NEW p, NEW B, StackOK(st, h, F, A, p, B),
         NEW f, f = st[Len(st)],
         NEW G, Keeps(f.active, f.in, G),
         f.kind \in ExprKinds => StaysUninitialized(f.in, G)
  PROVE  LET under == SubSeq(st, 1, Len(st) - 1)
         IN  /\ StackOK(under, f.head, G, f.active, f.pend, f.loop.base)
             /\ Len(under) > 0 => Shape(under[Len(under)], f)
             /\ \A i \in 1..Len(under) : under[i].kind = "defer" => i = Len(under) /\ f.kind = "assign"
  <1> DEFINE new == SubSeq(st, 1, Len(st) - 1)
  <1>1. /\ Len(st) \in Nat /\ Len(new) = Len(st) - 1
        /\ \A i \in 1..Len(new) : new[i] = st[i]
    <2>1. Len(st) \in Nat /\ Len(st) - 1 \in 0..Len(st)
      OBVIOUS
    <2> QED
      BY <2>1, FrontSeq
  <1> HIDE DEF new
  <1>2. \A i \in 1..Len(new) : FrameOK(new[i])
    BY <1>1 DEF StackOK
  <1>3. \A i \in 1..(Len(new) - 1) :
          /\ Link(new[i], new[i+1].head, new[i+1].in, new[i+1].active, new[i+1].pend, new[i+1].loop.base)
          /\ Shape(new[i], new[i+1])
    <2> TAKE i \in 1..(Len(new) - 1)
    <2>1. i \in 1..(Len(st) - 1) /\ new[i] = st[i] /\ new[i+1] = st[i+1]
      BY <1>1
    <2> QED
      BY <2>1 DEF StackOK
  <1>4. ASSUME Len(new) > 0
        PROVE  /\ Shape(new[Len(new)], f)
               /\ Link(new[Len(new)], f.head, G, f.active, f.pend, f.loop.base)
    <2> DEFINE g == new[Len(new)]
    <2>1. /\ g = st[Len(st) - 1] /\ f = st[(Len(st) - 1) + 1]
          /\ Len(st) - 1 \in 1..(Len(st) - 1)
      BY <1>1, <1>4
    <2>2. Shape(g, f) /\ Link(g, f.head, f.in, f.active, f.pend, f.loop.base)
      BY <2>1 DEF StackOK
    <2>3. g.kind \in ExprKinds \cup {"assign"} => StaysUninitialized(f.in, G)
      BY <2>2 DEF Shape
    <2> QED
      BY <2>2, <2>3, LinkStep
  <1>5. \A i \in 1..Len(new) : new[i].kind = "defer" => i = Len(new) /\ f.kind = "assign"
    <2>1. \A i \in 1..Len(st) : st[i].kind = "defer" => i = Len(st) \/ (i = Len(st) - 1 /\ st[Len(st)].kind = "assign")
      BY DEF StackOK
    <2> QED
      BY <1>1, <2>1
  <1>6. \A i \in 1..Len(new) : new[i].kind = "defer" => i = Len(new)
    BY <1>5
  <1>7. StackOK(new, f.head, G, f.active, f.pend, f.loop.base)
    BY <1>2, <1>3, <1>4, <1>6 DEF StackOK
  <1> QED
    BY <1>4, <1>5, <1>7 DEF new

LEMMA StackStep ==
  ASSUME NEW st \in Seq(Frame), NEW h, NEW F, NEW A, NEW p, NEW B, StackOK(st, h, F, A, p, B),
         NEW G, Keeps(A, F, G),
         Len(st) > 0 /\ st[Len(st)].kind \in ExprKinds \cup {"assign"} => StaysUninitialized(F, G)
  PROVE  StackOK(st, h, G, A, p, B)
  <1>1. Len(st) > 0 => Link(st[Len(st)], h, G, A, p, B)
    BY LinkStep DEF StackOK
  <1> QED
    BY <1>1 DEF StackOK

\* Registering a defer.
LEMMA StackGrow ==
  ASSUME NEW st \in Seq(Frame), NEW h, NEW F, NEW A, NEW p, NEW B, StackOK(st, h, F, A, p, B),
         NEW A2, NEW p2, A \subseteq A2, Len(st) > 0 => st[Len(st)].kind \notin QuietKinds
  PROVE  StackOK(st, h, F, A2, p2, B)
  <1>1. Len(st) > 0 => Link(st[Len(st)], h, F, A2, p2, B)
    BY DEF StackOK, Link
  <1> QED
    BY <1>1 DEF StackOK

\* The frame of a construct that goes on with its next part.
LEMMA StackRetop ==
  ASSUME NEW st \in Seq(Frame), Len(st) > 0,
         NEW h, NEW F, NEW A, NEW p, NEW B, StackOK(st, h, F, A, p, B),
         NEW f \in Frame, f = st[Len(st)], NEW f2 \in Frame,
         f2.head = f.head, f2.in = f.in, f2.active = f.active, f2.pend = f.pend,
         f2.loop.base = f.loop.base, FrameOK(f2),
         f.kind # "assign", f2.kind \in ExprKinds <=> f.kind \in ExprKinds, f2.kind # "assign",
         NEW h2, NEW F2, NEW A2, NEW p2, NEW B2, Link(f2, h2, F2, A2, p2, B2)
  PROVE  StackOK(Append(SubSeq(st, 1, Len(st) - 1), f2), h2, F2, A2, p2, B2)
  <1> DEFINE under == SubSeq(st, 1, Len(st) - 1)
  <1>1. under \in Seq(Frame)
    OBVIOUS
  <1>2. f.in \in Flow
    BY DEF Frame
  <1>3. Keeps(f.active, f.in, f.in) /\ StaysUninitialized(f.in, f.in)
    BY DEF Keeps, StaysUninitialized
  <1>4. /\ StackOK(under, f.head, f.in, f.active, f.pend, f.loop.base)
        /\ Len(under) > 0 => Shape(under[Len(under)], f)
        /\ \A i \in 1..Len(under) : under[i].kind = "defer" => i = Len(under) /\ f.kind = "assign"
    BY <1>3, StackPop
  <1>5. Len(under) > 0 => Shape(under[Len(under)], f2)
    BY <1>4 DEF Shape
  <1> QED
    BY <1>1, <1>4, <1>5, StackPush

-----------------------------------------------------------------------------
(* The steps of the walk, on programs that use neither construct below.     *)

Plain == ~Has("return_branch") /\ ~Has("defer_transfer")

LEMMA WalkFacts ==
  ASSUME TypeOK, WalkOK
  PROVE  /\ Len(stack) = 0 \/ Top.kind \notin {"defer", "assign"} => ~InDefer
         /\ Len(stack) > 0 => /\ Top \in Frame /\ FrameOK(Top)
                              /\ Link(Top, head, flow, active, pend, loop.base)
         /\ AtStatement => /\ ~InDefer /\ DeadOK(path, flow) /\ flow.reachable
                           /\ Len(stack) > 0 => Top.kind \notin QuietKinds
  <1>0. Len(stack) \in Nat /\ \A i \in 1..Len(stack) : stack[i] \in Frame
    BY DEF TypeOK
  <1>1. Len(stack) = 0 \/ Top.kind \notin {"defer", "assign"} => ~InDefer
    BY <1>0 DEF WalkOK, StackOK, InDefer, Top
  <1>2. Len(stack) > 0 => Top \in Frame /\ FrameOK(Top) /\ Link(Top, head, flow, active, pend, loop.base)
    BY <1>0 DEF WalkOK, StackOK, Top
  <1>3. ASSUME AtStatement
        PROVE  /\ ~InDefer /\ DeadOK(path, flow) /\ flow.reachable
               /\ Len(stack) > 0 => Top.kind \notin QuietKinds
    <2>1. Len(stack) = 0 \/ Top.kind \in {"block", "then", "else", "case", "body"}
      BY <1>3 DEF AtStatement, InBlock
    <2>2. Len(stack) > 0 => Top.kind \notin QuietKinds
      BY <1>0, <2>1 DEF QuietKinds, ExprKinds
    <2>3. ~At("return")
      BY <1>0, <2>1 DEF At
    <2> QED
      BY <1>1, <1>3, <2>1, <2>2, <2>3 DEF AtStatement, WalkOK
  <1> QED
    BY <1>1, <1>2, <1>3

LEMMA ReadStep ==
  ASSUME TypeOK, WalkOK, NEW v \in Vars, Read(v), Checking'
  PROVE  WalkOK'
  <1> USE DEF Read
  <1>0. status' = "checking" /\ IsInitialized(flow, v) /\ ~Reject
    BY DEF Checking, Reject
  <1>1. bad' = UseOn(path, bad, v, U) /\ Capture(v)
        /\ UNCHANGED <<status, flow, loop, active, stack, head, path, pend>>
    BY <1>0
  <1>2. U \notin Gamma(v, flow.init[v]) /\ U \in States /\ flow.init[v] = {I}
    BY <1>0 DEF IsInitialized, Gamma, States, U, I
  <1>3. Safe(head, bad')
    BY <1>1, <1>2, UseOK DEF TypeOK, WalkOK, PointOK
  <1>4. PointOK(head, path, bad', flow, active, pend, loop.base)
    BY <1>3 DEF WalkOK, PointOK
  <1>5. ASSUME InDefer PROVE DeferBody'
    <2>1. DeferBody
      BY <1>5 DEF WalkOK
    <2>2. captured' = IF v \in Resources THEN captured \cup {v} ELSE captured
      BY <1>1, <1>5 DEF Capture
    <2>3. \A w \in Vars : bad'[w] = IF w = v THEN bad[w] \cup {t \in States : U \in path[v][t]} ELSE bad[w]
      BY <1>1 DEF UseOn, TypeOK, Uses
    <2>4. ASSUME U \in path[v][U] PROVE head.init[v] = {I}
      <3>1. CASE v \in Resources
        BY <3>1, <2>1, <1>2 DEF DeferBody
      <3>2. CASE v \notin Resources /\ head.init[v] # {I}
        <4>1. U \in Gamma(v, head.init[v])
          BY <3>2, <1>2 DEF Gamma
        <4> QED
          BY <4>1, <2>4, <1>2 DEF WalkOK, PointOK, Sound
      <3> QED
        BY <3>1, <3>2
    <2> SUFFICES ASSUME NEW w \in Vars
                 PROVE  /\ I \notin bad'[w]
                        /\ U \in bad'[w] => head.init[w] = {I} /\ (w \in Resources => w \in captured')
                        /\ U \notin path[w][I]
                        /\ w \in Resources => I \notin path[w][U] /\ flow.init[w] = head.init[w]
      BY <1>1 DEF DeferBody
    <2> QED
      BY <2>1, <2>2, <2>3, <2>4 DEF DeferBody
  <1> QED
    BY <1>1, <1>4, <1>5 DEF WalkOK, InDefer, At, Top

LEMMA MoveStep ==
  ASSUME TypeOK, WalkOK, Plain, NEW v \in Vars, Move(v), Checking'
  PROVE  WalkOK'
  <1>0. status' = "checking" /\ IsInitialized(flow, v) /\ ~Reject /\ v \in Resources /\ v \notin active
    BY DEF Move, Checking, Reject
  <1>1. /\ flow' = MarkUninitialized(flow, v) /\ bad' = UseOn(path, bad, v, U) /\ path' = SetOn(path, v, U)
        /\ UNCHANGED <<status, loop, active, stack, head, pend>> /\ ~InDefer
    BY <1>0 DEF Move, Plain
  <1>2. U \notin Gamma(v, flow.init[v]) /\ U \in States /\ flow.init[v] = {I}
    BY <1>0 DEF IsInitialized, Gamma, States, U, I
  <1>3. Safe(head, bad')
    BY <1>1, <1>2, UseOK DEF TypeOK, WalkOK, PointOK
  <1>4. Sound(head, path', flow') /\ (DeadOK(path, flow) => DeadOK(path', flow'))
    BY <1>0, <1>1, SetOK DEF TypeOK, WalkOK, PointOK
  <1>5. Keeps(active, flow, flow') /\ StaysUninitialized(flow, flow')
    BY <1>0, <1>1, MarkKeeps DEF TypeOK
  <1>6. PointOK(head, path', bad', flow', active, pend, loop.base)
    BY <1>3, <1>4, <1>5, PointStep DEF WalkOK
  <1>7. StackOK(stack, head, flow', active, pend, loop.base)
    BY <1>5, StackStep DEF WalkOK, TypeOK
  <1> QED
    BY <1>1, <1>4, <1>6, <1>7 DEF WalkOK, InDefer, At, Top

LEMMA NewFrameOK ==
  ASSUME TypeOK, WalkOK, DeadOK(path, flow),
         NEW k \in Kinds \ {"cond", "body", "post", "else", "xelse", "assign"}
  PROVE  FrameOK(NewFrame(k))
  <1>1. Dead(NoPath)
    BY DEF Dead, NoPath
  <1> QED
    BY <1>1 DEF NewFrame, FrameOK, WalkOK

\* Entering a construct.
LEMMA PushStep ==
  ASSUME TypeOK, WalkOK,
         NEW f \in Frame, FrameOK(f), f.head = head, f.in = flow, f.active = active, f.pend = pend,
         f.loop.base = loop.base, Len(stack) > 0 => Shape(Top, f),
         InDefer => At("defer") /\ f.kind = "assign" /\ f.target \notin Resources /\ DeferBody',
         stack' = Append(stack, f), Link(f, head', flow', active', pend', loop'.base),
         PointOK(head', path', bad', flow', active', pend', loop'.base), LoopOK(loop', head'),
         f.kind # "return" => DeadOK(path', flow'), f.kind = "defer" => DeferBody'
  PROVE  WalkOK'
  <1>0. Len(stack) \in Nat /\ Len(stack') = Len(stack) + 1 /\ stack'[Len(stack')] = f
        /\ \A i \in 1..Len(stack) : stack'[i] = stack[i]
    BY DEF TypeOK
  <1>1. \A i \in 1..Len(stack) : stack[i].kind = "defer" => i = Len(stack) /\ f.kind = "assign"
    BY <1>0 DEF InDefer, WalkOK, StackOK, At, Top
  <1>2. StackOK(stack', head', flow', active', pend', loop'.base)
    BY <1>1, StackPush DEF TypeOK, WalkOK, Top
  <1>3. At("return")' <=> f.kind = "return"
    BY <1>0 DEF At, Top
  <1>4. InDefer' => InDefer \/ f.kind = "defer"
    BY <1>0 DEF InDefer
  <1>5. Top' = f
    BY <1>0 DEF Top
  <1> QED
    BY <1>2, <1>3, <1>4, <1>5 DEF WalkOK, At

LEMMA AssignBeginStep ==
  ASSUME TypeOK, WalkOK, Plain, NEW v \in Vars, AssignBegin(v), Checking'
  PROVE  WalkOK'
  <1> DEFINE f == [NewFrame("assign") EXCEPT !.target = v]
  <1>0. status' = "checking" /\ ~Reject
    BY DEF AssignBegin, Checking, Reject
  <1>1. /\ v \in Resources => flow.init[v] = {U}
        /\ stack' = Append(stack, f) /\ Capture(v)
        /\ UNCHANGED <<status, flow, loop, active, head, path, bad, pend>>
    BY <1>0 DEF AssignBegin, Push, ghost, IsDefinitelyUninitialized
  <1>2. AtStatement \/ (Len(stack) > 0 /\ Top.kind \in {"post", "defer"})
    BY DEF AssignBegin, AtAssignment
  <1>3. Len(stack) > 0 => Top.kind \notin ExprKinds \cup {"assign", "return"}
    BY <1>2, WalkFacts DEF ExprKinds, QuietKinds
  <1>4. DeadOK(path, flow)
    BY <1>3 DEF WalkOK, At
  <1>5. f \in Frame /\ f.kind = "assign" /\ f.head = head /\ f.in = flow /\ f.active = active /\ f.pend = pend
        /\ f.loop.base = loop.base /\ f.target = v /\ f.gin = path /\ f.bad = bad /\ ~f.alt.has /\ f.galt = NoPath
    <2>1. NewFrame("assign") \in Frame
      BY FrameTypes DEF Kinds
    <2> QED
      BY <2>1 DEF Frame, NewFrame
  <1> HIDE DEF f
  <1>6. FrameOK(f)
    <2>1. Dead(NoPath)
      BY DEF Dead, NoPath
    <2> QED
      BY <1>4, <1>5, <2>1 DEF FrameOK, WalkOK, HeadKinds, ExprKinds
  <1>7. Len(stack) > 0 => Shape(Top, f)
    BY <1>3, <1>5 DEF Shape
  <1>8. Link(f, head, flow, active, pend, loop.base)
    BY <1>1, <1>5 DEF Link, InnerHead, InnerBase, HeadKinds, ExprKinds, Keeps
  <1>9. InDefer => At("defer") /\ v \notin Resources /\ DeferBody'
    <2>1. ASSUME InDefer PROVE At("defer")
      BY <1>2, <2>1, WalkFacts DEF At
    <2>2. captured \subseteq captured'
      BY <1>1 DEF Capture
    <2>3. InDefer => v \notin Resources
      BY DEF AssignBegin, Plain
    <2> QED
      BY <1>1, <2>1, <2>2, <2>3 DEF WalkOK, DeferBody
  <1> QED
    BY <1>1, <1>4, <1>5, <1>6, <1>7, <1>8, <1>9, PushStep DEF WalkOK

\* Leaving a construct whose frame is f: the part about the stack.
LEMMA PopStep ==
  ASSUME TypeOK, WalkOK, Len(stack) > 0, stack' = Under,
         Keeps(Top.active, Top.in, flow'),
         Top.kind \in ExprKinds => StaysUninitialized(Top.in, flow'),
         head' = Top.head, active' = Top.active, pend' = Top.pend, loop'.base = Top.loop.base,
         PointOK(head', path', bad', flow', active', pend', loop'.base), LoopOK(loop', head'),
         DeadOK(path', flow'), Top.kind # "assign"
  PROVE  WalkOK'
  <1>1. /\ StackOK(Under, Top.head, flow', Top.active, Top.pend, Top.loop.base)
        /\ \A i \in 1..Len(Under) : Under[i].kind = "defer" => i = Len(Under) /\ Top.kind = "assign"
    BY StackPop DEF TypeOK, WalkOK, Top, Under
  <1>2. ~InDefer'
    BY <1>1 DEF InDefer
  <1> QED
    BY <1>1, <1>2 DEF WalkOK

LEMMA AssignEndStep ==
  ASSUME TypeOK, WalkOK, Plain, AssignEnd
  PROVE  WalkOK'
  <1> DEFINE v == Top.target
  <1>1. /\ Len(stack) > 0 /\ Top.kind = "assign"
        /\ flow' = MarkInitialized(flow, v) /\ path' = SetOn(path, v, I) /\ stack' = Under
        /\ bad'  = IF v \in Resources THEN UseOn(path, bad, v, I) ELSE bad
        /\ UNCHANGED <<status, loop, active, captured, head, pend>>
    BY DEF AssignEnd, At, Pop
  <1>2. /\ FrameOK(Top) /\ Link(Top, head, flow, active, pend, loop.base) /\ Top \in Frame
    BY <1>1, WalkFacts
  <1>3. v \in Vars /\ I \in States /\ DeadOK(path, flow)
    BY <1>1, <1>2 DEF FrameOK, States, WalkOK, At
  <1> HIDE DEF v
  <1>4. Safe(head, bad')
    <2>1. CASE v \in Resources
      <3>1. I \notin Gamma(v, flow.init[v])
        BY <1>1, <1>2, <2>1 DEF Link, Gamma, v, U, I
      <3> QED
        BY <1>1, <1>3, <2>1, <3>1, UseOK DEF TypeOK, WalkOK, PointOK
    <2>2. CASE v \notin Resources
      BY <1>1, <2>2 DEF WalkOK, PointOK
    <2> QED
      BY <2>1, <2>2
  <1>5. Sound(head, path', flow') /\ DeadOK(path', flow')
    BY <1>1, <1>3, SetOK DEF TypeOK, WalkOK, PointOK
  <1>6. Keeps(active, flow, flow')
    BY <1>1, <1>3, MarkKeeps DEF TypeOK
  <1>7. PointOK(head, path', bad', flow', active, pend, loop.base)
    BY <1>4, <1>5, <1>6, PointStep DEF WalkOK
  <1>8. head = Top.head /\ active = Top.active /\ pend = Top.pend /\ loop.base = Top.loop.base
    BY <1>1, <1>2 DEF Link, InnerHead, InnerBase, HeadKinds, QuietKinds
  <1>9. Keeps(Top.active, Top.in, flow')
    BY <1>2, <1>6, <1>8, KeepsTrans DEF Link
  <1>10. StackOK(Under, head, flow', active, pend, loop.base)
    <2>1. Top.kind \notin ExprKinds
      BY <1>1 DEF ExprKinds
    <2> QED
      BY <1>1, <1>8, <1>9, <2>1, StackPop DEF TypeOK, WalkOK, Top, Under
  <1>11. ASSUME InDefer' PROVE DeferBody'
    <2>1. InDefer
      <3>1. Len(stack) - 1 \in 0..Len(stack) /\ Len(stack) \in Nat
        BY <1>1 DEF TypeOK
      <3>2. Len(Under) = Len(stack) - 1 /\ \A i \in 1..(Len(stack) - 1) : Under[i] = stack[i]
        BY <3>1, FrontSeq DEF Under, TypeOK
      <3> QED
        BY <1>1, <1>11, <3>1, <3>2 DEF InDefer
    <2>2. DeferBody
      BY <2>1 DEF WalkOK
    <2>3. v \notin Resources
      BY <1>1, <2>1 DEF WalkOK, At, v
    <2>4. \A w \in Vars, t \in States :
            path'[w][t] = IF w = v THEN IF path[w][t] = {} THEN {} ELSE {I} ELSE path[w][t]
      BY <1>1 DEF SetOn, Rel, TypeOK
    <2>5. \A w \in Resources : w # v /\ flow'.init[w] = flow.init[w]
      BY <1>1, <2>3 DEF MarkInitialized, TypeOK, Flow
    <2> SUFFICES ASSUME NEW w \in Vars
                 PROVE  /\ I \notin bad[w]
                        /\ U \in bad[w] => head.init[w] = {I} /\ (w \in Resources => w \in captured)
                        /\ U \notin path'[w][I]
                        /\ w \in Resources => I \notin path'[w][U] /\ flow'.init[w] = head.init[w]
      BY <1>1, <2>3 DEF DeferBody
    <2>6. U # I /\ U \in States /\ I \in States
      BY DEF U, I, States
    <2>7. U \notin path'[w][I]
      BY <2>2, <2>4, <2>6 DEF DeferBody
    <2>8. w \in Resources => path'[w][U] = path[w][U]
      BY <2>4, <2>5, <2>6
    <2> QED
      BY <2>2, <2>5, <2>7, <2>8 DEF DeferBody
  <1>12. InDefer' => ~At("assign")'
    <2>1. \A i \in 1..Len(Under) : Under[i].kind = "defer" => i = Len(Under)
      <3>1. Top.kind \notin ExprKinds
        BY <1>1 DEF ExprKinds
      <3> QED
        BY <1>1, <1>9, <3>1, StackPop DEF TypeOK, WalkOK, Top, Under
    <2> QED
      BY <1>1, <2>1 DEF InDefer, At, Top
  <1> QED
    BY <1>1, <1>5, <1>7, <1>10, <1>11, <1>12 DEF WalkOK

\* The frame of a construct entered now, and what the point inside it shares.
LEMMA NewFrameFields ==
  ASSUME TypeOK, NEW k \in Kinds
  PROVE  LET f == NewFrame(k)
         IN  /\ f \in Frame /\ f.kind = k /\ f.head = head /\ f.in = flow /\ f.active = active
             /\ f.pend = pend /\ f.loop = loop /\ f.gin = path /\ f.bad = bad
             /\ f.alt.has = FALSE /\ f.galt = NoPath
  BY FrameTypes DEF NewFrame

\* The frame of a branching expression entered now.
LEMMA ExprFrame ==
  ASSUME TypeOK, IfExprBegin \/ \E left \in Consts : LogicalBegin(left)
  PROVE  \E f \in Frame :
           /\ stack' = Append(stack, f) /\ f.kind \in {"xthen", "logical"}
           /\ f.head = head /\ f.in = flow /\ f.active = active
           /\ f.pend = pend /\ f.loop = loop /\ f.gin = path /\ f.bad = bad
           /\ f.alt.has = FALSE /\ f.galt = NoPath
  <1>1. "xthen" \in Kinds /\ "logical" \in Kinds
    BY DEF Kinds
  <1>2. CASE IfExprBegin
    BY <1>1, <1>2, NewFrameFields DEF IfExprBegin, Push
  <1>3. ASSUME NEW left \in Consts, LogicalBegin(left)
        PROVE  \E f \in Frame :
                 /\ stack' = Append(stack, f) /\ f.kind = "logical"
                 /\ f.head = head /\ f.in = flow /\ f.active = active
                 /\ f.pend = pend /\ f.loop = loop /\ f.gin = path /\ f.bad = bad
                 /\ f.alt.has = FALSE /\ f.galt = NoPath
    <2> DEFINE g == NewFrame("logical")
               f == [g EXCEPT !.left = left]
    <2>1. /\ g \in Frame /\ g.kind = "logical" /\ g.head = head /\ g.in = flow /\ g.active = active
          /\ g.pend = pend /\ g.loop = loop /\ g.gin = path /\ g.bad = bad /\ g.alt.has = FALSE /\ g.galt = NoPath
      BY <1>1, NewFrameFields
    <2>2. stack' = Append(stack, f)
      BY <1>3 DEF LogicalBegin, Push
    <2> HIDE DEF g
    <2>3. /\ f \in Frame /\ f.kind = "logical" /\ f.head = head /\ f.in = flow /\ f.active = active
          /\ f.pend = pend /\ f.loop = loop /\ f.gin = path /\ f.bad = bad /\ f.alt.has = FALSE /\ f.galt = NoPath
      BY <2>1 DEF Frame
    <2> HIDE DEF f
    <2> QED
      BY <2>2, <2>3
  <1> QED
    BY <1>2, <1>3

LEMMA ExprBeginStep ==
  ASSUME TypeOK, WalkOK, Plain, IfExprBegin \/ \E left \in Consts : LogicalBegin(left)
  PROVE  WalkOK'
  <1>1. PICK f \in Frame :
          /\ stack' = Append(stack, f) /\ f.kind \in {"xthen", "logical"}
          /\ f.head = head /\ f.in = flow /\ f.active = active
          /\ f.pend = pend /\ f.loop = loop /\ f.gin = path /\ f.bad = bad
          /\ f.alt.has = FALSE /\ f.galt = NoPath
    BY ExprFrame
  <1>2. AtBranchingExpression /\ UNCHANGED <<status, flow, loop, active, captured, head, path, bad, pend>>
    BY DEF IfExprBegin, LogicalBegin, ghost
  <1>5. ~InDefer /\ DeadOK(path, flow)
    <2>1. ~InDefer /\ \A i \in 1..Len(stack) : stack[i].kind # "return"
      BY <1>2 DEF AtBranchingExpression, Plain
    <2>2. ~At("return")
      BY <2>1 DEF At, Top, TypeOK
    <2> QED
      BY <2>1, <2>2 DEF WalkOK
  <1>6. FrameOK(f)
    <2>1. Dead(NoPath)
      BY DEF Dead, NoPath
    <2> QED
      BY <1>1, <1>5, <2>1 DEF FrameOK, WalkOK, HeadKinds, ExprKinds
  <1>7. Link(f, head, flow, active, pend, loop.base)
    BY <1>1 DEF Link, InnerHead, InnerBase, HeadKinds, ExprKinds, Keeps, StaysUninitialized
  <1>8. Len(stack) > 0 => Shape(Top, f)
    BY <1>1 DEF Shape, ExprKinds
  <1> QED
    BY <1>1, <1>2, <1>5, <1>6, <1>7, <1>8, PushStep DEF WalkOK

LEMMA BlockBeginStep ==
  ASSUME TypeOK, WalkOK, BlockBegin \/ IfBegin \/ SwitchBegin
  PROVE  WalkOK'
  <1>1. PICK k \in {"block", "then", "switch"} :
          /\ stack' = Append(stack, NewFrame(k))
          /\ pend' = IF k = "switch" THEN pend ELSE OpenBlock(pend)
    BY DEF BlockBegin, IfBegin, SwitchBegin, Push, EnterBlock, NewFrame, ghost
  <1>2. AtStatement /\ UNCHANGED <<status, flow, loop, active, captured, head, path, bad>>
    BY DEF BlockBegin, IfBegin, SwitchBegin, ghost, EnterBlock, NewFrame
  <1> DEFINE f == NewFrame(k)
  <1>3. k \in Kinds /\ k \notin {"cond", "body", "post", "else", "xelse", "assign"}
    BY <1>1 DEF Kinds
  <1>4. /\ f \in Frame /\ f.kind = k /\ f.head = head /\ f.in = flow /\ f.active = active
        /\ f.pend = pend /\ f.loop = loop
    BY <1>3, NewFrameFields
  <1>5. /\ ~InDefer /\ DeadOK(path, flow)
        /\ Len(stack) > 0 => Top.kind \notin QuietKinds
    BY <1>2, WalkFacts
  <1>6. FrameOK(f)
    BY <1>3, <1>5, NewFrameOK
  <1> HIDE DEF f
  <1>7. Link(f, head, flow, active, pend', loop.base)
    BY <1>1, <1>4 DEF Link, InnerHead, InnerBase, HeadKinds, ExprKinds, QuietKinds, Keeps
  <1>8. Len(stack) > 0 => Shape(Top, f)
    BY <1>5 DEF Shape, QuietKinds
  <1>9. PendOK(pend', active, flow)
    BY <1>1, OpenOK DEF WalkOK, PointOK, TypeOK
  <1>10. PointOK(head, path, bad, flow, active, pend', loop.base)
    BY <1>9 DEF WalkOK, PointOK
  <1>11. stack' = Append(stack, f) /\ f.kind # "return" /\ f.kind # "defer"
    BY <1>1, <1>4 DEF f
  <1> QED
    BY <1>2, <1>4, <1>5, <1>6, <1>7, <1>8, <1>10, <1>11, PushStep DEF WalkOK

LEMMA ReturnBeginStep ==
  ASSUME TypeOK, WalkOK, ReturnBegin
  PROVE  WalkOK'
  <1> DEFINE f == NewFrame("return")
  <1>1. /\ AtStatement /\ stack' = Append(stack, f) /\ flow' = Unreachable(flow)
        /\ UNCHANGED <<status, loop, active, captured, head, path, bad, pend>>
    BY DEF ReturnBegin, Push, ghost
  <1>2. "return" \in Kinds
    BY DEF Kinds
  <1>4. /\ f \in Frame /\ f.kind = "return" /\ f.head = head /\ f.in = flow /\ f.active = active
        /\ f.pend = pend /\ f.loop = loop
    BY <1>2, NewFrameFields
  <1>5. /\ ~InDefer /\ DeadOK(path, flow)
        /\ Len(stack) > 0 => Top.kind \notin QuietKinds
    BY <1>1, WalkFacts
  <1>6. FrameOK(f)
    BY <1>2, <1>5, NewFrameOK
  <1> HIDE DEF f
  <1>7. Keeps(active, flow, flow') /\ \A v \in Vars : flow'.init[v] = flow.init[v]
    BY <1>1 DEF TypeOK, Flow, Unreachable, Keeps
  <1>8. Link(f, head, flow', active, pend, loop.base)
    BY <1>4, <1>7 DEF Link, InnerHead, InnerBase, HeadKinds, ExprKinds, QuietKinds
  <1>9. Len(stack) > 0 => Shape(Top, f)
    BY <1>5 DEF Shape, QuietKinds
  <1>10. PointOK(head, path, bad, flow', active, pend, loop.base)
    <2>1. Sound(head, path, flow') /\ Safe(head, bad)
      BY <1>7 DEF Sound, WalkOK, PointOK
    <2> QED
      BY <1>7, <2>1, PointStep DEF WalkOK
  <1> QED
    BY <1>1, <1>4, <1>5, <1>6, <1>8, <1>9, <1>10, PushStep DEF WalkOK

LEMMA LoopBeginStep ==
  ASSUME TypeOK, WalkOK, NEW always \in BOOLEAN, LoopBegin(always)
  PROVE  WalkOK'
  <1> DEFINE k == IF always THEN "body" ELSE "cond"
             f == [NewFrame(k) EXCEPT !.always = always, !.alt = [has |-> TRUE, flow |-> flow],
                                      !.galt = Identity]
  <1>1. /\ AtStatement /\ stack' = Append(stack, f)
        /\ loop' = NewLoop(flow, active) /\ head' = flow /\ path' = Identity /\ bad' = NoUse
        /\ pend' = IF always THEN OpenLoopBody(pend) ELSE pend
        /\ UNCHANGED <<status, flow, active, captured>>
    BY DEF LoopBegin, Push
  <1>2. k \in Kinds /\ k \in {"body", "cond"} /\ (always <=> k = "body")
    BY DEF Kinds
  <1> HIDE DEF k
  <1>3. /\ f \in Frame /\ f.kind = k /\ f.head = head /\ f.in = flow /\ f.active = active
        /\ f.pend = pend /\ f.loop = loop /\ f.gin = path /\ f.bad = bad
        /\ f.alt.has = TRUE /\ f.alt.flow = flow /\ f.galt = Identity
    <2> DEFINE g == NewFrame(k)
    <2>1. /\ g \in Frame /\ g.kind = k /\ g.head = head /\ g.in = flow /\ g.active = active
          /\ g.pend = pend /\ g.loop = loop /\ g.gin = path /\ g.bad = bad
      BY <1>2, NewFrameFields
    <2> HIDE DEF g
    <2>2. [has |-> TRUE, flow |-> flow] \in Acc /\ Identity \in Rel
      BY RelTypes DEF Acc, TypeOK
    <2>3. f = [g EXCEPT !.always = always, !.alt = [has |-> TRUE, flow |-> flow], !.galt = Identity]
      BY DEF g
    <2> HIDE DEF f
    <2> QED
      BY <2>1, <2>2, <2>3 DEF Frame
  <1> HIDE DEF f
  <1>5. /\ ~InDefer /\ DeadOK(path, flow) /\ flow.reachable
        /\ Len(stack) > 0 => Top.kind \notin QuietKinds
    BY <1>1, WalkFacts
  <1>6. /\ Sound(flow, Identity, flow) /\ Safe(flow, NoUse) /\ Keeps(active, flow, flow) /\ Dead(NoPath)
        /\ DeadOK(Identity, flow)
    BY <1>5, IdentityOK DEF TypeOK, DeadOK
  <1>7. FrameOK(f)
    BY <1>2, <1>3, <1>5, <1>6 DEF FrameOK, WalkOK, HeadKinds, ExprKinds, InnerHead
  <1>8. loop'.base = active /\ LoopOK(loop', head')
    BY <1>1, <1>6 DEF NewLoop, LoopOK, AccOK
  <1>9. Link(f, flow, flow, active, pend', active)
    BY <1>1, <1>2, <1>3, <1>6 DEF Link, InnerHead, InnerBase, HeadKinds, QuietKinds, ExprKinds
  <1>10. Len(stack) > 0 => Shape(Top, f)
    BY <1>5 DEF Shape, QuietKinds
  <1>11. PendOK(pend', active, flow)
    BY <1>1, OpenOK DEF WalkOK, PointOK, TypeOK
  <1>12. PointOK(flow, Identity, NoUse, flow, active, pend', active)
    BY <1>6, <1>11 DEF PointOK
  <1>13. f.kind # "return" /\ f.kind # "defer"
    BY <1>2, <1>3
  <1> QED
    BY <1>1, <1>3, <1>5, <1>6, <1>7, <1>8, <1>9, <1>10, <1>12, <1>13, PushStep

LEMMA DeferBeginStep ==
  ASSUME TypeOK, WalkOK, DeferBegin
  PROVE  WalkOK'
  <1> DEFINE f == NewFrame("defer")
  <1>1. /\ AtStatement /\ stack' = Append(stack, f)
        /\ captured' = {} /\ loop' = NoLoop(flow) /\ head' = flow /\ path' = Identity /\ bad' = NoUse
        /\ UNCHANGED <<status, flow, active, pend>>
    BY DEF DeferBegin, Push
  <1>2. "defer" \in Kinds
    BY DEF Kinds
  <1>3. /\ f \in Frame /\ f.kind = "defer" /\ f.head = head /\ f.in = flow /\ f.active = active
        /\ f.pend = pend /\ f.loop = loop
    BY <1>2, NewFrameFields
  <1>5. /\ ~InDefer /\ DeadOK(path, flow) /\ flow.reachable
        /\ Len(stack) > 0 => Top.kind \notin QuietKinds
    BY <1>1, WalkFacts
  <1>6. FrameOK(f)
    BY <1>2, <1>5, NewFrameOK
  <1> HIDE DEF f
  <1>7. /\ Sound(flow, Identity, flow) /\ Safe(flow, NoUse) /\ Keeps({}, flow, flow)
        /\ Keeps(active, flow, flow) /\ Dead(NoPath) /\ DeadOK(Identity, flow)
    BY <1>5, IdentityOK DEF TypeOK, DeadOK
  <1>8. loop'.base = {} /\ LoopOK(loop', head')
    BY <1>1, <1>7 DEF NoLoop, NewLoop, LoopOK, AccOK
  <1>9. Link(f, flow, flow, active, pend, {})
    BY <1>3, <1>7 DEF Link, InnerHead, InnerBase, HeadKinds, ExprKinds
  <1>10. Len(stack) > 0 => Shape(Top, f)
    BY <1>5 DEF Shape, QuietKinds
  <1>11. PointOK(flow, Identity, NoUse, flow, active, pend, {})
    BY <1>7 DEF PointOK, WalkOK
  <1>12. DeferBody'
    BY <1>1 DEF DeferBody, Identity, NoUse, States, U, I
  <1>13. f.kind # "return"
    BY <1>3
  <1> QED
    BY <1>1, <1>3, <1>5, <1>6, <1>7, <1>8, <1>9, <1>10, <1>11, <1>12, <1>13, PushStep

LEMMA LogicalEndStep ==
  ASSUME TypeOK, WalkOK, LogicalEnd
  PROVE  WalkOK'
  <1>1. /\ Len(stack) > 0 /\ Top.kind = "logical" /\ stack' = Under
        /\ UNCHANGED <<status, loop, active, captured, head, pend>>
    BY DEF LogicalEnd, At, Pop
  <1>2. /\ FrameOK(Top) /\ Link(Top, head, flow, active, pend, loop.base) /\ Top \in Frame
    BY <1>1, WalkFacts
  <1>3. /\ Top.head = head /\ Top.loop.base = loop.base /\ Top.active = active /\ Top.pend = pend
        /\ Keeps(active, Top.in, flow) /\ StaysUninitialized(Top.in, flow)
    BY <1>1, <1>2 DEF Link, InnerHead, InnerBase, HeadKinds, QuietKinds, ExprKinds
  <1>4. /\ Top.in \in Flow /\ Top.gin \in Rel /\ Top.bad \in Uses /\ Top.left \in Consts
        /\ flow \in Flow /\ path \in Rel /\ head \in Flow
    BY <1>2 DEF Frame, TypeOK
  <1>5. /\ Sound(head, Top.gin, Top.in) /\ DeadOK(Top.gin, Top.in) /\ Safe(head, Top.bad)
        /\ Sound(head, path, flow) /\ DeadOK(path, flow) /\ Safe(head, bad)
        /\ PointOK(head, Top.gin, Top.bad, Top.in, active, pend, loop.base)
    BY <1>1, <1>2, <1>3 DEF FrameOK, PointOK, WalkOK, At
  <1>6. /\ Keeps(active, Top.in, Top.in) /\ StaysUninitialized(Top.in, Top.in)
    BY DEF Keeps, StaysUninitialized
  <1>7. /\ Sound(head, path', flow') /\ DeadOK(path', flow') /\ Safe(head, bad')
        /\ Keeps(active, Top.in, flow') /\ StaysUninitialized(Top.in, flow')
    <2>1. CASE Top.left = "executes"
      BY <2>1, <1>3, <1>5 DEF LogicalEnd, LogicalFlow
    <2>2. CASE Top.left = "skipped"
      BY <2>2, <1>5, <1>6 DEF LogicalEnd, LogicalFlow
    <2>3. CASE Top.left = "unknown"
      <3>1. flow' = Merge(Top.in, flow) /\ path' = Join(Top.gin, path) /\ bad' = bad
        BY <2>3 DEF LogicalEnd, LogicalFlow
      <3>2. Sound(head, path', flow') /\ DeadOK(path', flow')
        BY <3>1, <1>4, <1>5, JoinMerge
      <3>3. Keeps(active, Top.in, flow') /\ StaysUninitialized(Top.in, flow')
        BY <3>1, <1>3, <1>4, <1>6, MergeKeeps, MergeStays
      <3> QED
        BY <3>1, <3>2, <3>3, <1>5
    <2> QED
      BY <2>1, <2>2, <2>3, <1>4 DEF Consts
  <1>8. PointOK(head, path', bad', flow', active, pend, loop.base)
    BY <1>5, <1>7, PointStep
  <1> QED
    BY <1>1, <1>3, <1>7, <1>8, PopStep DEF WalkOK

\* Going on with the next part of a construct.
LEMMA RetopStep ==
  ASSUME TypeOK, WalkOK, Len(stack) > 0, Top.kind \notin {"assign", "defer"},
         NEW f \in Frame, f.head = Top.head, f.in = Top.in, f.active = Top.active, f.pend = Top.pend,
         f.loop.base = Top.loop.base, FrameOK(f), f.kind \notin {"assign", "defer", "return"},
         f.kind \in ExprKinds <=> Top.kind \in ExprKinds,
         stack' = Append(Under, f), Link(f, head', flow', active', pend', loop'.base),
         PointOK(head', path', bad', flow', active', pend', loop'.base), LoopOK(loop', head'),
         DeadOK(path', flow')
  PROVE  WalkOK'
  <1>0. Top \in Frame /\ ~InDefer
    BY WalkFacts
  <1>1. StackOK(stack', head', flow', active', pend', loop'.base)
    BY <1>0, StackRetop DEF TypeOK, WalkOK, Top, Under
  <1>2. /\ Len(stack) \in Nat /\ Len(stack') = Len(stack) /\ stack'[Len(stack')] = f
        /\ \A i \in 1..(Len(stack) - 1) : stack'[i] = stack[i]
    <2>1. Len(stack) \in Nat /\ Len(stack) - 1 \in 0..Len(stack) /\ Under \in Seq(Frame)
      BY StackTypes DEF TypeOK
    <2>2. Len(Under) = Len(stack) - 1 /\ \A i \in 1..(Len(stack) - 1) : Under[i] = stack[i]
      BY <2>1, FrontSeq DEF Under, TypeOK
    <2> QED
      BY <2>1, <2>2
  <1>3. ~InDefer'
    BY <1>0, <1>2 DEF InDefer
  <1> QED
    BY <1>1, <1>3 DEF WalkOK

\* The end of a block runs its deferred statements.
LEMMA EndOK ==
  ASSUME TypeOK, WalkOK, ~At("return")
  PROVE  /\ Sound(head, EndPath, flow) /\ Safe(head, EndBad) /\ DeadOK(EndPath, flow)
         /\ EndPath \in Rel /\ EndBad \in Uses /\ DeadOK(path, flow)
  <1>1. pend.block \in Deferred /\ DeferOK(pend.block, active, flow)
    BY DEF TypeOK, Pend, WalkOK, PointOK, PendOK
  <1>2. EndPath \in Rel /\ EndBad \in Uses
    BY FrameTypes
  <1> QED
    BY <1>1, <1>2, RunOK DEF TypeOK, WalkOK, PointOK, EndPath, EndBad

LEMMA ElseStep ==
  ASSUME TypeOK, WalkOK, IfExprElse \/ IfElse
  PROVE  WalkOK'
  <1>1. /\ Len(stack) > 0 /\ Top.kind \in {"xthen", "then"}
        /\ flow' = Top.in /\ path' = Top.gin
        /\ UNCHANGED <<status, loop, captured, head>>
    BY DEF IfExprElse, IfElse, At
  <1>2. FrameOK(Top) /\ Link(Top, head, flow, active, pend, loop.base) /\ Top \in Frame
    BY <1>1, WalkFacts
  <1>3. /\ Top.head = head /\ Top.loop.base = loop.base
        /\ Keeps(Top.active, Top.in, flow)
        /\ Top.kind = "xthen" => active = Top.active /\ pend = Top.pend /\ StaysUninitialized(Top.in, flow)
    BY <1>1, <1>2 DEF Link, InnerHead, InnerBase, HeadKinds, QuietKinds, ExprKinds
  <1>4. /\ Sound(head, EndPath, flow) /\ Safe(head, EndBad) /\ DeadOK(EndPath, flow) /\ EndPath \in Rel
        /\ DeadOK(path, flow) /\ Sound(head, path, flow) /\ Safe(head, bad)
    BY <1>1, EndOK DEF At, WalkOK, PointOK
  <1>5. PICK P \in Rel, k \in {"xelse", "else"} :
          /\ stack' = Append(Under, [Top EXCEPT !.kind = k, !.alt = [has |-> TRUE, flow |-> flow], !.galt = P])
          /\ Sound(head, P, flow) /\ DeadOK(P, flow)
          /\ k = "xelse" <=> Top.kind = "xthen"
    <2>1. CASE IfExprElse
      BY <2>1, <1>4 DEF IfExprElse, Retop, At, TypeOK
    <2>2. CASE IfElse
      BY <2>2, <1>4 DEF IfElse, Retop, At
    <2> QED
      BY <2>1, <2>2
  <1>6. active' = Top.active /\ pend' = IF k = "else" THEN OpenBlock(Top.pend) ELSE Top.pend
    <2>1. CASE IfExprElse
      BY <2>1, <1>3, <1>5 DEF IfExprElse, At
    <2>2. CASE IfElse
      BY <2>2, <1>5 DEF IfElse, EnterBlock, At
    <2> QED
      BY <2>1, <2>2
  <1>7. Safe(head, bad')
    BY <1>4 DEF IfExprElse, IfElse
  <1> DEFINE f == [Top EXCEPT !.kind = k, !.alt = [has |-> TRUE, flow |-> flow], !.galt = P]
  <1>8. /\ f \in Frame /\ f.kind = k /\ f.head = Top.head /\ f.in = Top.in /\ f.active = Top.active
        /\ f.pend = Top.pend /\ f.loop = Top.loop /\ f.gin = Top.gin /\ f.bad = Top.bad
        /\ f.alt.has = TRUE /\ f.alt.flow = flow /\ f.galt = P
    <2>1. [has |-> TRUE, flow |-> flow] \in Acc /\ k \in Kinds
      BY DEF Acc, TypeOK, Kinds
    <2> QED
      BY <1>2, <2>1 DEF Frame
  <1> HIDE DEF f
  <1>9. FrameOK(f)
    BY <1>2, <1>3, <1>5, <1>8 DEF FrameOK, HeadKinds, ExprKinds, InnerHead
  <1>10. Keeps(Top.active, Top.in, Top.in) /\ StaysUninitialized(Top.in, Top.in)
    BY DEF Keeps, StaysUninitialized
  <1>11. Link(f, head, Top.in, Top.active, pend', loop.base)
    BY <1>3, <1>5, <1>6, <1>8, <1>10 DEF Link, InnerHead, InnerBase, HeadKinds, ExprKinds, QuietKinds
  <1>12. PointOK(head, Top.gin, bad', Top.in, Top.active, pend', loop.base)
    <2>1. PointOK(head, Top.gin, Top.bad, Top.in, Top.active, Top.pend, loop.base)
      BY <1>2, <1>3 DEF FrameOK
    <2>2. PendOK(pend', Top.active, Top.in)
      BY <1>2, <1>6, <2>1, OpenOK DEF PointOK, Frame
    <2> QED
      BY <1>7, <2>1, <2>2 DEF PointOK
  <1>13. DeadOK(Top.gin, Top.in) /\ Top.kind \notin {"assign", "defer"}
    BY <1>1, <1>2 DEF FrameOK
  <1>14. /\ f.kind \notin {"assign", "defer", "return"}
         /\ f.kind \in ExprKinds <=> Top.kind \in ExprKinds
         /\ stack' = Append(Under, f) /\ f.loop.base = Top.loop.base
    BY <1>1, <1>5, <1>8 DEF ExprKinds, f
  <1>15. LoopOK(loop', head')
    BY <1>1 DEF WalkOK
  <1> QED
    BY <1>1, <1>6, <1>8, <1>9, <1>11, <1>12, <1>13, <1>14, <1>15, RetopStep

LEMMA IfEndStep ==
  ASSUME TypeOK, WalkOK, IfExprEnd \/ IfEnd
  PROVE  WalkOK'
  <1>1. /\ Len(stack) > 0 /\ Top.kind \in {"xelse", "else"} /\ stack' = Under
        /\ flow' = Merge(Top.alt.flow, flow)
        /\ UNCHANGED <<status, loop, captured, head>>
    BY DEF IfExprEnd, IfEnd, At, Pop
  <1>2. FrameOK(Top) /\ Link(Top, head, flow, active, pend, loop.base) /\ Top \in Frame
    BY <1>1, WalkFacts
  <1>3. /\ Top.head = head /\ Top.loop.base = loop.base
        /\ Keeps(Top.active, Top.in, flow)
        /\ Top.kind = "xelse" => active = Top.active /\ pend = Top.pend /\ StaysUninitialized(Top.in, flow)
    BY <1>1, <1>2 DEF Link, InnerHead, InnerBase, HeadKinds, QuietKinds, ExprKinds
  <1>4. /\ Sound(head, EndPath, flow) /\ Safe(head, EndBad) /\ DeadOK(EndPath, flow) /\ EndPath \in Rel
        /\ DeadOK(path, flow) /\ Sound(head, path, flow) /\ Safe(head, bad)
    BY <1>1, EndOK DEF At, WalkOK, PointOK
  <1>5. PICK P \in Rel : path' = Join(Top.galt, P) /\ Sound(head, P, flow) /\ DeadOK(P, flow)
    BY <1>4 DEF IfExprEnd, IfEnd, TypeOK
  <1>6. active' = Top.active /\ pend' = Top.pend /\ Safe(head, bad')
    BY <1>1, <1>3, <1>4 DEF IfExprEnd, IfEnd, LeaveBlock, At
  <1>7. /\ Sound(head, Top.galt, Top.alt.flow) /\ DeadOK(Top.galt, Top.alt.flow)
        /\ Keeps(Top.active, Top.in, Top.alt.flow)
        /\ Top.kind \in ExprKinds => StaysUninitialized(Top.in, Top.alt.flow)
    BY <1>1, <1>2, <1>3 DEF FrameOK, InnerHead, HeadKinds
  <1>8. Top.alt.flow \in Flow /\ Top.galt \in Rel /\ flow \in Flow /\ head \in Flow /\ Top.in \in Flow
    BY <1>2 DEF Frame, Acc, TypeOK
  <1>9. Sound(head, path', flow') /\ DeadOK(path', flow')
    BY <1>1, <1>5, <1>7, <1>8, JoinMerge
  <1>10. Keeps(Top.active, Top.in, flow')
    BY <1>1, <1>3, <1>7, <1>8, MergeKeeps
  <1>11. Top.kind \in ExprKinds => StaysUninitialized(Top.in, flow')
    BY <1>1, <1>3, <1>7, <1>8, MergeStays DEF ExprKinds
  <1>12. PointOK(head, path', bad', flow', Top.active, Top.pend, loop.base)
    BY <1>2, <1>3, <1>6, <1>9, <1>10, PointStep DEF FrameOK
  <1>13. LoopOK(loop', head') /\ Top.kind # "assign"
    BY <1>1 DEF WalkOK
  <1> QED
    BY <1>1, <1>3, <1>6, <1>9, <1>10, <1>11, <1>12, <1>13, PopStep

LEMMA BlockEndStep ==
  ASSUME TypeOK, WalkOK, BlockEnd
  PROVE  WalkOK'
  <1>1. /\ Len(stack) > 0 /\ Top.kind = "block" /\ stack' = Under
        /\ path' = EndPath /\ bad' = EndBad /\ active' = Top.active /\ pend' = Top.pend
        /\ UNCHANGED <<status, flow, loop, captured, head>>
    BY DEF BlockEnd, At, Pop, LeaveBlock
  <1>2. FrameOK(Top) /\ Link(Top, head, flow, active, pend, loop.base) /\ Top \in Frame
    BY <1>1, WalkFacts
  <1>3. /\ Top.head = head /\ Top.loop.base = loop.base
        /\ Keeps(Top.active, Top.in, flow)
    BY <1>1, <1>2 DEF Link, InnerHead, InnerBase, HeadKinds
  <1>4. Sound(head, EndPath, flow) /\ Safe(head, EndBad) /\ DeadOK(EndPath, flow)
    BY <1>1, EndOK DEF At
  <1>5. PointOK(head, path', bad', flow, Top.active, Top.pend, loop.base)
    BY <1>1, <1>2, <1>3, <1>4, PointStep DEF FrameOK
  <1>6. LoopOK(loop', head') /\ Top.kind \notin ExprKinds
    BY <1>1 DEF WalkOK, ExprKinds
  <1> QED
    BY <1>1, <1>3, <1>4, <1>5, <1>6, PopStep

LEMMA CaseBeginStep ==
  ASSUME TypeOK, WalkOK, CaseBegin
  PROVE  WalkOK'
  <1> DEFINE f == [Top EXCEPT !.kind = "case"]
  <1>1. /\ Len(stack) > 0 /\ Top.kind = "switch" /\ stack' = Append(Under, f)
        /\ active' = Top.active /\ pend' = OpenBlock(Top.pend)
        /\ UNCHANGED <<status, flow, loop, captured, head, path, bad>>
    BY DEF CaseBegin, At, Retop, EnterBlock
  <1>2. FrameOK(Top) /\ Link(Top, head, flow, active, pend, loop.base) /\ Top \in Frame
    BY <1>1, WalkFacts
  <1>3. /\ Top.head = head /\ Top.loop.base = loop.base /\ active = Top.active /\ pend = Top.pend
        /\ Keeps(Top.active, Top.in, flow)
    BY <1>1, <1>2 DEF Link, InnerHead, InnerBase, HeadKinds, QuietKinds
  <1>4. /\ f \in Frame /\ f.kind = "case" /\ f.head = Top.head /\ f.in = Top.in /\ f.active = Top.active
        /\ f.pend = Top.pend /\ f.loop = Top.loop /\ f.gin = Top.gin /\ f.bad = Top.bad
        /\ f.alt = Top.alt /\ f.galt = Top.galt
    <2>1. "case" \in Kinds
      BY DEF Kinds
    <2> QED
      BY <1>2, <2>1 DEF Frame
  <1> HIDE DEF f
  <1>5. FrameOK(f)
    BY <1>1, <1>2, <1>4 DEF FrameOK, HeadKinds, ExprKinds, InnerHead
  <1>6. Link(f, head, flow, active', pend', loop.base)
    BY <1>1, <1>3, <1>4 DEF Link, InnerHead, InnerBase, HeadKinds, ExprKinds, QuietKinds
  <1>7. PendOK(pend', active, flow)
    BY <1>1, <1>3, OpenOK DEF WalkOK, PointOK, TypeOK
  <1>8. PointOK(head, path, bad, flow, active', pend', loop.base)
    BY <1>1, <1>3, <1>7 DEF WalkOK, PointOK
  <1>9. DeadOK(path, flow) /\ LoopOK(loop', head')
    BY <1>1 DEF WalkOK, At
  <1>10. /\ f.kind \notin {"assign", "defer", "return"} /\ Top.kind \notin {"assign", "defer"}
         /\ f.kind \in ExprKinds <=> Top.kind \in ExprKinds
    BY <1>1, <1>4 DEF ExprKinds
  <1> QED
    BY <1>1, <1>4, <1>5, <1>6, <1>8, <1>9, <1>10, RetopStep

LEMMA CaseEndStep ==
  ASSUME TypeOK, WalkOK, CaseEnd
  PROVE  WalkOK'
  <1> DEFINE f == [Top EXCEPT !.kind = "switch", !.alt = CaseFlow(Top.alt, flow),
                              !.galt = Join(Top.galt, EndPath)]
  <1>1. /\ Len(stack) > 0 /\ Top.kind = "case" /\ stack' = Append(Under, f)
        /\ flow' = Top.in /\ path' = Top.gin /\ bad' = EndBad
        /\ active' = Top.active /\ pend' = Top.pend
        /\ UNCHANGED <<status, loop, captured, head>>
    BY DEF CaseEnd, At, Retop, LeaveBlock
  <1>2. FrameOK(Top) /\ Link(Top, head, flow, active, pend, loop.base) /\ Top \in Frame
    BY <1>1, WalkFacts
  <1>3. /\ Top.head = head /\ Top.loop.base = loop.base /\ Keeps(Top.active, Top.in, flow)
    BY <1>1, <1>2 DEF Link, InnerHead, InnerBase, HeadKinds
  <1>4. /\ Sound(head, EndPath, flow) /\ Safe(head, EndBad) /\ DeadOK(EndPath, flow) /\ EndPath \in Rel
    BY <1>1, EndOK DEF At
  <1>5. /\ Top.alt \in Acc /\ Top.alt.flow \in Flow /\ Top.galt \in Rel /\ flow \in Flow /\ head \in Flow
        /\ Top.alt.has \in BOOLEAN
    BY <1>2 DEF Frame, Acc, TypeOK
  <1>6. LET a == CaseFlow(Top.alt, flow)
            P == Join(Top.galt, EndPath)
        IN  /\ a \in Acc /\ a.has /\ P \in Rel
            /\ Sound(head, P, a.flow) /\ DeadOK(P, a.flow) /\ Keeps(Top.active, Top.in, a.flow)
    <2>1. CaseFlow(Top.alt, flow) \in Acc /\ Join(Top.galt, EndPath) \in Rel
      BY <1>4, <1>5, FlowTypes, RelTypes
    <2>2. CASE Top.alt.has
      <3>1. CaseFlow(Top.alt, flow).has /\ CaseFlow(Top.alt, flow).flow = Merge(Top.alt.flow, flow)
        BY <2>2 DEF CaseFlow
      <3>2. /\ Sound(head, Top.galt, Top.alt.flow) /\ DeadOK(Top.galt, Top.alt.flow)
            /\ Keeps(Top.active, Top.in, Top.alt.flow)
        BY <1>1, <1>2, <1>3, <2>2 DEF FrameOK, InnerHead, HeadKinds
      <3>3. Keeps(Top.active, Top.in, Merge(Top.alt.flow, flow))
        BY <1>3, <1>5, <3>2, MergeKeeps
      <3> QED
        BY <1>4, <1>5, <2>1, <3>1, <3>2, <3>3, JoinMerge
    <2>3. CASE ~Top.alt.has
      <3>1. CaseFlow(Top.alt, flow).has /\ CaseFlow(Top.alt, flow).flow = flow
        BY <2>3 DEF CaseFlow
      <3>2. Dead(Top.galt)
        BY <1>2, <2>3 DEF FrameOK
      <3>3. \A v \in Vars, s \in States : Join(Top.galt, EndPath)[v][s] = EndPath[v][s]
        BY <3>2 DEF Join, Dead
      <3>4. DeadOK(Join(Top.galt, EndPath), flow)
        BY <1>4, <3>3 DEF DeadOK, Dead
      <3>5. Sound(head, Join(Top.galt, EndPath), flow)
        BY <1>4, <1>5, <3>3, GammaSubset DEF Sound
      <3> QED
        BY <1>3, <2>1, <3>1, <3>4, <3>5
    <2> QED
      BY <2>2, <2>3
  <1> DEFINE a == CaseFlow(Top.alt, flow)
             P == Join(Top.galt, EndPath)
  <1>7. /\ a \in Acc /\ a.has /\ P \in Rel
        /\ Sound(head, P, a.flow) /\ DeadOK(P, a.flow) /\ Keeps(Top.active, Top.in, a.flow)
    BY <1>6
  <1>8. f = [Top EXCEPT !.kind = "switch", !.alt = a, !.galt = P]
    OBVIOUS
  <1> HIDE DEF f, a, P
  <1>9. /\ f \in Frame /\ f.kind = "switch" /\ f.head = Top.head /\ f.in = Top.in /\ f.active = Top.active
        /\ f.pend = Top.pend /\ f.loop = Top.loop /\ f.gin = Top.gin /\ f.bad = Top.bad
        /\ f.alt = a /\ f.galt = P
    <2>1. "switch" \in Kinds
      BY DEF Kinds
    <2> QED
      BY <1>2, <1>7, <1>8, <2>1 DEF Frame
  <1>10. FrameOK(f)
    BY <1>2, <1>3, <1>7, <1>9 DEF FrameOK, HeadKinds, ExprKinds, InnerHead
  <1>11. Keeps(Top.active, Top.in, Top.in)
    BY DEF Keeps
  <1>12. Link(f, head, Top.in, Top.active, Top.pend, loop.base)
    BY <1>3, <1>9, <1>11 DEF Link, InnerHead, InnerBase, HeadKinds, ExprKinds, QuietKinds
  <1>13. PointOK(head, Top.gin, bad', Top.in, Top.active, Top.pend, loop.base)
    BY <1>1, <1>2, <1>3, <1>4 DEF FrameOK, PointOK
  <1>14. DeadOK(Top.gin, Top.in) /\ LoopOK(loop', head')
    BY <1>1, <1>2 DEF FrameOK, WalkOK
  <1>15. /\ f.kind \notin {"assign", "defer", "return"} /\ Top.kind \notin {"assign", "defer"}
         /\ f.kind \in ExprKinds <=> Top.kind \in ExprKinds
    BY <1>1, <1>9 DEF ExprKinds
  <1> QED
    BY <1>1, <1>9, <1>10, <1>12, <1>13, <1>14, <1>15, RetopStep

LEMMA SwitchEndStep ==
  ASSUME TypeOK, WalkOK, NEW exhaustive \in BOOLEAN, SwitchEnd(exhaustive)
  PROVE  WalkOK'
  <1>1. /\ Len(stack) > 0 /\ Top.kind = "switch" /\ stack' = Under
        /\ exhaustive => Top.alt.has
        /\ flow' = SwitchFlow(Top, exhaustive)
        /\ path' = IF exhaustive THEN Top.galt ELSE Join(Top.galt, Top.gin)
        /\ UNCHANGED <<status, loop, active, captured, head, bad, pend>>
    BY DEF SwitchEnd, At, Pop
  <1>2. FrameOK(Top) /\ Link(Top, head, flow, active, pend, loop.base) /\ Top \in Frame
    BY <1>1, WalkFacts
  <1>3. /\ Top.head = head /\ Top.loop.base = loop.base /\ active = Top.active /\ pend = Top.pend
    BY <1>1, <1>2 DEF Link, InnerHead, InnerBase, HeadKinds, QuietKinds
  <1>4. /\ Top.in \in Flow /\ Top.alt.flow \in Flow /\ Top.gin \in Rel /\ Top.galt \in Rel /\ head \in Flow
        /\ Top.alt.has \in BOOLEAN
    BY <1>2 DEF Frame, Acc, TypeOK
  <1>5. /\ PointOK(head, Top.gin, Top.bad, Top.in, active, pend, loop.base)
        /\ Sound(head, Top.gin, Top.in) /\ DeadOK(Top.gin, Top.in) /\ Safe(head, bad)
    BY <1>2, <1>3 DEF FrameOK, PointOK, WalkOK
  <1>6. Keeps(active, Top.in, Top.in)
    BY DEF Keeps
  <1>7. Sound(head, path', flow') /\ DeadOK(path', flow') /\ Keeps(active, Top.in, flow')
    <2>1. CASE Top.alt.has
      <3>1. /\ Sound(head, Top.galt, Top.alt.flow) /\ DeadOK(Top.galt, Top.alt.flow)
            /\ Keeps(active, Top.in, Top.alt.flow)
        BY <1>1, <1>2, <1>3, <2>1 DEF FrameOK, InnerHead, HeadKinds
      <3>2. CASE exhaustive
        BY <1>1, <2>1, <3>1, <3>2 DEF SwitchFlow
      <3>3. CASE ~exhaustive
        <4>1. flow' = Merge(Top.alt.flow, Top.in) /\ path' = Join(Top.galt, Top.gin)
          BY <1>1, <2>1, <3>3 DEF SwitchFlow
        <4>2. Keeps(active, Top.in, flow')
          BY <1>4, <1>6, <3>1, <4>1, MergeKeeps
        <4> QED
          BY <1>4, <1>5, <3>1, <4>1, <4>2, JoinMerge
      <3> QED
        BY <3>2, <3>3
    <2>2. CASE ~Top.alt.has
      <3>1. flow' = Top.in /\ path' = Join(Top.galt, Top.gin)
        BY <1>1, <2>2 DEF SwitchFlow
      <3>2. Dead(Top.galt)
        BY <1>2, <2>2 DEF FrameOK
      <3>3. \A v \in Vars, s \in States : path'[v][s] = Top.gin[v][s]
        BY <3>1, <3>2 DEF Join, Dead
      <3>4. DeadOK(path', flow')
        BY <1>5, <3>1, <3>3 DEF DeadOK, Dead
      <3>5. Sound(head, path', flow')
        BY <1>4, <1>5, <3>1, <3>3, GammaSubset DEF Sound
      <3> QED
        BY <1>6, <3>1, <3>4, <3>5
    <2> QED
      BY <2>1, <2>2
  <1>8. PointOK(head, path', bad, flow', active, pend, loop.base)
    BY <1>5, <1>7, PointStep
  <1>9. LoopOK(loop', head') /\ Top.kind \notin ExprKinds \cup {"assign"}
    BY <1>1 DEF WalkOK, ExprKinds
  <1> QED
    BY <1>1, <1>3, <1>7, <1>8, <1>9, PopStep

LEMMA JoinDead ==
  ASSUME NEW H \in Flow, NEW F \in Flow, NEW P \in Rel, NEW Q \in Rel, Sound(H, P, F), DeadOK(P, F), Dead(Q)
  PROVE  /\ Sound(H, Join(P, Q), F) /\ DeadOK(Join(P, Q), F)
         /\ Sound(H, Join(Q, P), F) /\ DeadOK(Join(Q, P), F)
  <1>1. \A v \in Vars, s \in States : Join(P, Q)[v][s] = P[v][s] /\ Join(Q, P)[v][s] = P[v][s]
    BY DEF Join, Dead
  <1> QED
    BY <1>1, GammaSubset DEF Sound, DeadOK, Dead

LEMMA LoopBodyStep ==
  ASSUME TypeOK, WalkOK, LoopBody
  PROVE  WalkOK'
  <1> DEFINE f == [Top EXCEPT !.kind = "body", !.alt.flow = flow, !.galt = path]
  <1>1. /\ Len(stack) > 0 /\ Top.kind = "cond" /\ stack' = Append(Under, f)
        /\ pend' = OpenLoopBody(pend)
        /\ UNCHANGED <<status, flow, loop, active, captured, head, path, bad>>
    BY DEF LoopBody, At, Retop
  <1>2. FrameOK(Top) /\ Link(Top, head, flow, active, pend, loop.base) /\ Top \in Frame
    BY <1>1, WalkFacts
  <1>3. /\ Top.in = head /\ Top.active = loop.base /\ active = Top.active /\ pend = Top.pend
        /\ Keeps(Top.active, Top.in, flow)
    BY <1>1, <1>2 DEF Link, InnerHead, InnerBase, HeadKinds, QuietKinds
  <1>4. /\ Top.alt.has /\ LoopOK(Top.loop, Top.head)
        /\ Sound(head, path, flow) /\ DeadOK(path, flow)
    BY <1>1, <1>2 DEF FrameOK, HeadKinds, WalkOK, PointOK, At
  <1>5. /\ f \in Frame /\ f.kind = "body" /\ f.head = Top.head /\ f.in = Top.in /\ f.active = Top.active
        /\ f.pend = Top.pend /\ f.loop = Top.loop /\ f.gin = Top.gin /\ f.bad = Top.bad
        /\ f.alt.has = Top.alt.has /\ f.alt.flow = flow /\ f.galt = path
    <2>1. "body" \in Kinds /\ [Top.alt EXCEPT !.flow = flow] \in Acc /\ Top.alt \in Acc
      BY <1>2 DEF Kinds, Acc, Frame, TypeOK
    <2>2. /\ [Top.alt EXCEPT !.flow = flow].has = Top.alt.has
          /\ [Top.alt EXCEPT !.flow = flow].flow = flow
      BY <2>1 DEF Acc
    <2> QED
      BY <1>2, <2>1, <2>2 DEF Frame, TypeOK
  <1> HIDE DEF f
  <1>6. FrameOK(f)
    BY <1>2, <1>3, <1>4, <1>5 DEF FrameOK, HeadKinds, ExprKinds, InnerHead
  <1>7. Link(f, head, flow, active, pend', loop.base)
    BY <1>3, <1>5 DEF Link, InnerHead, InnerBase, HeadKinds, ExprKinds, QuietKinds
  <1>8. PendOK(pend', active, flow)
    BY <1>1, OpenOK DEF WalkOK, PointOK, TypeOK
  <1>9. PointOK(head, path, bad, flow, active, pend', loop.base) /\ LoopOK(loop', head')
    BY <1>1, <1>8 DEF WalkOK, PointOK
  <1>10. /\ f.kind \notin {"assign", "defer", "return"} /\ Top.kind \notin {"assign", "defer"}
         /\ f.kind \in ExprKinds <=> Top.kind \in ExprKinds
    BY <1>1, <1>5 DEF ExprKinds
  <1> QED
    BY <1>1, <1>4, <1>5, <1>6, <1>7, <1>9, <1>10, RetopStep

LEMMA LoopPostStep ==
  ASSUME TypeOK, WalkOK, LoopPost
  PROVE  WalkOK'
  <1> DEFINE f == [Top EXCEPT !.kind = "post"]
  <1>1. /\ Len(stack) > 0 /\ Top.kind = "body" /\ stack' = Append(Under, f)
        /\ flow' = IterationFlow(loop, flow) /\ path' = Join(EndPath, loop.gcont) /\ bad' = EndBad
        /\ active' = Top.active /\ pend' = Top.pend
        /\ UNCHANGED <<status, loop, captured, head>>
    BY DEF LoopPost, At, Retop, LeaveBlock
  <1>2. FrameOK(Top) /\ Link(Top, head, flow, active, pend, loop.base) /\ Top \in Frame
    BY <1>1, WalkFacts
  <1>3. Top.in = head /\ Top.active = loop.base /\ Keeps(Top.active, Top.in, flow)
    BY <1>1, <1>2 DEF Link, InnerHead, InnerBase, HeadKinds
  <1>4. Sound(head, EndPath, flow) /\ Safe(head, EndBad) /\ DeadOK(EndPath, flow) /\ EndPath \in Rel
    BY <1>1, EndOK DEF At
  <1>5. /\ f \in Frame /\ f.kind = "post" /\ f.head = Top.head /\ f.in = Top.in /\ f.active = Top.active
        /\ f.pend = Top.pend /\ f.loop = Top.loop /\ f.gin = Top.gin /\ f.bad = Top.bad
        /\ f.alt = Top.alt /\ f.galt = Top.galt
    <2>1. "post" \in Kinds
      BY DEF Kinds
    <2> QED
      BY <1>2, <2>1 DEF Frame
  <1> HIDE DEF f
  <1>6. FrameOK(f)
    BY <1>1, <1>2, <1>5 DEF FrameOK, HeadKinds, ExprKinds, InnerHead
  <1>7. /\ loop.cont.flow \in Flow /\ loop.gcont \in Rel /\ flow \in Flow /\ head \in Flow
        /\ AccOK(loop.cont, loop.gcont, head, loop.base)
    BY DEF TypeOK, Loop, Acc, WalkOK, LoopOK
  <1>8. Sound(head, path', flow') /\ DeadOK(path', flow') /\ Keeps(Top.active, Top.in, flow')
    <2>1. CASE loop.cont.has
      <3>1. flow' = Merge(flow, loop.cont.flow)
        BY <1>1, <2>1 DEF IterationFlow
      <3>2. /\ Sound(head, loop.gcont, loop.cont.flow) /\ DeadOK(loop.gcont, loop.cont.flow)
            /\ Keeps(Top.active, Top.in, loop.cont.flow)
        BY <1>3, <1>7, <2>1 DEF AccOK, DeadOK
      <3>3. Keeps(Top.active, Top.in, flow')
        BY <1>3, <1>7, <3>1, <3>2, MergeKeeps
      <3> QED
        BY <1>1, <1>4, <1>7, <3>1, <3>2, <3>3, JoinMerge
    <2>2. CASE ~loop.cont.has
      <3>1. flow' = flow /\ Dead(loop.gcont)
        BY <1>1, <1>7, <2>2 DEF IterationFlow, AccOK
      <3> QED
        BY <1>1, <1>3, <1>4, <1>7, <3>1, JoinDead
    <2> QED
      BY <2>1, <2>2
  <1>9. PendOK(Top.pend, Top.active, flow')
    BY <1>2, <1>8, PendKeeps DEF FrameOK, PointOK
  <1>10. PointOK(head, path', bad', flow', Top.active, Top.pend, loop.base)
    BY <1>1, <1>3, <1>4, <1>8, <1>9 DEF PointOK
  <1>11. Link(f, head, flow', Top.active, Top.pend, loop.base)
    BY <1>3, <1>5, <1>8 DEF Link, InnerHead, InnerBase, HeadKinds, ExprKinds, QuietKinds
  <1>12. LoopOK(loop', head')
    BY <1>1 DEF WalkOK
  <1>13. /\ f.kind \notin {"assign", "defer", "return"} /\ Top.kind \notin {"assign", "defer"}
         /\ f.kind \in ExprKinds <=> Top.kind \in ExprKinds
    BY <1>1, <1>5 DEF ExprKinds
  <1> QED
    BY <1>1, <1>5, <1>6, <1>8, <1>10, <1>11, <1>12, <1>13, RetopStep

\* Any number of iterations leads from the loop's entry to states its entry allows.
LEMMA StarSound ==
  ASSUME NEW E \in Flow, NEW F \in Flow, NEW B \in Rel, NEW A,
         Sound(E, B, F), DeadOK(B, F), Keeps(A, E, F), BackedgeRestoresResources(E, F)
  PROVE  Sound(E, Star(B), E)
  <1>1. ASSUME NEW v \in Vars, NEW s \in Gamma(v, E.init[v])
        PROVE  B[v][s] \subseteq Gamma(v, E.init[v])
    <2>1. s \in States
      BY GammaSubset
    <2>2. CASE ~F.reachable
      BY <2>1, <2>2 DEF DeadOK, Dead
    <2>3. CASE F.reachable /\ v \in Resources
      BY <2>3 DEF Sound, BackedgeRestoresResources
    <2>4. CASE v \notin Resources
      BY <2>4, KeepsGamma DEF Sound
    <2> QED
      BY <2>2, <2>3, <2>4 DEF Flow
  <1>2. \A v \in Vars, s \in States : Star(B)[v][s] = {s} \cup B[v][s]
    BY DEF Star, Join, Identity
  <1> QED
    BY <1>1, <1>2, GammaSubset DEF Sound

LEMMA LoopEndStep ==
  ASSUME TypeOK, WalkOK, LoopEnd, Checking'
  PROVE  WalkOK'
  <1> DEFINE atHead == Then(Top.gin, Star(path))
             out == IF Top.always THEN NoPath ELSE Then(atHead, Top.galt)
             brk == Then(atHead, loop.gbrk)
  <1>0. ~Reject
    BY DEF Reject, Checking
  <1>1. /\ Len(stack) > 0 /\ Top.kind = "post" /\ stack' = Under
        /\ BackedgeRestoresResources(Top.in, flow)
        /\ flow' = ExitFlow(loop, Top.alt.flow, Top.always) /\ path' = Join(out, brk)
        /\ bad' = UseOr(Top.bad, Before(atHead, bad))
        /\ head' = Top.head /\ loop' = Top.loop
        /\ UNCHANGED <<status, active, captured, pend>>
    BY <1>0 DEF LoopEnd, At, Pop
  <1>2. FrameOK(Top) /\ Link(Top, head, flow, active, pend, loop.base) /\ Top \in Frame
    BY <1>1, WalkFacts
  <1>3. /\ Top.in = head /\ Top.active = loop.base /\ active = Top.active /\ pend = Top.pend
        /\ Keeps(Top.active, Top.in, flow)
    BY <1>1, <1>2 DEF Link, InnerHead, InnerBase, HeadKinds, QuietKinds
  <1>4. /\ Top.in \in Flow /\ Top.head \in Flow /\ Top.alt.flow \in Flow /\ Top.gin \in Rel /\ Top.galt \in Rel
        /\ Top.bad \in Uses /\ Top.always \in BOOLEAN
        /\ loop.brk.flow \in Flow /\ loop.brk.has \in BOOLEAN /\ loop.gbrk \in Rel
        /\ flow \in Flow /\ path \in Rel /\ bad \in Uses
    BY <1>2 DEF Frame, Acc, Loop, TypeOK
  <1>5. /\ Sound(Top.in, path, flow) /\ DeadOK(path, flow) /\ Safe(Top.in, bad)
        /\ AccOK(loop.brk, loop.gbrk, Top.in, Top.active)
    BY <1>1, <1>3 DEF WalkOK, PointOK, LoopOK, At
  <1>6. /\ PointOK(Top.head, Top.gin, Top.bad, Top.in, Top.active, Top.pend, Top.loop.base)
        /\ Sound(Top.head, Top.gin, Top.in) /\ Safe(Top.head, Top.bad)
        /\ LoopOK(Top.loop, Top.head) /\ Top.alt.has
        /\ Sound(Top.in, Top.galt, Top.alt.flow) /\ DeadOK(Top.galt, Top.alt.flow)
        /\ Keeps(Top.active, Top.in, Top.alt.flow)
    BY <1>1, <1>2 DEF FrameOK, PointOK, HeadKinds, InnerHead
  <1>7. atHead \in Rel /\ out \in Rel /\ brk \in Rel
    BY <1>4, RelTypes
  <1>8. Sound(Top.head, atHead, Top.in)
    <2>1. Sound(Top.in, Star(path), Top.in)
      BY <1>1, <1>3, <1>4, <1>5, StarSound
    <2>2. Star(path) \in Rel
      BY <1>4, RelTypes
    <2> QED
      BY <1>4, <1>6, <2>1, <2>2, ThenSound
  <1> HIDE DEF atHead
  <1>9. Safe(Top.head, bad')
    BY <1>1, <1>4, <1>5, <1>6, <1>7, <1>8, BeforeSafe
  <1>10. /\ ~Top.always => Sound(Top.head, out, Top.alt.flow) /\ DeadOK(out, Top.alt.flow)
         /\ Top.always => Dead(out)
    <2>1. ASSUME ~Top.always PROVE Sound(Top.head, out, Top.alt.flow) /\ DeadOK(out, Top.alt.flow)
      BY <2>1, <1>4, <1>6, <1>7, <1>8, ThenSound, DeadThen DEF DeadOK
    <2>2. ASSUME Top.always PROVE Dead(out)
      BY <2>2 DEF Dead, NoPath
    <2> QED
      BY <2>1, <2>2
  <1>11. IF loop.brk.has
         THEN /\ Sound(Top.head, brk, loop.brk.flow) /\ DeadOK(brk, loop.brk.flow)
              /\ Keeps(Top.active, Top.in, loop.brk.flow)
         ELSE Dead(brk)
    <2>1. CASE loop.brk.has
      BY <2>1, <1>4, <1>5, <1>7, <1>8, ThenSound DEF AccOK, DeadOK
    <2>2. CASE ~loop.brk.has
      BY <2>2, <1>4, <1>5, <1>7, DeadThen DEF AccOK
    <2> QED
      BY <2>1, <2>2
  <1> HIDE DEF out, brk
  <1>12. Sound(Top.head, path', flow') /\ DeadOK(path', flow') /\ Keeps(Top.active, Top.in, flow')
    <2>1. CASE Top.always /\ loop.brk.has
      <3>1. flow' = loop.brk.flow
        BY <1>1, <2>1 DEF ExitFlow
      <3> QED
        BY <1>1, <1>4, <1>7, <1>10, <1>11, <2>1, <3>1, JoinDead
    <2>2. CASE Top.always /\ ~loop.brk.has
      <3>1. flow' = Unreachable(Top.alt.flow)
        BY <1>1, <2>2 DEF ExitFlow
      <3>2. Dead(path')
        BY <1>1, <1>7, <1>10, <1>11, <2>2, DeadThen
      <3>3. path' \in Rel
        BY <1>1, <1>7, RelTypes
      <3>4. Keeps(Top.active, Top.in, flow')
        BY <1>4, <1>6, <3>1 DEF Keeps, Unreachable, Flow
      <3> QED
        BY <1>4, <3>2, <3>3, <3>4, DeadSound DEF DeadOK
    <2>3. CASE ~Top.always /\ loop.brk.has
      <3>1. flow' = Merge(Top.alt.flow, loop.brk.flow)
        BY <1>1, <2>3 DEF ExitFlow
      <3>2. Keeps(Top.active, Top.in, flow')
        BY <1>4, <1>6, <1>11, <2>3, <3>1, MergeKeeps
      <3> QED
        BY <1>1, <1>4, <1>7, <1>10, <1>11, <2>3, <3>1, <3>2, JoinMerge
    <2>4. CASE ~Top.always /\ ~loop.brk.has
      <3>1. flow' = Top.alt.flow
        BY <1>1, <2>4 DEF ExitFlow
      <3> QED
        BY <1>1, <1>4, <1>6, <1>7, <1>10, <1>11, <2>4, <3>1, JoinDead
    <2> QED
      BY <1>4, <2>1, <2>2, <2>3, <2>4
  <1>13. PointOK(Top.head, path', bad', flow', Top.active, Top.pend, Top.loop.base)
    BY <1>6, <1>9, <1>12, PointStep
  <1>14. Top.kind \notin ExprKinds \cup {"assign"}
    BY <1>1 DEF ExprKinds
  <1> QED
    BY <1>1, <1>3, <1>6, <1>12, <1>13, <1>14, PopStep

\* One more path to a break or continue target.
LEMMA AccStep ==
  ASSUME NEW a \in Acc, NEW g \in Rel, NEW H \in Flow, NEW A, NEW F \in Flow, NEW P \in Rel,
         AccOK(a, g, H, A), F.reachable, Sound(H, P, F), Keeps(A, H, F)
  PROVE  AccOK(Accumulate(a, F), Join(g, P), H, A)
  <1>1. a.flow \in Flow /\ a.has \in BOOLEAN /\ DeadOK(P, F)
    BY DEF Acc, DeadOK
  <1>2. CASE a.has
    <2>1. Accumulate(a, F).has /\ Accumulate(a, F).flow = Merge(a.flow, F)
      BY <1>2 DEF Accumulate
    <2>2. a.flow.reachable /\ Sound(H, g, a.flow) /\ Keeps(A, H, a.flow) /\ DeadOK(g, a.flow)
      BY <1>2 DEF AccOK, DeadOK
    <2>3. Sound(H, Join(g, P), Merge(a.flow, F)) /\ Keeps(A, H, Merge(a.flow, F))
      BY <1>1, <2>2, JoinMerge, MergeKeeps
    <2>4. Merge(a.flow, F).reachable
      BY <1>1, <2>2 DEF Merge, Flow
    <2> QED
      BY <2>1, <2>3, <2>4 DEF AccOK
  <1>3. CASE ~a.has
    <2>1. Accumulate(a, F).has /\ Accumulate(a, F).flow = F
      BY <1>3 DEF Accumulate
    <2>2. Sound(H, Join(g, P), F)
      BY <1>1, <1>3, JoinDead DEF AccOK
    <2> QED
      BY <2>1, <2>2 DEF AccOK
  <1> QED
    BY <1>1, <1>2, <1>3

LEMMA JumpStep ==
  ASSUME TypeOK, WalkOK, Break \/ Continue
  PROVE  WalkOK'
  <1> DEFINE P == RunPath(path, pend.loop)
  <1>1. /\ AtStatement /\ flow' = Unreachable(flow) /\ path' = NoPath /\ bad' = RunBad(path, bad, pend.loop)
        /\ UNCHANGED <<status, active, captured, stack, head, pend>>
    BY DEF Break, Continue
  <1>2. /\ ~InDefer /\ DeadOK(path, flow) /\ flow.reachable
        /\ Len(stack) > 0 => Top.kind \notin QuietKinds
    BY <1>1, WalkFacts
  <1>3. /\ pend.loop \in Deferred /\ DeferOK(pend.loop, active, flow) /\ Sound(head, path, flow) /\ Safe(head, bad)
        /\ head \in Flow /\ flow \in Flow /\ path \in Rel /\ bad \in Uses /\ loop \in Loop
        /\ Keeps(loop.base, head, flow) /\ LoopOK(loop, head)
    BY DEF TypeOK, Pend, WalkOK, PointOK, PendOK
  <1>4. Sound(head, P, flow) /\ Safe(head, bad') /\ P \in Rel
    BY <1>1, <1>3, RunOK, PendTypes
  <1> HIDE DEF P
  <1>5. /\ loop.brk \in Acc /\ loop.cont \in Acc /\ loop.gbrk \in Rel /\ loop.gcont \in Rel
        /\ AccOK(loop.brk, loop.gbrk, head, loop.base) /\ AccOK(loop.cont, loop.gcont, head, loop.base)
    BY <1>3 DEF Loop, LoopOK
  <1>6. /\ AccOK(Accumulate(loop.brk, flow), Join(loop.gbrk, P), head, loop.base)
        /\ AccOK(Accumulate(loop.cont, flow), Join(loop.gcont, P), head, loop.base)
    BY <1>2, <1>3, <1>4, <1>5, AccStep
  <1>7. loop'.base = loop.base /\ LoopOK(loop', head)
    <2>1. CASE Break
      <3>1. loop' = [loop EXCEPT !.brk = Accumulate(@, flow), !.gbrk = Join(@, P)]
        BY <2>1 DEF Break, P
      <3>2. /\ loop'.base = loop.base /\ loop'.brk = Accumulate(loop.brk, flow) /\ loop'.gbrk = Join(loop.gbrk, P)
            /\ loop'.cont = loop.cont /\ loop'.gcont = loop.gcont
        BY <1>3, <3>1 DEF Loop
      <3> QED
        BY <1>5, <1>6, <3>2 DEF LoopOK
    <2>2. CASE Continue
      <3>1. loop' = [loop EXCEPT !.cont = Accumulate(@, flow), !.gcont = Join(@, P)]
        BY <2>2 DEF Continue, P
      <3>2. /\ loop'.base = loop.base /\ loop'.cont = Accumulate(loop.cont, flow) /\ loop'.gcont = Join(loop.gcont, P)
            /\ loop'.brk = loop.brk /\ loop'.gbrk = loop.gbrk
        BY <1>3, <3>1 DEF Loop
      <3> QED
        BY <1>5, <1>6, <3>2 DEF LoopOK
    <2> QED
      BY <2>1, <2>2
  <1>8. Keeps(active, flow, flow') /\ StaysUninitialized(flow, flow')
    BY <1>1, <1>3 DEF Keeps, StaysUninitialized, Unreachable, Flow
  <1>9. Dead(path') /\ Sound(head, path', flow')
    BY <1>1, <1>3, RelTypes, DeadSound DEF Dead, NoPath
  <1>10. PointOK(head, path', bad', flow', active, pend, loop.base)
    BY <1>4, <1>8, <1>9, PointStep DEF WalkOK
  <1>11. StackOK(stack, head, flow', active, pend, loop.base)
    BY <1>8, StackStep DEF WalkOK, TypeOK
  <1>12. ~InDefer'
    BY <1>1, <1>2 DEF InDefer
  <1> QED
    BY <1>1, <1>7, <1>9, <1>10, <1>11, <1>12 DEF WalkOK, DeadOK

LEMMA ReturnEndStep ==
  ASSUME TypeOK, WalkOK, ReturnEnd
  PROVE  WalkOK'
  <1>1. /\ Len(stack) > 0 /\ Top.kind = "return" /\ stack' = Under
        /\ path' = NoPath /\ bad' = RunBad(path, bad, pend.all)
        /\ UNCHANGED <<status, flow, loop, active, captured, head, pend>>
    BY DEF ReturnEnd, At, Pop
  <1>2. FrameOK(Top) /\ Link(Top, head, flow, active, pend, loop.base) /\ Top \in Frame
    BY <1>1, WalkFacts
  <1>3. /\ Top.head = head /\ Top.loop.base = loop.base /\ active = Top.active /\ pend = Top.pend
        /\ Keeps(Top.active, Top.in, flow)
    BY <1>1, <1>2 DEF Link, InnerHead, InnerBase, HeadKinds, QuietKinds
  <1>4. pend.all \in Deferred /\ DeferOK(pend.all, active, flow) /\ head \in Flow /\ flow \in Flow
    BY DEF TypeOK, Pend, WalkOK, PointOK, PendOK
  <1>5. Safe(head, bad')
    BY <1>1, <1>4, RunOK DEF TypeOK, WalkOK, PointOK
  <1>6. Dead(path') /\ Sound(head, path', flow)
    BY <1>1, <1>4, RelTypes, DeadSound DEF Dead, NoPath
  <1>7. PointOK(head, path', bad', flow, active, pend, loop.base)
    BY <1>5, <1>6 DEF WalkOK, PointOK
  <1>8. LoopOK(loop', head') /\ Top.kind \notin ExprKinds \cup {"assign"} /\ DeadOK(path', flow')
    BY <1>1, <1>6 DEF WalkOK, ExprKinds, DeadOK
  <1> QED
    BY <1>1, <1>3, <1>7, <1>8, PopStep

LEMMA DeferEndStep ==
  ASSUME TypeOK, WalkOK, DeferEnd
  PROVE  WalkOK'
  <1> DEFINE new == [rel |-> path, bad |-> bad]
  <1>1. /\ Len(stack) > 0 /\ Top.kind = "defer" /\ stack' = Under
        /\ pend' = [k \in {"block", "loop", "all"} |-> Remember(pend[k], new)]
        /\ active' = Top.active \cup captured
        /\ flow' = Top.in /\ loop' = Top.loop /\ head' = Top.head /\ path' = Top.gin /\ bad' = Top.bad
    BY DEF DeferEnd, At, Pop, ActivateCaptured
  <1>2. FrameOK(Top) /\ Link(Top, head, flow, active, pend, loop.base) /\ Top \in Frame
    BY <1>1, WalkFacts
  <1>3. Top.in = head /\ active = Top.active /\ pend = Top.pend
    BY <1>1, <1>2 DEF Link, InnerHead, HeadKinds, QuietKinds
  <1>4. InDefer
    BY <1>1 DEF InDefer, Top, TypeOK
  <1>5. new \in Deferred /\ new.rel = path /\ new.bad = bad
    BY DEF TypeOK, Deferred
  <1> HIDE DEF new
  <1>6. DeferOK(new, Top.active \cup captured, Top.in)
    <2>1. DeferBody
      BY <1>4 DEF WalkOK
    <2> SUFFICES ASSUME NEW v \in Vars
                 PROVE  /\ I \notin bad[v]
                        /\ U \in bad[v] => head.init[v] = {I} /\ (v \in Resources => v \in captured)
                        /\ U \notin path[v][I]
                        /\ v \in Resources => I \notin path[v][U]
      BY <1>3, <1>5, Zenon DEF DeferOK
    <2> QED
      BY <2>1 DEF DeferBody
  <1>7. /\ pend'.block = Remember(pend.block, new) /\ pend'.loop = Remember(pend.loop, new)
        /\ pend'.all = Remember(pend.all, new)
    BY <1>1
  <1>8. /\ pend.block \in Deferred /\ pend.loop \in Deferred /\ pend.all \in Deferred
        /\ PendOK(pend, Top.active, Top.in) /\ Top.loop.base \subseteq Top.active
        /\ PointOK(Top.head, Top.gin, Top.bad, Top.in, Top.active, pend, Top.loop.base)
        /\ DeadOK(Top.gin, Top.in) /\ LoopOK(Top.loop, Top.head)
    BY <1>1, <1>2, <1>3 DEF TypeOK, Pend, FrameOK, PointOK, HeadKinds
  <1>9. PendOK(pend', Top.active \cup captured, Top.in)
    <2>1. /\ DeferOK(pend.block, Top.active, Top.in) /\ DeferOK(pend.loop, Top.active, Top.in)
          /\ DeferOK(pend.all, Top.active, Top.in)
      BY <1>8 DEF PendOK
    <2>2. /\ DeferOK(Remember(pend.block, new), Top.active \cup captured, Top.in)
          /\ DeferOK(Remember(pend.loop, new), Top.active \cup captured, Top.in)
          /\ DeferOK(Remember(pend.all, new), Top.active \cup captured, Top.in)
      BY <1>5, <1>6, <1>8, <2>1, RememberOK
    <2> QED
      BY <1>7, <2>2 DEF PendOK
  <1>10. PointOK(head', path', bad', flow', active', pend', loop'.base)
    BY <1>1, <1>8, <1>9 DEF PointOK
  <1>11. Keeps(Top.active, Top.in, Top.in) /\ StaysUninitialized(Top.in, Top.in)
    BY DEF Keeps, StaysUninitialized
  <1>12. /\ StackOK(Under, Top.head, Top.in, Top.active, Top.pend, Top.loop.base)
         /\ Len(Under) > 0 => Shape(Under[Len(Under)], Top)
         /\ \A i \in 1..Len(Under) : Under[i].kind # "defer"
    BY <1>1, <1>11, StackPop DEF TypeOK, WalkOK, Top, Under
  <1>13. Len(Under) > 0 => Under[Len(Under)].kind \notin QuietKinds
    BY <1>1, <1>12 DEF Shape, ExprKinds
  <1>14. StackOK(Under, Top.head, Top.in, Top.active \cup captured, pend', Top.loop.base)
    <2>1. Under \in Seq(Frame)
      BY <1>1, StackTypes DEF TypeOK
    <2> QED
      BY <1>12, <1>13, <2>1, StackGrow
  <1>15. ~InDefer'
    BY <1>1, <1>12 DEF InDefer
  <1> QED
    BY <1>1, <1>8, <1>10, <1>14, <1>15 DEF WalkOK

LEMMA InvInit == Init => Inv
  <1> SUFFICES ASSUME Init PROVE Inv
    OBVIOUS
  <1>1. TypeOK
    BY TypeInit
  <1>2. /\ flow \in Flow /\ head = flow /\ stack = <<>> /\ path = Identity /\ bad = NoUse /\ pend = NoPend
        /\ active = {} /\ loop = NoLoop(flow) /\ flow.reachable /\ status = "checking"
    BY <1>1 DEF Init, TypeOK
  <1>3. /\ Sound(flow, Identity, flow) /\ Safe(flow, NoUse) /\ Keeps({}, flow, flow) /\ Dead(NoPath)
    BY <1>2, IdentityOK
  <1>4. loop.base = {} /\ LoopOK(loop, head)
    BY <1>2, <1>3 DEF NoLoop, NewLoop, LoopOK, AccOK
  <1>5. PendOK(pend, {}, flow)
    <2>1. DeferOK(NoDefer, {}, flow)
      BY DEF DeferOK, NoDefer, Identity, NoUse, States, U, I
    <2> QED
      BY <1>2, <2>1 DEF PendOK, NoPend
  <1>6. PointOK(head, path, bad, flow, active, pend, loop.base)
    BY <1>2, <1>3, <1>4, <1>5 DEF PointOK
  <1>7. StackOK(stack, head, flow, active, pend, loop.base) /\ ~InDefer /\ DeadOK(path, flow)
    BY <1>2 DEF StackOK, InDefer, DeadOK
  <1> QED
    BY <1>1, <1>2, <1>4, <1>6, <1>7 DEF Inv, WalkOK

\* Every step but the last ones is taken while the walk goes on, and either
\* reports an error or goes on.
LEMMA StepStatus ==
  ASSUME Next
  PROVE  Done \/ FunctionEnd \/ (Checking /\ (Reject \/ status' = status))
  <1> DEFINE Goal == Checking /\ (Reject \/ status' = status)
  <1>1. ASSUME NEW v \in Vars, Read(v) \/ Move(v) \/ AssignBegin(v) PROVE Goal
    BY <1>1 DEF Read, Move, AssignBegin, AtExpression, AtAssignment, AtStatement
  <1>2. ASSUME NEW left \in Consts, LogicalBegin(left) PROVE Goal
    BY <1>2 DEF LogicalBegin, AtBranchingExpression, AtExpression
  <1>3. ASSUME AssignEnd \/ LogicalEnd \/ IfExprElse \/ IfExprEnd PROVE Goal
    BY <1>3 DEF AssignEnd, LogicalEnd, IfExprElse, IfExprEnd
  <1>4. ASSUME IfExprBegin \/ BlockBegin \/ IfBegin \/ SwitchBegin PROVE Goal
    BY <1>4 DEF IfExprBegin, BlockBegin, IfBegin, SwitchBegin, AtBranchingExpression, AtExpression, AtStatement
  <1>5. ASSUME BlockEnd \/ IfElse \/ IfEnd \/ CaseBegin \/ CaseEnd PROVE Goal
    BY <1>5 DEF BlockEnd, IfElse, IfEnd, CaseBegin, CaseEnd
  <1>6. ASSUME NEW b \in BOOLEAN, SwitchEnd(b) \/ LoopBegin(b) PROVE Goal
    BY <1>6 DEF SwitchEnd, LoopBegin, AtStatement
  <1>7. ASSUME LoopBody \/ LoopPost \/ LoopEnd PROVE Goal
    BY <1>7 DEF LoopBody, LoopPost, LoopEnd
  <1>8. ASSUME Break \/ Continue \/ ReturnBegin \/ DeferBegin PROVE Goal
    BY <1>8 DEF Break, Continue, ReturnBegin, DeferBegin, AtStatement
  <1>9. ASSUME ReturnEnd \/ DeferEnd \/ UnreachableStatement PROVE Goal
    BY <1>9 DEF ReturnEnd, DeferEnd, UnreachableStatement
  <1> HIDE DEF Goal
  <1>10. Done \/ FunctionEnd \/ Goal
    BY <1>1, <1>2, <1>3, <1>4, <1>5, <1>6, <1>7, <1>8, <1>9 DEF Next
  <1> QED
    BY <1>10 DEF Goal

LEMMA InvStep == Plain /\ Inv /\ [Next]_vars => Inv'
  <1> SUFFICES ASSUME Plain, Inv, [Next]_vars PROVE Inv'
    OBVIOUS
  <1>1. TypeOK /\ TypeOK'
    BY TypeStep DEF Inv
  <1>2. CASE Done \/ UNCHANGED vars
    <2>1. UNCHANGED <<status, flow, loop, active, captured, stack, head, path, bad, pend>>
      BY <1>2 DEF Done, vars
    <2> QED
      BY <1>1, <2>1 DEF Inv, Checking, WalkOK, InDefer, DeferBody, At, Top
  <1>3. CASE FunctionEnd
    <2>1. CASE Reject
      BY <1>1, <2>1 DEF Inv, Reject, Checking
    <2>2. CASE ~Reject
      <3>1. /\ status' = "accepted" /\ path' = EndPath /\ bad' = EndBad /\ head' = head
            /\ NonVoid => ~flow.reachable
            /\ WalkOK /\ Len(stack) = 0
        BY <1>3, <2>2 DEF FunctionEnd, Inv
      <3>2. Safe(head, EndBad) /\ DeadOK(EndPath, flow)
        BY <1>1, <3>1, EndOK DEF At
      <3> QED
        BY <1>1, <3>1, <3>2 DEF Inv, Checking, DeadOK
    <2> QED
      BY <2>1, <2>2
  <1>4. CASE Next /\ ~Done /\ ~FunctionEnd
    <2>1. Checking /\ WalkOK /\ (Reject \/ status' = status)
      BY <1>4, StepStatus DEF Inv
    <2>2. CASE Reject
      BY <1>1, <2>2 DEF Inv, Reject, Checking
    <2>3. CASE ~Reject
      <3>1. Checking' /\ ~UnreachableStatement
        BY <2>1, <2>3 DEF Checking, UnreachableStatement
      <3>2. WalkOK'
        BY <1>1, <1>4, <2>1, <3>1, ReadStep, MoveStep, AssignBeginStep, AssignEndStep, ExprBeginStep,
           LogicalEndStep, ElseStep, IfEndStep, BlockBeginStep, BlockEndStep, CaseBeginStep, CaseEndStep,
           SwitchEndStep, LoopBeginStep, LoopBodyStep, LoopPostStep, LoopEndStep, JumpStep, ReturnBeginStep,
           ReturnEndStep, DeferBeginStep, DeferEndStep DEF Next
      <3> QED
        BY <1>1, <3>1, <3>2 DEF Inv, Checking
    <2> QED
      BY <2>2, <2>3
  <1> QED
    BY <1>2, <1>3, <1>4

-----------------------------------------------------------------------------
(* The theorems. *)

LEMMA InvariantHolds ==
  ASSUME Plain
  PROVE  Spec => []Inv
  <1>1. Inv /\ [Next]_vars => Inv'
    BY InvStep
  <1> QED
    BY InvInit, <1>1, PTL DEF Spec

\* The analyser is sound: a function it accepts uses no uninitialised variable
\* and overwrites no live resource on any path, whatever its size and nesting.
THEOREM AnalysisIsSound ==
  ASSUME Plain
  PROVE  Spec => []AcceptedIsSafe
  <1>1. Inv => AcceptedIsSafe
    <2> SUFFICES ASSUME Inv, status = "accepted", NEW v \in Vars
                 PROVE  head.init[v] \cap bad[v] = {}
      BY Zenon DEF AcceptedIsSafe
    <2>1. Safe(head, bad) /\ head \in Flow
      BY DEF Inv, TypeOK
    <2>2. \A s \in head.init[v] : s \notin bad[v]
      BY <2>1, GammaSubset DEF Safe
    <2> QED
      BY <2>2
  <1> QED
    BY <1>1, InvariantHolds, PTL

\* check_function_body accepts a non-void function only if no path falls off its end.
THEOREM NonVoidReturns ==
  ASSUME Plain
  PROVE  Spec => []AcceptedReturns
  <1>1. Inv => AcceptedReturns
    BY DEF Inv, AcceptedReturns, Alive, Dead
  <1> QED
    BY <1>1, InvariantHolds, PTL

\* ctx->flow.reachable is false only where no path arrives, so no live statement
\* is reported unreachable and no live path is left out of a merge.
THEOREM UnreachableIsUnreached ==
  ASSUME Plain
  PROVE  Spec => []ReachedIsReachable
  <1>1. Inv => ReachedIsReachable
    <2> SUFFICES ASSUME Inv, Alive(path), Checking, \A i \in 1..Len(stack) : stack[i].kind # "return"
                 PROVE  flow.reachable
      BY DEF ReachedIsReachable
    <2>1. ~At("return")
      BY DEF At, Top, Inv, TypeOK
    <2> QED
      BY <2>1 DEF Inv, WalkOK, DeadOK, Dead, Alive
  <1> QED
    BY <1>1, InvariantHolds, PTL

\* Whatever a registered deferred statement needs is initialised, from its
\* registration on, wherever the block it belongs to can be left.
THEOREM DeferredStaysOwned ==
  ASSUME Plain
  PROVE  Spec => []DeferredIsOwned
  <1>1. Inv => DeferredIsOwned
    <2> SUFFICES ASSUME Inv, Checking, NEW v \in Vars, pend.all.bad[v] # {}
                 PROVE  flow.init[v] = {I}
      BY DEF DeferredIsOwned
    <2>1. DeferOK(pend.all, active, flow)
      BY DEF Inv, WalkOK, PointOK, PendOK
    <2>2. pend.all.bad[v] \subseteq States
      BY DEF Inv, TypeOK, Pend, Deferred, Uses
    <2> QED
      BY <2>1, <2>2 DEF DeferOK, States
  <1> QED
    BY <1>1, InvariantHolds, PTL

\* Every backedge the analyser accepts restores each resource, in the lowered
\* code, to the ownership state the loop's condition was checked under.
THEOREM BackedgesAreSound ==
  ASSUME Plain
  PROVE  Spec => BackedgesRestoreOwners
  <1> DEFINE Kept == At("post") /\ Len(stack') < Len(stack) /\ status' = "checking" =>
                       \A v \in Resources : \A s \in head.init[v] : path[v][s] \subseteq head.init[v]
  <1>1. ASSUME Inv, [Next]_vars PROVE [Kept]_vars
    <2> SUFFICES ASSUME Next, At("post"), Len(stack') < Len(stack), status' = "checking",
                        NEW v \in Resources, NEW s \in head.init[v]
                 PROVE  path[v][s] \subseteq head.init[v]
      BY <1>1
    <2>1. Checking /\ WalkOK /\ TypeOK
      <3>1. ~Done /\ ~FunctionEnd
        BY DEF Done, FunctionEnd, vars, At, Checking
      <3> QED
        BY <1>1, <3>1, StepStatus DEF Inv
    <2>2. LoopEnd /\ Checking'
      <3>1. ~Reject /\ Len(stack) \in Nat /\ Top.kind = "post" /\ Len(stack) > 0
        BY <2>1 DEF Reject, At, TypeOK
      <3>2. \A f : Len(Append(stack, f)) = Len(stack) + 1
        BY <2>1 DEF TypeOK
      <3>a. ASSUME NEW f, Push(f) PROVE FALSE
        BY <3>1, <3>2, <3>a DEF Push
      <3>b. ~AtStatement
        BY <3>1 DEF AtStatement, InBlock
      <3>3. ASSUME NEW w \in Vars, Read(w) \/ Move(w) \/ AssignBegin(w) PROVE FALSE
        <4>1. AssignBegin(w)
          BY <3>1, <3>3 DEF Read, Move
        <4>2. Push([NewFrame("assign") EXCEPT !.target = w])
          BY <3>1, <4>1, Zenon DEF AssignBegin
        <4> QED
          BY <3>a, <4>2
      <3>4. ~(AssignEnd \/ LogicalEnd \/ IfExprElse \/ IfExprEnd \/ BlockEnd \/ IfElse \/ IfEnd)
        BY <3>1 DEF AssignEnd, LogicalEnd, IfExprElse, IfExprEnd, BlockEnd, IfElse, IfEnd, At
      <3>5. ~(CaseBegin \/ CaseEnd \/ LoopBody \/ LoopPost \/ ReturnEnd \/ DeferEnd)
        BY <3>1 DEF CaseBegin, CaseEnd, LoopBody, LoopPost, ReturnEnd, DeferEnd, At
      <3>6. ASSUME NEW b \in BOOLEAN, SwitchEnd(b) \/ LoopBegin(b) PROVE FALSE
        <4>1. CASE SwitchEnd(b)
          BY <3>1, <4>1 DEF SwitchEnd, At
        <4>2. CASE LoopBegin(b)
          BY <3>b, <4>2, Zenon DEF LoopBegin
        <4> QED
          BY <3>6, <4>1, <4>2
      <3>7. ASSUME IfExprBegin \/ \E left \in Consts : LogicalBegin(left) PROVE FALSE
        <4>1. \E f : Push(f)
          BY <3>7, Zenon DEF IfExprBegin, LogicalBegin
        <4> QED
          BY <3>a, <4>1
      <3>8. ~(BlockBegin \/ IfBegin \/ SwitchBegin \/ Break \/ Continue \/ ReturnBegin \/ DeferBegin)
        BY <3>b DEF BlockBegin, IfBegin, SwitchBegin, Break, Continue, ReturnBegin, DeferBegin
      <3>9. ~(UnreachableStatement \/ FunctionEnd \/ Done)
        BY <2>1, <3>1 DEF UnreachableStatement, FunctionEnd, Done
      <3> QED
        BY <3>3, <3>4, <3>5, <3>6, <3>7, <3>8, <3>9 DEF Next, Checking
    <2>3. /\ Top.in = head /\ BackedgeRestoresResources(head, flow)
      <3>1. /\ Len(stack) > 0 /\ Top.kind = "post" /\ BackedgeRestoresResources(Top.in, flow)
        BY <2>2 DEF LoopEnd, At, Reject, Checking
      <3> QED
        BY <2>1, <3>1, WalkFacts DEF Link, InnerHead, HeadKinds
    <2>4. v \in Vars /\ head \in Flow /\ flow \in Flow /\ s \in States
      BY <2>1, ConstantsAssumption DEF TypeOK, Flow, Entries
    <2>5. CASE flow.reachable
      <3>1. s \in Gamma(v, head.init[v]) /\ Gamma(v, flow.init[v]) = head.init[v]
        BY <2>3, <2>5 DEF Gamma, BackedgeRestoresResources
      <3> QED
        BY <2>1, <2>4, <3>1 DEF WalkOK, PointOK, Sound
    <2>6. CASE ~flow.reachable
      <3>1. DeadOK(path, flow)
        BY <2>1, <2>2 DEF WalkOK, LoopEnd, At
      <3> QED
        BY <2>4, <2>6, <3>1 DEF DeadOK, Dead
    <2> QED
      BY <2>5, <2>6
  <1> QED
    BY <1>1, InvariantHolds, PTL DEF BackedgesRestoreOwners, Spec

-----------------------------------------------------------------------------
(* Precision: the states the analyser allows are met on paths. *)

\* Some path of P takes v from s to t, or past a deferred assignment to v.
Meets(P, v, s, t) == t \in P[v][s] \/ (v \notin Resources /\ I \in P[v][s])

\* What F allows is met on the paths P from the states H allows.
Wit(H, P, F) == F.reachable => \A v \in Vars : \A t \in F.init[v] : \E s \in H.init[v] : Meets(P, v, s, t)

\* An ordinary variable stays initialised on the paths P, if there are any.
Lasting(P) == \A v \in Vars : v \notin Resources /\ (P[v][U] # {} \/ P[v][I] # {}) => I \in P[v][I]

\* Code with the paths P leaves every variable as it is, or initialises it.
Passes(P) == \A v \in Vars : \A s \in States : Meets(P, v, s, s)
PendPasses(p) == Passes(p.block.rel) /\ Passes(p.loop.rel) /\ Passes(p.all.rel)

LoopWit(l, h) ==
  /\ Lasting(l.gbrk) /\ Lasting(l.gcont)
  /\ l.brk.has => Wit(h, l.gbrk, l.brk.flow)
  /\ l.cont.has => Wit(h, l.gcont, l.cont.flow)

FrameWit(f) ==
  /\ Wit(f.head, f.gin, f.in) /\ Lasting(f.gin)
  /\ PendPasses(f.pend)
  /\ f.kind \in HeadKinds => LoopWit(f.loop, f.head) /\ f.in.reachable
  /\ Lasting(f.galt)
  /\ f.alt.has => Wit(InnerHead(f), f.galt, f.alt.flow)

\* A return value does not branch, and no path goes on after it.
ReturnsLast(st, F) ==
  /\ \A i \in 1..(Len(st) - 1) : st[i].kind # "return"
  /\ Len(st) > 0 /\ st[Len(st)].kind = "return" => ~F.reachable

PointWit(h, P, F, p, l) == Wit(h, P, F) /\ Lasting(P) /\ PendPasses(p) /\ LoopWit(l, h)

Witnessed ==
  /\ PointWit(head, path, flow, pend, loop)
  /\ \A i \in 1..Len(stack) : FrameWit(stack[i])
  /\ ReturnsLast(stack, flow)
  /\ InDefer => Passes(path)
WitInv == Checking => Witnessed

LEMMA StatesOf == ASSUME NEW F \in Flow, NEW v \in Vars PROVE /\ F.init[v] \subseteq States /\ F.init[v] # {} /\ U \in States /\ I \in States
                                                             /\ \A s \in States : s = U \/ s = I
  BY DEF Flow, Entries, States

LEMMA MeetsJoin ==
  ASSUME NEW P \in Rel, NEW Q \in Rel, NEW v \in Vars, NEW s \in States, NEW t
  PROVE  Meets(P, v, s, t) \/ Meets(Q, v, s, t) => Meets(Join(P, Q), v, s, t)
  <1>1. Join(P, Q)[v][s] = P[v][s] \cup Q[v][s]
    BY DEF Join
  <1> QED BY <1>1 DEF Meets

\* P, then code that passes every variable on.
LEMMA MeetsPass ==
  ASSUME NEW P \in Rel, NEW R \in Rel, Passes(R), NEW v \in Vars, NEW s \in States, NEW t \in States, Meets(P, v, s, t)
  PROVE  Meets(Then(P, R), v, s, t)
  <1>1. Then(P, R)[v][s] = UNION {R[v][u] : u \in P[v][s]}
    BY DEF Then
  <1>2. I \in States
    BY DEF States
  <1>3. Meets(R, v, t, t) /\ Meets(R, v, I, I)
    BY <1>2 DEF Passes
  <1> QED BY <1>1, <1>3 DEF Meets

\* P to u, and from the states allowed Q to t.
LEMMA MeetsThen ==
  ASSUME NEW P \in Rel, NEW Q \in Rel, Lasting(Q), NEW v \in Vars, NEW s \in States, NEW u \in States, NEW t \in States,
         Meets(P, v, s, u), Meets(Q, v, u, t)
  PROVE  Meets(Then(P, Q), v, s, t)
  <1>1. Then(P, Q)[v][s] = UNION {Q[v][w] : w \in P[v][s]}
    BY DEF Then
  <1>2. CASE u \in P[v][s]
    BY <1>1, <1>2 DEF Meets
  <1>3. CASE u \notin P[v][s]
    <2>1. v \notin Resources /\ I \in P[v][s] /\ Q[v][u] # {}
      BY <1>3 DEF Meets
    <2>2. u = U \/ u = I
      BY DEF States
    <2>3. I \in Q[v][I]
      BY <2>1, <2>2 DEF Lasting
    <2> QED BY <1>1, <2>1, <2>3 DEF Meets
  <1> QED BY <1>2, <1>3

LEMMA WitJoin ==
  ASSUME NEW H \in Flow, NEW F \in Flow, NEW G \in Flow, NEW P \in Rel, NEW Q \in Rel
  PROVE  /\ Wit(H, P, F) /\ Wit(H, Q, G) => Wit(H, Join(P, Q), Merge(F, G))
         /\ Wit(H, P, F) => Wit(H, Join(P, Q), F)
         /\ Wit(H, Q, F) => Wit(H, Join(P, Q), F)
  <1>1. \A v \in Vars : H.init[v] \subseteq States
    BY StatesOf
  <1>2. \A K \in Flow : Wit(H, P, K) \/ Wit(H, Q, K) => Wit(H, Join(P, Q), K)
    <2> SUFFICES ASSUME NEW K \in Flow, Wit(H, P, K) \/ Wit(H, Q, K), K.reachable, NEW v \in Vars, NEW t \in K.init[v]
                 PROVE  \E s \in H.init[v] : Meets(Join(P, Q), v, s, t)
      BY DEF Wit
    <2>1. PICK s \in H.init[v] : Meets(P, v, s, t) \/ Meets(Q, v, s, t)
      BY DEF Wit
    <2>2. s \in States
      BY <1>1
    <2> QED BY <2>1, <2>2, MeetsJoin
  <1>3. ASSUME Wit(H, P, F), Wit(H, Q, G) PROVE Wit(H, Join(P, Q), Merge(F, G))
    <2>1. CASE F.reachable /\ G.reachable
      <3>1. \A v \in Vars : Merge(F, G).init[v] = F.init[v] \cup G.init[v]
        BY <2>1 DEF Merge, Flow
      <3>2. Wit(H, Join(P, Q), F) /\ Wit(H, Join(P, Q), G)
        BY <1>2, <1>3
      <3> QED BY <2>1, <3>1, <3>2 DEF Wit
    <2>2. CASE ~ F.reachable /\ G.reachable
      <3>1. Merge(F, G) = G
        BY <2>2 DEF Merge
      <3> QED BY <1>2, <1>3, <3>1
    <2>3. CASE ~ G.reachable
      <3>1. Merge(F, G) = F
        BY <2>3 DEF Merge
      <3> QED BY <1>2, <1>3, <3>1
    <2> QED BY <2>1, <2>2, <2>3
  <1> QED BY <1>2, <1>3

LEMMA WitPass ==
  ASSUME NEW H \in Flow, NEW F \in Flow, NEW P \in Rel, NEW R \in Rel, Passes(R), Wit(H, P, F)
  PROVE  Wit(H, Then(P, R), F)
  <1> SUFFICES ASSUME F.reachable, NEW v \in Vars, NEW t \in F.init[v] PROVE \E s \in H.init[v] : Meets(Then(P, R), v, s, t)
    BY DEF Wit
  <1>1. PICK s \in H.init[v] : Meets(P, v, s, t)
    BY DEF Wit
  <1>2. s \in States /\ t \in States
    BY StatesOf
  <1> QED BY <1>1, <1>2, MeetsPass

LEMMA WitThen ==
  ASSUME NEW H \in Flow, NEW F \in Flow, NEW G \in Flow, NEW P \in Rel, NEW Q \in Rel,
         Wit(H, P, F), F.reachable, Wit(F, Q, G), Lasting(Q)
  PROVE  Wit(H, Then(P, Q), G)
  <1> SUFFICES ASSUME G.reachable, NEW v \in Vars, NEW t \in G.init[v] PROVE \E s \in H.init[v] : Meets(Then(P, Q), v, s, t)
    BY DEF Wit
  <1>1. PICK u \in F.init[v] : Meets(Q, v, u, t)
    BY DEF Wit
  <1>2. PICK s \in H.init[v] : Meets(P, v, s, u)
    BY DEF Wit
  <1>3. s \in States /\ t \in States /\ u \in States
    BY StatesOf
  <1> QED BY <1>1, <1>2, <1>3, MeetsThen

\* Q is P with v set to x on every path.
IsSetOn(Q, P, v, x) ==
  \A w \in Vars, s \in States : Q[w][s] = IF w = v THEN IF P[w][s] = {} THEN {} ELSE {x} ELSE P[w][s]

LEMMA SetOnIs ==
  ASSUME NEW P \in Rel, NEW v \in Vars, NEW x \in States
  PROVE  IsSetOn(SetOn(P, v, x), P, v, x)
  <1>1. \A w \in Vars, s \in States : SetOn(P, v, x)[w][s] = IF w = v THEN IF P[w][s] = {} THEN {} ELSE {x} ELSE P[w][s]
    BY DEF SetOn, Rel
  <1> QED BY <1>1 DEF IsSetOn

LEMMA WitSet ==
  ASSUME NEW H \in Flow, NEW F \in Flow, NEW P \in Rel, NEW v \in Vars, Wit(H, P, F)
  PROVE  Wit(H, SetOn(P, v, I), MarkInitialized(F, v)) /\ Wit(H, SetOn(P, v, U), MarkUninitialized(F, v))
  <1>1. ASSUME NEW x \in States, NEW G \in Flow, G.reachable = F.reachable, G.init = [F.init EXCEPT ![v] = {x}]
        PROVE  Wit(H, SetOn(P, v, x), G)
    <2> SUFFICES ASSUME G.reachable, NEW w \in Vars, NEW t \in G.init[w]
                 PROVE  \E s \in H.init[w] : Meets(SetOn(P, v, x), w, s, t)
      BY DEF Wit
    <2>0. F.init \in [Vars -> Entries]
      BY DEF Flow
    <2>3. IsSetOn(SetOn(P, v, x), P, v, x)
      BY SetOnIs
    <2>1. CASE w = v
      <3>1. t = x
        BY <1>1, <2>0, <2>1
      <3>2. PICK u \in F.init[v] : TRUE
        BY StatesOf
      <3>3. PICK s \in H.init[v] : Meets(P, v, s, u)
        BY <1>1, <3>2 DEF Wit
      <3>4. s \in States /\ P[v][s] # {}
        BY <3>3, StatesOf DEF Meets
      <3>5. SetOn(P, v, x)[v][s] = {x}
        BY <2>3, <3>4 DEF IsSetOn
      <3> QED BY <2>1, <3>1, <3>5 DEF Meets
    <2>2. CASE w # v
      <3>1. t \in F.init[w]
        BY <1>1, <2>0, <2>2
      <3>2. PICK s \in H.init[w] : Meets(P, w, s, t)
        BY <1>1, <3>1 DEF Wit
      <3>3. s \in States
        BY StatesOf
      <3>4. SetOn(P, v, x)[w][s] = P[w][s]
        BY <2>2, <2>3, <3>3 DEF IsSetOn
      <3> QED BY <3>2, <3>4 DEF Meets
    <2> QED BY <2>1, <2>2
  <1>2. /\ MarkInitialized(F, v).reachable = F.reachable /\ MarkUninitialized(F, v).reachable = F.reachable
        /\ MarkInitialized(F, v).init = [F.init EXCEPT ![v] = {I}] /\ MarkUninitialized(F, v).init = [F.init EXCEPT ![v] = {U}]
    BY DEF MarkInitialized, MarkUninitialized, Flow
  <1>3. MarkInitialized(F, v) \in Flow /\ MarkUninitialized(F, v) \in Flow
    BY FlowTypes
  <1>4. U \in States /\ I \in States
    BY DEF States
  <1> QED BY <1>1, <1>2, <1>3, <1>4

LEMMA LastingOf ==
  /\ Lasting(Identity) /\ Lasting(NoPath)
  /\ \A P, Q \in Rel : Lasting(P) /\ Lasting(Q) => Lasting(Join(P, Q)) /\ Lasting(Then(P, Q))
  /\ \A P \in Rel, v \in Vars : Lasting(P) => Lasting(SetOn(P, v, I)) /\ (v \in Resources => Lasting(SetOn(P, v, U)))
  <1>0. U \in States /\ I \in States
    BY DEF States
  <1>1. Lasting(Identity) /\ Lasting(NoPath)
    BY <1>0 DEF Lasting, Identity, NoPath
  <1>2. ASSUME NEW P \in Rel, NEW Q \in Rel, Lasting(P), Lasting(Q) PROVE Lasting(Join(P, Q)) /\ Lasting(Then(P, Q))
    <2>1. Lasting(Join(P, Q))
      BY <1>0, <1>2 DEF Lasting, Join
    <2>2. ASSUME NEW v \in Vars, v \notin Resources, Then(P, Q)[v][U] # {} \/ Then(P, Q)[v][I] # {} PROVE I \in Then(P, Q)[v][I]
      <3>1. \A s \in States : Then(P, Q)[v][s] = UNION {Q[v][w] : w \in P[v][s]}
        BY DEF Then
      <3>2. PICK s \in States : Then(P, Q)[v][s] # {}
        BY <1>0, <2>2
      <3>3. PICK w \in P[v][s] : Q[v][w] # {}
        BY <3>1, <3>2
      <3>4. w \in States
        BY <3>3 DEF Rel
      <3>5. (s = U \/ s = I) /\ (w = U \/ w = I)
        BY <3>4 DEF States
      <3>6. I \in P[v][I] /\ I \in Q[v][I]
        BY <1>2, <2>2, <3>3, <3>5 DEF Lasting
      <3> QED BY <1>0, <3>1, <3>6
    <2> QED BY <2>1, <2>2 DEF Lasting
  <1>3. ASSUME NEW P \in Rel, NEW v \in Vars, Lasting(P) PROVE Lasting(SetOn(P, v, I)) /\ (v \in Resources => Lasting(SetOn(P, v, U)))
    <2>1. IsSetOn(SetOn(P, v, I), P, v, I) /\ IsSetOn(SetOn(P, v, U), P, v, U)
      BY <1>0, SetOnIs
    <2>4. \A Q : IsSetOn(Q, P, v, I) => Lasting(Q)
      BY <1>0, <1>3 DEF Lasting, IsSetOn
    <2>5. \A Q : v \in Resources /\ IsSetOn(Q, P, v, U) => Lasting(Q)
      BY <1>0, <1>3 DEF Lasting, IsSetOn
    <2>2. Lasting(SetOn(P, v, I))
      BY <2>1, <2>4
    <2>3. v \in Resources => Lasting(SetOn(P, v, U))
      BY <2>1, <2>5
    <2> QED BY <2>2, <2>3
  <1> QED BY <1>1, <1>2, <1>3

LEMMA PassesOf ==
  /\ Passes(Identity)
  /\ \A P, Q \in Rel : /\ Passes(P) /\ Passes(Q) => Passes(Then(P, Q))
                       /\ Passes(P) => Passes(Join(P, Q))
  /\ \A P \in Rel : Passes(P) => Lasting(P)
  /\ \A P \in Rel, v \in Vars \ Resources : Passes(P) => Passes(SetOn(P, v, I))
  <1>0. U \in States /\ I \in States
    BY DEF States
  <1>1. Passes(Identity)
    BY DEF Passes, Meets, Identity
  <1>2. ASSUME NEW P \in Rel, NEW Q \in Rel PROVE /\ Passes(P) /\ Passes(Q) => Passes(Then(P, Q))
                                                  /\ Passes(P) => Passes(Join(P, Q))
    BY MeetsPass, MeetsJoin DEF Passes
  <1>3. ASSUME NEW P \in Rel, Passes(P) PROVE Lasting(P)
    BY <1>0, <1>3 DEF Passes, Lasting, Meets
  <1>4. ASSUME NEW P \in Rel, NEW v \in Vars \ Resources, Passes(P), NEW w \in Vars, NEW s \in States PROVE Meets(SetOn(P, v, I), w, s, s)
    <2>1. SetOn(P, v, I)[w][s] = IF w = v THEN IF P[w][s] = {} THEN {} ELSE {I} ELSE P[w][s]
      <3>1. IsSetOn(SetOn(P, v, I), P, v, I)
        BY <1>0, SetOnIs
      <3> QED BY <3>1 DEF IsSetOn
    <2>2. Meets(P, w, s, s)
      BY <1>4 DEF Passes
    <2> QED BY <1>4, <2>1, <2>2 DEF Meets
  <1> QED BY <1>1, <1>2, <1>3, <1>4 DEF Passes

\* At a head nothing has happened yet.
LEMMA WitStart == ASSUME NEW F \in Flow PROVE Wit(F, Identity, F) /\ \A H, P : Wit(H, P, Unreachable(F))
  <1>1. Wit(F, Identity, F)
    <2> SUFFICES ASSUME NEW v \in Vars, NEW t \in F.init[v] PROVE Meets(Identity, v, t, t)
      BY DEF Wit
    <2>1. t \in States
      BY StatesOf
    <2> QED BY <2>1 DEF Meets, Identity
  <1>2. ~ Unreachable(F).reachable
    BY DEF Unreachable, Flow
  <1> QED BY <1>1, <1>2 DEF Wit

LEMMA PendOf ==
  /\ PendPasses(NoPend)
  /\ \A p \in Pend : PendPasses(p) => PendPasses(OpenBlock(p)) /\ PendPasses(OpenLoopBody(p))
  BY PassesOf DEF PendPasses, NoPend, NoDefer, OpenBlock, OpenLoopBody, Pend

\* Running what is deferred.
LEMMA RunWit ==
  ASSUME NEW H \in Flow, NEW F \in Flow, NEW P \in Rel, NEW d \in Deferred, Passes(d.rel), Lasting(P)
  PROVE  Lasting(RunPath(P, d)) /\ RunPath(P, d) \in Rel /\ (Wit(H, P, F) => Wit(H, RunPath(P, d), F))
  <1>1. d.rel \in Rel
    BY DEF Deferred
  <1>2. Lasting(d.rel)
    BY <1>1, PassesOf
  <1> QED BY <1>1, <1>2, LastingOf, WitPass, RelTypes DEF RunPath

LEMMA LoopsOf ==
  ASSUME NEW F \in Flow, NEW A, NEW h
  PROVE  LoopWit(NewLoop(F, A), h) /\ LoopWit(NoLoop(F), h)
  BY LastingOf DEF LoopWit, NewLoop, NoLoop

-----------------------------------------------------------------------------
(* The stack of the witnesses. *)

LEMMA TopWit ==
  ASSUME TypeOK, WalkOK, Witnessed, Len(stack) > 0
  PROVE  /\ Top \in Frame /\ FrameWit(Top) /\ InnerHead(Top) = head
         /\ Top.kind \notin {"defer", "assign"} => ~InDefer
         /\ Top.in \in Flow /\ Top.head \in Flow /\ Top.alt.flow \in Flow /\ Top.alt.has \in BOOLEAN /\ Top.gin \in Rel /\ Top.galt \in Rel
         /\ Top.pend \in Pend /\ Top.alt \in Acc /\ Top.loop \in Loop
  <1>1. Len(stack) \in Nat
    BY DEF TypeOK
  <1>2. Len(stack) \in 1..Len(stack)
    BY <1>1
  <1>3. Top \in Frame /\ Link(Top, head, flow, active, pend, loop.base) /\ (Top.kind \notin {"defer", "assign"} => ~InDefer)
    BY WalkFacts
  <1>4. FrameWit(Top)
    BY <1>2 DEF Witnessed, Top
  <1> QED BY <1>3, <1>4 DEF Link, Frame, Acc

LEMMA NoReturn ==
  ASSUME TypeOK, Witnessed, Len(stack) = 0 \/ Top.kind # "return"
  PROVE  \A i \in 1..Len(stack) : stack[i].kind # "return"
  <1>1. Len(stack) \in Nat
    BY DEF TypeOK
  <1>2. \A i \in 1..(Len(stack) - 1) : stack[i].kind # "return"
    BY DEF Witnessed, ReturnsLast
  <1> QED BY <1>1, <1>2 DEF Top

LEMMA WitPush ==
  ASSUME TypeOK, Witnessed, NEW f \in Frame, stack' = Append(stack, f), FrameWit(f),
         PointWit(head', path', flow', pend', loop'),
         \A i \in 1..Len(stack) : stack[i].kind # "return", f.kind = "return" => ~flow'.reachable,
         InDefer \/ f.kind = "defer" => Passes(path')
  PROVE  Witnessed'
  <1>1. /\ Len(stack) \in Nat /\ Len(stack') = Len(stack) + 1 /\ stack'[Len(stack) + 1] = f
        /\ \A i \in 1..Len(stack) : stack'[i] = stack[i]
    BY DEF TypeOK
  <1>2. \A i \in 1..Len(stack') : i \in 1..Len(stack) \/ i = Len(stack) + 1
    BY <1>1
  <1>3. \A i \in 1..Len(stack') : FrameWit(stack'[i])
    BY <1>1, <1>2 DEF Witnessed
  <1>4. ReturnsLast(stack', flow')
    <2>1. \A i \in 1..(Len(stack') - 1) : stack'[i].kind # "return"
      BY <1>1
    <2> QED BY <1>1, <2>1 DEF ReturnsLast
  <1>5. InDefer' => InDefer \/ f.kind = "defer"
    BY <1>1, <1>2 DEF InDefer
  <1> QED BY <1>3, <1>4, <1>5 DEF Witnessed

LEMMA UnderIs ==
  ASSUME TypeOK, Len(stack) > 0
  PROVE  /\ Len(stack) \in Nat /\ Under \in Seq(Frame) /\ Len(Under) = Len(stack) - 1
         /\ \A i \in 1..(Len(stack) - 1) : Under[i] = stack[i] /\ i \in 1..Len(stack)
  <1>1. Len(stack) \in Nat /\ Len(stack) - 1 \in 0..Len(stack) /\ Under \in Seq(Frame)
    BY StackTypes DEF TypeOK
  <1>2. Len(Under) = Len(stack) - 1 /\ \A i \in 1..(Len(stack) - 1) : Under[i] = stack[i]
    BY <1>1, FrontSeq DEF Under, TypeOK
  <1> QED BY <1>1, <1>2

LEMMA WitPop ==
  ASSUME TypeOK, Witnessed, Len(stack) > 0, stack' = Under,
         PointWit(head', path', flow', pend', loop'), InDefer' => Passes(path')
  PROVE  Witnessed'
  <1>1. /\ Len(stack) \in Nat /\ Len(stack') = Len(stack) - 1
        /\ \A i \in 1..(Len(stack) - 1) : stack'[i] = stack[i] /\ i \in 1..Len(stack)
    BY UnderIs
  <1>2. \A i \in 1..Len(stack') : FrameWit(stack'[i])
    BY <1>1 DEF Witnessed
  <1>3. ReturnsLast(stack', flow')
    <2>1. \A i \in 1..(Len(stack) - 1) : stack[i].kind # "return"
      BY DEF Witnessed, ReturnsLast
    <2>2. \A i \in 1..Len(stack') : stack'[i].kind # "return"
      BY <1>1, <2>1
    <2>3. \A i \in 1..(Len(stack') - 1) : stack'[i].kind # "return"
      BY <1>1, <2>2
    <2>4. Len(stack') > 0 => stack'[Len(stack')].kind # "return"
      BY <1>1, <2>2
    <2> QED BY <2>3, <2>4 DEF ReturnsLast
  <1> QED BY <1>2, <1>3 DEF Witnessed

LEMMA WitRetop ==
  ASSUME TypeOK, WalkOK, Witnessed, Len(stack) > 0, Top.kind \notin {"defer", "assign"},
         NEW f \in Frame, stack' = Append(Under, f), FrameWit(f), f.kind \notin {"defer", "return"},
         PointWit(head', path', flow', pend', loop')
  PROVE  Witnessed' /\ ~InDefer'
  <1>1. /\ Len(stack) \in Nat /\ Under \in Seq(Frame) /\ Len(Under) = Len(stack) - 1
        /\ \A i \in 1..(Len(stack) - 1) : Under[i] = stack[i] /\ i \in 1..Len(stack)
    BY UnderIs
  <1>2. /\ Len(stack') = Len(stack) /\ stack'[Len(stack)] = f
        /\ \A i \in 1..(Len(stack) - 1) : stack'[i] = stack[i] /\ i \in 1..Len(stack)
    BY <1>1
  <1>3. \A i \in 1..Len(stack') : i \in 1..(Len(stack) - 1) \/ i = Len(stack)
    BY <1>1, <1>2
  <1>4. \A i \in 1..Len(stack') : FrameWit(stack'[i])
    BY <1>2, <1>3 DEF Witnessed
  <1>5. ReturnsLast(stack', flow')
    <2>1. \A i \in 1..(Len(stack) - 1) : stack[i].kind # "return"
      BY DEF Witnessed, ReturnsLast
    <2> QED BY <1>2, <2>1 DEF ReturnsLast
  <1>6. ~InDefer
    BY TopWit
  <1>7. ~InDefer'
    BY <1>2, <1>3, <1>6 DEF InDefer
  <1> QED BY <1>4, <1>5, <1>7 DEF Witnessed

LEMMA WitStay ==
  ASSUME Witnessed, stack' = stack, flow'.reachable => flow.reachable,
         PointWit(head', path', flow', pend', loop'), InDefer => Passes(path')
  PROVE  Witnessed'
  <1>1. ReturnsLast(stack', flow')
    BY DEF Witnessed, ReturnsLast
  <1>2. InDefer' => InDefer
    BY DEF InDefer
  <1> QED BY <1>1, <1>2 DEF Witnessed

-----------------------------------------------------------------------------
(* The steps keep the witnesses. *)

LEMMA ReadWit ==
  ASSUME TypeOK, WalkOK, Witnessed, NEW v \in Vars, Read(v), Checking'
  PROVE  Witnessed'
  <1>1. ~ Reject
    BY DEF Reject, Checking
  <1>2. UNCHANGED <<flow, loop, stack, head, path, pend>>
    BY <1>1 DEF Read
  <1> QED BY <1>2, WitStay DEF Witnessed

LEMMA MoveWit ==
  ASSUME TypeOK, WalkOK, Witnessed, Plain, NEW v \in Vars, Move(v), Checking'
  PROVE  Witnessed'
  <1>1. ~ Reject
    BY DEF Reject, Checking
  <1>2. /\ v \in Resources /\ ~ InDefer /\ flow' = MarkUninitialized(flow, v) /\ path' = SetOn(path, v, U)
        /\ UNCHANGED <<loop, stack, head, pend>>
    BY <1>1 DEF Move, Plain
  <1>3. flow \in Flow /\ head \in Flow /\ path \in Rel
    BY DEF TypeOK
  <1>4. Wit(head, path', flow') /\ Lasting(path')
    BY <1>2, <1>3, WitSet, LastingOf DEF Witnessed, PointWit
  <1>5. flow'.reachable = flow.reachable
    BY <1>2, <1>3 DEF MarkUninitialized, Flow
  <1>6. PointWit(head', path', flow', pend', loop')
    BY <1>2, <1>4 DEF Witnessed, PointWit
  <1> QED BY <1>2, <1>5, <1>6, WitStay

LEMMA NewFrameWit ==
  ASSUME TypeOK, Witnessed, NEW f, f.head = head, f.in = flow, f.gin = path, f.pend = pend, f.loop = loop,
         f.alt.has = FALSE, f.galt = NoPath, f.kind \in HeadKinds => flow.reachable
  PROVE  FrameWit(f)
  <1>1. Lasting(NoPath)
    BY LastingOf
  <1> QED BY <1>1 DEF FrameWit, Witnessed, PointWit

LEMMA AssignBeginWit ==
  ASSUME TypeOK, WalkOK, Witnessed, NEW v \in Vars, AssignBegin(v), Checking'
  PROVE  Witnessed'
  <1> DEFINE f == [NewFrame("assign") EXCEPT !.target = v]
  <1>1. ~ Reject
    BY DEF Reject, Checking
  <1>2. AtAssignment /\ stack' = Append(stack, f) /\ UNCHANGED <<flow, loop, head, path, pend>>
    BY <1>1 DEF AssignBegin, Push, ghost
  <1>3. /\ f \in Frame /\ f.kind = "assign" /\ f.head = head /\ f.in = flow
        /\ f.pend = pend /\ f.loop = loop /\ f.gin = path
        /\ f.alt.has = FALSE /\ f.galt = NoPath
    <2> DEFINE g == NewFrame("assign")
    <2>1. "assign" \in Kinds
      BY DEF Kinds
    <2>2. /\ g \in Frame /\ g.kind = "assign" /\ g.head = head /\ g.in = flow
          /\ g.pend = pend /\ g.loop = loop /\ g.gin = path /\ g.alt.has = FALSE /\ g.galt = NoPath
      BY <2>1, NewFrameFields
    <2>3. f = [g EXCEPT !.target = v]
      OBVIOUS
    <2> HIDE DEF f, g
    <2> QED BY <2>2, <2>3 DEF Frame
  <1> HIDE DEF f
  <1>4. FrameWit(f)
    BY <1>3, NewFrameWit DEF HeadKinds
  <1>5. Len(stack) = 0 \/ Top.kind # "return"
    BY <1>2 DEF AtAssignment, AtStatement, InBlock
  <1>6. \A i \in 1..Len(stack) : stack[i].kind # "return"
    BY <1>5, NoReturn
  <1> QED BY <1>2, <1>3, <1>4, <1>6, WitPush DEF Witnessed

LEMMA AssignEndWit ==
  ASSUME TypeOK, WalkOK, Witnessed, AssignEnd
  PROVE  Witnessed'
  <1> DEFINE v == Top.target
  <1>1. /\ Len(stack) > 0 /\ Top.kind = "assign" /\ stack' = Under
        /\ flow' = MarkInitialized(flow, v) /\ path' = SetOn(path, v, I)
        /\ UNCHANGED <<loop, head, pend>>
    BY DEF AssignEnd, At, Pop
  <1>2. v \in Vars
    BY <1>1, WalkFacts DEF FrameOK
  <1>3. flow \in Flow /\ head \in Flow /\ path \in Rel
    BY DEF TypeOK
  <1> HIDE DEF v
  <1>4. Wit(head, path', flow') /\ Lasting(path')
    BY <1>1, <1>2, <1>3, WitSet, LastingOf DEF Witnessed, PointWit
  <1>5. PointWit(head', path', flow', pend', loop')
    BY <1>1, <1>4 DEF Witnessed, PointWit
  <1>6. ASSUME InDefer' PROVE Passes(path')
    <2>1. InDefer
      <3>1. Len(stack') = Len(stack) - 1 /\ Len(stack) \in Nat /\ \A i \in 1..(Len(stack) - 1) : stack'[i] = stack[i] /\ i \in 1..Len(stack)
        BY <1>1, UnderIs
      <3> QED BY <1>6, <3>1 DEF InDefer
    <2>2. v \notin Resources
      BY <1>1, <2>1 DEF WalkOK, At, v
    <2>3. Passes(path)
      BY <2>1 DEF Witnessed
    <2> QED BY <1>1, <1>2, <1>3, <2>2, <2>3, PassesOf
  <1> QED BY <1>1, <1>5, <1>6, WitPop

LEMMA ExprBeginWit ==
  ASSUME TypeOK, WalkOK, Witnessed, Plain, IfExprBegin \/ \E left \in Consts : LogicalBegin(left)
  PROVE  Witnessed'
  <1>1. PICK f \in Frame :
          /\ stack' = Append(stack, f) /\ f.kind \in {"xthen", "logical"}
          /\ f.head = head /\ f.in = flow /\ f.active = active
          /\ f.pend = pend /\ f.loop = loop /\ f.gin = path /\ f.bad = bad
          /\ f.alt.has = FALSE /\ f.galt = NoPath
    BY ExprFrame
  <1>2. AtBranchingExpression /\ UNCHANGED <<flow, loop, head, path, pend>>
    BY DEF IfExprBegin, LogicalBegin, ghost
  <1>3. ~InDefer /\ \A i \in 1..Len(stack) : stack[i].kind # "return"
    BY <1>2 DEF AtBranchingExpression, Plain
  <1>4. FrameWit(f)
    BY <1>1, NewFrameWit DEF HeadKinds
  <1>5. f.kind # "return" /\ f.kind # "defer"
    BY <1>1
  <1> QED BY <1>1, <1>2, <1>3, <1>4, <1>5, WitPush DEF Witnessed

\* A statement that opens a construct.
LEMMA StatementWit ==
  ASSUME TypeOK, WalkOK, Witnessed, AtStatement
  PROVE  ~InDefer /\ flow.reachable /\ \A i \in 1..Len(stack) : stack[i].kind # "return"
  <1>1. Len(stack) = 0 \/ Top.kind # "return"
    BY DEF AtStatement, InBlock
  <1> QED BY <1>1, NoReturn, WalkFacts

LEMMA BlockBeginWit ==
  ASSUME TypeOK, WalkOK, Witnessed, BlockBegin \/ IfBegin \/ SwitchBegin
  PROVE  Witnessed'
  <1>1. PICK k \in {"block", "then", "switch"} :
          /\ stack' = Append(stack, NewFrame(k))
          /\ pend' = IF k = "switch" THEN pend ELSE OpenBlock(pend)
    BY DEF BlockBegin, IfBegin, SwitchBegin, Push, EnterBlock, NewFrame, ghost
  <1>2. AtStatement /\ UNCHANGED <<flow, loop, head, path>>
    BY DEF BlockBegin, IfBegin, SwitchBegin, ghost
  <1> DEFINE f == NewFrame(k)
  <1>3. k \in Kinds /\ k \notin HeadKinds /\ k # "return" /\ k # "defer"
    BY <1>1 DEF Kinds, HeadKinds
  <1>4. /\ f \in Frame /\ f.kind = k /\ f.head = head /\ f.in = flow
        /\ f.pend = pend /\ f.loop = loop /\ f.gin = path
        /\ f.alt.has = FALSE /\ f.galt = NoPath
    BY <1>3, NewFrameFields
  <1>5. stack' = Append(stack, f)
    BY <1>1
  <1> HIDE DEF f
  <1>6. FrameWit(f)
    BY <1>3, <1>4, NewFrameWit
  <1>7. PendPasses(pend')
    BY <1>1, PendOf DEF Witnessed, PointWit, TypeOK
  <1>8. PointWit(head', path', flow', pend', loop')
    BY <1>2, <1>7 DEF Witnessed, PointWit
  <1>9. ~InDefer /\ \A i \in 1..Len(stack) : stack[i].kind # "return"
    BY <1>2, StatementWit
  <1> QED BY <1>3, <1>4, <1>5, <1>6, <1>8, <1>9, WitPush

LEMMA ReturnBeginWit ==
  ASSUME TypeOK, WalkOK, Witnessed, ReturnBegin
  PROVE  Witnessed'
  <1> DEFINE f == NewFrame("return")
  <1>1. /\ AtStatement /\ stack' = Append(stack, f) /\ flow' = Unreachable(flow)
        /\ UNCHANGED <<loop, head, path, pend>>
    BY DEF ReturnBegin, Push, ghost
  <1>2. "return" \in Kinds
    BY DEF Kinds
  <1>3. /\ f \in Frame /\ f.kind = "return" /\ f.head = head /\ f.in = flow
        /\ f.pend = pend /\ f.loop = loop /\ f.gin = path
        /\ f.alt.has = FALSE /\ f.galt = NoPath
    BY <1>2, NewFrameFields
  <1> HIDE DEF f
  <1>4. FrameWit(f)
    BY <1>3, NewFrameWit DEF HeadKinds
  <1>5. ~ flow'.reachable /\ Wit(head, path, flow')
    BY <1>1, WitStart DEF TypeOK, Unreachable, Flow
  <1>6. PointWit(head', path', flow', pend', loop')
    BY <1>1, <1>5 DEF Witnessed, PointWit
  <1>7. ~InDefer /\ \A i \in 1..Len(stack) : stack[i].kind # "return"
    BY <1>1, StatementWit
  <1> QED BY <1>1, <1>3, <1>4, <1>5, <1>6, <1>7, WitPush

LEMMA LoopBeginWit ==
  ASSUME TypeOK, WalkOK, Witnessed, NEW always \in BOOLEAN, LoopBegin(always)
  PROVE  Witnessed'
  <1> DEFINE k == IF always THEN "body" ELSE "cond"
             f == [NewFrame(k) EXCEPT !.always = always, !.alt = [has |-> TRUE, flow |-> flow],
                                      !.galt = Identity]
  <1>1. /\ AtStatement /\ stack' = Append(stack, f)
        /\ loop' = NewLoop(flow, active) /\ head' = flow /\ path' = Identity
        /\ pend' = IF always THEN OpenLoopBody(pend) ELSE pend
        /\ flow' = flow
    BY DEF LoopBegin, Push
  <1>2. k \in Kinds /\ k \in HeadKinds /\ k # "return" /\ k # "defer"
    BY DEF Kinds, HeadKinds
  <1> HIDE DEF k
  <1>3. /\ f \in Frame /\ f.kind = k /\ f.head = head /\ f.in = flow
        /\ f.pend = pend /\ f.loop = loop /\ f.gin = path
        /\ f.alt.has = TRUE /\ f.alt.flow = flow /\ f.galt = Identity
    <2> DEFINE g == NewFrame(k)
    <2>1. /\ g \in Frame /\ g.kind = k /\ g.head = head /\ g.in = flow
          /\ g.pend = pend /\ g.loop = loop /\ g.gin = path
      BY <1>2, NewFrameFields
    <2> HIDE DEF g
    <2>2. [has |-> TRUE, flow |-> flow] \in Acc /\ Identity \in Rel
      BY RelTypes DEF Acc, TypeOK
    <2>3. f = [g EXCEPT !.always = always, !.alt = [has |-> TRUE, flow |-> flow], !.galt = Identity]
      BY DEF g
    <2> HIDE DEF f
    <2> QED BY <2>1, <2>2, <2>3 DEF Frame
  <1> HIDE DEF f
  <1>4. flow \in Flow /\ Wit(flow, Identity, flow) /\ Lasting(Identity)
    BY WitStart, LastingOf DEF TypeOK
  <1>5. ~InDefer /\ flow.reachable /\ \A i \in 1..Len(stack) : stack[i].kind # "return"
    BY <1>1, StatementWit
  <1>6. FrameWit(f)
    BY <1>2, <1>3, <1>4, <1>5 DEF FrameWit, Witnessed, PointWit, InnerHead
  <1>7. PendPasses(pend')
    BY <1>1, PendOf DEF Witnessed, PointWit, TypeOK
  <1>8. LoopWit(loop', head')
    BY <1>1, <1>4, LoopsOf
  <1>9. PointWit(head', path', flow', pend', loop')
    BY <1>1, <1>4, <1>7, <1>8 DEF PointWit
  <1> QED BY <1>1, <1>2, <1>3, <1>5, <1>6, <1>9, WitPush

LEMMA DeferBeginWit ==
  ASSUME TypeOK, WalkOK, Witnessed, DeferBegin
  PROVE  Witnessed'
  <1> DEFINE f == NewFrame("defer")
  <1>1. /\ AtStatement /\ stack' = Append(stack, f)
        /\ loop' = NoLoop(flow) /\ head' = flow /\ path' = Identity
        /\ UNCHANGED <<flow, pend>>
    BY DEF DeferBegin, Push
  <1>2. "defer" \in Kinds
    BY DEF Kinds
  <1>3. /\ f \in Frame /\ f.kind = "defer" /\ f.head = head /\ f.in = flow
        /\ f.pend = pend /\ f.loop = loop /\ f.gin = path
        /\ f.alt.has = FALSE /\ f.galt = NoPath
    BY <1>2, NewFrameFields
  <1> HIDE DEF f
  <1>4. flow \in Flow /\ Wit(flow, Identity, flow) /\ Lasting(Identity) /\ Passes(Identity)
    BY WitStart, LastingOf, PassesOf DEF TypeOK
  <1>5. flow.reachable /\ \A i \in 1..Len(stack) : stack[i].kind # "return"
    BY <1>1, StatementWit
  <1>6. FrameWit(f)
    BY <1>3, <1>5, NewFrameWit
  <1>7. LoopWit(loop', head')
    BY <1>1, <1>4, LoopsOf
  <1>8. PointWit(head', path', flow', pend', loop')
    BY <1>1, <1>4, <1>7 DEF PointWit, Witnessed
  <1>9. f.kind # "return"
    BY <1>3
  <1> QED BY <1>1, <1>3, <1>4, <1>5, <1>6, <1>8, <1>9, WitPush

\* Leaving a construct other than a deferred statement or its assignment.
LEMMA WitLeave ==
  ASSUME TypeOK, WalkOK, Witnessed, Len(stack) > 0, Top.kind \notin {"defer", "assign"}, stack' = Under,
         PointWit(head', path', flow', pend', loop')
  PROVE  Witnessed'
  <1>1. ~InDefer
    BY TopWit
  <1>2. Len(stack') = Len(stack) - 1 /\ Len(stack) \in Nat /\ \A i \in 1..(Len(stack) - 1) : stack'[i] = stack[i] /\ i \in 1..Len(stack)
    BY UnderIs
  <1>3. ~InDefer'
    BY <1>1, <1>2 DEF InDefer
  <1> QED BY <1>3, WitPop

\* The end of a block.
LEMMA EndWit ==
  ASSUME TypeOK, Witnessed
  PROVE  Wit(head, EndPath, flow) /\ Lasting(EndPath) /\ EndPath \in Rel
  <1>1. pend.block \in Deferred /\ head \in Flow /\ flow \in Flow /\ path \in Rel
    BY DEF TypeOK, Pend
  <1>2. Passes(pend.block.rel) /\ Wit(head, path, flow) /\ Lasting(path)
    BY DEF Witnessed, PointWit, PendPasses
  <1> QED BY <1>1, <1>2, RunWit DEF EndPath

LEMMA LogicalEndWit ==
  ASSUME TypeOK, WalkOK, Witnessed, LogicalEnd
  PROVE  Witnessed'
  <1>1. /\ Len(stack) > 0 /\ Top.kind = "logical" /\ stack' = Under
        /\ UNCHANGED <<loop, head, pend>>
    BY DEF LogicalEnd, At, Pop
  <1>2. /\ Top \in Frame /\ FrameWit(Top) /\ Top.head = head /\ Top.in \in Flow /\ Top.gin \in Rel
    BY <1>1, TopWit DEF InnerHead, HeadKinds
  <1>3. Top.left \in Consts /\ flow \in Flow /\ path \in Rel /\ head \in Flow
    BY <1>2 DEF Frame, TypeOK
  <1>4. Wit(head, Top.gin, Top.in) /\ Lasting(Top.gin) /\ Wit(head, path, flow) /\ Lasting(path)
    BY <1>2 DEF FrameWit, Witnessed, PointWit
  <1>5. Wit(head, path', flow') /\ Lasting(path')
    <2>1. CASE Top.left = "executes"
      BY <2>1, <1>4 DEF LogicalEnd, LogicalFlow
    <2>2. CASE Top.left = "skipped"
      BY <2>2, <1>4 DEF LogicalEnd, LogicalFlow
    <2>3. CASE Top.left = "unknown"
      <3>1. flow' = Merge(Top.in, flow) /\ path' = Join(Top.gin, path)
        BY <2>3 DEF LogicalEnd, LogicalFlow
      <3> QED BY <3>1, <1>2, <1>3, <1>4, WitJoin, LastingOf
    <2> QED BY <2>1, <2>2, <2>3, <1>3 DEF Consts
  <1>6. PointWit(head', path', flow', pend', loop')
    BY <1>1, <1>5 DEF Witnessed, PointWit
  <1>7. Top.kind \notin {"defer", "assign"}
    BY <1>1
  <1> QED BY <1>1, <1>6, <1>7, WitLeave

LEMMA ElseWit ==
  ASSUME TypeOK, WalkOK, Witnessed, IfExprElse \/ IfElse
  PROVE  Witnessed'
  <1>1. /\ Len(stack) > 0 /\ Top.kind \in {"xthen", "then"}
        /\ flow' = Top.in /\ path' = Top.gin
        /\ UNCHANGED <<loop, head>>
    BY DEF IfExprElse, IfElse, At
  <1>2. /\ Top \in Frame /\ FrameWit(Top) /\ Top.head = head /\ Top.pend \in Pend
    BY <1>1, TopWit DEF InnerHead, HeadKinds
  <1> DEFINE Other(k, P) == [Top EXCEPT !.kind = k, !.alt = [has |-> TRUE, flow |-> flow], !.galt = P]
  <1>3. PICK P \in Rel, k \in {"xelse", "else"} : stack' = Append(Under, Other(k, P)) /\ Wit(head, P, flow) /\ Lasting(P)
    <2>1. path \in Rel /\ Wit(head, path, flow) /\ Lasting(path)
      BY DEF Witnessed, PointWit, TypeOK
    <2>2. IfExprElse => stack' = Append(Under, Other("xelse", path))
      BY DEF IfExprElse, Retop
    <2>3. IfElse => stack' = Append(Under, Other("else", EndPath))
      BY DEF IfElse, Retop
    <2> HIDE DEF Other
    <2> QED BY <2>1, <2>2, <2>3, EndWit
  <1>4. PendPasses(pend')
    <2>1. pend' = pend \/ pend' = OpenBlock(Top.pend)
      BY DEF IfExprElse, IfElse, EnterBlock
    <2> QED BY <1>2, <2>1, PendOf DEF Witnessed, PointWit, FrameWit
  <1> DEFINE f == Other(k, P)
  <1>5. /\ f \in Frame /\ f.kind = k /\ f.head = Top.head /\ f.in = Top.in
        /\ f.pend = Top.pend /\ f.loop = Top.loop /\ f.gin = Top.gin
        /\ f.alt.has = TRUE /\ f.alt.flow = flow /\ f.galt = P
    <2>1. [has |-> TRUE, flow |-> flow] \in Acc /\ k \in Kinds
      BY DEF Acc, TypeOK, Kinds
    <2> QED BY <1>2, <2>1 DEF Frame
  <1>6. stack' = Append(Under, f)
    BY <1>3
  <1> HIDE DEF f, Other
  <1>7. k \notin HeadKinds /\ f.kind \notin {"defer", "return"} /\ Top.kind \notin {"defer", "assign"}
    BY <1>1, <1>5 DEF HeadKinds
  <1>8. FrameWit(f)
    BY <1>2, <1>3, <1>5, <1>7 DEF FrameWit, InnerHead
  <1>9. PointWit(head', path', flow', pend', loop')
    BY <1>1, <1>2, <1>4 DEF Witnessed, PointWit, FrameWit
  <1> QED BY <1>1, <1>5, <1>6, <1>7, <1>8, <1>9, WitRetop

LEMMA IfEndWit ==
  ASSUME TypeOK, WalkOK, Witnessed, IfExprEnd \/ IfEnd
  PROVE  Witnessed'
  <1>1. /\ Len(stack) > 0 /\ Top.kind \in {"xelse", "else"} /\ stack' = Under
        /\ flow' = Merge(Top.alt.flow, flow)
        /\ UNCHANGED <<loop, head>>
    BY DEF IfExprEnd, IfEnd, At, Pop
  <1>2. /\ FrameWit(Top) /\ Top.head = head /\ Top.alt.flow \in Flow /\ Top.galt \in Rel
        /\ InnerHead(Top) = head /\ flow \in Flow /\ head \in Flow
    BY <1>1, TopWit DEF InnerHead, HeadKinds, TypeOK
  <1>3. Wit(head, Top.galt, Top.alt.flow) /\ Lasting(Top.galt)
    <2>1. FrameOK(Top)
      BY <1>1, WalkFacts
    <2>2. Top.alt.has
      BY <1>1, <2>1 DEF FrameOK
    <2> QED BY <1>2, <2>2 DEF FrameWit
  <1>4. PICK P \in Rel : path' = Join(Top.galt, P) /\ Wit(head, P, flow) /\ Lasting(P)
    BY EndWit DEF IfExprEnd, IfEnd, TypeOK, Witnessed, PointWit
  <1>5. PendPasses(pend')
    BY <1>2 DEF IfExprEnd, IfEnd, LeaveBlock, FrameWit, Witnessed, PointWit
  <1>6. Wit(head, path', flow') /\ Lasting(path')
    BY <1>1, <1>2, <1>3, <1>4, WitJoin, LastingOf
  <1>7. PointWit(head', path', flow', pend', loop')
    BY <1>1, <1>5, <1>6 DEF Witnessed, PointWit
  <1>8. Top.kind \notin {"defer", "assign"}
    BY <1>1
  <1> QED BY <1>1, <1>7, <1>8, WitLeave

LEMMA BlockEndWit ==
  ASSUME TypeOK, WalkOK, Witnessed, BlockEnd
  PROVE  Witnessed'
  <1>1. /\ Len(stack) > 0 /\ Top.kind = "block" /\ stack' = Under
        /\ path' = EndPath /\ pend' = Top.pend
        /\ UNCHANGED <<flow, loop, head>>
    BY DEF BlockEnd, At, Pop, LeaveBlock
  <1>2. FrameWit(Top) /\ Top.kind \notin {"defer", "assign"}
    BY <1>1, TopWit
  <1>3. PointWit(head', path', flow', pend', loop')
    BY <1>1, <1>2, EndWit DEF Witnessed, PointWit, FrameWit
  <1> QED BY <1>1, <1>2, <1>3, WitLeave

LEMMA CaseBeginWit ==
  ASSUME TypeOK, WalkOK, Witnessed, CaseBegin
  PROVE  Witnessed'
  <1> DEFINE f == [Top EXCEPT !.kind = "case"]
  <1>1. /\ Len(stack) > 0 /\ Top.kind = "switch" /\ stack' = Append(Under, f)
        /\ pend' = OpenBlock(Top.pend)
        /\ UNCHANGED <<flow, loop, head, path>>
    BY DEF CaseBegin, At, Retop, EnterBlock
  <1>2. Top \in Frame /\ FrameWit(Top) /\ Top.pend \in Pend /\ Top.kind \notin {"defer", "assign"}
    BY <1>1, TopWit
  <1>3. /\ f \in Frame /\ f.kind = "case" /\ f.head = Top.head /\ f.in = Top.in
        /\ f.pend = Top.pend /\ f.loop = Top.loop /\ f.gin = Top.gin
        /\ f.alt = Top.alt /\ f.galt = Top.galt
    <2>1. "case" \in Kinds
      BY DEF Kinds
    <2> QED BY <1>2, <2>1 DEF Frame
  <1> HIDE DEF f
  <1>4. FrameWit(f) /\ f.kind \notin {"defer", "return"}
    BY <1>1, <1>2, <1>3 DEF FrameWit, HeadKinds, InnerHead
  <1>5. PendPasses(pend')
    BY <1>1, <1>2, PendOf DEF FrameWit
  <1>6. PointWit(head', path', flow', pend', loop')
    BY <1>1, <1>5 DEF Witnessed, PointWit
  <1> QED BY <1>1, <1>2, <1>3, <1>4, <1>6, WitRetop

LEMMA CaseEndWit ==
  ASSUME TypeOK, WalkOK, Witnessed, CaseEnd
  PROVE  Witnessed'
  <1> DEFINE a == CaseFlow(Top.alt, flow)
             P == Join(Top.galt, EndPath)
             f == [Top EXCEPT !.kind = "switch", !.alt = a, !.galt = P]
  <1>1. /\ Len(stack) > 0 /\ Top.kind = "case" /\ stack' = Append(Under, f)
        /\ flow' = Top.in /\ path' = Top.gin /\ pend' = Top.pend
        /\ UNCHANGED <<loop, head>>
    BY DEF CaseEnd, At, Retop, LeaveBlock
  <1>2. /\ Top \in Frame /\ FrameWit(Top) /\ Top.head = head /\ Top.alt \in Acc /\ Top.alt.flow \in Flow /\ Top.galt \in Rel
        /\ InnerHead(Top) = head /\ Top.kind \notin {"defer", "assign"}
    BY <1>1, TopWit DEF InnerHead, HeadKinds
  <1>3. Wit(head, EndPath, flow) /\ Lasting(EndPath) /\ EndPath \in Rel /\ flow \in Flow /\ head \in Flow
    BY EndWit DEF TypeOK
  <1>4. a \in Acc /\ P \in Rel /\ Lasting(P)
    BY <1>2, <1>3, FlowTypes, RelTypes, LastingOf DEF FrameWit
  <1>5. Wit(head, P, a.flow)
    <2>1. CASE Top.alt.has
      <3>1. a.flow = Merge(Top.alt.flow, flow)
        BY <2>1 DEF CaseFlow
      <3>2. Wit(head, Top.galt, Top.alt.flow)
        BY <1>2, <2>1 DEF FrameWit
      <3> QED BY <1>2, <1>3, <3>1, <3>2, WitJoin
    <2>2. CASE ~ Top.alt.has
      <3>1. a.flow = flow
        BY <2>2 DEF CaseFlow
      <3> QED BY <1>2, <1>3, <3>1, WitJoin
    <2> QED BY <2>1, <2>2
  <1> HIDE DEF a, P
  <1>6. /\ f \in Frame /\ f.kind = "switch" /\ f.head = Top.head /\ f.in = Top.in
        /\ f.pend = Top.pend /\ f.loop = Top.loop /\ f.gin = Top.gin
        /\ f.alt = a /\ f.galt = P
    <2>1. "switch" \in Kinds
      BY DEF Kinds
    <2> QED BY <1>2, <1>4, <2>1 DEF Frame
  <1> HIDE DEF f
  <1>7. FrameWit(f) /\ f.kind \notin {"defer", "return"}
    BY <1>2, <1>4, <1>5, <1>6 DEF FrameWit, HeadKinds, InnerHead
  <1>8. PointWit(head', path', flow', pend', loop')
    BY <1>1, <1>2 DEF Witnessed, PointWit, FrameWit
  <1> QED BY <1>1, <1>2, <1>6, <1>7, <1>8, WitRetop

LEMMA SwitchEndWit ==
  ASSUME TypeOK, WalkOK, Witnessed, NEW exhaustive \in BOOLEAN, SwitchEnd(exhaustive)
  PROVE  Witnessed'
  <1>1. /\ Len(stack) > 0 /\ Top.kind = "switch" /\ stack' = Under
        /\ exhaustive => Top.alt.has
        /\ flow' = SwitchFlow(Top, exhaustive)
        /\ path' = IF exhaustive THEN Top.galt ELSE Join(Top.galt, Top.gin)
        /\ UNCHANGED <<loop, head, pend>>
    BY DEF SwitchEnd, At, Pop
  <1>2. /\ FrameWit(Top) /\ Top.head = head /\ Top.in \in Flow /\ Top.gin \in Rel /\ Top.alt.flow \in Flow /\ Top.galt \in Rel
        /\ InnerHead(Top) = head /\ Top.kind \notin {"defer", "assign"} /\ head \in Flow
    BY <1>1, TopWit DEF InnerHead, HeadKinds, TypeOK
  <1>3. /\ Wit(head, Top.gin, Top.in) /\ Lasting(Top.gin) /\ Lasting(Top.galt)
        /\ Top.alt.has => Wit(head, Top.galt, Top.alt.flow)
    BY <1>2 DEF FrameWit
  <1>4. Lasting(path')
    BY <1>1, <1>2, <1>3, LastingOf
  <1>5. Wit(head, path', flow')
    <2>1. CASE exhaustive
      BY <1>1, <1>3, <2>1 DEF SwitchFlow
    <2>2. CASE ~ exhaustive /\ Top.alt.has
      <3>1. flow' = Merge(Top.alt.flow, Top.in) /\ path' = Join(Top.galt, Top.gin)
        BY <1>1, <2>2 DEF SwitchFlow
      <3> QED BY <1>2, <1>3, <2>2, <3>1, WitJoin
    <2>3. CASE ~ Top.alt.has
      <3>1. flow' = Top.in /\ path' = Join(Top.galt, Top.gin)
        BY <1>1, <2>3 DEF SwitchFlow
      <3> QED BY <1>2, <1>3, <3>1, WitJoin
    <2> QED BY <2>1, <2>2, <2>3
  <1>6. PointWit(head', path', flow', pend', loop')
    BY <1>1, <1>4, <1>5 DEF Witnessed, PointWit
  <1> QED BY <1>1, <1>2, <1>6, WitLeave

LEMMA LoopBodyWit ==
  ASSUME TypeOK, WalkOK, Witnessed, LoopBody
  PROVE  Witnessed'
  <1> DEFINE f == [Top EXCEPT !.kind = "body", !.alt.flow = flow, !.galt = path]
  <1>1. /\ Len(stack) > 0 /\ Top.kind = "cond" /\ stack' = Append(Under, f)
        /\ pend' = OpenLoopBody(pend)
        /\ UNCHANGED <<flow, loop, head, path>>
    BY DEF LoopBody, At, Retop
  <1>2. /\ Top \in Frame /\ FrameWit(Top) /\ Top.in = head /\ Top.kind \notin {"defer", "assign"} /\ Top.kind \in HeadKinds
        /\ flow \in Flow /\ path \in Rel /\ Top.alt \in Acc
    BY <1>1, TopWit DEF InnerHead, HeadKinds, TypeOK
  <1>3. /\ f \in Frame /\ f.kind = "body" /\ f.head = Top.head /\ f.in = Top.in
        /\ f.pend = Top.pend /\ f.loop = Top.loop /\ f.gin = Top.gin
        /\ f.alt.has = Top.alt.has /\ f.alt.flow = flow /\ f.galt = path
    <2>1. "body" \in Kinds /\ [Top.alt EXCEPT !.flow = flow] \in Acc
      BY <1>2 DEF Kinds, Acc
    <2>2. /\ [Top.alt EXCEPT !.flow = flow].has = Top.alt.has
          /\ [Top.alt EXCEPT !.flow = flow].flow = flow
      BY <1>2 DEF Acc
    <2> QED BY <1>2, <2>1, <2>2 DEF Frame
  <1> HIDE DEF f
  <1>4. FrameWit(f) /\ f.kind \notin {"defer", "return"}
    BY <1>2, <1>3 DEF FrameWit, HeadKinds, InnerHead, Witnessed, PointWit
  <1>5. PendPasses(pend')
    BY <1>1, PendOf DEF Witnessed, PointWit, TypeOK
  <1>6. PointWit(head', path', flow', pend', loop')
    BY <1>1, <1>5 DEF Witnessed, PointWit
  <1> QED BY <1>1, <1>2, <1>3, <1>4, <1>6, WitRetop

LEMMA LoopPostWit ==
  ASSUME TypeOK, WalkOK, Witnessed, LoopPost
  PROVE  Witnessed'
  <1> DEFINE f == [Top EXCEPT !.kind = "post"]
  <1>1. /\ Len(stack) > 0 /\ Top.kind = "body" /\ stack' = Append(Under, f)
        /\ flow' = IterationFlow(loop, flow) /\ path' = Join(EndPath, loop.gcont)
        /\ pend' = Top.pend
        /\ UNCHANGED <<loop, head>>
    BY DEF LoopPost, At, Retop, LeaveBlock
  <1>2. Top \in Frame /\ FrameWit(Top) /\ Top.kind \notin {"defer", "assign"}
    BY <1>1, TopWit
  <1>3. /\ f \in Frame /\ f.kind = "post" /\ f.head = Top.head /\ f.in = Top.in
        /\ f.pend = Top.pend /\ f.loop = Top.loop /\ f.gin = Top.gin
        /\ f.alt = Top.alt /\ f.galt = Top.galt
    <2>1. "post" \in Kinds
      BY DEF Kinds
    <2> QED BY <1>2, <2>1 DEF Frame
  <1> HIDE DEF f
  <1>4. FrameWit(f) /\ f.kind \notin {"defer", "return"}
    BY <1>1, <1>2, <1>3 DEF FrameWit, HeadKinds, InnerHead
  <1>5. /\ loop.cont.flow \in Flow /\ loop.gcont \in Rel /\ flow \in Flow /\ head \in Flow
        /\ Lasting(loop.gcont) /\ (loop.cont.has => Wit(head, loop.gcont, loop.cont.flow))
    BY DEF TypeOK, Loop, Acc, Witnessed, PointWit, LoopWit
  <1>6. Wit(head, EndPath, flow) /\ Lasting(EndPath) /\ EndPath \in Rel
    BY EndWit
  <1>7. Wit(head, path', flow') /\ Lasting(path')
    <2>1. CASE loop.cont.has
      <3>1. flow' = Merge(flow, loop.cont.flow)
        BY <1>1, <2>1 DEF IterationFlow
      <3> QED BY <1>1, <1>5, <1>6, <2>1, <3>1, WitJoin, LastingOf
    <2>2. CASE ~ loop.cont.has
      <3>1. flow' = flow
        BY <1>1, <2>2 DEF IterationFlow
      <3> QED BY <1>1, <1>5, <1>6, <3>1, WitJoin, LastingOf
    <2> QED BY <2>1, <2>2
  <1>8. PointWit(head', path', flow', pend', loop')
    BY <1>1, <1>2, <1>7 DEF Witnessed, PointWit, FrameWit
  <1> QED BY <1>1, <1>2, <1>3, <1>4, <1>8, WitRetop

LEMMA LoopEndWit ==
  ASSUME TypeOK, WalkOK, Witnessed, LoopEnd, Checking'
  PROVE  Witnessed'
  <1> DEFINE atHead == Then(Top.gin, Star(path))
             out == IF Top.always THEN NoPath ELSE Then(atHead, Top.galt)
             brk == Then(atHead, loop.gbrk)
  <1>0. ~Reject
    BY DEF Reject, Checking
  <1>1. /\ Len(stack) > 0 /\ Top.kind = "post" /\ stack' = Under
        /\ flow' = ExitFlow(loop, Top.alt.flow, Top.always) /\ path' = Join(out, brk)
        /\ head' = Top.head /\ loop' = Top.loop /\ pend' = pend
    BY <1>0 DEF LoopEnd, At, Pop
  <1>2. /\ FrameWit(Top) /\ Top \in Frame /\ InnerHead(Top) = head /\ Top.kind \notin {"defer", "assign"} /\ Top.kind \in HeadKinds
        /\ Top.in \in Flow /\ Top.head \in Flow /\ Top.alt.flow \in Flow /\ Top.gin \in Rel /\ Top.galt \in Rel
    BY <1>1, TopWit DEF HeadKinds
  <1>3. /\ Top.in = head /\ Top.always \in BOOLEAN
        /\ loop.brk.flow \in Flow /\ loop.brk.has \in BOOLEAN /\ loop.gbrk \in Rel /\ path \in Rel
    BY <1>2 DEF Frame, Acc, Loop, TypeOK, InnerHead
  <1>4. /\ Wit(Top.head, Top.gin, Top.in) /\ Lasting(Top.gin) /\ Top.in.reachable
        /\ Lasting(Top.galt) /\ LoopWit(Top.loop, Top.head)
        /\ Lasting(path) /\ Lasting(loop.gbrk) /\ (loop.brk.has => Wit(Top.in, loop.gbrk, loop.brk.flow))
        /\ PendPasses(pend)
    BY <1>2, <1>3 DEF FrameWit, Witnessed, PointWit, LoopWit
  <1>5. Wit(Top.in, Top.galt, Top.alt.flow)
    <2>1. FrameOK(Top)
      BY <1>1, WalkFacts
    <2>2. Top.alt.has
      BY <1>1, <2>1 DEF FrameOK
    <2> QED BY <1>2, <1>3, <2>2 DEF FrameWit
  <1>6. atHead \in Rel /\ Wit(Top.head, atHead, Top.in) /\ Lasting(atHead)
    <2>1. Star(path) \in Rel /\ Passes(Star(path))
      BY <1>3, RelTypes, PassesOf DEF Star
    <2>2. Lasting(Star(path))
      BY <2>1, PassesOf
    <2> QED BY <1>2, <1>4, <2>1, <2>2, WitPass, LastingOf, RelTypes
  <1> HIDE DEF atHead
  <1>7. /\ out \in Rel /\ brk \in Rel /\ Lasting(out) /\ Lasting(brk)
    BY <1>2, <1>3, <1>4, <1>6, RelTypes, LastingOf
  <1>8. /\ ~ Top.always => Wit(Top.head, out, Top.alt.flow)
        /\ loop.brk.has => Wit(Top.head, brk, loop.brk.flow)
    BY <1>2, <1>3, <1>4, <1>5, <1>6, WitThen
  <1> HIDE DEF out, brk
  <1>9. Wit(Top.head, path', flow')
    <2>1. CASE Top.always /\ loop.brk.has
      <3>1. flow' = loop.brk.flow
        BY <1>1, <2>1 DEF ExitFlow
      <3> QED BY <1>1, <1>2, <1>3, <1>7, <1>8, <2>1, <3>1, WitJoin
    <2>2. CASE Top.always /\ ~ loop.brk.has
      <3>1. flow' = Unreachable(Top.alt.flow)
        BY <1>1, <2>2 DEF ExitFlow
      <3> QED BY <1>2, <3>1, WitStart
    <2>3. CASE ~ Top.always /\ loop.brk.has
      <3>1. flow' = Merge(Top.alt.flow, loop.brk.flow)
        BY <1>1, <2>3 DEF ExitFlow
      <3> QED BY <1>1, <1>2, <1>3, <1>7, <1>8, <2>3, <3>1, WitJoin
    <2>4. CASE ~ Top.always /\ ~ loop.brk.has
      <3>1. flow' = Top.alt.flow
        BY <1>1, <2>4 DEF ExitFlow
      <3> QED BY <1>1, <1>2, <1>3, <1>7, <1>8, <2>4, <3>1, WitJoin
    <2> QED BY <1>3, <2>1, <2>2, <2>3, <2>4
  <1>10. Lasting(path')
    BY <1>1, <1>7, LastingOf
  <1>11. PointWit(head', path', flow', pend', loop')
    BY <1>1, <1>4, <1>9, <1>10 DEF PointWit
  <1> QED BY <1>1, <1>2, <1>11, WitLeave

\* A break or continue adds its path to those of its target.
LEMMA AccWit ==
  ASSUME NEW H \in Flow, NEW F \in Flow, F.reachable, NEW a \in Acc, NEW g \in Rel, NEW P \in Rel, Wit(H, P, F),
         Lasting(g), Lasting(P), a.has => Wit(H, g, a.flow)
  PROVE  Wit(H, Join(g, P), Accumulate(a, F).flow) /\ Lasting(Join(g, P))
  <1>1. a.flow \in Flow
    BY DEF Acc
  <1>2. CASE a.has
    <2>1. Accumulate(a, F).flow = Merge(a.flow, F)
      BY <1>2 DEF Accumulate
    <2> QED BY <1>1, <1>2, <2>1, WitJoin, LastingOf
  <1>3. CASE ~ a.has
    <2>1. Accumulate(a, F).flow = F
      BY <1>3 DEF Accumulate
    <2> QED BY <1>1, <1>3, <2>1, WitJoin, LastingOf
  <1> QED BY <1>2, <1>3

LEMMA JumpWit ==
  ASSUME TypeOK, WalkOK, Witnessed, Break \/ Continue
  PROVE  Witnessed'
  <1> DEFINE P == RunPath(path, pend.loop)
  <1>1. /\ AtStatement /\ flow' = Unreachable(flow) /\ path' = NoPath
        /\ UNCHANGED <<stack, head, pend>>
    BY DEF Break, Continue
  <1>2. ~InDefer /\ flow.reachable
    BY <1>1, StatementWit
  <1>3. /\ pend.loop \in Deferred /\ Passes(pend.loop.rel) /\ Wit(head, path, flow) /\ Lasting(path)
        /\ head \in Flow /\ flow \in Flow /\ path \in Rel /\ loop \in Loop /\ LoopWit(loop, head)
    BY DEF TypeOK, Pend, Witnessed, PointWit, PendPasses
  <1>4. Wit(head, P, flow) /\ P \in Rel /\ Lasting(P)
    BY <1>3, RunWit
  <1> HIDE DEF P
  <1>5. /\ loop.brk \in Acc /\ loop.cont \in Acc /\ loop.gbrk \in Rel /\ loop.gcont \in Rel
        /\ Lasting(loop.gbrk) /\ Lasting(loop.gcont)
        /\ loop.brk.has => Wit(head, loop.gbrk, loop.brk.flow)
        /\ loop.cont.has => Wit(head, loop.gcont, loop.cont.flow)
    BY <1>3 DEF Loop, LoopWit
  <1>6. /\ Wit(head, Join(loop.gbrk, P), Accumulate(loop.brk, flow).flow) /\ Lasting(Join(loop.gbrk, P))
        /\ Wit(head, Join(loop.gcont, P), Accumulate(loop.cont, flow).flow) /\ Lasting(Join(loop.gcont, P))
    BY <1>2, <1>3, <1>4, <1>5, AccWit
  <1>7. LoopWit(loop', head)
    <2>1. CASE Break
      <3>1. loop' = [loop EXCEPT !.brk = Accumulate(@, flow), !.gbrk = Join(@, P)]
        BY <2>1 DEF Break, P
      <3>2. /\ loop'.brk = Accumulate(loop.brk, flow) /\ loop'.gbrk = Join(loop.gbrk, P)
            /\ loop'.cont = loop.cont /\ loop'.gcont = loop.gcont
        BY <1>3, <3>1 DEF Loop
      <3> QED BY <1>5, <1>6, <3>2 DEF LoopWit
    <2>2. CASE Continue
      <3>1. loop' = [loop EXCEPT !.cont = Accumulate(@, flow), !.gcont = Join(@, P)]
        BY <2>2 DEF Continue, P
      <3>2. /\ loop'.cont = Accumulate(loop.cont, flow) /\ loop'.gcont = Join(loop.gcont, P)
            /\ loop'.brk = loop.brk /\ loop'.gbrk = loop.gbrk
        BY <1>3, <3>1 DEF Loop
      <3> QED BY <1>5, <1>6, <3>2 DEF LoopWit
    <2> QED BY <2>1, <2>2
  <1>8. ~ flow'.reachable /\ Wit(head, path', flow') /\ Lasting(path')
    BY <1>1, <1>3, WitStart, LastingOf DEF Unreachable, Flow
  <1>9. PointWit(head', path', flow', pend', loop')
    BY <1>1, <1>7, <1>8 DEF Witnessed, PointWit
  <1> QED BY <1>1, <1>2, <1>8, <1>9, WitStay

LEMMA ReturnEndWit ==
  ASSUME TypeOK, WalkOK, Witnessed, ReturnEnd
  PROVE  Witnessed'
  <1>1. /\ Len(stack) > 0 /\ Top.kind = "return" /\ stack' = Under /\ path' = NoPath
        /\ UNCHANGED <<flow, loop, head, pend>>
    BY DEF ReturnEnd, At, Pop
  <1>2. ~ flow.reachable
    BY <1>1 DEF Witnessed, ReturnsLast, Top
  <1>3. Wit(head', path', flow') /\ Lasting(path')
    BY <1>1, <1>2, LastingOf DEF Wit
  <1>4. PointWit(head', path', flow', pend', loop')
    BY <1>1, <1>3 DEF Witnessed, PointWit
  <1>5. Top.kind \notin {"defer", "assign"}
    BY <1>1
  <1> QED BY <1>1, <1>4, <1>5, WitLeave

LEMMA DeferEndWit ==
  ASSUME TypeOK, WalkOK, Witnessed, DeferEnd
  PROVE  Witnessed'
  <1> DEFINE new == [rel |-> path, bad |-> bad]
  <1>1. /\ Len(stack) > 0 /\ Top.kind = "defer" /\ stack' = Under
        /\ pend' = [k \in {"block", "loop", "all"} |-> Remember(pend[k], new)]
        /\ flow' = Top.in /\ loop' = Top.loop /\ head' = Top.head /\ path' = Top.gin
    BY DEF DeferEnd, At, Pop
  <1>2. FrameWit(Top) /\ Top.kind \in HeadKinds
    BY <1>1, TopWit DEF HeadKinds
  <1>3. InDefer
    BY <1>1 DEF InDefer, Top, TypeOK
  <1>4. Passes(path) /\ path \in Rel /\ PendPasses(pend)
    BY <1>3 DEF Witnessed, PointWit, TypeOK
  <1>5. /\ pend'.block = Remember(pend.block, new) /\ pend'.loop = Remember(pend.loop, new)
        /\ pend'.all = Remember(pend.all, new)
    BY <1>1
  <1>6. ASSUME NEW d \in Deferred, Passes(d.rel) PROVE Passes(Remember(d, new).rel)
    <2>1. Remember(d, new).rel = Then(path, d.rel) /\ d.rel \in Rel
      BY DEF Remember, Deferred
    <2> QED BY <1>4, <1>6, <2>1, PassesOf
  <1>7. pend.block \in Deferred /\ pend.loop \in Deferred /\ pend.all \in Deferred
    BY DEF TypeOK, Pend
  <1> HIDE DEF new
  <1>8. PendPasses(pend')
    BY <1>4, <1>5, <1>6, <1>7 DEF PendPasses
  <1>9. PointWit(head', path', flow', pend', loop')
    BY <1>1, <1>2, <1>8 DEF PointWit, FrameWit
  <1>10. ~InDefer'
    <2>1. Keeps(Top.active, Top.in, Top.in) /\ StaysUninitialized(Top.in, Top.in)
      BY DEF Keeps, StaysUninitialized
    <2>2. \A i \in 1..Len(Under) : Under[i].kind # "defer"
      BY <1>1, <2>1, StackPop DEF TypeOK, WalkOK, Top, Under
    <2> QED BY <1>1, <2>2 DEF InDefer
  <1> QED BY <1>1, <1>9, <1>10, WitPop

LEMMA WitInit == Init => WitInv
  <1> SUFFICES ASSUME Init PROVE Witnessed
    BY DEF WitInv
  <1>1. /\ flow \in Flow /\ head = flow /\ stack = <<>> /\ path = Identity /\ pend = NoPend /\ loop = NoLoop(flow)
    BY TypeInit DEF Init, TypeOK
  <1>2. PointWit(head, path, flow, pend, loop)
    BY <1>1, WitStart, LastingOf, PendOf, LoopsOf DEF PointWit
  <1>3. ReturnsLast(stack, flow) /\ ~InDefer
    BY <1>1 DEF ReturnsLast, InDefer
  <1> QED BY <1>1, <1>2, <1>3 DEF Witnessed

LEMMA WitStep == Plain /\ Inv /\ WitInv /\ [Next]_vars => WitInv'
  <1> SUFFICES ASSUME Plain, Inv, WitInv, [Next]_vars, Checking' PROVE Witnessed'
    BY DEF WitInv
  <1>1. TypeOK
    BY DEF Inv
  <1>2. CASE Done \/ UNCHANGED vars
    <2>1. UNCHANGED <<status, flow, loop, stack, head, path, pend>>
      BY <1>2 DEF Done, vars
    <2>2. Witnessed
      BY <2>1 DEF WitInv, Checking
    <2> QED BY <2>1, <2>2 DEF Witnessed, InDefer
  <1>3. CASE FunctionEnd
    BY <1>3 DEF FunctionEnd, Reject, Checking
  <1>4. CASE Next /\ ~Done /\ ~FunctionEnd
    <2>1. ~ Reject
      BY DEF Reject, Checking
    <2>2. Checking /\ WalkOK /\ Witnessed /\ ~ UnreachableStatement
      BY <1>4, <2>1, StepStatus DEF Inv, WitInv, UnreachableStatement
    <2> QED
      BY <1>1, <1>4, <2>2, ReadWit, MoveWit, AssignBeginWit, AssignEndWit, ExprBeginWit, LogicalEndWit, ElseWit, IfEndWit,
         BlockBeginWit, BlockEndWit, CaseBeginWit, CaseEndWit, SwitchEndWit, LoopBeginWit, LoopBodyWit, LoopPostWit,
         LoopEndWit, JumpWit, ReturnBeginWit, ReturnEndWit, DeferBeginWit, DeferEndWit DEF Next
  <1> QED BY <1>2, <1>3, <1>4

\* The analyser is precise on the control-flow graph: whatever it allows a
\* variable at a reachable point, some path of the program brings it there with
\* (or with a deferred assignment to it already run), so no use is refused for a
\* path the function does not have - at any size and any nesting.
THEOREM FlowIsWitnessed ==
  ASSUME Plain
  PROVE  Spec => []FlowWitnessed
  <1>1. Inv /\ WitInv /\ [Next]_vars => Inv' /\ WitInv'
    BY InvStep, WitStep
  <1>2. WitInv => FlowWitnessed
    BY DEF WitInv, Witnessed, PointWit, Wit, Meets, FlowWitnessed
  <1> QED BY InvInit, WitInit, <1>1, <1>2, PTL DEF Spec
=============================================================================
