------------------------------ MODULE Globals ------------------------------
(***************************************************************************)
(* How the top-level constants and variables of a program are checked      *)
(* (semantic_anal.c).  check_program walks the declarations in the order   *)
(* of the files, but a constant is evaluated, and a variable a function    *)
(* body reads is checked, when the first use of it is met: in the middle   *)
(* of another declaration.  The analyser's recursion is a stack of frames. *)
(*                                                                         *)
(* A declaration is its kind and the declarations its initialiser or body  *)
(* uses, in order; its name is its place.  A generic function is checked   *)
(* at the first use of it; other functions where they stand.  The uses of  *)
(* an enum are what the values of its members name, one for each member;   *)
(* a use of itself is a member that names itself or one after it, for      *)
(* those before it are always found.                                       *)
(***************************************************************************)
EXTENDS Naturals, Sequences, SequencesExt, FiniteSets

CONSTANT Declarations       \* families of programs: sequences of [kind, uses]

(* Names are resolved. *)
Kinds == {"const", "var", "func", "generic", "enum"}
ASSUME DeclarationsAssumption ==
  \A family \in Declarations : \A list \in family :
    list \in Seq([kind : Kinds, uses : Seq(1 .. Len(list))])

VARIABLES decls, stack, next, started, complete, valued, typed, specialized, errors, aborted
gvars == <<decls, stack, next, started, complete, valued, typed, specialized, errors, aborted>>

KindOf(d) == decls[d].kind
OfKind(kind) == {d \in DOMAIN decls : KindOf(d) = kind}
Current == stack[Len(stack)]
Used == decls[Current.decl].uses[Current.at]

(* function_depth is that of the declaration being checked: a variable's   *)
(* initialiser is checked at depth 0 even when a function body asked.      *)
CheckFrame(d, depth, on_demand) == [decl |-> d, at |-> 1, depth |-> depth, on_demand |-> on_demand, failed |-> FALSE]

(* What follows a use: an initialiser is given up at the first use that    *)
(* fails; the other statements of a function body are still checked.       *)
AfterUse(frames, ok) ==
  IF ok \/ KindOf(frames[Len(frames)].decl) \in {"func", "generic"}
  THEN [frames EXCEPT ![Len(frames)].at = @ + 1]
  ELSE [frames EXCEPT ![Len(frames)].failed = TRUE]

GlobalsInit ==
  /\ \E family \in Declarations : decls \in family
  /\ stack = << >> /\ next = 0 /\ started = {} /\ complete = {} /\ valued = {} /\ typed = {}
  /\ specialized = {} /\ errors = 0 /\ aborted = FALSE

(* While d is filled: the constants are not declared yet, and the enums    *)
(* after d are shells without members.                                     *)
find_enum_member(d, u) == KindOf(u) = "enum" /\ u < d

(* fill_enum_members for each enum in the order of the files.  It sets     *)
(* enum_member_count before it writes the members, so what names a member  *)
(* not yet written reads memory nobody has written: it is found there, or  *)
(* refused, or the compiler dies.                                          *)
FillEnums ==
  LET Values == UNION {{d} \X DOMAIN decls[d].uses : d \in OfKind("enum")}
      Named(v) == decls[v[1]].uses[v[2]]
      Unwritten == {v \in Values : Named(v) = v[1]}
      Unknown == {v \in Values \ Unwritten : ~ find_enum_member(v[1], Named(v))}
  IN  /\ next = 0 /\ ~ aborted /\ next' = 1
      /\ \E refused \in SUBSET Unwritten : errors' = Cardinality(Unknown \cup refused)
      /\ aborted' \in {FALSE, Unwritten # {}}
      /\ UNCHANGED <<decls, stack, started, complete, valued, typed, specialized>>

(* The last loop of check_program                                          *)
CheckDeclaration ==
  /\ next > 0 /\ next <= Len(decls) /\ stack = << >> /\ ~ aborted
  /\ next' = next + 1
  /\ IF next \in complete \/ KindOf(next) \in {"generic", "enum"}
     THEN UNCHANGED <<stack, started>>
     ELSE /\ stack' = <<CheckFrame(next, IF KindOf(next) = "func" THEN 1 ELSE 0, FALSE)>>
          /\ started' = IF KindOf(next) = "const" THEN started \cup {next} ELSE started
  /\ UNCHANGED <<decls, complete, valued, typed, specialized, errors, aborted>>

Using == stack # << >> /\ ~ aborted /\ ~ Current.failed /\ Current.at <= Len(decls[Current.decl].uses)

SlipCycleError == 0
cycle_error == 1

is_cyclic(d) == d \in started

(* ensure_constant_symbol_checked; a constant met again while it is being  *)
(* evaluated is complete from then on, without a value.                    *)
UseConstant ==
  /\ Using /\ KindOf(Used) = "const"
  /\ CASE Used \in complete ->
            /\ stack' = AfterUse(stack, Used \in valued)
            /\ UNCHANGED <<started, complete, errors>>
       [] Used \notin complete /\ is_cyclic(Used) ->
            /\ errors' = errors + cycle_error /\ complete' = complete \cup {Used}
            /\ stack' = AfterUse(stack, FALSE)
            /\ UNCHANGED started
       [] OTHER ->
            /\ stack' = Append(stack, CheckFrame(Used, Current.depth, TRUE)) /\ started' = started \cup {Used}
            /\ UNCHANGED <<complete, errors>>
  /\ UNCHANGED <<decls, next, valued, typed, specialized, aborted>>

(* eval_const_expr: a constant is made of constants only.                  *)
NotConstant ==
  /\ Using /\ KindOf(Current.decl) = "const" /\ KindOf(Used) \in {"var", "func", "generic"}
  /\ errors' = errors + 1 /\ stack' = AfterUse(stack, FALSE)
  /\ UNCHANGED <<decls, next, started, complete, valued, typed, specialized, aborted>>

may_check_on_demand == Current.depth > 0
undefined_identifier == 1

(* check_identifier_expression and ensure_global_variable_symbol_checked   *)
UseVariable ==
  /\ Using /\ KindOf(Current.decl) # "const" /\ KindOf(Used) = "var"
  /\ CASE Used \in typed ->
            stack' = AfterUse(stack, TRUE) /\ UNCHANGED <<started, errors>>
       [] Used \notin typed /\ ~ may_check_on_demand ->
            stack' = AfterUse(stack, FALSE) /\ errors' = errors + undefined_identifier /\ UNCHANGED started
       [] Used \notin typed /\ may_check_on_demand /\ is_cyclic(Used) ->
            stack' = AfterUse(stack, FALSE) /\ errors' = errors + cycle_error + undefined_identifier /\ UNCHANGED started
       [] OTHER ->
            /\ stack' = Append(stack, CheckFrame(Used, 0, TRUE)) /\ started' = started \cup {Used}
            /\ UNCHANGED errors
  /\ UNCHANGED <<decls, next, complete, valued, typed, specialized, aborted>>

(* A call of a function, of a generic one that has been specialised (or is *)
(* being specialised), a value of an enum                                  *)
UseOther ==
  /\ Using
  /\ \/ KindOf(Used) = "enum"
     \/ KindOf(Current.decl) # "const" /\ (KindOf(Used) = "func" \/ Used \in specialized)
  /\ stack' = AfterUse(stack, TRUE)
  /\ UNCHANGED <<decls, next, started, complete, valued, typed, specialized, errors, aborted>>

SpecializeGeneric ==
  /\ Using /\ KindOf(Current.decl) # "const" /\ KindOf(Used) = "generic" /\ Used \notin specialized
  /\ stack' = Append(stack, CheckFrame(Used, Current.depth + 1, TRUE)) /\ specialized' = specialized \cup {Used}
  /\ UNCHANGED <<decls, next, started, complete, valued, typed, errors, aborted>>

(* The end of check_const_decl, check_var_decl or check_function_body, and *)
(* what it means to the use that asked.  check_var_decl asserts that the   *)
(* variable has no type yet.                                               *)
LeaveDeclaration ==
  /\ stack # << >> /\ ~ aborted /\ ~ Using
  /\ LET d == Current.decl
         ok == ~ Current.failed
         below == Front(stack)
     IN  /\ valued' = IF KindOf(d) = "const" /\ ok THEN valued \cup {d} ELSE valued
         /\ typed' = IF KindOf(d) = "var" /\ ok THEN typed \cup {d} ELSE typed
         /\ complete' = IF KindOf(d) \in {"const", "var"} /\ ok THEN complete \cup {d} ELSE complete
         /\ aborted' = (KindOf(d) = "var" /\ ok /\ d \in typed)
         /\ started' = IF KindOf(d) = "const" \/ Current.on_demand THEN started \ {d} ELSE started
         /\ stack' = IF below = << >> THEN below ELSE AfterUse(below, ok)
         /\ errors' = IF KindOf(d) = "var" /\ ~ ok /\ Current.on_demand THEN errors + undefined_identifier ELSE errors
  /\ UNCHANGED <<decls, next, specialized>>

GlobalsNext == \/ FillEnums \/ CheckDeclaration \/ UseConstant \/ NotConstant \/ UseVariable
               \/ UseOther \/ SpecializeGeneric \/ LeaveDeclaration
GlobalsSpec == GlobalsInit /\ [][GlobalsNext]_gvars /\ WF_gvars(GlobalsNext)

-----------------------------------------------------------------------------
Checked == next > Len(decls) /\ stack = << >>
(* What d needs: the least set with the names in its initialiser and those *)
(* in the initialisers of what is in the set                               *)
NamesIn(d) == IF KindOf(d) \in {"const", "var"} THEN ToSet(decls[d].uses) ELSE {}
Needs(d) ==
  {e \in DOMAIN decls : \A S \in SUBSET DOMAIN decls :
     NamesIn(d) \subseteq S /\ (\A n \in S : NamesIn(n) \subseteq S) => e \in S}

(* What docs/language.md asks of the constants: they come down to          *)
(* constants and enums without a circle.                                   *)
ConstantsAreSound ==
  \A d \in OfKind("const") : d \notin Needs(d) /\ \A u \in NamesIn(d) : KindOf(u) \in {"const", "enum"}
(* What the code asks of the enums: only enums of earlier statements.      *)
(* docs/language.md:1031 asks less, for it lets a member name a constant.  *)
(* No circle leads through such enums.                                     *)
EnumsAreInOrder == \A d \in OfKind("enum") : \A u \in ToSet(decls[d].uses) : KindOf(u) = "enum" /\ u < d
NamesItself(d) == d \in ToSet(decls[d].uses)
(* ... and of the variables: an initialiser reads those before it.         *)
GlobalsAreSound ==
  /\ ConstantsAreSound /\ EnumsAreInOrder
  /\ \A d \in OfKind("var") : \A u \in NamesIn(d) : KindOf(u) = "var" => u < d

(* ensure_constant_symbol_checked in whatever order the uses come, and     *)
(* fill_enum_members in the order of the statements: a program without     *)
(* variables, and without an enum that reads its own unwritten members, is *)
(* accepted exactly when its constants are sound and its enums in order,   *)
(* and then every constant has its value.                                  *)
ConstantsAreDecided ==
  Checked /\ OfKind("var") = {} /\ (\A d \in OfKind("enum") : ~ NamesItself(d)) =>
    (errors = 0 <=> ConstantsAreSound /\ EnumsAreInOrder) /\ (errors = 0 => valued = OfKind("const"))

(* What check_program accepts has every constant valued and every variable *)
(* typed, and no initialiser that needs itself.                            *)
InitializersAreAcyclic ==
  Checked /\ errors = 0 /\ ~ aborted =>
    valued = OfKind("const") /\ typed = OfKind("var") /\ \A d \in DOMAIN decls : d \notin Needs(d)

(* The verdict on the globals is the right one.                            *)
GlobalsAreDecided == ConstantsAreDecided /\ InitializersAreAcyclic

(* "Function bodies likewise see imported global declarations regardless   *)
(* of input-file ordering" (docs/language.md:123): whatever function uses  *)
(* them, sound globals are accepted.                                       *)
SoundGlobalsAreAccepted == Checked /\ GlobalsAreSound => errors = 0

=============================================================================
