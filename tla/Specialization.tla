--------------------------- MODULE Specialization ---------------------------
(***************************************************************************)
(* How generic functions, generic structs and the methods of generic       *)
(* structs are specialised (semantic_anal.c).  A use of a template for a   *)
(* type argument is looked up; the first one is checked on the spot, in    *)
(* the middle of the body that asked for it, and that body may ask for     *)
(* more.  The analyser's recursion is a stack of frames here.              *)
(*                                                                         *)
(* A type argument is how many pointers deep it is over a base type: the   *)
(* uses in a body of a template for T ask for T, for T* or for the base    *)
(* type.  What else can be wrong with a template (its body, its signature, *)
(* the constraint on T) is wrong for some arguments and not for others.    *)
(***************************************************************************)
EXTENDS Naturals, Integers, Sequences, SequencesExt, FiniteSets, Functions

CONSTANTS Limit,            \* GENERIC_SPECIALIZATION_RECURSION_LIMIT
          Programs          \* in families: template -> [kind, signature, body, fault]

ASSUME LimitAssumption == Limit \in Nat \ {0}

(* Every name is resolved, a method belongs to a struct, and the body of   *)
(* the program itself, "main", is never asked for.                         *)
WellFormed(p) ==
  /\ "main" \in DOMAIN p /\ p["main"].kind = "main" /\ p["main"].fault.where = "nowhere"
  /\ \A t \in DOMAIN p :
       /\ {p[t].signature, p[t].body} \subseteq Seq([of : DOMAIN p \ {"main"}, for : {"T", "T*", "base"}])
       /\ p[t].kind = "method" => p[t].owner \in DOMAIN p \ {"main"} /\ p[p[t].owner].kind = "struct"

ASSUME ProgramsAssumption == \A family \in Programs : \A p \in family : WellFormed(p)

VARIABLES program, frames, specs, error_count
svars == <<program, frames, specs, error_count>>

Kind(key) == program[key[1]].kind
Uses(key) == program[key[1]].signature \o program[key[1]].body
Argument(use, n) == CASE use.for = "T" -> n [] use.for = "T*" -> n + 1 [] OTHER -> 0
KeyOf(use, n) == <<use.of, Argument(use, n)>>

Concerns(when, n) == \/ when = "always"
                     \/ when = "base" /\ n = 0
                     \/ when = "pointer" /\ n > 0
HasFault(key, where) == program[key[1]].fault.where = where /\ Concerns(program[key[1]].fault.when, key[2])
(* check_generic_type_argument_constraints and _abi_provenance             *)
satisfies_constraint(key) == ~ HasFault(key, "constraint")

Top == frames[Len(frames)]
Asked == KeyOf(Uses(Top.key)[Top.at], Top.key[2])
Below == [frames EXCEPT ![Len(frames)].at = @ + 1]

(* active_generic_template_depth and active_generic_struct_template_depth: *)
(* frames of functions and of structs are chained, frames of methods not.  *)
Active(kind, stack) == {i \in DOMAIN stack : Kind(stack[i].key) = kind}
active_depth(key) == Cardinality({i \in Active(Kind(key), frames) : frames[i].key[1] = key[1]})

(* The error at a use of a specialisation that did not check: a function's *)
(* and a struct's only where none is being checked, a method's always.     *)
complaint(key, state, stack) ==
  IF state = "invalid" /\ (Kind(key) = "method" \/ Active(Kind(key), stack) = {}) THEN 1 ELSE 0

SpecializationInit ==
  /\ \E family \in Programs : program \in family
  /\ frames = <<[key |-> <<"main", 0>>, at |-> 1, before |-> 0]>>
  /\ specs = << >> /\ error_count = 0

(* A signature that does not resolve leaves the body unchecked.            *)
SignatureFails(frame) ==
  /\ frame.at = Len(program[frame.key[1]].signature) + 1
  /\ error_count > frame.before \/ HasFault(frame.key, "signature")
Asking == /\ frames # << >> /\ Top.at <= Len(Uses(Top.key)) /\ ~ SignatureFails(Top)

(* A method is found through the struct, which is specialised first.       *)
Owner(key) == <<program[key[1]].owner, key[2]>>
NeedsOwner(key) == Kind(key) = "method" /\ Owner(key) \notin DOMAIN specs
Wanted == IF NeedsOwner(Asked) THEN Owner(Asked) ELSE Asked

RejectArgument ==
  /\ Asking /\ ~ satisfies_constraint(Wanted)
  /\ error_count' = error_count + 1 /\ frames' = Below
  /\ UNCHANGED <<program, specs>>

SlipForget(key) == key \in DOMAIN specs /\ specs[key] # "invalid"
find_generic_specialization(key) == key \in DOMAIN specs

(* A specialisation that is there is used as it is, the one still being    *)
(* checked included; a method of a struct that is not valid is not found.  *)
UseSpecialization ==
  /\ Asking /\ satisfies_constraint(Wanted) /\ find_generic_specialization(Wanted)
  /\ error_count' = error_count + complaint(Wanted, specs[Wanted], frames)
  /\ frames' = Below
  /\ UNCHANGED <<program, specs>>

IsNew(kind) == Asking /\ Kind(Wanted) = kind /\ satisfies_constraint(Wanted) /\ ~ find_generic_specialization(Wanted)

SlipLimitError == 0
limit_error == 1

RecursionLimit ==
  /\ \E kind \in {"function", "struct"} : IsNew(kind)
  /\ active_depth(Wanted) >= Limit
  /\ error_count' = error_count + limit_error
  /\ frames' = Below
  /\ UNCHANGED <<program, specs>>

(* A frame for what is wanted; the use is passed once it is what was asked.*)
Enter ==
  /\ specs' = [key \in DOMAIN specs \cup {Wanted} |-> IF key = Wanted THEN "checking" ELSE specs[key]]
  /\ frames' = Append(IF NeedsOwner(Asked) THEN frames ELSE Below,
                      [key |-> Wanted, at |-> 1, before |-> error_count])
  /\ UNCHANGED <<program, error_count>>

(* Up to the check of the body, or of the fields                           *)
instantiate_generic_function == IsNew("function") /\ active_depth(Wanted) < Limit /\ Enter
instantiate_generic_struct == IsNew("struct") /\ active_depth(Wanted) < Limit /\ Enter
ensure_struct_method_body_checked == IsNew("method") /\ specs[Owner(Wanted)] # "invalid" /\ Enter

MethodNotFound ==
  /\ IsNew("method") /\ specs[Owner(Wanted)] = "invalid"
  /\ error_count' = error_count + complaint(Owner(Wanted), "invalid", frames)
  /\ frames' = Below
  /\ UNCHANGED <<program, specs>>

verdict(frame, errors) == IF errors = frame.before THEN "valid" ELSE "invalid"

(* The rest of the same three functions, and the use that asked            *)
LeaveTemplate ==
  /\ Len(frames) > 1 /\ ~ Asking
  /\ LET errors == error_count + (IF HasFault(Top.key, "signature") \/ (HasFault(Top.key, "body") /\ ~ SignatureFails(Top)) THEN 1 ELSE 0)
         state  == verdict(Top, errors)
     IN  /\ specs' = [specs EXCEPT ![Top.key] = state]
         /\ error_count' = errors + complaint(Top.key, state, Front(frames))
  /\ frames' = Front(frames)
  /\ UNCHANGED program

Finish ==
  /\ Len(frames) = 1 /\ ~ Asking
  /\ frames' = << >>
  /\ UNCHANGED <<program, specs, error_count>>

SpecializationNext == \/ RejectArgument \/ UseSpecialization \/ RecursionLimit
                      \/ instantiate_generic_function \/ instantiate_generic_struct \/ ensure_struct_method_body_checked
                      \/ MethodNotFound \/ LeaveTemplate \/ Finish
SpecializationSpec == SpecializationInit /\ [][SpecializationNext]_svars /\ WF_svars(SpecializationNext)

-----------------------------------------------------------------------------
(* The specialisations a program needs, told without any stack or cache:   *)
(* the least set of keys that holds the uses of main and of its members.   *)
(* Past as many pointers as there are templates, one of them is needed for *)
(* ever deeper arguments.                                                  *)
Deepest == Cardinality(DOMAIN program)
Keys == (DOMAIN program) \X (0 .. Deepest + 1)
UsedBy(key) == {KeyOf(Uses(key)[i], key[2]) : i \in DOMAIN Uses(key)}
WithOwners(keys) == keys \cup {Owner(key) : key \in {k \in keys : Kind(k) = "method"}}
NeededFrom[n \in 0 .. Cardinality(Keys)] ==
  IF n = 0 THEN {<<"main", 0>>}
  ELSE LET known == NeededFrom[n - 1]
       IN  known \cup (WithOwners(UNION {UsedBy(key) : key \in known}) \cap Keys)
Needed == NeededFrom[Cardinality(Keys)]
Sound == /\ \A key \in Needed : key[2] <= Deepest
         /\ \A key \in Needed, where \in {"constraint", "signature", "body"} : ~ HasFault(key, where)

(* check_generic_call, resolve_generic_struct_application and their        *)
(* caches: a program is accepted exactly when what it needs is finite and  *)
(* right, and then exactly that has been checked and found valid.          *)
AcceptsWhatIsSound ==
  frames = << >> => /\ (error_count = 0) <=> Sound
                    /\ error_count = 0 => specs = [key \in Needed \ {<<"main", 0>>} |-> "valid"]

(* No body is checked twice for the same arguments, after a failure either.*)
VerdictsStay ==
  [][\A key \in DOMAIN specs : specs[key] # "checking" => key \in DOMAIN specs' /\ specs'[key] = specs[key]]_svars

(* "a recursion that continually creates new concrete type arguments is    *)
(* bounded" (docs/language.md:807): no template has more active frames     *)
(* than the limit.                                                         *)
RecursionIsBounded ==
  \A template \in DOMAIN program : Cardinality({i \in DOMAIN frames : frames[i].key[1] = template}) <= Limit

=============================================================================
