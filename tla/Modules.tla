------------------------------ MODULE Modules ------------------------------
(***************************************************************************)
(* Modules, imports and names (semantic_anal.c).  check_program walks the  *)
(* top-level statements of all files, one file after the other, several    *)
(* times: for the module declarations, for the imports, to fill the scopes *)
(* of the modules, to check the bodies, and for the exported interfaces.   *)
(*                                                                         *)
(* A module name, a qualifier and a path are sequences of components; the  *)
(* root module has the empty name.  A declaration has a sort, the types    *)
(* its interface is made of and the uses of names in its body.  A type is  *)
(* the path of a nominal type, or << >>, and its parts: the element, the   *)
(* parameters and result, the type arguments.  A nested scope is the set   *)
(* of local names at a use.                                                *)
(***************************************************************************)
EXTENDS Naturals, Integers, Sequences, SequencesExt, FiniteSets

CONSTANT Sources            \* families of programs: sequences of statements

VARIABLES source,           \* the statements: "module", "import" or "decl"
          walk_no, stmt_no, \* the walk and the statement it is at
          seen,             \* file -> the kinds of statement met in it
          module_of,        \* file -> the name of its module
          imports,          \* file -> its bindings, in order
          scope,            \* all symbols, the newest first
          selected,         \* current_source_id
          meanings,         \* declaration -> what the uses in its body mean
          mistakes          \* the number of errors
mvars == <<source, walk_no, stmt_no, seen, module_of, imports, scope, selected, meanings, mistakes>>

RootName == << >>
Walks == <<"modules", "imports", "types", "functions", "constants", "bodies", "exports">>
SourceFiles == {source[i].file : i \in DOMAIN source}
known_modules == {module_of[f] : f \in DOMAIN module_of} \ {RootName}
Mistaken == 0               \* the meaning of a use that is an error
ALocal == -1                \* the meaning of a use of a local variable

Stmt == source[stmt_no]
In(walk_name) == walk_no <= Len(Walks) /\ Walks[walk_no] = walk_name /\ stmt_no <= Len(source)
(* The statements a walk stops at, the others it passes over               *)
DeclaredIn == [struct |-> "types", enum |-> "types", func |-> "functions", const |-> "constants"]
Concerned(w) ==
  CASE w > Len(Walks) -> {}
    [] Walks[w] = "modules" -> DOMAIN source
    [] Walks[w] = "imports" -> {i \in DOMAIN source : source[i].kind = "import"}
    [] Walks[w] = "bodies"  -> {i \in DOMAIN source : source[i].kind = "decl"}
    [] Walks[w] = "exports" -> {i \in DOMAIN source : source[i].kind = "decl" /\ source[i].exported}
    [] OTHER -> {i \in DOMAIN source : source[i].kind = "decl" /\ DeclaredIn[source[i].sort] = Walks[w]}
First(w, n) == CHOOSE i \in n .. Len(source) + 1 :
                 (i > Len(source) \/ i \in Concerned(w)) /\ \A j \in n .. i - 1 : j \notin Concerned(w)
Onward == stmt_no' = First(walk_no, stmt_no + 1) /\ UNCHANGED <<source, walk_no>>

ModulesInit ==
  /\ \E family \in Sources : source \in family
  /\ walk_no = 1 /\ stmt_no = 1
  /\ seen = [f \in SourceFiles |-> {}]
  /\ module_of = [f \in SourceFiles |-> RootName]
  /\ imports = [f \in SourceFiles |-> << >>]
  /\ scope = << >>
  /\ selected = source[1].file
  /\ meanings = [i \in DOMAIN source |-> << >>]
  /\ mistakes = 0

-----------------------------------------------------------------------------
(* prepare_program_modules, first walk                                     *)
DeclareModule ==
  /\ In("modules") /\ Stmt.kind = "module" /\ Onward
  /\ IF "module" \in seen[Stmt.file]
     THEN mistakes' = mistakes + 1 /\ UNCHANGED <<seen, module_of>>
     ELSE /\ mistakes' = mistakes + Cardinality(seen[Stmt.file])
          /\ module_of' = [module_of EXCEPT ![Stmt.file] = Stmt.name]
          /\ seen' = [seen EXCEPT ![Stmt.file] = @ \cup {"module"}]
  /\ UNCHANGED <<imports, scope, selected, meanings>>

NoteStatement ==
  /\ In("modules") /\ Stmt.kind # "module" /\ Onward
  /\ mistakes' = IF Stmt.kind = "import" /\ "decl" \in seen[Stmt.file] THEN mistakes + 1 ELSE mistakes
  /\ seen' = [seen EXCEPT ![Stmt.file] = @ \cup {Stmt.kind}]
  /\ UNCHANGED <<module_of, imports, scope, selected, meanings>>

semantic_import_qualifier(binding) == IF binding.alias = << >> THEN binding.name ELSE binding.alias
semantic_source_imports_module(file, name) == \E i \in DOMAIN imports[file] : imports[file][i].name = name
semantic_source_has_import_qualifier(file, qualifier) ==
  \E i \in DOMAIN imports[file] : semantic_import_qualifier(imports[file][i]) = qualifier

import_is_refused(binding, file) ==
  \/ binding.name \notin known_modules
  \/ binding.name = module_of[file]
  \/ semantic_source_imports_module(file, binding.name)
  \/ semantic_import_qualifier(binding) = module_of[file]
  \/ semantic_source_has_import_qualifier(file, semantic_import_qualifier(binding))

(* prepare_program_modules, second walk: every module is known by now.     *)
BindImport ==
  /\ In("imports") /\ Stmt.kind = "import" /\ Onward
  /\ LET binding == [name |-> Stmt.name, alias |-> Stmt.alias] IN
     IF import_is_refused(binding, Stmt.file)
     THEN mistakes' = mistakes + 1 /\ UNCHANGED imports
     ELSE imports' = [imports EXCEPT ![Stmt.file] = Append(@, binding)] /\ UNCHANGED mistakes
  /\ UNCHANGED <<seen, module_of, scope, selected, meanings>>

-----------------------------------------------------------------------------
(* The scopes of the modules.  A symbol is its declaration.                *)
SortOf(d) == source[d].sort
IsType(d) == SortOf(d) \in {"struct", "enum"}
SymbolsOf(module, name) == SelectSeq(scope, LAMBDA d : module_of[source[d].file] = module /\ source[d].name = name)
scope_find_local(module, name) == LET found == SymbolsOf(module, name) IN IF found = << >> THEN Mistaken ELSE Head(found)
scope_count_local_functions_named(module, name) == Len(SelectSeq(SymbolsOf(module, name), LAMBDA d : SortOf(d) = "func"))
overloads(d, e) == SortOf(d) = "func" /\ SortOf(e) = "func" /\ source[d].argument # source[e].argument

(* declare_struct_shell, declare_enum_shell, declare_function_signature,   *)
(* scope_predeclare_declared; a file is selected on the way, and the walk  *)
(* over the methods' signatures selects those of structs once more.        *)
Declare ==
  /\ \E w \in {"types", "functions", "constants"} : In(w) /\ Stmt.kind = "decl" /\ DeclaredIn[Stmt.sort] = w
  /\ Onward
  /\ selected' = IF Stmt.sort = "enum" THEN selected ELSE Stmt.file
  /\ IF \A d \in ToSet(SymbolsOf(module_of[Stmt.file], Stmt.name)) : overloads(d, stmt_no)
     THEN scope' = <<stmt_no>> \o scope /\ UNCHANGED mistakes
     ELSE mistakes' = mistakes + 1 /\ UNCHANGED scope
  /\ UNCHANGED <<seen, module_of, imports, meanings>>

-----------------------------------------------------------------------------
(* What a name means when a file is selected                               *)
semantic_lookup_symbol_in_module(file, module, name) ==
  LET d == scope_find_local(module, name) IN
  IF d # Mistaken /\ module # module_of[file] /\ ~ source[d].exported THEN Mistaken ELSE d

(* A first component found in any scope around the use hides a module.     *)
scope_lookup(file, use, name) == IF name \in use.locals THEN ALocal ELSE scope_find_local(module_of[file], name)
semantic_dotted_path_shadowed(file, use) == scope_lookup(file, use, Head(use.path)) # Mistaken

path_has_module_qualifier_prefix(path, qualifier) == qualifier # << >> /\ IsStrictPrefix(qualifier, path)
Elsewhere == [qualifier |-> << >>, module |-> << >>]
Bound(binding) == [qualifier |-> semantic_import_qualifier(binding), module |-> binding.name]

SlipLonger(qualifier, best) == best = << >>
is_longer(qualifier, best) == Len(qualifier) > Len(best)

(* The longest prefix that is visible, when the path goes on for so many   *)
(* components; the shorter ones are not tried.                             *)
as_long_as(best, path, components) == IF Len(path) = Len(best.qualifier) + components THEN best ELSE Elsewhere
prefers(bound, path, sofar) ==
  IF path_has_module_qualifier_prefix(path, bound.qualifier) /\ is_longer(bound.qualifier, sofar.qualifier) THEN bound ELSE sofar
semantic_longest_module_prefix(file, use, path, components) ==
  IF semantic_dotted_path_shadowed(file, use) THEN Elsewhere
  ELSE as_long_as(FoldLeft(LAMBDA sofar, binding : prefers(Bound(binding), path, sofar),
                        prefers([qualifier |-> module_of[file], module |-> module_of[file]], path, Elsewhere), imports[file]),
               path, components)

Recognized(d) == [recognized |-> TRUE, is |-> d]
NotRecognized == [recognized |-> FALSE, is |-> Mistaken]
enum_member(d, member) ==
  CASE d = Mistaken -> Recognized(Mistaken)
    [] d # Mistaken /\ ~ IsType(d) -> NotRecognized
    [] OTHER -> Recognized(IF SortOf(d) = "enum" /\ member \in source[d].members THEN d ELSE Mistaken)
enum_member_of(file, prefix, path) ==
  IF prefix = Elsewhere THEN NotRecognized
  ELSE enum_member(semantic_lookup_symbol_in_module(file, prefix.module, path[Len(path) - 1]), Last(path))
semantic_qualified_enum_member(file, use, path) ==
  enum_member_of(file, semantic_longest_module_prefix(file, use, path, 2), path)

(* A type is no value, and neither is the name of several functions.       *)
AsValue(module, name, d) ==
  IF d > 0 /\ (IsType(d) \/ (SortOf(d) = "func" /\ scope_count_local_functions_named(module, name) > 1)) THEN Mistaken ELSE d
FieldOf(d) == IF d > 0 /\ SortOf(d) = "func" THEN Mistaken ELSE d

(* check_expression of NODE_IDENT and of NODE_FIELD: a path no module      *)
(* claims is a field of what the path without its last component means.    *)
(* A module that is known but not imported makes no difference: the path   *)
(* is an error either way.                                                 *)
semantic_qualified_field(file, prefix, name) == AsValue(prefix.module, name, semantic_lookup_symbol_in_module(file, prefix.module, name))
field_meaning(file, path, first, member, prefix, outer) ==
  CASE member.recognized -> member.is
    [] ~ member.recognized /\ Len(path) = 2 /\ first > 0 /\ SortOf(first) = "enum" ->
         IF path[2] \in source[first].members THEN first ELSE Mistaken
    [] ~ member.recognized /\ prefix # Elsewhere -> semantic_qualified_field(file, prefix, Last(path))
    [] OTHER -> FieldOf(outer)
value_meaning(file, use) ==
  LET is[n \in DOMAIN use.path] ==
        IF n = 1 THEN AsValue(module_of[file], Head(use.path), scope_lookup(file, use, Head(use.path)))
        ELSE LET path == SubSeq(use.path, 1, n) IN
             field_meaning(file, path, scope_lookup(file, use, Head(path)), semantic_qualified_enum_member(file, use, path),
                           semantic_longest_module_prefix(file, use, path, 1), is[n - 1])
  IN  is[Len(use.path)]

(* resolve_function_overload_target and check_overloaded_function_call:    *)
(* among several functions, those of a foreign module that are exported.   *)
among(fitting) == IF Cardinality(fitting) = 1 THEN CHOOSE d \in fitting : TRUE ELSE Mistaken
fits(d, file, use) == source[d].argument = use.argument /\ (module_of[source[d].file] = module_of[file] \/ source[d].exported)
resolve_function_overload_target(file, use) ==
  IF Len(use.path) = 1 THEN [qualifier |-> << >>, module |-> module_of[file]] ELSE semantic_longest_module_prefix(file, use, use.path, 1)
overloaded(target, use) ==
  /\ IF Len(use.path) = 1 THEN Head(use.path) \notin use.locals ELSE target # Elsewhere
  /\ scope_count_local_functions_named(target.module, Last(use.path)) > 1
call_of(target, file, use) ==
  IF overloaded(target, use) THEN among({d \in ToSet(SymbolsOf(target.module, Last(use.path))) : fits(d, file, use)})
  ELSE value_meaning(file, use)

semantic_resolve_module_qualifier(file, qualifier) ==
  IF qualifier = module_of[file] THEN <<qualifier>>
  ELSE LET found == SelectSeq(imports[file], LAMBDA b : semantic_import_qualifier(b) = qualifier)
       IN  [i \in DOMAIN found |-> found[i].name]

(* resolve_type: the parser has split the path into qualifier and name.    *)
AsType(d) == IF d > 0 /\ IsType(d) THEN d ELSE Mistaken
type_in(file, modules, name) == IF modules = << >> THEN Mistaken ELSE AsType(semantic_lookup_symbol_in_module(file, Head(modules), name))
type_meaning(file, path) ==
  type_in(file, IF Len(path) = 1 THEN <<module_of[file]>> ELSE semantic_resolve_module_qualifier(file, Front(path)), Last(path))

Meaning(file, use) == CASE use.as = "type" -> type_meaning(file, use.path)
                        [] use.as = "call" -> call_of(resolve_function_overload_target(file, use), file, use)
                        [] OTHER -> value_meaning(file, use)

RECURSIVE nominals(_)
nominals(type) == (IF type.named = << >> THEN {} ELSE {type.named}) \cup UNION {nominals(type.parts[i]) : i \in DOMAIN type.parts}
InterfaceOf(d) == UNION {nominals(source[d].types[i]) : i \in DOMAIN source[d].types}

(* The last walk of check_program.  The file of a declaration is selected, *)
(* but not before the methods of a struct are checked.                     *)
body_file == IF Stmt.sort = "struct" THEN selected ELSE Stmt.file
CheckBody ==
  /\ In("bodies") /\ Stmt.kind = "decl" /\ Onward
  /\ LET found == [i \in DOMAIN Stmt.uses |-> Meaning(body_file, Stmt.uses[i])] IN
     /\ meanings' = [meanings EXCEPT ![stmt_no] = found]
     /\ mistakes' = mistakes + Cardinality({i \in DOMAIN found : found[i] = Mistaken})
                             + Cardinality({path \in InterfaceOf(stmt_no) : type_meaning(Stmt.file, path) = Mistaken})
  /\ selected' = IF Stmt.sort = "enum" THEN selected ELSE body_file
  /\ UNCHANGED <<seen, module_of, imports, scope>>

-----------------------------------------------------------------------------
IsPrivate(file, path) == LET d == type_meaning(file, path) IN d # Mistaken /\ ~ source[d].exported
RECURSIVE semantic_export_type_is_public(_, _)
SlipPublic(file, type) == type.named = << >> \/ ~ IsPrivate(file, type.named)
semantic_export_type_is_public(file, type) ==
  /\ \A i \in DOMAIN type.parts : semantic_export_type_is_public(file, type.parts[i])
  /\ type.named = << >> \/ ~ IsPrivate(file, type.named)

(* validate_one_exported_declaration                                       *)
ValidateExport ==
  /\ In("exports") /\ Stmt.kind = "decl" /\ Stmt.exported /\ Onward
  /\ IF module_of[Stmt.file] # RootName /\ \A i \in DOMAIN Stmt.types : semantic_export_type_is_public(Stmt.file, Stmt.types[i])
     THEN UNCHANGED mistakes ELSE mistakes' = mistakes + 1
  /\ UNCHANGED <<seen, module_of, imports, scope, selected, meanings>>

NextWalk ==
  /\ walk_no <= Len(Walks) /\ stmt_no > Len(source)
  /\ walk_no' = walk_no + 1 /\ stmt_no' = First(walk_no + 1, 1)
  /\ UNCHANGED <<source, seen, module_of, imports, scope, selected, meanings, mistakes>>

ModulesNext == \/ DeclareModule \/ NoteStatement \/ BindImport \/ Declare \/ CheckBody \/ ValidateExport \/ NextWalk
ModulesSpec == ModulesInit /\ [][ModulesNext]_mvars /\ WF_mvars(ModulesNext)

-----------------------------------------------------------------------------
(* The program as docs/language.md means it, told from the statements as   *)
(* sets: of a file, of the module a file belongs to, of a module           *)
OfFile(kind, f) == {i \in DOMAIN source : source[i].kind = kind /\ source[i].file = f}
Named(f) == IF OfFile("module", f) = {} THEN RootName ELSE source[CHOOSE i \in OfFile("module", f) : TRUE].name
TheModules == {source[i].name : i \in {j \in DOMAIN source : source[j].kind = "module"}}
DeclarationsOf(module) == {i \in DOMAIN source : source[i].kind = "decl" /\ Named(source[i].file) = module}
QualifiersOf(f) == {[qualifier |-> semantic_import_qualifier(source[i]), module |-> source[i].name] : i \in OfFile("import", f)}

DirectivesAreTidy(f) ==
  /\ Cardinality(OfFile("module", f)) <= 1
  /\ \A i \in OfFile("module", f) : \A j \in OfFile("import", f) \cup OfFile("decl", f) : i < j
  /\ \A i \in OfFile("import", f) : \A j \in OfFile("decl", f) : i < j
  /\ \A i \in OfFile("import", f) : source[i].name \in TheModules \ {Named(f)}
  /\ Cardinality({q.qualifier : q \in QualifiersOf(f)} \cup {Named(f)}) = Cardinality(OfFile("import", f)) + 1
  /\ Cardinality({source[i].name : i \in OfFile("import", f)}) = Cardinality(OfFile("import", f))
NamesAreDistinct ==
  \A i, j \in DOMAIN source :
    i # j /\ source[i].kind = "decl" /\ source[j].kind = "decl" /\ source[i].name = source[j].name
      /\ Named(source[i].file) = Named(source[j].file) => overloads(i, j)

(* What the declarations of a module that f may use are called             *)
Offered(f, module) == {d \in DeclarationsOf(module) : module = Named(f) \/ source[d].exported}
CalledWith(f, module, name) == {d \in Offered(f, module) : source[d].name = name}
Qualifiers(f) == QualifiersOf(f) \cup (IF Named(f) = RootName THEN {} ELSE {[qualifier |-> Named(f), module |-> Named(f)]})

(* The declarations a path may stand for: with a qualifier the longest one *)
(* of the file, and the components after it the name and then a member or  *)
(* fields; without one a name of the file's own module.                    *)
Owners(f, use) ==
  LET hidden == Head(use.path) \in use.locals \/ \E d \in DeclarationsOf(Named(f)) : source[d].name = Head(use.path)
      fitting == {q \in Qualifiers(f) : IsStrictPrefix(q.qualifier, use.path)}
  IN  IF hidden \/ fitting = {} THEN [qualifier |-> << >>, module |-> Named(f)]
      ELSE CHOOSE q \in fitting : \A other \in fitting : Len(other.qualifier) <= Len(q.qualifier)
Meant(f, use) ==
  LET owner == Owners(f, use)
      rest == SubSeq(use.path, Len(owner.qualifier) + 1, Len(use.path))
      all == {d \in DeclarationsOf(owner.module) : source[d].name = Head(rest)}
      some == CalledWith(f, owner.module, Head(rest))
  IN  CASE use.as = "type" ->
             {d \in UNION {CalledWith(f, q.module, Last(use.path)) : q \in {o \in Qualifiers(f) \cup {[qualifier |-> << >>, module |-> Named(f)]} :
                                                                          o.qualifier = Front(use.path)}} : IsType(d)}
        [] use.as # "type" /\ owner.qualifier = << >> /\ Head(rest) \in use.locals -> {ALocal}
        [] use.as = "call" /\ Len(rest) = 1 /\ Head(rest) \notin use.locals /\ Cardinality(all) > 1 -> {d \in some : source[d].argument = use.argument}
        [] OTHER -> {d \in some : CASE SortOf(d) = "func" -> Len(rest) = 1 /\ Cardinality(all) = 1
                                    [] SortOf(d) = "const" -> TRUE
                                    [] SortOf(d) = "enum" -> Len(rest) = 2 /\ rest[2] \in source[d].members
                                    [] OTHER -> FALSE}

AType(path) == [path |-> path, as |-> "type", locals |-> {}]
BodiesAreSound(d) == \A i \in DOMAIN source[d].uses : Meant(source[d].file, source[d].uses[i]) # {}
TypesAreKnown(d) == \A path \in InterfaceOf(d) : Meant(source[d].file, AType(path)) # {}
Exposed(d) == UNION {Meant(source[d].file, AType(path)) : path \in InterfaceOf(d)}
ProgramIsSound ==
  /\ \A f \in SourceFiles : DirectivesAreTidy(f)
  /\ NamesAreDistinct
  /\ \A d \in {i \in DOMAIN source : source[i].kind = "decl"} :
       /\ BodiesAreSound(d) /\ TypesAreKnown(d)
       /\ source[d].exported => Named(source[d].file) # RootName /\ \A e \in Exposed(d) : source[e].exported

Through == walk_no > Len(Walks)
(* The walks of check_program, which see the files one after the other and *)
(* the imports in their order, accept exactly the programs that are right  *)
(* in any order, and then every use means what docs/language.md says.      *)
NamesAreDecided ==
  Through => /\ mistakes = 0 <=> ProgramIsSound
             /\ mistakes = 0 => \A d \in DOMAIN meanings : \A i \in DOMAIN meanings[d] :
                                  Meant(source[d].file, source[d].uses[i]) = {meanings[d][i]}

(* An accepted program hides what it does not export: whatever a file can  *)
(* come to from the exported declarations of another module, by way of     *)
(* their types and of the types of the fields of those, is exported.       *)
ExposedWithin[n \in Nat] ==
  IF n = 0 THEN {d \in DOMAIN source : source[d].kind = "decl" /\ source[d].exported}
  ELSE ExposedWithin[n - 1] \cup UNION {Exposed(d) : d \in ExposedWithin[n - 1]}
InterfacesAreClosed ==
  Through /\ mistakes = 0 => \A d \in ExposedWithin[Len(source)] : source[d].exported

(* "Same-module code may use `secret` normally" (docs/language.md:94): the *)
(* body of a method finds what its own module declares.                    *)
MethodsSeeTheirModule ==
  Through /\ ProgramIsSound => mistakes = 0

=============================================================================
