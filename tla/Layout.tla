------------------------------- MODULE Layout -------------------------------
(***************************************************************************)
(* Struct layouts: the fields of a struct are resolved and vetted          *)
(* (fill_struct_fields), the structs that contain each other by value are  *)
(* looked for in two walks, one over the #repr(c) structs and one over the *)
(* others (semantic_anal.c), and the size and alignment of a type on the   *)
(* target come from target/target_layout.c.                                *)
(*                                                                         *)
(* A type is a base, a scalar or the name of a struct, under wraps from    *)
(* the outside in: "array" is an array of two, "*" a pointer, "slice" a    *)
(* slice.  Sizes are unsigned words of the width of MaxSize.               *)
(***************************************************************************)
EXTENDS Naturals, Sequences, SequencesExt, FiniteSets, FiniteSetsExt

CONSTANTS Structs,          \* the names, in the order of declaration
          MaxSize,          \* UINT64_MAX
          PointerSize,      \* of the target, and the alignment of a pointer
          ScalarAlign,      \* scalar_align: size -> alignment
          Tables            \* in families: name -> [repr, resource, union, incomplete, packed, align, fields]

Names == ToSet(Structs)
ScalarSize == [u8 |-> 1, s16 |-> 2, s32 |-> 4, f64 |-> 8]
(* The alignments that can be asked for; the parser refuses what an int    *)
(* does not hold, and 0 stands for none.                                   *)
power_of_two[n \in 0 .. 30] == IF n = 0 THEN 1 ELSE 2 * power_of_two[n - 1]
PowersOfTwo == {0} \cup {power_of_two[n] : n \in 0 .. 30}

(* What can be declared: names are resolved, alignments are as written.    *)
FieldType == [wrap : Seq({"array", "*", "slice"}), base : Names \cup DOMAIN ScalarSize]
Declaration == [repr_c : BOOLEAN, resource : BOOLEAN, union : BOOLEAN, incomplete : BOOLEAN, packed : BOOLEAN,
                align : Nat, fields : Seq(FieldType)]

ASSUME LayoutAssumption ==
  /\ MaxSize \in Nat /\ PointerSize \in PowersOfTwo \ {0}
  /\ \A kind \in DOMAIN ScalarSize : ScalarAlign[ScalarSize[kind]] \in PowersOfTwo \ {0}
  /\ Structs \in Seq(STRING \ ({"no type", "unresolved"} \cup DOMAIN ScalarSize))
  /\ \A family \in Tables : family \subseteq [Names -> Declaration]

VARIABLES table,            \* the declarations
          fields,           \* name -> the field types that were taken, or Unresolved
          phase,            \* "fill", "c", "coglet", "done"
          visit,            \* name -> 0, 1 or 2: not seen, being walked, walked
          walk,             \* the stack of the walk: [name, at]
          faults            \* the errors
yvars == <<table, fields, phase, visit, walk, faults>>

NoType == [wrap |-> << >>, base |-> "no type"]
Unresolved == <<[wrap |-> << >>, base |-> "unresolved"]>>
IsStruct(base) == base \in Names
ByValue(type) == \A i \in DOMAIN type.wrap : type.wrap[i] = "array"

contains_incomplete_struct_by_value(type) == ByValue(type) /\ IsStruct(type.base) /\ table[type.base].incomplete
contains_resource_by_value(type) == ByValue(type) /\ IsStruct(type.base) /\ table[type.base].resource

(* A pointer straight to a struct may point to an incomplete one.          *)
repr_c_struct_field_type_supported(type) ==
  /\ \A i \in DOMAIN type.wrap : type.wrap[i] # "slice"
  /\ IsStruct(type.base) =>
       /\ table[type.base].repr_c
       /\ table[type.base].incomplete => type.wrap # << >> /\ Last(type.wrap) = "*"

FieldIsTaken(name, type) ==
  /\ ~ contains_incomplete_struct_by_value(type)
  /\ contains_resource_by_value(type) => table[name].resource
  /\ table[name].repr_c => repr_c_struct_field_type_supported(type)

(* What declare_struct_shell and fill_struct_fields say of the struct      *)
ShapeFaults(s) ==
  {f \in {"resource shape", "union needs C", "incomplete needs C", "incomplete layout", "alignment", "empty"} :
     CASE f = "resource shape"     -> s.resource /\ (s.repr_c \/ s.union \/ s.incomplete)
       [] f = "union needs C"      -> s.union /\ (~ s.repr_c \/ s.incomplete)
       [] f = "incomplete needs C" -> s.incomplete /\ ~ s.repr_c
       [] f = "incomplete layout"  -> s.incomplete /\ (s.packed \/ s.align > 0)
       [] f = "alignment"          -> s.align \notin PowersOfTwo
       [] f = "empty"              -> s.repr_c /\ ~ s.incomplete /\ s.fields = << >>}

LayoutInit ==
  /\ \E family \in Tables : table \in family
  /\ fields = [name \in Names |-> Unresolved]
  /\ phase = "fill" /\ visit = [name \in Names |-> 0] /\ walk = << >> /\ faults = {}

(* The places in the order of declaration that are still to come, and the  *)
(* struct that is next                                                     *)
Unfilled == {i \in DOMAIN Structs : fields[Structs[i]] = Unresolved}
FirstOf(places) == Structs[CHOOSE i \in places : \A j \in places : i <= j]

(* A struct declare_struct_shell refuses has no fields; a field that is    *)
(* refused has no type from then on.                                       *)
HasShell(name) == ShapeFaults(table[name]) \cap {"resource shape", "union needs C"} = {}
FillStruct ==
  /\ phase = "fill" /\ Unfilled # {}
  /\ LET name == FirstOf(Unfilled)
         declared == IF table[name].incomplete \/ ~ HasShell(name) THEN << >> ELSE table[name].fields
     IN  /\ fields' = [fields EXCEPT ![name] =
                         [i \in DOMAIN declared |-> IF FieldIsTaken(name, declared[i]) THEN declared[i] ELSE NoType]]
         /\ faults' = faults \cup {<<name, f>> : f \in ShapeFaults(table[name])}
                             \cup {<<name, "refused field">> : i \in {j \in DOMAIN declared : ~ FieldIsTaken(name, declared[j])}}
  /\ UNCHANGED <<table, phase, visit, walk>>

Filled ==
  /\ phase = "fill" /\ Unfilled = {} /\ phase' = "c"
  /\ UNCHANGED <<table, fields, visit, walk, faults>>

(* validate_repr_c_struct_layouts, and validate_concrete_coglet_struct_    *)
(* layouts with the rest of the program checked in between                 *)
Walked(name) == table[name].repr_c <=> phase = "c"
Unwalked == {i \in DOMAIN Structs : Walked(Structs[i]) /\ visit[Structs[i]] = 0}

StartWalk ==
  /\ phase \in {"c", "coglet"} /\ walk = << >> /\ Unwalked # {}
  /\ walk' = <<[name |-> FirstOf(Unwalked), at |-> 1]>>
  /\ visit' = [visit EXCEPT ![FirstOf(Unwalked)] = 1]
  /\ UNCHANGED <<table, fields, phase, faults>>

EndWalk ==
  /\ phase \in {"c", "coglet"} /\ walk = << >> /\ Unwalked = {}
  /\ phase' = IF phase = "c" THEN "coglet" ELSE "done"
  /\ UNCHANGED <<table, fields, visit, walk, faults>>

AtStruct == walk[Len(walk)].name
AtField == walk[Len(walk)].at
Passed == [walk EXCEPT ![Len(walk)].at = @ + 1]
(* The walk strips arrays only, and stays among its own structs.           *)
depends_by_value(type) == type # NoType /\ ByValue(type) /\ IsStruct(type.base) /\ Walked(type.base)

SlipRecursive(name) == name = AtStruct
is_recursive(name) == visit[name] = 1

WalkField ==
  /\ walk # << >> /\ AtField <= Len(fields[AtStruct])
  /\ LET type == fields[AtStruct][AtField] IN
     CASE ~ depends_by_value(type) ->
            walk' = Passed /\ UNCHANGED <<visit, faults>>
       [] depends_by_value(type) /\ is_recursive(type.base) ->
            walk' = Passed /\ faults' = faults \cup {<<AtStruct, "recursive">>} /\ UNCHANGED visit
       [] depends_by_value(type) /\ ~ is_recursive(type.base) /\ visit[type.base] # 0 ->
            walk' = Passed /\ UNCHANGED <<visit, faults>>
       [] OTHER ->
            /\ walk' = Append(Passed, [name |-> type.base, at |-> 1])
            /\ visit' = [visit EXCEPT ![type.base] = 1]
            /\ UNCHANGED faults
  /\ UNCHANGED <<table, fields, phase>>

walked_mark == 2

WalkBack ==
  /\ walk # << >> /\ AtField > Len(fields[AtStruct])
  /\ visit' = [visit EXCEPT ![AtStruct] = walked_mark] /\ walk' = Front(walk)
  /\ UNCHANGED <<table, fields, phase, faults>>

LayoutNext == FillStruct \/ Filled \/ StartWalk \/ EndWalk \/ WalkField \/ WalkBack
LayoutSpec == LayoutInit /\ [][LayoutNext]_yvars /\ WF_yvars(LayoutNext)

-----------------------------------------------------------------------------
(* target_layout_of_type.  A layout is a size and an alignment; NoLayout   *)
(* stands for the failures, overflow among them.                           *)
NoLayout == [size |-> 0, align |-> 0]
PointerLayout == [size |-> PointerSize, align |-> PointerSize]

Multiples(value, align) == ((value + align - 1) \div align) * align
RoundsUp(value, align) == value <= MaxSize /\ value + (align - 1) <= MaxSize
(* Where a member of a given layout goes after the first size bytes        *)
SlipPlace(size, align, member) == (Multiples(size, align) + member.size) % (MaxSize + 1)
place(size, align, member) ==
  IF RoundsUp(size, align) /\ Multiples(size, align) <= MaxSize - member.size
  THEN Multiples(size, align) + member.size ELSE MaxSize + 1

Rounded(size, align) ==
  IF size <= MaxSize /\ RoundsUp(size, align) THEN [size |-> Multiples(size, align), align |-> align] ELSE NoLayout
Doubled(layout) ==
  IF layout = NoLayout \/ layout.size > MaxSize \div 2 THEN NoLayout ELSE [layout EXCEPT !.size = @ * 2]
(* Arrays around arrays, arrays times, around something of a given layout  *)
ArrayLayout(arrays, layout) ==
  LET around[n \in 0 .. arrays] == IF n = 0 THEN layout ELSE Doubled(around[n - 1]) IN around[arrays]

(* The layout of a type when those of the structs in it are known          *)
LayoutOf(type, known) ==
  LET inner == IF \E i \in DOMAIN type.wrap : type.wrap[i] # "array"
               THEN LET first == CHOOSE i \in DOMAIN type.wrap : type.wrap[i] # "array" /\ \A j \in 1 .. i - 1 : type.wrap[j] = "array"
                    IN  [arrays |-> first - 1,
                         layout |-> IF type.wrap[first] = "*" THEN PointerLayout
                                    ELSE Rounded(place(PointerSize, PointerSize, PointerLayout), PointerSize)]
               ELSE [arrays |-> Len(type.wrap),
                     layout |-> IF IsStruct(type.base) THEN known[type.base]
                                ELSE [size |-> ScalarSize[type.base], align |-> ScalarAlign[ScalarSize[type.base]]]]
  IN  ArrayLayout(inner.arrays, inner.layout)

FieldAlign(s, member) == IF s.packed THEN 1 ELSE member.align
(* Where the members of a struct end, one after the other                  *)
EndOf(s, members) ==
  LET end[i \in 0 .. Len(members)] ==
        IF i = 0 THEN 0
        ELSE IF end[i - 1] > MaxSize THEN end[i - 1] ELSE place(end[i - 1], FieldAlign(s, members[i]), members[i])
  IN  end[Len(members)]
StructLayout(s, members) ==
  LET natural == Max({1} \cup {IF s.union THEN members[i].align ELSE FieldAlign(s, members[i]) : i \in DOMAIN members})
      align == Max({IF s.packed THEN 1 ELSE natural, s.align})
      size == IF s.union THEN Max({0} \cup {members[i].size : i \in DOMAIN members}) ELSE EndOf(s, members)
  IN  Rounded(size, align)

(* layout_impl carries the types it is inside of; deeper than there are    *)
(* structs one of them comes twice and the layout fails.                   *)
layout_impl[depth \in 0 .. Len(Structs)] ==
  [name \in Names |->
     IF depth = 0 \/ table[name].incomplete \/ NoType \in ToSet(fields[name]) THEN NoLayout
     ELSE LET members == [i \in DOMAIN fields[name] |-> LayoutOf(fields[name][i], layout_impl[depth - 1])]
          IN  IF NoLayout \in ToSet(members) THEN NoLayout ELSE StructLayout(table[name], members)]
target_layout == layout_impl[Len(Structs)]

-----------------------------------------------------------------------------
(* The declarations as they are meant: what a struct holds by value, at    *)
(* any depth, told without any walk                                        *)
Declared(name) == IF table[name].incomplete THEN {} ELSE ToSet(table[name].fields)
Holds(name) == {type.base : type \in {t \in Declared(name) : ByValue(t) /\ IsStruct(t.base)}}
(* The least set with what the struct holds and what the members hold      *)
HoldsDeep(name) ==
  {m \in Names : \A S \in SUBSET Names : Holds(name) \subseteq S /\ (\A n \in S : Holds(n) \subseteq S) => m \in S}

FieldsAreSound(name) ==
  /\ \A member \in HoldsDeep(name) : ~ table[member].incomplete /\ (table[member].resource => table[name].resource)
  /\ table[name].repr_c => \A type \in Declared(name) : repr_c_struct_field_type_supported(type)
StructsAreSound ==
  \A name \in Names : name \notin HoldsDeep(name) /\ FieldsAreSound(name) /\ ShapeFaults(table[name]) = {}

(* The two walks and fill_struct_fields, field by field, accept exactly    *)
(* the declarations in which no struct holds itself, an incomplete struct  *)
(* or, unless it is a resource, a resource, at any depth and in any array. *)
LayoutsAreDecided == phase = "done" => (faults = {} <=> StructsAreSound)

(* Where the target has an answer to size_of, the answer fits: a struct is *)
(* as large as its parts in order, each at its alignment and with the      *)
(* least rounding, in numbers that do not wrap.                            *)
Places(s, members, end) ==
  \A i \in DOMAIN members :
    LET start == end[i] - members[i].size
        from == IF s.union \/ i = 1 THEN 0 ELSE end[i - 1]
        unit == IF s.packed THEN 1 ELSE members[i].align
    IN  start - from \in 0 .. unit - 1 /\ start % unit = 0
LayoutsFit ==
  phase = "done" /\ faults = {} =>
    \A name \in {n \in Names : target_layout[n] # NoLayout} :
      LET size == target_layout[name].size
          align == target_layout[name].align
          members == [i \in DOMAIN fields[name] |-> LayoutOf(fields[name][i], target_layout)]
      IN  /\ size <= MaxSize /\ size % align = 0
          /\ \A i \in DOMAIN members : table[name].packed \/ align % members[i].align = 0
          /\ \E end \in [DOMAIN members -> 0 .. size] :
               Places(table[name], members, end) /\ size - Max({0} \cup Range(end)) \in 0 .. align - 1

=============================================================================
