------------------------- MODULE DeclarationsProof -------------------------
(***************************************************************************)
(* Proofs about Layout and Globals, for every table of structs and every   *)
(* list of global declarations.                                            *)
(***************************************************************************)
EXTENDS Layout, Globals, FiniteSetTheorems, NaturalsInduction, WellFoundedInduction, TLAPS

-----------------------------------------------------------------------------
(* Induction: a set of naturals has a least element. *)

LEMMA LeastNumber ==
  ASSUME NEW T, T \subseteq Nat, T # {}
  PROVE  \E n \in T : \A m \in T : n <= m
  <1> DEFINE R == OpToRel(<, Nat)
  <1>1. IsWellFoundedOn(R, Nat)
    BY NatLessThanWellFounded
  <1>2. R = {p \in Nat \X Nat : p[1] < p[2]}
    BY DEF OpToRel
  <1> HIDE DEF R
  <1>3. PICK n \in T : \A m \in T : ~(<<m, n>> \in R)
    BY <1>1, WFMin
  <1>4. \A m \in T : n <= m
    <2> SUFFICES ASSUME NEW m \in T, ~(n <= m) PROVE FALSE
      OBVIOUS
    <2>1. m \in Nat /\ n \in Nat /\ m < n
      OBVIOUS
    <2>2. <<m, n>> \in Nat \X Nat /\ <<m, n>>[1] = m /\ <<m, n>>[2] = n
      BY <2>1
    <2>3. <<m, n>> \in R
      BY <1>2, <2>1, <2>2
    <2> QED BY <1>3, <2>3
  <1> QED BY <1>4

LEMMA SetInduction ==
  ASSUME NEW S, 0 \in S, \A n \in Nat : n \in S => n + 1 \in S
  PROVE  Nat \subseteq S
  <1> SUFFICES ASSUME Nat \ S # {} PROVE FALSE
    OBVIOUS
  <1>1. PICK n \in Nat \ S : \A m \in Nat \ S : n <= m
    <2>1. Nat \ S \subseteq Nat
      OBVIOUS
    <2> QED BY <2>1, LeastNumber
  <1>2. n # 0 /\ n - 1 \in Nat /\ n = (n - 1) + 1
    BY <1>1
  <1>3. n - 1 \in S
    BY <1>1, <1>2
  <1> QED BY <1>2, <1>3

(* A path stays in every set that is closed under its steps.               *)
LEMMA PathInClosed ==
  ASSUME NEW p, NEW j \in Nat, NEW n \in Nat, NEW S,
         j < n => p[j + 1] \in S,
         \A i \in j + 1 .. n - 1 : p[i] \in S => p[i + 1] \in S
  PROVE  \A i \in j + 1 .. n : p[i] \in S
  <1> DEFINE T == {m \in Nat : j + 1 + m <= n => p[j + 1 + m] \in S}
  <1>1. 0 \in T
    OBVIOUS
  <1>2. ASSUME NEW m \in Nat, m \in T PROVE m + 1 \in T
    <2> SUFFICES ASSUME j + 1 + (m + 1) <= n PROVE p[j + 1 + (m + 1)] \in S
      OBVIOUS
    <2>1. j + 1 + m \in j + 1 .. n - 1 /\ (j + 1 + m) + 1 = j + 1 + (m + 1)
      OBVIOUS
    <2>2. p[j + 1 + m] \in S
      BY <1>2, <2>1
    <2> QED BY <2>1, <2>2
  <1>3. Nat \subseteq T
    <2> HIDE DEF T
    <2> QED BY <1>1, <1>2, SetInduction
  <1> SUFFICES ASSUME NEW i \in j + 1 .. n PROVE p[i] \in S
    OBVIOUS
  <1>4. i - (j + 1) \in Nat /\ j + 1 + (i - (j + 1)) = i
    OBVIOUS
  <1>5. i - (j + 1) \in T
    BY <1>3, <1>4
  <1> QED BY <1>4, <1>5

-----------------------------------------------------------------------------
(* Structs: the definitions of Layout in terms of a table t. *)

DeclaredIn(t, name) == IF t[name].incomplete THEN {} ELSE ToSet(t[name].fields)
HoldsIn(t, name) == {type.base : type \in {u \in DeclaredIn(t, name) : ByValue(u) /\ IsStruct(u.base)}}
DeepIn(t, name) ==
  {m \in Names : \A S \in SUBSET Names : HoldsIn(t, name) \subseteq S /\ (\A n \in S : HoldsIn(t, n) \subseteq S) => m \in S}
SupportedIn(t, type) ==
  /\ \A i \in DOMAIN type.wrap : type.wrap[i] # "slice"
  /\ IsStruct(type.base) =>
       /\ t[type.base].repr_c
       /\ t[type.base].incomplete => type.wrap # << >> /\ Last(type.wrap) = "*"
TakenIn(t, name, type) ==
  /\ ~ (ByValue(type) /\ IsStruct(type.base) /\ t[type.base].incomplete)
  /\ ByValue(type) /\ IsStruct(type.base) /\ t[type.base].resource => t[name].resource
  /\ t[name].repr_c => SupportedIn(t, type)
SoundStruct(t, name) ==
  /\ name \notin DeepIn(t, name)
  /\ \A member \in DeepIn(t, name) : ~ t[member].incomplete /\ (t[member].resource => t[name].resource)
  /\ t[name].repr_c => \A type \in DeclaredIn(t, name) : SupportedIn(t, type)
  /\ ShapeFaults(t[name]) = {}
SoundTable(t) == \A name \in Names : SoundStruct(t, name)

LEMMA TheTable ==
  /\ \A type : repr_c_struct_field_type_supported(type) <=> SupportedIn(table, type)
  /\ \A name, type : FieldIsTaken(name, type) <=> TakenIn(table, name, type)
  /\ StructsAreSound <=> SoundTable(table)
  <1>1. \A name : Holds(name) = HoldsIn(table, name) /\ Declared(name) = DeclaredIn(table, name)
    BY DEF Holds, HoldsIn, Declared, DeclaredIn
  <1>2. \A name : HoldsDeep(name) = DeepIn(table, name)
    BY <1>1 DEF HoldsDeep, DeepIn
  <1>3. \A type : repr_c_struct_field_type_supported(type) <=> SupportedIn(table, type)
    BY DEF repr_c_struct_field_type_supported, SupportedIn
  <1>4. \A name, type : FieldIsTaken(name, type) <=> TakenIn(table, name, type)
    BY <1>3 DEF FieldIsTaken, TakenIn, contains_incomplete_struct_by_value, contains_resource_by_value
  <1>5. StructsAreSound <=> SoundTable(table)
    BY <1>1, <1>2, <1>3 DEF StructsAreSound, SoundTable, SoundStruct, FieldsAreSound
  <1> QED BY <1>3, <1>4, <1>5

-----------------------------------------------------------------------------
(* The inductive invariant of the walks over the structs. *)

WalkFrame == [name : Names, at : Nat \ {0}]
Taken == FieldType \cup {NoType}
LayoutTypes ==
  /\ table \in [Names -> Declaration]
  /\ fields \in [Names -> Seq(Taken) \cup {Unresolved}]
  /\ phase \in {"fill", "c", "coglet", "done"}
  /\ visit \in [Names -> {0, 1, 2}]
  /\ walk \in Seq(WalkFrame)

(* What is filled is what was declared; without a fault, all of it.        *)
FilledWell(t, taken, name, faultless) ==
  /\ \A i \in DOMAIN taken : taken[i] # NoType => taken[i] \in DeclaredIn(t, name)
  /\ faultless =>
       /\ ShapeFaults(t[name]) = {}
       /\ \A type \in DeclaredIn(t, name) : TakenIn(t, name, type) /\ \E i \in DOMAIN taken : taken[i] = type
FieldsInOrder(t, fs, ff) == \A name \in Names : fs[name] # Unresolved => FilledWell(t, fs[name], name, ff = {})

PhasesInOrder(t, fs, ph, vi, wa) ==
  /\ ph = "fill" => wa = << >> /\ \A name \in Names : vi[name] = 0
  /\ ph # "fill" => \A name \in Names : fs[name] # Unresolved
  /\ ph \in {"coglet", "done"} => \A name \in Names : t[name].repr_c => vi[name] = 2
  /\ ph = "done" => wa = << >> /\ \A name \in Names : vi[name] = 2

(* The walk is a path of structs each of which holds the next, and no      *)
(* other struct is marked as being walked.                                 *)
PathInOrder(t, vi, wa) ==
  /\ \A k \in 1 .. Len(wa) : vi[wa[k].name] = 1
  /\ \A name \in Names : vi[name] = 1 => \E k \in 1 .. Len(wa) : wa[k].name = name
  /\ \A k \in 1 .. Len(wa) - 1 : wa[k + 1].name \in HoldsIn(t, wa[k].name)
  /\ \A j, k \in 1 .. Len(wa) : j # k => wa[j].name # wa[k].name
ClassInOrder(t, ph, wa) == \A k \in 1 .. Len(wa) : (t[wa[k].name].repr_c <=> ph = "c")

(* The fields the walk has passed are of structs that are done.            *)
Settled(vi, wa, k, base) == vi[base] = 2 \/ (k < Len(wa) /\ wa[k + 1].name = base)
PassedIsSettled(fs, vi, wa) ==
  \A k \in 1 .. Len(wa) : \A i \in DOMAIN fs[wa[k].name] :
    i < wa[k].at =>
      LET type == fs[wa[k].name][i] IN
      type # NoType /\ ByValue(type) /\ IsStruct(type.base) => Settled(vi, wa, k, type.base)

(* What is done holds what is done, and not itself.                        *)
DoneOf(vi) == {name \in Names : vi[name] = 2}
DoneIsAcyclic(t, vi) == \A name \in DoneOf(vi) : HoldsIn(t, name) \subseteq DoneOf(vi) /\ name \notin DeepIn(t, name)

LayoutInv ==
  /\ LayoutTypes
  /\ FieldsInOrder(table, fields, faults)
  /\ PhasesInOrder(table, fields, phase, visit, walk)
  /\ PathInOrder(table, visit, walk)
  /\ ClassInOrder(table, phase, walk)
  /\ faults = {} => PassedIsSettled(fields, visit, walk) /\ DoneIsAcyclic(table, visit)
  /\ SoundTable(table) => faults = {}

-----------------------------------------------------------------------------
(* What a table holds. *)

LEMMA HoldsTypes ==
  ASSUME NEW t \in [Names -> Declaration], NEW name \in Names
  PROVE  /\ DeclaredIn(t, name) \subseteq FieldType
         /\ HoldsIn(t, name) \subseteq Names
         /\ \A type \in DeclaredIn(t, name) : ByValue(type) /\ IsStruct(type.base) => type.base \in HoldsIn(t, name)
         /\ \A m \in HoldsIn(t, name) : \E type \in DeclaredIn(t, name) : ByValue(type) /\ IsStruct(type.base) /\ type.base = m
  <1>1. t[name].fields \in Seq(FieldType)
    BY DEF Declaration
  <1>2. DeclaredIn(t, name) \subseteq FieldType
    BY <1>1 DEF DeclaredIn, ToSet
  <1> QED BY <1>2 DEF HoldsIn, IsStruct

(* A struct whose members lie in a closed set without it is not in itself. *)
LEMMA NotInItself ==
  ASSUME NEW t, NEW name \in Names, NEW S \in SUBSET Names, HoldsIn(t, name) \subseteq S,
         \A m \in S : HoldsIn(t, m) \subseteq S
  PROVE  DeepIn(t, name) \subseteq S
  BY DEF DeepIn

LEMMA HoldsAreDeep == ASSUME NEW t \in [Names -> Declaration], NEW name \in Names PROVE HoldsIn(t, name) \subseteq DeepIn(t, name)
  <1>1. HoldsIn(t, name) \subseteq Names
    BY HoldsTypes
  <1> QED BY <1>1 DEF DeepIn

(* In a sound table every declared field is taken.                         *)
LEMMA SoundIsTaken ==
  ASSUME NEW t \in [Names -> Declaration], NEW name \in Names, SoundTable(t), NEW type \in DeclaredIn(t, name)
  PROVE  TakenIn(t, name, type)
  <1>1. SoundStruct(t, name)
    BY DEF SoundTable
  <1>2. ASSUME ByValue(type), IsStruct(type.base) PROVE type.base \in DeepIn(t, name)
    BY <1>2, HoldsTypes, HoldsAreDeep
  <1> QED BY <1>1, <1>2 DEF TakenIn, SoundStruct

(* Where every field is taken and nothing holds itself, the table is sound. *)
LEMMA TakenIsSound ==
  ASSUME NEW t \in [Names -> Declaration],
         \A name \in Names : ShapeFaults(t[name]) = {} /\ name \notin DeepIn(t, name),
         \A name \in Names : \A type \in DeclaredIn(t, name) : TakenIn(t, name, type)
  PROVE  SoundTable(t)
  <1> SUFFICES ASSUME NEW name \in Names PROVE SoundStruct(t, name)
    BY DEF SoundTable
  <1> DEFINE S == {m \in Names : ~ t[m].incomplete /\ (t[m].resource => t[name].resource)}
  <1>1. ASSUME NEW m \in Names, NEW b \in HoldsIn(t, m)
        PROVE  b \in Names /\ ~ t[b].incomplete /\ (t[b].resource => t[m].resource)
    <2>1. PICK type \in DeclaredIn(t, m) : ByValue(type) /\ IsStruct(type.base) /\ type.base = b
      BY HoldsTypes
    <2>2. TakenIn(t, m, type)
      OBVIOUS
    <2> QED BY <2>1, <2>2, HoldsTypes DEF TakenIn
  <1>2. HoldsIn(t, name) \subseteq S
    BY <1>1
  <1>3. \A m \in S : HoldsIn(t, m) \subseteq S
    BY <1>1
  <1>4. S \in SUBSET Names
    OBVIOUS
  <1>5. DeepIn(t, name) \subseteq S
    <2> HIDE DEF S
    <2> QED BY <1>2, <1>3, <1>4, NotInItself
  <1>6. t[name].repr_c => \A type \in DeclaredIn(t, name) : SupportedIn(t, type)
    BY DEF TakenIn
  <1> QED BY <1>5, <1>6 DEF SoundStruct

(* A path of holders that comes back to one of them.                       *)
LEMMA CircleHoldsItself ==
  ASSUME NEW t, NEW p, NEW n \in Nat, NEW j \in 1 .. n, \A k \in 1 .. n : p[k] \in Names,
         \A k \in 1 .. n - 1 : p[k + 1] \in HoldsIn(t, p[k]), p[j] \in HoldsIn(t, p[n])
  PROVE  p[j] \in DeepIn(t, p[j])
  <1> SUFFICES ASSUME NEW S \in SUBSET Names, HoldsIn(t, p[j]) \subseteq S, \A m \in S : HoldsIn(t, m) \subseteq S
               PROVE  p[j] \in S
    BY DEF DeepIn
  <1>1. j < n => p[j + 1] \in S
    OBVIOUS
  <1>2. \A i \in j + 1 .. n - 1 : p[i] \in S => p[i + 1] \in S
    OBVIOUS
  <1>3. \A i \in j + 1 .. n : p[i] \in S
    <2>1. j \in Nat
      OBVIOUS
    <2> QED BY <1>1, <1>2, <2>1, PathInClosed
  <1>4. CASE j = n
    BY <1>4
  <1>5. CASE j < n
    <2>1. p[n] \in S
      BY <1>3, <1>5
    <2> QED BY <2>1
  <1> QED BY <1>4, <1>5

-----------------------------------------------------------------------------
(* The steps. *)

LEMMA FirstIsOne == ASSUME NEW S \in SUBSET (DOMAIN Structs), S # {} PROVE \E i \in S : FirstOf(S) = Structs[i] /\ FirstOf(S) \in Names
  <1>1. S \subseteq Nat
    <2> DEFINE X == STRING \ ({"no type", "unresolved"} \cup DOMAIN ScalarSize)
    <2>1. Structs \in Seq(X)
      BY LayoutAssumption
    <2> HIDE DEF X
    <2>2. DOMAIN Structs = 1 .. Len(Structs) /\ Len(Structs) \in Nat
      BY <2>1
    <2> QED BY <2>2
  <1>2. PICK i \in S : \A j \in S : i <= j
    BY <1>1, LeastNumber
  <1> DEFINE first == CHOOSE k \in S : \A j \in S : k <= j
  <1>3. first \in S
    BY <1>2
  <1>4. Structs[first] \in Names
    BY <1>3 DEF Names, ToSet
  <1> QED BY <1>3, <1>4 DEF FirstOf

LEMMA LayoutStart == ASSUME LayoutInit PROVE LayoutInv
  <1>1. table \in [Names -> Declaration]
    BY LayoutAssumption DEF LayoutInit
  <1>2. LayoutTypes
    BY <1>1 DEF LayoutInit, LayoutTypes
  <1>3. FieldsInOrder(table, fields, faults) /\ PhasesInOrder(table, fields, phase, visit, walk)
    BY <1>1 DEF LayoutInit, FieldsInOrder, PhasesInOrder
  <1>4. PathInOrder(table, visit, walk) /\ ClassInOrder(table, phase, walk)
    BY DEF LayoutInit, PathInOrder, ClassInOrder
  <1>5. PassedIsSettled(fields, visit, walk) /\ DoneIsAcyclic(table, visit) /\ faults = {}
    BY DEF LayoutInit, PassedIsSettled, DoneIsAcyclic, DoneOf
  <1> QED BY <1>2, <1>3, <1>4, <1>5 DEF LayoutInv

(* What fill_struct_fields makes of a struct.                              *)
LEMMA FillIs ==
  ASSUME NEW t \in [Names -> Declaration], NEW name \in Names, NEW declared,
         declared = << >> \/ (declared = t[name].fields /\ ~ t[name].incomplete),
         ~ t[name].incomplete /\ ShapeFaults(t[name]) = {} => declared = t[name].fields,
         NEW taken, taken = [i \in DOMAIN declared |-> IF TakenIn(t, name, declared[i]) THEN declared[i] ELSE NoType],
         NEW faultless \in BOOLEAN,
         faultless => ShapeFaults(t[name]) = {} /\ \A i \in DOMAIN declared : TakenIn(t, name, declared[i])
  PROVE  taken \in Seq(Taken) /\ FilledWell(t, taken, name, faultless)
  <1>1. t[name].fields \in Seq(FieldType) /\ << >> \in Seq(FieldType)
    BY DEF Declaration
  <1>2. declared \in Seq(FieldType)
    BY <1>1
  <1>3. taken \in Seq(Taken)
    BY <1>2 DEF Taken
  <1>4. \A i \in DOMAIN declared : declared[i] \in DeclaredIn(t, name)
    <2>1. CASE declared = << >>
      BY <2>1
    <2>2. CASE declared # << >>
      BY <2>2 DEF DeclaredIn, ToSet
    <2> QED BY <2>1, <2>2
  <1>5. \A i \in DOMAIN taken : taken[i] # NoType => taken[i] \in DeclaredIn(t, name)
    BY <1>4
  <1>6. ASSUME faultless, NEW type \in DeclaredIn(t, name) PROVE TakenIn(t, name, type) /\ \E i \in DOMAIN taken : taken[i] = type
    <2>1. ~ t[name].incomplete /\ ShapeFaults(t[name]) = {}
      BY <1>6 DEF DeclaredIn
    <2>2. declared = t[name].fields
      BY <2>1
    <2>3. PICK i \in DOMAIN declared : declared[i] = type
      BY <2>1, <2>2 DEF DeclaredIn, ToSet
    <2> QED BY <1>6, <2>3
  <1> QED BY <1>3, <1>5, <1>6 DEF FilledWell

LEMMA FillStructInv == ASSUME LayoutInv, FillStruct PROVE LayoutInv'
  <1> DEFINE name == FirstOf(Unfilled)
             declared == IF table[name].incomplete \/ ~ HasShell(name) THEN << >> ELSE table[name].fields
             taken == [i \in DOMAIN declared |-> IF TakenIn(table, name, declared[i]) THEN declared[i] ELSE NoType]
             refused == {j \in DOMAIN declared : ~ TakenIn(table, name, declared[j])}
  <1>1. LayoutTypes /\ phase = "fill" /\ walk = << >> /\ \A n \in Names : visit[n] = 0
    BY DEF LayoutInv, FillStruct, PhasesInOrder
  <1>2. table' = table /\ phase' = phase /\ visit' = visit /\ walk' = walk
    BY DEF FillStruct
  <1>3. name \in Names /\ fields[name] = Unresolved
    <2>1. Unfilled \in SUBSET (DOMAIN Structs) /\ Unfilled # {}
      BY DEF FillStruct, Unfilled
    <2>2. PICK i \in Unfilled : name = Structs[i] /\ name \in Names
      BY <2>1, FirstIsOne
    <2> QED BY <2>2 DEF Unfilled
  <1>4. /\ fields' = [fields EXCEPT ![name] = taken]
        /\ faults' = faults \cup {<<name, f>> : f \in ShapeFaults(table[name])} \cup {<<name, "refused field">> : i \in refused}
    <2>1. \A n, type : FieldIsTaken(n, type) <=> TakenIn(table, n, type)
      BY TheTable
    <2>2. \A i \in DOMAIN declared : (IF FieldIsTaken(name, declared[i]) THEN declared[i] ELSE NoType) = taken[i]
      BY <2>1
    <2>3. {j \in DOMAIN declared : ~ FieldIsTaken(name, declared[j])} = refused
      BY <2>1
    <2>4. [i \in DOMAIN declared |-> IF FieldIsTaken(name, declared[i]) THEN declared[i] ELSE NoType] = taken
      BY <2>2
    <2> HIDE DEF taken, refused, declared
    <2> QED BY <2>3, <2>4 DEF FillStruct, declared
  <1>5. faults' = {} => faults = {} /\ ShapeFaults(table[name]) = {} /\ refused = {}
    <2> HIDE DEF refused
    <2> QED BY <1>4
  <1>6. table \in [Names -> Declaration]
    BY <1>1 DEF LayoutTypes
  <1>7. taken \in Seq(Taken) /\ FilledWell(table, taken, name, faults' = {})
    <2>1. declared = << >> \/ (declared = table[name].fields /\ ~ table[name].incomplete)
      OBVIOUS
    <2>7. ~ table[name].incomplete /\ ShapeFaults(table[name]) = {} => declared = table[name].fields
      BY DEF HasShell
    <2>2. faults' = {} => ShapeFaults(table[name]) = {} /\ \A i \in DOMAIN declared : TakenIn(table, name, declared[i])
      BY <1>5
    <2>3. (faults' = {}) \in BOOLEAN
      OBVIOUS
    <2>4. taken = [i \in DOMAIN declared |-> IF TakenIn(table, name, declared[i]) THEN declared[i] ELSE NoType]
      OBVIOUS
    <2> HIDE DEF declared, taken, name
    <2>5. CASE faults' = {}
      <3>1. taken \in Seq(Taken) /\ FilledWell(table, taken, name, TRUE)
        BY <1>3, <1>6, <2>1, <2>2, <2>4, <2>5, <2>7, FillIs
      <3> QED BY <2>5, <3>1
    <2>6. CASE faults' # {}
      <3>1. taken \in Seq(Taken) /\ FilledWell(table, taken, name, FALSE)
        BY <1>3, <1>6, <2>1, <2>4, <2>7, FillIs
      <3> QED BY <2>6, <3>1
    <2> QED BY <2>5, <2>6
  <1> HIDE DEF taken
  <1>8. LayoutTypes'
    BY <1>1, <1>2, <1>3, <1>4, <1>7 DEF LayoutTypes
  <1>9. FieldsInOrder(table', fields', faults')
    <2> SUFFICES ASSUME NEW n \in Names, fields'[n] # Unresolved PROVE FilledWell(table, fields'[n], n, faults' = {})
      BY <1>2 DEF FieldsInOrder
    <2>1. CASE n = name
      BY <1>1, <1>3, <1>4, <1>7, <2>1 DEF LayoutTypes
    <2>2. CASE n # name
      <3>1. fields'[n] = fields[n] /\ FilledWell(table, fields[n], n, faults = {})
        BY <1>1, <1>3, <1>4, <2>2 DEF LayoutTypes, LayoutInv, FieldsInOrder
      <3> QED BY <1>5, <3>1 DEF FilledWell
    <2> QED BY <2>1, <2>2
  <1>10. PhasesInOrder(table', fields', phase', visit', walk') /\ PathInOrder(table', visit', walk') /\ ClassInOrder(table', phase', walk')
    BY <1>1, <1>2 DEF LayoutInv, PhasesInOrder, PathInOrder, ClassInOrder
  <1>11. PassedIsSettled(fields', visit', walk') /\ DoneIsAcyclic(table', visit')
    BY <1>1, <1>2 DEF PassedIsSettled, DoneIsAcyclic, DoneOf
  <1>12. ASSUME SoundTable(table') PROVE faults' = {}
    <2>1. SoundTable(table) /\ faults = {}
      BY <1>2, <1>12 DEF LayoutInv
    <2>2. ShapeFaults(table[name]) = {}
      BY <1>3, <2>1 DEF SoundTable, SoundStruct
    <2>3. ASSUME NEW j \in DOMAIN declared PROVE TakenIn(table, name, declared[j])
      <3>1. declared = << >> \/ (declared = table[name].fields /\ ~ table[name].incomplete)
        OBVIOUS
      <3>2. declared[j] \in DeclaredIn(table, name)
        <4>1. declared = table[name].fields /\ ~ table[name].incomplete
          BY <2>3, <3>1
        <4> QED BY <4>1 DEF DeclaredIn, ToSet
      <3> QED BY <1>3, <1>6, <2>1, <3>2, SoundIsTaken
    <2>4. refused = {}
      BY <2>3
    <2> HIDE DEF refused
    <2> QED BY <1>4, <2>1, <2>2, <2>4
  <1> QED BY <1>8, <1>9, <1>10, <1>11, <1>12 DEF LayoutInv

LEMMA FilledInv == ASSUME LayoutInv, Filled PROVE LayoutInv'
  <1>1. LayoutTypes /\ phase = "fill" /\ phase' = "c" /\ walk = << >> /\ \A n \in Names : visit[n] = 0
    BY DEF LayoutInv, Filled, PhasesInOrder
  <1>2. table' = table /\ fields' = fields /\ visit' = visit /\ walk' = walk /\ faults' = faults
    BY DEF Filled
  <1>3. ASSUME NEW n \in Names PROVE fields[n] # Unresolved
    <2>1. PICK i \in DOMAIN Structs : n = Structs[i]
      BY DEF Names, ToSet
    <2> QED BY <2>1 DEF Filled, Unfilled
  <1>4. LayoutTypes'
    BY <1>1, <1>2 DEF LayoutTypes
  <1>5. PhasesInOrder(table', fields', phase', visit', walk') /\ ClassInOrder(table', phase', walk')
    BY <1>1, <1>2, <1>3 DEF PhasesInOrder, ClassInOrder
  <1> QED BY <1>1, <1>2, <1>4, <1>5 DEF LayoutInv

(* The innermost struct of a walk.                                         *)
LEMMA AtTop ==
  ASSUME LayoutInv, walk # << >>
  PROVE  /\ Len(walk) \in Nat \ {0} /\ Len(walk) \in 1 .. Len(walk) /\ DOMAIN walk = 1 .. Len(walk)
         /\ \A k \in 1 .. Len(walk) : walk[k] \in WalkFrame /\ walk[k].name \in Names /\ walk[k].at \in Nat \ {0}
         /\ AtStruct \in Names /\ AtField \in Nat \ {0} /\ AtStruct = walk[Len(walk)].name /\ AtField = walk[Len(walk)].at
         /\ phase \in {"c", "coglet"} /\ visit[AtStruct] = 1
         /\ \A n \in Names : fields[n] \in Seq(Taken) /\ fields[n] # Unresolved
  <1>1. walk \in Seq(WalkFrame)
    BY DEF LayoutInv, LayoutTypes
  <1>2. Len(walk) \in Nat \ {0} /\ Len(walk) \in 1 .. Len(walk) /\ DOMAIN walk = 1 .. Len(walk)
    BY <1>1
  <1>3. \A k \in 1 .. Len(walk) : walk[k] \in WalkFrame /\ walk[k].name \in Names /\ walk[k].at \in Nat \ {0}
    <2>1. \A k \in 1 .. Len(walk) : walk[k] \in WalkFrame
      BY <1>1
    <2> QED BY <2>1 DEF WalkFrame
  <1>4. phase \in {"c", "coglet"}
    BY DEF LayoutInv, LayoutTypes, PhasesInOrder
  <1>5. visit[AtStruct] = 1
    BY <1>2 DEF LayoutInv, PathInOrder, AtStruct
  <1>6. \A n \in Names : fields[n] \in Seq(Taken) /\ fields[n] # Unresolved
    BY <1>4 DEF LayoutInv, LayoutTypes, PhasesInOrder
  <1> QED BY <1>2, <1>3, <1>4, <1>5, <1>6 DEF AtStruct, AtField

LEMMA PassedIs ==
  ASSUME LayoutInv, walk # << >>
  PROVE  /\ Passed \in Seq(WalkFrame) /\ Len(Passed) = Len(walk)
         /\ \A k \in 1 .. Len(walk) : Passed[k].name = walk[k].name
         /\ \A k \in 1 .. Len(walk) : k # Len(walk) => Passed[k].at = walk[k].at
         /\ Passed[Len(walk)].at = AtField + 1
  <1>1. walk \in Seq(WalkFrame)
    BY DEF LayoutInv, LayoutTypes
  <1>2. Passed = [walk EXCEPT ![Len(walk)] = [walk[Len(walk)] EXCEPT !.at = @ + 1]]
    BY AtTop DEF Passed
  <1>3. [walk[Len(walk)] EXCEPT !.at = @ + 1] \in WalkFrame
        /\ [walk[Len(walk)] EXCEPT !.at = @ + 1].name = walk[Len(walk)].name
        /\ [walk[Len(walk)] EXCEPT !.at = @ + 1].at = AtField + 1
    BY AtTop DEF WalkFrame
  <1> QED BY <1>1, <1>2, <1>3, AtTop

(* A field that the walk passes.                                           *)
LEMMA PassInv ==
  ASSUME LayoutInv, walk # << >>, AtField <= Len(fields[AtStruct]), walk' = Passed,
         table' = table, fields' = fields, phase' = phase, visit' = visit, SoundTable(table) => faults' = {},
         faults' = {} => faults = {} /\ LET type == fields[AtStruct][AtField] IN
                                        type # NoType /\ ByValue(type) /\ IsStruct(type.base) => visit[type.base] = 2
  PROVE  LayoutInv'
  <1>1. LayoutTypes /\ LayoutTypes'
    BY PassedIs DEF LayoutInv, LayoutTypes
  <1>2. FieldsInOrder(table', fields', faults')
    BY DEF LayoutInv, FieldsInOrder, FilledWell
  <1>3. PhasesInOrder(table', fields', phase', visit', walk')
    BY AtTop DEF LayoutInv, PhasesInOrder
  <1>4. PathInOrder(table', visit', walk') /\ ClassInOrder(table', phase', walk')
    <2>1. Len(walk') = Len(walk) /\ \A k \in 1 .. Len(walk) : walk'[k].name = walk[k].name
      BY PassedIs
    <2>2. \A k \in 1 .. Len(walk) - 1 : k \in 1 .. Len(walk) /\ k + 1 \in 1 .. Len(walk)
      BY AtTop
    <2>3. PathInOrder(table, visit, walk) /\ ClassInOrder(table, phase, walk)
      BY DEF LayoutInv
    <2>4. ClassInOrder(table', phase', walk')
      BY <2>1, <2>3 DEF ClassInOrder
    <2>5. /\ \A k \in 1 .. Len(walk') : visit'[walk'[k].name] = 1
          /\ \A name \in Names : visit'[name] = 1 => \E k \in 1 .. Len(walk') : walk'[k].name = name
          /\ \A j, k \in 1 .. Len(walk') : j # k => walk'[j].name # walk'[k].name
      BY <2>1, <2>3 DEF PathInOrder
    <2>6. \A k \in 1 .. Len(walk') - 1 : walk'[k + 1].name \in HoldsIn(table', walk'[k].name)
      BY <2>1, <2>2, <2>3 DEF PathInOrder
    <2> QED BY <2>4, <2>5, <2>6 DEF PathInOrder
  <1>5. ASSUME faults' = {} PROVE PassedIsSettled(fields', visit', walk') /\ DoneIsAcyclic(table', visit')
    <2>1. PassedIsSettled(fields, visit, walk) /\ DoneIsAcyclic(table, visit)
      BY <1>5 DEF LayoutInv
    <2> SUFFICES ASSUME NEW k \in 1 .. Len(walk'), NEW i \in DOMAIN fields'[walk'[k].name], i < walk'[k].at,
                        NEW type, type = fields'[walk'[k].name][i],
                        type # NoType, ByValue(type), IsStruct(type.base)
                 PROVE  Settled(visit', walk', k, type.base)
      BY <2>1 DEF PassedIsSettled
    <2>2. k \in 1 .. Len(walk) /\ walk'[k].name = walk[k].name /\ Len(walk') = Len(walk)
      BY PassedIs
    <2>3. CASE i < walk[k].at
      <3>1. Settled(visit, walk, k, type.base)
        BY <2>1, <2>2, <2>3 DEF PassedIsSettled
      <3>2. k < Len(walk) => k + 1 \in 1 .. Len(walk)
        BY <2>2, AtTop
      <3> QED BY <2>2, <3>1, <3>2, PassedIs DEF Settled
    <2>4. CASE ~ (i < walk[k].at)
      <3>1. k = Len(walk) /\ i = AtField
        <4>1. fields[walk[k].name] \in Seq(Taken)
          BY <2>2, AtTop
        <4>2. i \in Nat
          BY <2>2, <4>1
        <4> QED BY <2>2, <2>4, <4>2, AtTop, PassedIs
      <3>2. type = fields[AtStruct][AtField]
        BY <2>2, <3>1, AtTop
      <3> QED BY <1>5, <3>2 DEF Settled
    <2> QED BY <2>3, <2>4
  <1> QED BY <1>1, <1>2, <1>3, <1>4, <1>5 DEF LayoutInv

(* The type of the field the walk is at.                                   *)
LEMMA AtType ==
  ASSUME LayoutInv, walk # << >>, AtField <= Len(fields[AtStruct]),
         NEW type, type = fields[AtStruct][AtField], type # NoType
  PROVE  type \in DeclaredIn(table, AtStruct)
         /\ (ByValue(type) /\ IsStruct(type.base) => type.base \in Names /\ type.base \in HoldsIn(table, AtStruct))
  <1>1. fields[AtStruct] \in Seq(Taken) /\ AtStruct \in Names /\ AtField \in Nat \ {0} /\ fields[AtStruct] # Unresolved
    BY AtTop
  <1>2. AtField \in DOMAIN fields[AtStruct]
    BY <1>1
  <1>3. FilledWell(table, fields[AtStruct], AtStruct, faults = {})
    BY <1>1 DEF LayoutInv, FieldsInOrder
  <1>4. type \in DeclaredIn(table, AtStruct)
    BY <1>2, <1>3 DEF FilledWell
  <1>5. table \in [Names -> Declaration]
    BY DEF LayoutInv, LayoutTypes
  <1> QED BY <1>1, <1>4, <1>5, HoldsTypes DEF IsStruct

(* From its n-th struct, at field a, the walk enters the struct b.         *)
Enters(fs, vi, vi2, wa, wa2, n, b, a) ==
  /\ n \in Nat \ {0} /\ b \in Names /\ a \in Nat \ {0}
  /\ Len(wa) = n /\ Len(wa2) = n + 1
  /\ \A k \in 1 .. n : wa2[k].name = wa[k].name /\ wa[k].name \in Names /\ wa[k].at \in Nat \ {0}
  /\ wa2[n + 1].name = b /\ wa2[n + 1].at = 1
  /\ \A k \in 1 .. n : k # n => wa2[k].at = wa[k].at
  /\ wa[n].at = a /\ wa2[n].at = a + 1
  /\ vi[b] = 0 /\ \A m \in Names : m # b => vi2[m] = vi[m]
  /\ fs[wa[n].name][a].base = b /\ \A m \in Names : fs[m] \in Seq(Taken)

(* What a walk has passed stays settled when a struct is entered.          *)
LEMMA SettledPush ==
  ASSUME NEW fs, NEW vi, NEW vi2, NEW wa, NEW wa2, NEW n, NEW b, NEW a, Enters(fs, vi, vi2, wa, wa2, n, b, a),
         PassedIsSettled(fs, vi, wa)
  PROVE  PassedIsSettled(fs, vi2, wa2)
  <1> USE DEF Enters
  <1> SUFFICES ASSUME NEW k \in 1 .. Len(wa2), NEW i \in DOMAIN fs[wa2[k].name], i < wa2[k].at,
                      NEW u, u = fs[wa2[k].name][i], u # NoType, ByValue(u), IsStruct(u.base)
               PROVE  Settled(vi2, wa2, k, u.base)
    BY DEF PassedIsSettled
  <1>1. u.base \in Names
    BY DEF IsStruct
  <1>2. k \in 1 .. n \/ k = n + 1
    OBVIOUS
  <1>3. wa2[k].name \in Names
    BY <1>2
  <1>4. i \in Nat \ {0}
    BY <1>3
  <1>5. CASE k = n + 1
    BY <1>4, <1>5
  <1>6. CASE k \in 1 .. n /\ i < wa[k].at
    <2>1. Settled(vi, wa, k, u.base)
      BY <1>6 DEF PassedIsSettled
    <2>2. k < n => k + 1 \in 1 .. n
      BY <1>6
    <2>3. CASE vi[u.base] = 2
      <3>1. u.base # b
        BY <2>3
      <3>2. vi2[u.base] = 2
        BY <1>1, <2>3, <3>1
      <3> QED BY <3>2 DEF Settled
    <2>4. CASE k < n /\ wa[k + 1].name = u.base
      BY <2>2, <2>4 DEF Settled
    <2> QED BY <2>1, <2>3, <2>4 DEF Settled
  <1>7. CASE k \in 1 .. n /\ ~ (i < wa[k].at)
    <2>1. k = n
      BY <1>7
    <2>3. i < a + 1 /\ ~ (i < a)
      BY <1>7, <2>1
    <2>4. i = a
      BY <1>4, <2>3
    <2>2. u.base = b
      BY <1>7, <2>1, <2>4
    <2> QED BY <2>1, <2>2 DEF Settled
  <1> QED BY <1>2, <1>5, <1>6, <1>7

LEMMA PushInv ==
  ASSUME LayoutInv, walk # << >>, AtField <= Len(fields[AtStruct]),
         NEW type, type = fields[AtStruct][AtField], depends_by_value(type), visit[type.base] = 0,
         walk' = Append(Passed, [name |-> type.base, at |-> 1]), visit' = [visit EXCEPT ![type.base] = 1],
         table' = table, fields' = fields, phase' = phase, faults' = faults
  PROVE  LayoutInv'
  <1> DEFINE b == type.base
             n == Len(walk)
             top == [name |-> b, at |-> 1]
  <1>1. b \in Names /\ b \in HoldsIn(table, AtStruct) /\ (table[b].repr_c <=> phase = "c")
    BY AtType DEF depends_by_value, Walked
  <1>2. top \in WalkFrame /\ top.name = b /\ top.at = 1
    BY <1>1 DEF WalkFrame
  <1>3. /\ walk' \in Seq(WalkFrame) /\ Len(walk') = n + 1 /\ walk'[n + 1] = top
        /\ \A k \in 1 .. n : walk'[k] = Passed[k]
    <2>1. walk' = Append(Passed, top)
      OBVIOUS
    <2> HIDE DEF top
    <2> QED BY <1>2, <2>1, PassedIs, AtTop
  <1>4. /\ \A k \in 1 .. n : walk'[k].name = walk[k].name
        /\ walk'[n + 1].name = b /\ walk'[n + 1].at = 1
        /\ \A k \in 1 .. n : k # n => walk'[k].at = walk[k].at
        /\ walk'[n].at = AtField + 1
    BY <1>2, <1>3, PassedIs, AtTop
  <1>5. visit \in [Names -> {0, 1, 2}] /\ visit' \in [Names -> {0, 1, 2}] /\ visit'[b] = 1
        /\ \A m \in Names : m # b => visit'[m] = visit[m]
    BY <1>1 DEF LayoutInv, LayoutTypes
  <1>6. n \in Nat \ {0} /\ \A k \in 1 .. n : walk[k].name \in Names /\ walk[k].name # b /\ visit[walk[k].name] = 1
    BY AtTop DEF LayoutInv, PathInOrder
  <1> HIDE DEF b, top, n
  <1>7. LayoutTypes'
    BY <1>3, <1>5 DEF LayoutInv, LayoutTypes
  <1>8. PhasesInOrder(table', fields', phase', visit', walk')
    <2>1. phase \in {"c", "coglet"}
      BY AtTop
    <2>2. PhasesInOrder(table, fields, phase, visit, walk)
      BY DEF LayoutInv
    <2> QED BY <1>1, <1>5, <2>1, <2>2 DEF PhasesInOrder
  <1>9. PathInOrder(table', visit', walk')
    <2>1. PathInOrder(table, visit, walk)
      BY DEF LayoutInv
    <2>2. \A k \in 1 .. n + 1 : k \in 1 .. n \/ k = n + 1
      BY <1>6
    <2>7. (\A k \in 1 .. n : walk'[k].name = walk[k].name) /\ walk'[n + 1].name = b
      BY <1>4
    <2>8. \A k \in 1 .. n : walk[k].name \in Names /\ walk[k].name # b /\ visit[walk[k].name] = 1
      BY <1>6
    <2>3. ASSUME NEW k \in 1 .. n + 1 PROVE visit'[walk'[k].name] = 1
      <3>1. CASE k \in 1 .. n
        BY ONLY <1>5, <2>7, <2>8, <3>1
      <3>2. CASE k = n + 1
        BY ONLY <1>5, <2>7, <3>2
      <3> QED BY <2>2, <3>1, <3>2
    <2>4. ASSUME NEW m \in Names, visit'[m] = 1 PROVE \E k \in 1 .. n + 1 : walk'[k].name = m
      <3>1. CASE m = b
        BY <1>4, <1>6, <3>1
      <3>2. CASE m # b
        <4>1. PICK k \in 1 .. n : walk[k].name = m
          BY <1>5, <2>1, <2>4, <3>2 DEF PathInOrder, n
        <4>2. k \in 1 .. n + 1 /\ walk'[k].name = m
          BY <1>6, <2>7, <4>1
        <4> QED BY <4>2
      <3> QED BY <3>1, <3>2
    <2>5. ASSUME NEW k \in 1 .. (n + 1) - 1 PROVE walk'[k + 1].name \in HoldsIn(table, walk'[k].name)
      <3>1. CASE k = n
        <4>1. AtStruct = walk[n].name
          BY AtTop DEF n
        <4>2. n \in 1 .. n
          BY <1>6
        <4>3. walk'[k].name = AtStruct /\ walk'[k + 1].name = b
          BY <1>4, <3>1, <4>1, <4>2
        <4> QED BY <1>1, <4>3
      <3>2. CASE k # n
        <4>1. k \in 1 .. n - 1 /\ k + 1 \in 1 .. n /\ k \in 1 .. n
          BY <1>6, <3>2
        <4>2. walk[k + 1].name \in HoldsIn(table, walk[k].name)
          BY <2>1, <4>1 DEF PathInOrder, n
        <4> QED BY <1>4, <4>1, <4>2
      <3> QED BY <3>1, <3>2
    <2>6. ASSUME NEW j \in 1 .. n + 1, NEW k \in 1 .. n + 1, j # k PROVE walk'[j].name # walk'[k].name
      <3>1. CASE j \in 1 .. n /\ k \in 1 .. n
        <4>1. walk[j].name # walk[k].name
          BY <2>1, <2>6, <3>1 DEF PathInOrder, n
        <4> QED BY ONLY <2>7, <3>1, <4>1
      <3>2. CASE j = n + 1 /\ k \in 1 .. n
        BY ONLY <2>7, <2>8, <3>2
      <3>3. CASE j \in 1 .. n /\ k = n + 1
        BY ONLY <2>7, <2>8, <3>3
      <3> QED BY <2>2, <2>6, <3>1, <3>2, <3>3
    <2> QED BY <1>3, <2>3, <2>4, <2>5, <2>6 DEF PathInOrder
  <1>10. ClassInOrder(table', phase', walk')
    <2>1. ClassInOrder(table, phase, walk)
      BY DEF LayoutInv
    <2>2. \A k \in 1 .. n + 1 : k \in 1 .. n \/ k = n + 1
      BY <1>6
    <2> QED BY <1>1, <1>3, <1>4, <2>1, <2>2 DEF ClassInOrder, n
  <1>11. ASSUME faults = {} PROVE PassedIsSettled(fields', visit', walk')
    <2>1. PassedIsSettled(fields, visit, walk)
      BY <1>11 DEF LayoutInv
    <2>2. visit[b] = 0 /\ fields[walk[n].name][AtField].base = b /\ walk[n].at = AtField /\ AtField \in Nat \ {0}
      BY AtTop DEF b, n
    <2>3. \A k \in 1 .. n : walk[k].name \in Names /\ walk[k].at \in Nat \ {0}
      BY AtTop DEF n
    <2>4. \A m \in Names : fields[m] \in Seq(Taken)
      BY AtTop
    <2>5. Enters(fields, visit, visit', walk, walk', n, b, AtField)
      <3>1. Len(walk) = n /\ n \in Nat \ {0} /\ Len(walk') = n + 1
        BY <1>3, <1>6 DEF n
      <3>2. \A k \in 1 .. n : walk'[k].name = walk[k].name /\ walk[k].name \in Names /\ walk[k].at \in Nat \ {0}
        BY <1>4, <2>3
      <3>3. \A m \in Names : m # b => visit'[m] = visit[m]
        BY <1>5
      <3> QED BY ONLY <1>1, <1>4, <2>2, <2>4, <3>1, <3>2, <3>3 DEF Enters
    <2>6. PassedIsSettled(fields, visit', walk')
      BY <2>1, <2>5, SettledPush
    <2> QED BY <2>6
  <1>12. ASSUME faults = {} PROVE DoneIsAcyclic(table', visit')
    <2>1. DoneOf(visit') = DoneOf(visit)
      <3>1. visit[b] = 0
        BY DEF b
      <3> QED BY <1>1, <1>5, <3>1 DEF DoneOf
    <2> QED BY <1>12, <2>1 DEF LayoutInv, DoneIsAcyclic
  <1> QED BY <1>7, <1>8, <1>9, <1>10, <1>11, <1>12 DEF LayoutInv

LEMMA WalkFieldInv == ASSUME LayoutInv, WalkField PROVE LayoutInv'
  <1> DEFINE type == fields[AtStruct][AtField]
  <1>1. /\ walk # << >> /\ AtField <= Len(fields[AtStruct])
        /\ table' = table /\ fields' = fields /\ phase' = phase
    BY DEF WalkField
  <1>2. SoundTable(table) => faults = {}
    BY DEF LayoutInv
  <1>3. visit \in [Names -> {0, 1, 2}] /\ table \in [Names -> Declaration] /\ AtStruct \in Names
    BY <1>1, AtTop DEF LayoutInv, LayoutTypes
  <1>4. CASE ~ depends_by_value(type) /\ walk' = Passed /\ visit' = visit /\ faults' = faults
    <2>1. ASSUME faults = {}, type # NoType, ByValue(type), IsStruct(type.base) PROVE visit[type.base] = 2
      <3>1. type.base \in Names /\ type \in DeclaredIn(table, AtStruct)
        BY <1>1, <2>1, AtType
      <3>2. ~ (table[type.base].repr_c <=> phase = "c")
        BY <1>4, <2>1 DEF depends_by_value, Walked
      <3>3. CASE phase = "coglet"
        BY <3>1, <3>2, <3>3 DEF LayoutInv, PhasesInOrder
      <3>4. CASE phase = "c"
        <4>1. fields[AtStruct] # Unresolved
          BY <1>1, AtTop
        <4>2. FilledWell(table, fields[AtStruct], AtStruct, faults = {})
          BY <1>3, <4>1 DEF LayoutInv, FieldsInOrder
        <4>3. TakenIn(table, AtStruct, type)
          BY <2>1, <3>1, <4>2 DEF FilledWell
        <4>4. table[AtStruct].repr_c
          BY <1>1, <3>4, AtTop DEF LayoutInv, ClassInOrder
        <4> QED BY <2>1, <3>2, <3>4, <4>3, <4>4 DEF TakenIn, SupportedIn
      <3> QED BY <1>1, <3>3, <3>4, AtTop
    <2> QED BY <1>1, <1>2, <1>4, <2>1, PassInv
  <1>5. CASE /\ depends_by_value(type) /\ is_recursive(type.base)
             /\ walk' = Passed /\ faults' = faults \cup {<<AtStruct, "recursive">>} /\ visit' = visit
    <2>1. faults' # {}
      BY <1>5
    <2>2. type # NoType /\ ByValue(type) /\ IsStruct(type.base) /\ visit[type.base] = 1
      BY <1>5 DEF depends_by_value, is_recursive
    <2>3. type.base \in Names /\ type.base \in HoldsIn(table, AtStruct)
      BY <1>1, <2>2, AtType
    <2> DEFINE p == [k \in 1 .. Len(walk) |-> walk[k].name]
               n == Len(walk)
    <2>4. PICK j \in 1 .. n : walk[j].name = type.base
      BY <2>2, <2>3 DEF LayoutInv, PathInOrder
    <2>5. n \in Nat /\ j \in 1 .. n /\ p[j] = type.base /\ p[n] = AtStruct /\ \A k \in 1 .. n : p[k] \in Names
      BY <1>1, <2>4, AtTop
    <2>6. ASSUME NEW k \in 1 .. n - 1 PROVE p[k + 1] \in HoldsIn(table, p[k])
      <3>1. k \in 1 .. n /\ k + 1 \in 1 .. n
        BY <2>5
      <3> QED BY <3>1 DEF LayoutInv, PathInOrder
    <2> HIDE DEF p, n
    <2>7. p[j] \in DeepIn(table, p[j])
      BY <2>3, <2>5, <2>6, CircleHoldsItself
    <2>8. ~ SoundTable(table)
      BY <2>3, <2>5, <2>7 DEF SoundTable, SoundStruct
    <2> QED BY <1>1, <1>5, <2>1, <2>8, PassInv
  <1>6. CASE /\ depends_by_value(type) /\ ~ is_recursive(type.base) /\ visit[type.base] # 0
             /\ walk' = Passed /\ visit' = visit /\ faults' = faults
    <2>1. type # NoType /\ ByValue(type) /\ IsStruct(type.base) /\ visit[type.base] # 1
      BY <1>6 DEF depends_by_value, is_recursive
    <2>2. visit[type.base] = 2
      BY <1>3, <1>6, <2>1 DEF IsStruct
    <2> QED BY <1>1, <1>2, <1>6, <2>2, PassInv
  <1>7. CASE /\ depends_by_value(type) /\ visit[type.base] = 0 /\ faults' = faults
             /\ walk' = Append(Passed, [name |-> type.base, at |-> 1]) /\ visit' = [visit EXCEPT ![type.base] = 1]
    BY <1>1, <1>7, PushInv
  <1> QED BY <1>4, <1>5, <1>6, <1>7 DEF WalkField

LEMMA StartWalkInv == ASSUME LayoutInv, StartWalk PROVE LayoutInv'
  <1> DEFINE b == FirstOf(Unwalked)
             top == [name |-> b, at |-> 1]
  <1>1. /\ phase \in {"c", "coglet"} /\ walk = << >> /\ Unwalked # {}
        /\ walk' = <<top>> /\ visit' = [visit EXCEPT ![b] = 1]
        /\ table' = table /\ fields' = fields /\ phase' = phase /\ faults' = faults
    BY DEF StartWalk
  <1>2. b \in Names /\ visit[b] = 0 /\ (table[b].repr_c <=> phase = "c")
    <2>1. Unwalked \in SUBSET (DOMAIN Structs)
      BY DEF Unwalked
    <2>2. PICK i \in Unwalked : b = Structs[i] /\ b \in Names
      BY <1>1, <2>1, FirstIsOne
    <2> QED BY <2>2 DEF Unwalked, Walked
  <1>3. top \in WalkFrame /\ top.name = b /\ top.at = 1
    BY <1>2 DEF WalkFrame
  <1>4. visit' \in [Names -> {0, 1, 2}] /\ visit'[b] = 1 /\ \A m \in Names : m # b => visit'[m] = visit[m]
    BY <1>1, <1>2 DEF LayoutInv, LayoutTypes
  <1>5. walk' \in Seq(WalkFrame) /\ Len(walk') = 1 /\ walk'[1].name = b /\ walk'[1].at = 1
    <2> HIDE DEF top
    <2> QED BY <1>1, <1>3
  <1> HIDE DEF b, top
  <1>6. LayoutTypes'
    BY <1>1, <1>4, <1>5 DEF LayoutInv, LayoutTypes
  <1>7. PhasesInOrder(table', fields', phase', visit', walk')
    BY <1>1, <1>2, <1>4 DEF LayoutInv, PhasesInOrder
  <1>8. PathInOrder(table', visit', walk') /\ ClassInOrder(table', phase', walk')
    <2>1. \A m \in Names : visit[m] # 1
      BY <1>1 DEF LayoutInv, PathInOrder
    <2>2. \A k \in 1 .. Len(walk') : k = 1
      BY <1>5
    <2>3. ClassInOrder(table', phase', walk')
      BY <1>1, <1>2, <1>5, <2>2 DEF ClassInOrder
    <2>4. ASSUME NEW m \in Names, visit'[m] = 1 PROVE \E k \in 1 .. Len(walk') : walk'[k].name = m
      BY <1>4, <1>5, <2>1, <2>4
    <2> QED BY <1>4, <1>5, <2>2, <2>3, <2>4 DEF PathInOrder
  <1>9. PassedIsSettled(fields', visit', walk')
    <2>1. \A k \in 1 .. Len(walk') : k = 1
      BY <1>5
    <2>2. fields[b] \in Seq(Taken)
      BY <1>1, <1>2 DEF LayoutInv, LayoutTypes, PhasesInOrder
    <2>3. \A i \in DOMAIN fields[b] : ~ (i < 1)
      BY <2>2
    <2> QED BY <1>1, <1>5, <2>1, <2>3 DEF PassedIsSettled
  <1>10. ASSUME faults = {} PROVE DoneIsAcyclic(table', visit')
    <2>1. DoneOf(visit') = DoneOf(visit)
      BY <1>2, <1>4 DEF DoneOf
    <2> QED BY <1>1, <1>10, <2>1 DEF LayoutInv, DoneIsAcyclic
  <1> QED BY <1>1, <1>6, <1>7, <1>8, <1>9, <1>10 DEF LayoutInv

LEMMA EndWalkInv == ASSUME LayoutInv, EndWalk PROVE LayoutInv'
  <1>1. /\ phase \in {"c", "coglet"} /\ walk = << >> /\ Unwalked = {}
        /\ phase' = (IF phase = "c" THEN "coglet" ELSE "done")
        /\ table' = table /\ fields' = fields /\ visit' = visit /\ walk' = walk /\ faults' = faults
    BY DEF EndWalk
  <1>2. LayoutTypes'
    BY <1>1 DEF LayoutInv, LayoutTypes
  <1>3. ASSUME NEW m \in Names, table[m].repr_c <=> phase = "c" PROVE visit[m] = 2
    <2>1. PICK i \in DOMAIN Structs : m = Structs[i]
      BY DEF Names, ToSet
    <2>2. visit[m] # 0
      BY <1>1, <1>3, <2>1 DEF Unwalked, Walked
    <2>3. visit[m] # 1 /\ visit[m] \in {0, 1, 2}
      BY <1>1 DEF LayoutInv, LayoutTypes, PathInOrder
    <2> QED BY <2>2, <2>3
  <1>4. PhasesInOrder(table', fields', phase', visit', walk')
    <2>1. CASE phase = "c"
      BY <1>1, <1>3, <2>1 DEF LayoutInv, PhasesInOrder
    <2>2. CASE phase = "coglet"
      <3>1. \A m \in Names : visit[m] = 2
        BY <1>3, <2>2 DEF LayoutInv, PhasesInOrder
      <3> QED BY <1>1, <2>2, <3>1 DEF LayoutInv, PhasesInOrder
    <2> QED BY <1>1, <2>1, <2>2
  <1>5. ClassInOrder(table', phase', walk')
    BY <1>1 DEF ClassInOrder
  <1> QED BY <1>1, <1>2, <1>4, <1>5 DEF LayoutInv

(* What a walk has passed stays settled when its last struct is done.      *)
Leaves(vi, vi2, wa, wa2, n) ==
  /\ n \in Nat \ {0} /\ Len(wa) = n /\ Len(wa2) = n - 1
  /\ \A k \in 1 .. n : wa[k].name \in Names
  /\ \A k \in 1 .. n - 1 : wa2[k] = wa[k]
  /\ vi2[wa[n].name] = 2 /\ \A m \in Names : m # wa[n].name => vi2[m] = vi[m]
LEMMA SettledPop ==
  ASSUME NEW fs, NEW vi, NEW vi2, NEW wa, NEW wa2, NEW n, Leaves(vi, vi2, wa, wa2, n), PassedIsSettled(fs, vi, wa)
  PROVE  PassedIsSettled(fs, vi2, wa2)
  <1> USE DEF Leaves
  <1> SUFFICES ASSUME NEW k \in 1 .. Len(wa2), NEW i \in DOMAIN fs[wa2[k].name], i < wa2[k].at,
                      NEW u, u = fs[wa2[k].name][i], u # NoType, ByValue(u), IsStruct(u.base)
               PROVE  Settled(vi2, wa2, k, u.base)
    BY DEF PassedIsSettled
  <1>1. u.base \in Names
    BY DEF IsStruct
  <1>2. k \in 1 .. n - 1 /\ k \in 1 .. n /\ k + 1 \in 1 .. n /\ k < n
    OBVIOUS
  <1>3. wa2[k] = wa[k]
    BY <1>2
  <1>4. Settled(vi, wa, k, u.base)
    BY <1>2, <1>3 DEF PassedIsSettled
  <1>5. CASE u.base = wa[n].name
    BY <1>5 DEF Settled
  <1>6. CASE u.base # wa[n].name
    <2>1. CASE vi[u.base] = 2
      BY <1>1, <1>6, <2>1 DEF Settled
    <2>2. CASE wa[k + 1].name = u.base
      <3>1. k + 1 # n
        BY <1>6, <2>2
      <3>2. k + 1 \in 1 .. n - 1 /\ k < n - 1
        BY <1>2, <3>1
      <3> QED BY <2>2, <3>2 DEF Settled
    <2> QED BY <1>4, <2>1, <2>2 DEF Settled
  <1> QED BY <1>5, <1>6

LEMMA NoStructIsNoType == "no type" \notin Names
  <1> DEFINE X == {"no type", "unresolved"} \cup DOMAIN ScalarSize
             Y == STRING \ X
  <1>1. Structs \in Seq(Y)
    BY LayoutAssumption
  <1>2. "no type" \notin Y
    OBVIOUS
  <1> HIDE DEF Y
  <1>3. \A i \in DOMAIN Structs : Structs[i] \in Y
    BY <1>1
  <1> QED BY <1>2, <1>3 DEF Names, ToSet

(* What a walk leaves holds only what is done.                             *)
LEMMA LeftHoldsDone ==
  ASSUME LayoutInv, walk # << >>, AtField > Len(fields[AtStruct]), faults = {}
  PROVE  HoldsIn(table, AtStruct) \subseteq DoneOf(visit)
  <1> SUFFICES ASSUME NEW m \in HoldsIn(table, AtStruct) PROVE m \in DoneOf(visit)
    OBVIOUS
  <1>1. table \in [Names -> Declaration] /\ AtStruct \in Names /\ fields[AtStruct] \in Seq(Taken) /\ fields[AtStruct] # Unresolved
    BY AtTop DEF LayoutInv, LayoutTypes
  <1>2. PICK type \in DeclaredIn(table, AtStruct) : ByValue(type) /\ IsStruct(type.base) /\ type.base = m
    BY <1>1, HoldsTypes
  <1>3. FilledWell(table, fields[AtStruct], AtStruct, faults = {})
    BY <1>1 DEF LayoutInv, FieldsInOrder
  <1>4. PICK i \in DOMAIN fields[AtStruct] : fields[AtStruct][i] = type
    BY <1>2, <1>3 DEF FilledWell
  <1>5. i < AtField
    BY <1>1, AtTop
  <1>6. type # NoType
    <2>1. type \in FieldType
      BY <1>1, <1>2, HoldsTypes
    <2>2. type.base # "no type"
      BY <1>2, NoStructIsNoType DEF IsStruct
    <2>3. NoType.base = "no type"
      BY DEF NoType
    <2> QED BY ONLY <2>2, <2>3
  <1>7. Settled(visit, walk, Len(walk), type.base)
    <2>1. PassedIsSettled(fields, visit, walk)
      BY DEF LayoutInv
    <2>2. Len(walk) \in 1 .. Len(walk) /\ walk[Len(walk)].name = AtStruct /\ walk[Len(walk)].at = AtField
      BY AtTop
    <2> QED BY <1>2, <1>4, <1>5, <1>6, <2>1, <2>2 DEF PassedIsSettled
  <1>8. Len(walk) \in Nat
    BY AtTop
  <1> QED BY <1>2, <1>7, <1>8 DEF Settled, DoneOf, IsStruct

LEMMA WalkBackInv == ASSUME LayoutInv, WalkBack PROVE LayoutInv'
  <1> DEFINE n == Len(walk)
  <1>1. /\ walk # << >> /\ AtField > Len(fields[AtStruct])
        /\ visit' = [visit EXCEPT ![AtStruct] = 2] /\ walk' = Front(walk)
        /\ table' = table /\ fields' = fields /\ phase' = phase /\ faults' = faults
    BY DEF WalkBack, walked_mark
  <1>2. n \in Nat \ {0} /\ AtStruct = walk[n].name /\ AtStruct \in Names /\ \A k \in 1 .. n : walk[k].name \in Names
    BY <1>1, AtTop
  <1>3. walk' \in Seq(WalkFrame) /\ Len(walk') = n - 1 /\ \A k \in 1 .. n - 1 : walk'[k] = walk[k]
    <2>1. walk \in Seq(WalkFrame)
      BY DEF LayoutInv, LayoutTypes
    <2>2. walk' = SubSeq(walk, 1, n - 1) /\ Len(walk) = n
      BY <1>1 DEF Front
    <2> HIDE DEF n
    <2>3. walk' \in Seq(WalkFrame) /\ Len(walk') = n - 1
      BY ONLY <1>2, <2>1, <2>2
    <2>4. \A k \in 1 .. n - 1 : walk'[k] = walk[k]
      BY ONLY <1>2, <2>1, <2>2
    <2> QED BY <2>3, <2>4
  <1>4. visit' \in [Names -> {0, 1, 2}] /\ visit'[AtStruct] = 2 /\ \A m \in Names : m # AtStruct => visit'[m] = visit[m]
    BY <1>1, <1>2 DEF LayoutInv, LayoutTypes
  <1>5. visit[AtStruct] = 1 /\ phase \in {"c", "coglet"}
    BY <1>1, AtTop
  <1>6. \A k \in 1 .. n - 1 : k \in 1 .. n /\ k # n
    BY <1>2
  <1>7. LayoutTypes'
    BY <1>1, <1>3, <1>4 DEF LayoutInv, LayoutTypes
  <1>8. PhasesInOrder(table', fields', phase', visit', walk')
    BY <1>1, <1>2, <1>4, <1>5 DEF LayoutInv, PhasesInOrder
  <1>9. PathInOrder(table', visit', walk')
    <2>1. PathInOrder(table, visit, walk)
      BY DEF LayoutInv
    <2>2. \A k \in 1 .. n - 1 : walk[k].name # AtStruct /\ visit[walk[k].name] = 1
      BY <1>2, <1>6, <2>1 DEF PathInOrder
    <2>3. ASSUME NEW k \in 1 .. Len(walk') PROVE visit'[walk'[k].name] = 1
      <3>1. k \in 1 .. n - 1 /\ k \in 1 .. n
        BY <1>2, <1>3
      <3>2. walk'[k] = walk[k] /\ walk[k].name \in Names
        BY <1>2, <1>3, <3>1
      <3> QED BY <1>4, <2>2, <3>1, <3>2
    <2>4. ASSUME NEW m \in Names, visit'[m] = 1 PROVE \E k \in 1 .. Len(walk') : walk'[k].name = m
      <3>1. m # AtStruct /\ visit[m] = 1
        BY <1>4, <2>4
      <3>2. PICK k \in 1 .. n : walk[k].name = m
        BY <2>1, <3>1 DEF PathInOrder
      <3>3. k \in 1 .. n - 1
        BY <1>2, <3>1, <3>2
      <3> QED BY <1>3, <3>2, <3>3
    <2>5. ASSUME NEW k \in 1 .. Len(walk') - 1 PROVE walk'[k + 1].name \in HoldsIn(table', walk'[k].name)
      <3>1. k \in 1 .. n - 1 /\ k + 1 \in 1 .. n - 1
        BY <1>2, <1>3
      <3> QED BY <1>1, <1>3, <2>1, <3>1 DEF PathInOrder
    <2>6. ASSUME NEW j \in 1 .. Len(walk'), NEW k \in 1 .. Len(walk'), j # k PROVE walk'[j].name # walk'[k].name
      <3>1. j \in 1 .. n - 1 /\ k \in 1 .. n - 1
        BY <1>3
      <3>2. walk'[j] = walk[j] /\ walk'[k] = walk[k] /\ j \in 1 .. n /\ k \in 1 .. n
        BY <1>3, <1>6, <3>1
      <3>3. walk[j].name # walk[k].name
        BY <2>1, <2>6, <3>2 DEF PathInOrder
      <3> QED BY <3>2, <3>3
    <2> QED BY <2>3, <2>4, <2>5, <2>6 DEF PathInOrder
  <1>10. ClassInOrder(table', phase', walk')
    BY <1>1, <1>3, <1>6 DEF LayoutInv, ClassInOrder
  <1>11. ASSUME faults = {} PROVE PassedIsSettled(fields', visit', walk')
    <2>1. PassedIsSettled(fields, visit, walk) /\ Len(walk) = n
      BY <1>11 DEF LayoutInv
    <2>2. visit'[walk[n].name] = 2 /\ \A m \in Names : m # walk[n].name => visit'[m] = visit[m]
      BY <1>2, <1>4
    <2> HIDE DEF n
    <2>4. Leaves(visit, visit', walk, walk', n)
      BY ONLY <1>2, <1>3, <2>1, <2>2 DEF Leaves
    <2>3. PassedIsSettled(fields, visit', walk')
      BY ONLY <2>1, <2>4, SettledPop
    <2> QED BY <1>1, <2>3
  <1>12. ASSUME faults = {} PROVE DoneIsAcyclic(table', visit')
    <2>1. HoldsIn(table, AtStruct) \subseteq DoneOf(visit) /\ DoneIsAcyclic(table, visit)
      BY <1>1, <1>12, LeftHoldsDone DEF LayoutInv
    <2>2. DoneOf(visit') = DoneOf(visit) \cup {AtStruct} /\ AtStruct \notin DoneOf(visit) /\ DoneOf(visit) \in SUBSET Names
      BY <1>2, <1>4, <1>5 DEF DoneOf
    <2>3. DeepIn(table, AtStruct) \subseteq DoneOf(visit)
      BY <1>2, <2>1, <2>2, NotInItself DEF DoneIsAcyclic
    <2> QED BY <1>1, <2>1, <2>2, <2>3 DEF DoneIsAcyclic
  <1> QED BY <1>1, <1>7, <1>8, <1>9, <1>10, <1>11, <1>12 DEF LayoutInv

LEMMA LayoutStep == ASSUME LayoutInv, [LayoutNext]_yvars PROVE LayoutInv'
  <1>1. ASSUME UNCHANGED yvars PROVE LayoutInv'
    <2>1. table' = table /\ fields' = fields /\ phase' = phase /\ visit' = visit /\ walk' = walk /\ faults' = faults
      BY <1>1 DEF yvars
    <2>2. LayoutTypes'
      BY <2>1 DEF LayoutInv, LayoutTypes
    <2> QED BY <2>1, <2>2 DEF LayoutInv
  <1> QED BY <1>1, FillStructInv, FilledInv, StartWalkInv, EndWalkInv, WalkFieldInv, WalkBackInv DEF LayoutNext

LEMMA LayoutInductive == LayoutSpec => []LayoutInv
  <1>1. LayoutInit => LayoutInv
    BY LayoutStart
  <1>2. LayoutInv /\ [LayoutNext]_yvars => LayoutInv'
    BY LayoutStep
  <1> QED BY <1>1, <1>2, PTL DEF LayoutSpec

(* The two walks and fill_struct_fields accept exactly the declarations in *)
(* which no struct holds itself, an incomplete struct or, unless it is a   *)
(* resource, a resource: for every number of structs, fields and arrays.   *)
THEOREM LayoutsAreDecidedRightly == LayoutSpec => []LayoutsAreDecided
  <1>1. ASSUME LayoutInv, phase = "done" PROVE faults = {} <=> SoundTable(table)
    <2>1. ASSUME faults = {} PROVE SoundTable(table)
      <3>1. table \in [Names -> Declaration]
        BY <1>1 DEF LayoutInv, LayoutTypes
      <3>2. \A name \in Names : name \in DoneOf(visit) /\ fields[name] # Unresolved
        BY <1>1 DEF LayoutInv, PhasesInOrder, DoneOf
      <3>3. \A name \in Names : FilledWell(table, fields[name], name, faults = {})
        BY <1>1, <3>2 DEF LayoutInv, FieldsInOrder
      <3>4. \A name \in Names : ShapeFaults(table[name]) = {} /\ \A type \in DeclaredIn(table, name) : TakenIn(table, name, type)
        BY <2>1, <3>3 DEF FilledWell
      <3>5. \A name \in Names : name \notin DeepIn(table, name)
        BY <1>1, <2>1, <3>2 DEF LayoutInv, DoneIsAcyclic
      <3> QED BY <3>1, <3>4, <3>5, TakenIsSound
    <2> QED BY <1>1, <2>1 DEF LayoutInv
  <1>2. LayoutInv => LayoutsAreDecided
    BY <1>1, TheTable DEF LayoutsAreDecided
  <1> QED BY <1>2, LayoutInductive, PTL

-----------------------------------------------------------------------------
(* The layouts the target has: recursion over naturals, and the greatest   *)
(* of finitely many numbers.                                               *)

(* f is v at 0 and F[n] of the value before at every n up to N.            *)
Iterates(N, V, F, v, f) == f \in [0 .. N -> V] /\ f[0] = v /\ \A n \in 1 .. N : f[n] = F[n][f[n - 1]]
LEMMA Recursion ==
  ASSUME NEW N \in Nat, NEW V, NEW F \in [1 .. N -> [V -> V]], NEW v \in V
  PROVE  \E f : Iterates(N, V, F, v, f)
  <1> DEFINE Solves(f, k) == f[0] = v /\ \A n \in 1 .. N : n <= k => f[n] = F[n][f[n - 1]]
             S == {k \in Nat : \E f \in [0 .. N -> V] : Solves(f, k)}
  <1>1. 0 \in S
    <2>1. Solves([n \in 0 .. N |-> v], 0)
      OBVIOUS
    <2>2. [n \in 0 .. N |-> v] \in [0 .. N -> V]
      OBVIOUS
    <2> HIDE DEF Solves
    <2> QED BY <2>1, <2>2
  <1>2. ASSUME NEW k \in Nat, k \in S PROVE k + 1 \in S
    <2>1. PICK f \in [0 .. N -> V] : Solves(f, k)
      BY <1>2
    <2>2. CASE k + 1 \in 1 .. N
      <3> DEFINE p == k + 1
                 h == [f EXCEPT ![p] = F[p][f[p - 1]]]
      <3>1. p \in 0 .. N /\ p - 1 \in 0 .. N /\ p # 0
        BY <2>2
      <3>2. F[p] \in [V -> V] /\ f[p - 1] \in V
        BY <2>2, <3>1
      <3>3. F[p][f[p - 1]] \in V
        BY <3>2
      <3> HIDE DEF p
      <3>4. h \in [0 .. N -> V] /\ h[p] = F[p][f[p - 1]] /\ \A n \in 0 .. N : n # p => h[n] = f[n]
        BY <3>1, <3>3
      <3> HIDE DEF h
      <3>5. ASSUME NEW n \in 1 .. N, n <= k + 1 PROVE h[n] = F[n][h[n - 1]]
        <4>1. n \in 0 .. N /\ n - 1 \in 0 .. N /\ n - 1 # p /\ (n # p => n <= k)
          BY <3>5 DEF p
        <4>2. h[n - 1] = f[n - 1]
          BY <3>4, <4>1
        <4>3. CASE n = p
          BY <3>4, <4>2, <4>3
        <4>4. CASE n # p
          <5>1. h[n] = f[n] /\ f[n] = F[n][f[n - 1]]
            BY <2>1, <3>4, <4>1, <4>4
          <5> QED BY <4>2, <5>1
        <4> QED BY <4>3, <4>4
      <3>6. h[0] = v
        BY <2>1, <3>1, <3>4
      <3>7. Solves(h, k + 1)
        BY <3>5, <3>6
      <3> HIDE DEF Solves
      <3> QED BY <3>4, <3>7
    <2>3. CASE k + 1 \notin 1 .. N
      <3>1. \A n \in 1 .. N : n <= k
        BY <2>3
      <3>2. Solves(f, k + 1)
        BY <2>1, <3>1
      <3> HIDE DEF Solves
      <3> QED BY <3>2
    <2> QED BY <2>2, <2>3
  <1>3. N \in S
    <2> HIDE DEF S
    <2> QED BY <1>1, <1>2, SetInduction
  <1>4. PICK f \in [0 .. N -> V] : Solves(f, N)
    BY <1>3
  <1>5. Iterates(N, V, F, v, f)
    BY <1>4 DEF Iterates
  <1> QED BY <1>5

LEMMA MaxIs ==
  ASSUME NEW S, S \subseteq Nat, S # {}, NEW B \in Nat, \A x \in S : x <= B
  PROVE  Max(S) \in S /\ \A y \in S : Max(S) >= y
  <1> DEFINE T == {t \in Nat : B - t \in S}
  <1>1. \A x \in S : x \in Nat /\ B - x \in Nat /\ B - (B - x) = x
    OBVIOUS
  <1>2. \A x \in S : B - x \in T
    BY <1>1
  <1>3. T \subseteq Nat /\ T # {}
    BY <1>2
  <1>4. PICK t \in T : \A u \in T : t <= u
    <2> HIDE DEF T
    <2> QED BY <1>3, LeastNumber
  <1>5. t \in Nat /\ B - t \in S
    BY <1>4
  <1>6. ASSUME NEW y \in S PROVE B - t >= y
    <2>1. t <= B - y
      BY <1>2, <1>4
    <2> QED BY <1>1, <1>5, <2>1
  <1> QED BY <1>5, <1>6 DEF Max

(* Finitely many numbers have a bound. *)
LEMMA Bounded ==
  ASSUME NEW n \in Nat, NEW m \in [1 .. n -> Nat]
  PROVE  \E B \in Nat : \A i \in 1 .. n : m[i] <= B
  <1> DEFINE P(B, k) == \A i \in 1 .. n : i <= k => m[i] <= B
             S == {k \in Nat : \E B \in Nat : P(B, k)}
  <1>1. 0 \in S
    <2>1. P(0, 0)
      OBVIOUS
    <2> HIDE DEF P
    <2> QED BY <2>1
  <1>2. ASSUME NEW k \in Nat, k \in S PROVE k + 1 \in S
    <2>1. PICK B \in Nat : P(B, k)
      BY <1>2
    <2>2. CASE k + 1 \in 1 .. n
      <3> DEFINE last == m[k + 1]
      <3>1. last \in Nat
        BY <2>2
      <3>2. ASSUME NEW i \in 1 .. n, i <= k + 1 PROVE m[i] <= B + last
        <4>1. CASE i = k + 1
          <5>1. m[i] = last
            BY <4>1
          <5> HIDE DEF last
          <5> QED BY <3>1, <5>1
        <4>2. CASE i # k + 1
          <5>1. i <= k
            BY <3>2, <4>2
          <5>2. m[i] \in Nat /\ m[i] <= B
            BY <2>1, <5>1
          <5> HIDE DEF last
          <5> QED BY <3>1, <5>2
        <4> QED BY <4>1, <4>2
      <3> HIDE DEF last
      <3>3. P(B + last, k + 1)
        BY <3>2
      <3> HIDE DEF P
      <3> QED BY <3>1, <3>3
    <2>3. CASE k + 1 \notin 1 .. n
      <3>1. \A i \in 1 .. n : i <= k
        BY <2>3
      <3>2. P(B, k + 1)
        BY <2>1, <3>1
      <3> HIDE DEF P
      <3> QED BY <3>2
    <2> QED BY <2>2, <2>3
  <1>3. n \in S
    <2> HIDE DEF S
    <2> QED BY <1>1, <1>2, SetInduction
  <1> QED BY <1>3

-----------------------------------------------------------------------------
(* Layouts. *)

Alignments == PowersOfTwo \ {0}
Known == [size : Nat, align : Alignments]
AnyLayout == Known \cup {NoLayout}

(* Each power of two is twice the one before it.                           *)
LEMMA PowerOfTwoIs ==
  /\ power_of_two \in [0 .. 30 -> Nat \ {0}] /\ power_of_two[0] = 1
  /\ \A n \in 1 .. 30 : power_of_two[n] = 2 * power_of_two[n - 1]
  <1> DEFINE V == Nat \ {0}
             E(f) == [n \in 0 .. 30 |-> IF n = 0 THEN 1 ELSE 2 * f[n - 1]]
             D == [x \in V |-> 2 * x]
             F == [n \in 1 .. 30 |-> D]
             S == {n \in Nat : n <= 30 => power_of_two[n] \in V}
  <1>1. D \in [V -> V] /\ F \in [1 .. 30 -> [V -> V]] /\ 1 \in V /\ 30 \in Nat
    OBVIOUS
  <1>2. PICK f : Iterates(30, V, F, 1, f)
    <2> HIDE DEF F, D, V
    <2> QED BY <1>1, Recursion
  <1>3. f \in [0 .. 30 -> V] /\ f[0] = 1 /\ \A n \in 1 .. 30 : f[n] = F[n][f[n - 1]]
    <2> HIDE DEF F, D, V
    <2> QED BY <1>2 DEF Iterates
  <1>4. ASSUME NEW n \in 1 .. 30 PROVE f[n] = 2 * f[n - 1]
    <2>1. n - 1 \in 0 .. 30
      OBVIOUS
    <2>2. f[n - 1] \in V
      BY <1>3, <2>1
    <2> QED BY <1>3, <2>2
  <1>5. f = E(f)
    <2>1. \A n \in 0 .. 30 : n # 0 => n \in 1 .. 30
      OBVIOUS
    <2> QED BY <1>3, <1>4, <2>1
  <1>6. power_of_two = E(power_of_two)
    <2>1. power_of_two = CHOOSE g : g = E(g)
      BY DEF power_of_two
    <2> HIDE DEF E
    <2> QED BY <1>5, <2>1
  <1>7. power_of_two[0] = 1 /\ \A n \in 1 .. 30 : power_of_two[n] = 2 * power_of_two[n - 1]
    BY <1>6
  <1>8. 0 \in S
    BY <1>7
  <1>9. ASSUME NEW n \in Nat, n \in S PROVE n + 1 \in S
    <2> SUFFICES ASSUME n + 1 <= 30 PROVE power_of_two[n + 1] \in V
      OBVIOUS
    <2>1. n + 1 \in 1 .. 30 /\ (n + 1) - 1 = n /\ n <= 30
      OBVIOUS
    <2>2. power_of_two[n + 1] = 2 * power_of_two[n] /\ power_of_two[n] \in V
      BY <1>7, <1>9, <2>1
    <2> QED BY <2>2
  <1>10. Nat \subseteq S
    <2> HIDE DEF S
    <2> QED BY <1>8, <1>9, SetInduction
  <1>11. \A n \in 0 .. 30 : power_of_two[n] \in V
    BY <1>10
  <1> QED BY <1>6, <1>7, <1>11

LEMMA AnyMultiple == ASSUME NEW k \in Nat, NEW a \in Nat \ {0} PROVE (k * a) % a = 0
  OBVIOUS
LEMMA TwiceMultiple == ASSUME NEW x \in Nat, NEW a \in Nat \ {0}, x % a = 0 PROVE (2 * x) % a = 0
  <1> DEFINE q == x \div a
  <1>1. q \in Nat /\ x = a * q + (x % a)
    OBVIOUS
  <1> HIDE DEF q
  <1>2. x = q * a /\ 2 * q \in Nat
    BY <1>1
  <1>3. ((2 * q) * a) % a = 0
    BY <1>2, AnyMultiple
  <1>4. 2 * (q * a) = (2 * q) * a
    BY <1>1
  <1> QED BY <1>2, <1>3, <1>4

(* The greater of two divides by the smaller.                              *)
LEMMA GreaterPower ==
  ASSUME NEW i \in 0 .. 30, NEW k \in Nat, i + k <= 30
  PROVE  power_of_two[i + k] % power_of_two[i] = 0 /\ power_of_two[i + k] >= power_of_two[i]
         /\ (k > 0 => power_of_two[i + k] > power_of_two[i])
  <1> DEFINE p == power_of_two
             Q(a, b, m) == b % a = 0 /\ b >= a /\ (m > 0 => b > a)
             S == {m \in Nat : i + m <= 30 => Q(p[i], p[i + m], m)}
  <1>1. \A n \in 0 .. 30 : p[n] \in Nat \ {0}
    BY PowerOfTwoIs
  <1>2. 0 \in S
    <2>1. i + 0 = i /\ p[i] \in Nat \ {0}
      BY <1>1
    <2> HIDE DEF p
    <2>2. p[i] % p[i] = 0
      BY <2>1
    <2> QED BY <2>1, <2>2
  <1>3. ASSUME NEW m \in Nat, m \in S PROVE m + 1 \in S
    <2> SUFFICES ASSUME i + (m + 1) <= 30 PROVE Q(p[i], p[i + (m + 1)], m + 1)
      OBVIOUS
    <2>1. i + (m + 1) \in 1 .. 30 /\ (i + (m + 1)) - 1 = i + m /\ i + m \in 0 .. 30 /\ i + m <= 30
      OBVIOUS
    <2>2. p[i + (m + 1)] = 2 * p[i + m] /\ p[i] \in Nat \ {0} /\ p[i + m] \in Nat \ {0}
      BY <1>1, <2>1, PowerOfTwoIs
    <2>3. p[i + m] % p[i] = 0 /\ p[i + m] >= p[i]
      BY <1>3, <2>1
    <2>4. ASSUME NEW a \in Nat \ {0}, NEW b \in Nat \ {0}, b % a = 0, b >= a PROVE (2 * b) % a = 0 /\ 2 * b > a
      <3>1. (2 * b) % a = 0
        BY ONLY <2>4, TwiceMultiple
      <3>2. 2 * b > a
        BY ONLY <2>4
      <3> QED BY <3>1, <3>2
    <2> HIDE DEF p
    <2>5. (2 * p[i + m]) % p[i] = 0 /\ 2 * p[i + m] > p[i]
      BY <2>2, <2>3, <2>4
    <2>6. 2 * p[i + m] >= p[i]
      BY <2>2, <2>5
    <2> QED BY <2>2, <2>5, <2>6
  <1>4. k \in S
    <2> HIDE DEF S
    <2> QED BY <1>2, <1>3, SetInduction
  <1> QED BY <1>4

LEMMA AlignmentsAre ==
  /\ Alignments \subseteq Nat \ {0} /\ 1 \in Alignments
  /\ \A a \in Alignments : a <= power_of_two[30]
  /\ \A a, b \in Alignments : a >= b => a % b = 0
  <1>1. Alignments = {power_of_two[n] : n \in 0 .. 30} /\ Alignments \subseteq Nat \ {0}
    BY PowerOfTwoIs DEF Alignments, PowersOfTwo
  <1>2. 1 \in Alignments
    <2>1. 0 \in 0 .. 30
      OBVIOUS
    <2> QED BY <1>1, <2>1, PowerOfTwoIs
  <1>3. ASSUME NEW a \in Alignments PROVE a <= power_of_two[30]
    <2>1. PICK n \in 0 .. 30 : a = power_of_two[n]
      BY <1>1
    <2>2. 30 - n \in Nat /\ n + (30 - n) = 30 /\ 30 \in 0 .. 30
      OBVIOUS
    <2>3. power_of_two[30] >= power_of_two[n]
      <3> DEFINE k == 30 - n
      <3>1. k \in Nat /\ n + k = 30 /\ n + k <= 30
        BY <2>2
      <3> HIDE DEF k
      <3>2. power_of_two[n + k] >= power_of_two[n]
        BY <3>1, GreaterPower
      <3> QED BY <3>1, <3>2
    <2>4. power_of_two[30] \in Nat /\ power_of_two[n] \in Nat
      BY <2>2, PowerOfTwoIs
    <2> QED BY <2>1, <2>3, <2>4
  <1>4. ASSUME NEW a \in Alignments, NEW b \in Alignments, a >= b PROVE a % b = 0
    <2>1. PICK m \in 0 .. 30, n \in 0 .. 30 : a = power_of_two[m] /\ b = power_of_two[n]
      BY <1>1
    <2>2. CASE m >= n
      <3>1. m - n \in Nat /\ n + (m - n) = m /\ n + (m - n) <= 30
        BY <2>2
      <3> QED BY <2>1, <3>1, GreaterPower
    <2>3. CASE ~ (m >= n)
      <3>1. n - m \in Nat /\ m + (n - m) = n /\ n - m > 0 /\ m + (n - m) <= 30
        BY <2>3
      <3>2. b > a
        BY <2>1, <3>1, GreaterPower
      <3> QED BY <1>1, <1>4, <3>2
    <2> QED BY <2>2, <2>3
  <1> QED BY <1>1, <1>2, <1>3, <1>4

LEMMA MultipleIs ==
  ASSUME NEW v \in Nat, NEW a \in Alignments
  PROVE  Multiples(v, a) \in Nat /\ Multiples(v, a) % a = 0 /\ Multiples(v, a) - v \in 0 .. a - 1
  <1>1. a \in Nat \ {0}
    BY AlignmentsAre
  <1> DEFINE x == v + a - 1
             k == x \div a
  <1>2. x \in Nat
    BY <1>1
  <1>3. Multiples(v, a) = k * a
    BY DEF Multiples
  <1> HIDE DEF x
  <1>4. k \in Nat /\ x = a * k + (x % a) /\ x % a \in 0 .. a - 1
    BY <1>1, <1>2
  <1> HIDE DEF k
  <1>5. k * a \in Nat /\ (k * a) % a = 0 /\ k * a = a * k
    <2>1. k * a \in Nat /\ k * a = a * k
      BY <1>1, <1>4
    <2>2. (k * a) % a = 0
      BY ONLY <1>1, <1>4, AnyMultiple
    <2> QED BY <2>1, <2>2
  <1> DEFINE r == x % a
             y == k * a
  <1>6. y \in Nat /\ r \in 0 .. a - 1 /\ x = y + r
    BY <1>4, <1>5
  <1> HIDE DEF r, y
  <1>7. y - v \in 0 .. a - 1
    BY <1>1, <1>6 DEF x
  <1> QED BY <1>3, <1>5, <1>7 DEF y

LEMMA RoundedIs ==
  ASSUME NEW v \in Nat, NEW a \in Alignments
  PROVE  /\ Rounded(v, a) \in AnyLayout
         /\ Rounded(v, a) # NoLayout => /\ v <= MaxSize /\ Multiples(v, a) <= MaxSize
                                        /\ Rounded(v, a).size = Multiples(v, a) /\ Rounded(v, a).align = a
  <1>1. Multiples(v, a) \in Nat /\ Multiples(v, a) - v \in 0 .. a - 1 /\ a \in Nat /\ MaxSize \in Nat
    BY MultipleIs, AlignmentsAre, LayoutAssumption
  <1>2. CASE v <= MaxSize /\ RoundsUp(v, a)
    <2>1. Rounded(v, a) = [size |-> Multiples(v, a), align |-> a]
      BY <1>2 DEF Rounded
    <2>2. Multiples(v, a) <= MaxSize
      BY <1>1, <1>2 DEF RoundsUp
    <2> QED BY <1>1, <1>2, <2>1, <2>2 DEF AnyLayout, Known
  <1>3. CASE ~ (v <= MaxSize /\ RoundsUp(v, a))
    BY <1>3 DEF Rounded, AnyLayout
  <1> QED BY <1>2, <1>3

LEMMA PlaceIs ==
  ASSUME NEW v \in Nat, NEW a \in Alignments, NEW member \in Known
  PROVE  place(v, a, member) \in Nat /\ (place(v, a, member) <= MaxSize => place(v, a, member) = Multiples(v, a) + member.size)
  <1>1. Multiples(v, a) \in Nat /\ MaxSize \in Nat /\ member.size \in Nat
    BY MultipleIs, LayoutAssumption DEF Known
  <1> QED BY <1>1 DEF place

LEMMA DoubledIs ==
  ASSUME NEW layout \in AnyLayout
  PROVE  Doubled(layout) \in AnyLayout /\ (layout = NoLayout => Doubled(layout) = NoLayout)
  <1>1. CASE layout = NoLayout \/ layout.size > MaxSize \div 2
    BY <1>1 DEF Doubled, AnyLayout
  <1>2. CASE ~ (layout = NoLayout \/ layout.size > MaxSize \div 2)
    <2>1. layout \in Known
      BY <1>2 DEF AnyLayout
    <2>2. Doubled(layout) = [layout EXCEPT !.size = layout.size * 2]
      BY <1>2 DEF Doubled
    <2>3. [layout EXCEPT !.size = layout.size * 2] \in Known
      BY <2>1 DEF Known
    <2> QED BY <1>2, <2>2, <2>3 DEF AnyLayout
  <1> QED BY <1>1, <1>2

LEMMA ArrayIs ==
  ASSUME NEW arrays \in Nat, NEW layout \in AnyLayout
  PROVE  ArrayLayout(arrays, layout) \in AnyLayout /\ (layout = NoLayout => ArrayLayout(arrays, layout) = NoLayout)
  <1> DEFINE E(f) == [n \in 0 .. arrays |-> IF n = 0 THEN layout ELSE Doubled(f[n - 1])]
             D == [l \in AnyLayout |-> Doubled(l)]
             F == [n \in 1 .. arrays |-> D]
             g == CHOOSE f : f = E(f)
             S == {n \in Nat : n <= arrays => g[n] \in AnyLayout /\ (layout = NoLayout => g[n] = NoLayout)}
  <1>1. D \in [AnyLayout -> AnyLayout] /\ F \in [1 .. arrays -> [AnyLayout -> AnyLayout]]
    BY DoubledIs
  <1>0. PICK f : Iterates(arrays, AnyLayout, F, layout, f)
    <2> HIDE DEF F, D
    <2> QED BY <1>1, Recursion
  <1>2. f \in [0 .. arrays -> AnyLayout] /\ f[0] = layout /\ \A n \in 1 .. arrays : f[n] = F[n][f[n - 1]]
    <2> HIDE DEF F, D
    <2> QED BY <1>0 DEF Iterates
  <1>3. ASSUME NEW n \in 0 .. arrays PROVE f[n] = IF n = 0 THEN layout ELSE Doubled(f[n - 1])
    <2>1. CASE n # 0
      <3>1. n \in 1 .. arrays /\ n - 1 \in 0 .. arrays
        BY <2>1
      <3>2. f[n] = D[f[n - 1]] /\ f[n - 1] \in AnyLayout
        BY <1>2, <3>1
      <3> QED BY <2>1, <3>2
    <2> QED BY <1>2, <2>1
  <1>4. f = E(f)
    BY <1>2, <1>3
  <1>5. ArrayLayout(arrays, layout) = g[arrays]
    BY DEF ArrayLayout
  <1>6. g = E(g)
    <2> HIDE DEF E
    <2> QED BY <1>4
  <1> HIDE DEF g
  <1>7. \A n \in 0 .. arrays : g[n] = IF n = 0 THEN layout ELSE Doubled(g[n - 1])
    BY <1>6
  <1>8. 0 \in S
    BY <1>7
  <1>9. ASSUME NEW n \in Nat, n \in S PROVE n + 1 \in S
    <2>1. ASSUME n + 1 <= arrays PROVE g[n + 1] = Doubled(g[n])
      <3>1. n + 1 \in 0 .. arrays /\ n + 1 # 0 /\ (n + 1) - 1 = n
        BY <2>1
      <3> QED BY <1>7, <3>1
    <2>2. n + 1 <= arrays => n <= arrays
      OBVIOUS
    <2> QED BY <1>9, <2>1, <2>2, DoubledIs
  <1>10. arrays \in S
    <2> HIDE DEF S
    <2> QED BY <1>8, <1>9, SetInduction
  <1> QED BY <1>5, <1>10

(* The layout of a type: what is in its arrays, and how many there are *)
InnerOf(type, known) ==
  IF \E i \in DOMAIN type.wrap : type.wrap[i] # "array"
  THEN LET first == CHOOSE i \in DOMAIN type.wrap : type.wrap[i] # "array" /\ \A j \in 1 .. i - 1 : type.wrap[j] = "array"
       IN  [arrays |-> first - 1,
            layout |-> IF type.wrap[first] = "*" THEN PointerLayout
                       ELSE Rounded(place(PointerSize, PointerSize, PointerLayout), PointerSize)]
  ELSE [arrays |-> Len(type.wrap),
        layout |-> IF IsStruct(type.base) THEN known[type.base]
                   ELSE [size |-> ScalarSize[type.base], align |-> ScalarAlign[ScalarSize[type.base]]]]

LEMMA ScalarIs == ASSUME NEW base \in DOMAIN ScalarSize PROVE [size |-> ScalarSize[base], align |-> ScalarAlign[ScalarSize[base]]] \in Known
  <1>1. ScalarAlign[ScalarSize[base]] \in Alignments
    BY LayoutAssumption DEF Alignments
  <1>2. ScalarSize[base] \in Nat
    BY DEF ScalarSize
  <1> QED BY <1>1, <1>2 DEF Known

LEMMA FirstNotArray ==
  ASSUME NEW wrap \in Seq({"array", "*", "slice"}), NEW i \in DOMAIN wrap, wrap[i] # "array"
  PROVE  \E k \in DOMAIN wrap : wrap[k] # "array" /\ \A j \in 1 .. k - 1 : wrap[j] = "array"
  <1> DEFINE T == {k \in DOMAIN wrap : wrap[k] # "array"}
  <1>1. DOMAIN wrap = 1 .. Len(wrap) /\ Len(wrap) \in Nat
    OBVIOUS
  <1>2. T \subseteq Nat /\ T # {}
    BY <1>1
  <1>3. PICK k \in T : \A j \in T : k <= j
    <2> HIDE DEF T
    <2> QED BY <1>2, LeastNumber
  <1>4. ASSUME NEW j \in 1 .. k - 1 PROVE wrap[j] = "array"
    <2>1. j \in DOMAIN wrap /\ ~ (k <= j)
      BY <1>1, <1>3
    <2> QED BY <1>3, <2>1
  <1> QED BY <1>3, <1>4

LEMMA InnerIs ==
  ASSUME NEW type \in FieldType, NEW known \in [Names -> AnyLayout]
  PROVE  InnerOf(type, known).arrays \in Nat /\ InnerOf(type, known).layout \in AnyLayout
  <1>1. type.wrap \in Seq({"array", "*", "slice"}) /\ type.base \in Names \cup DOMAIN ScalarSize
    BY DEF FieldType
  <1>2. DOMAIN type.wrap = 1 .. Len(type.wrap) /\ Len(type.wrap) \in Nat
    BY <1>1
  <1>3. PointerSize \in Alignments /\ PointerSize \in Nat /\ PointerLayout \in Known
    BY LayoutAssumption, AlignmentsAre DEF Alignments, PointerLayout, Known
  <1>4. CASE \E i \in DOMAIN type.wrap : type.wrap[i] # "array"
    <2> DEFINE first == CHOOSE i \in DOMAIN type.wrap : type.wrap[i] # "array" /\ \A j \in 1 .. i - 1 : type.wrap[j] = "array"
               inside == IF type.wrap[first] = "*" THEN PointerLayout
                         ELSE Rounded(place(PointerSize, PointerSize, PointerLayout), PointerSize)
    <2>1. first \in DOMAIN type.wrap
      BY <1>1, <1>4, FirstNotArray
    <2>2. InnerOf(type, known) = [arrays |-> first - 1, layout |-> inside]
      BY <1>4, Zenon DEF InnerOf
    <2>3. inside \in AnyLayout
      <3>1. PointerLayout \in AnyLayout
        BY <1>3 DEF AnyLayout
      <3>2. place(PointerSize, PointerSize, PointerLayout) \in Nat
        BY <1>3, PlaceIs
      <3>3. Rounded(place(PointerSize, PointerSize, PointerLayout), PointerSize) \in AnyLayout
        BY <1>3, <3>2, RoundedIs
      <3> QED BY <3>1, <3>3
    <2> HIDE DEF first, inside
    <2> QED BY <1>2, <2>1, <2>2, <2>3
  <1>5. CASE ~ (\E i \in DOMAIN type.wrap : type.wrap[i] # "array")
    <2> DEFINE inside == IF IsStruct(type.base) THEN known[type.base]
                         ELSE [size |-> ScalarSize[type.base], align |-> ScalarAlign[ScalarSize[type.base]]]
    <2>1. InnerOf(type, known) = [arrays |-> Len(type.wrap), layout |-> inside]
      BY <1>5, Zenon DEF InnerOf
    <2>2. inside \in AnyLayout
      <3>1. CASE IsStruct(type.base)
        BY <3>1 DEF IsStruct
      <3>2. CASE ~ IsStruct(type.base)
        <4>1. type.base \in DOMAIN ScalarSize
          BY <1>1, <3>2 DEF IsStruct
        <4>2. [size |-> ScalarSize[type.base], align |-> ScalarAlign[ScalarSize[type.base]]] \in AnyLayout
          BY <4>1, ScalarIs DEF AnyLayout
        <4> QED BY <3>2, <4>2
      <3> QED BY <3>1, <3>2
    <2> HIDE DEF inside
    <2> QED BY <1>2, <2>1, <2>2
  <1> QED BY <1>4, <1>5

(* One table of layouts knows no less than another. *)
KnowsMore(known, more) == \A name \in Names : known[name] # NoLayout => more[name] = known[name]

LEMMA LayoutOfIs ==
  ASSUME NEW type \in FieldType, NEW known \in [Names -> AnyLayout]
  PROVE  /\ LayoutOf(type, known) \in AnyLayout
         /\ \A more \in [Names -> AnyLayout] :
              KnowsMore(known, more) /\ LayoutOf(type, known) # NoLayout => LayoutOf(type, more) = LayoutOf(type, known)
  <1>1. \A k : LayoutOf(type, k) = ArrayLayout(InnerOf(type, k).arrays, InnerOf(type, k).layout)
    BY Zenon DEF LayoutOf, InnerOf
  <1>2. LayoutOf(type, known) \in AnyLayout
    BY <1>1, InnerIs, ArrayIs
  <1>3. ASSUME NEW more \in [Names -> AnyLayout], KnowsMore(known, more), LayoutOf(type, known) # NoLayout
        PROVE  InnerOf(type, more) = InnerOf(type, known)
    <2>1. CASE (\E i \in DOMAIN type.wrap : type.wrap[i] # "array") \/ ~ IsStruct(type.base)
      BY <2>1, Zenon DEF InnerOf
    <2>2. CASE ~ ((\E i \in DOMAIN type.wrap : type.wrap[i] # "array") \/ ~ IsStruct(type.base))
      <3>1. \A k : InnerOf(type, k) = [arrays |-> Len(type.wrap), layout |-> k[type.base]]
        BY <2>2, Zenon DEF InnerOf
      <3>2. \A k : InnerOf(type, k).layout = k[type.base]
        BY <3>1
      <3>3. known[type.base] # NoLayout
        BY <1>1, <1>3, <3>2, InnerIs, ArrayIs
      <3>4. more[type.base] = known[type.base]
        BY <1>3, <2>2, <3>3 DEF KnowsMore, IsStruct
      <3> QED BY <3>1, <3>4
    <2> QED BY <2>1, <2>2
  <1> QED BY <1>1, <1>2, <1>3

-----------------------------------------------------------------------------
(* The members of a struct, one after the other. *)

EndsAt(s, members, n, end) ==
  /\ end \in [0 .. n -> Nat] /\ end[0] = 0
  /\ \A i \in 1 .. n : end[i] = IF end[i - 1] > MaxSize THEN end[i - 1] ELSE place(end[i - 1], FieldAlign(s, members[i]), members[i])

LEMMA FieldAlignIs == ASSUME NEW s, NEW member \in Known PROVE FieldAlign(s, member) \in Alignments /\ member.align \in Alignments /\ member.size \in Nat
  <1>1. 1 \in Alignments
    BY AlignmentsAre
  <1> QED BY <1>1 DEF FieldAlign, Known

LEMMA EndsAre ==
  ASSUME NEW s, NEW members \in Seq(Known), NEW n \in Nat, Len(members) = n
  PROVE  \E end : EndsAt(s, members, n, end) /\ EndOf(s, members) = end[n]
  <1> DEFINE E(f) == [i \in 0 .. Len(members) |-> IF i = 0 THEN 0
                        ELSE IF f[i - 1] > MaxSize THEN f[i - 1] ELSE place(f[i - 1], FieldAlign(s, members[i]), members[i])]
             Next1(i, x) == IF x > MaxSize THEN x ELSE place(x, FieldAlign(s, members[i]), members[i])
             F == [i \in 1 .. n |-> [x \in Nat |-> Next1(i, x)]]
             g == CHOOSE f : f = E(f)
             S == {i \in Nat : i <= n => g[i] \in Nat}
  <1>1. \A i \in 1 .. n : \A x \in Nat : Next1(i, x) \in Nat
    <2> SUFFICES ASSUME NEW i \in 1 .. n, NEW x \in Nat PROVE Next1(i, x) \in Nat
      OBVIOUS
    <2>1. members[i] \in Known
      OBVIOUS
    <2>2. place(x, FieldAlign(s, members[i]), members[i]) \in Nat
      BY <2>1, FieldAlignIs, PlaceIs
    <2> QED BY <2>2
  <1> HIDE DEF Next1
  <1>2. F \in [1 .. n -> [Nat -> Nat]]
    BY <1>1
  <1>3. PICK f : Iterates(n, Nat, F, 0, f)
    <2> HIDE DEF F
    <2> QED BY <1>2, Recursion
  <1>4. f \in [0 .. n -> Nat] /\ f[0] = 0 /\ \A i \in 1 .. n : f[i] = F[i][f[i - 1]]
    <2> HIDE DEF F
    <2> QED BY <1>3 DEF Iterates
  <1>5. ASSUME NEW i \in 0 .. n, i # 0 PROVE f[i] = Next1(i, f[i - 1])
    <2>1. i \in 1 .. n /\ i - 1 \in 0 .. n
      BY <1>5
    <2>2. f[i - 1] \in Nat /\ F[i] = [x \in Nat |-> Next1(i, x)]
      BY <1>4, <2>1
    <2> QED BY <1>4, <2>1, <2>2
  <1>6. f = E(f)
    <2>1. \A i \in 0 .. n : f[i] = IF i = 0 THEN 0
                        ELSE IF f[i - 1] > MaxSize THEN f[i - 1] ELSE place(f[i - 1], FieldAlign(s, members[i]), members[i])
      BY <1>4, <1>5 DEF Next1
    <2> QED BY <1>4, <2>1
  <1>7. EndOf(s, members) = g[n]
    BY DEF EndOf
  <1>8. g = E(g)
    <2> HIDE DEF E
    <2> QED BY <1>6
  <1> HIDE DEF g
  <1>9. \A i \in 0 .. n : g[i] = IF i = 0 THEN 0 ELSE Next1(i, g[i - 1])
    BY <1>8 DEF Next1
  <1>10. 0 \in S
    BY <1>9
  <1>11. ASSUME NEW i \in Nat, i \in S PROVE i + 1 \in S
    <2>1. ASSUME i + 1 <= n PROVE g[i + 1] \in Nat
      <3>1. i + 1 \in 0 .. n /\ i + 1 \in 1 .. n /\ i + 1 # 0 /\ (i + 1) - 1 = i /\ i <= n
        BY <2>1
      <3>2. g[i] \in Nat /\ g[i + 1] = Next1(i + 1, g[i])
        BY <1>9, <1>11, <3>1
      <3> QED BY <1>1, <3>1, <3>2
    <2> QED BY <2>1
  <1>12. \A i \in 0 .. n : g[i] \in Nat
    <2>1. Nat \subseteq S
      <3> HIDE DEF S
      <3> QED BY <1>10, <1>11, SetInduction
    <2> QED BY <2>1
  <1>13. g \in [0 .. n -> Nat]
    <2>1. g = [i \in 0 .. n |-> g[i]]
      BY <1>8
    <2> QED BY <1>12, <2>1
  <1>14. \A i \in 1 .. n : g[i] = Next1(i, g[i - 1])
    BY <1>9
  <1>15. EndsAt(s, members, n, g)
    BY <1>9, <1>13, <1>14 DEF EndsAt, Next1
  <1> QED BY <1>7, <1>15

(* Without an overflow each member goes where it is meant to be.           *)
EndsInOrder(s, members, n, end) ==
  /\ \A i \in 0 .. n : end[i] \in Nat /\ end[i] <= end[n]
  /\ \A i \in 1 .. n : end[i] = Multiples(end[i - 1], FieldAlign(s, members[i])) + members[i].size

LEMMA EndsFit ==
  ASSUME NEW s, NEW n \in Nat, NEW members \in Seq(Known), Len(members) = n, NEW end, EndsAt(s, members, n, end), end[n] <= MaxSize
  PROVE  EndsInOrder(s, members, n, end)
  <1>1. MaxSize \in Nat
    BY LayoutAssumption
  <1>2. /\ end \in [0 .. n -> Nat]
        /\ \A i \in 1 .. n : end[i] = IF end[i - 1] > MaxSize THEN end[i - 1] ELSE place(end[i - 1], FieldAlign(s, members[i]), members[i])
    BY DEF EndsAt
  <1>3. ASSUME NEW i \in 1 .. n, end[i] <= MaxSize
        PROVE  end[i - 1] <= end[i] /\ end[i] = Multiples(end[i - 1], FieldAlign(s, members[i])) + members[i].size
    <2> DEFINE a == FieldAlign(s, members[i])
               v == end[i - 1]
    <2>1. a \in Alignments /\ members[i].size \in Nat /\ v \in Nat
      <3>1. i - 1 \in 0 .. n /\ members[i] \in Known
        OBVIOUS
      <3> QED BY <1>2, <3>1, FieldAlignIs
    <2>2. end[i] = IF v > MaxSize THEN v ELSE place(v, a, members[i])
      BY <1>2
    <2> HIDE DEF a, v
    <2>3. end[i] = place(v, a, members[i])
      BY <1>1, <1>3, <2>1, <2>2
    <2>4. end[i] = Multiples(v, a) + members[i].size
      BY <1>3, <2>1, <2>3, PlaceIs
    <2>5. Multiples(v, a) \in Nat /\ v <= Multiples(v, a)
      <3>1. Multiples(v, a) \in Nat /\ Multiples(v, a) - v \in 0 .. a - 1 /\ a \in Nat
        BY <2>1, MultipleIs, AlignmentsAre
      <3> QED BY <2>1, <3>1
    <2>6. v <= end[i]
      BY <2>1, <2>4, <2>5
    <2> QED BY <2>4, <2>6 DEF a, v
  <1> DEFINE S == {k \in Nat : k <= n => end[n - k] <= end[n]}
  <1>4. \A i \in 0 .. n : end[i] \in Nat
    BY <1>2
  <1>5. 0 \in S
    BY <1>4
  <1>6. ASSUME NEW k \in Nat, k \in S PROVE k + 1 \in S
    <2> SUFFICES ASSUME k + 1 <= n PROVE end[n - (k + 1)] <= end[n]
      OBVIOUS
    <2>1. n - k \in 1 .. n /\ n - (k + 1) \in 0 .. n /\ (n - k) - 1 = n - (k + 1) /\ k <= n /\ n - k \in 0 .. n /\ n \in 0 .. n
      OBVIOUS
    <2>2. end[n - k] <= end[n] /\ end[n - k] \in Nat /\ end[n] \in Nat /\ end[n - (k + 1)] \in Nat
      BY <1>4, <1>6, <2>1
    <2>3. end[n - k] <= MaxSize
      BY <1>1, <2>2
    <2>4. end[(n - k) - 1] <= end[n - k]
      BY <1>3, <2>1, <2>3
    <2> QED BY <2>1, <2>2, <2>4
  <1>7. Nat \subseteq S
    <2> HIDE DEF S
    <2> QED BY <1>5, <1>6, SetInduction
  <1>8. ASSUME NEW i \in 0 .. n PROVE end[i] <= end[n]
    <2>1. n - i \in Nat /\ n - i <= n /\ n - (n - i) = i
      OBVIOUS
    <2> QED BY <1>7, <2>1
  <1>9. ASSUME NEW i \in 1 .. n PROVE end[i] <= MaxSize
    <2>1. i \in 0 .. n /\ n \in 0 .. n
      OBVIOUS
    <2> QED BY <1>1, <1>4, <1>8, <2>1
  <1> QED BY <1>3, <1>4, <1>8, <1>9 DEF EndsInOrder

-----------------------------------------------------------------------------
(* The layout of a struct fits its members. *)

Fits(s, members, layout) ==
  /\ layout.size <= MaxSize /\ layout.size % layout.align = 0
  /\ \A i \in DOMAIN members : s.packed \/ layout.align % members[i].align = 0
  /\ \E end \in [DOMAIN members -> 0 .. layout.size] :
       Places(s, members, end) /\ layout.size - Max({0} \cup Range(end)) \in 0 .. layout.align - 1

LEMMA MaxOf ==
  ASSUME NEW S, S \subseteq Nat, NEW m \in S, \A y \in S : y <= m
  PROVE  Max(S) = m
  <1>1. S # {} /\ m \in Nat
    OBVIOUS
  <1>2. Max(S) \in S /\ \A y \in S : Max(S) >= y
    BY <1>1, MaxIs
  <1> DEFINE x == Max(S)
  <1> HIDE DEF x
  <1>3. x \in Nat /\ x <= m /\ x >= m
    BY <1>1, <1>2 DEF x
  <1>4. x = m
    BY <1>1, <1>3
  <1> QED BY <1>4 DEF x

(* The greatest of a few alignments is an alignment.                       *)
LEMMA MaxAlign ==
  ASSUME NEW S, S \subseteq Alignments \cup {0}, NEW a \in S, a # 0
  PROVE  Max(S) \in Alignments /\ \A y \in S : y \in Alignments => Max(S) % y = 0
  <1> DEFINE B == power_of_two[30]
  <1>0. B \in Nat
    <2>1. 30 \in 0 .. 30
      OBVIOUS
    <2> QED BY <2>1, PowerOfTwoIs
  <1>1. \A y \in Alignments \cup {0} : y \in Nat /\ y <= B
    BY <1>0, AlignmentsAre
  <1> HIDE DEF B
  <1>2. S \subseteq Nat /\ S # {} /\ B \in Nat /\ \A y \in S : y <= B
    BY <1>0, <1>1
  <1>3. Max(S) \in S /\ \A y \in S : Max(S) >= y
    BY ONLY <1>2, MaxIs
  <1> DEFINE x == Max(S)
  <1> HIDE DEF x
  <1>4. x \in S /\ \A y \in S : x >= y
    BY <1>3 DEF x
  <1>5. x \in Alignments
    BY <1>1, <1>4
  <1>6. x \in Alignments /\ \A y \in S : y \in Alignments => x % y = 0
    BY <1>4, <1>5, AlignmentsAre
  <1> QED BY <1>6 DEF x

NaturalAlign(s, members) ==
  Max({1} \cup {IF s.union THEN members[i].align ELSE FieldAlign(s, members[i]) : i \in DOMAIN members})
AlignOf(s, members) == Max({IF s.packed THEN 1 ELSE NaturalAlign(s, members), s.align})
SizeOf(s, members) == IF s.union THEN Max({0} \cup {members[i].size : i \in DOMAIN members}) ELSE EndOf(s, members)

LEMMA AlignOfIs ==
  ASSUME NEW s, s.align \in PowersOfTwo, NEW members \in Seq(Known)
  PROVE  /\ AlignOf(s, members) \in Alignments
         /\ \A i \in DOMAIN members : s.packed \/ AlignOf(s, members) % members[i].align = 0
  <1> DEFINE N == {1} \cup {IF s.union THEN members[i].align ELSE FieldAlign(s, members[i]) : i \in DOMAIN members}
             n == NaturalAlign(s, members)
             A == {IF s.packed THEN 1 ELSE n, s.align}
  <1>1. \A i \in DOMAIN members : members[i] \in Known
    OBVIOUS
  <1>2. 1 \in Alignments /\ 1 \in N /\ s.align \in Alignments \cup {0}
    BY AlignmentsAre DEF Alignments
  <1>3. N \subseteq Alignments
    BY <1>1, <1>2, FieldAlignIs
  <1>4. n = Max(N)
    BY DEF NaturalAlign
  <1>5. n \in Alignments /\ \A y \in N : n % y = 0
    <2> HIDE DEF N, n
    <2>1. N \subseteq Alignments \cup {0} /\ 1 # 0
      BY <1>3
    <2> QED BY <1>2, <1>3, <1>4, <2>1, MaxAlign
  <1>6. \A a \in Alignments : a # 0
    BY AlignmentsAre
  <1>7. AlignOf(s, members) = Max(A)
    BY DEF AlignOf
  <1> HIDE DEF n
  <1>8. A \subseteq Alignments \cup {0} /\ (IF s.packed THEN 1 ELSE n) \in A /\ (IF s.packed THEN 1 ELSE n) \in Alignments
    BY <1>2, <1>5
  <1>9. Max(A) \in Alignments /\ (~ s.packed => Max(A) % n = 0)
    <2> DEFINE b == IF s.packed THEN 1 ELSE n
    <2>1. b \in A /\ b \in Alignments /\ b # 0 /\ A \subseteq Alignments \cup {0} /\ (~ s.packed => b = n)
      BY <1>6, <1>8
    <2> HIDE DEF b, A
    <2>2. Max(A) \in Alignments /\ Max(A) % b = 0
      BY <2>1, MaxAlign
    <2> QED BY <2>1, <2>2
  <1>10. ASSUME NEW i \in DOMAIN members, ~ s.packed PROVE Max(A) % members[i].align = 0
    <2>1. members[i].align \in N /\ members[i].align \in Alignments
      BY <1>1, <1>10, FieldAlignIs DEF FieldAlign
    <2> DEFINE m == Max(A)
               a == members[i].align
    <2>2. m \in Alignments /\ n \in Alignments /\ a \in Alignments /\ m % n = 0 /\ n % a = 0
      BY <1>5, <1>9, <1>10, <2>1
    <2> HIDE DEF m, a
    <2>3. m % a = 0
      <3>1. m >= n /\ n >= a
        <4>1. ASSUME NEW c \in Nat \ {0}, NEW d \in Nat \ {0}, c % d = 0 PROVE c >= d
          BY <4>1
        <4> QED BY <2>2, <4>1, AlignmentsAre
      <3>2. m >= a
        BY <2>2, <3>1, AlignmentsAre
      <3> QED BY <2>2, <3>2, AlignmentsAre
    <2> QED BY <2>3 DEF m, a
  <1> QED BY <1>7, <1>9, <1>10

(* Of a union every member starts at the start.                            *)
LEMMA UnionFits ==
  ASSUME NEW s, s.union, NEW members \in Seq(Known)
  PROVE  /\ SizeOf(s, members) \in Nat
         /\ \E end \in [DOMAIN members -> 0 .. SizeOf(s, members)] :
              Places(s, members, end) /\ Max({0} \cup Range(end)) = SizeOf(s, members)
  <1> DEFINE n == Len(members)
             sizes == [i \in 1 .. n |-> members[i].size]
             S == {0} \cup {members[i].size : i \in DOMAIN members}
  <1>1. n \in Nat /\ DOMAIN members = 1 .. n /\ \A i \in 1 .. n : members[i] \in Known
    OBVIOUS
  <1>2. \A i \in 1 .. n : members[i].size \in Nat /\ members[i].align \in Alignments
    BY <1>1 DEF Known
  <1>3. sizes \in [1 .. n -> Nat]
    BY <1>2
  <1>4. PICK B \in Nat : \A i \in 1 .. n : sizes[i] <= B
    <2> HIDE DEF sizes, n
    <2> QED BY <1>1, <1>3, Bounded
  <1>5. S \subseteq Nat /\ S # {} /\ \A x \in S : x <= B
    BY <1>1, <1>2, <1>4
  <1>6. Max(S) \in S /\ \A y \in S : Max(S) >= y
    <2> HIDE DEF S
    <2> QED BY <1>5, MaxIs
  <1>7. SizeOf(s, members) = Max(S)
    BY DEF SizeOf
  <1>8. S = {0} \cup Range(sizes)
    BY <1>1 DEF Range
  <1>9. sizes \in [DOMAIN members -> 0 .. Max(S)]
    <2>1. \A i \in 1 .. n : sizes[i] \in 0 .. Max(S)
      <3> SUFFICES ASSUME NEW i \in 1 .. n PROVE sizes[i] \in 0 .. Max(S)
        OBVIOUS
      <3>1. sizes[i] \in S /\ sizes[i] \in Nat
        BY <1>1, <1>2
      <3> HIDE DEF S, sizes
      <3> QED BY <1>5, <1>6, <3>1
    <2> HIDE DEF S
    <2> QED BY <1>1, <2>1
  <1>10. Places(s, members, sizes)
    <2> SUFFICES ASSUME NEW i \in DOMAIN members, NEW unit, unit = IF s.packed THEN 1 ELSE members[i].align
                 PROVE  (sizes[i] - members[i].size) - 0 \in 0 .. unit - 1 /\ (sizes[i] - members[i].size) % unit = 0
      BY DEF Places
    <2>1. unit \in Alignments /\ sizes[i] = members[i].size /\ members[i].size \in Nat
      BY <1>1, <1>2, AlignmentsAre
    <2>2. sizes[i] - members[i].size = 0
      BY <2>1
    <2>3. 0 \in 0 .. unit - 1 /\ 0 % unit = 0
      BY <2>1, AlignmentsAre
    <2> QED BY <2>2, <2>3
  <1>11. Max(S) \in Nat
    <2> HIDE DEF S
    <2> QED BY <1>5, <1>6
  <1> HIDE DEF S, sizes
  <1> QED BY <1>7, <1>8, <1>9, <1>10, <1>11

(* Of another struct each member starts where the one before it allows.    *)
LEMMA SequenceFits ==
  ASSUME NEW s, ~ s.union, NEW members \in Seq(Known)
  PROVE  /\ SizeOf(s, members) \in Nat
         /\ SizeOf(s, members) <= MaxSize =>
              \E end \in [DOMAIN members -> 0 .. SizeOf(s, members)] :
                Places(s, members, end) /\ Max({0} \cup Range(end)) = SizeOf(s, members)
  <1> DEFINE n == Len(members)
  <1>1. n \in Nat /\ DOMAIN members = 1 .. n /\ \A i \in 1 .. n : members[i] \in Known
    OBVIOUS
  <1> HIDE DEF n
  <1>2. PICK all : EndsAt(s, members, n, all) /\ EndOf(s, members) = all[n]
    BY <1>1, EndsAre DEF n
  <1>3. SizeOf(s, members) = all[n]
    BY <1>2 DEF SizeOf
  <1>4. all \in [0 .. n -> Nat] /\ all[0] = 0
    BY <1>2 DEF EndsAt
  <1>5. all[n] \in Nat
    BY <1>1, <1>4
  <1>6. ASSUME all[n] <= MaxSize
        PROVE  \E end \in [DOMAIN members -> 0 .. all[n]] : Places(s, members, end) /\ Max({0} \cup Range(end)) = all[n]
    <2> DEFINE end == [i \in 1 .. n |-> all[i]]
               R == {0} \cup Range(end)
    <2>1. /\ \A i \in 0 .. n : all[i] \in Nat /\ all[i] <= all[n]
          /\ \A i \in 1 .. n : all[i] = Multiples(all[i - 1], FieldAlign(s, members[i])) + members[i].size
      <3>1. EndsInOrder(s, members, n, all)
        BY <1>1, <1>2, <1>6, EndsFit DEF n
      <3> QED BY <3>1 DEF EndsInOrder
    <2>2. end \in [DOMAIN members -> 0 .. all[n]]
      BY <1>1, <1>5, <2>1
    <2>3. Places(s, members, end)
      <3> SUFFICES ASSUME NEW i \in DOMAIN members, NEW unit, unit = (IF s.packed THEN 1 ELSE members[i].align),
                          NEW from, from = (IF i = 1 THEN 0 ELSE end[i - 1])
                   PROVE  (end[i] - members[i].size) - from \in 0 .. unit - 1 /\ (end[i] - members[i].size) % unit = 0
        BY DEF Places
      <3>1. i \in 1 .. n /\ members[i] \in Known /\ i - 1 \in 0 .. n
        BY <1>1
      <3>2. unit = FieldAlign(s, members[i]) /\ unit \in Alignments /\ members[i].size \in Nat /\ unit \in Nat
        BY <3>1, FieldAlignIs, AlignmentsAre DEF FieldAlign
      <3>3. from = all[i - 1] /\ from \in Nat /\ end[i] = all[i]
        BY <1>4, <2>1, <3>1
      <3>4. end[i] = Multiples(from, unit) + members[i].size
        BY <2>1, <3>1, <3>2, <3>3
      <3>5. Multiples(from, unit) \in Nat /\ Multiples(from, unit) % unit = 0 /\ Multiples(from, unit) - from \in 0 .. unit - 1
        BY <3>2, <3>3, MultipleIs
      <3>6. end[i] - members[i].size = Multiples(from, unit)
        BY <3>2, <3>4, <3>5
      <3> QED BY <3>5, <3>6
    <2>4. Max(R) = all[n]
      <3>1. R = {0} \cup {all[i] : i \in 1 .. n}
        BY DEF Range
      <3>2. R \subseteq Nat /\ \A y \in R : y <= all[n]
        BY <1>5, <2>1, <3>1
      <3>3. all[n] \in R
        <4>1. CASE n = 0
          BY <1>4, <4>1
        <4>2. CASE n # 0
          <5>1. n \in 1 .. n
            BY <1>1, <4>2
          <5> QED BY <3>1, <5>1
        <4> QED BY <4>1, <4>2
      <3> HIDE DEF R
      <3> QED BY <3>2, <3>3, MaxOf
    <2> HIDE DEF end
    <2> QED BY <2>2, <2>3, <2>4
  <1> QED BY <1>3, <1>5, <1>6

LEMMA StructFits ==
  ASSUME NEW s, s.align \in PowersOfTwo, s.union \in BOOLEAN, NEW members \in Seq(Known)
  PROVE  /\ StructLayout(s, members) \in AnyLayout
         /\ StructLayout(s, members) # NoLayout => Fits(s, members, StructLayout(s, members))
  <1> DEFINE v == SizeOf(s, members)
             a == AlignOf(s, members)
  <1>1. StructLayout(s, members) = Rounded(v, a)
    BY DEF StructLayout, SizeOf, AlignOf, NaturalAlign
  <1>2. /\ a \in Alignments
        /\ \A i \in DOMAIN members : s.packed \/ a % members[i].align = 0
    BY AlignOfIs
  <1>3. v \in Nat
    BY UnionFits, SequenceFits
  <1> DEFINE E(end) == Places(s, members, end) /\ Max({0} \cup Range(end)) = v
  <1>4. v <= MaxSize => \E end \in [DOMAIN members -> 0 .. v] : E(end)
    BY UnionFits, SequenceFits
  <1> HIDE DEF v, a
  <1>5. Rounded(v, a) \in AnyLayout
    BY <1>2, <1>3, RoundedIs
  <1>6. ASSUME Rounded(v, a) # NoLayout PROVE Fits(s, members, Rounded(v, a))
    <2> DEFINE l == Rounded(v, a)
    <2>1. v <= MaxSize /\ l.size <= MaxSize /\ l.size = Multiples(v, a) /\ l.align = a
      BY <1>2, <1>3, <1>6, RoundedIs
    <2> HIDE DEF l
    <2>2. l.size \in Nat /\ l.size % a = 0 /\ l.size - v \in 0 .. a - 1 /\ a \in Nat
      <3>1. Multiples(v, a) \in Nat /\ Multiples(v, a) % a = 0 /\ Multiples(v, a) - v \in 0 .. a - 1
        BY <1>2, <1>3, MultipleIs
      <3>2. a \in Nat
        BY <1>2, AlignmentsAre
      <3> QED BY <2>1, <3>1, <3>2
    <2>3. PICK end \in [DOMAIN members -> 0 .. v] : E(end)
      BY <1>4, <2>1
    <2>4. end \in [DOMAIN members -> 0 .. l.size]
      <3>1. 0 .. v \subseteq 0 .. l.size
        BY <1>3, <2>2
      <3> QED BY <3>1
    <2>5. Places(s, members, end) /\ l.size - Max({0} \cup Range(end)) \in 0 .. l.align - 1
      BY <2>1, <2>2, <2>3
    <2>6. Fits(s, members, l)
      BY <1>2, <2>1, <2>2, <2>4, <2>5, Zenon DEF Fits
    <2> QED BY <2>6 DEF l
  <1> QED BY <1>1, <1>5, <1>6

-----------------------------------------------------------------------------
(* The layouts of all structs. *)

MembersOf(fs, name, known) == [i \in DOMAIN fs[name] |-> LayoutOf(fs[name][i], known)]
NextLayout(t, fs, known, name) ==
  IF t[name].incomplete \/ NoType \in ToSet(fs[name]) THEN NoLayout
  ELSE IF NoLayout \in ToSet(MembersOf(fs, name, known)) THEN NoLayout
  ELSE StructLayout(t[name], MembersOf(fs, name, known))
NextLayouts(t, fs, known) == [name \in Names |-> NextLayout(t, fs, known, name)]
Laid(t, fs) == \A name \in Names : t[name].align \in PowersOfTwo /\ t[name].union \in BOOLEAN /\ fs[name] \in Seq(Taken)

LEMMA MembersAre ==
  ASSUME NEW fs, NEW name, fs[name] \in Seq(FieldType), NEW known \in [Names -> AnyLayout], NoLayout \notin ToSet(MembersOf(fs, name, known))
  PROVE  /\ MembersOf(fs, name, known) \in Seq(Known)
         /\ \A more \in [Names -> AnyLayout] : KnowsMore(known, more) => MembersOf(fs, name, more) = MembersOf(fs, name, known)
  <1> DEFINE m == MembersOf(fs, name, known)
             n == Len(fs[name])
  <1>1. n \in Nat /\ DOMAIN fs[name] = 1 .. n /\ \A i \in 1 .. n : fs[name][i] \in FieldType
    OBVIOUS
  <1>2. m = [i \in 1 .. n |-> LayoutOf(fs[name][i], known)]
    BY <1>1 DEF MembersOf
  <1>3. \A i \in 1 .. n : m[i] = LayoutOf(fs[name][i], known) /\ m[i] \in ToSet(m)
    BY <1>2 DEF ToSet
  <1>4. \A i \in 1 .. n : LayoutOf(fs[name][i], known) \in AnyLayout
    BY <1>1, LayoutOfIs
  <1>5. \A i \in 1 .. n : LayoutOf(fs[name][i], known) # NoLayout
    BY <1>3
  <1>6. \A i \in 1 .. n : LayoutOf(fs[name][i], known) \in Known
    BY <1>4, <1>5 DEF AnyLayout
  <1>7. m \in Seq(Known)
    BY <1>1, <1>2, <1>6
  <1>8. ASSUME NEW more \in [Names -> AnyLayout], KnowsMore(known, more)
        PROVE  MembersOf(fs, name, more) = m
    <2>1. \A i \in 1 .. n : LayoutOf(fs[name][i], more) = LayoutOf(fs[name][i], known)
      BY <1>1, <1>5, <1>8, LayoutOfIs
    <2>2. MembersOf(fs, name, more) = [i \in 1 .. n |-> LayoutOf(fs[name][i], more)]
      BY <1>1 DEF MembersOf
    <2> QED BY <1>2, <2>1, <2>2
  <1> QED BY <1>7, <1>8

LEMMA NextLayoutIs ==
  ASSUME NEW t, NEW fs, Laid(t, fs), NEW name \in Names, NEW known \in [Names -> AnyLayout]
  PROVE  /\ NextLayout(t, fs, known, name) \in AnyLayout
         /\ NextLayout(t, fs, known, name) # NoLayout => Fits(t[name], MembersOf(fs, name, known), NextLayout(t, fs, known, name))
         /\ \A more \in [Names -> AnyLayout] : KnowsMore(known, more) /\ NextLayout(t, fs, known, name) # NoLayout =>
              /\ MembersOf(fs, name, more) = MembersOf(fs, name, known)
              /\ NextLayout(t, fs, more, name) = NextLayout(t, fs, known, name)
  <1> DEFINE m == MembersOf(fs, name, known)
             l == NextLayout(t, fs, known, name)
  <1>1. CASE t[name].incomplete \/ NoType \in ToSet(fs[name]) \/ NoLayout \in ToSet(m)
    <2>1. l = NoLayout
      BY <1>1 DEF NextLayout
    <2>2. NoLayout \in AnyLayout
      BY DEF AnyLayout
    <2> QED BY <2>1, <2>2
  <1>2. CASE ~ (t[name].incomplete \/ NoType \in ToSet(fs[name]) \/ NoLayout \in ToSet(m))
    <2>1. t[name].align \in PowersOfTwo /\ t[name].union \in BOOLEAN /\ fs[name] \in Seq(Taken)
      BY DEF Laid
    <2>2. fs[name] \in Seq(FieldType)
      <3>1. \A i \in 1 .. Len(fs[name]) : fs[name][i] \in Taken /\ fs[name][i] # NoType
        BY <1>2, <2>1 DEF ToSet
      <3>2. \A i \in 1 .. Len(fs[name]) : fs[name][i] \in FieldType
        BY <3>1 DEF Taken
      <3> HIDE DEF m, l
      <3> QED BY <2>1, <3>2
    <2>3. /\ m \in Seq(Known)
          /\ \A more \in [Names -> AnyLayout] : KnowsMore(known, more) => MembersOf(fs, name, more) = m
      BY <1>2, <2>2, MembersAre
    <2>4. l = StructLayout(t[name], m)
      BY <1>2 DEF NextLayout
    <2>5. l \in AnyLayout /\ (l # NoLayout => Fits(t[name], m, l))
      <3> DEFINE s == t[name]
      <3>1. s.align \in PowersOfTwo /\ s.union \in BOOLEAN
        BY <2>1
      <3> HIDE DEF m, l, s
      <3>2. StructLayout(s, m) \in AnyLayout /\ (StructLayout(s, m) # NoLayout => Fits(s, m, StructLayout(s, m)))
        BY <2>3, <3>1, StructFits
      <3> QED BY <2>4, <3>2 DEF s
    <2>6. ASSUME NEW more \in [Names -> AnyLayout], KnowsMore(known, more)
          PROVE  MembersOf(fs, name, more) = m /\ NextLayout(t, fs, more, name) = l
      <3>1. MembersOf(fs, name, more) = m
        BY <2>3, <2>6
      <3> QED BY <3>1 DEF NextLayout
    <2> QED BY <2>5, <2>6
  <1> QED BY <1>1, <1>2

LEMMA NextLayoutsAre ==
  ASSUME NEW t, NEW fs, Laid(t, fs), NEW known \in [Names -> AnyLayout]
  PROVE  /\ NextLayouts(t, fs, known) \in [Names -> AnyLayout]
         /\ \A more \in [Names -> AnyLayout] : KnowsMore(known, more) => KnowsMore(NextLayouts(t, fs, known), NextLayouts(t, fs, more))
  <1>1. NextLayouts(t, fs, known) \in [Names -> AnyLayout]
    BY NextLayoutIs DEF NextLayouts
  <1>2. ASSUME NEW more \in [Names -> AnyLayout], KnowsMore(known, more), NEW name \in Names, NextLayouts(t, fs, known)[name] # NoLayout
        PROVE  NextLayouts(t, fs, more)[name] = NextLayouts(t, fs, known)[name]
    <2>1. \A k : NextLayouts(t, fs, k)[name] = NextLayout(t, fs, k, name)
      BY DEF NextLayouts
    <2> QED BY <1>2, <2>1, NextLayoutIs
  <1> QED BY <1>1, <1>2 DEF KnowsMore

LEMMA StructsAreMany == Len(Structs) \in Nat /\ (Len(Structs) = 0 => Names = {})
  <1> DEFINE X == STRING \ ({"no type", "unresolved"} \cup DOMAIN ScalarSize)
  <1>1. Structs \in Seq(X)
    BY LayoutAssumption
  <1> HIDE DEF X
  <1>2. DOMAIN Structs = 1 .. Len(Structs) /\ Len(Structs) \in Nat
    BY <1>1
  <1> QED BY <1>2 DEF Names, ToSet

LEMMA LayoutImplIs ==
  ASSUME Laid(table, fields)
  PROVE  /\ \A d \in 0 .. Len(Structs) : layout_impl[d] \in [Names -> AnyLayout]
         /\ \A d \in 1 .. Len(Structs) : layout_impl[d] = NextLayouts(table, fields, layout_impl[d - 1])
         /\ \A d \in 1 .. Len(Structs) : KnowsMore(layout_impl[d - 1], layout_impl[d])
  <1> DEFINE N == Len(Structs)
             V == [Names -> AnyLayout]
             none == [name \in Names |-> NoLayout]
             G == [k \in V |-> NextLayouts(table, fields, k)]
             F == [d \in 1 .. N |-> G]
             E(f) == [depth \in 0 .. Len(Structs) |->
                        [name \in Names |->
                           IF depth = 0 \/ table[name].incomplete \/ NoType \in ToSet(fields[name]) THEN NoLayout
                           ELSE LET members == [i \in DOMAIN fields[name] |-> LayoutOf(fields[name][i], f[depth - 1])]
                                IN  IF NoLayout \in ToSet(members) THEN NoLayout ELSE StructLayout(table[name], members)]]
  <1>1. N \in Nat
    BY StructsAreMany
  <1>2. \A k \in V : NextLayouts(table, fields, k) \in V
    BY NextLayoutsAre
  <1>3. none \in V
    BY DEF AnyLayout
  <1>4. \A f : E(f) = [depth \in 0 .. N |-> IF depth = 0 THEN none ELSE NextLayouts(table, fields, f[depth - 1])]
    BY DEF NextLayouts, NextLayout, MembersOf
  <1> HIDE DEF V, none, E
  <1>5. G \in [V -> V] /\ F \in [1 .. N -> [V -> V]]
    BY <1>2
  <1>6. PICK f : Iterates(N, V, F, none, f)
    <2> HIDE DEF F, G
    <2> QED BY <1>1, <1>3, <1>5, Recursion
  <1>7. f \in [0 .. N -> V] /\ f[0] = none /\ \A d \in 1 .. N : f[d] = F[d][f[d - 1]]
    <2> HIDE DEF F, G
    <2> QED BY <1>6 DEF Iterates
  <1>8. ASSUME NEW d \in 0 .. N, d # 0 PROVE f[d] = NextLayouts(table, fields, f[d - 1])
    <2>1. d \in 1 .. N /\ d - 1 \in 0 .. N
      BY <1>1, <1>8
    <2>2. f[d - 1] \in V /\ F[d] = G
      BY <1>7, <2>1
    <2> QED BY <1>7, <2>1, <2>2
  <1>9. f = E(f)
    <2>1. \A d \in 0 .. N : f[d] = IF d = 0 THEN none ELSE NextLayouts(table, fields, f[d - 1])
      BY <1>7, <1>8
    <2> QED BY <1>4, <1>7, <2>1
  <1> DEFINE g == CHOOSE h : h = E(h)
  <1>10. layout_impl = g
    BY Zenon DEF layout_impl, E
  <1>11. g = E(g)
    BY <1>9
  <1> HIDE DEF g
  <1>12. \A d \in 0 .. N : g[d] = IF d = 0 THEN none ELSE NextLayouts(table, fields, g[d - 1])
    BY <1>4, <1>11
  <1> DEFINE S == {d \in Nat : d <= N => g[d] \in V}
             T == {d \in Nat : d + 1 <= N => KnowsMore(g[d], g[d + 1])}
  <1>13. \A d \in 0 .. N : g[d] \in V
    <2>1. 0 \in S
      BY <1>1, <1>3, <1>12
    <2>2. ASSUME NEW d \in Nat, d \in S PROVE d + 1 \in S
      <3>1. ASSUME d + 1 <= N PROVE g[d + 1] \in V
        <4>1. d + 1 \in 0 .. N /\ d + 1 # 0 /\ (d + 1) - 1 = d /\ d <= N
          BY <1>1, <3>1
        <4>2. g[d] \in V /\ g[d + 1] = NextLayouts(table, fields, g[d])
          BY <1>12, <2>2, <4>1
        <4> QED BY <1>2, <4>2
      <3> QED BY <3>1
    <2>3. Nat \subseteq S
      <3> HIDE DEF S
      <3> QED BY <2>1, <2>2, SetInduction
    <2> QED BY <1>1, <2>3
  <1>14. \A d \in 1 .. N : g[d] = NextLayouts(table, fields, g[d - 1])
    BY <1>1, <1>12
  <1>15. \A d \in 1 .. N : KnowsMore(g[d - 1], g[d])
    <2>1. 0 \in T
      <3>1. ASSUME 1 <= N PROVE KnowsMore(g[0], g[1])
        <4>1. g[0] = none
          BY <1>1, <1>12
        <4> QED BY <4>1 DEF KnowsMore, none
      <3> QED BY <3>1
    <2>2. ASSUME NEW d \in Nat, d \in T PROVE d + 1 \in T
      <3>1. ASSUME (d + 1) + 1 <= N PROVE KnowsMore(g[d + 1], g[(d + 1) + 1])
        <4>1. d + 1 \in 1 .. N /\ (d + 1) + 1 \in 1 .. N /\ (d + 1) - 1 = d /\ ((d + 1) + 1) - 1 = d + 1 /\ d \in 0 .. N /\ d + 1 \in 0 .. N /\ d + 1 <= N
          BY <1>1, <3>1
        <4>2. g[d + 1] = NextLayouts(table, fields, g[d])
          BY <1>14, <4>1
        <4>3. g[(d + 1) + 1] = NextLayouts(table, fields, g[d + 1])
          BY <1>14, <4>1
        <4>4. g[d] \in V /\ g[d + 1] \in V /\ KnowsMore(g[d], g[d + 1])
          BY <1>13, <2>2, <4>1
        <4>5. KnowsMore(NextLayouts(table, fields, g[d]), NextLayouts(table, fields, g[d + 1]))
          BY <4>4, NextLayoutsAre DEF V
        <4> QED BY <4>2, <4>3, <4>5
      <3> QED BY <3>1
    <2>3. Nat \subseteq T
      <3> HIDE DEF T
      <3> QED BY <2>1, <2>2, SetInduction
    <2> SUFFICES ASSUME NEW d \in 1 .. N PROVE KnowsMore(g[d - 1], g[d])
      OBVIOUS
    <2>4. d - 1 \in Nat /\ (d - 1) + 1 = d /\ (d - 1) + 1 <= N
      BY <1>1
    <2>5. d - 1 \in T
      BY <2>3, <2>4
    <2> QED BY <2>4, <2>5
  <1> QED BY <1>10, <1>13, <1>14, <1>15 DEF V

LEMMA TargetLayoutFits ==
  ASSUME Laid(table, fields), NEW name \in Names, target_layout[name] # NoLayout
  PROVE  Fits(table[name], MembersOf(fields, name, target_layout), target_layout[name])
  <1> DEFINE N == Len(Structs)
             before == layout_impl[N - 1]
  <1>1. N \in 1 .. N /\ N \in 0 .. N /\ N - 1 \in 0 .. N
    BY StructsAreMany
  <1>2. before \in [Names -> AnyLayout] /\ target_layout \in [Names -> AnyLayout]
    BY <1>1, LayoutImplIs DEF target_layout
  <1>3. target_layout = NextLayouts(table, fields, before) /\ KnowsMore(before, target_layout)
    BY <1>1, LayoutImplIs DEF target_layout
  <1> HIDE DEF before
  <1>4. target_layout[name] = NextLayout(table, fields, before, name)
    BY <1>3 DEF NextLayouts
  <1> QED BY <1>2, <1>3, <1>4, NextLayoutIs

(* Where the target has an answer to size_of, the answer fits: every       *)
(* member has its place at its alignment with the least padding, the whole *)
(* is rounded the least, and no number has wrapped; for every width of the *)
(* size, every target and every table of structs.                          *)
THEOREM LayoutsAlwaysFit == LayoutSpec => []LayoutsFit
  <1>1. ASSUME LayoutInv, phase = "done", faults = {} PROVE Laid(table, fields)
    <2> SUFFICES ASSUME NEW name \in Names
                 PROVE  table[name].align \in PowersOfTwo /\ table[name].union \in BOOLEAN /\ fields[name] \in Seq(Taken)
      BY DEF Laid
    <2>1. table[name] \in Declaration /\ fields[name] \in Seq(Taken) \cup {Unresolved}
      BY <1>1 DEF LayoutInv, LayoutTypes
    <2>2. fields[name] # Unresolved
      BY <1>1 DEF LayoutInv, PhasesInOrder
    <2>3. FilledWell(table, fields[name], name, faults = {})
      BY <1>1, <2>2 DEF LayoutInv, FieldsInOrder
    <2>4. ShapeFaults(table[name]) = {}
      BY <1>1, <2>3 DEF FilledWell
    <2>5. table[name].align \in PowersOfTwo
      <3>1. ASSUME table[name].align \notin PowersOfTwo PROVE "alignment" \in ShapeFaults(table[name])
        BY <3>1, Zenon DEF ShapeFaults
      <3> QED BY <2>4, <3>1
    <2>6. table[name].union \in BOOLEAN
      BY <2>1 DEF Declaration
    <2> QED BY <2>1, <2>2, <2>5, <2>6
  <1>2. ASSUME Laid(table, fields), NEW name \in {n \in Names : target_layout[n] # NoLayout}
        PROVE  Fits(table[name], [i \in DOMAIN fields[name] |-> LayoutOf(fields[name][i], target_layout)], target_layout[name])
    BY <1>2, TargetLayoutFits DEF MembersOf
  <1>3. LayoutInv => LayoutsFit
    <2> SUFFICES ASSUME LayoutInv, phase = "done", faults = {} PROVE LayoutsFit
      BY DEF LayoutsFit
    <2>1. Laid(table, fields)
      BY <1>1
    <2> QED BY <1>2, <2>1, Zenon DEF LayoutsFit, Fits
  <1> QED BY <1>3, LayoutInductive, PTL

-----------------------------------------------------------------------------
(* Globals: the definitions in terms of a list of declarations ds. *)

KindIn(ds, d) == ds[d].kind
Initialized(ds) == {d \in DOMAIN ds : KindIn(ds, d) \in {"const", "var"}}
NamesOf(ds, d) == IF KindIn(ds, d) \in {"const", "var"} THEN ToSet(ds[d].uses) ELSE {}
NeedsOf(ds, d) ==
  {e \in DOMAIN ds : \A S \in SUBSET DOMAIN ds :
     NamesOf(ds, d) \subseteq S /\ (\A n \in S : NamesOf(ds, n) \subseteq S) => e \in S}
(* What a constant is made of *)
Constant(ds, d) == KindIn(ds, d) \in {"const", "enum"}
EnumsAreSound(ds) ==
  \A d \in DOMAIN ds : KindIn(ds, d) = "enum" => \A u \in ToSet(ds[d].uses) : KindIn(ds, u) = "enum" /\ u < d
SoundConstants(ds) ==
  /\ \A d \in DOMAIN ds : KindIn(ds, d) = "const" => d \notin NeedsOf(ds, d) /\ \A u \in NamesOf(ds, d) : Constant(ds, u)
  /\ EnumsAreSound(ds)

LEMMA TheDeclarations ==
  /\ \A d : KindOf(d) = KindIn(decls, d) /\ NamesIn(d) = NamesOf(decls, d) /\ Needs(d) = NeedsOf(decls, d)
  /\ ConstantsAreSound /\ EnumsAreInOrder <=> SoundConstants(decls)
  <1>1. \A d : KindOf(d) = KindIn(decls, d) /\ NamesIn(d) = NamesOf(decls, d)
    BY DEF KindOf, KindIn, NamesIn, NamesOf
  <1>2. \A d : Needs(d) = NeedsOf(decls, d)
    BY <1>1 DEF Needs, NeedsOf
  <1>3. ConstantsAreSound /\ EnumsAreInOrder <=> SoundConstants(decls)
    BY <1>1, <1>2 DEF ConstantsAreSound, EnumsAreInOrder, SoundConstants, EnumsAreSound, OfKind, Constant
  <1> QED BY <1>1, <1>2, <1>3

-----------------------------------------------------------------------------
(* The inductive invariant of the checking of the globals. *)

GlobalFrame(ds) == [decl : 1 .. Len(ds), at : Nat \ {0}, depth : Nat, on_demand : BOOLEAN, failed : BOOLEAN]
Program(ds) == ds \in Seq([kind : Kinds, uses : Seq(1 .. Len(ds))])
GlobalTypes ==
  /\ Program(decls) /\ stack \in Seq(GlobalFrame(decls)) /\ next \in Nat /\ errors \in Nat /\ aborted \in BOOLEAN
  /\ started \subseteq 1 .. Len(decls) /\ complete \subseteq Initialized(decls)
  /\ valued \subseteq complete /\ valued \subseteq {d \in Initialized(decls) : KindIn(decls, d) = "const"}
  /\ typed \subseteq {d \in Initialized(decls) : KindIn(decls, d) = "var"}
  /\ \A d \in specialized : KindIn(decls, d) = "generic"

(* Each frame waits for the one above it, and a constant for constants.    *)
Waits(ds, st, k) ==
  /\ st[k].at \in DOMAIN ds[st[k].decl].uses /\ st[k + 1].decl = ds[st[k].decl].uses[st[k].at]
  /\ KindIn(ds, st[k].decl) = "const" => KindIn(ds, st[k + 1].decl) = "const"
StackInOrder(ds, st) == \A k \in 1 .. Len(st) - 1 : Waits(ds, st, k)

(* The constants that are started are those with a frame, and only one.    *)
ConstantsInOrder(ds, st, sta, val) ==
  /\ \A k \in 1 .. Len(st) : KindIn(ds, st[k].decl) = "const" => st[k].decl \in sta /\ st[k].decl \notin val
  /\ \A j, k \in 1 .. Len(st) : j # k /\ KindIn(ds, st[j].decl) = "const" => st[j].decl # st[k].decl
  /\ \A d \in sta : KindIn(ds, d) = "const" => \E k \in 1 .. Len(st) : st[k].decl = d

(* No variable, and no enum that reads its own unwritten members: what     *)
(* check_program says of such a program is determined.                     *)
Determined(ds) ==
  \A d \in DOMAIN ds : KindIn(ds, d) # "var" /\ (KindIn(ds, d) = "enum" => d \notin ToSet(ds[d].uses))

(* Without an error, what lies before next is complete or being checked.   *)
NextInOrder(ds, st, nx, com, er) ==
  /\ (st # << >> => nx > 0) /\ (nx = 0 => er = 0)
  /\ er = 0 /\ nx > 0 /\ Determined(ds) => EnumsAreSound(ds)
  /\ er = 0 => \A d \in Initialized(ds) : d < nx => d \in com \/ (st # << >> /\ st[1].decl = d)

(* Without an error, what is done is made of what is done.                 *)
DoneIn(ds, val, typ) == {d \in DOMAIN ds : KindIn(ds, d) \in {"const", "var"} => d \in val \cup typ}
MadeOf(ds, done, d, u) == u \in done /\ (KindIn(ds, d) = "const" => Constant(ds, u))
DoneIsSound(ds, done) ==
  \A d \in done : KindIn(ds, d) \in {"const", "var"} => d \notin NeedsOf(ds, d) /\ \A u \in NamesOf(ds, d) : MadeOf(ds, done, d, u)
UsesAreDone(ds, st, done) ==
  \A k \in 1 .. Len(st) : KindIn(ds, st[k].decl) \in {"const", "var"} =>
    \A i \in DOMAIN ds[st[k].decl].uses : i < st[k].at => MadeOf(ds, done, st[k].decl, ds[st[k].decl].uses[i])
Clean(ds, st, com, val, typ) ==
  /\ \A k \in 1 .. Len(st) : ~ st[k].failed
  /\ com \subseteq val \cup typ
  /\ DoneIsSound(ds, DoneIn(ds, val, typ)) /\ UsesAreDone(ds, st, DoneIn(ds, val, typ))

GlobalsInv ==
  /\ GlobalTypes
  /\ StackInOrder(decls, stack)
  /\ ConstantsInOrder(decls, stack, started, valued)
  /\ NextInOrder(decls, stack, next, complete, errors)
  /\ errors = 0 /\ ~ aborted => Clean(decls, stack, complete, valued, typed)
  /\ Determined(decls) => ~ aborted
  /\ Determined(decls) /\ SoundConstants(decls) => errors = 0

(* At the end the verdict is the right one.                                *)
LEMMA GlobalsVerdict == ASSUME GlobalsInv PROVE GlobalsAreDecided
  <1> SUFFICES ASSUME Checked PROVE GlobalsAreDecided
    BY DEF GlobalsAreDecided, ConstantsAreDecided, InitializersAreAcyclic
  <1>1. DOMAIN decls = 1 .. Len(decls) /\ Len(decls) \in Nat /\ next > Len(decls) /\ stack = << >>
    BY DEF GlobalsInv, GlobalTypes, Checked, Program
  <1>2. ASSUME errors = 0, ~ aborted
        PROVE  /\ \A d \in DOMAIN decls : d \notin NeedsOf(decls, d)
               /\ \A d \in DOMAIN decls : KindIn(decls, d) = "const" => d \in valued /\ \A u \in NamesOf(decls, d) : Constant(decls, u)
               /\ \A d \in DOMAIN decls : KindIn(decls, d) = "var" => d \in typed
               /\ Determined(decls) => EnumsAreSound(decls)
    <2>1. Clean(decls, stack, complete, valued, typed)
      BY <1>2 DEF GlobalsInv
    <2>2. \A d \in Initialized(decls) : d \in valued \cup typed
      <3>1. \A d \in Initialized(decls) : d < next
        BY <1>1 DEF Initialized, GlobalsInv, GlobalTypes
      <3> QED BY <1>1, <1>2, <2>1, <3>1 DEF GlobalsInv, NextInOrder, Clean
    <2>3. Determined(decls) => EnumsAreSound(decls)
      BY <1>1, <1>2 DEF GlobalsInv, NextInOrder, GlobalTypes
    <2>4. ASSUME NEW d \in DOMAIN decls, KindIn(decls, d) \in {"const", "var"}
          PROVE  d \notin NeedsOf(decls, d) /\ \A u \in NamesOf(decls, d) : MadeOf(decls, DoneIn(decls, valued, typed), d, u)
      BY <2>1, <2>2, <2>4 DEF Clean, DoneIsSound, DoneIn, Initialized
    <2>5. ASSUME NEW d \in DOMAIN decls, ~ (KindIn(decls, d) \in {"const", "var"}) PROVE d \notin NeedsOf(decls, d)
      <3>1. NamesOf(decls, d) = {} /\ {} \in SUBSET DOMAIN decls
        BY <2>5 DEF NamesOf
      <3> QED BY <3>1 DEF NeedsOf
    <2>6. ASSUME NEW d \in DOMAIN decls, KindIn(decls, d) = "const" PROVE d \in valued
      BY <2>2, <2>6 DEF Initialized, GlobalsInv, GlobalTypes
    <2>7. ASSUME NEW d \in DOMAIN decls, KindIn(decls, d) = "var" PROVE d \in typed
      BY <2>2, <2>7 DEF Initialized, GlobalsInv, GlobalTypes
    <2> QED BY <2>3, <2>4, <2>5, <2>6, <2>7 DEF MadeOf
  <1>3. valued \subseteq OfKind("const") /\ typed \subseteq OfKind("var")
    BY TheDeclarations DEF GlobalsInv, GlobalTypes, OfKind, Initialized
  <1>4. ASSUME errors = 0, ~ aborted PROVE valued = OfKind("const") /\ typed = OfKind("var")
    BY <1>2, <1>3, <1>4, TheDeclarations DEF OfKind
  <1>5. InitializersAreAcyclic
    BY <1>2, <1>4, TheDeclarations DEF InitializersAreAcyclic
  <1>6. ASSUME OfKind("var") = {}, \A d \in OfKind("enum") : ~ NamesItself(d)
        PROVE  (errors = 0 <=> ConstantsAreSound /\ EnumsAreInOrder) /\ (errors = 0 => valued = OfKind("const"))
    <2>1. Determined(decls)
      BY <1>6, TheDeclarations DEF OfKind, NamesItself, Determined
    <2>2. ~ aborted /\ (SoundConstants(decls) => errors = 0)
      BY <2>1 DEF GlobalsInv
    <2>3. errors = 0 => SoundConstants(decls)
      BY <1>2, <2>1, <2>2 DEF SoundConstants
    <2> QED BY <1>4, <2>2, <2>3, TheDeclarations
  <1> QED BY <1>5, <1>6 DEF GlobalsAreDecided, ConstantsAreDecided

-----------------------------------------------------------------------------
(* What the steps do to the stack. *)

(* The same declarations are being checked; only the last frame changes.   *)
Like(ds, st, r) ==
  /\ r \in Seq(GlobalFrame(ds)) /\ Len(r) = Len(st) /\ st \in Seq(GlobalFrame(ds)) /\ Len(st) > 0
  /\ \A k \in 1 .. Len(st) : r[k].decl = st[k].decl
  /\ \A k \in 1 .. Len(st) - 1 : r[k] = st[k]
Advanced(st, r) == r[Len(st)].at = st[Len(st)].at + 1 /\ r[Len(st)].failed = st[Len(st)].failed

LEMMA SetLast ==
  ASSUME NEW S, NEW st \in Seq(S), NEW n, n = Len(st), n > 0, NEW g \in S, NEW r, r = [st EXCEPT ![n] = g]
  PROVE  r \in Seq(S) /\ Len(r) = n /\ r[n] = g /\ \A k \in 1 .. n : k # n => r[k] = st[k]
  OBVIOUS

LEMMA FrameSteps ==
  ASSUME NEW ds, NEW f \in GlobalFrame(ds), NEW up, NEW out, up = [f EXCEPT !.at = @ + 1], out = [f EXCEPT !.failed = TRUE]
  PROVE  up \in GlobalFrame(ds) /\ out \in GlobalFrame(ds) /\ up.decl = f.decl /\ out.decl = f.decl /\ up.at = f.at + 1 /\ up.failed = f.failed
  <1>1. f.at \in Nat \ {0}
    BY DEF GlobalFrame
  <1>2. f.at + 1 \in Nat \ {0}
    BY <1>1
  <1>3. up \in GlobalFrame(ds) /\ up.decl = f.decl /\ up.at = f.at + 1 /\ up.failed = f.failed
    BY <1>2 DEF GlobalFrame
  <1>4. out \in GlobalFrame(ds) /\ out.decl = f.decl
    BY DEF GlobalFrame
  <1> QED BY <1>3, <1>4

LEMMA ProgramUses ==
  ASSUME NEW ds, Program(ds)
  PROVE  /\ DOMAIN ds = 1 .. Len(ds) /\ Len(ds) \in Nat
         /\ \A d \in 1 .. Len(ds) :
              /\ ds[d].kind \in Kinds /\ ds[d].uses \in Seq(1 .. Len(ds))
              /\ DOMAIN ds[d].uses = 1 .. Len(ds[d].uses) /\ Len(ds[d].uses) \in Nat
              /\ \A i \in DOMAIN ds[d].uses : ds[d].uses[i] \in 1 .. Len(ds)
  <1> DEFINE S == [kind : Kinds, uses : Seq(1 .. Len(ds))]
  <1>1. ds \in Seq(S)
    BY DEF Program
  <1>2. \A x \in S : x.kind \in Kinds /\ x.uses \in Seq(1 .. Len(ds))
    OBVIOUS
  <1> HIDE DEF S
  <1>3. DOMAIN ds = 1 .. Len(ds) /\ Len(ds) \in Nat /\ \A d \in 1 .. Len(ds) : ds[d] \in S
    BY <1>1
  <1>4. \A d \in 1 .. Len(ds) : ds[d].kind \in Kinds /\ ds[d].uses \in Seq(1 .. Len(ds))
    BY <1>2, <1>3
  <1>5. \A x \in Seq(1 .. Len(ds)) : DOMAIN x = 1 .. Len(x) /\ Len(x) \in Nat /\ \A i \in DOMAIN x : x[i] \in 1 .. Len(ds)
    OBVIOUS
  <1> QED BY <1>3, <1>4, <1>5

LEMMA AfterUseIs ==
  ASSUME NEW st, st \in Seq(GlobalFrame(decls)), st # << >>, NEW ok \in BOOLEAN
  PROVE  Like(decls, st, AfterUse(st, ok)) /\ (ok => Advanced(st, AfterUse(st, ok)))
  <1> DEFINE n == Len(st)
             F == GlobalFrame(decls)
             f == st[n]
             up == [f EXCEPT !.at = @ + 1]
             out == [f EXCEPT !.failed = TRUE]
  <1>1. n \in Nat /\ n > 0 /\ n \in 1 .. n /\ n \in DOMAIN st
    OBVIOUS
  <1>2. f \in F
    BY <1>1
  <1>3. up \in F /\ out \in F /\ up.decl = f.decl /\ out.decl = f.decl /\ up.at = f.at + 1 /\ up.failed = f.failed
    <2> HIDE DEF f
    <2> QED BY ONLY <1>2, FrameSteps DEF F, up, out
  <1>4. AfterUse(st, ok) = [st EXCEPT ![n] = up] \/ (~ ok /\ AfterUse(st, ok) = [st EXCEPT ![n] = out])
    BY DEF AfterUse
  <1> HIDE DEF F, up, out
  <1>5. ASSUME NEW g \in F, g.decl = f.decl PROVE Like(decls, st, [st EXCEPT ![n] = g]) /\ [st EXCEPT ![n] = g][n] = g
    <2> DEFINE r == [st EXCEPT ![n] = g]
    <2>4. st \in Seq(F)
      BY DEF F
    <2>1. r \in Seq(F) /\ Len(r) = n /\ r[n] = g /\ \A k \in 1 .. n : k # n => r[k] = st[k]
      BY ONLY <1>1, <2>4, g \in F, SetLast
    <2> HIDE DEF r
    <2>2. \A k \in 1 .. n : r[k].decl = st[k].decl
      BY <1>5, <2>1
    <2>3. \A k \in 1 .. n - 1 : k \in 1 .. n /\ k # n
      BY <1>1
    <2>5. Like(decls, st, r) /\ r[n] = g
      BY <1>1, <2>1, <2>2, <2>3, <2>4 DEF Like, F
    <2> QED BY <2>5 DEF r
  <1>6. CASE AfterUse(st, ok) = [st EXCEPT ![n] = up]
    BY <1>3, <1>5, <1>6 DEF Advanced
  <1>7. CASE ~ ok /\ AfterUse(st, ok) = [st EXCEPT ![n] = out]
    BY <1>3, <1>5, <1>7
  <1> QED BY <1>4, <1>6, <1>7

LEMMA LikeInOrder ==
  ASSUME NEW ds, NEW st, NEW r, Like(ds, st, r), NEW sta, NEW val, NEW nx \in Nat, NEW com, NEW er
  PROVE  /\ StackInOrder(ds, st) => StackInOrder(ds, r)
         /\ ConstantsInOrder(ds, st, sta, val) => ConstantsInOrder(ds, r, sta, val)
         /\ NextInOrder(ds, st, nx, com, er) => NextInOrder(ds, r, nx, com, er)
  <1> DEFINE n == Len(st)
  <1>1. n \in Nat /\ n > 0 /\ Len(r) = n /\ 1 \in 1 .. n /\ st # << >> /\ r # << >>
    BY DEF Like
  <1>2. (\A k \in 1 .. n : r[k].decl = st[k].decl) /\ (\A k \in 1 .. n - 1 : r[k] = st[k])
    BY DEF Like
  <1> HIDE DEF n
  <1>3. ASSUME StackInOrder(ds, st), NEW k \in 1 .. n - 1 PROVE Waits(ds, r, k)
    <2>1. k + 1 \in 1 .. n /\ k \in 1 .. n
      BY <1>1
    <2> QED BY <1>2, <1>3, <2>1 DEF StackInOrder, Waits, n
  <1>4. ConstantsInOrder(ds, st, sta, val) => ConstantsInOrder(ds, r, sta, val)
    BY <1>1, <1>2 DEF ConstantsInOrder, n
  <1>5. NextInOrder(ds, st, nx, com, er) => NextInOrder(ds, r, nx, com, er)
    BY <1>1, <1>2 DEF NextInOrder
  <1> QED BY <1>1, <1>3, <1>4, <1>5 DEF StackInOrder

(* A use that is done.                                                     *)
LEMMA AdvancedIsClean ==
  ASSUME NEW ds, Program(ds), NEW st, NEW r, Like(ds, st, r), Advanced(st, r), NEW com, NEW val, NEW typ,
         Clean(ds, st, com, val, typ),
         NEW d, NEW at, d = st[Len(st)].decl, at = st[Len(st)].at,
         at \in DOMAIN ds[d].uses /\ KindIn(ds, d) \in {"const", "var"} => MadeOf(ds, DoneIn(ds, val, typ), d, ds[d].uses[at])
  PROVE  Clean(ds, r, com, val, typ)
  <1> DEFINE n == Len(st)
             done == DoneIn(ds, val, typ)
  <1>1. n \in Nat /\ n > 0 /\ Len(r) = n /\ n \in 1 .. n /\ st[n] \in GlobalFrame(ds)
    BY DEF Like
  <1>2. (\A k \in 1 .. n : r[k].decl = st[k].decl) /\ (\A k \in 1 .. n - 1 : r[k] = st[k])
    BY DEF Like
  <1>3. r[n].at = at + 1 /\ r[n].failed = st[n].failed /\ at \in Nat /\ d \in 1 .. Len(ds)
    <2>1. at \in Nat /\ d \in 1 .. Len(ds)
      BY <1>1 DEF GlobalFrame
    <2>2. r[n].at = at + 1 /\ r[n].failed = st[n].failed
      BY <1>1 DEF Advanced
    <2> QED BY <2>1, <2>2
  <1>4. DOMAIN ds[d].uses = 1 .. Len(ds[d].uses) /\ Len(ds[d].uses) \in Nat
    <2>1. Program(ds) /\ d \in 1 .. Len(ds)
      BY <1>3
    <2> QED BY ONLY <2>1, ProgramUses
  <1> HIDE DEF n, done
  <1>5. \A k \in 1 .. n : ~ r[k].failed
    <2>1. \A k \in 1 .. n : ~ st[k].failed
      BY DEF Clean, n
    <2>2. \A k \in 1 .. n : k = n \/ k \in 1 .. n - 1
      BY <1>1
    <2> QED BY <1>1, <1>2, <1>3, <2>1, <2>2
  <1>6. UsesAreDone(ds, r, done)
    <2> SUFFICES ASSUME NEW k \in 1 .. n, KindIn(ds, r[k].decl) \in {"const", "var"}, NEW i \in DOMAIN ds[r[k].decl].uses, i < r[k].at
                 PROVE  MadeOf(ds, done, r[k].decl, ds[r[k].decl].uses[i])
      BY <1>1 DEF UsesAreDone
    <2>1. UsesAreDone(ds, st, done)
      BY DEF Clean, done
    <2>2. CASE k # n
      <3>1. k \in 1 .. n - 1 /\ r[k] = st[k]
        BY <1>1, <1>2, <2>2
      <3> QED BY <2>1, <3>1 DEF UsesAreDone, n
    <2>3. CASE k = n
      <3>1. r[k].decl = d /\ i < at + 1
        BY <1>1, <1>2, <1>3, <2>3 DEF n
      <3>5. i \in DOMAIN ds[d].uses
        BY <3>1
      <3>2. i \in Nat
        BY ONLY <1>4, <3>5
      <3>3. CASE i = at
        BY <3>1, <3>3 DEF done
      <3>4. CASE i < at
        BY <1>1, <2>1, <2>3, <3>1, <3>4 DEF UsesAreDone, n
      <3> QED BY <1>3, <3>1, <3>2, <3>3, <3>4
    <2> QED BY <2>2, <2>3
  <1> QED BY <1>1, <1>5, <1>6 DEF Clean, done

-----------------------------------------------------------------------------
(* The steps of the checking. *)

(* What is at hand when a use is checked *)
LEMMA UsingIs ==
  ASSUME GlobalsInv, Using
  PROVE  /\ stack \in Seq(GlobalFrame(decls)) /\ stack # << >> /\ Len(stack) \in Nat \ {0} /\ ~ aborted
         /\ Current = stack[Len(stack)] /\ Current.decl \in 1 .. Len(decls) /\ Current.depth \in Nat
         /\ Current.at \in DOMAIN decls[Current.decl].uses /\ Used = decls[Current.decl].uses[Current.at]
         /\ Used \in 1 .. Len(decls) /\ Program(decls)
  <1>1. stack \in Seq(GlobalFrame(decls)) /\ stack # << >> /\ ~ aborted /\ Program(decls) /\ Current.at <= Len(decls[Current.decl].uses)
    BY DEF GlobalsInv, GlobalTypes, Using
  <1>2. Len(stack) \in Nat \ {0} /\ stack[Len(stack)] \in GlobalFrame(decls)
    BY ONLY <1>1
  <1>3. Current = stack[Len(stack)] /\ Used = decls[Current.decl].uses[Current.at]
    BY DEF Current, Used
  <1>4. Current.decl \in 1 .. Len(decls) /\ Current.depth \in Nat /\ Current.at \in Nat \ {0}
    BY ONLY <1>2, <1>3 DEF GlobalFrame
  <1>5. Current.at \in DOMAIN decls[Current.decl].uses /\ Used \in 1 .. Len(decls)
    BY ONLY <1>1, <1>3, <1>4, ProgramUses
  <1> QED BY <1>1, <1>2, <1>3, <1>4, <1>5

(* A use that is done *)
LEMMA UseDone ==
  ASSUME GlobalsInv, Using, stack' = AfterUse(stack, TRUE),
         UNCHANGED <<decls, next, started, complete, valued, typed, specialized, errors, aborted>>,
         errors = 0 /\ KindIn(decls, Current.decl) \in {"const", "var"} =>
           MadeOf(decls, DoneIn(decls, valued, typed), Current.decl, Used)
  PROVE  GlobalsInv'
  <1>1. Like(decls, stack, stack') /\ Advanced(stack, stack')
    BY UsingIs, AfterUseIs
  <1>2. GlobalTypes'
    BY <1>1 DEF GlobalsInv, GlobalTypes, Like
  <1>3. next \in Nat
    BY DEF GlobalsInv, GlobalTypes
  <1>4. StackInOrder(decls, stack') /\ ConstantsInOrder(decls, stack', started, valued) /\ NextInOrder(decls, stack', next, complete, errors)
    BY <1>1, <1>3, LikeInOrder DEF GlobalsInv
  <1>5. ASSUME errors = 0, ~ aborted PROVE Clean(decls, stack', complete, valued, typed)
    <2>1. Clean(decls, stack, complete, valued, typed)
      BY <1>5 DEF GlobalsInv
    <2> HIDE DEF Clean, MadeOf
    <2> QED BY <1>1, <1>5, <2>1, UsingIs, AdvancedIsClean
  <1>6. (Determined(decls) => ~ aborted) /\ (Determined(decls) /\ SoundConstants(decls) => errors = 0)
    BY DEF GlobalsInv
  <1> QED BY <1>2, <1>4, <1>5, <1>6 DEF GlobalsInv

(* A use that is refused *)
LEMMA UseRefused ==
  ASSUME GlobalsInv, Using, stack' = AfterUse(stack, FALSE), errors' \in Nat \ {0},
         complete' = complete \/ (complete' = complete \cup {Used} /\ KindIn(decls, Used) = "const"),
         UNCHANGED <<decls, next, started, valued, typed, specialized, aborted>>,
         ~ (Determined(decls) /\ SoundConstants(decls))
  PROVE  GlobalsInv'
  <1>1. Like(decls, stack, stack')
    BY UsingIs, AfterUseIs
  <1>2. complete' \subseteq Initialized(decls) /\ valued \subseteq complete'
    <2>1. complete \subseteq Initialized(decls) /\ valued \subseteq complete
      BY DEF GlobalsInv, GlobalTypes
    <2>2. DOMAIN decls = 1 .. Len(decls) /\ Used \in 1 .. Len(decls)
      BY UsingIs, ProgramUses
    <2>3. KindIn(decls, Used) = "const" => Used \in Initialized(decls)
      BY <2>2 DEF Initialized
    <2> QED BY <2>1, <2>3
  <1>3. GlobalTypes'
    BY <1>1, <1>2 DEF GlobalsInv, GlobalTypes, Like
  <1>4. next \in Nat
    BY DEF GlobalsInv, GlobalTypes
  <1>5. StackInOrder(decls, stack') /\ ConstantsInOrder(decls, stack', started, valued)
    BY <1>1, <1>4, LikeInOrder DEF GlobalsInv
  <1>6. NextInOrder(decls, stack', next, complete', errors')
    <2>1. next > 0 /\ next # 0 /\ errors' # 0
      BY <1>4, UsingIs DEF GlobalsInv, NextInOrder
    <2> QED BY ONLY <2>1 DEF NextInOrder
  <1>7. Determined(decls) => ~ aborted
    BY DEF GlobalsInv
  <1> QED BY <1>3, <1>5, <1>6, <1>7 DEF GlobalsInv

(* A declaration that is entered: f is its frame.                          *)
Pushed(ds, st, r, n, f) ==
  /\ n \in Nat /\ Len(st) = n /\ Len(r) = n + 1 /\ r \in Seq(GlobalFrame(ds)) /\ r # << >>
  /\ \A k \in 1 .. n : r[k] = st[k]
  /\ r[n + 1] = f /\ f \in GlobalFrame(ds) /\ f.at = 1 /\ ~ f.failed
LEMMA PushedIs ==
  ASSUME NEW ds, NEW st \in Seq(GlobalFrame(ds)), NEW d \in 1 .. Len(ds), NEW depth \in Nat, NEW demand \in BOOLEAN,
         NEW r, r = Append(st, CheckFrame(d, depth, demand))
  PROVE  Pushed(ds, st, r, Len(st), CheckFrame(d, depth, demand)) /\ CheckFrame(d, depth, demand).decl = d
  <1> DEFINE f == CheckFrame(d, depth, demand)
  <1>1. f \in GlobalFrame(ds) /\ f.at = 1 /\ ~ f.failed /\ f.decl = d
    BY DEF CheckFrame, GlobalFrame
  <1> DEFINE F == GlobalFrame(ds)
             n == Len(st)
  <1> HIDE DEF f, F
  <1>2. st \in Seq(F) /\ f \in F /\ r = Append(st, f)
    BY <1>1 DEF F, f
  <1>3. n \in Nat /\ Len(r) = n + 1 /\ r \in Seq(F) /\ r # << >> /\ r[n + 1] = f /\ \A k \in 1 .. n : r[k] = st[k]
    BY ONLY <1>2
  <1> QED BY <1>1, <1>3 DEF Pushed, F, f

LEMMA PushedInOrder ==
  ASSUME NEW ds, NEW st, NEW r, NEW n, NEW f, Pushed(ds, st, r, n, f), NEW sta, NEW sta2, NEW val,
         KindIn(ds, f.decl) = "const" => f.decl \notin sta /\ f.decl \notin val /\ sta2 = sta \cup {f.decl},
         sta2 = sta \/ sta2 = sta \cup {f.decl}, ConstantsInOrder(ds, st, sta, val)
  PROVE  ConstantsInOrder(ds, r, sta2, val)
  <1>1. /\ n \in Nat /\ Len(st) = n /\ Len(r) = n + 1
        /\ \A k \in 1 .. n : r[k] = st[k]
        /\ r[n + 1] = f
    BY DEF Pushed
  <1>2. \A k \in 1 .. n + 1 : k = n + 1 \/ k \in 1 .. n
    BY <1>1
  <1>3. ASSUME NEW k \in 1 .. n + 1, KindIn(ds, r[k].decl) = "const" PROVE r[k].decl \in sta2 /\ r[k].decl \notin val
    <2>1. CASE k = n + 1
      BY <1>1, <1>3, <2>1
    <2>2. CASE k \in 1 .. n
      BY <1>1, <1>3, <2>2 DEF ConstantsInOrder
    <2> QED BY <1>2, <2>1, <2>2
  <1>4. \A k \in 1 .. n : KindIn(ds, st[k].decl) = "const" => st[k].decl # f.decl
    BY <1>1 DEF ConstantsInOrder
  <1>5. ASSUME NEW j \in 1 .. n + 1, NEW k \in 1 .. n + 1, j # k, KindIn(ds, r[j].decl) = "const" PROVE r[j].decl # r[k].decl
    <2>1. CASE j = n + 1
      <3>1. k \in 1 .. n
        BY <1>2, <1>5, <2>1
      <3> QED BY <1>1, <1>4, <1>5, <2>1, <3>1
    <2>2. CASE j \in 1 .. n /\ k = n + 1
      BY <1>1, <1>4, <1>5, <2>2
    <2>3. CASE j \in 1 .. n /\ k \in 1 .. n
      BY <1>1, <1>5, <2>3 DEF ConstantsInOrder
    <2> QED BY <1>2, <2>1, <2>2, <2>3
  <1>6. ASSUME NEW d \in sta2, KindIn(ds, d) = "const" PROVE \E k \in 1 .. n + 1 : r[k].decl = d
    <2>1. CASE d \in sta
      <3>1. PICK k \in 1 .. n : st[k].decl = d
        BY <1>1, <1>6, <2>1 DEF ConstantsInOrder
      <3>2. k \in 1 .. n + 1 /\ r[k] = st[k]
        BY <1>1
      <3> QED BY <3>1, <3>2
    <2>2. CASE d = f.decl
      <3>1. n + 1 \in 1 .. n + 1
        BY <1>1
      <3> QED BY <1>1, <2>2, <3>1
    <2> QED BY <2>1, <2>2
  <1> QED BY <1>1, <1>3, <1>5, <1>6 DEF ConstantsInOrder

LEMMA PushedIsClean ==
  ASSUME NEW ds, Program(ds), NEW st, NEW r, NEW n, NEW f, Pushed(ds, st, r, n, f), NEW com, NEW val, NEW typ,
         Clean(ds, st, com, val, typ)
  PROVE  Clean(ds, r, com, val, typ)
  <1>1. /\ n \in Nat /\ Len(st) = n /\ Len(r) = n + 1
        /\ \A k \in 1 .. n : r[k] = st[k]
        /\ r[n + 1] = f /\ f.at = 1 /\ ~ f.failed /\ f \in GlobalFrame(ds)
    BY DEF Pushed
  <1>2. \A k \in 1 .. n + 1 : k = n + 1 \/ k \in 1 .. n
    BY <1>1
  <1>3. \A k \in 1 .. n + 1 : ~ r[k].failed
    <2>1. \A k \in 1 .. n : ~ st[k].failed
      BY <1>1 DEF Clean
    <2> QED BY <1>1, <1>2, <2>1
  <1> DEFINE done == DoneIn(ds, val, typ)
  <1> HIDE DEF done
  <1>4. UsesAreDone(ds, r, done)
    <2> SUFFICES ASSUME NEW k \in 1 .. n + 1, KindIn(ds, r[k].decl) \in {"const", "var"}, NEW i \in DOMAIN ds[r[k].decl].uses, i < r[k].at
                 PROVE  MadeOf(ds, done, r[k].decl, ds[r[k].decl].uses[i])
      BY <1>1 DEF UsesAreDone
    <2>1. UsesAreDone(ds, st, done)
      BY DEF Clean, done
    <2>2. CASE k \in 1 .. n
      BY <1>1, <2>1, <2>2 DEF UsesAreDone
    <2>3. CASE k = n + 1
      <3>1. f.decl \in 1 .. Len(ds)
        BY <1>1 DEF GlobalFrame
      <3>2. i \in DOMAIN ds[f.decl].uses /\ i < 1
        BY <1>1, <2>3
      <3>3. FALSE
        BY ONLY Program(ds), <3>1, <3>2, ProgramUses
      <3> QED BY <3>3
    <2> QED BY <1>2, <2>2, <2>3
  <1> QED BY <1>1, <1>3, <1>4 DEF Clean, done

(* A use that has its declaration checked first *)
LEMMA UseEnters ==
  ASSUME GlobalsInv, Using, NEW depth \in Nat, stack' = Append(stack, CheckFrame(Used, depth, TRUE)),
         UNCHANGED <<decls, next, complete, valued, typed, errors, aborted>>,
         KindIn(decls, Current.decl) = "const" => KindIn(decls, Used) = "const",
         KindIn(decls, Used) = "const" => Used \notin started /\ Used \notin complete /\ started' = started \cup {Used},
         started' = started \/ started' = started \cup {Used},
         specialized' = specialized \/ (specialized' = specialized \cup {Used} /\ KindIn(decls, Used) = "generic")
  PROVE  GlobalsInv'
  <1> DEFINE f == CheckFrame(Used, depth, TRUE)
             n == Len(stack)
  <1>0. stack \in Seq(GlobalFrame(decls)) /\ Used \in 1 .. Len(decls)
    BY UsingIs
  <1>1. Pushed(decls, stack, stack', n, f) /\ f.decl = Used
    BY ONLY <1>0, depth \in Nat, stack' = Append(stack, CheckFrame(Used, depth, TRUE)), PushedIs
  <1> HIDE DEF f, n
  <1>2. GlobalTypes'
    <2>1. started' \subseteq 1 .. Len(decls)
      BY <1>0 DEF GlobalsInv, GlobalTypes
    <2>2. stack' \in Seq(GlobalFrame(decls))
      BY <1>1 DEF Pushed
    <2> QED BY <2>1, <2>2 DEF GlobalsInv, GlobalTypes
  <1>3. StackInOrder(decls, stack')
    <2>1. n \in Nat /\ Len(stack') = n + 1 /\ (\A k \in 1 .. n : stack'[k] = stack[k]) /\ stack'[n + 1].decl = Used /\ Len(stack) = n
      BY <1>1 DEF Pushed
    <2>5. 1 .. Len(stack') - 1 = 1 .. n
      BY ONLY <2>1
    <2> SUFFICES ASSUME NEW k \in 1 .. n PROVE Waits(decls, stack', k)
      BY <2>5 DEF StackInOrder
    <2>2. CASE k = n
      <3>1. stack'[k] = Current /\ stack'[k + 1].decl = Used
        BY <2>1, <2>2, UsingIs
      <3> QED BY <3>1, UsingIs DEF Waits
    <2>3. CASE k # n
      <3>1. k \in 1 .. n - 1 /\ k + 1 \in 1 .. n
        BY <2>1, <2>3
      <3>2. Waits(decls, stack, k)
        BY <2>1, <3>1 DEF GlobalsInv, StackInOrder
      <3>3. stack'[k] = stack[k] /\ stack'[k + 1] = stack[k + 1]
        BY ONLY <2>1, <3>1, k \in 1 .. n
      <3> QED BY ONLY <3>2, <3>3 DEF Waits
    <2> QED BY <2>2, <2>3
  <1>4. ConstantsInOrder(decls, stack', started', valued)
    <2>1. ConstantsInOrder(decls, stack, started, valued) /\ valued \subseteq complete
      BY DEF GlobalsInv, GlobalTypes
    <2>2. KindIn(decls, f.decl) = "const" => f.decl \notin started /\ f.decl \notin valued /\ started' = started \cup {f.decl}
      BY <1>1, <2>1
    <2>3. started' = started \/ started' = started \cup {f.decl}
      BY <1>1
    <2> QED BY ONLY <1>1, <2>1, <2>2, <2>3, PushedInOrder
  <1>5. NextInOrder(decls, stack', next, complete, errors)
    <2>1. NextInOrder(decls, stack, next, complete, errors) /\ stack # << >> /\ Len(stack) \in Nat \ {0}
      BY UsingIs DEF GlobalsInv
    <2>2. 1 \in 1 .. n
      BY <2>1 DEF n
    <2>3. stack' # << >> /\ stack'[1] = stack[1]
      BY <1>1, <2>2 DEF Pushed
    <2> QED BY ONLY <2>1, <2>3 DEF NextInOrder
  <1>6. ASSUME errors = 0, ~ aborted PROVE Clean(decls, stack', complete, valued, typed)
    <2>1. Clean(decls, stack, complete, valued, typed) /\ Program(decls)
      BY <1>6, UsingIs DEF GlobalsInv
    <2> QED BY ONLY <1>1, <2>1, PushedIsClean
  <1>7. (Determined(decls) => ~ aborted) /\ (Determined(decls) /\ SoundConstants(decls) => errors = 0)
    BY DEF GlobalsInv
  <1> QED BY <1>2, <1>3, <1>4, <1>5, <1>6, <1>7 DEF GlobalsInv

(* A declaration that is left: b is the stack without its frame.           *)
Popped(ds, st, b, n, d) ==
  /\ n \in Nat \ {0} /\ Len(st) = n /\ Len(b) = n - 1 /\ b \in Seq(GlobalFrame(ds)) /\ (b = << >> <=> n = 1)
  /\ \A k \in 1 .. n - 1 : b[k] = st[k]
  /\ st[n].decl = d /\ d \in 1 .. Len(ds)
LEMMA FrontIs ==
  ASSUME NEW S, NEW st \in Seq(S), NEW n \in Nat \ {0}, n = Len(st), NEW b, b = SubSeq(st, 1, n - 1)
  PROVE  Len(b) = n - 1 /\ b \in Seq(S) /\ \A k \in 1 .. n - 1 : b[k] = st[k]
  OBVIOUS

LEMMA PoppedIs ==
  ASSUME NEW ds, NEW st \in Seq(GlobalFrame(ds)), st # << >>
  PROVE  Popped(ds, st, Front(st), Len(st), st[Len(st)].decl)
  <1> DEFINE F == GlobalFrame(ds)
             n == Len(st)
             b == SubSeq(st, 1, n - 1)
  <1> HIDE DEF F
  <1>1. st \in Seq(F) /\ st # << >>
    BY DEF F
  <1>6. n \in Nat \ {0} /\ st[n] \in F
    BY ONLY <1>1
  <1>7. Len(b) = n - 1 /\ b \in Seq(F) /\ \A k \in 1 .. n - 1 : b[k] = st[k]
    <2>1. n = Len(st) /\ b = SubSeq(st, 1, n - 1)
      OBVIOUS
    <2> HIDE DEF n, b
    <2> QED BY ONLY <1>1, <1>6, <2>1, FrontIs
  <1>8. b = << >> <=> n = 1
    <2> HIDE DEF b, n
    <2> QED BY ONLY <1>6, <1>7
  <1>2. n \in Nat \ {0} /\ Len(b) = n - 1 /\ b \in Seq(F) /\ (b = << >> <=> n = 1) /\ st[n] \in F
    BY ONLY <1>6, <1>7, <1>8
  <1>3. \A k \in 1 .. n - 1 : b[k] = st[k]
    BY ONLY <1>7
  <1>4. st[n].decl \in 1 .. Len(ds)
    BY <1>2 DEF F, GlobalFrame
  <1>5. Front(st) = b
    BY DEF Front
  <1> QED BY <1>2, <1>3, <1>4, <1>5 DEF Popped, F

LEMMA PoppedInOrder ==
  ASSUME NEW ds, NEW st, NEW b, NEW n, NEW d, Popped(ds, st, b, n, d), NEW sta, NEW sta2, NEW val, NEW val2,
         sta2 = sta \/ sta2 = sta \ {d}, KindIn(ds, d) = "const" => sta2 = sta \ {d}, val2 \subseteq val \cup {d},
         StackInOrder(ds, st), ConstantsInOrder(ds, st, sta, val)
  PROVE  StackInOrder(ds, b) /\ ConstantsInOrder(ds, b, sta2, val2)
  <1>1. n \in Nat \ {0} /\ Len(st) = n /\ Len(b) = n - 1 /\ (\A k \in 1 .. n - 1 : b[k] = st[k]) /\ st[n].decl = d
    BY DEF Popped
  <1>2. \A k \in 1 .. n - 1 : k \in 1 .. n /\ k # n
    BY <1>1
  <1>3. ASSUME NEW k \in 1 .. Len(b) - 1 PROVE Waits(ds, b, k)
    <2>1. k \in 1 .. n - 1 /\ k + 1 \in 1 .. n - 1
      BY <1>1
    <2>2. b[k] = st[k] /\ b[k + 1] = st[k + 1] /\ Waits(ds, st, k)
      BY <1>1, <2>1 DEF StackInOrder
    <2> QED BY <2>2 DEF Waits
  <1>4. \A k \in 1 .. n - 1 : KindIn(ds, st[k].decl) = "const" => st[k].decl # d
    <2>1. n \in 1 .. n
      BY <1>1
    <2> QED BY <1>1, <1>2, <2>1 DEF ConstantsInOrder
  <1>5. \A k \in 1 .. n - 1 : KindIn(ds, b[k].decl) = "const" => b[k].decl \in sta2 /\ b[k].decl \notin val2
    BY <1>1, <1>2, <1>4 DEF ConstantsInOrder
  <1>6. \A j, k \in 1 .. n - 1 : j # k /\ KindIn(ds, b[j].decl) = "const" => b[j].decl # b[k].decl
    BY <1>1, <1>2 DEF ConstantsInOrder
  <1>7. ASSUME NEW e \in sta2, KindIn(ds, e) = "const" PROVE \E k \in 1 .. n - 1 : b[k].decl = e
    <2>1. PICK k \in 1 .. n : st[k].decl = e
      BY <1>1, <1>7 DEF ConstantsInOrder
    <2>2. k # n
      BY <1>1, <1>7, <2>1
    <2>3. k \in 1 .. n - 1
      BY <1>1, <2>2
    <2> QED BY <1>1, <2>1, <2>3
  <1>8. ConstantsInOrder(ds, b, sta2, val2)
    BY <1>1, <1>5, <1>6, <1>7 DEF ConstantsInOrder
  <1> QED BY <1>3, <1>8 DEF StackInOrder

(* A declaration all of whose uses are done joins what is done.            *)
LEMMA JoinsDone ==
  ASSUME NEW ds, Program(ds), NEW done \in SUBSET DOMAIN ds, NEW d \in DOMAIN ds, DoneIsSound(ds, done),
         KindIn(ds, d) \in {"const", "var"} => d \notin done /\ \A u \in NamesOf(ds, d) : MadeOf(ds, done, d, u)
  PROVE  DoneIsSound(ds, done \cup {d})
  <1>1. \A m \in done : NamesOf(ds, m) \subseteq done
    BY DEF DoneIsSound, MadeOf, NamesOf
  <1>2. ASSUME KindIn(ds, d) \in {"const", "var"} PROVE d \notin NeedsOf(ds, d)
    <2>1. NamesOf(ds, d) \subseteq done
      BY <1>2 DEF MadeOf
    <2>2. NeedsOf(ds, d) \subseteq done
      BY <1>1, <2>1 DEF NeedsOf
    <2> QED BY <1>2, <2>2
  <1> QED BY <1>2 DEF DoneIsSound, MadeOf

Joins(ds, frame, d, com, val, typ, com2, val2, typ2) ==
  /\ com2 \subseteq com \cup {d} /\ com \subseteq com2
  /\ val2 = (IF KindIn(ds, d) = "const" THEN val \cup {d} ELSE val)
  /\ typ2 = (IF KindIn(ds, d) = "var" THEN typ \cup {d} ELSE typ)
  /\ KindIn(ds, d) \in {"const", "var"} => d \notin val \cup typ
  /\ KindIn(ds, d) \notin {"const", "var"} => com2 = com
  /\ frame.at > Len(ds[d].uses) /\ frame.at \in Nat
LEMMA PoppedIsClean ==
  ASSUME NEW ds, Program(ds), NEW st, NEW b, NEW n, NEW d, Popped(ds, st, b, n, d), NEW com, NEW val, NEW typ, NEW com2, NEW val2, NEW typ2,
         Clean(ds, st, com, val, typ), Joins(ds, st[n], d, com, val, typ, com2, val2, typ2)
  PROVE  Clean(ds, b, com2, val2, typ2) /\ d \in DoneIn(ds, val2, typ2)
  <1> USE DEF Joins
  <1> DEFINE done == DoneIn(ds, val, typ)
             done2 == DoneIn(ds, val2, typ2)
  <1>1. n \in Nat \ {0} /\ Len(st) = n /\ Len(b) = n - 1 /\ (\A k \in 1 .. n - 1 : b[k] = st[k]) /\ st[n].decl = d /\ d \in 1 .. Len(ds)
    BY DEF Popped
  <1>2. n \in 1 .. n /\ \A k \in 1 .. n - 1 : k \in 1 .. n /\ k # n
    BY <1>1
  <1>3. d \in DOMAIN ds /\ DOMAIN ds[d].uses = 1 .. Len(ds[d].uses) /\ Len(ds[d].uses) \in Nat
    BY ONLY <1>1, Program(ds), ProgramUses
  <1>4. done2 = done \cup {d} /\ done \in SUBSET DOMAIN ds /\ (KindIn(ds, d) \in {"const", "var"} => d \notin done)
    BY <1>3 DEF DoneIn
  <1>5. UsesAreDone(ds, st, done) /\ DoneIsSound(ds, done) /\ com \subseteq val \cup typ /\ \A k \in 1 .. n : ~ st[k].failed
    BY <1>1 DEF Clean
  <1> HIDE DEF done, done2
  <1>6. ASSUME KindIn(ds, d) \in {"const", "var"}, NEW u \in NamesOf(ds, d) PROVE MadeOf(ds, done, d, u)
    <2>1. PICK i \in DOMAIN ds[d].uses : ds[d].uses[i] = u
      BY <1>6 DEF NamesOf, ToSet
    <2>2. i < st[n].at
      BY <1>3, <2>1
    <2> QED BY <1>1, <1>2, <1>5, <1>6, <2>1, <2>2 DEF UsesAreDone
  <1>7. DoneIsSound(ds, done2)
    BY <1>3, <1>4, <1>5, <1>6, JoinsDone
  <1>8. UsesAreDone(ds, b, done2)
    <2>1. ASSUME NEW k \in 1 .. n - 1, KindIn(ds, b[k].decl) \in {"const", "var"}, NEW i \in DOMAIN ds[b[k].decl].uses, i < b[k].at
          PROVE  MadeOf(ds, done2, b[k].decl, ds[b[k].decl].uses[i])
      <3>1. b[k] = st[k] /\ k \in 1 .. n
        BY <1>1, <1>2
      <3>2. MadeOf(ds, done, b[k].decl, ds[b[k].decl].uses[i])
        BY <1>1, <1>5, <2>1, <3>1 DEF UsesAreDone
      <3> QED BY <1>4, <3>2 DEF MadeOf
    <2> QED BY <1>1, <2>1 DEF UsesAreDone
  <1>9. com2 \subseteq val2 \cup typ2
    BY <1>5
  <1>10. \A k \in 1 .. n - 1 : ~ b[k].failed
    BY <1>1, <1>2, <1>5
  <1> QED BY <1>1, <1>4, <1>7, <1>8, <1>9, <1>10 DEF Clean, done2

LEMMA LeaveInv == ASSUME GlobalsInv, LeaveDeclaration PROVE GlobalsInv'
  <1> DEFINE n == Len(stack)
             d == Current.decl
             b == Front(stack)
             kind == KindIn(decls, d)
             ok == ~ Current.failed
  <1>1. /\ stack # << >> /\ ~ aborted /\ ~ Using
        /\ valued' = (IF kind = "const" /\ ok THEN valued \cup {d} ELSE valued)
        /\ typed' = (IF kind = "var" /\ ok THEN typed \cup {d} ELSE typed)
        /\ complete' = (IF kind \in {"const", "var"} /\ ok THEN complete \cup {d} ELSE complete)
        /\ aborted' = (kind = "var" /\ ok /\ d \in typed)
        /\ started' = (IF kind = "const" \/ Current.on_demand THEN started \ {d} ELSE started)
        /\ stack' = (IF b = << >> THEN b ELSE AfterUse(b, ok))
        /\ errors' = (IF kind = "var" /\ ~ ok /\ Current.on_demand THEN errors + 1 ELSE errors)
        /\ decls' = decls /\ next' = next /\ specialized' = specialized
    BY TheDeclarations DEF LeaveDeclaration, undefined_identifier
  <1>2. /\ stack \in Seq(GlobalFrame(decls)) /\ Program(decls) /\ next \in Nat /\ errors \in Nat
        /\ valued \subseteq complete /\ complete \subseteq Initialized(decls)
        /\ (\A e \in valued : KindIn(decls, e) = "const") /\ (\A e \in typed : KindIn(decls, e) = "var")
    BY DEF GlobalsInv, GlobalTypes
  <1>3. Popped(decls, stack, b, n, d) /\ Current = stack[n]
    BY <1>1, <1>2, PoppedIs DEF Current
  <1>4. n \in Nat \ {0} /\ b \in Seq(GlobalFrame(decls)) /\ (b = << >> <=> n = 1) /\ d \in 1 .. Len(decls) /\ Len(b) = n - 1 /\ Len(stack) = n
    BY <1>3 DEF Popped
  <1>5. DOMAIN decls = 1 .. Len(decls)
    BY <1>2, ProgramUses
  <1>6. Current.at \in Nat /\ Current.failed \in BOOLEAN /\ (ok => Current.at > Len(decls[d].uses))
    <2>1. Current \in GlobalFrame(decls)
      BY ONLY <1>2, <1>3, <1>4
    <2>2. Current.at \in Nat /\ Current.failed \in BOOLEAN
      BY ONLY <2>1 DEF GlobalFrame
    <2>3. Len(decls[d].uses) \in Nat
      BY <1>2, <1>4, ProgramUses
    <2> QED BY <1>1, <2>2, <2>3 DEF Using
  <1> HIDE DEF b, n, d, kind, ok
  <1>7. (stack' = << >> /\ b = << >>) \/ (b # << >> /\ Like(decls, b, stack') /\ (ok => Advanced(b, stack')))
    <2>1. ok \in BOOLEAN
      BY <1>6 DEF ok
    <2>2. CASE b = << >>
      BY <1>1, <2>2
    <2>3. CASE b # << >>
      BY <1>1, <1>4, <2>1, <2>3, AfterUseIs
    <2> QED BY <2>2, <2>3
  <1>8. GlobalTypes'
    <2>10. Like(decls, b, stack') => stack' \in Seq(GlobalFrame(decls))
      BY DEF Like
    <2>1. stack' \in Seq(GlobalFrame(decls))
      BY ONLY <1>4, <1>7, <2>10
    <2>7. started' \subseteq started /\ started \subseteq 1 .. Len(decls)
      BY <1>1 DEF GlobalsInv, GlobalTypes
    <2>8. errors' \in Nat
      BY <1>1, <1>2
    <2>9. aborted' \in BOOLEAN
      <3>1. aborted' = (kind = "var" /\ ok /\ d \in typed)
        BY <1>1
      <3> QED BY ONLY <3>1
    <2>2. started' \subseteq 1 .. Len(decls) /\ errors' \in Nat /\ aborted' \in BOOLEAN
      BY <2>7, <2>8, <2>9
    <2>3. kind = "const" \/ kind = "var" => d \in Initialized(decls)
      BY <1>4, <1>5 DEF Initialized, kind
    <2>4. complete' \subseteq Initialized(decls) /\ valued' \subseteq complete'
      BY <1>1, <1>2, <2>3
    <2>5. valued' \subseteq {e \in Initialized(decls) : KindIn(decls, e) = "const"}
      BY <1>1, <2>3 DEF GlobalsInv, GlobalTypes, kind
    <2>6. typed' \subseteq {e \in Initialized(decls) : KindIn(decls, e) = "var"}
      BY <1>1, <2>3 DEF GlobalsInv, GlobalTypes, kind
    <2>11. \A e \in specialized : KindIn(decls, e) = "generic"
      BY DEF GlobalsInv, GlobalTypes
    <2> QED BY <1>1, <1>2, <2>1, <2>2, <2>4, <2>5, <2>6, <2>11 DEF GlobalTypes
  <1>9. StackInOrder(decls, b) /\ ConstantsInOrder(decls, b, started', valued')
    <2>1. StackInOrder(decls, stack) /\ ConstantsInOrder(decls, stack, started, valued)
      BY DEF GlobalsInv
    <2>2. (started' = started \/ started' = started \ {d}) /\ (KindIn(decls, d) = "const" => started' = started \ {d}) /\ valued' \subseteq valued \cup {d}
      BY <1>1 DEF kind
    <2> QED BY ONLY <1>3, <2>1, <2>2, PoppedInOrder
  <1>10. StackInOrder(decls, stack') /\ ConstantsInOrder(decls, stack', started', valued')
    <2>1. CASE b = << >>
      BY <1>7, <1>9, <2>1
    <2>2. CASE b # << >>
      <3>1. Like(decls, b, stack')
        BY <1>7, <2>2
      <3> QED BY ONLY <1>2, <1>9, <3>1, LikeInOrder
    <2> QED BY <2>1, <2>2
  <1>11. errors' = 0 => errors = 0
    BY <1>1, <1>2
  <1>12. ASSUME errors = 0 PROVE ok /\ Clean(decls, stack, complete, valued, typed)
    <2>1. Clean(decls, stack, complete, valued, typed)
      BY <1>1, <1>12 DEF GlobalsInv
    <2>2. n \in 1 .. Len(stack)
      BY <1>4
    <2> QED BY <1>3, <2>1, <2>2 DEF Clean, ok
  <1>13. NextInOrder(decls, stack', next, complete', errors')
    <2>1. NextInOrder(decls, stack, next, complete, errors)
      BY DEF GlobalsInv
    <2>2. next > 0 /\ (errors' = 0 /\ Determined(decls) => EnumsAreSound(decls))
      BY <1>1, <1>11, <2>1 DEF NextInOrder
    <2>3. ASSUME errors' = 0, NEW e \in Initialized(decls), e < next PROVE e \in complete' \/ (stack' # << >> /\ stack'[1].decl = e)
      <3>1. e \in complete \/ stack[1].decl = e
        BY <1>11, <2>1, <2>3 DEF NextInOrder
      <3>2. complete \subseteq complete'
        BY <1>1
      <3>3. CASE stack[1].decl = e /\ n = 1
        <4>1. e = d
          BY <1>3, <3>3 DEF d
        <4>2. kind \in {"const", "var"} /\ ok
          BY <1>11, <1>12, <2>3, <4>1 DEF Initialized, kind
        <4> QED BY <1>1, <4>1, <4>2
      <3>4. CASE stack[1].decl = e /\ n # 1
        <4>1. b # << >> /\ 1 \in 1 .. n - 1 /\ 1 \in 1 .. Len(b)
          BY <1>4, <3>4
        <4>2. b[1] = stack[1]
          BY <1>3, <4>1 DEF Popped
        <4>3. Like(decls, b, stack') /\ stack'[1].decl = b[1].decl /\ stack' # << >>
          BY <1>7, <4>1 DEF Like
        <4> QED BY <3>4, <4>2, <4>3
      <3> QED BY <3>1, <3>2, <3>3, <3>4
    <2> QED BY <2>2, <2>3 DEF NextInOrder
  <1>14. ASSUME errors' = 0, ~ aborted' PROVE Clean(decls, stack', complete', valued', typed')
    <2>1. ok /\ Clean(decls, stack, complete, valued, typed)
      BY <1>11, <1>12, <1>14
    <2>2. kind \in {"const", "var"} => d \notin valued \cup typed
      <3>1. kind = "const" => d \notin valued
        <4>1. n \in 1 .. Len(stack) /\ stack[n].decl = d
          BY <1>3, <1>4 DEF Popped
        <4> QED BY <4>1 DEF kind, GlobalsInv, ConstantsInOrder
      <3>2. kind = "var" => d \notin typed
        BY <1>1, <1>14, <2>1
      <3> QED BY <1>2, <3>1, <3>2 DEF kind
    <2>3. /\ complete' \subseteq complete \cup {d} /\ complete \subseteq complete'
          /\ valued' = (IF KindIn(decls, d) = "const" THEN valued \cup {d} ELSE valued)
          /\ typed' = (IF KindIn(decls, d) = "var" THEN typed \cup {d} ELSE typed)
          /\ (KindIn(decls, d) \in {"const", "var"} => d \notin valued \cup typed)
          /\ (KindIn(decls, d) \notin {"const", "var"} => complete' = complete)
      BY <1>1, <2>1, <2>2 DEF kind
    <2>4. stack[n].at > Len(decls[d].uses) /\ stack[n].at \in Nat
      BY <1>3, <1>6, <2>1
    <2>5. Clean(decls, b, complete', valued', typed') /\ d \in DoneIn(decls, valued', typed')
      <3>1. Joins(decls, stack[n], d, complete, valued, typed, complete', valued', typed')
        BY ONLY <2>3, <2>4 DEF Joins
      <3> QED BY ONLY <1>2, <1>3, <2>1, <3>1, PoppedIsClean
    <2>6. CASE b = << >>
      BY <1>7, <2>5, <2>6
    <2>7. CASE b # << >>
      <3>1. Like(decls, b, stack') /\ Advanced(b, stack')
        BY <1>7, <2>1, <2>7
      <3>2. n - 1 \in 1 .. n - 1 /\ n - 1 \in 1 .. Len(stack) - 1 /\ (n - 1) + 1 = n
        BY <1>4, <2>7
      <3>3. Waits(decls, stack, n - 1) /\ b[n - 1] = stack[n - 1] /\ stack[n].decl = d
        BY <1>3, <3>2 DEF GlobalsInv, StackInOrder, Popped
      <3> DEFINE top == b[Len(b)]
      <3>4. decls[top.decl].uses[top.at] = d /\ (KindIn(decls, top.decl) = "const" => KindIn(decls, d) = "const")
        BY ONLY <1>4, <3>2, <3>3 DEF Waits
      <3>5. MadeOf(decls, DoneIn(decls, valued', typed'), top.decl, decls[top.decl].uses[top.at])
        BY <2>5, <3>4 DEF MadeOf, Constant
      <3> QED BY ONLY <1>2, <2>5, <3>1, <3>5, AdvancedIsClean
    <2> QED BY <2>6, <2>7
  <1>15. ASSUME Determined(decls) PROVE ~ aborted' /\ (SoundConstants(decls) => errors' = 0)
    <2>1. kind # "var"
      BY <1>4, <1>5, <1>15 DEF Determined, kind
    <2> QED BY <1>1, <1>15, <2>1 DEF GlobalsInv
  <1> QED BY <1>1, <1>8, <1>10, <1>13, <1>14, <1>15 DEF GlobalsInv

(* A constant that is met again while it is being evaluated needs itself:  *)
(* the frames above its own are of constants, each named by the one below. *)
LEMMA CircleNeedsItself ==
  ASSUME GlobalsInv, Using, KindIn(decls, Used) = "const", NEW j \in 1 .. Len(stack), stack[j].decl = Used
  PROVE  Used \in NeedsOf(decls, Used)
  <1> DEFINE n == Len(stack)
             p == [k \in 1 .. n |-> stack[k].decl]
             C == {d \in 1 .. Len(decls) : KindIn(decls, d) = "const"}
  <1>1. n \in Nat \ {0} /\ Program(decls) /\ stack \in Seq(GlobalFrame(decls)) /\ Used \in 1 .. Len(decls)
    BY UsingIs
  <1>2. \A k \in 1 .. n : p[k] = stack[k].decl /\ p[k] \in 1 .. Len(decls)
    <2>1. \A k \in 1 .. n : stack[k] \in GlobalFrame(decls)
      BY ONLY <1>1
    <2> QED BY <2>1 DEF GlobalFrame
  <1>3. p[j] = Used /\ j \in Nat /\ j \in 1 .. n
    BY <1>1, <1>2
  <1>4. \A k \in 1 .. n - 1 : Waits(decls, stack, k)
    BY DEF GlobalsInv, StackInOrder
  <1> HIDE DEF p, n
  <1>5. \A i \in j + 1 .. n : p[i] \in C
    <2>1. ASSUME NEW k \in 1 .. n - 1, p[k] \in C PROVE p[k + 1] \in C
      <3>1. k + 1 \in 1 .. n /\ k \in 1 .. n
        BY <1>1
      <3> QED BY <1>2, <1>4, <2>1, <3>1 DEF Waits
    <2>2. j < n => p[j + 1] \in C
      <3>1. p[j] \in C
        BY <1>1, <1>3
      <3>2. j < n => j \in 1 .. n - 1
        BY <1>1, <1>3
      <3> QED BY <2>1, <3>1, <3>2
    <2>3. \A i \in j + 1 .. n - 1 : p[i] \in C => p[i + 1] \in C
      <3>1. \A i \in j + 1 .. n - 1 : i \in 1 .. n - 1
        BY <1>3
      <3> QED BY <2>1, <3>1
    <2> HIDE DEF C
    <2> QED BY ONLY <1>1, <1>3, <2>2, <2>3, PathInClosed
  <1>6. ASSUME NEW i \in j .. n PROVE p[i] \in C
    <2>1. i = j \/ i \in j + 1 .. n
      BY <1>1, <1>3
    <2> QED BY <1>1, <1>3, <1>5, <2>1
  <1>7. ASSUME NEW i \in j .. n - 1 PROVE p[i + 1] \in NamesOf(decls, p[i])
    <2>1. i \in j .. n /\ i \in 1 .. n - 1 /\ i + 1 \in 1 .. n /\ i \in 1 .. n
      BY <1>1, <1>3
    <2>2. p[i] \in C /\ Waits(decls, stack, i)
      BY <1>4, <1>6, <2>1
    <2> QED BY <1>2, <2>1, <2>2 DEF Waits, NamesOf, ToSet
  <1>8. Used \in NamesOf(decls, p[n])
    <2>1. n \in j .. n /\ n \in 1 .. n
      BY <1>1, <1>3
    <2>2. p[n] = Current.decl /\ p[n] \in C
      BY <1>2, <1>6, <2>1, UsingIs DEF n
    <2> QED BY <2>2, UsingIs DEF NamesOf, ToSet
  <1> SUFFICES ASSUME NEW S \in SUBSET DOMAIN decls, NamesOf(decls, p[j]) \subseteq S, \A e \in S : NamesOf(decls, e) \subseteq S
               PROVE  Used \in S
    <2>1. Used \in DOMAIN decls
      BY <1>1, ProgramUses
    <2> QED BY <1>3, <2>1 DEF NeedsOf
  <1>9. j < n => p[j + 1] \in S
    <2>1. j < n => j \in j .. n - 1
      BY <1>1, <1>3
    <2> QED BY <1>7, <2>1
  <1>10. \A i \in j + 1 .. n - 1 : p[i] \in S => p[i + 1] \in S
    <2>1. \A i \in j + 1 .. n - 1 : i \in j .. n - 1
      BY <1>3
    <2> QED BY <1>7, <2>1
  <1>11. \A i \in j + 1 .. n : p[i] \in S
    BY ONLY <1>1, <1>3, <1>9, <1>10, PathInClosed
  <1>12. CASE j = n
    BY <1>8, <1>12
  <1>13. CASE j # n
    <2>1. n \in j + 1 .. n
      BY <1>1, <1>3, <1>13
    <2> QED BY <1>8, <1>11, <2>1
  <1> QED BY <1>12, <1>13

LEMMA UseConstantInv == ASSUME GlobalsInv, UseConstant PROVE GlobalsInv'
  <1>1. /\ Using /\ KindIn(decls, Used) = "const"
        /\ decls' = decls /\ next' = next /\ valued' = valued /\ typed' = typed /\ specialized' = specialized /\ aborted' = aborted
    BY TheDeclarations DEF UseConstant
  <1>2. errors \in Nat /\ valued \subseteq complete /\ ~ aborted /\ Used \in 1 .. Len(decls) /\ DOMAIN decls = 1 .. Len(decls)
    BY <1>1, UsingIs, ProgramUses DEF GlobalsInv, GlobalTypes
  <1>3. CASE Used \in complete
    <2>1. stack' = AfterUse(stack, Used \in valued) /\ started' = started /\ complete' = complete /\ errors' = errors
      BY <1>3 DEF UseConstant
    <2>2. CASE Used \in valued
      <3>1. MadeOf(decls, DoneIn(decls, valued, typed), Current.decl, Used)
        BY <1>1, <1>2, <2>2 DEF MadeOf, DoneIn, Constant
      <3>2. stack' = AfterUse(stack, TRUE)
        BY <2>1, <2>2
      <3> QED BY <1>1, <2>1, <3>1, <3>2, UseDone
    <2>3. CASE Used \notin valued
      <3>1. errors # 0
        <4> SUFFICES ASSUME errors = 0 PROVE FALSE
          OBVIOUS
        <4>1. Used \in valued \cup typed
          BY <1>2, <1>3 DEF GlobalsInv, Clean
        <4> QED BY <1>1, <2>3, <4>1 DEF GlobalsInv, GlobalTypes
      <3>2. stack' = AfterUse(stack, FALSE)
        BY <2>1, <2>3 DEF AfterUse
      <3>3. ~ (Determined(decls) /\ SoundConstants(decls))
        BY <3>1 DEF GlobalsInv
      <3> QED BY <1>1, <1>2, <2>1, <3>1, <3>2, <3>3, UseRefused
    <2> QED BY <2>2, <2>3
  <1>4. CASE Used \notin complete /\ Used \in started
    <2>1. stack' = AfterUse(stack, FALSE) /\ started' = started /\ complete' = complete \cup {Used} /\ errors' = errors + 1
      BY <1>4 DEF UseConstant, is_cyclic, cycle_error
    <2>2. ~ SoundConstants(decls)
      <3>1. PICK j \in 1 .. Len(stack) : stack[j].decl = Used
        BY <1>1, <1>4 DEF GlobalsInv, ConstantsInOrder
      <3>2. Used \in NeedsOf(decls, Used)
        BY <1>1, <3>1, CircleNeedsItself
      <3> QED BY <1>1, <1>2, <3>2 DEF SoundConstants
    <2> QED BY <1>1, <1>2, <2>1, <2>2, UseRefused
  <1>5. CASE Used \notin complete /\ Used \notin started
    <2>1. stack' = Append(stack, CheckFrame(Used, Current.depth, TRUE)) /\ started' = started \cup {Used} /\ complete' = complete /\ errors' = errors
      BY <1>5 DEF UseConstant, is_cyclic
    <2>2. Current.depth \in Nat
      BY <1>1, UsingIs
    <2> QED BY <1>1, <1>5, <2>1, <2>2, UseEnters
  <1> QED BY <1>3, <1>4, <1>5

LEMMA NotConstantInv == ASSUME GlobalsInv, NotConstant PROVE GlobalsInv'
  <1>1. /\ Using /\ KindIn(decls, Current.decl) = "const" /\ KindIn(decls, Used) \in {"var", "func", "generic"}
        /\ errors' = errors + 1 /\ stack' = AfterUse(stack, FALSE)
        /\ UNCHANGED <<decls, next, started, complete, valued, typed, specialized, aborted>>
    BY TheDeclarations DEF NotConstant
  <1>2. errors' \in Nat \ {0}
    BY <1>1 DEF GlobalsInv, GlobalTypes
  <1>3. Used \in NamesOf(decls, Current.decl)
    BY <1>1, UsingIs DEF NamesOf, ToSet
  <1>4. ~ SoundConstants(decls)
    <2>1. Current.decl \in DOMAIN decls
      BY <1>1, UsingIs, ProgramUses
    <2> QED BY <1>1, <1>3, <2>1 DEF SoundConstants, Constant
  <1> QED BY <1>1, <1>2, <1>4, UseRefused

LEMMA UseVariableInv == ASSUME GlobalsInv, UseVariable PROVE GlobalsInv'
  <1>1. /\ Using /\ KindIn(decls, Current.decl) # "const" /\ KindIn(decls, Used) = "var"
        /\ UNCHANGED <<decls, next, complete, valued, typed, specialized, aborted>>
    BY TheDeclarations DEF UseVariable
  <1>2. errors \in Nat /\ Used \in DOMAIN decls
    BY <1>1, UsingIs, ProgramUses DEF GlobalsInv, GlobalTypes
  <1>3. ~ Determined(decls)
    BY <1>1, <1>2 DEF Determined
  <1>4. CASE Used \in typed
    <2>1. stack' = AfterUse(stack, TRUE) /\ started' = started /\ errors' = errors
      BY <1>4 DEF UseVariable
    <2>2. MadeOf(decls, DoneIn(decls, valued, typed), Current.decl, Used)
      BY <1>1, <1>2, <1>4 DEF MadeOf, DoneIn
    <2> QED BY <1>1, <2>1, <2>2, UseDone
  <1>5. CASE Used \notin typed /\ (~ may_check_on_demand \/ Used \in started)
    <2>1. stack' = AfterUse(stack, FALSE) /\ started' = started /\ errors' \in {errors + 1, errors + 1 + 1}
      BY <1>5 DEF UseVariable, is_cyclic, cycle_error, undefined_identifier
    <2>2. errors' \in Nat \ {0}
      BY <1>2, <2>1
    <2> QED BY <1>1, <1>3, <2>1, <2>2, UseRefused
  <1>6. CASE Used \notin typed /\ may_check_on_demand /\ Used \notin started
    <2>1. stack' = Append(stack, CheckFrame(Used, 0, TRUE)) /\ started' = started \cup {Used} /\ errors' = errors
      BY <1>6 DEF UseVariable, is_cyclic
    <2> QED BY <1>1, <2>1, UseEnters
  <1> QED BY <1>4, <1>5, <1>6

LEMMA UseOtherInv == ASSUME GlobalsInv, UseOther PROVE GlobalsInv'
  <1>1. /\ Using /\ stack' = AfterUse(stack, TRUE)
        /\ UNCHANGED <<decls, next, started, complete, valued, typed, specialized, errors, aborted>>
        /\ (KindIn(decls, Used) = "enum" \/ (KindIn(decls, Current.decl) # "const" /\ (KindIn(decls, Used) = "func" \/ Used \in specialized)))
    BY TheDeclarations DEF UseOther
  <1>2. Used \in DOMAIN decls
    BY <1>1, UsingIs, ProgramUses
  <1>3. Used \in specialized => KindIn(decls, Used) = "generic"
    BY DEF GlobalsInv, GlobalTypes
  <1>4. MadeOf(decls, DoneIn(decls, valued, typed), Current.decl, Used)
    BY <1>1, <1>2, <1>3 DEF MadeOf, DoneIn, Constant
  <1> QED BY <1>1, <1>4, UseDone

LEMMA SpecializeInv == ASSUME GlobalsInv, SpecializeGeneric PROVE GlobalsInv'
  <1>1. /\ Using /\ KindIn(decls, Current.decl) # "const" /\ KindIn(decls, Used) = "generic"
        /\ stack' = Append(stack, CheckFrame(Used, Current.depth + 1, TRUE))
        /\ UNCHANGED <<decls, next, started, complete, valued, typed, errors, aborted>>
        /\ specialized' = specialized \cup {Used}
    BY TheDeclarations DEF SpecializeGeneric
  <1>2. Current.depth + 1 \in Nat
    BY <1>1, UsingIs
  <1> QED BY <1>1, <1>2, UseEnters

LEMMA FillEnumsInv == ASSUME GlobalsInv, FillEnums PROVE GlobalsInv'
  <1> DEFINE Values == UNION {{d} \X DOMAIN decls[d].uses : d \in OfKind("enum")}
             Named(v) == decls[v[1]].uses[v[2]]
             Unwritten == {v \in Values : Named(v) = v[1]}
             Unknown == {v \in Values \ Unwritten : ~ find_enum_member(v[1], Named(v))}
  <1>1. next = 0 /\ ~ aborted /\ next' = 1 /\ UNCHANGED <<decls, stack, started, complete, valued, typed, specialized>>
        /\ aborted' \in {FALSE, Unwritten # {}}
    BY DEF FillEnums
  <1>2. PICK refused \in SUBSET Unwritten : errors' = Cardinality(Unknown \cup refused)
    BY DEF FillEnums
  <1>3. DOMAIN decls = 1 .. Len(decls) /\ Len(decls) \in Nat
        /\ \A d \in 1 .. Len(decls) : DOMAIN decls[d].uses = 1 .. Len(decls[d].uses) /\ Len(decls[d].uses) \in Nat
    BY ProgramUses DEF GlobalsInv, GlobalTypes
  <1>4. \A v : v \in Values <=> \E d \in OfKind("enum") : \E i \in DOMAIN decls[d].uses : v = <<d, i>>
    OBVIOUS
  <1>5. IsFiniteSet(Values)
    <2> DEFINE lengths == [d \in 1 .. Len(decls) |-> Len(decls[d].uses)]
    <2>1. lengths \in [1 .. Len(decls) -> Nat]
      BY <1>3
    <2>2. PICK B \in Nat : \A d \in 1 .. Len(decls) : lengths[d] <= B
      <3> HIDE DEF lengths
      <3> QED BY <1>3, <2>1, Bounded
    <2>3. \A d \in 1 .. Len(decls) : DOMAIN decls[d].uses \subseteq 1 .. B
      BY <1>3, <2>2
    <2>4. Values \subseteq (1 .. Len(decls)) \X (1 .. B)
      <3> SUFFICES ASSUME NEW d \in OfKind("enum"), NEW i \in DOMAIN decls[d].uses
                   PROVE  <<d, i>> \in (1 .. Len(decls)) \X (1 .. B)
        BY <1>4
      <3>1. d \in 1 .. Len(decls)
        BY <1>3 DEF OfKind
      <3> QED BY <2>3, <3>1
    <2>5. IsFiniteSet(1 .. Len(decls)) /\ IsFiniteSet(1 .. B)
      <3>1. 1 \in Int /\ Len(decls) \in Int /\ B \in Int
        BY <1>3
      <3> QED BY <3>1, FS_Interval
    <2> HIDE DEF Values
    <2>6. IsFiniteSet((1 .. Len(decls)) \X (1 .. B))
      BY <2>5, FS_Product
    <2> QED BY <2>4, <2>6, FS_Subset
  <1> DEFINE Refused == Unknown \cup refused
  <1>6. Cardinality(Refused) \in Nat /\ (Cardinality(Refused) = 0 <=> Refused = {})
    <2>1. Refused \subseteq Values
      OBVIOUS
    <2> HIDE DEF Refused, Values
    <2>2. IsFiniteSet(Refused)
      BY <1>5, <2>1, FS_Subset
    <2> QED BY <2>2, FS_CardinalityType, FS_EmptySet
  <1>7. ASSUME NEW d \in OfKind("enum"), NEW i \in DOMAIN decls[d].uses
        PROVE  /\ <<d, i>> \in Values
               /\ <<d, i>> \in Unwritten <=> decls[d].uses[i] = d
               /\ <<d, i>> \in Unknown <=> decls[d].uses[i] # d /\ ~ find_enum_member(d, decls[d].uses[i])
    <2>1. <<d, i>> \in Values /\ <<d, i>>[1] = d /\ Named(<<d, i>>) = decls[d].uses[i]
      BY <1>4
    <2> HIDE DEF Values, Named
    <2> QED BY <2>1
  <1>8. \A d \in OfKind("enum") : \A u : u \in ToSet(decls[d].uses) <=> \E i \in DOMAIN decls[d].uses : decls[d].uses[i] = u
    BY DEF ToSet
  <1>9. Determined(decls) => Unwritten = {}
    <2> SUFFICES ASSUME Determined(decls), NEW v \in Unwritten PROVE FALSE
      OBVIOUS
    <2>0. PICK d \in OfKind("enum") : \E i \in DOMAIN decls[d].uses : v = <<d, i>>
      BY <1>4
    <2>1. PICK i \in DOMAIN decls[d].uses : v = <<d, i>>
      BY <2>0
    <2> HIDE DEF Values, Unwritten
    <2>2. decls[d].uses[i] = d /\ d \in ToSet(decls[d].uses)
      BY <1>7, <1>8, <2>1
    <2> QED BY <2>2, TheDeclarations DEF Determined, OfKind
  <1>10. ASSUME Determined(decls) PROVE Refused = {} <=> EnumsAreSound(decls)
    <2>1. Refused = Unknown
      BY <1>9, <1>10
    <2>2. ASSUME Unknown = {} PROVE EnumsAreSound(decls)
      <3> SUFFICES ASSUME NEW d \in DOMAIN decls, KindIn(decls, d) = "enum", NEW u \in ToSet(decls[d].uses)
                   PROVE  KindIn(decls, u) = "enum" /\ u < d
        BY DEF EnumsAreSound
      <3>1. d \in OfKind("enum")
        BY TheDeclarations DEF OfKind
      <3>2. PICK i \in DOMAIN decls[d].uses : decls[d].uses[i] = u
        BY <1>8, <3>1
      <3>3. u # d
        BY <1>10 DEF Determined
      <3>4. <<d, i>> \notin Unknown
        BY <2>2
      <3> HIDE DEF Unknown, Values, Unwritten
      <3>5. find_enum_member(d, u)
        BY <1>7, <3>1, <3>2, <3>3, <3>4
      <3> QED BY <3>5, TheDeclarations DEF find_enum_member
    <2>3. ASSUME EnumsAreSound(decls), NEW v \in Unknown PROVE FALSE
      <3>0. PICK d \in OfKind("enum") : \E i \in DOMAIN decls[d].uses : v = <<d, i>>
        BY <1>4
      <3>1. PICK i \in DOMAIN decls[d].uses : v = <<d, i>>
        BY <3>0
      <3>2. <<d, i>> \in Unknown
        BY <2>3, <3>1
      <3> HIDE DEF Unknown, Values, Unwritten
      <3>3. decls[d].uses[i] \in ToSet(decls[d].uses) /\ ~ find_enum_member(d, decls[d].uses[i])
        BY <1>7, <1>8, <3>1, <3>2
      <3>4. d \in DOMAIN decls /\ KindIn(decls, d) = "enum"
        BY TheDeclarations DEF OfKind
      <3> QED BY <2>3, <3>3, <3>4, TheDeclarations DEF EnumsAreSound, find_enum_member
    <2> QED BY <2>1, <2>2, <2>3
  <1>11. aborted' \in BOOLEAN /\ (Determined(decls) => ~ aborted')
    BY <1>1, <1>9
  <1> HIDE DEF Refused, Values, Unwritten, Unknown
  <1>12. errors' \in Nat /\ (errors' = 0 <=> Refused = {})
    BY <1>2, <1>6 DEF Refused
  <1>13. stack = << >> /\ errors = 0
    BY <1>1 DEF GlobalsInv, NextInOrder
  <1>14. GlobalTypes'
    BY <1>1, <1>11, <1>12 DEF GlobalsInv, GlobalTypes
  <1>15. NextInOrder(decls, stack, next', complete, errors')
    <2>1. \A d \in Initialized(decls) : ~ (d < 1)
      BY <1>3 DEF Initialized
    <2> QED BY <1>1, <1>10, <1>12, <1>13, <2>1 DEF NextInOrder
  <1>16. Clean(decls, stack, complete, valued, typed)
    BY <1>1, <1>13 DEF GlobalsInv
  <1>17. Determined(decls) /\ SoundConstants(decls) => errors' = 0
    BY <1>10, <1>12 DEF SoundConstants
  <1> QED BY <1>1, <1>11, <1>14, <1>15, <1>16, <1>17 DEF GlobalsInv

LEMMA CheckDeclarationInv == ASSUME GlobalsInv, CheckDeclaration PROVE GlobalsInv'
  <1>1. /\ next > 0 /\ next <= Len(decls) /\ stack = << >> /\ ~ aborted /\ next' = next + 1
        /\ UNCHANGED <<decls, complete, valued, typed, specialized, errors, aborted>>
    BY DEF CheckDeclaration
  <1>2. next \in Nat /\ Program(decls) /\ stack \in Seq(GlobalFrame(decls)) /\ DOMAIN decls = 1 .. Len(decls) /\ Len(decls) \in Nat
    BY ProgramUses DEF GlobalsInv, GlobalTypes
  <1>3. next \in 1 .. Len(decls) /\ \A d \in 1 .. Len(decls) : d < next + 1 => d < next \/ d = next
    BY <1>1, <1>2
  <1>4. (Determined(decls) => ~ aborted) /\ (Determined(decls) /\ SoundConstants(decls) => errors = 0)
    BY DEF GlobalsInv
  <1>5. CASE next \in complete \/ KindIn(decls, next) \in {"generic", "enum"}
    <2>1. stack' = stack /\ started' = started
      BY <1>5, TheDeclarations DEF CheckDeclaration
    <2>2. GlobalTypes'
      BY <1>1, <1>2, <2>1 DEF GlobalsInv, GlobalTypes
    <2>3. next \in Initialized(decls) => next \in complete
      BY <1>5 DEF Initialized
    <2>4. NextInOrder(decls, stack, next + 1, complete, errors)
      <3>1. \A d \in Initialized(decls) : d < next + 1 => d < next \/ d = next
        BY <1>2, <1>3 DEF Initialized
      <3>2. NextInOrder(decls, stack, next, complete, errors)
        BY DEF GlobalsInv
      <3> QED BY <1>1, <1>2, <2>3, <3>1, <3>2 DEF NextInOrder
    <2> QED BY <1>1, <2>1, <2>2, <2>4 DEF GlobalsInv
  <1>6. CASE ~ (next \in complete \/ KindIn(decls, next) \in {"generic", "enum"})
    <2> DEFINE depth == IF KindIn(decls, next) = "func" THEN 1 ELSE 0
               f == CheckFrame(next, depth, FALSE)
    <2>1. stack' = <<f>> /\ started' = (IF KindIn(decls, next) = "const" THEN started \cup {next} ELSE started)
      BY <1>6, TheDeclarations DEF CheckDeclaration
    <2>2. stack' = Append(stack, f) /\ Len(stack) = 0
      BY <1>1, <2>1
    <2>3. depth \in Nat
      OBVIOUS
    <2> HIDE DEF depth
    <2>4. Pushed(decls, stack, stack', 0, f) /\ f.decl = next
      BY ONLY <1>2, <1>3, <2>2, <2>3, PushedIs
    <2> HIDE DEF f
    <2>5. GlobalTypes'
      <3>1. started' \subseteq 1 .. Len(decls)
        BY <1>3, <2>1 DEF GlobalsInv, GlobalTypes
      <3>2. stack' \in Seq(GlobalFrame(decls))
        BY <2>4 DEF Pushed
      <3> QED BY <1>1, <1>2, <3>1, <3>2 DEF GlobalsInv, GlobalTypes
    <2>6. Len(stack') = 1 /\ stack'[1] = f /\ stack' # << >>
      BY <2>1
    <2>7. StackInOrder(decls, stack')
      BY <2>6 DEF StackInOrder
    <2>8. ConstantsInOrder(decls, stack', started', valued)
      <3>1. ConstantsInOrder(decls, stack, started, valued) /\ valued \subseteq complete
        BY DEF GlobalsInv, GlobalTypes
      <3>2. KindIn(decls, next) = "const" => next \notin started
        BY <1>1, <3>1 DEF ConstantsInOrder
      <3>3. KindIn(decls, f.decl) = "const" => f.decl \notin started /\ f.decl \notin valued /\ started' = started \cup {f.decl}
        BY <1>6, <2>1, <2>4, <3>1, <3>2
      <3>4. started' = started \/ started' = started \cup {f.decl}
        BY <2>1, <2>4
      <3> QED BY ONLY <2>4, <3>1, <3>3, <3>4, PushedInOrder
    <2>9. NextInOrder(decls, stack', next + 1, complete, errors)
      <3>1. \A d \in Initialized(decls) : d < next + 1 => d < next \/ d = next
        BY <1>2, <1>3 DEF Initialized
      <3>2. NextInOrder(decls, stack, next, complete, errors)
        BY DEF GlobalsInv
      <3> QED BY <1>1, <1>2, <2>4, <2>6, <3>1, <3>2 DEF NextInOrder
    <2>10. ASSUME errors = 0 PROVE Clean(decls, stack', complete, valued, typed)
      <3>1. Clean(decls, stack, complete, valued, typed)
        BY <1>1, <2>10 DEF GlobalsInv
      <3> QED BY ONLY <1>2, <2>4, <3>1, PushedIsClean
    <2> QED BY <1>1, <1>4, <2>5, <2>7, <2>8, <2>9, <2>10 DEF GlobalsInv
  <1> QED BY <1>5, <1>6

LEMMA GlobalsStart == ASSUME GlobalsInit PROVE GlobalsInv
  <1>1. Program(decls)
    BY DeclarationsAssumption DEF GlobalsInit, Program
  <1>2. /\ stack = << >> /\ next = 0 /\ started = {} /\ complete = {} /\ valued = {} /\ typed = {} /\ specialized = {}
        /\ errors = 0 /\ ~ aborted /\ aborted \in BOOLEAN
    BY DEF GlobalsInit
  <1>3. GlobalTypes
    BY <1>1, <1>2 DEF GlobalTypes
  <1>4. StackInOrder(decls, stack) /\ ConstantsInOrder(decls, stack, started, valued)
    BY <1>2 DEF StackInOrder, ConstantsInOrder
  <1>5. NextInOrder(decls, stack, next, complete, errors)
    <2>1. \A d \in Initialized(decls) : ~ (d < 0)
      BY <1>1, ProgramUses DEF Initialized
    <2> QED BY <1>2, <2>1 DEF NextInOrder
  <1>6. Clean(decls, stack, complete, valued, typed)
    BY <1>2 DEF Clean, DoneIsSound, DoneIn, UsesAreDone
  <1> QED BY <1>2, <1>3, <1>4, <1>5, <1>6 DEF GlobalsInv

LEMMA GlobalsStep == ASSUME GlobalsInv, [GlobalsNext]_gvars PROVE GlobalsInv'
  <1>1. ASSUME UNCHANGED gvars PROVE GlobalsInv'
    BY <1>1 DEF gvars, GlobalsInv, GlobalTypes
  <1> QED BY <1>1, FillEnumsInv, CheckDeclarationInv, UseConstantInv, NotConstantInv, UseVariableInv, UseOtherInv, SpecializeInv, LeaveInv
          DEF GlobalsNext

LEMMA GlobalsInductive == GlobalsSpec => []GlobalsInv
  <1>1. GlobalsInit => GlobalsInv
    BY GlobalsStart
  <1>2. GlobalsInv /\ [GlobalsNext]_gvars => GlobalsInv'
    BY GlobalsStep
  <1> QED BY <1>1, <1>2, PTL DEF GlobalsSpec

(* For every program of constants, variables, functions and enums, in      *)
(* whatever order ensure_constant_symbol_checked and                       *)
(* ensure_global_variable_symbol_checked meet them: without variables, and *)
(* unless an enum reads members that fill_enum_members has not written,    *)
(* exactly the programs are accepted whose constants are sound and whose   *)
(* enums name only enums of earlier statements; and what check_program     *)
(* accepts has every constant valued, every variable typed, and no         *)
(* initialiser that needs itself.                                          *)
THEOREM GlobalsAreDecidedRightly == GlobalsSpec => []GlobalsAreDecided
  <1>1. GlobalsInv => GlobalsAreDecided
    BY GlobalsVerdict
  <1> QED BY <1>1, GlobalsInductive, PTL
=============================================================================
