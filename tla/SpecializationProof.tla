------------------------ MODULE SpecializationProof ------------------------
(***************************************************************************)
(* Proofs about Specialization, for every well formed program and every    *)
(* limit on the recursion.                                                 *)
(***************************************************************************)
EXTENDS Specialization, FiniteSetTheorems, TLAPS

-----------------------------------------------------------------------------
(* The inductive invariant, in terms of a program p and the keys known.    *)

Main == <<"main", 0>>
Key(p) == (DOMAIN p) \X Nat
Frame(p) == [key : Key(p), at : Nat \ {0}, before : Nat]

UsesOf(p, key) == p[key[1]].signature \o p[key[1]].body
KindOf(p, key) == p[key[1]].kind
OwnerOf(p, key) == <<p[key[1]].owner, key[2]>>
Faulty(p, key, where) == p[key[1]].fault.where = where /\ Concerns(p[key[1]].fault.when, key[2])

(* A specialisation is there, and so is the struct when it is a method.    *)
InPlace(p, known, key) == key \in known /\ (KindOf(p, key) = "method" => OwnerOf(p, key) \in known)
(* The first n uses in the template of key are in place.                   *)
Met(p, known, key, n) == \A i \in 1 .. n : InPlace(p, known, KeyOf(UsesOf(p, key)[i], key[2]))

SpecTypes ==
  /\ WellFormed(program)
  /\ frames \in Seq(Frame(program))
  /\ \A i \in 1 .. Len(frames) : frames[i].at <= Len(UsesOf(program, frames[i].key)) + 1
  /\ specs \in [DOMAIN specs -> {"checking", "valid", "invalid"}]
  /\ DOMAIN specs \subseteq Key(program)
  /\ error_count \in Nat

(* What is being checked is what the frames above main stand for, each once. *)
FramesAreChecking ==
  /\ Len(frames) > 0 => frames[1].key = Main
  /\ \A i \in 2 .. Len(frames) : frames[i].key \in DOMAIN specs /\ specs[frames[i].key] = "checking"
  /\ \A i, j \in 2 .. Len(frames) : i # j => frames[i].key # frames[j].key
  /\ \A key \in DOMAIN specs : specs[key] = "checking" => \E i \in 2 .. Len(frames) : frames[i].key = key

(* Errors are never forgotten.                                             *)
ErrorsAreKept ==
  /\ \A i \in 1 .. Len(frames) : frames[i].before <= error_count
  /\ \A key \in DOMAIN specs : specs[key] = "invalid" => error_count > 0

(* While there is no error, all uses that were passed are in place.        *)
PassedIsMet ==
  /\ \A key \in DOMAIN specs : ~ Faulty(program, key, "constraint")
  /\ error_count = 0 =>
       /\ \A i \in 1 .. Len(frames) : Met(program, DOMAIN specs, frames[i].key, frames[i].at - 1)
       /\ frames = << >> => Met(program, DOMAIN specs, Main, Len(UsesOf(program, Main)))
       /\ \A key \in DOMAIN specs : specs[key] = "valid" =>
            /\ Met(program, DOMAIN specs, key, Len(UsesOf(program, key)))
            /\ ~ Faulty(program, key, "signature") /\ ~ Faulty(program, key, "body")

(* The frames of a template, and the limit on those of functions and structs. *)
FramesOf(template) == {i \in 1 .. Len(frames) : frames[i].key[1] = template}
DepthIsBounded ==
  \A template \in DOMAIN program :
    program[template].kind \in {"function", "struct"} => Cardinality(FramesOf(template)) <= Limit

SpecInv == SpecTypes /\ FramesAreChecking /\ ErrorsAreKept /\ PassedIsMet /\ DepthIsBounded

-----------------------------------------------------------------------------
(* Programs and keys. *)

LEMMA OfProgram ==
  ASSUME NEW key
  PROVE  /\ Uses(key) = UsesOf(program, key) /\ Kind(key) = KindOf(program, key) /\ Owner(key) = OwnerOf(program, key)
         /\ \A where : HasFault(key, where) = Faulty(program, key, where)
  BY DEF Uses, UsesOf, Kind, KindOf, Owner, OwnerOf, HasFault, Faulty

LEMMA UseTypes ==
  ASSUME WellFormed(program), NEW key \in Key(program)
  PROVE  /\ Len(UsesOf(program, key)) \in Nat
         /\ \A i \in 1 .. Len(UsesOf(program, key)) :
              KeyOf(UsesOf(program, key)[i], key[2]) \in Key(program) /\ KeyOf(UsesOf(program, key)[i], key[2])[1] # "main"
  <1> DEFINE U == [of : DOMAIN program \ {"main"}, for : {"T", "T*", "base"}]
  <1>1. key[1] \in DOMAIN program /\ key[2] \in Nat
    BY DEF Key
  <1>2. UsesOf(program, key) \in Seq(U)
    <2>1. program[key[1]].signature \in Seq(U) /\ program[key[1]].body \in Seq(U)
      BY <1>1 DEF WellFormed
    <2> HIDE DEF U
    <2> QED BY <2>1 DEF UsesOf
  <1>3. \A u \in U : u.of \in DOMAIN program /\ u.of # "main"
    OBVIOUS
  <1>4. \A u \in U : Argument(u, key[2]) \in Nat
    BY <1>1 DEF Argument
  <1>5. \A u \in U : KeyOf(u, key[2]) \in Key(program) /\ KeyOf(u, key[2])[1] # "main"
    BY <1>3, <1>4 DEF KeyOf, Key
  <1> HIDE DEF U
  <1>6. Len(UsesOf(program, key)) \in Nat /\ \A i \in 1 .. Len(UsesOf(program, key)) : UsesOf(program, key)[i] \in U
    BY <1>2
  <1> QED BY <1>5, <1>6

LEMMA FrameTypes ==
  ASSUME SpecTypes
  PROVE  /\ Len(frames) \in Nat
         /\ \A i \in 1 .. Len(frames) : /\ frames[i] \in Frame(program) /\ frames[i].key \in Key(program)
                                        /\ frames[i].at \in Nat \ {0} /\ frames[i].before \in Nat
  <1>1. Len(frames) \in Nat /\ \A i \in 1 .. Len(frames) : frames[i] \in Frame(program)
    BY DEF SpecTypes
  <1>2. \A f \in Frame(program) : f.key \in Key(program) /\ f.at \in Nat \ {0} /\ f.before \in Nat
    BY DEF Frame
  <1> QED BY <1>1, <1>2

(* What the frame on top asks for.                                         *)
LEMMA AskedTypes ==
  ASSUME SpecTypes, Asking
  PROVE  /\ Len(frames) > 0 /\ Top = frames[Len(frames)] /\ Len(frames) \in 1 .. Len(frames)
         /\ Top.at \in 1 .. Len(UsesOf(program, Top.key))
         /\ Asked = KeyOf(UsesOf(program, Top.key)[Top.at], Top.key[2])
         /\ Asked \in Key(program) /\ Asked[1] # "main"
         /\ Wanted \in Key(program) /\ Wanted[1] # "main"
  <1>1. Len(frames) > 0 /\ Len(frames) \in 1 .. Len(frames) /\ Top = frames[Len(frames)]
    <2>1. frames # << >> /\ frames \in Seq(Frame(program))
      BY DEF Asking, SpecTypes
    <2> QED BY <2>1 DEF Top
  <1>2. Top.key \in Key(program) /\ Top.at \in Nat \ {0} /\ WellFormed(program)
    BY <1>1, FrameTypes DEF SpecTypes
  <1>3. Top.at <= Len(UsesOf(program, Top.key)) /\ Len(UsesOf(program, Top.key)) \in Nat
    BY <1>2, OfProgram, UseTypes DEF Asking
  <1>4. Top.at \in 1 .. Len(UsesOf(program, Top.key))
    BY <1>2, <1>3
  <1>5. Asked = KeyOf(UsesOf(program, Top.key)[Top.at], Top.key[2])
    BY OfProgram DEF Asked
  <1>6. Asked \in Key(program) /\ Asked[1] # "main"
    BY <1>2, <1>4, <1>5, UseTypes
  <1>7. Wanted \in Key(program) /\ Wanted[1] # "main"
    <2>1. CASE NeedsOwner(Asked)
      <3>1. Wanted = OwnerOf(program, Asked) /\ KindOf(program, Asked) = "method"
        BY <2>1, OfProgram DEF Wanted, NeedsOwner
      <3> QED BY <1>2, <1>6, <3>1 DEF Key, WellFormed, OwnerOf, KindOf
    <2>2. CASE ~ NeedsOwner(Asked)
      BY <1>6, <2>2 DEF Wanted
    <2> QED BY <2>1, <2>2
  <1> QED BY <1>1, <1>4, <1>5, <1>6, <1>7

LEMMA PrefixElements ==
  ASSUME NEW S, NEW s \in Seq(S), NEW n \in 0 .. Len(s)
  PROVE  SubSeq(s, 1, n) \in Seq(S) /\ Len(SubSeq(s, 1, n)) = n /\ \A i \in 1 .. n : SubSeq(s, 1, n)[i] = s[i]
  OBVIOUS

LEMMA FrontElements ==
  ASSUME NEW S, NEW s \in Seq(S), Len(s) > 0
  PROVE  Front(s) \in Seq(S) /\ Len(Front(s)) = Len(s) - 1 /\ \A i \in 1 .. Len(s) - 1 : Front(s)[i] = s[i]
  <1>1. Front(s) = SubSeq(s, 1, Len(s) - 1)
    BY DEF Front
  <1>2. Len(s) - 1 \in 0 .. Len(s)
    OBVIOUS
  <1> QED BY <1>1, <1>2, PrefixElements

-----------------------------------------------------------------------------
(* The steps. *)

LEMMA BelowElements ==
  ASSUME SpecTypes, Asking, NEW s, s = Below
  PROVE  /\ s \in Seq(Frame(program)) /\ Len(s) = Len(frames)
         /\ \A i \in 1 .. Len(frames) : /\ s[i].key = frames[i].key /\ s[i].before = frames[i].before
                                        /\ i # Len(frames) => s[i].at = frames[i].at
                                        /\ s[i].at <= Len(UsesOf(program, frames[i].key)) + 1
         /\ s[Len(frames)].at = Top.at + 1
  <1> DEFINE n == Len(frames)  f == [Top EXCEPT !.at = Top.at + 1]
  <1>1. /\ n \in 1 .. n /\ Top = frames[n] /\ frames \in Seq(Frame(program)) /\ Top.at \in Nat \ {0} /\ n \in Nat
        /\ Top.at + 1 <= Len(UsesOf(program, Top.key)) + 1 /\ Top \in Frame(program)
    <2>1. n \in 1 .. n /\ Top = frames[n] /\ Top.at \in 1 .. Len(UsesOf(program, Top.key))
      BY AskedTypes
    <2>2. Top \in Frame(program) /\ Top.at \in Nat \ {0} /\ frames \in Seq(Frame(program)) /\ n \in Nat
      BY <2>1, FrameTypes DEF SpecTypes
    <2>3. Len(UsesOf(program, Top.key)) \in Nat
      BY <2>2, UseTypes DEF SpecTypes, Frame
    <2> QED BY <2>1, <2>2, <2>3
  <1>2. s = [frames EXCEPT ![n] = f]
    BY <1>1 DEF Below
  <1>3. f \in Frame(program) /\ f.key = Top.key /\ f.before = Top.before /\ f.at = Top.at + 1
    BY <1>1 DEF Frame
  <1> HIDE DEF f
  <1>4. s \in Seq(Frame(program)) /\ Len(s) = n
    BY <1>1, <1>2, <1>3
  <1>5. s[n] = f /\ \A i \in 1 .. n : i # n => s[i] = frames[i]
    BY <1>1, <1>2
  <1>6. \A i \in 1 .. n : /\ frames[i].at \in Nat \ {0}
                          /\ frames[i].at <= Len(UsesOf(program, frames[i].key)) + 1
    BY FrameTypes DEF SpecTypes
  <1>7. f.at \in Nat \ {0}
    BY <1>1, <1>3
  <1> HIDE DEF n
  <1>8. ASSUME NEW i \in 1 .. n
        PROVE  /\ s[i].key = frames[i].key /\ s[i].before = frames[i].before
               /\ i # n => s[i].at = frames[i].at
               /\ s[i].at <= Len(UsesOf(program, frames[i].key)) + 1
    <2>1. CASE i = n
      BY <1>1, <1>3, <1>5, <1>7, <2>1
    <2>2. CASE i # n
      BY <1>5, <1>6, <2>2
    <2> QED BY <2>1, <2>2
  <1> QED BY <1>3, <1>4, <1>5, <1>8 DEF n

LEMMA MetMore ==
  ASSUME NEW p, NEW known, NEW more, NEW key, NEW n \in Nat, Met(p, known, key, n), known \subseteq more
  PROVE  Met(p, more, key, n) /\ (InPlace(p, more, KeyOf(UsesOf(p, key)[n + 1], key[2])) => Met(p, more, key, n + 1))
  <1>1. Met(p, more, key, n)
    BY DEF Met, InPlace
  <1>2. ASSUME InPlace(p, more, KeyOf(UsesOf(p, key)[n + 1], key[2])) PROVE Met(p, more, key, n + 1)
    <2>1. \A i \in 1 .. n + 1 : i \in 1 .. n \/ i = n + 1
      OBVIOUS
    <2> QED BY <1>1, <1>2, <2>1 DEF Met
  <1> QED BY <1>1, <1>2

(* The use on top is passed, in an error or in place.                      *)
LEMMA PassInv ==
  ASSUME SpecInv, Asking, frames' = Below, UNCHANGED <<program, specs>>,
         error_count' \in Nat, error_count' >= error_count,
         error_count' = 0 => InPlace(program, DOMAIN specs, Asked)
  PROVE  SpecInv'
  <1> DEFINE n == Len(frames)
  <1>1. /\ SpecTypes /\ FramesAreChecking /\ ErrorsAreKept /\ PassedIsMet /\ DepthIsBounded
        /\ n \in Nat /\ n > 0 /\ error_count \in Nat
    BY AskedTypes, FrameTypes DEF SpecInv, SpecTypes
  <1>2. /\ frames' \in Seq(Frame(program)) /\ Len(frames') = n
        /\ \A i \in 1 .. n : /\ frames'[i].key = frames[i].key /\ frames'[i].before = frames[i].before
                             /\ i # n => frames'[i].at = frames[i].at
                             /\ frames'[i].at <= Len(UsesOf(program, frames[i].key)) + 1
        /\ frames'[n].at = Top.at + 1
    BY <1>1, BelowElements
  <1>3. SpecTypes'
    <2>1. \A i \in 1 .. n : frames'[i].at <= Len(UsesOf(program, frames'[i].key)) + 1
      BY <1>2
    <2>2. WellFormed(program') /\ program' = program /\ specs' = specs
      BY <1>1 DEF SpecTypes
    <2> QED BY <1>1, <1>2, <2>1, <2>2 DEF SpecTypes
  <1>4. FramesAreChecking'
    <2>1. \A i \in 1 .. n : frames'[i].key = frames[i].key
      BY <1>2
    <2>2. \A i \in 2 .. n : i \in 1 .. n
      OBVIOUS
    <2>3. 1 \in 1 .. n
      BY <1>1
    <2>4. Len(frames') = Len(frames) /\ specs' = specs
      BY <1>2
    <2> QED BY <1>1, <2>1, <2>2, <2>3, <2>4 DEF FramesAreChecking
  <1>5. ErrorsAreKept'
    <2>1. \A i \in 1 .. n : frames'[i].before <= error_count'
      <3> SUFFICES ASSUME NEW i \in 1 .. n PROVE frames'[i].before <= error_count'
        OBVIOUS
      <3>1. frames[i].before \in Nat /\ frames[i].before <= error_count
        BY <1>1, FrameTypes DEF ErrorsAreKept
      <3> QED BY <1>1, <1>2, <3>1
    <2>2. \A key \in DOMAIN specs : specs[key] = "invalid" => error_count' > 0
      BY <1>1 DEF ErrorsAreKept
    <2> QED BY <1>2, <2>1, <2>2 DEF ErrorsAreKept
  <1>6. PassedIsMet'
    <2>1. error_count' = 0 => error_count = 0
      BY <1>1
    <2>2. ASSUME error_count' = 0, NEW i \in 1 .. n PROVE Met(program, DOMAIN specs, frames'[i].key, frames'[i].at - 1)
      <3>1. Met(program, DOMAIN specs, frames[i].key, frames[i].at - 1)
        BY <1>1, <2>1, <2>2 DEF PassedIsMet
      <3>2. CASE i # n
        BY <1>2, <3>1, <3>2
      <3>3. CASE i = n
        <4> DEFINE m == Top.at - 1
        <4>1. Top = frames[i] /\ Top.at \in Nat \ {0}
          BY <1>1, <3>3, AskedTypes, FrameTypes
        <4>2. InPlace(program, DOMAIN specs, KeyOf(UsesOf(program, Top.key)[Top.at], Top.key[2]))
          BY <1>1, <2>2, AskedTypes
        <4>3. m \in Nat /\ m + 1 = Top.at /\ frames'[i].at - 1 = m + 1
          BY SMTT(40), <1>2, <3>3, <4>1
        <4>4. Met(program, DOMAIN specs, Top.key, m)
          BY <3>1, <4>1
        <4> HIDE DEF m
        <4>5. Met(program, DOMAIN specs, Top.key, m + 1)
          BY <4>2, <4>3, <4>4, MetMore
        <4> QED BY <1>2, <4>1, <4>3, <4>5
      <3> QED BY <3>2, <3>3
    <2>3. frames' # << >>
      BY <1>1, <1>2
    <2> QED BY <1>1, <1>2, <2>1, <2>2, <2>3 DEF PassedIsMet
  <1>7. DepthIsBounded'
    <2>1. ASSUME NEW t PROVE FramesOf(t)' = FramesOf(t)
      BY <1>2 DEF FramesOf
    <2> QED BY <1>1, <2>1 DEF DepthIsBounded
  <1> QED BY <1>3, <1>4, <1>5, <1>6, <1>7 DEF SpecInv

LEMMA FramesOfFinite == ASSUME Len(frames) \in Nat, NEW t PROVE IsFiniteSet(FramesOf(t)) /\ Cardinality(FramesOf(t)) \in Nat
  <1>1. IsFiniteSet(1 .. Len(frames))
    BY FS_Interval
  <1>2. FramesOf(t) \subseteq 1 .. Len(frames)
    BY DEF FramesOf
  <1> QED BY <1>1, <1>2, FS_Subset, FS_CardinalityType

(* A new specialisation, not known yet, within the limit when there is one. *)
LEMMA EnterInv ==
  ASSUME SpecInv, Asking, Enter, Wanted \notin DOMAIN specs, satisfies_constraint(Wanted),
         Kind(Wanted) \in {"function", "struct"} => active_depth(Wanted) < Limit
  PROVE  SpecInv'
  <1> DEFINE n == Len(frames)
             base == IF NeedsOwner(Asked) THEN frames ELSE Below
             new == [key |-> Wanted, at |-> 1, before |-> error_count]
             known == DOMAIN specs \cup {Wanted}
  <1>1. /\ SpecTypes /\ FramesAreChecking /\ ErrorsAreKept /\ PassedIsMet /\ DepthIsBounded /\ WellFormed(program)
        /\ n \in Nat /\ n > 0 /\ error_count \in Nat /\ Wanted \in Key(program) /\ Wanted[1] # "main"
    BY AskedTypes, FrameTypes DEF SpecInv, SpecTypes
  <1>2. /\ specs' = [key \in known |-> IF key = Wanted THEN "checking" ELSE specs[key]]
        /\ frames' = Append(base, new) /\ program' = program /\ error_count' = error_count
    BY DEF Enter
  <1>3. /\ base \in Seq(Frame(program)) /\ Len(base) = n
        /\ \A i \in 1 .. n : base[i].key = frames[i].key /\ base[i].before = frames[i].before
        /\ \A i \in 1 .. n : base[i].at <= Len(UsesOf(program, frames[i].key)) + 1
    <2>1. CASE NeedsOwner(Asked)
      BY <1>1, <2>1 DEF SpecTypes
    <2>2. CASE ~ NeedsOwner(Asked)
      BY <1>1, <2>2, BelowElements
    <2> QED BY <2>1, <2>2
  <1>4. error_count = 0 => \A i \in 1 .. n : Met(program, known, base[i].key, base[i].at - 1)
    <2> SUFFICES ASSUME error_count = 0, NEW i \in 1 .. n PROVE Met(program, known, base[i].key, base[i].at - 1)
      OBVIOUS
    <2>1. frames[i].at - 1 \in Nat
      BY <1>1, FrameTypes
    <2>2. Met(program, DOMAIN specs, frames[i].key, frames[i].at - 1)
      BY <1>1 DEF PassedIsMet
    <2>3. Met(program, known, frames[i].key, frames[i].at - 1)
      BY <2>1, <2>2, MetMore
    <2>4. CASE NeedsOwner(Asked) \/ i # n
      <3>1. base[i].at = frames[i].at /\ base[i].key = frames[i].key
        BY <1>1, <1>3, <2>4, BelowElements
      <3> QED BY <2>3, <3>1
    <2>5. CASE ~ NeedsOwner(Asked) /\ i = n
      <3> DEFINE m == Top.at - 1
      <3>1. Top = frames[i] /\ Top.at \in Nat \ {0} /\ base[i].at = Top.at + 1
        BY <1>1, <2>5, AskedTypes, FrameTypes, BelowElements
      <3>2. Asked = Wanted /\ Asked = KeyOf(UsesOf(program, Top.key)[Top.at], Top.key[2])
        BY <1>1, <2>5, AskedTypes DEF Wanted
      <3>3. InPlace(program, known, Asked)
        <4>1. Kind(Asked) = "method" => Owner(Asked) \in DOMAIN specs
          BY <2>5 DEF NeedsOwner
        <4> QED BY <3>2, <4>1, OfProgram DEF InPlace
      <3>4. m \in Nat /\ m + 1 = Top.at /\ base[i].at - 1 = m + 1
        BY <3>1
      <3>5. Met(program, DOMAIN specs, Top.key, m) /\ InPlace(program, known, KeyOf(UsesOf(program, Top.key)[m + 1], Top.key[2]))
        BY <2>2, <3>1, <3>2, <3>3, <3>4
      <3>6. base[i].key = Top.key
        BY <1>3, <3>1
      <3> HIDE DEF m, known, base
      <3>7. DOMAIN specs \subseteq known
        BY DEF known
      <3>8. Met(program, known, Top.key, m + 1)
        BY <3>4, <3>5, <3>7, MetMore
      <3> QED BY <3>4, <3>6, <3>8
    <2> QED BY <2>4, <2>5
  <1>5. new \in Frame(program) /\ new.key = Wanted /\ new.at = 1 /\ new.before = error_count
    BY <1>1 DEF Frame
  <1> HIDE DEF base, new
  <1>6. /\ frames' \in Seq(Frame(program)) /\ Len(frames') = n + 1 /\ frames'[n + 1] = new
        /\ \A i \in 1 .. n : frames'[i] = base[i]
        /\ \A i \in 1 .. n + 1 : i \in 1 .. n \/ i = n + 1
    BY <1>1, <1>2, <1>3, <1>5
  <1>7. /\ DOMAIN specs' = known /\ specs'[Wanted] = "checking" /\ Wanted \in known
        /\ \A key \in DOMAIN specs : key \in known /\ key # Wanted /\ specs'[key] = specs[key]
        /\ \A key \in known : key \in DOMAIN specs \/ key = Wanted
    BY <1>2
  <1> HIDE DEF known
  <1>8. \A i \in 1 .. n : frames'[i].key = frames[i].key /\ frames'[i].before = frames[i].before
    BY <1>3, <1>6
  <1>9. SpecTypes'
    <2>1. \A i \in 1 .. n + 1 : frames'[i].at <= Len(UsesOf(program, frames'[i].key)) + 1
      <3>1. Len(UsesOf(program, Wanted)) \in Nat
        BY <1>1, UseTypes
      <3>2. frames'[n + 1].at <= Len(UsesOf(program, frames'[n + 1].key)) + 1
        BY <1>5, <1>6, <3>1
      <3> QED BY <1>3, <1>6, <1>8, <3>2
    <2>2. specs' \in [DOMAIN specs' -> {"checking", "valid", "invalid"}]
      BY <1>1, <1>2, <1>7 DEF SpecTypes
    <2>3. DOMAIN specs' \subseteq Key(program)
      BY <1>1, <1>7 DEF SpecTypes
    <2>4. error_count' \in Nat /\ WellFormed(program')
      BY <1>1, <1>2
    <2> QED BY <1>2, <1>6, <2>1, <2>2, <2>3, <2>4 DEF SpecTypes
  <1>10. FramesAreChecking'
    <2>1. Len(frames') > 0 => frames'[1].key = Main
      BY <1>1, <1>8 DEF FramesAreChecking
    <2>2. \A i \in 2 .. n + 1 : (i \in 2 .. n /\ frames'[i].key = frames[i].key) \/ (i = n + 1 /\ frames'[i].key = Wanted)
      BY <1>1, <1>5, <1>6, <1>8
    <2>3. \A i \in 2 .. n : frames[i].key \in DOMAIN specs /\ specs[frames[i].key] = "checking"
      BY <1>1 DEF FramesAreChecking
    <2>4. \A i \in 2 .. n + 1 : frames'[i].key \in DOMAIN specs' /\ specs'[frames'[i].key] = "checking"
      BY <1>7, <2>2, <2>3
    <2>5. \A i, j \in 2 .. n + 1 : i # j => frames'[i].key # frames'[j].key
      <3>1. \A i, j \in 2 .. n : i # j => frames[i].key # frames[j].key
        BY <1>1 DEF FramesAreChecking
      <3>2. \A i \in 2 .. n : frames[i].key # Wanted
        BY <1>7, <2>3
      <3> QED BY <2>2, <3>1, <3>2
    <2>6. n + 1 \in 2 .. n + 1 /\ \A i \in 2 .. n : i \in 2 .. n + 1 /\ i \in 1 .. n
      BY <1>1
    <2>7. \A key \in known : specs'[key] = "checking" => \E i \in 2 .. n + 1 : frames'[i].key = key
      <3> SUFFICES ASSUME NEW key \in known, specs'[key] = "checking" PROVE \E i \in 2 .. n + 1 : frames'[i].key = key
        OBVIOUS
      <3>1. CASE key = Wanted
        BY <1>5, <1>6, <2>6, <3>1
      <3>2. CASE key # Wanted
        <4>1. PICK i \in 2 .. n : frames[i].key = key
          BY <1>1, <1>7, <3>2 DEF FramesAreChecking
        <4> QED BY <1>8, <2>6, <4>1
      <3> QED BY <3>1, <3>2
    <2> QED BY <1>6, <1>7, <2>1, <2>4, <2>5, <2>7 DEF FramesAreChecking
  <1>11. ErrorsAreKept'
    <2>1. \A i \in 1 .. n + 1 : frames'[i].before <= error_count
      <3>1. error_count <= error_count
        BY <1>1
      <3> QED BY <1>1, <1>5, <1>6, <1>8, <3>1 DEF ErrorsAreKept
    <2>2. \A key \in known : specs'[key] = "invalid" => error_count > 0
      BY <1>1, <1>7 DEF ErrorsAreKept
    <2> QED BY <1>2, <1>6, <1>7, <2>1, <2>2 DEF ErrorsAreKept
  <1>12. PassedIsMet'
    <2>1. \A key \in known : ~ Faulty(program, key, "constraint")
      <3>1. ~ Faulty(program, Wanted, "constraint")
        BY OfProgram DEF satisfies_constraint
      <3> QED BY <1>1, <1>7, <3>1 DEF PassedIsMet
    <2>2. ASSUME error_count = 0, NEW i \in 1 .. n + 1 PROVE Met(program, known, frames'[i].key, frames'[i].at - 1)
      <3>1. CASE i = n + 1
        <4>1. frames'[i].at - 1 = 0
          BY <1>5, <1>6, <3>1
        <4> QED BY <4>1 DEF Met
      <3>2. CASE i # n + 1
        BY <1>4, <1>6, <2>2, <3>2
      <3> QED BY <3>1, <3>2
    <2>3. frames' # << >>
      BY <1>1, <1>6
    <2>4. ASSUME error_count = 0, NEW key \in known, specs'[key] = "valid"
          PROVE  /\ Met(program, known, key, Len(UsesOf(program, key)))
                 /\ ~ Faulty(program, key, "signature") /\ ~ Faulty(program, key, "body")
      <3>1. key \in DOMAIN specs /\ specs[key] = "valid" /\ key \in Key(program) /\ DOMAIN specs \subseteq known
        BY <1>1, <1>7, <2>4 DEF SpecTypes
      <3>2. /\ Met(program, DOMAIN specs, key, Len(UsesOf(program, key)))
            /\ ~ Faulty(program, key, "signature") /\ ~ Faulty(program, key, "body")
        BY <1>1, <2>4, <3>1 DEF PassedIsMet
      <3>3. Len(UsesOf(program, key)) \in Nat
        BY <1>1, <3>1, UseTypes
      <3> QED BY <3>1, <3>2, <3>3, MetMore
    <2> QED BY <1>2, <1>6, <1>7, <2>1, <2>2, <2>3, <2>4 DEF PassedIsMet
  <1>13. DepthIsBounded'
    <2> SUFFICES ASSUME NEW t \in DOMAIN program, program[t].kind \in {"function", "struct"}
                 PROVE  Cardinality(FramesOf(t)') <= Limit
      BY <1>2 DEF DepthIsBounded
    <2>1. FramesOf(t)' = {i \in 1 .. n + 1 : frames'[i].key[1] = t}
      BY <1>6 DEF FramesOf
    <2>2. Cardinality(FramesOf(t)) <= Limit /\ IsFiniteSet(FramesOf(t)) /\ Cardinality(FramesOf(t)) \in Nat
      BY <1>1, FramesOfFinite DEF DepthIsBounded
    <2>3. \A i \in 1 .. n : i \in 1 .. n + 1
      BY <1>1
    <2>4. n + 1 \in 1 .. n + 1 /\ n + 1 \notin 1 .. n
      BY <1>1
    <2>5. CASE t # Wanted[1]
      <3>1. FramesOf(t)' = FramesOf(t)
        BY <1>5, <1>6, <1>8, <2>1, <2>3, <2>5 DEF FramesOf
      <3> QED BY <2>2, <3>1
    <2>6. CASE t = Wanted[1]
      <3>1. FramesOf(t)' = FramesOf(t) \cup {n + 1}
        BY <1>5, <1>6, <1>8, <2>1, <2>3, <2>4, <2>6 DEF FramesOf
      <3>2. n + 1 \notin FramesOf(t)
        BY <2>4 DEF FramesOf
      <3>3. Cardinality(FramesOf(t)') = Cardinality(FramesOf(t)) + 1
        BY <2>2, <3>1, <3>2, FS_AddElement
      <3>4. active_depth(Wanted) < Limit
        BY <2>6 DEF Kind
      <3>5. active_depth(Wanted) = Cardinality(FramesOf(t))
        <4>1. DOMAIN frames = 1 .. n
          BY <1>1 DEF SpecTypes
        <4>2. {i \in Active(Kind(Wanted), frames) : frames[i].key[1] = Wanted[1]} = FramesOf(t)
          BY <2>6, <4>1 DEF Active, Kind, FramesOf
        <4> QED BY <4>2 DEF active_depth
      <3>6. Limit \in Nat
        BY LimitAssumption
      <3> QED BY <2>2, <3>3, <3>4, <3>5, <3>6
    <2> QED BY <2>5, <2>6
  <1> QED BY <1>9, <1>10, <1>11, <1>12, <1>13 DEF SpecInv

LEMMA LeaveInv == ASSUME SpecInv, LeaveTemplate PROVE SpecInv'
  <1> DEFINE n == Len(frames)  key == Top.key
             fault == IF HasFault(key, "signature") \/ (HasFault(key, "body") /\ ~ SignatureFails(Top)) THEN 1 ELSE 0
             errors == error_count + fault
             state == verdict(Top, errors)
  <1>1. /\ SpecTypes /\ FramesAreChecking /\ ErrorsAreKept /\ PassedIsMet /\ DepthIsBounded /\ WellFormed(program)
        /\ n \in Nat /\ n > 1 /\ error_count \in Nat /\ frames \in Seq(Frame(program)) /\ n \in 2 .. n
        /\ Top = frames[n] /\ key \in Key(program) /\ key \in DOMAIN specs /\ specs[key] = "checking"
        /\ Top.before \in Nat /\ Top.before <= error_count /\ Top.at \in Nat \ {0}
    <2>1. SpecTypes /\ FramesAreChecking /\ ErrorsAreKept /\ PassedIsMet /\ DepthIsBounded /\ WellFormed(program)
      BY DEF SpecInv, SpecTypes
    <2>2. n \in Nat /\ n > 1 /\ error_count \in Nat /\ frames \in Seq(Frame(program)) /\ Top = frames[n]
      BY <2>1, FrameTypes DEF SpecTypes, LeaveTemplate, Top
    <2>3. n \in 2 .. n /\ n \in 1 .. n
      BY <2>2
    <2> QED BY <2>1, <2>2, <2>3, FrameTypes DEF FramesAreChecking, ErrorsAreKept
  <1>2. /\ specs' = [specs EXCEPT ![key] = state] /\ frames' = Front(frames) /\ program' = program
        /\ error_count' = errors + complaint(key, state, Front(frames)) /\ ~ Asking
    BY DEF LeaveTemplate
  <1>3. errors \in Nat /\ errors >= error_count /\ error_count' \in Nat /\ error_count' >= errors /\ error_count' >= error_count
    <2>1. fault \in Nat /\ complaint(key, state, Front(frames)) \in Nat
      BY DEF complaint
    <2> QED BY <1>1, <1>2, <2>1
  <1>4. state \in {"valid", "invalid"} /\ (state = "invalid" => errors > 0)
    BY <1>1, <1>3 DEF verdict
  <1>5. frames' \in Seq(Frame(program)) /\ Len(frames') = n - 1 /\ \A i \in 1 .. n - 1 : frames'[i] = frames[i]
    BY <1>1, <1>2, FrontElements
  <1>6. /\ DOMAIN specs' = DOMAIN specs /\ specs'[key] = state
        /\ \A k \in DOMAIN specs : k # key => specs'[k] = specs[k]
        /\ specs' \in [DOMAIN specs -> {"checking", "valid", "invalid"}]
    <2>1. specs \in [DOMAIN specs -> {"checking", "valid", "invalid"}]
      BY <1>1 DEF SpecTypes
    <2> HIDE DEF state
    <2> QED BY <1>1, <1>2, <1>4, <2>1
  <1>7. error_count' = 0 =>
          /\ error_count = 0 /\ ~ HasFault(key, "signature") /\ ~ HasFault(key, "body")
          /\ Met(program, DOMAIN specs, key, Len(UsesOf(program, key)))
    <2> SUFFICES ASSUME error_count' = 0
                 PROVE  /\ error_count = 0 /\ ~ HasFault(key, "signature") /\ ~ HasFault(key, "body")
                        /\ Met(program, DOMAIN specs, key, Len(UsesOf(program, key)))
      OBVIOUS
    <2>1. error_count = 0 /\ errors = 0 /\ fault = 0
      BY <1>1, <1>3
    <2>2. ~ HasFault(key, "signature")
      BY <2>1
    <2>3. ~ SignatureFails(Top)
      BY <1>1, <2>1, <2>2 DEF SignatureFails
    <2>4. ~ HasFault(key, "body")
      BY <2>1, <2>3
    <2>5. frames # << >>
      BY <1>1
    <2>6. ~ (Top.at <= Len(UsesOf(program, key)))
      BY <1>2, <2>3, <2>5, OfProgram DEF Asking
    <2>7. Len(UsesOf(program, key)) \in Nat
      BY <1>1, UseTypes
    <2>8. Top.at <= Len(UsesOf(program, key)) + 1
      BY <1>1 DEF SpecTypes
    <2>9. Top.at - 1 = Len(UsesOf(program, key))
      BY <1>1, <2>6, <2>7, <2>8
    <2>10. Met(program, DOMAIN specs, key, Top.at - 1)
      <3>1. n \in 1 .. n
        BY <1>1
      <3> QED BY <1>1, <2>1, <3>1 DEF PassedIsMet
    <2> QED BY <2>1, <2>2, <2>4, <2>9, <2>10
  <1> HIDE DEF errors, state, fault
  <1>8. \A i \in 1 .. n - 1 : i \in 1 .. n
    BY <1>1
  <1>9. SpecTypes'
    <2>1. \A i \in 1 .. n - 1 : frames'[i].at <= Len(UsesOf(program, frames'[i].key)) + 1
      BY <1>1, <1>5, <1>8 DEF SpecTypes
    <2>2. WellFormed(program') /\ DOMAIN specs \subseteq Key(program)
      BY <1>1, <1>2 DEF SpecTypes
    <2> QED BY <1>2, <1>3, <1>5, <1>6, <2>1, <2>2 DEF SpecTypes
  <1>10. FramesAreChecking'
    <2>1. \A i \in 2 .. n - 1 : i \in 2 .. n /\ i # n /\ i \in 1 .. n - 1
      BY <1>1
    <2>2. \A i \in 2 .. n - 1 : frames'[i] = frames[i] /\ frames[i].key # key
      BY <1>1, <1>5, <2>1 DEF FramesAreChecking
    <2>3. Len(frames') > 0 => frames'[1].key = Main
      BY <1>1, <1>5 DEF FramesAreChecking
    <2>4. \A i \in 2 .. n - 1 : frames'[i].key \in DOMAIN specs' /\ specs'[frames'[i].key] = "checking"
      <3>1. \A i \in 2 .. n : frames[i].key \in DOMAIN specs /\ specs[frames[i].key] = "checking"
        BY <1>1 DEF FramesAreChecking
      <3> QED BY <1>6, <2>1, <2>2, <3>1
    <2>5. \A i, j \in 2 .. n - 1 : i # j => frames'[i].key # frames'[j].key
      <3>1. \A i, j \in 2 .. n : i # j => frames[i].key # frames[j].key
        BY <1>1 DEF FramesAreChecking
      <3> QED BY <2>1, <2>2, <3>1
    <2>6. ASSUME NEW k \in DOMAIN specs, specs'[k] = "checking" PROVE \E i \in 2 .. n - 1 : frames'[i].key = k
      <3>1. k # key
        BY <1>4, <1>6, <2>6
      <3>2. PICK i \in 2 .. n : frames[i].key = k
        BY <1>1, <1>6, <2>6, <3>1 DEF FramesAreChecking
      <3>3. i # n /\ i \in 2 .. n - 1
        BY <1>1, <3>1, <3>2
      <3> QED BY <2>2, <3>2, <3>3
    <2> QED BY <1>5, <1>6, <2>3, <2>4, <2>5, <2>6 DEF FramesAreChecking
  <1>11. ErrorsAreKept'
    <2>1. ASSUME NEW i \in 1 .. n - 1 PROVE frames'[i].before <= error_count'
      <3>1. frames[i].before \in Nat /\ frames[i].before <= error_count /\ frames'[i] = frames[i]
        BY <1>1, <1>5, <1>8, FrameTypes DEF ErrorsAreKept
      <3> QED BY <1>1, <1>3, <3>1
    <2>2. ASSUME NEW k \in DOMAIN specs, specs'[k] = "invalid" PROVE error_count' > 0
      <3>1. CASE k = key
        BY <1>3, <1>4, <1>6, <2>2, <3>1
      <3>2. CASE k # key
        <4>1. error_count > 0
          BY <1>1, <1>6, <2>2, <3>2 DEF ErrorsAreKept
        <4> QED BY <1>1, <1>3, <4>1
      <3> QED BY <3>1, <3>2
    <2> QED BY <1>5, <1>6, <2>1, <2>2 DEF ErrorsAreKept
  <1>12. PassedIsMet'
    <2>1. \A k \in DOMAIN specs : ~ Faulty(program, k, "constraint")
      BY <1>1 DEF PassedIsMet
    <2>2. frames' # << >>
      BY <1>1, <1>5
    <2>3. ASSUME error_count' = 0, NEW i \in 1 .. n - 1 PROVE Met(program, DOMAIN specs, frames'[i].key, frames'[i].at - 1)
      BY <1>1, <1>5, <1>7, <1>8, <2>3 DEF PassedIsMet
    <2>4. ASSUME error_count' = 0, NEW k \in DOMAIN specs, specs'[k] = "valid"
          PROVE  /\ Met(program, DOMAIN specs, k, Len(UsesOf(program, k)))
                 /\ ~ Faulty(program, k, "signature") /\ ~ Faulty(program, k, "body")
      <3>1. CASE k = key
        BY <1>7, <2>4, <3>1, OfProgram
      <3>2. CASE k # key
        BY <1>1, <1>6, <1>7, <2>4, <3>2 DEF PassedIsMet
      <3> QED BY <3>1, <3>2
    <2> QED BY <1>2, <1>5, <1>6, <2>1, <2>2, <2>3, <2>4 DEF PassedIsMet
  <1>13. DepthIsBounded'
    <2> SUFFICES ASSUME NEW t \in DOMAIN program, program[t].kind \in {"function", "struct"}
                 PROVE  Cardinality(FramesOf(t)') <= Limit
      BY <1>2 DEF DepthIsBounded
    <2>1. FramesOf(t)' \subseteq FramesOf(t)
      <3>1. FramesOf(t)' = {i \in 1 .. n - 1 : frames'[i].key[1] = t}
        BY <1>5 DEF FramesOf
      <3> QED BY <1>5, <1>8, <3>1 DEF FramesOf
    <2>2. Cardinality(FramesOf(t)) <= Limit /\ IsFiniteSet(FramesOf(t)) /\ Cardinality(FramesOf(t)) \in Nat
      BY <1>1, FramesOfFinite DEF DepthIsBounded
    <2> DEFINE less == FramesOf(t)'  more == FramesOf(t)
    <2>3. less \subseteq more /\ IsFiniteSet(more) /\ Cardinality(more) \in Nat /\ Cardinality(more) <= Limit /\ Limit \in Nat
      BY <2>1, <2>2, LimitAssumption
    <2> HIDE DEF less, more
    <2>4. IsFiniteSet(less) /\ Cardinality(less) <= Cardinality(more)
      BY <2>3, FS_Subset
    <2>5. Cardinality(less) \in Nat
      BY <2>4, FS_CardinalityType
    <2>6. Cardinality(less) <= Limit
      BY <2>3, <2>4, <2>5
    <2> QED BY <2>6 DEF less
  <1> QED BY <1>9, <1>10, <1>11, <1>12, <1>13 DEF SpecInv

LEMMA FinishInv == ASSUME SpecInv, Finish PROVE SpecInv'
  <1>1. /\ SpecTypes /\ FramesAreChecking /\ ErrorsAreKept /\ PassedIsMet /\ WellFormed(program) /\ error_count \in Nat
        /\ Len(frames) = 1 /\ Top = frames[1] /\ Top.key = Main /\ Main \in Key(program) /\ Top.before \in Nat
        /\ Top.at \in Nat \ {0} /\ 1 \in 1 .. Len(frames)
    <2>1. Len(frames) = 1 /\ 1 \in 1 .. Len(frames) /\ Top = frames[1]
      BY DEF Finish, Top
    <2>2. SpecTypes /\ FramesAreChecking /\ ErrorsAreKept /\ PassedIsMet /\ WellFormed(program) /\ error_count \in Nat
      BY DEF SpecInv, SpecTypes
    <2>3. Top.key = Main
      BY <2>1, <2>2 DEF FramesAreChecking
    <2> QED BY <2>1, <2>2, <2>3, FrameTypes
  <1>2. frames' = << >> /\ UNCHANGED <<program, specs, error_count>> /\ ~ Asking /\ Len(frames') = 0
    BY DEF Finish
  <1>3. error_count = 0 => Met(program, DOMAIN specs, Main, Len(UsesOf(program, Main)))
    <2> SUFFICES ASSUME error_count = 0 PROVE Met(program, DOMAIN specs, Main, Len(UsesOf(program, Main)))
      OBVIOUS
    <2>1. ~ HasFault(Main, "signature")
      <3>1. program["main"].fault.where # "signature" /\ Main[1] = "main"
        BY <1>1 DEF WellFormed, Main
      <3> QED BY <3>1 DEF HasFault
    <2>2. ~ SignatureFails(Top)
      BY <1>1, <2>1 DEF SignatureFails
    <2>3. ~ (Top.at <= Len(UsesOf(program, Main)))
      <3>1. frames # << >>
        BY DEF Finish
      <3> QED BY <1>1, <1>2, <2>2, <3>1, OfProgram DEF Asking
    <2>4. Top.at <= Len(UsesOf(program, Main)) + 1 /\ Len(UsesOf(program, Main)) \in Nat
      BY <1>1, UseTypes DEF SpecTypes
    <2>5. Top.at - 1 = Len(UsesOf(program, Main))
      BY <1>1, <2>3, <2>4
    <2>6. Met(program, DOMAIN specs, Main, Top.at - 1)
      BY <1>1 DEF PassedIsMet
    <2> QED BY <2>5, <2>6
  <1>4. SpecTypes'
    <2>1. frames' \in Seq(Frame(program))
      BY <1>2
    <2> QED BY <1>1, <1>2, <2>1 DEF SpecTypes
  <1>5. FramesAreChecking'
    <2>1. \A key \in DOMAIN specs : specs[key] # "checking"
      BY <1>1 DEF FramesAreChecking
    <2> QED BY <1>2, <2>1 DEF FramesAreChecking
  <1>6. ErrorsAreKept'
    BY <1>1, <1>2 DEF ErrorsAreKept
  <1>7. PassedIsMet'
    BY <1>1, <1>2, <1>3 DEF PassedIsMet
  <1>8. DepthIsBounded'
    <2>1. ASSUME NEW t PROVE Cardinality(FramesOf(t)') <= Limit
      <3>1. FramesOf(t)' = {}
        BY <1>2 DEF FramesOf
      <3> QED BY <3>1, FS_EmptySet, LimitAssumption
    <2> QED BY <2>1 DEF DepthIsBounded
  <1> QED BY <1>4, <1>5, <1>6, <1>7, <1>8 DEF SpecInv

LEMMA InitInv == ASSUME SpecializationInit PROVE SpecInv
  <1>1. WellFormed(program) /\ error_count = 0
    BY ProgramsAssumption DEF SpecializationInit
  <1> DEFINE first == [key |-> Main, at |-> 1, before |-> 0]
  <1>2. frames = <<first>> /\ specs = << >> /\ DOMAIN specs = {}
    BY DEF SpecializationInit, Main
  <1>3. first \in Frame(program) /\ first.key = Main /\ first.at = 1 /\ first.before = 0
    BY <1>1 DEF Frame, Key, Main, WellFormed
  <1> HIDE DEF first
  <1>4. frames \in Seq(Frame(program)) /\ Len(frames) = 1 /\ frames[1] = first
    BY <1>2, <1>3
  <1>5. Len(UsesOf(program, Main)) \in Nat
    <2>1. Main \in Key(program)
      BY <1>3 DEF Frame
    <2> QED BY <1>1, <2>1, UseTypes
  <1>6. SpecTypes
    <2>1. \A i \in 1 .. Len(frames) : frames[i].at <= Len(UsesOf(program, frames[i].key)) + 1
      BY <1>3, <1>4, <1>5
    <2>2. specs \in [DOMAIN specs -> {"checking", "valid", "invalid"}]
      BY <1>2
    <2> QED BY <1>1, <1>2, <1>4, <2>1, <2>2 DEF SpecTypes
  <1>7. FramesAreChecking /\ ErrorsAreKept
    BY <1>1, <1>2, <1>3, <1>4 DEF FramesAreChecking, ErrorsAreKept
  <1>8. PassedIsMet
    <2>1. \A i \in 1 .. Len(frames) : frames[i].at - 1 = 0
      BY <1>3, <1>4
    <2>2. frames # << >>
      BY <1>4
    <2> QED BY <1>2, <2>1, <2>2 DEF PassedIsMet, Met
  <1>9. DepthIsBounded
    <2>1. ASSUME NEW t \in DOMAIN program, program[t].kind \in {"function", "struct"} PROVE Cardinality(FramesOf(t)) <= Limit
      <3>1. t # "main"
        BY <1>1, <2>1 DEF WellFormed
      <3>2. FramesOf(t) = {}
        BY <1>3, <1>4, <3>1 DEF FramesOf, Main
      <3> QED BY <3>2, FS_EmptySet, LimitAssumption
    <2> QED BY <2>1 DEF DepthIsBounded
  <1> QED BY <1>6, <1>7, <1>8, <1>9 DEF SpecInv

LEMMA SpecStep == ASSUME SpecInv, [SpecializationNext]_svars PROVE SpecInv'
  <1>1. error_count \in Nat /\ SpecTypes
    BY DEF SpecInv, SpecTypes
  <1>2. CASE RejectArgument
    <2>1. Asking /\ frames' = Below /\ UNCHANGED <<program, specs>> /\ error_count' = error_count + 1
      BY <1>2 DEF RejectArgument
    <2>2. error_count' \in Nat /\ error_count' >= error_count /\ error_count' # 0
      BY <1>1, <2>1
    <2> QED BY <2>1, <2>2, PassInv
  <1>3. CASE UseSpecialization
    <2>1. Asking /\ frames' = Below /\ UNCHANGED <<program, specs>> /\ Wanted \in DOMAIN specs
      BY <1>3 DEF UseSpecialization, find_generic_specialization
    <2>2. error_count' \in Nat /\ error_count' >= error_count
      BY <1>1, <1>3 DEF UseSpecialization, complaint
    <2>3. ~ NeedsOwner(Asked)
      BY <2>1 DEF Wanted, NeedsOwner
    <2>4. InPlace(program, DOMAIN specs, Asked)
      BY <2>1, <2>3, OfProgram DEF Wanted, NeedsOwner, InPlace
    <2> QED BY <2>1, <2>2, <2>4, PassInv
  <1>4. CASE RecursionLimit
    <2>1. Asking /\ frames' = Below /\ UNCHANGED <<program, specs>> /\ error_count' = error_count + 1
      BY <1>4 DEF RecursionLimit, IsNew, limit_error
    <2>2. error_count' \in Nat /\ error_count' >= error_count /\ error_count' # 0
      BY <1>1, <2>1
    <2> QED BY <2>1, <2>2, PassInv
  <1>5. CASE instantiate_generic_function
    BY <1>5, EnterInv DEF instantiate_generic_function, IsNew, find_generic_specialization
  <1>6. CASE instantiate_generic_struct
    BY <1>6, EnterInv DEF instantiate_generic_struct, IsNew, find_generic_specialization
  <1>7. CASE ensure_struct_method_body_checked
    BY <1>7, EnterInv DEF ensure_struct_method_body_checked, IsNew, find_generic_specialization
  <1>8. CASE MethodNotFound
    <2>1. Asking /\ frames' = Below /\ UNCHANGED <<program, specs>>
      BY <1>8 DEF MethodNotFound, IsNew
    <2>2. error_count' \in Nat /\ error_count' >= error_count
      BY <1>1, <1>8 DEF MethodNotFound, complaint
    <2>3. Owner(Wanted) \in DOMAIN specs /\ specs[Owner(Wanted)] = "invalid"
      <3>1. Kind(Wanted) = "method" /\ Wanted \notin DOMAIN specs
        BY <1>8 DEF MethodNotFound, IsNew, find_generic_specialization
      <3>2. ~ NeedsOwner(Asked)
        <4> SUFFICES ASSUME NeedsOwner(Asked) PROVE FALSE
          OBVIOUS
        <4>1. Wanted = OwnerOf(program, Asked) /\ KindOf(program, Asked) = "method" /\ KindOf(program, Wanted) = "method"
          BY <3>1, OfProgram DEF Wanted, NeedsOwner
        <4>2. Asked[1] \in DOMAIN program
          BY <1>1, <2>1, AskedTypes DEF Key
        <4>3. program[program[Asked[1]].owner].kind = "struct"
          BY <1>1, <4>1, <4>2 DEF SpecTypes, WellFormed, KindOf
        <4> QED BY <4>1, <4>3 DEF OwnerOf, KindOf
      <3>3. Owner(Wanted) \in DOMAIN specs
        BY <3>1, <3>2 DEF Wanted, NeedsOwner
      <3> QED BY <1>8, <3>3 DEF MethodNotFound
    <2>4. error_count' # 0
      BY <1>1, <2>2, <2>3 DEF SpecInv, ErrorsAreKept
    <2> QED BY <2>1, <2>2, <2>4, PassInv
  <1>9. CASE UNCHANGED svars
    <2> USE <1>9 DEF svars
    <2>1. SpecTypes' /\ FramesAreChecking' /\ ErrorsAreKept' /\ PassedIsMet'
      BY DEF SpecInv, SpecTypes, FramesAreChecking, ErrorsAreKept, PassedIsMet
    <2>2. DepthIsBounded'
      BY DEF SpecInv, DepthIsBounded, FramesOf
    <2> QED BY <2>1, <2>2 DEF SpecInv
  <1> QED BY <1>2, <1>3, <1>4, <1>5, <1>6, <1>7, <1>8, <1>9, LeaveInv, FinishInv DEF SpecializationNext

-----------------------------------------------------------------------------
(* What it means. *)

(* The frames, the verdicts and the errors fit together in every state.    *)
THEOREM SpecializationInductive == SpecializationSpec => []SpecInv
  <1>1. SpecializationInit => SpecInv
    BY InitInv
  <1>2. SpecInv /\ [SpecializationNext]_svars => SpecInv'
    BY SpecStep
  <1> QED BY <1>1, <1>2, PTL DEF SpecializationSpec

(* find_generic_specialization and its caches: no body is checked twice    *)
(* for the same arguments, after a failure either.                         *)
THEOREM VerdictsArePermanent == SpecializationSpec => VerdictsStay
  <1> DEFINE Stays == \A key \in DOMAIN specs : specs[key] # "checking" => key \in DOMAIN specs' /\ specs'[key] = specs[key]
  <1>1. SpecInv /\ [SpecializationNext]_svars => [Stays]_svars
    <2> SUFFICES ASSUME SpecInv, SpecializationNext PROVE Stays
      OBVIOUS
    <2>1. CASE specs' = specs
      BY <2>1
    <2>2. CASE Enter /\ Wanted \notin DOMAIN specs
      BY <2>2 DEF Enter
    <2>3. CASE LeaveTemplate
      <3>1. \E v : specs' = [specs EXCEPT ![Top.key] = v]
        BY <2>3 DEF LeaveTemplate
      <3>2. Len(frames) \in 2 .. Len(frames) /\ Top = frames[Len(frames)]
        BY <2>3, FrameTypes DEF LeaveTemplate, Top, SpecInv
      <3>3. specs[Top.key] = "checking"
        BY <3>2 DEF SpecInv, FramesAreChecking
      <3> QED BY <3>1, <3>3
    <2>4. \/ specs' = specs \/ (Enter /\ Wanted \notin DOMAIN specs) \/ LeaveTemplate
      BY DEF SpecializationNext, RejectArgument, UseSpecialization, RecursionLimit, instantiate_generic_function,
             instantiate_generic_struct, ensure_struct_method_body_checked, MethodNotFound, Finish,
             IsNew, find_generic_specialization
    <2> QED BY <2>1, <2>2, <2>3, <2>4
  <1>2. VerdictsStay <=> [][Stays]_svars
    BY DEF VerdictsStay
  <1> HIDE DEF Stays
  <1> QED BY <1>1, <1>2, SpecializationInductive, PTL DEF SpecializationSpec

(* An accepted program: every specialisation was checked to its end and    *)
(* found valid and free of faults, and every use of it, and of main, is of *)
(* one that was, together with the struct when it is a method.             *)
Accepted == frames = << >> /\ error_count = 0
AcceptedIsClosed ==
  Accepted =>
    /\ \A key \in DOMAIN specs :
         /\ specs[key] = "valid"
         /\ \A where \in {"constraint", "signature", "body"} : ~ HasFault(key, where)
    /\ \A key \in DOMAIN specs \cup {Main} : \A i \in 1 .. Len(Uses(key)) :
         LET use == KeyOf(Uses(key)[i], key[2]) IN
         use \in DOMAIN specs /\ (Kind(use) = "method" => Owner(use) \in DOMAIN specs)

(* check_generic_call and resolve_generic_struct_application: acceptance   *)
(* is sound for every program and every limit.                             *)
THEOREM AcceptanceIsSound == SpecializationSpec => []AcceptedIsClosed
  <1>1. SpecInv => AcceptedIsClosed
    <2> SUFFICES ASSUME SpecInv, Accepted PROVE AcceptedIsClosed
      BY DEF AcceptedIsClosed
    <2>1. /\ SpecTypes /\ FramesAreChecking /\ ErrorsAreKept /\ PassedIsMet /\ error_count = 0 /\ frames = << >> /\ Len(frames) = 0
      BY DEF SpecInv, Accepted
    <2>2. ASSUME NEW key \in DOMAIN specs PROVE specs[key] = "valid"
      <3>1. specs[key] # "checking"
        BY <2>1 DEF FramesAreChecking
      <3>2. specs[key] # "invalid"
        BY <2>1 DEF ErrorsAreKept
      <3>3. specs[key] \in {"checking", "valid", "invalid"}
        BY <2>1 DEF SpecTypes
      <3> QED BY <3>1, <3>2, <3>3
    <2>3. ASSUME NEW key \in DOMAIN specs, NEW where \in {"constraint", "signature", "body"} PROVE ~ HasFault(key, where)
      BY <2>1, <2>2, OfProgram DEF PassedIsMet
    <2>4. ASSUME NEW key \in DOMAIN specs \cup {Main} PROVE Met(program, DOMAIN specs, key, Len(UsesOf(program, key)))
      BY <2>1, <2>2 DEF PassedIsMet
    <2>5. ASSUME NEW key \in DOMAIN specs \cup {Main}, NEW i \in 1 .. Len(Uses(key))
          PROVE  LET use == KeyOf(Uses(key)[i], key[2]) IN
                 use \in DOMAIN specs /\ (Kind(use) = "method" => Owner(use) \in DOMAIN specs)
      <3> DEFINE use == KeyOf(UsesOf(program, key)[i], key[2])
      <3>1. Uses(key) = UsesOf(program, key)
        BY OfProgram
      <3>2. InPlace(program, DOMAIN specs, use)
        BY <2>4, <3>1 DEF Met
      <3>3. Kind(use) = KindOf(program, use) /\ Owner(use) = OwnerOf(program, use)
        BY OfProgram
      <3> HIDE DEF use
      <3>4. use \in DOMAIN specs /\ (Kind(use) = "method" => Owner(use) \in DOMAIN specs)
        BY <3>2, <3>3 DEF InPlace
      <3> QED BY <3>1, <3>4 DEF use
    <2> QED BY <2>2, <2>3, <2>5 DEF AcceptedIsClosed
  <1> QED BY <1>1, SpecializationInductive, PTL

(* docs/language.md:807, "a recursion that continually creates new         *)
(* concrete type arguments is bounded": true of functions and of structs,  *)
(* whose templates never have more active frames than the limit.           *)
RecursionIsBoundedButForMethods ==
  \A template \in DOMAIN program :
    program[template].kind \in {"function", "struct"} =>
      Cardinality({i \in DOMAIN frames : frames[i].key[1] = template}) <= Limit

(* active_generic_template_depth keeps the analyser's stack bounded.       *)
THEOREM FunctionsAndStructsAreBounded == SpecializationSpec => []RecursionIsBoundedButForMethods
  <1>1. SpecInv => RecursionIsBoundedButForMethods
    <2> SUFFICES ASSUME SpecInv PROVE RecursionIsBoundedButForMethods
      OBVIOUS
    <2>1. DOMAIN frames = 1 .. Len(frames)
      BY DEF SpecInv, SpecTypes
    <2> QED BY <2>1 DEF SpecInv, DepthIsBounded, FramesOf, RecursionIsBoundedButForMethods
  <1> QED BY <1>1, SpecializationInductive, PTL

=============================================================================
