---------------------------- MODULE SourcesProof ----------------------------
(***************************************************************************)
(* Proofs about how sources are found and read: Discovery, for every disk, *)
(* every command line and every set of directories, and Lexer, for every   *)
(* text.                                                                   *)
(***************************************************************************)
EXTENDS Discovery, Lexer, SequenceTheorems, NaturalsInduction, WellFoundedInduction, TLAPS

-----------------------------------------------------------------------------
(* Discovery. The inductive invariant, in terms of a list l of files on a  *)
(* disk d.                                                                 *)

Statuses == Final \cup {"reading", "discovering", "checking"}

DiscoveryTypes ==
  /\ WellFormedDisk(disk)
  /\ inputs \in Seq(SourcePaths) /\ loaded \in Seq(SourcePaths) /\ candidates \in Seq(SourcePaths)
  /\ discover \in BOOLEAN /\ status \in Statuses
  /\ file \in Nat \ {0} /\ item \in Nat \ {0}
  /\ status = "reading" => Len(loaded) <= Len(inputs) /\ file = 1 /\ item = 1
  /\ status # "discovering" /\ status \notin {"driver_error", "parse_error"} => candidates = << >>
  /\ candidates # << >> => file <= Len(loaded)

(* The sources of each import of each file.                                *)
SourcesOf == [f \in SourcePaths |-> [i \in 1 .. Len(disk.imports[f]) |-> find_module_sources(f, disk.imports[f][i])]]

Has(l, d, path) == \E k \in 1 .. Len(l) : d.identity[l[k]] = d.identity[path]
Declares(l, d, module) == \E k \in 1 .. Len(l) : d.declares[l[k]] = module
(* Each of the paths is in the list, or will be as soon as it is its turn. *)
Coming(l, d, paths, pending) == \A c \in ToSet(paths) : Has(l, d, c) \/ c \in ToSet(pending)

(* The imports the walk has passed need nothing any more.                  *)
WalkedIsSettled ==
  \A n \in 1 .. Len(loaded) : \A i \in 1 .. Len(disk.imports[loaded[n]]) :
    n < file \/ (n = file /\ i < item) =>
      \/ Declares(loaded, disk, disk.imports[loaded[n]][i])
      \/ Coming(loaded, disk, SourcesOf[loaded[n]][i], candidates)
WalkIsOver == discover /\ status \in {"checking", "ok", "semantic_error"} => file > Len(loaded)

(* A file that was added is one of the sources of an import, and the rest  *)
(* of them is coming; so are the candidates.                               *)
Whole(l, d, sources, pending, paths) ==
  \E n \in 1 .. Len(l) : \E i \in 1 .. Len(d.imports[l[n]]) :
    paths \subseteq ToSet(sources[l[n]][i]) /\ Coming(l, d, sources[l[n]][i], pending)
AddedIsWhole ==
  /\ \A n \in 1 .. Len(loaded) : n > Len(inputs) => Whole(loaded, disk, SourcesOf, candidates, {loaded[n]})
  /\ candidates # << >> => Whole(loaded, disk, SourcesOf, candidates, ToSet(candidates))

AddedOnce ==
  \A i, j \in 1 .. Len(loaded) : i < j /\ j > Len(inputs) => disk.identity[loaded[i]] # disk.identity[loaded[j]]

DiscoveryInv == DiscoveryTypes /\ WalkedIsSettled /\ WalkIsOver /\ AddedIsWhole /\ AddedOnce

-----------------------------------------------------------------------------
(* What the driver looks for. *)

LEMMA ContainsIsHas ==
  ASSUME loaded \in Seq(SourcePaths), NEW path
  PROVE  input_list_contains_file(path) <=> Has(loaded, disk, path)
  BY DEF input_list_contains_file, Has

LEMMA DeclaresIsDeclared ==
  ASSUME loaded \in Seq(SourcePaths), NEW module
  PROVE  input_list_declares_module(module) <=> Declares(loaded, disk, module)
  BY DEF input_list_declares_module, Declares

LEMMA SetOfSequence ==
  ASSUME NEW S, NEW s \in Seq(S)
  PROVE  /\ ToSet(s) = {s[i] : i \in 1 .. Len(s)}
         /\ s # << >> => Head(s) = s[1] /\ Head(s) \in S /\ Tail(s) \in Seq(S) /\ ToSet(s) = {Head(s)} \cup ToSet(Tail(s))
         /\ s = << >> => ToSet(s) = {}
  <1>1. ToSet(s) = {s[i] : i \in 1 .. Len(s)}
    BY DEF ToSet
  <1>2. ASSUME s # << >> PROVE Head(s) = s[1] /\ Head(s) \in S /\ Tail(s) \in Seq(S) /\ ToSet(s) = {Head(s)} \cup ToSet(Tail(s))
    <2>1. Head(s) = s[1] /\ Head(s) \in S /\ Tail(s) \in Seq(S) /\ Len(Tail(s)) = Len(s) - 1 /\ Len(s) \in Nat \ {0}
      BY <1>2
    <2>2. \A i \in 1 .. Len(s) - 1 : Tail(s)[i] = s[i + 1]
      BY <1>2
    <2>3. ToSet(Tail(s)) = {Tail(s)[i] : i \in 1 .. Len(s) - 1}
      <3>1. DOMAIN Tail(s) = 1 .. Len(s) - 1
        BY <2>1
      <3> QED BY <3>1 DEF ToSet
    <2>4. ASSUME NEW x \in ToSet(s) PROVE x = Head(s) \/ x \in ToSet(Tail(s))
      <3>1. PICK i \in 1 .. Len(s) : x = s[i]
        BY <1>1
      <3>2. CASE i = 1
        BY <2>1, <3>1, <3>2
      <3>3. CASE i # 1
        <4>1. i - 1 \in 1 .. Len(s) - 1 /\ (i - 1) + 1 = i
          BY <2>1, <3>3
        <4>2. Tail(s)[i - 1] = s[i]
          BY <2>2, <4>1
        <4> QED BY <2>3, <3>1, <4>1, <4>2
      <3> QED BY <3>2, <3>3
    <2>5. ASSUME NEW x \in ToSet(Tail(s)) PROVE x \in ToSet(s)
      <3>1. PICK i \in 1 .. Len(s) - 1 : x = s[i + 1]
        BY <2>2, <2>3
      <3>2. i + 1 \in 1 .. Len(s)
        BY <2>1
      <3> QED BY <1>1, <3>1, <3>2
    <2>6. Head(s) \in ToSet(s)
      <3>1. 1 \in 1 .. Len(s)
        BY <2>1
      <3> QED BY <1>1, <2>1, <3>1
    <2>7. ToSet(s) = {Head(s)} \cup ToSet(Tail(s))
      BY <2>4, <2>5, <2>6
    <2> QED BY <2>1, <2>7
  <1>3. s = << >> => ToSet(s) = {}
    BY <1>1
  <1> QED BY <1>1, <1>2, <1>3

(* find_module_sources yields files that exist.                            *)
LEMMA SourcesType ==
  ASSUME WellFormedDisk(disk), NEW f \in SourcePaths, NEW module \in Modules
  PROVE  find_module_sources(f, module) \in Seq(SourcePaths)
  <1> DEFINE here == <<Directory[f]>>
             library == IF module \in StdModules THEN <<StdRoot>> ELSE << >>
             a == here \o SearchDirs \o library
             b == here \o library \o SearchDirs
             singles == [i \in 1 .. Len(a) |-> single_in(a[i], module)]
             packages == [i \in 1 .. Len(b) |-> package_in(b[i], module)]
             places == singles \o packages
             found == {i \in DOMAIN places : places[i] # << >> /\ \A j \in 1 .. i - 1 : places[j] = << >>}
  <1>1. here \in Seq(Directories) /\ library \in Seq(Directories) /\ SearchDirs \in Seq(Directories)
    <2>1. Directory[f] \in Directories /\ StdRoot \in Directories
      BY DEF Directories
    <2>2. SearchDirs \in Seq(Directories)
      BY DiscoveryAssumption
    <2> QED BY <2>1, <2>2
  <1> HIDE DEF here, library
  <1>2. a \in Seq(Directories) /\ b \in Seq(Directories)
    BY <1>1
  <1> HIDE DEF a, b
  <1>3. \A d \in Directories : single_in(d, module) \in Seq(SourcePaths)
    BY DEF single_in, WellFormedDisk
  <1>4. \A d \in Directories : package_in(d, module) \in Seq(SourcePaths)
    <2>1. \A d \in Directories : package_in(d, module) \in Seq(disk.exists) /\ disk.exists \subseteq SourcePaths
      BY DEF package_in, WellFormedDisk
    <2> QED BY <2>1
  <1>5. Len(a) \in Nat /\ Len(b) \in Nat /\ (\A i \in 1 .. Len(a) : a[i] \in Directories) /\ (\A i \in 1 .. Len(b) : b[i] \in Directories)
    BY <1>2
  <1>6. singles \in Seq(Seq(SourcePaths)) /\ packages \in Seq(Seq(SourcePaths))
    BY <1>3, <1>4, <1>5
  <1> HIDE DEF singles, packages
  <1>7. places \in Seq(Seq(SourcePaths))
    BY <1>6
  <1>8. find_module_sources(f, module) = IF found = {} THEN << >> ELSE places[CHOOSE i \in found : TRUE]
    BY DEF find_module_sources, places, singles, packages, a, b, here, library
  <1> HIDE DEF places
  <1>9. found # {} => (CHOOSE i \in found : TRUE) \in DOMAIN places
    OBVIOUS
  <1> HIDE DEF found
  <1>10. found # {} => places[CHOOSE i \in found : TRUE] \in Seq(SourcePaths)
    BY <1>7, <1>9
  <1> QED BY <1>8, <1>10

LEMMA SourcesStay == ASSUME disk' = disk PROVE SourcesOf' = SourcesOf
  BY DEF SourcesOf, find_module_sources, single_in, package_in

Extension(l, m) == Len(l) <= Len(m) /\ \A k \in 1 .. Len(l) : m[k] = l[k]

LEMMA LongerHasMore ==
  ASSUME NEW d, NEW l \in Seq(SourcePaths), NEW m \in Seq(SourcePaths), Extension(l, m), NEW p, NEW q,
         \A c \in ToSet(p) : Has(m, d, c) \/ c \in ToSet(q)
  PROVE  /\ \A c : Has(l, d, c) => Has(m, d, c)
         /\ \A module : Declares(l, d, module) => Declares(m, d, module)
         /\ \A paths : Coming(l, d, paths, p) => Coming(m, d, paths, q)
         /\ \A sources, paths : Whole(l, d, sources, p, paths) => Whole(m, d, sources, q, paths)
  <1>1. \A k \in 1 .. Len(l) : k \in 1 .. Len(m) /\ m[k] = l[k]
    BY DEF Extension
  <1>2. \A c : Has(l, d, c) => Has(m, d, c)
    BY <1>1 DEF Has
  <1>3. \A module : Declares(l, d, module) => Declares(m, d, module)
    BY <1>1 DEF Declares
  <1>4. \A paths : Coming(l, d, paths, p) => Coming(m, d, paths, q)
    BY <1>2 DEF Coming
  <1>5. \A sources, paths : Whole(l, d, sources, p, paths) => Whole(m, d, sources, q, paths)
    BY <1>1, <1>4 DEF Whole
  <1> QED BY <1>2, <1>3, <1>4, <1>5

LEMMA InvTypes ==
  ASSUME DiscoveryInv
  PROVE  /\ DiscoveryTypes /\ WellFormedDisk(disk) /\ Len(loaded) \in Nat /\ Len(inputs) \in Nat
         /\ inputs \in Seq(SourcePaths) /\ loaded \in Seq(SourcePaths) /\ candidates \in Seq(SourcePaths)
         /\ file \in Nat \ {0} /\ item \in Nat \ {0} /\ status \in Statuses /\ discover \in BOOLEAN
         /\ \A n \in 1 .. Len(loaded) : loaded[n] \in SourcePaths
         /\ \A f \in SourcePaths : disk.imports[f] \in Seq(Modules)
  BY DEF DiscoveryInv, DiscoveryTypes, WellFormedDisk

(* A step that leaves the list, the candidates and the walk alone.         *)
LEMMA StatusInv ==
  ASSUME DiscoveryInv, UNCHANGED <<disk, inputs, discover, loaded, file, item, candidates>>,
         status' \in Statuses \ {"reading"},
         status' \in {"checking", "ok", "semantic_error"} => candidates = << >> /\ (discover => file > Len(loaded))
  PROVE  DiscoveryInv'
  <1>1. SourcesOf' = SourcesOf
    BY SourcesStay
  <1>2. DiscoveryTypes'
    BY DEF DiscoveryInv, DiscoveryTypes, Statuses, Final
  <1>3. WalkedIsSettled' /\ AddedIsWhole' /\ AddedOnce'
    BY <1>1 DEF DiscoveryInv, WalkedIsSettled, AddedIsWhole, AddedOnce
  <1>4. WalkIsOver'
    BY DEF WalkIsOver
  <1> QED BY <1>2, <1>3, <1>4 DEF DiscoveryInv

LEMMA LoadInputInv == ASSUME DiscoveryInv, LoadInput PROVE DiscoveryInv'
  <1> DEFINE path == inputs[Len(loaded) + 1]
  <1>1. /\ status = "reading" /\ Len(loaded) < Len(inputs) /\ file = 1 /\ item = 1 /\ candidates = << >>
        /\ UNCHANGED <<disk, inputs, discover, file, item, candidates>>
    BY DEF DiscoveryInv, DiscoveryTypes, LoadInput
  <1>2. \/ loaded' = Append(loaded, path) /\ status' = status
        \/ status' = "driver_error" /\ loaded' = loaded
    BY DEF LoadInput
  <1>3. CASE status' = "driver_error" /\ loaded' = loaded
    BY <1>1, <1>3, StatusInv DEF Statuses, Final
  <1>4. CASE loaded' = Append(loaded, path) /\ status' = status
    <2>1. path \in SourcePaths
      BY <1>1, InvTypes
    <2>2. loaded' \in Seq(SourcePaths) /\ Len(loaded') = Len(loaded) + 1 /\ Len(loaded') <= Len(inputs) /\ Len(loaded') \in Nat
      BY <1>1, <1>4, <2>1, InvTypes
    <2>3. DiscoveryTypes'
      BY <1>1, <1>4, <2>2, InvTypes DEF DiscoveryTypes
    <2>4. WalkedIsSettled'
      BY <1>1, <2>2 DEF WalkedIsSettled
    <2>5. WalkIsOver'
      BY <1>1, <1>4 DEF WalkIsOver
    <2>6. \A n \in 1 .. Len(loaded') : ~(n > Len(inputs'))
      BY <1>1, <2>2, InvTypes
    <2>7. AddedIsWhole' /\ AddedOnce'
      BY <1>1, <2>6 DEF AddedIsWhole, AddedOnce
    <2> QED BY <2>3, <2>4, <2>5, <2>7 DEF DiscoveryInv
  <1> QED BY <1>2, <1>3, <1>4

LEMMA InputsLoadedInv == ASSUME DiscoveryInv, InputsLoaded PROVE DiscoveryInv'
  <1>1. /\ status = "reading" /\ candidates = << >>
        /\ UNCHANGED <<disk, inputs, discover, loaded, file, item, candidates>>
    BY DEF DiscoveryInv, DiscoveryTypes, InputsLoaded
  <1>2. status' = "parse_error" \/ (discover /\ status' = "discovering") \/ (~ discover /\ status' = "checking")
    BY DEF InputsLoaded
  <1> QED BY <1>1, <1>2, StatusInv DEF Statuses, Final

LEMMA WalkImportInv == ASSUME DiscoveryInv, WalkImport PROVE DiscoveryInv'
  <1> DEFINE f == loaded[file]  module == disk.imports[f][item]
  <1>1. /\ status = "discovering" /\ candidates = << >> /\ file <= Len(loaded) /\ item <= Len(disk.imports[f])
        /\ item' = item + 1 /\ UNCHANGED <<disk, inputs, discover, loaded, file, status>>
        /\ candidates' = IF input_list_declares_module(module) THEN << >> ELSE find_module_sources(f, module)
    BY DEF WalkImport
  <1>2. f \in SourcePaths /\ file \in 1 .. Len(loaded) /\ disk.imports[f] \in Seq(Modules) /\ item \in 1 .. Len(disk.imports[f]) /\ module \in Modules
    <2>1. file \in 1 .. Len(loaded) /\ f \in SourcePaths
      BY <1>1, InvTypes
    <2>2. disk.imports[f] \in Seq(Modules)
      BY <2>1, InvTypes
    <2>3. item \in 1 .. Len(disk.imports[f])
      BY <1>1, <2>2, InvTypes
    <2> QED BY <2>1, <2>2, <2>3
  <1>3. SourcesOf' = SourcesOf /\ SourcesOf[f][item] = find_module_sources(f, module)
    BY <1>1, <1>2, SourcesStay DEF SourcesOf
  <1>4. candidates' \in Seq(SourcePaths)
    BY <1>1, <1>2, InvTypes, SourcesType
  <1> HIDE DEF module
  <1>5. Declares(loaded, disk, module) \/ candidates' = SourcesOf[f][item]
    BY <1>1, <1>3, InvTypes, DeclaresIsDeclared
  <1>6. \A c \in ToSet(candidates) : FALSE
    BY <1>1, InvTypes, SetOfSequence
  <1>7. \A paths : Coming(loaded, disk, paths, candidates) => Coming(loaded, disk, paths, candidates')
    BY <1>6 DEF Coming
  <1>8. DiscoveryTypes'
    BY <1>1, <1>4, InvTypes DEF DiscoveryTypes
  <1>9. WalkedIsSettled'
    <2> SUFFICES ASSUME NEW n \in 1 .. Len(loaded), NEW i \in 1 .. Len(disk.imports[loaded[n]]),
                        n < file \/ (n = file /\ i < item + 1)
                 PROVE  \/ Declares(loaded, disk, disk.imports[loaded[n]][i])
                        \/ Coming(loaded, disk, SourcesOf[loaded[n]][i], candidates')
      BY <1>1, <1>3 DEF WalkedIsSettled
    <2>1. CASE n = file /\ i = item
      <3>1. CASE Declares(loaded, disk, module)
        BY <2>1, <3>1 DEF module
      <3>2. CASE candidates' = SourcesOf[f][item]
        BY <2>1, <3>2 DEF Coming
      <3> QED BY <1>5, <3>1, <3>2
    <2>2. CASE ~(n = file /\ i = item)
      <3>1. n < file \/ (n = file /\ i < item)
        BY <1>2, <2>2, InvTypes
      <3> QED BY <1>7, <3>1 DEF DiscoveryInv, WalkedIsSettled
    <2> QED BY <2>1, <2>2
  <1>10. WalkIsOver'
    BY <1>1 DEF WalkIsOver
  <1>11. AddedIsWhole'
    <2>1. \A paths : Whole(loaded, disk, SourcesOf, candidates, paths) => Whole(loaded, disk, SourcesOf, candidates', paths)
      BY <1>7 DEF Whole
    <2>2. candidates' # << >> => Whole(loaded, disk, SourcesOf, candidates', ToSet(candidates'))
      <3>1. candidates' # << >> => candidates' = SourcesOf[f][item]
        BY <1>1, <1>3
      <3>2. Coming(loaded, disk, candidates', candidates')
        BY DEF Coming
      <3> QED BY <1>2, <3>1, <3>2 DEF Whole
    <2>3. \A n \in 1 .. Len(loaded) : n > Len(inputs) => Whole(loaded, disk, SourcesOf, candidates, {loaded[n]})
      BY DEF DiscoveryInv, AddedIsWhole
    <2> QED BY <1>1, <1>3, <2>1, <2>2, <2>3 DEF AddedIsWhole
  <1>12. AddedOnce'
    BY <1>1 DEF DiscoveryInv, AddedOnce
  <1> QED BY <1>8, <1>9, <1>10, <1>11, <1>12 DEF DiscoveryInv

LEMMA NextFileInv == ASSUME DiscoveryInv, NextFile PROVE DiscoveryInv'
  <1>1. /\ status = "discovering" /\ candidates = << >> /\ file <= Len(loaded) /\ item > Len(disk.imports[loaded[file]])
        /\ file' = file + 1 /\ item' = 1 /\ UNCHANGED <<disk, inputs, discover, loaded, candidates, status>>
    BY DEF NextFile, last_file
  <1>2. SourcesOf' = SourcesOf
    BY <1>1, SourcesStay
  <1>3. DiscoveryTypes'
    BY <1>1, InvTypes DEF DiscoveryTypes
  <1>4. WalkedIsSettled'
    <2> SUFFICES ASSUME NEW n \in 1 .. Len(loaded), NEW i \in 1 .. Len(disk.imports[loaded[n]]),
                        n < file + 1 \/ (n = file + 1 /\ i < 1)
                 PROVE  \/ Declares(loaded, disk, disk.imports[loaded[n]][i])
                        \/ Coming(loaded, disk, SourcesOf[loaded[n]][i], candidates)
      BY <1>1, <1>2 DEF WalkedIsSettled
    <2>1. Len(disk.imports[loaded[n]]) \in Nat
      <3>1. disk.imports[loaded[n]] \in Seq(Modules)
        BY InvTypes
      <3> QED BY <3>1
    <2>2. n < file \/ (n = file /\ i < item)
      <3>1. n \in Nat /\ i \in Nat /\ file \in Nat /\ item \in Nat
        BY <2>1, InvTypes
      <3>2. i <= Len(disk.imports[loaded[n]]) /\ item > Len(disk.imports[loaded[file]]) /\ n <= file
        BY <1>1, <2>1, <3>1
      <3>3. CASE n = file
        <4>1. i <= Len(disk.imports[loaded[file]]) /\ Len(disk.imports[loaded[file]]) \in Nat
          BY <2>1, <3>2, <3>3
        <4> QED BY ONLY <3>1, <3>2, <3>3, <4>1
      <3> QED BY ONLY <3>1, <3>2, <3>3
    <2> QED BY <2>2 DEF DiscoveryInv, WalkedIsSettled
  <1>5. WalkIsOver'
    BY <1>1 DEF WalkIsOver
  <1>6. AddedIsWhole' /\ AddedOnce'
    BY <1>1, <1>2 DEF DiscoveryInv, AddedIsWhole, AddedOnce
  <1> QED BY <1>3, <1>4, <1>5, <1>6 DEF DiscoveryInv

LEMMA LoadCandidateInv == ASSUME DiscoveryInv, LoadCandidate PROVE DiscoveryInv'
  <1> DEFINE path == Head(candidates)
  <1>1. /\ status = "discovering" /\ candidates # << >> /\ UNCHANGED <<disk, inputs, discover, file, item>>
        /\ \/ Has(loaded, disk, path) /\ candidates' = Tail(candidates) /\ loaded' = loaded /\ status' = status
           \/ status' = "driver_error" /\ loaded' = loaded /\ candidates' = candidates
           \/ /\ ~ Has(loaded, disk, path) /\ candidates' = Tail(candidates) /\ loaded' = Append(loaded, path)
              /\ status' \in {"discovering", "parse_error"}
    <2>1. input_list_contains_file(path) <=> Has(loaded, disk, path)
      BY InvTypes, ContainsIsHas
    <2> QED BY <2>1 DEF LoadCandidate, remaining_candidates
  <1>2. /\ path \in SourcePaths /\ Tail(candidates) \in Seq(SourcePaths)
        /\ ToSet(candidates) = {path} \cup ToSet(Tail(candidates))
    BY <1>1, InvTypes, SetOfSequence
  <1>3. file <= Len(loaded)
    BY <1>1 DEF DiscoveryInv, DiscoveryTypes
  <1>4. SourcesOf' = SourcesOf
    BY <1>1, SourcesStay
  <1>5. CASE status' = "driver_error" /\ loaded' = loaded /\ candidates' = candidates
    BY <1>1, <1>5, StatusInv DEF Statuses, Final
  <1>6. ASSUME candidates' = Tail(candidates), status' \in {"discovering", "parse_error"},
               \/ Has(loaded, disk, path) /\ loaded' = loaded
               \/ ~ Has(loaded, disk, path) /\ loaded' = Append(loaded, path)
        PROVE  DiscoveryInv'
    <2> HIDE DEF path
    <2>1. /\ loaded' \in Seq(SourcePaths) /\ Extension(loaded, loaded') /\ Len(loaded') \in {Len(loaded), Len(loaded) + 1}
          /\ Len(loaded') = Len(loaded) + 1 => loaded'[Len(loaded) + 1] = path /\ ~ Has(loaded, disk, path)
      <3>1. loaded \in Seq(SourcePaths) /\ Len(loaded) \in Nat
        BY InvTypes
      <3>2. CASE Has(loaded, disk, path) /\ loaded' = loaded
        BY <3>1, <3>2 DEF Extension
      <3>3. CASE ~ Has(loaded, disk, path) /\ loaded' = Append(loaded, path)
        BY <1>2, <3>1, <3>3 DEF Extension
      <3> QED BY <1>6, <3>2, <3>3
    <2>2. Has(loaded', disk, path)
      <3>1. CASE Has(loaded, disk, path) /\ loaded' = loaded
        BY <3>1
      <3>2. CASE loaded' = Append(loaded, path)
        <4>1. Len(loaded) + 1 \in 1 .. Len(loaded') /\ loaded'[Len(loaded) + 1] = path
          BY <1>2, <3>2, InvTypes
        <4> QED BY <4>1 DEF Has
      <3> QED BY <1>6, <3>1, <3>2
    <2>3. \A c \in ToSet(candidates) : Has(loaded', disk, c) \/ c \in ToSet(candidates')
      BY <1>2, <1>6, <2>2
    <2>4. /\ \A module : Declares(loaded, disk, module) => Declares(loaded', disk, module)
          /\ \A paths : Coming(loaded, disk, paths, candidates) => Coming(loaded', disk, paths, candidates')
          /\ \A sources, paths : Whole(loaded, disk, sources, candidates, paths) => Whole(loaded', disk, sources, candidates', paths)
      BY <2>1, <2>3, InvTypes, LongerHasMore
    <2>5. \A k \in 1 .. Len(loaded') : (k \in 1 .. Len(loaded) /\ loaded'[k] = loaded[k]) \/ (k = Len(loaded) + 1 /\ Len(loaded') = Len(loaded) + 1)
      BY <2>1, InvTypes DEF Extension
    <2>6. DiscoveryTypes'
      <3>1. candidates' # << >> => file' <= Len(loaded')
        BY <1>1, <1>3, <2>1, InvTypes
      <3>2. status' \in Statuses /\ status' \notin {"reading", "checking", "ok", "semantic_error", "driver_error"}
        BY <1>6 DEF Statuses, Final
      <3> QED BY <1>1, <1>2, <1>6, <2>1, <3>1, <3>2, InvTypes DEF DiscoveryTypes
    <2>7. WalkedIsSettled'
      <3> SUFFICES ASSUME NEW n \in 1 .. Len(loaded'), NEW i \in 1 .. Len(disk.imports[loaded'[n]]),
                          n < file \/ (n = file /\ i < item)
                   PROVE  \/ Declares(loaded', disk, disk.imports[loaded'[n]][i])
                          \/ Coming(loaded', disk, SourcesOf[loaded'[n]][i], candidates')
        BY <1>1, <1>4 DEF WalkedIsSettled
      <3>1. n \in 1 .. Len(loaded) /\ loaded'[n] = loaded[n]
        BY <1>3, <2>5, InvTypes
      <3>2. \/ Declares(loaded, disk, disk.imports[loaded[n]][i])
            \/ Coming(loaded, disk, SourcesOf[loaded[n]][i], candidates)
        BY <3>1 DEF DiscoveryInv, WalkedIsSettled
      <3> QED BY <2>4, <3>1, <3>2
    <2>8. WalkIsOver'
      BY <1>6 DEF WalkIsOver
    <2>9. AddedIsWhole'
      <3>1. Whole(loaded, disk, SourcesOf, candidates, ToSet(candidates))
        BY <1>1 DEF DiscoveryInv, AddedIsWhole
      <3>2. Whole(loaded', disk, SourcesOf, candidates', ToSet(candidates))
        BY <2>4, <3>1
      <3>3. Whole(loaded', disk, SourcesOf, candidates', ToSet(candidates')) /\ Whole(loaded', disk, SourcesOf, candidates', {path})
        BY <1>2, <1>6, <3>2 DEF Whole
      <3>4. ASSUME NEW n \in 1 .. Len(loaded'), n > Len(inputs)
            PROVE  Whole(loaded', disk, SourcesOf, candidates', {loaded'[n]})
        <4>1. CASE n \in 1 .. Len(loaded) /\ loaded'[n] = loaded[n]
          <5>1. Whole(loaded, disk, SourcesOf, candidates, {loaded[n]})
            BY <3>4, <4>1 DEF DiscoveryInv, AddedIsWhole
          <5> QED BY <2>4, <4>1, <5>1
        <4>2. CASE n = Len(loaded) + 1 /\ Len(loaded') = Len(loaded) + 1
          BY <2>1, <3>3, <4>2
        <4> QED BY <2>5, <4>1, <4>2
      <3> QED BY <1>1, <1>4, <3>3, <3>4 DEF AddedIsWhole
    <2>10. AddedOnce'
      <3> SUFFICES ASSUME NEW i \in 1 .. Len(loaded'), NEW j \in 1 .. Len(loaded'), i < j, j > Len(inputs)
                   PROVE  disk.identity[loaded'[i]] # disk.identity[loaded'[j]]
        BY <1>1 DEF AddedOnce
      <3>1. i \in 1 .. Len(loaded) /\ loaded'[i] = loaded[i]
        BY <2>1, <2>5, InvTypes
      <3>2. CASE j \in 1 .. Len(loaded) /\ loaded'[j] = loaded[j]
        BY <3>1, <3>2 DEF DiscoveryInv, AddedOnce
      <3>3. CASE j = Len(loaded) + 1 /\ Len(loaded') = Len(loaded) + 1
        BY <2>1, <3>1, <3>3 DEF Has
      <3> QED BY <2>5, <3>2, <3>3
    <2> QED BY <2>6, <2>7, <2>8, <2>9, <2>10 DEF DiscoveryInv
  <1> QED BY <1>1, <1>5, <1>6

LEMMA DiscoveredInv == ASSUME DiscoveryInv, Discovered PROVE DiscoveryInv'
  <1>1. /\ candidates = << >> /\ file > Len(loaded) /\ status' = "checking"
        /\ UNCHANGED <<disk, inputs, discover, loaded, file, item, candidates>>
    BY DEF Discovered, last_file
  <1> QED BY <1>1, StatusInv DEF Statuses, Final

LEMMA SemanticCheckInv == ASSUME DiscoveryInv, SemanticCheck PROVE DiscoveryInv'
  <1>1. /\ status = "checking" /\ status' \in {"ok", "semantic_error"}
        /\ UNCHANGED <<disk, inputs, discover, loaded, file, item, candidates>>
    BY DEF SemanticCheck
  <1>2. candidates = << >> /\ (discover => file > Len(loaded))
    BY <1>1 DEF DiscoveryInv, DiscoveryTypes, WalkIsOver
  <1> QED BY <1>1, <1>2, StatusInv DEF Statuses, Final

LEMMA InitInv == ASSUME DiscoveryInit PROVE DiscoveryInv
  <1>1. loaded = << >> /\ file = 1 /\ item = 1 /\ candidates = << >> /\ status = "reading"
    BY DEF DiscoveryInit
  <1>2. WellFormedDisk(disk)
    BY DiscoveryAssumption DEF DiscoveryInit
  <1>3. inputs \in Seq(SourcePaths) /\ discover \in BOOLEAN
    <2>1. PICK line \in CommandLines : inputs = line[1] /\ discover = line[2]
      BY DEF DiscoveryInit
    <2> QED BY <2>1, DiscoveryAssumption
  <1>4. DiscoveryTypes
    BY <1>1, <1>2, <1>3 DEF DiscoveryTypes, Statuses
  <1>5. \A n \in 1 .. Len(loaded) : FALSE
    BY <1>1
  <1> QED BY <1>1, <1>4, <1>5 DEF DiscoveryInv, WalkedIsSettled, WalkIsOver, AddedIsWhole, AddedOnce

LEMMA DiscoveryStep == ASSUME DiscoveryInv, [DiscoveryNext]_dvars PROVE DiscoveryInv'
  <1>1. CASE UNCHANGED dvars
    <2>1. disk' = disk
      BY <1>1 DEF dvars
    <2>2. SourcesOf' = SourcesOf
      BY <2>1, SourcesStay
    <2> QED BY <1>1, <2>2 DEF dvars, DiscoveryInv, DiscoveryTypes, WalkedIsSettled, WalkIsOver, AddedIsWhole, AddedOnce
  <1> QED BY <1>1, LoadInputInv, InputsLoadedInv, WalkImportInv, NextFileInv, LoadCandidateInv, DiscoveredInv, SemanticCheckInv DEF DiscoveryNext

-----------------------------------------------------------------------------
(* The invariant holds in every state of the driver: between two inputs,   *)
(* two imports or two sources of a package.                                *)
THEOREM DiscoveryInductive == DiscoverySpec => []DiscoveryInv
  <1>1. DiscoveryInit => DiscoveryInv
    BY InitInv
  <1>2. DiscoveryInv /\ [DiscoveryNext]_dvars => DiscoveryInv'
    BY DiscoveryStep
  <1> QED BY <1>1, <1>2, PTL DEF DiscoverySpec

(* discover_import_sources adds no file twice, whatever the disk looks     *)
(* like, however many names a file has and however the imports are nested. *)
THEOREM FilesAreLoadedOnce == DiscoverySpec => []DiscoveredOnce
  <1>1. DiscoveryInv => DiscoveredOnce
    BY InvTypes DEF DiscoveryInv, AddedOnce, DiscoveredOnce
  <1> QED BY <1>1, DiscoveryInductive, PTL

(* When discover_import_sources is through there is nothing left that it   *)
(* would find, though the list it walks grew under it, and no file it      *)
(* added has come without the rest of its package.                         *)
THEOREM NothingIsMissing == DiscoverySpec => []ImportsAreLoaded
  <1>1. DiscoveryInv => ImportsAreLoaded
    <2> SUFFICES ASSUME DiscoveryInv PROVE ImportsAreLoaded
      OBVIOUS
    <2>1. ToSet(loaded) = {loaded[n] : n \in 1 .. Len(loaded)} /\ DOMAIN loaded = 1 .. Len(loaded)
      BY InvTypes, SetOfSequence
    <2>2. \A f \in SourcePaths : DOMAIN disk.imports[f] = 1 .. Len(disk.imports[f])
      BY InvTypes
    <2>3. \A f \in SourcePaths : \A i \in 1 .. Len(disk.imports[f]) : SourcesOf[f][i] = find_module_sources(f, disk.imports[f][i])
      BY DEF SourcesOf
    <2>4. \A c : Has(loaded, disk, c) <=> input_list_contains_file(c)
      BY InvTypes, ContainsIsHas
    <2>5. \A module : Declares(loaded, disk, module) <=> input_list_declares_module(module)
      BY InvTypes, DeclaresIsDeclared
    <2>6. status \in {"checking", "ok", "semantic_error"} =>
            \A paths : Coming(loaded, disk, paths, candidates) => \A c \in ToSet(paths) : input_list_contains_file(c)
      <3> SUFFICES ASSUME status \in {"checking", "ok", "semantic_error"}
                   PROVE  \A paths : Coming(loaded, disk, paths, candidates) => \A c \in ToSet(paths) : input_list_contains_file(c)
        OBVIOUS
      <3>1. candidates = << >>
        BY DEF DiscoveryInv, DiscoveryTypes
      <3>2. ToSet(candidates) = {}
        BY <3>1, InvTypes, SetOfSequence
      <3> QED BY <2>4, <3>2 DEF Coming
    <2>7. NothingLeftToFind
      <3> SUFFICES ASSUME discover, status \in {"checking", "ok", "semantic_error"}, NEW n \in 1 .. Len(loaded),
                          NEW i \in 1 .. Len(disk.imports[loaded[n]])
                   PROVE  \/ input_list_declares_module(disk.imports[loaded[n]][i])
                          \/ \A c \in ToSet(find_module_sources(loaded[n], disk.imports[loaded[n]][i])) : input_list_contains_file(c)
        BY <2>1, <2>2, InvTypes DEF NothingLeftToFind
      <3>1. n < file
        BY InvTypes DEF DiscoveryInv, WalkIsOver
      <3>2. \/ Declares(loaded, disk, disk.imports[loaded[n]][i])
            \/ Coming(loaded, disk, SourcesOf[loaded[n]][i], candidates)
        BY <3>1 DEF DiscoveryInv, WalkedIsSettled
      <3>3. loaded[n] \in SourcePaths
        BY InvTypes
      <3> QED BY <2>3, <2>5, <2>6, <3>2, <3>3
    <2>8. PackagesAreWhole
      <3> SUFFICES ASSUME status \in {"checking", "ok", "semantic_error"}, NEW n \in 1 .. Len(loaded), n > Len(inputs)
                   PROVE  \E f \in ToSet(loaded) : \E i \in DOMAIN disk.imports[f] :
                            /\ loaded[n] \in ToSet(find_module_sources(f, disk.imports[f][i]))
                            /\ \A c \in ToSet(find_module_sources(f, disk.imports[f][i])) : input_list_contains_file(c)
        BY <2>1 DEF PackagesAreWhole
      <3>1. Whole(loaded, disk, SourcesOf, candidates, {loaded[n]})
        BY DEF DiscoveryInv, AddedIsWhole
      <3>2. PICK m \in 1 .. Len(loaded) : \E i \in 1 .. Len(disk.imports[loaded[m]]) :
              {loaded[n]} \subseteq ToSet(SourcesOf[loaded[m]][i]) /\ Coming(loaded, disk, SourcesOf[loaded[m]][i], candidates)
        BY <3>1 DEF Whole
      <3>3. loaded[m] \in SourcePaths /\ loaded[m] \in ToSet(loaded)
        BY <2>1, InvTypes
      <3> QED BY <2>2, <2>3, <2>6, <3>2, <3>3
    <2> QED BY <2>7, <2>8 DEF ImportsAreLoaded
  <1> QED BY <1>1, DiscoveryInductive, PTL

-----------------------------------------------------------------------------
(* The lexer. Induction: a set of naturals has a least element.            *)

LEMMA LeastNumber ==
  ASSUME NEW T, T \subseteq Nat, T # {}
  PROVE  \E n \in T : \A m \in T : n <= m
  <1> DEFINE R == OpToRel(<, Nat)
  <1>1. IsWellFoundedOn(R, Nat)
    BY NatLessThanWellFounded
  <1>2. R = {p \in Nat \X Nat : p[1] < p[2]}
    BY DEF OpToRel
  <1> HIDE DEF R
  <1>3. PICK n \in T : \A m \in T : ~(<<m, n>> \in R)
    BY <1>1, WFMin
  <1>4. \A m \in T : n <= m
    <2> SUFFICES ASSUME NEW m \in T, ~(n <= m) PROVE FALSE
      OBVIOUS
    <2>1. m \in Nat /\ n \in Nat /\ m < n
      OBVIOUS
    <2>2. <<m, n>> \in Nat \X Nat /\ <<m, n>>[1] = m /\ <<m, n>>[2] = n
      BY <2>1
    <2>3. <<m, n>> \in R
      BY <1>2, <2>1, <2>2
    <2> QED BY <1>3, <2>3
  <1> QED BY <1>4

LEMMA SetInduction ==
  ASSUME NEW S, 0 \in S, \A n \in Nat : n \in S => n + 1 \in S
  PROVE  Nat \subseteq S
  <1> SUFFICES ASSUME Nat \ S # {} PROVE FALSE
    OBVIOUS
  <1>1. PICK n \in Nat \ S : \A m \in Nat \ S : n <= m
    <2>1. Nat \ S \subseteq Nat
      OBVIOUS
    <2> QED BY <2>1, LeastNumber
  <1>2. n # 0 /\ n - 1 \in Nat /\ n = (n - 1) + 1
    BY <1>1
  <1>3. n - 1 \in S
    BY <1>1, <1>2
  <1> QED BY <1>2, <1>3

-----------------------------------------------------------------------------
(* The text. *)

Character == STRING \ {"end"}
TextType == text \in Seq(Character)

LEMMA TextIs ==
  ASSUME TextType
  PROVE  /\ Past \in Nat \ {0} /\ Past = Len(text) + 1 /\ DOMAIN text = 1 .. Past - 1
         /\ \A i \in Int : peek(i) = "end" <=> i >= Past \/ (i < 1 /\ text[i] = "end")
         /\ \A i \in 1 .. Past - 1 : peek(i) = text[i] /\ text[i] # "end"
         /\ peek(Past) = "end"
  <1>1. Len(text) \in Nat /\ DOMAIN text = 1 .. Len(text) /\ \A i \in 1 .. Len(text) : text[i] \in Character
    BY DEF TextType
  <1>2. Past = Len(text) + 1
    BY DEF Past
  <1>3. \A i \in 1 .. Len(text) : text[i] # "end"
    BY <1>1 DEF Character
  <1>4. \A i \in 1 .. Past - 1 : peek(i) = text[i] /\ text[i] # "end"
    BY <1>1, <1>2, <1>3 DEF peek
  <1>5. \A i \in Int : i >= Past => peek(i) = "end"
    BY <1>1, <1>2 DEF peek
  <1>6. \A i \in Int : i < 1 => peek(i) = text[i]
    BY <1>1, <1>2 DEF peek
  <1>7. \A i \in Int : i >= Past \/ i < 1 \/ i \in 1 .. Past - 1
    BY <1>1, <1>2
  <1>8. ASSUME NEW i \in Int PROVE peek(i) = "end" <=> i >= Past \/ (i < 1 /\ text[i] = "end")
    BY <1>1, <1>2, <1>4, <1>5, <1>6, <1>7
  <1> QED BY <1>1, <1>2, <1>4, <1>5, <1>8

(* Before the end *)
LEMMA PeekIs == ASSUME TextType, NEW i \in Int, i >= 1 PROVE (peek(i) # "end" => i \in 1 .. Past - 1 /\ peek(i) = text[i] /\ i + 1 \in 1 .. Past) /\ (i >= Past => peek(i) = "end")
  BY TextIs

LEMMA SkipIs ==
  ASSUME TextType, NEW i \in 1 .. Past, NEW S, "end" \notin S
  PROVE  Skip(i, S) \in i .. Past /\ peek(Skip(i, S)) \notin S /\ \A k \in i .. Skip(i, S) - 1 : peek(k) \in S
  <1> DEFINE T == {j \in i .. Past : peek(j) \notin S}
  <1>1. Past \in Nat /\ Past \in i .. Past /\ peek(Past) = "end"
    BY TextIs
  <1>2. Past \in T /\ T \subseteq Nat
    BY <1>1
  <1>3. PICK j \in T : \A k \in T : j <= k
    <2> HIDE DEF T
    <2> QED BY <1>2, LeastNumber
  <1>4. \A k \in i .. j - 1 : k \in i .. Past /\ ~ (j <= k)
    BY <1>1, <1>3
  <1>5. \A k \in i .. j - 1 : peek(k) \in S
    BY <1>3, <1>4
  <1>6. j \in i .. Past /\ peek(j) \notin S
    BY <1>3
  <1> HIDE DEF T
  <1> QED BY <1>5, <1>6 DEF Skip

LEMMA SkipMoves ==
  ASSUME TextType, NEW i \in 1 .. Past, NEW S, "end" \notin S, peek(i) \in S
  PROVE  Skip(i, S) \in i + 1 .. Past
  <1>1. Skip(i, S) \in i .. Past /\ Skip(i, S) # i
    BY SkipIs
  <1>2. Past \in Nat
    BY TextIs
  <1> QED BY <1>1, <1>2

-----------------------------------------------------------------------------
(* closing_quote: an equation over the places of the text, solved from the *)
(* end.                                                                    *)

QuoteStep(g, i) ==
  IF peek(i) \in {"\"", "end"} THEN i ELSE IF peek(i) = "\\" /\ peek(i + 1) # "end" THEN g[i + 2] ELSE g[i + 1]

LEMMA QuoteStepIs ==
  ASSUME TextType, NEW i \in 1 .. Past + 1
  PROVE  \E later \in {i, i + 1, i + 2} : later \in 1 .. Past + 1 /\ \A g : QuoteStep(g, i) = IF later = i THEN i ELSE g[later]
  <1>1. Past \in Nat \ {0} /\ i \in Int /\ i >= 1
    BY TextIs
  <1>2. CASE peek(i) \in {"\"", "end"}
    BY <1>2 DEF QuoteStep
  <1>3. CASE ~ (peek(i) \in {"\"", "end"}) /\ peek(i) = "\\" /\ peek(i + 1) # "end"
    <2>1. i + 1 \in Int /\ i + 1 >= 1
      BY <1>1
    <2>2. (i + 1) + 1 \in 1 .. Past
      BY <1>3, <2>1, PeekIs
    <2>3. i + 2 \in 1 .. Past + 1 /\ i + 2 # i
      BY <1>1, <2>2
    <2>4. \A g : QuoteStep(g, i) = g[i + 2]
      BY <1>3 DEF QuoteStep
    <2> QED BY <2>3, <2>4
  <1>4. CASE ~ (peek(i) \in {"\"", "end"}) /\ ~ (peek(i) = "\\" /\ peek(i + 1) # "end")
    <2>1. i + 1 \in 1 .. Past
      BY <1>1, <1>4, PeekIs
    <2>2. i + 1 \in 1 .. Past + 1 /\ i + 1 # i
      BY <1>1, <2>1
    <2>3. \A g : QuoteStep(g, i) = g[i + 1]
      BY <1>4 DEF QuoteStep
    <2> QED BY <2>2, <2>3
  <1> QED BY <1>2, <1>3, <1>4

LEMMA QuoteExists == ASSUME TextType PROVE \E g \in [1 .. Past + 1 -> Nat] : \A i \in 1 .. Past + 1 : g[i] = QuoteStep(g, i)
  <1> DEFINE M == Past + 1
             Solves(g, n) == \A i \in 1 .. M : M - i < n => g[i] = QuoteStep(g, i)
             S == {n \in Nat : \E g \in [1 .. M -> Nat] : Solves(g, n)}
  <1>1. M \in Nat
    BY TextIs
  <1> HIDE DEF M
  <1>2. 0 \in S
    <2>1. [i \in 1 .. M |-> 0] \in [1 .. M -> Nat]
      OBVIOUS
    <2>2. Solves([i \in 1 .. M |-> 0], 0)
      BY <1>1
    <2> HIDE DEF Solves
    <2> QED BY <2>1, <2>2
  <1>3. ASSUME NEW n \in Nat, n \in S PROVE n + 1 \in S
    <2>1. PICK g \in [1 .. M -> Nat] : Solves(g, n)
      BY <1>3
    <2>2. CASE M - n \in 1 .. M
      <3> DEFINE p == M - n
                 h == [g EXCEPT ![p] = QuoteStep(g, p)]
      <3>1. \A i \in 1 .. M : \E later \in {i, i + 1, i + 2} : later \in 1 .. M /\ \A f : QuoteStep(f, i) = IF later = i THEN i ELSE f[later]
        BY QuoteStepIs DEF M
      <3>2. QuoteStep(g, p) \in Nat
        <4>1. PICK later \in {p, p + 1, p + 2} : later \in 1 .. M /\ \A f : QuoteStep(f, p) = IF later = p THEN p ELSE f[later]
          BY <2>2, <3>1
        <4>3. g[later] \in Nat
          BY <4>1
        <4>4. p \in Nat
          BY <2>2
        <4>5. QuoteStep(g, p) = IF later = p THEN p ELSE g[later]
          BY <4>1
        <4>2. g[later] \in Nat /\ p \in Nat /\ QuoteStep(g, p) = IF later = p THEN p ELSE g[later]
          BY <4>3, <4>4, <4>5
        <4> QED BY ONLY <4>2
      <3>3. h \in [1 .. M -> Nat] /\ h[p] = QuoteStep(g, p) /\ \A i \in 1 .. M : i # p => h[i] = g[i]
        BY <2>2, <3>2
      <3>4. ASSUME NEW i \in 1 .. M, M - i < n + 1 PROVE h[i] = QuoteStep(h, i)
        <4>1. PICK later \in {i, i + 1, i + 2} : later \in 1 .. M /\ \A f : QuoteStep(f, i) = IF later = i THEN i ELSE f[later]
          BY <3>1
        <4>2. i >= p /\ (i # p => M - i < n) /\ (later # i => later # p)
          BY <1>1, <3>4, <4>1
        <4>3. QuoteStep(h, i) = QuoteStep(g, i)
          <5> HIDE DEF h, p
          <5>1. later # i => h[later] = g[later]
            BY <3>3, <4>1, <4>2
          <5> QED BY <4>1, <5>1
        <4> HIDE DEF h, p
        <4> QED BY <2>1, <3>3, <4>2, <4>3
      <3> HIDE DEF h
      <3>5. Solves(h, n + 1)
        BY <3>4
      <3> HIDE DEF Solves
      <3> QED BY <3>3, <3>5
    <2>3. CASE M - n \notin 1 .. M
      <3>1. \A i \in 1 .. M : M - i < n
        BY <1>1, <2>3
      <3>2. Solves(g, n + 1)
        BY <2>1, <3>1
      <3> HIDE DEF Solves
      <3> QED BY <3>2
    <2> QED BY <2>2, <2>3
  <1>4. M \in S
    <2> HIDE DEF S
    <2> QED BY <1>1, <1>2, <1>3, SetInduction
  <1>5. PICK g \in [1 .. M -> Nat] : Solves(g, M)
    BY <1>4
  <1>6. \A i \in 1 .. M : M - i < M
    BY <1>1
  <1> QED BY <1>5, <1>6 DEF M

LEMMA QuoteEquation == ASSUME TextType PROVE \A i \in 1 .. Past + 1 : closing_quote[i] = QuoteStep(closing_quote, i)
  <1> DEFINE E(f) == [i \in 1 .. Past + 1 |-> IF peek(i) \in {"\"", "end"} THEN i
                       ELSE IF peek(i) = "\\" /\ peek(i + 1) # "end" THEN f[i + 2] ELSE f[i + 1]]
  <1>1. PICK g \in [1 .. Past + 1 -> Nat] : \A i \in 1 .. Past + 1 : g[i] = QuoteStep(g, i)
    BY QuoteExists
  <1>2. \A i \in 1 .. Past + 1 : E(g)[i] = g[i]
    BY <1>1 DEF QuoteStep
  <1>3. g = E(g)
    BY <1>1, <1>2
  <1>4. closing_quote = CHOOSE f : f = E(f)
    BY DEF closing_quote
  <1> HIDE DEF E
  <1>5. closing_quote = E(closing_quote)
    BY <1>3, <1>4
  <1>6. \A i \in 1 .. Past + 1 : E(closing_quote)[i] = QuoteStep(closing_quote, i)
    BY DEF E, QuoteStep
  <1> QED BY <1>5, <1>6

(* The closing quote does not come before the place it is looked for from. *)
LEMMA QuoteIs == ASSUME TextType, NEW i \in 1 .. Past + 1 PROVE closing_quote[i] \in i .. Past + 1
  <1> DEFINE M == Past + 1
             S == {n \in Nat : \A j \in 1 .. M : M - j < n => closing_quote[j] \in j .. M}
  <1>1. M \in Nat
    BY TextIs
  <1>2. \A j \in 1 .. M : \E later \in {j, j + 1, j + 2} : later \in 1 .. M /\ closing_quote[j] = IF later = j THEN j ELSE closing_quote[later]
    BY QuoteStepIs, QuoteEquation DEF M
  <1> HIDE DEF M
  <1>3. 0 \in S
    BY <1>1
  <1>4. ASSUME NEW n \in Nat, n \in S PROVE n + 1 \in S
    <2> SUFFICES ASSUME NEW j \in 1 .. M, M - j < n + 1 PROVE closing_quote[j] \in j .. M
      OBVIOUS
    <2>1. PICK later \in {j, j + 1, j + 2} : later \in 1 .. M /\ closing_quote[j] = IF later = j THEN j ELSE closing_quote[later]
      BY <1>2
    <2>2. CASE later = j
      BY <1>1, <2>1, <2>2
    <2>3. CASE later # j
      <3>1. M - later < n /\ later >= j
        BY <1>1, <2>1, <2>3
      <3>2. closing_quote[later] \in later .. M
        BY <1>4, <2>1, <3>1
      <3> QED BY <1>1, <2>1, <2>3, <3>1, <3>2
    <2> QED BY <2>2, <2>3
  <1>5. M \in S
    <2> HIDE DEF S
    <2> QED BY <1>1, <1>3, <1>4, SetInduction
  <1>6. i \in 1 .. M /\ M - i < M
    BY <1>1 DEF M
  <1> QED BY <1>5, <1>6 DEF M

-----------------------------------------------------------------------------
(* skip_whitespace_and_comments, in the same way. *)

LineEnd(i) == Skip(i, {text[k] : k \in DOMAIN text} \ {"\n"})
BlockEnd(i) == (CHOOSE k \in CommentEnd(i + 2) : \A l \in CommentEnd(i + 2) : k <= l) + 2
SkipStep(g, i) ==
  CASE peek(i) \in Blanks -> g[i + 1]
    [] starts_line_comment(i) -> g[LineEnd(i)]
    [] peek(i) = "/" /\ peek(i + 1) = "*" /\ CommentEnd(i + 2) # {} -> g[BlockEnd(i)]
    [] peek(i) = "/" /\ peek(i + 1) = "*" /\ CommentEnd(i + 2) = {} -> [unterminated |-> TRUE, place |-> i]
    [] OTHER -> [unterminated |-> FALSE, place |-> i]
Start == [unterminated : BOOLEAN, place : 1 .. Past]

(* What NothingIsDropped says of a character *)
Covered(x, before, j) ==
  \/ x[j] \in Blanks
  \/ \E b \in before .. j : x[b] = "/" /\ (b < Len(x) + 1 - 1 /\ x[b + 1] = "/") /\ \A l \in b .. j : x[l] # "\n"
  \/ \E b \in before .. j : x[b] = "/" /\ (b < Len(x) + 1 - 1 /\ x[b + 1] = "*") /\ \A l \in b + 2 .. j - 2 : x[l] # "*" \/ x[l + 1] # "/"

(* A step goes on after i, over what is covered, or it ends at i.          *)
GoesOn(i, to) == to \in i + 1 .. Past /\ \A j \in i .. to - 1 : Covered(text, i, j)
LEMMA SkipStepIs ==
  ASSUME TextType, NEW i \in 1 .. Past
  PROVE  \/ \E to \in Nat : GoesOn(i, to) /\ \A g : SkipStep(g, i) = g[to]
         \/ \E u \in BOOLEAN : \A g : SkipStep(g, i) = [unterminated |-> u, place |-> i]
  <1>1. Past \in Nat \ {0} /\ i \in Int /\ i >= 1 /\ Past = Len(text) + 1 /\ DOMAIN text = 1 .. Past - 1
    BY TextIs
  <1>2. CASE peek(i) \in Blanks
    <2>1. peek(i) # "end"
      BY <1>2 DEF Blanks
    <2>2. i \in 1 .. Past - 1 /\ text[i] \in Blanks /\ i + 1 \in 1 .. Past
      BY <1>1, <1>2, <2>1, PeekIs
    <2>3. GoesOn(i, i + 1)
      <3>1. i + 1 \in i + 1 .. Past /\ \A j \in i .. (i + 1) - 1 : j = i
        BY <1>1, <2>2
      <3> QED BY <2>2, <3>1 DEF GoesOn, Covered
    <2>4. ASSUME NEW g PROVE SkipStep(g, i) = g[i + 1]
      <3>1. peek(i) # "/"
        BY <1>2 DEF Blanks
      <3>2. ~ starts_line_comment(i)
        BY <3>1 DEF starts_line_comment
      <3> QED BY ONLY <1>2, <3>1, <3>2, Zenon DEF SkipStep
    <2>5. i + 1 \in Nat
      BY <1>1
    <2> QED BY <2>3, <2>4, <2>5
  <1>3. CASE peek(i) \notin Blanks /\ starts_line_comment(i)
    <2> DEFINE S == {text[k] : k \in DOMAIN text} \ {"\n"}
    <2>1. peek(i) = "/" /\ peek(i + 1) = "/"
      BY <1>3 DEF starts_line_comment
    <2>2. i \in 1 .. Past - 1 /\ text[i] = "/"
      BY <1>1, <2>1, PeekIs
    <2>3. i + 1 \in 1 .. Past - 1 /\ text[i + 1] = "/"
      <3>1. i + 1 \in Int /\ i + 1 >= 1
        BY <1>1
      <3> QED BY <2>1, <3>1, PeekIs
    <2>4. peek(i) \in S /\ "end" \notin S
      <3>1. \A k \in DOMAIN text : text[k] # "end"
        BY <1>1, TextIs
      <3> QED BY <1>1, <2>1, <2>2, <3>1
    <2>5. LineEnd(i) = Skip(i, S)
      BY DEF LineEnd
    <2> HIDE DEF S
    <2>6. LineEnd(i) \in i + 1 .. Past /\ \A k \in i .. LineEnd(i) - 1 : peek(k) \in S
      BY <2>4, <2>5, SkipIs, SkipMoves
    <2>7. \A k \in i .. LineEnd(i) - 1 : text[k] # "\n"
      <3>1. \A k \in i .. LineEnd(i) - 1 : k \in 1 .. Past - 1
        BY <1>1, <2>6
      <3>2. \A k \in i .. LineEnd(i) - 1 : peek(k) = text[k]
        BY <3>1, TextIs
      <3> QED BY <2>6, <3>2 DEF S
    <2>8. GoesOn(i, LineEnd(i))
      <3>1. ASSUME NEW j \in i .. LineEnd(i) - 1 PROVE Covered(text, i, j)
        <4>1. i \in i .. j /\ \A l \in i .. j : l \in i .. LineEnd(i) - 1
          BY <1>1, <2>6
        <4>2. i < Len(text) + 1 - 1
          BY <1>1, <2>3
        <4> QED BY <2>2, <2>3, <2>7, <4>1, <4>2 DEF Covered
      <3> QED BY <2>6, <3>1 DEF GoesOn
    <2>9. ASSUME NEW g PROVE SkipStep(g, i) = g[LineEnd(i)]
      <3>1. peek(i) \notin Blanks /\ starts_line_comment(i) /\ peek(i + 1) # "*"
        BY <1>3, <2>1
      <3> QED BY ONLY <3>1, Zenon DEF SkipStep
    <2>10. LineEnd(i) \in Nat
      BY <1>1, <2>6
    <2> QED BY <2>8, <2>9, <2>10
  <1>4. CASE peek(i) \notin Blanks /\ ~ starts_line_comment(i) /\ peek(i) = "/" /\ peek(i + 1) = "*" /\ CommentEnd(i + 2) # {}
    <2>1. i \in 1 .. Past - 1 /\ text[i] = "/"
      BY <1>1, <1>4, PeekIs
    <2>2. i + 1 \in 1 .. Past - 1 /\ text[i + 1] = "*"
      <3>1. i + 1 \in Int /\ i + 1 >= 1
        BY <1>1
      <3> QED BY <1>4, <3>1, PeekIs
    <2> DEFINE C == CommentEnd(i + 2)
               k == CHOOSE m \in C : \A l \in C : m <= l
    <2>3. C \subseteq Nat /\ \A m \in C : m \in i + 2 .. Past - 2
      BY <1>1 DEF CommentEnd
    <2>4. \A m \in i + 2 .. Past - 2 : text[m] = "*" /\ text[m + 1] = "/" => m \in C
      BY DEF CommentEnd
    <2>5. k \in C /\ \A l \in C : k <= l
      <3>1. C # {}
        BY <1>4
      <3> HIDE DEF C
      <3>2. \E m \in C : \A l \in C : m <= l
        BY <2>3, <3>1, LeastNumber
      <3> QED BY <3>2
    <2>6. BlockEnd(i) = k + 2
      BY DEF BlockEnd
    <2> HIDE DEF C, k
    <2>7. k \in i + 2 .. Past - 2 /\ k \in Nat
      BY <2>3, <2>5
    <2>8. GoesOn(i, k + 2)
      <3>1. ASSUME NEW j \in i .. (k + 2) - 1 PROVE Covered(text, i, j)
        <4>1. ASSUME NEW l \in i + 2 .. j - 2 PROVE text[l] # "*" \/ text[l + 1] # "/"
          <5>1. l \in i + 2 .. Past - 2 /\ ~ (k <= l)
            BY <1>1, <2>7
          <5> QED BY <2>4, <2>5, <5>1
        <4>2. i < Len(text) + 1 - 1 /\ i \in i .. j
          BY <1>1, <2>2
        <4> QED BY <2>1, <2>2, <4>1, <4>2 DEF Covered
      <3>2. k + 2 \in i + 1 .. Past
        BY <1>1, <2>7
      <3> QED BY <3>1, <3>2 DEF GoesOn
    <2>9. ASSUME NEW g PROVE SkipStep(g, i) = g[BlockEnd(i)]
      BY ONLY <1>4, ZenonT(60) DEF SkipStep
    <2> QED BY <2>6, <2>7, <2>8, <2>9
  <1>5. CASE peek(i) \notin Blanks /\ ~ starts_line_comment(i) /\ peek(i) = "/" /\ peek(i + 1) = "*" /\ CommentEnd(i + 2) = {}
    <2>1. \A g : SkipStep(g, i) = [unterminated |-> TRUE, place |-> i]
      BY <1>5 DEF SkipStep
    <2> QED BY <2>1
  <1>6. CASE peek(i) \notin Blanks /\ ~ starts_line_comment(i) /\ ~ (peek(i) = "/" /\ peek(i + 1) = "*")
    <2>1. \A g : SkipStep(g, i) = [unterminated |-> FALSE, place |-> i]
      BY <1>6 DEF SkipStep
    <2> QED BY <2>1
  <1> QED BY <1>2, <1>3, <1>4, <1>5, <1>6

LEMMA SkipExists == ASSUME TextType PROVE \E g \in [1 .. Past -> Start] : \A i \in 1 .. Past : g[i] = SkipStep(g, i)
  <1> DEFINE M == Past
             Solves(g, n) == \A i \in 1 .. M : M - i < n => g[i] = SkipStep(g, i)
             S == {n \in Nat : \E g \in [1 .. M -> Start] : Solves(g, n)}
  <1>1. M \in Nat \ {0} /\ 1 \in 1 .. M
    BY TextIs
  <1>7. \A u \in BOOLEAN : \A i \in 1 .. M : [unterminated |-> u, place |-> i] \in Start
    BY DEF Start
  <1> HIDE DEF M
  <1>2. 0 \in S
    <2> DEFINE g == [i \in 1 .. M |-> [unterminated |-> TRUE, place |-> i]]
    <2>1. g \in [1 .. M -> Start]
      BY <1>7
    <2>2. Solves(g, 0)
      BY <1>1
    <2> HIDE DEF Solves, g
    <2> QED BY <2>1, <2>2
  <1>3. ASSUME NEW n \in Nat, n \in S PROVE n + 1 \in S
    <2>1. PICK g \in [1 .. M -> Start] : Solves(g, n)
      BY <1>3
    <2>2. CASE M - n \in 1 .. M
      <3> DEFINE p == M - n
                 h == [g EXCEPT ![p] = SkipStep(g, p)]
      <3>1. ASSUME NEW i \in 1 .. M
            PROVE  \/ \E to \in i + 1 .. M : \A f : SkipStep(f, i) = f[to]
                   \/ \E u \in BOOLEAN : \A f : SkipStep(f, i) = [unterminated |-> u, place |-> i]
        BY SkipStepIs DEF M, GoesOn
      <3>2. SkipStep(g, p) \in Start
        <4>1. CASE \E to \in p + 1 .. M : \A f : SkipStep(f, p) = f[to]
          <5>1. PICK to \in p + 1 .. M : SkipStep(g, p) = g[to]
            BY <4>1
          <5>2. to \in 1 .. M
            BY <1>1, <2>2
          <5> QED BY <5>1, <5>2
        <4>2. CASE \E u \in BOOLEAN : \A f : SkipStep(f, p) = [unterminated |-> u, place |-> p]
          <5>1. PICK u \in BOOLEAN : SkipStep(g, p) = [unterminated |-> u, place |-> p]
            BY <4>2
          <5>2. [unterminated |-> u, place |-> p] \in Start
            BY <1>7, <2>2
          <5> QED BY <5>1, <5>2
        <4> QED BY <2>2, <3>1, <4>1, <4>2
      <3>3. h \in [1 .. M -> Start] /\ h[p] = SkipStep(g, p) /\ \A i \in 1 .. M : i # p => h[i] = g[i]
        BY <2>2, <3>2
      <3>4. ASSUME NEW i \in 1 .. M, M - i < n + 1 PROVE h[i] = SkipStep(h, i)
        <4>2. i >= p /\ (i # p => M - i < n) /\ \A to \in i + 1 .. M : to \in 1 .. M /\ to # p
          BY <1>1, <3>4
        <4>3. SkipStep(h, i) = SkipStep(g, i)
          <5> HIDE DEF h, p
          <5>1. CASE \E to \in i + 1 .. M : \A f : SkipStep(f, i) = f[to]
            <6>1. PICK to \in i + 1 .. M : \A f : SkipStep(f, i) = f[to]
              BY <5>1
            <6> QED BY <3>3, <4>2, <6>1
          <5>2. CASE \E u \in BOOLEAN : \A f : SkipStep(f, i) = [unterminated |-> u, place |-> i]
            BY <5>2
          <5> QED BY <3>1, <5>1, <5>2
        <4> HIDE DEF h, p
        <4> QED BY <2>1, <3>3, <4>2, <4>3
      <3> HIDE DEF h
      <3>5. Solves(h, n + 1)
        BY <3>4
      <3> HIDE DEF Solves
      <3> QED BY <3>3, <3>5
    <2>3. CASE M - n \notin 1 .. M
      <3>1. \A i \in 1 .. M : M - i < n
        BY <1>1, <2>3
      <3>2. Solves(g, n + 1)
        BY <2>1, <3>1
      <3> HIDE DEF Solves
      <3> QED BY <3>2
    <2> QED BY <2>2, <2>3
  <1>4. M \in S
    <2> HIDE DEF S
    <2> QED BY <1>1, <1>2, <1>3, SetInduction
  <1>5. PICK g \in [1 .. M -> Start] : Solves(g, M)
    BY <1>4
  <1>6. \A i \in 1 .. M : M - i < M
    BY <1>1
  <1> QED BY <1>5, <1>6 DEF M

LEMMA SkipEquation ==
  ASSUME TextType
  PROVE  \A i \in 1 .. Past : skip_whitespace_and_comments[i] = SkipStep(skip_whitespace_and_comments, i)
  <1> DEFINE E(f) == [i \in 1 .. Past |-> SkipStep(f, i)]
  <1>1. PICK g \in [1 .. Past -> Start] : \A i \in 1 .. Past : g[i] = SkipStep(g, i)
    BY SkipExists
  <1>3. g = E(g)
    BY <1>1
  <1>4. skip_whitespace_and_comments = CHOOSE f : f = E(f)
    BY DEF skip_whitespace_and_comments, SkipStep, LineEnd, BlockEnd
  <1> HIDE DEF E
  <1>5. skip_whitespace_and_comments = E(skip_whitespace_and_comments)
    BY <1>3, <1>4
  <1>6. \A i \in 1 .. Past : E(skip_whitespace_and_comments)[i] = SkipStep(skip_whitespace_and_comments, i)
    BY DEF E
  <1> QED BY <1>5, <1>6

(* Blanks and comments are skipped, and nothing else.                      *)
StartsAt(i, s) == s.unterminated \in BOOLEAN /\ s.place \in i .. Past /\ \A j \in i .. s.place - 1 : Covered(text, i, j)
LEMMA CoveredFromBefore ==
  ASSUME NEW x, NEW a \in Int, NEW b \in Int, a <= b, NEW j \in Int, Covered(x, b, j) PROVE Covered(x, a, j)
  <1>1. \A k \in b .. j : k \in a .. j
    OBVIOUS
  <1> QED BY <1>1 DEF Covered
LEMMA StartIs == ASSUME TextType, NEW i \in 1 .. Past PROVE StartsAt(i, skip_whitespace_and_comments[i])
  <1> DEFINE M == Past
             sk == skip_whitespace_and_comments
             S == {n \in Nat : \A j \in 1 .. M : M - j < n => StartsAt(j, sk[j])}
  <1>1. M \in Nat
    BY TextIs
  <1>2. ASSUME NEW j \in 1 .. M
        PROVE  \/ \E to \in Nat : GoesOn(j, to) /\ sk[j] = sk[to]
               \/ \E u \in BOOLEAN : sk[j] = [unterminated |-> u, place |-> j]
    BY SkipStepIs, SkipEquation
  <1> HIDE DEF sk
  <1>3. 0 \in S
    BY <1>1
  <1>4. ASSUME NEW n \in Nat, n \in S PROVE n + 1 \in S
    <2> SUFFICES ASSUME NEW j \in 1 .. M, M - j < n + 1 PROVE StartsAt(j, sk[j])
      OBVIOUS
    <2>2. CASE \E u \in BOOLEAN : sk[j] = [unterminated |-> u, place |-> j]
      <3>1. PICK u \in BOOLEAN : sk[j] = [unterminated |-> u, place |-> j]
        BY <2>2
      <3>2. sk[j].unterminated = u /\ sk[j].place = j
        BY <3>1
      <3>3. j \in j .. M /\ j .. j - 1 = {}
        BY <1>1
      <3> QED BY <3>2, <3>3 DEF StartsAt
    <2>3. CASE \E to \in Nat : GoesOn(j, to) /\ sk[j] = sk[to]
      <3>1. PICK to \in Nat : GoesOn(j, to) /\ sk[j] = sk[to]
        BY <2>3
      <3>2. to \in j + 1 .. M /\ \A k \in j .. to - 1 : Covered(text, j, k)
        BY <3>1 DEF GoesOn
      <3>3. M - to < n /\ to \in 1 .. M
        BY <1>1, <3>2
      <3>4. StartsAt(to, sk[to])
        BY <1>4, <3>3
      <3>5. sk[to].unterminated \in BOOLEAN /\ sk[to].place \in to .. M /\ \A k \in to .. sk[to].place - 1 : Covered(text, to, k)
        BY <3>4 DEF StartsAt
      <3>6. ASSUME NEW k \in j .. sk[to].place - 1 PROVE Covered(text, j, k)
        <4>1. k \in j .. to - 1 \/ k \in to .. sk[to].place - 1
          BY <1>1, <3>2, <3>5
        <4>2. k \in Int /\ j \in Int /\ to \in Int /\ j <= to
          BY <1>1, <3>2, <3>5
        <4> QED BY <3>2, <3>5, <4>1, <4>2, CoveredFromBefore
      <3>7. sk[to].place \in j .. M
        BY <1>1, <3>2, <3>5
      <3> QED BY <3>1, <3>5, <3>6, <3>7 DEF StartsAt
    <2> QED BY <1>2, <2>2, <2>3
  <1>5. M \in S
    <2> HIDE DEF S
    <2> QED BY <1>1, <1>3, <1>4, SetInduction
  <1>6. M - i < M
    BY <1>1
  <1> QED BY <1>5, <1>6 DEF sk

-----------------------------------------------------------------------------
(* The tokens. *)

RadixIn(x, t) ==
  LET second == IF t.to - t.from >= 2 /\ x[t.from] = "0" THEN x[t.from + 1] ELSE "none"
  IN CASE second = "x" -> 16 [] second = "b" -> 2 [] second = "o" -> 8 [] OTHER -> 10
ConvertsIn(x, t) ==
  /\ (IF RadixIn(x, t) = 10 THEN t.from ELSE t.from + 2) < t.to
  /\ \A k \in (IF RadixIn(x, t) = 10 THEN t.from ELSE t.from + 2) .. t.to - 1 : IsDigit(x[k], RadixIn(x, t))
LongestIn(x, t) ==
  \A s \in Spellings : t.from + Len(s) < Len(x) + 2 /\ SubSeq(x, t.from, t.from + Len(s) - 1) = s => t.to >= t.from + Len(s)
TokenOf(x, t) ==
  /\ t.from \in 1 .. Len(x) + 1 /\ t.to \in t.from .. Len(x) + 1
  /\ t.kind = "int" => ConvertsIn(x, t)
  /\ t.kind = "operator" => LongestIn(x, t)

LEMMA TheText == \A t : ConvertsToInteger(t) <=> ConvertsIn(text, t)
  <1>1. \A t : radix_of(t) = RadixIn(text, t)
    BY Zenon DEF radix_of, RadixIn
  <1> QED BY <1>1 DEF ConvertsToInteger, ConvertsIn

LEMMA TokenIs == \A kind, i, j : Token(kind, i, j).kind = kind /\ Token(kind, i, j).from = i /\ Token(kind, i, j).to = j
  BY DEF Token

(* A token that is neither an integer nor an operator *)
LEMMA PlainToken ==
  ASSUME TextType, NEW kind, kind # "int", kind # "operator", NEW i \in 1 .. Past, NEW j \in i .. Past
  PROVE  TokenOf(text, Token(kind, i, j))
  <1>1. Past = Len(text) + 1
    BY TextIs
  <1> QED BY <1>1, TokenIs DEF TokenOf

-----------------------------------------------------------------------------
(* Numbers. *)

LEMMA DigitsAre ==
  /\ \A radix \in Int : "end" \notin RadixDigits(radix) /\ \A c \in RadixDigits(radix) : IsDigit(c, radix)
  /\ \A c \in Digits : IsDigit(c, 10)
  /\ "end" \notin Letters \union Digits /\ "end" \notin Digits /\ "end" \notin Letters \union Digits \union {"."}
  /\ "x" \notin Digits /\ "b" \notin Digits /\ "o" \notin Digits
  <1> DEFINE D == {"0", "1", "9", "a", "b", "e"}
  <1>1. DOMAIN DigitValue = D
    BY Zenon DEF DigitValue
  <1>2. DigitValue["0"] = 0
    BY Zenon DEF DigitValue
  <1>3. DigitValue["1"] = 1
    BY Zenon DEF DigitValue
  <1>4. DigitValue["9"] = 9
    BY Zenon DEF DigitValue
  <1>5. \A radix : \A c \in RadixDigits(radix) : c \in D /\ IsDigit(c, radix)
    BY <1>1, Zenon DEF RadixDigits, IsDigit
  <1>6. \A c \in Digits : IsDigit(c, 10)
    BY <1>1, <1>2, <1>3, <1>4 DEF Digits, IsDigit
  <1>7. "end" \notin Letters \union Digits /\ "end" \notin Digits /\ "end" \notin Letters \union Digits \union {"."}
    BY DEF Digits, Letters
  <1>8. "x" \notin Digits /\ "b" \notin Digits /\ "o" \notin Digits
    BY DEF Digits
  <1>9. "end" \notin D
    OBVIOUS
  <1> QED BY <1>5, <1>6, <1>7, <1>8, <1>9

(* A prefix and digits of its radix *)
LEMMA PrefixedConverts ==
  ASSUME TextType, NEW i \in 1 .. Past - 2, text[i] = "0", NEW radix, NEW second, text[i + 1] = second,
         <<second, radix>> \in {<<"x", 16>>, <<"b", 2>>, <<"o", 8>>},
         NEW end \in i + 3 .. Past, \A k \in i + 2 .. end - 1 : peek(k) \in RadixDigits(radix)
  PROVE  TokenOf(text, Token("int", i, end))
  <1> DEFINE t == Token("int", i, end)
  <1>1. t.from = i /\ t.to = end /\ t.kind = "int"
    BY TokenIs
  <1>2. Past = Len(text) + 1 /\ Past \in Nat
    BY TextIs
  <1>3. (t.to - t.from >= 2) = TRUE
    BY <1>1, <1>2
  <1> HIDE DEF t
  <1>4. RadixIn(text, t) = radix
    <2>1. CASE second = "x" /\ radix = 16
      BY <1>1, <1>3, <2>1, Zenon DEF RadixIn
    <2>2. CASE second = "b" /\ radix = 2
      BY <1>1, <1>3, <2>2, Zenon DEF RadixIn
    <2>3. CASE second = "o" /\ radix = 8
      BY <1>1, <1>3, <2>3, Zenon DEF RadixIn
    <2> QED BY <2>1, <2>2, <2>3
  <1>5. radix \in Int /\ radix # 10
    OBVIOUS
  <1>6. ASSUME NEW k \in i + 2 .. end - 1 PROVE IsDigit(text[k], radix)
    <2>1. k \in 1 .. Past - 1
      BY <1>2
    <2>2. peek(k) = text[k]
      BY <2>1, TextIs
    <2> QED BY <1>5, <2>2, DigitsAre
  <1>7. ConvertsIn(text, t)
    BY <1>1, <1>2, <1>4, <1>5, <1>6 DEF ConvertsIn
  <1>8. i \in 1 .. Len(text) + 1 /\ end \in i .. Len(text) + 1
    BY <1>2
  <1> QED BY <1>1, <1>7, <1>8 DEF TokenOf, t

LEMMA DecimalConverts ==
  ASSUME TextType, NEW i \in 1 .. Past - 1, NEW end \in i + 1 .. Past, \A k \in i .. end - 1 : peek(k) \in Digits
  PROVE  TokenOf(text, Token("int", i, end))
  <1> DEFINE t == Token("int", i, end)
  <1>1. t.from = i /\ t.to = end /\ t.kind = "int"
    BY TokenIs
  <1>2. Past = Len(text) + 1 /\ Past \in Nat
    BY TextIs
  <1>3. \A k \in i .. end - 1 : text[k] \in Digits
    <2>1. \A k \in i .. end - 1 : k \in 1 .. Past - 1
      BY <1>2
    <2> QED BY <2>1, TextIs
  <1> HIDE DEF t
  <1>4. RadixIn(text, t) = 10
    <2>1. CASE t.to - t.from >= 2
      <3>1. i + 1 \in i .. end - 1
        BY <1>1, <1>2, <2>1
      <3>2. text[i + 1] # "x" /\ text[i + 1] # "b" /\ text[i + 1] # "o"
        BY <1>3, <3>1, DigitsAre
      <3> QED BY <1>1, <3>2, Zenon DEF RadixIn
    <2>2. CASE ~ (t.to - t.from >= 2)
      BY <2>2, Zenon DEF RadixIn
    <2> QED BY <2>1, <2>2
  <1>5. ConvertsIn(text, t)
    BY <1>1, <1>2, <1>3, <1>4, DigitsAre DEF ConvertsIn
  <1>6. i \in 1 .. Len(text) + 1 /\ end \in i .. Len(text) + 1
    BY <1>2
  <1> QED BY <1>1, <1>5, <1>6 DEF TokenOf, t

(* The places after a mantissa that has an exponent *)
LEMMA SignIs ==
  ASSUME TextType, NEW m \in 1 .. Past, peek(m) # "end",
         NEW sign, sign = IF peek(m + 1) \in {"+", "-"} THEN m + 2 ELSE m + 1
  PROVE  sign \in m + 1 .. Past
  <1>1. Past \in Nat /\ m \in Int /\ m >= 1 /\ m + 1 \in Int /\ m + 1 >= 1
    BY TextIs
  <1>2. m + 1 \in 1 .. Past
    BY <1>1, PeekIs
  <1>3. CASE peek(m + 1) \in {"+", "-"}
    <2>1. peek(m + 1) # "end"
      BY <1>3
    <2>2. (m + 1) + 1 \in 1 .. Past
      BY <1>1, <2>1, PeekIs
    <2> QED BY <1>1, <1>3, <2>2
  <1>4. CASE ~ (peek(m + 1) \in {"+", "-"})
    BY <1>1, <1>2, <1>4
  <1> QED BY <1>3, <1>4

LEMMA HexIs ==
  ASSUME TextType, NEW i \in 1 .. Past - 2, text[i] = "0", text[i + 1] = "x"
  PROVE  TokenOf(text, scan_hex_number(i)) /\ scan_hex_number(i).from = i
  <1> DEFINE R == RadixDigits(16)
             W == Letters \union Digits
             whole == Skip(i + 2, R)
             point == peek(whole) = "."
             mantissa == IF point THEN Skip(whole + 1, R) ELSE whole
             digits == mantissa - (i + 2) - (IF point THEN 1 ELSE 0)
             sign == IF peek(mantissa + 1) \in {"+", "-"} THEN mantissa + 2 ELSE mantissa + 1
             exponent == Skip(sign, Digits)
             Word(j) == Skip(j, W)
             rest == Skip(mantissa, W \union {"."})
  <1>1. scan_hex_number(i) =
          IF digits = 0 THEN Token("error", i, rest)
          ELSE IF peek(mantissa) = "p"
               THEN IF peek(sign) \notin Digits THEN Token("error", i, Word(sign))
                    ELSE IF Word(exponent) > exponent THEN Token("error", i, Word(exponent))
                    ELSE Token("float", i, exponent)
          ELSE IF point \/ Word(mantissa) > mantissa THEN Token("error", i, Word(mantissa))
          ELSE Token("int", i, mantissa)
    BY Zenon DEF scan_hex_number
  <1>2. Past \in Nat /\ i + 2 \in 1 .. Past /\ i \in 1 .. Past
    BY TextIs
  <1>3. "end" \notin R /\ "end" \notin W /\ "end" \notin Digits /\ "end" \notin W \union {"."}
    BY DigitsAre
  <1> HIDE DEF R, W
  <1>4. whole \in i + 2 .. Past /\ \A k \in i + 2 .. whole - 1 : peek(k) \in R
    BY <1>2, <1>3, SkipIs
  <1> HIDE DEF whole
  <1>5. whole \in 1 .. Past /\ whole \in Int /\ whole >= 1
    BY <1>2, <1>4
  <1>6. mantissa \in whole .. Past /\ (~ point => mantissa = whole) /\ mantissa \in 1 .. Past
    <2>1. CASE point
      <3>1. peek(whole) # "end"
        BY <2>1
      <3>2. whole + 1 \in 1 .. Past
        BY <1>5, <3>1, PeekIs
      <3>3. Skip(whole + 1, R) \in whole + 1 .. Past
        BY <1>3, <3>2, SkipIs
      <3> QED BY <1>2, <1>5, <2>1, <3>3
    <2>2. CASE ~ point
      BY <1>2, <1>5, <2>2
    <2> QED BY <2>1, <2>2
  <1>7. point \in BOOLEAN /\ (~ point => digits = mantissa - (i + 2))
    <2>1. mantissa \in Int /\ i \in Int /\ point \in BOOLEAN
      BY <1>2, <1>6
    <2> HIDE DEF mantissa, point
    <2> QED BY <2>1
  <1>8. rest \in mantissa .. Past /\ Word(mantissa) \in mantissa .. Past
    BY <1>3, <1>6, SkipIs
  <1>9. ASSUME peek(mantissa) = "p" PROVE sign \in mantissa + 1 .. Past
    <2> HIDE DEF mantissa
    <2>1. peek(mantissa) # "end"
      BY <1>9
    <2> QED BY <1>6, <2>1, SignIs
  <1> HIDE DEF point, mantissa, digits, rest, Word
  <1>10. \A j \in i .. Past : TokenOf(text, Token("error", i, j)) /\ TokenOf(text, Token("float", i, j))
    BY <1>2, PlainToken
  <1>11. \A j \in mantissa .. Past : j \in i .. Past
    BY <1>2, <1>4, <1>6
  <1>12. CASE digits = 0
    <2>1. scan_hex_number(i) = Token("error", i, rest)
      BY <1>1, <1>12
    <2> QED BY <1>8, <1>10, <1>11, <2>1, TokenIs
  <1>13. CASE digits # 0 /\ peek(mantissa) = "p"
    <2>1. sign \in mantissa + 1 .. Past /\ sign \in 1 .. Past
      BY <1>2, <1>6, <1>9, <1>13
    <2> HIDE DEF sign
    <2>2. exponent \in sign .. Past /\ exponent \in 1 .. Past
      BY <1>2, <1>3, <2>1, SkipIs
    <2> HIDE DEF exponent
    <2>3. Word(sign) \in sign .. Past /\ Word(exponent) \in exponent .. Past
      BY <1>3, <2>1, <2>2, SkipIs DEF Word
    <2>4. Word(sign) \in mantissa .. Past /\ Word(exponent) \in mantissa .. Past /\ exponent \in mantissa .. Past
      BY <1>2, <1>6, <2>1, <2>2, <2>3
    <2>5. \/ scan_hex_number(i) = Token("error", i, Word(sign))
          \/ scan_hex_number(i) = Token("error", i, Word(exponent))
          \/ scan_hex_number(i) = Token("float", i, exponent)
      BY <1>1, <1>13
    <2> QED BY <1>10, <1>11, <2>4, <2>5, TokenIs
  <1>14. CASE digits # 0 /\ peek(mantissa) # "p" /\ (point \/ Word(mantissa) > mantissa)
    <2>1. scan_hex_number(i) = Token("error", i, Word(mantissa))
      BY <1>1, <1>14
    <2> QED BY <1>8, <1>10, <1>11, <2>1, TokenIs
  <1>15. CASE digits # 0 /\ peek(mantissa) # "p" /\ ~ (point \/ Word(mantissa) > mantissa)
    <2>1. scan_hex_number(i) = Token("int", i, mantissa)
      BY <1>1, <1>15
    <2>2. mantissa = whole /\ mantissa # i + 2
      BY <1>2, <1>6, <1>7, <1>15
    <2>3. mantissa \in i + 3 .. Past /\ \A k \in i + 2 .. mantissa - 1 : peek(k) \in RadixDigits(16)
      BY <1>2, <1>4, <2>2 DEF R
    <2>4. TokenOf(text, Token("int", i, mantissa))
      BY <2>3, PrefixedConverts
    <2> QED BY <2>1, <2>4, TokenIs
  <1> QED BY <1>7, <1>12, <1>13, <1>14, <1>15

LEMMA PrefixedIs ==
  ASSUME TextType, NEW i \in 1 .. Past - 2, text[i] = "0", NEW radix, NEW second, text[i + 1] = second,
         <<second, radix>> \in {<<"b", 2>>, <<"o", 8>>}
  PROVE  TokenOf(text, scan_prefixed_integer(i, radix)) /\ scan_prefixed_integer(i, radix).from = i
  <1> DEFINE R == RadixDigits(radix)
             W == Letters \union Digits
             end == Skip(i + 2, R)
             word == Skip(end, W)
  <1>1. scan_prefixed_integer(i, radix) = Token(IF end = i + 2 \/ word > end THEN "error" ELSE "int", i, word)
    BY DEF scan_prefixed_integer
  <1>2. Past \in Nat /\ i + 2 \in 1 .. Past /\ i \in 1 .. Past /\ radix \in Int
    BY TextIs
  <1>3. "end" \notin R /\ "end" \notin W
    BY <1>2, DigitsAre
  <1> HIDE DEF R, W
  <1>4. end \in i + 2 .. Past /\ \A k \in i + 2 .. end - 1 : peek(k) \in R
    BY <1>2, <1>3, SkipIs
  <1> HIDE DEF end
  <1>5. end \in 1 .. Past
    BY <1>2, <1>4
  <1>6. word \in end .. Past
    BY <1>3, <1>5, SkipIs
  <1> HIDE DEF word
  <1>7. word \in i .. Past
    BY <1>2, <1>4, <1>6
  <1>8. CASE end = i + 2 \/ word > end
    BY <1>1, <1>2, <1>7, <1>8, PlainToken, TokenIs
  <1>9. CASE ~ (end = i + 2 \/ word > end)
    <2>1. word = end /\ word \in i + 3 .. Past
      BY <1>2, <1>4, <1>6, <1>9
    <2>2. \A k \in i + 2 .. word - 1 : peek(k) \in RadixDigits(radix)
      BY <1>4, <2>1 DEF R
    <2>3. <<second, radix>> \in {<<"x", 16>>, <<"b", 2>>, <<"o", 8>>}
      OBVIOUS
    <2>4. TokenOf(text, Token("int", i, word))
      BY <2>1, <2>2, <2>3, PrefixedConverts
    <2> QED BY <1>1, <1>9, <2>4, TokenIs
  <1> QED BY <1>8, <1>9

LEMMA DecimalIs ==
  ASSUME TextType, NEW i \in 1 .. Past - 1, text[i] \in Digits
  PROVE  TokenOf(text, scan_decimal(i)) /\ scan_decimal(i).from = i
  <1> DEFINE whole == Skip(i, Digits)
             fraction == IF peek(whole) = "." /\ peek(whole + 1) \in Digits THEN Skip(whole + 1, Digits) ELSE whole
             sign == IF peek(fraction + 1) \in {"+", "-"} THEN fraction + 2 ELSE fraction + 1
  <1>1. scan_decimal(i) =
          IF peek(fraction) # "e" THEN Token(IF fraction > whole THEN "float" ELSE "int", i, fraction)
          ELSE IF peek(sign) \notin Digits THEN Token("error", i, sign) ELSE Token("float", i, Skip(sign, Digits))
    BY Zenon DEF scan_decimal
  <1>2. Past \in Nat /\ i \in 1 .. Past /\ "end" \notin Digits /\ peek(i) = text[i]
    BY TextIs, DigitsAre
  <1>3. whole \in i + 1 .. Past /\ \A k \in i .. whole - 1 : peek(k) \in Digits
    BY <1>2, SkipIs, SkipMoves
  <1> HIDE DEF whole
  <1>4. whole \in Int /\ whole >= 1 /\ whole \in 1 .. Past
    BY <1>2, <1>3
  <1>5. fraction \in whole .. Past
    <2>1. CASE peek(whole) = "." /\ peek(whole + 1) \in Digits
      <3>1. peek(whole) # "end"
        BY <2>1
      <3>2. whole + 1 \in 1 .. Past
        BY <1>4, <3>1, PeekIs
      <3>3. Skip(whole + 1, Digits) \in whole + 1 .. Past
        BY <1>2, <3>2, SkipIs
      <3> QED BY <1>2, <1>4, <2>1, <3>3
    <2>2. CASE ~ (peek(whole) = "." /\ peek(whole + 1) \in Digits)
      BY <1>2, <1>4, <2>2
    <2> QED BY <2>1, <2>2
  <1> HIDE DEF fraction
  <1>6. fraction \in 1 .. Past /\ fraction \in i .. Past
    BY <1>2, <1>3, <1>5
  <1>7. CASE peek(fraction) # "e" /\ fraction > whole
    <2>1. scan_decimal(i) = Token("float", i, fraction)
      BY <1>1, <1>7
    <2> QED BY <1>2, <1>6, <2>1, PlainToken, TokenIs
  <1>8. CASE peek(fraction) # "e" /\ ~ (fraction > whole)
    <2>1. scan_decimal(i) = Token("int", i, fraction)
      BY <1>1, <1>8
    <2>2. fraction = whole
      BY <1>2, <1>4, <1>5, <1>8
    <2>3. TokenOf(text, Token("int", i, whole))
      BY <1>3, DecimalConverts
    <2> QED BY <2>1, <2>2, <2>3, TokenIs
  <1>9. CASE peek(fraction) = "e"
    <2>1. peek(fraction) # "end"
      BY <1>9
    <2>2. sign \in fraction + 1 .. Past
      BY <1>6, <2>1, SignIs
    <2> HIDE DEF sign
    <2>3. sign \in 1 .. Past /\ sign \in i .. Past
      BY <1>2, <1>6, <2>2
    <2>4. Skip(sign, Digits) \in sign .. Past
      BY <1>2, <2>3, SkipIs
    <2>5. Skip(sign, Digits) \in i .. Past
      BY <1>2, <2>3, <2>4
    <2>6. scan_decimal(i) = Token("error", i, sign) \/ scan_decimal(i) = Token("float", i, Skip(sign, Digits))
      BY <1>1, <1>9
    <2> QED BY <1>2, <2>3, <2>5, <2>6, PlainToken, TokenIs
  <1> QED BY <1>7, <1>8, <1>9

LEMMA NumberIs ==
  ASSUME TextType, NEW i \in 1 .. Past - 1, text[i] \in Digits
  PROVE  TokenOf(text, scan_number(i)) /\ scan_number(i).from = i
  <1>1. Past \in Nat /\ i + 1 \in Int /\ i + 1 >= 1
    BY TextIs
  <1>2. ASSUME peek(i + 1) \in {"x", "b", "o"} PROVE i \in 1 .. Past - 2 /\ text[i + 1] = peek(i + 1)
    <2>1. peek(i + 1) # "end"
      BY <1>2
    <2>2. i + 1 \in 1 .. Past - 1 /\ text[i + 1] = peek(i + 1)
      BY <1>1, <2>1, PeekIs
    <2> QED BY <1>1, <2>2
  <1>3. CASE text[i] = "0" /\ peek(i + 1) = "x"
    <2>1. scan_number(i) = scan_hex_number(i)
      BY <1>3, Zenon DEF scan_number
    <2> QED BY <1>2, <1>3, <2>1, HexIs
  <1>4. CASE text[i] = "0" /\ peek(i + 1) = "b"
    <2>1. scan_number(i) = scan_prefixed_integer(i, 2)
      BY <1>4, Zenon DEF scan_number
    <2>2. i \in 1 .. Past - 2 /\ text[i + 1] = "b" /\ <<"b", 2>> \in {<<"b", 2>>, <<"o", 8>>}
      BY <1>2, <1>4
    <2> QED BY <1>4, <2>1, <2>2, PrefixedIs
  <1>5. CASE text[i] = "0" /\ peek(i + 1) = "o"
    <2>1. scan_number(i) = scan_prefixed_integer(i, 8)
      BY <1>5, Zenon DEF scan_number
    <2>2. i \in 1 .. Past - 2 /\ text[i + 1] = "o" /\ <<"o", 8>> \in {<<"b", 2>>, <<"o", 8>>}
      BY <1>2, <1>5
    <2> QED BY <1>5, <2>1, <2>2, PrefixedIs
  <1>6. CASE ~ (text[i] = "0" /\ (peek(i + 1) = "x" \/ peek(i + 1) = "b" \/ peek(i + 1) = "o"))
    <2>1. scan_number(i) = scan_decimal(i)
      BY <1>6, Zenon DEF scan_number
    <2> QED BY <2>1, DecimalIs
  <1> QED BY <1>3, <1>4, <1>5, <1>6

-----------------------------------------------------------------------------
(* Strings and characters. *)

LEMMA StringIs == ASSUME TextType, NEW i \in 1 .. Past - 1 PROVE TokenOf(text, scan_string(i)) /\ scan_string(i).from = i
  <1>1. Past \in Nat /\ i \in 1 .. Past /\ i + 1 \in 1 .. Past + 1 /\ Past \in i .. Past
    BY TextIs
  <1>2. closing_quote[i + 1] \in i + 1 .. Past + 1
    BY <1>1, QuoteIs
  <1>3. CASE closing_quote[i + 1] >= Past
    <2>1. scan_string(i) = Token("error", i, Past)
      BY <1>3 DEF scan_string
    <2> QED BY <1>1, <2>1, PlainToken, TokenIs
  <1>4. CASE ~ (closing_quote[i + 1] >= Past)
    <2>1. scan_string(i) = Token("string", i, closing_quote[i + 1] + 1)
      BY <1>4 DEF scan_string
    <2>2. closing_quote[i + 1] + 1 \in i .. Past
      BY <1>1, <1>2, <1>4
    <2> QED BY <1>1, <2>1, <2>2, PlainToken, TokenIs
  <1> QED BY <1>3, <1>4

LEMMA CharIs == ASSUME TextType, NEW i \in 1 .. Past - 1 PROVE TokenOf(text, scan_char(i)) /\ scan_char(i).from = i
  <1> DEFINE body == IF peek(i + 1) = "\\" THEN i + 3 ELSE i + 2
  <1>1. scan_char(i) =
          IF peek(i + 1) = "end" \/ (peek(i + 1) = "\\" /\ peek(i + 2) = "end") THEN Token("error", i, Past)
          ELSE IF peek(body) # "'" THEN Token("error", i, body) ELSE Token("char", i, body + 1)
    BY Zenon DEF scan_char
  <1>2. Past \in Nat /\ i \in 1 .. Past /\ Past \in i .. Past /\ i + 1 \in Int /\ i + 1 >= 1 /\ i + 2 \in Int /\ i + 2 >= 1
    BY TextIs
  <1>3. CASE peek(i + 1) = "end" \/ (peek(i + 1) = "\\" /\ peek(i + 2) = "end")
    <2>1. scan_char(i) = Token("error", i, Past)
      BY <1>1, <1>3
    <2> QED BY <1>2, <2>1, PlainToken, TokenIs
  <1>4. CASE ~ (peek(i + 1) = "end" \/ (peek(i + 1) = "\\" /\ peek(i + 2) = "end"))
    <2>1. body \in i + 2 .. Past
      <3>1. (i + 1) + 1 \in 1 .. Past
        BY <1>2, <1>4, PeekIs
      <3>2. CASE peek(i + 1) = "\\"
        <4>1. (i + 2) + 1 \in 1 .. Past
          BY <1>2, <1>4, <3>2, PeekIs
        <4> QED BY <1>2, <3>2, <4>1
      <3>3. CASE peek(i + 1) # "\\"
        BY <1>2, <3>1, <3>3
      <3> QED BY <3>2, <3>3
    <2> HIDE DEF body
    <2>2. body \in i .. Past /\ body \in Int /\ body >= 1
      BY <1>2, <2>1
    <2>3. CASE peek(body) # "'"
      <3>1. scan_char(i) = Token("error", i, body)
        BY <1>1, <1>4, <2>3
      <3> QED BY <1>2, <2>2, <3>1, PlainToken, TokenIs
    <2>4. CASE peek(body) = "'"
      <3>1. scan_char(i) = Token("char", i, body + 1)
        BY <1>1, <1>4, <2>4
      <3>2. peek(body) # "end"
        BY <2>4
      <3>3. body + 1 \in 1 .. Past
        BY <2>2, <3>2, PeekIs
      <3>4. body + 1 \in i .. Past
        BY <1>2, <2>2, <3>3
      <3> QED BY <1>2, <3>1, <3>4, PlainToken, TokenIs
    <2> QED BY <2>3, <2>4
  <1> QED BY <1>3, <1>4

-----------------------------------------------------------------------------
(* Operators. *)

LEMMA Tails ==
  /\ Tail2("+") = {"+", "="} /\ Tail2("-") = {"-", "=", ">"} /\ Tail2("*") = {"="} /\ Tail2("/") = {"="}
  /\ Tail2(":") = {":", "="} /\ Tail2("=") = {"="} /\ Tail2("!") = {"="}
  /\ Tail2("&") = {"&", "="} /\ Tail2("|") = {"|", "="}
  /\ \A c : "end" \notin Tail2(c)
  <1>1. \A c : /\ c = "+" => arithmetic_tail(c) = {"+", "="}
               /\ c = "-" => arithmetic_tail(c) = {"-", "=", ">"}
               /\ c = "*" \/ c = "/" => arithmetic_tail(c) = {"="}
               /\ ~ (c \in {"+", "-", "*", "/"}) => arithmetic_tail(c) = {}
    <2> TAKE c
    <2>1. ASSUME c = "+" PROVE arithmetic_tail(c) = {"+", "="}
      BY <2>1, Zenon DEF arithmetic_tail
    <2>2. ASSUME c = "-" PROVE arithmetic_tail(c) = {"-", "=", ">"}
      BY <2>2, Zenon DEF arithmetic_tail
    <2>3. ASSUME c = "*" \/ c = "/" PROVE arithmetic_tail(c) = {"="}
      BY <2>3, Zenon DEF arithmetic_tail
    <2>4. ASSUME ~ (c \in {"+", "-", "*", "/"}) PROVE arithmetic_tail(c) = {}
      BY <2>4, Zenon DEF arithmetic_tail
    <2> QED BY <2>1, <2>2, <2>3, <2>4
  <1>2. \A c : /\ c = ":" => comparison_tail(c) = {":", "="}
               /\ c = "=" \/ c = "!" => comparison_tail(c) = {"="}
               /\ ~ (c \in {":", "=", "!"}) => comparison_tail(c) = {}
    <2> TAKE c
    <2>1. ASSUME c = ":" PROVE comparison_tail(c) = {":", "="}
      BY <2>1, Zenon DEF comparison_tail
    <2>2. ASSUME c = "=" \/ c = "!" PROVE comparison_tail(c) = {"="}
      BY <2>2, Zenon DEF comparison_tail
    <2>3. ASSUME ~ (c \in {":", "=", "!"}) PROVE comparison_tail(c) = {}
      BY <2>3, Zenon DEF comparison_tail
    <2> QED BY <2>1, <2>2, <2>3
  <1>3. \A c : /\ c = "&" => bit_tail(c) = {"&", "="}
               /\ c = "|" => bit_tail(c) = {"|", "="}
               /\ ~ (c \in {"&", "|"}) => bit_tail(c) = {}
    <2> TAKE c
    <2>1. ASSUME c = "&" PROVE bit_tail(c) = {"&", "="}
      BY <2>1, Zenon DEF bit_tail
    <2>2. ASSUME c = "|" PROVE bit_tail(c) = {"|", "="}
      BY <2>2, Zenon DEF bit_tail
    <2>3. ASSUME ~ (c \in {"&", "|"}) PROVE bit_tail(c) = {}
      BY <2>3, Zenon DEF bit_tail
    <2> QED BY <2>1, <2>2, <2>3
  <1>4. Tail2("+") = {"+", "="} /\ Tail2("-") = {"-", "=", ">"} /\ Tail2("*") = {"="} /\ Tail2("/") = {"="}
    BY <1>1, <1>2, <1>3 DEF Tail2
  <1>5. Tail2(":") = {":", "="} /\ Tail2("=") = {"="} /\ Tail2("!") = {"="}
    BY <1>1, <1>2, <1>3 DEF Tail2
  <1>6. Tail2("&") = {"&", "="} /\ Tail2("|") = {"|", "="}
    BY <1>1, <1>2, <1>3 DEF Tail2
  <1>7. \A c : "end" \notin arithmetic_tail(c)
    BY <1>1
  <1>8. \A c : "end" \notin comparison_tail(c) /\ "end" \notin bit_tail(c)
    BY <1>2, <1>3
  <1>9. \A c : "end" \notin Tail2(c)
    BY <1>7, <1>8 DEF Tail2
  <1> QED BY <1>4, <1>5, <1>6, <1>9

LEMMA SpellingsAre ==
  \A s \in Spellings :
    \/ Len(s) = 2 /\ s[1] \notin {"<", ">", "."} /\ s[2] \in Tail2(s[1])
    \/ Len(s) = 2 /\ s[1] \in {"<", ">"} /\ s[2] \in {s[1], "="}
    \/ Len(s) = 3 /\ s[1] \in {"<", ">"} /\ s[2] = s[1] /\ s[3] = "="
    \/ Len(s) = 3 /\ s[1] = "." /\ s[2] = "." /\ s[3] = "."
  <1> DEFINE P(s) == \/ Len(s) = 2 /\ s[1] \notin {"<", ">", "."} /\ s[2] \in Tail2(s[1])
                     \/ Len(s) = 2 /\ s[1] \in {"<", ">"} /\ s[2] \in {s[1], "="}
                     \/ Len(s) = 3 /\ s[1] \in {"<", ">"} /\ s[2] = s[1] /\ s[3] = "="
                     \/ Len(s) = 3 /\ s[1] = "." /\ s[2] = "." /\ s[3] = "."
  <1>1. \A a, b : Len(<<a, b>>) = 2 /\ <<a, b>>[1] = a /\ <<a, b>>[2] = b
    OBVIOUS
  <1>2. \A a, b, c : Len(<<a, b, c>>) = 3 /\ <<a, b, c>>[1] = a /\ <<a, b, c>>[2] = b /\ <<a, b, c>>[3] = c
    OBVIOUS
  <1>3. \A a, b : a \notin {"<", ">", "."} /\ b \in Tail2(a) => P(<<a, b>>)
    BY <1>1
  <1>4. P(<<"+", "+">>) /\ P(<<"+", "=">>) /\ P(<<"-", "-">>) /\ P(<<"-", "=">>) /\ P(<<"-", ">">>)
    <2> HIDE DEF P
    <2> QED BY <1>3, Tails
  <1>5. P(<<":", ":">>) /\ P(<<":", "=">>) /\ P(<<"=", "=">>) /\ P(<<"!", "=">>)
    <2> HIDE DEF P
    <2> QED BY <1>3, Tails
  <1>6. P(<<"&", "&">>) /\ P(<<"|", "|">>) /\ P(<<"*", "=">>) /\ P(<<"/", "=">>) /\ P(<<"&", "=">>) /\ P(<<"|", "=">>)
    <2> HIDE DEF P
    <2> QED BY <1>3, Tails
  <1>7. \A a, b : a \in {"<", ">"} /\ b \in {a, "="} => P(<<a, b>>)
    BY <1>1
  <1>8. P(<<"<", "=">>) /\ P(<<">", "=">>) /\ P(<<"<", "<">>) /\ P(<<">", ">">>)
    <2> HIDE DEF P
    <2> QED BY <1>7
  <1>9. P(<<"<", "<", "=">>) /\ P(<<">", ">", "=">>) /\ P(<<".", ".", ".">>)
    BY <1>2
  <1> HIDE DEF P
  <1>10. \A s \in Spellings : P(s)
    BY <1>4, <1>5, <1>6, <1>8, <1>9, Zenon DEF Spellings
  <1> QED BY <1>10 DEF P

(* A spelling found in the text *)
LEMMA SpelledIs ==
  ASSUME TextType, NEW i \in 1 .. Past - 1, NEW s, NEW n \in {2, 3}, Len(s) = n, i + n < Len(text) + 2, SubSeq(text, i, i + n - 1) = s
  PROVE  s[1] = text[i] /\ s[2] = text[i + 1] /\ peek(i + 1) = text[i + 1] /\ (n = 3 => s[3] = text[i + 2] /\ peek(i + 2) = text[i + 2])
  <1>1. Past \in Nat /\ Past = Len(text) + 1 /\ DOMAIN text = 1 .. Past - 1 /\ text \in Seq(Character) /\ Len(text) \in Nat
    BY TextIs DEF TextType
  <1>2. i + 1 \in 1 .. Past - 1 /\ (n = 3 => i + 2 \in 1 .. Past - 1) /\ i + n - 1 \in 1 .. Len(text)
    BY <1>1
  <1>3. \A k \in 1 .. n : SubSeq(text, i, i + n - 1)[k] = text[i + k - 1]
    BY <1>1, <1>2
  <1>4. s[1] = text[i] /\ s[2] = text[i + 1] /\ (n = 3 => s[3] = text[i + 2])
    <2>1. \A k \in 1 .. n : s[k] = text[i + k - 1]
      BY <1>3
    <2>2. 1 \in 1 .. n /\ 2 \in 1 .. n /\ (n = 3 => 3 \in 1 .. n) /\ i + 1 - 1 = i /\ i + 2 - 1 = i + 1 /\ i + 3 - 1 = i + 2
      BY <1>1
    <2>3. s[1] = text[i + 1 - 1] /\ s[2] = text[i + 2 - 1] /\ (n = 3 => s[3] = text[i + 3 - 1])
      BY ONLY <2>1, <2>2
    <2> QED BY ONLY <2>2, <2>3
  <1> QED BY <1>2, <1>4, TextIs

LEMMA OperatorEnd ==
  ASSUME NEW i \in Int
  PROVE  /\ text[i] = "." => operator_end(i) = IF peek(i + 1) = "." /\ peek(i + 2) = "." THEN i + 3 ELSE i + 1
         /\ text[i] \in {"<", ">"} =>
              operator_end(i) = IF peek(i + 1) = text[i] THEN (IF peek(i + 2) = "=" THEN i + 3 ELSE i + 2)
                                ELSE IF peek(i + 1) = "=" THEN i + 2 ELSE i + 1
         /\ text[i] \notin {"<", ">", "."} => operator_end(i) = IF peek(i + 1) \in Tail2(text[i]) THEN i + 2 ELSE i + 1
  <1>1. ASSUME text[i] = "." PROVE operator_end(i) = ellipsis_end(i)
    BY <1>1, Zenon DEF operator_end
  <1>2. ASSUME text[i] \in {"<", ">"} PROVE operator_end(i) = angle_end(i)
    <2>1. text[i] # "."
      BY <1>2
    <2> QED BY <1>2, <2>1, Zenon DEF operator_end
  <1>3. ASSUME text[i] \notin {"<", ">", "."} PROVE operator_end(i) = IF peek(i + 1) \in Tail2(text[i]) THEN i + 2 ELSE i + 1
    <2>1. text[i] # "." /\ ~ (text[i] \in {"<", ">"})
      BY <1>3
    <2> QED BY <2>1, Zenon DEF operator_end
  <1>4. ASSUME text[i] \in {"<", ">"}
        PROVE  angle_end(i) = IF peek(i + 1) = text[i] THEN (IF peek(i + 2) = "=" THEN i + 3 ELSE i + 2)
                              ELSE IF peek(i + 1) = "=" THEN i + 2 ELSE i + 1
    <2>1. text[i] # "="
      BY <1>4
    <2>2. CASE peek(i + 1) = text[i]
      BY <2>1, <2>2, Zenon DEF angle_end
    <2>3. CASE peek(i + 1) # text[i] /\ peek(i + 1) = "="
      BY <2>3, Zenon DEF angle_end
    <2>4. CASE peek(i + 1) # text[i] /\ peek(i + 1) # "="
      BY <2>4, Zenon DEF angle_end
    <2> QED BY <2>2, <2>3, <2>4
  <1> QED BY <1>1, <1>2, <1>3, <1>4 DEF ellipsis_end

LEMMA OperatorIs == ASSUME TextType, NEW i \in 1 .. Past - 1 PROVE TokenOf(text, Token("operator", i, operator_end(i)))
  <1> DEFINE e == operator_end(i)
             t == Token("operator", i, e)
             a == text[i]
             b == peek(i + 1)
             c == peek(i + 2)
  <1>1. Past \in Nat /\ Past = Len(text) + 1 /\ i \in Int /\ i + 1 \in Int /\ i + 1 >= 1 /\ i + 2 \in Int /\ i + 2 >= 1
    BY TextIs
  <1>2. /\ a = "." => e = IF b = "." /\ c = "." THEN i + 3 ELSE i + 1
        /\ a \in {"<", ">"} => e = IF b = a THEN (IF c = "=" THEN i + 3 ELSE i + 2) ELSE IF b = "=" THEN i + 2 ELSE i + 1
        /\ a \notin {"<", ">", "."} => e = IF b \in Tail2(a) THEN i + 2 ELSE i + 1
    BY <1>1, OperatorEnd
  <1>3. (b # "end" => i + 2 \in 1 .. Past) /\ (c # "end" => i + 3 \in 1 .. Past)
    <2>1. (b # "end" => (i + 1) + 1 \in 1 .. Past) /\ (c # "end" => (i + 2) + 1 \in 1 .. Past)
      BY <1>1, PeekIs
    <2> QED BY <1>1, <2>1
  <1>4. a # "end" /\ "end" \notin Tail2(a)
    BY TextIs, Tails
  <1> HIDE DEF e, a, b, c
  <1>5. e \in i .. Past
    BY <1>1, <1>2, <1>3, <1>4
  <1>6. t.kind = "operator" /\ t.from = i /\ t.to = e
    BY TokenIs
  <1> HIDE DEF t
  <1>7. ASSUME NEW s \in Spellings, i + Len(s) < Len(text) + 2, SubSeq(text, i, i + Len(s) - 1) = s PROVE e >= i + Len(s)
    <2>1. Len(s) \in {2, 3}
      BY SpellingsAre
    <2>2. s[1] = a /\ s[2] = b /\ (Len(s) = 3 => s[3] = c)
      <3>1. s[1] = text[i] /\ s[2] = text[i + 1] /\ peek(i + 1) = text[i + 1] /\ (Len(s) = 3 => s[3] = text[i + 2] /\ peek(i + 2) = text[i + 2])
        BY <1>7, <2>1, SpelledIs
      <3> QED BY <3>1 DEF a, b, c
    <2>3. CASE Len(s) = 2 /\ a \notin {"<", ">", "."} /\ b \in Tail2(a)
      BY <1>1, <1>2, <2>3
    <2>4. CASE Len(s) = 2 /\ a \in {"<", ">"} /\ b \in {a, "="}
      BY <1>1, <1>2, <2>4
    <2>5. CASE Len(s) = 3 /\ a \in {"<", ">"} /\ b = a /\ c = "="
      BY <1>1, <1>2, <2>5
    <2>6. CASE Len(s) = 3 /\ a = "." /\ b = "." /\ c = "."
      BY <1>1, <1>2, <2>6
    <2>7. \/ Len(s) = 2 /\ a \notin {"<", ">", "."} /\ b \in Tail2(a)
          \/ Len(s) = 2 /\ a \in {"<", ">"} /\ b \in {a, "="}
          \/ Len(s) = 3 /\ a \in {"<", ">"} /\ b = a /\ c = "="
          \/ Len(s) = 3 /\ a = "." /\ b = "." /\ c = "."
      BY <2>2, SpellingsAre
    <2> QED BY <2>3, <2>4, <2>5, <2>6, <2>7
  <1>8. LongestIn(text, t)
    BY <1>6, <1>7 DEF LongestIn
  <1>9. TokenOf(text, t)
    BY <1>1, <1>5, <1>6, <1>8 DEF TokenOf
  <1> QED BY <1>9 DEF t, e

-----------------------------------------------------------------------------
(* lexer_next: a token of the text, after blanks and comments only. *)

LEMMA IdentifierIs == ASSUME TextType, NEW i \in 1 .. Past - 1 PROVE TokenOf(text, scan_identifier(i)) /\ scan_identifier(i).from = i
  <1>1. i \in 1 .. Past /\ Past \in Nat
    BY TextIs
  <1>2. Skip(i, Letters \union Digits) \in i .. Past
    BY <1>1, DigitsAre, SkipIs
  <1> QED BY <1>1, <1>2, PlainToken, TokenIs DEF scan_identifier

ScanAt(j) ==
  CASE text[j] \in Letters -> scan_identifier(j)
    [] text[j] \in Digits -> scan_number(j)
    [] text[j] = "\"" -> scan_string(j)
    [] text[j] = "'" -> scan_char(j)
    [] text[j] \in Punctuation -> Token("operator", j, operator_end(j))
    [] OTHER -> unexpected_character(j)

LEMMA ScanIs == ASSUME TextType, NEW j \in 1 .. Past - 1 PROVE TokenOf(text, ScanAt(j)) /\ ScanAt(j).from = j
  <1> DEFINE c == text[j]
  <1>1. /\ c \in Letters => c \notin Digits /\ c # "\"" /\ c # "'" /\ c \notin Punctuation
        /\ c \in Digits => c # "\"" /\ c # "'" /\ c \notin Punctuation
        /\ c = "\"" => c # "'" /\ c \notin Punctuation
        /\ c = "'" => c \notin Punctuation
    <2> HIDE DEF c
    <2>1. ASSUME c \in Letters PROVE c \notin Digits /\ c # "\"" /\ c # "'" /\ c \notin Punctuation
      BY <2>1, Zenon DEF Letters, Digits, Punctuation, Brackets
    <2>2. ASSUME c \in Digits PROVE c # "\"" /\ c # "'" /\ c \notin Punctuation
      BY <2>2, Zenon DEF Digits, Punctuation, Brackets
    <2>3. ASSUME c = "\"" PROVE c # "'" /\ c \notin Punctuation
      BY <2>3, Zenon DEF Punctuation, Brackets
    <2>4. ASSUME c = "'" PROVE c \notin Punctuation
      BY <2>4, Zenon DEF Punctuation, Brackets
    <2> QED BY <2>1, <2>2, <2>3, <2>4, Zenon
  <1>2. CASE c \in Letters
    <2>1. ScanAt(j) = scan_identifier(j)
      BY <1>1, <1>2, Zenon DEF ScanAt
    <2> QED BY <2>1, IdentifierIs
  <1>3. CASE c \notin Letters /\ c \in Digits
    <2>1. ScanAt(j) = scan_number(j)
      BY <1>1, <1>3, Zenon DEF ScanAt
    <2> QED BY <1>3, <2>1, NumberIs
  <1>4. CASE c \notin Letters /\ c \notin Digits /\ c = "\""
    <2>1. ScanAt(j) = scan_string(j)
      BY <1>1, <1>4, Zenon DEF ScanAt
    <2> QED BY <2>1, StringIs
  <1>5. CASE c \notin Letters /\ c \notin Digits /\ c # "\"" /\ c = "'"
    <2>1. ScanAt(j) = scan_char(j)
      BY <1>1, <1>5, Zenon DEF ScanAt
    <2> QED BY <2>1, CharIs
  <1>6. CASE c \notin Letters /\ c \notin Digits /\ c # "\"" /\ c # "'" /\ c \in Punctuation
    <2>1. ScanAt(j) = Token("operator", j, operator_end(j))
      BY <1>1, <1>6, Zenon DEF ScanAt
    <2> QED BY <2>1, OperatorIs, TokenIs
  <1>7. CASE c \notin Letters /\ c \notin Digits /\ c # "\"" /\ c # "'" /\ c \notin Punctuation
    <2>1. ScanAt(j) = Token("error", j, j + 1)
      BY <1>7, Zenon DEF ScanAt, unexpected_character
    <2>2. j \in 1 .. Past /\ j + 1 \in j .. Past
      BY TextIs
    <2> QED BY <2>1, <2>2, PlainToken, TokenIs
  <1> HIDE DEF c
  <1> QED BY <1>2, <1>3, <1>4, <1>5, <1>6, <1>7, Zenon

LEMMA NextIs ==
  ASSUME TextType, NEW i \in 1 .. Past
  PROVE  /\ TokenOf(text, lexer_next(i)) /\ lexer_next(i).from \in i .. Past
         /\ \A k \in i .. lexer_next(i).from - 1 : Covered(text, i, k)
  <1> DEFINE start == skip_whitespace_and_comments[i]
             j == start.place
             u == start.unterminated
  <1>1. StartsAt(i, start)
    BY StartIs
  <1>2. u \in BOOLEAN /\ j \in i .. Past /\ \A k \in i .. j - 1 : Covered(text, i, k)
    BY <1>1 DEF StartsAt
  <1>3. Past \in Nat /\ Past \in j .. Past /\ j \in 1 .. Past /\ (j = Past => ~ (j < Past)) /\ (j # Past => j \in 1 .. Past - 1 /\ j < Past)
    <2> HIDE DEF start
    <2>1. Past \in Nat
      BY TextIs
    <2> QED BY <1>2, <2>1
  <1>4. lexer_next(i) = CASE u -> Token("error", j, Past)
                          [] ~ u /\ j = Past -> Token("eof", j, j)
                          [] ~ u /\ j < Past -> ScanAt(j)
    BY Zenon DEF lexer_next, ScanAt
  <1> HIDE DEF u, j, start
  <1>5. TokenOf(text, lexer_next(i)) /\ lexer_next(i).from = j
    <2>1. CASE u
      <3>1. lexer_next(i) = Token("error", j, Past)
        BY <1>4, <2>1, Zenon
      <3> QED BY <1>3, <3>1, PlainToken, TokenIs
    <2>2. CASE ~ u /\ j = Past
      <3>1. lexer_next(i) = Token("eof", j, j)
        BY <1>3, <1>4, <2>2, Zenon
      <3>2. j \in j .. Past
        BY <1>3
      <3> QED BY <1>3, <3>1, <3>2, PlainToken, TokenIs
    <2>3. CASE ~ u /\ j # Past
      <3>1. lexer_next(i) = ScanAt(j)
        BY <1>3, <1>4, <2>3, Zenon
      <3> QED BY <1>3, <2>3, <3>1, ScanIs
    <2> QED BY <1>2, <2>1, <2>2, <2>3
  <1> QED BY <1>2, <1>5

-----------------------------------------------------------------------------
(* The specification. *)

(* A token and what is between it and the place before it *)
Gap(x, before, t) == \A j \in before .. t.from - 1 : Covered(x, before, j)

(* The lexer stands where its last token ends. *)
Scanned(x, place, tokens) ==
  \/ tokens = << >> /\ place = 1
  \/ \E t : tokens = <<t>> /\ TokenOf(x, t) /\ place = t.to /\ Gap(x, 1, t)
  \/ \E s, t : tokens = <<s, t>> /\ TokenOf(x, s) /\ TokenOf(x, t) /\ place = t.to /\ Gap(x, s.to, t)
LexInv == TextType /\ Scanned(text, at, scanned)

LEMMA PlaceIs == ASSUME NEW x \in Seq(Character), NEW place, NEW tokens, Scanned(x, place, tokens) PROVE place \in 1 .. Len(x) + 1
  <1>1. Len(x) \in Nat
    OBVIOUS
  <1>2. \A t : TokenOf(x, t) => t.to \in 1 .. Len(x) + 1
    BY <1>1 DEF TokenOf
  <1>3. 1 \in 1 .. Len(x) + 1
    BY <1>1
  <1> QED BY <1>2, <1>3, Zenon DEF Scanned

LEMMA AppendOne ==
  ASSUME NEW S, NEW one \in Seq(S), NEW n \in S, Len(one) = 1
  PROVE  Append(one, n) \in Seq(S) /\ Len(Append(one, n)) = 2 /\ Append(one, n)[1] = one[1] /\ Append(one, n)[2] = n
  <1>1. /\ Append(one, n) \in Seq(S)
        /\ Append(one, n) # << >>
        /\ Len(Append(one, n)) = Len(one) + 1
        /\ \A i \in 1 .. Len(one) : Append(one, n)[i] = one[i]
        /\ Append(one, n)[Len(one) + 1] = n
    BY AppendProperties, Zenon
  <1>4. 1 \in 1 .. Len(one) /\ Len(one) + 1 = 2
    OBVIOUS
  <1> QED BY ONLY <1>1, <1>4

LEMMA Appended ==
  /\ Len(<< >>) = 0 /\ \A t : Len(<<t>>) = 1
  /\ \A s, t : Len(<<s, t>>) = 2 /\ Tail(<<s, t>>) = <<t>>
  /\ \A n : Append(<< >>, n) = <<n>>
  /\ \A t, n : Append(<<t>>, n) = <<t, n>>
  <1>1. Len(<< >>) = 0 /\ \A t : Len(<<t>>) = 1
    OBVIOUS
  <1>2. \A s, t : Len(<<s, t>>) = 2
    OBVIOUS
  <1>3. ASSUME NEW s, NEW t PROVE Tail(<<s, t>>) = <<t>>
    OBVIOUS
  <1>4. ASSUME NEW n PROVE Append(<< >>, n) = <<n>>
    OBVIOUS
  <1>5. ASSUME NEW t, NEW n PROVE Append(<<t>>, n) = <<t, n>>
    <2> DEFINE S == {t, n}
               one == <<t>>
    <2>1. one \in Seq(S) /\ Len(one) = 1 /\ one[1] = t
      OBVIOUS
    <2>2. <<t, n>> \in Seq(S) /\ Len(<<t, n>>) = 2 /\ <<t, n>>[1] = t /\ <<t, n>>[2] = n
      OBVIOUS
    <2>3. n \in S
      OBVIOUS
    <2> HIDE DEF one, S
    <2>4. Append(one, n) \in Seq(S) /\ Len(Append(one, n)) = 2 /\ Append(one, n)[1] = t /\ Append(one, n)[2] = n
      BY <2>1, <2>3, AppendOne
    <2>5. \A k \in 1 .. 2 : Append(one, n)[k] = <<t, n>>[k]
      <3>1. \A k \in 1 .. 2 : k = 1 \/ k = 2
        OBVIOUS
      <3> QED BY <2>2, <2>4, <3>1
    <2>6. Append(one, n) = <<t, n>>
      <3>1. ASSUME NEW u \in Seq(S), NEW v \in Seq(S), Len(u) = 2, Len(v) = 2, \A k \in 1 .. 2 : u[k] = v[k] PROVE u = v
        BY <3>1
      <3> QED BY <2>2, <2>4, <2>5, <3>1
    <2> QED BY <2>6 DEF one
  <1> QED BY <1>1, <1>2, <1>3, <1>4, <1>5

LEMMA ScansOn ==
  ASSUME NEW x, NEW place, NEW tokens, Scanned(x, place, tokens), NEW n, TokenOf(x, n), Gap(x, place, n)
  PROVE  Scanned(x, n.to, Append(IF Len(tokens) = 2 THEN Tail(tokens) ELSE tokens, n))
  <1> DEFINE after == Append(IF Len(tokens) = 2 THEN Tail(tokens) ELSE tokens, n)
  <1>1. \/ tokens = << >> /\ place = 1
        \/ \E t : tokens = <<t>> /\ TokenOf(x, t) /\ place = t.to
        \/ \E s, t : tokens = <<s, t>> /\ TokenOf(x, t) /\ place = t.to
    BY Zenon DEF Scanned
  <1>2. 0 # 2 /\ 1 # 2
    OBVIOUS
  <1>3. CASE tokens = << >> /\ place = 1
    <2>1. after = <<n>>
      BY <1>2, <1>3, Appended, Zenon
    <2> HIDE DEF after
    <2>2. Scanned(x, n.to, after)
      BY <1>3, <2>1, Zenon DEF Scanned
    <2> QED BY <2>2 DEF after
  <1>4. CASE \E t : tokens = <<t>> /\ TokenOf(x, t) /\ place = t.to
    <2>1. PICK t : tokens = <<t>> /\ TokenOf(x, t) /\ place = t.to
      BY <1>4
    <2>2. after = <<t, n>>
      BY <1>2, <2>1, Appended, Zenon
    <2> HIDE DEF after
    <2>3. Scanned(x, n.to, after)
      BY <2>1, <2>2, Zenon DEF Scanned
    <2> QED BY <2>3 DEF after
  <1>5. CASE \E s, t : tokens = <<s, t>> /\ TokenOf(x, t) /\ place = t.to
    <2>1. PICK s, t : tokens = <<s, t>> /\ TokenOf(x, t) /\ place = t.to
      BY <1>5
    <2>2. after = <<t, n>>
      BY <2>1, Appended, Zenon
    <2> HIDE DEF after
    <2>3. Scanned(x, n.to, after)
      BY <2>1, <2>2, Zenon DEF Scanned
    <2> QED BY <2>3 DEF after
  <1> QED BY <1>1, <1>3, <1>4, <1>5

LEMMA LexInitInv == ASSUME LexInit PROVE LexInv
  <1>1. PICK family \in Texts : text \in family
    BY DEF LexInit
  <1>2. text \in Seq(Character)
    BY <1>1, TextsAssumption DEF Character
  <1>3. at = 1 /\ scanned = << >>
    BY DEF LexInit
  <1> QED BY <1>2, <1>3 DEF LexInv, TextType, Scanned

LEMMA LexStepInv == ASSUME LexInv, LexNext PROVE LexInv'
  <1> DEFINE n == lexer_next(at)
  <1>1. TextType /\ Scanned(text, at, scanned)
    BY DEF LexInv
  <1>2. at \in 1 .. Past
    BY <1>1, PlaceIs DEF TextType, Past
  <1>3. TokenOf(text, n) /\ \A k \in at .. n.from - 1 : Covered(text, at, k)
    BY <1>1, <1>2, NextIs
  <1>4. text' = text /\ at' = n.to /\ scanned' = Append(IF Len(scanned) = 2 THEN Tail(scanned) ELSE scanned, n)
    BY DEF LexNext
  <1> HIDE DEF n
  <1>5. Gap(text, at, n)
    BY <1>3 DEF Gap
  <1>6. Scanned(text, n.to, Append(IF Len(scanned) = 2 THEN Tail(scanned) ELSE scanned, n))
    BY <1>1, <1>3, <1>5, ScansOn
  <1>7. Scanned(text', at', scanned')
    BY <1>4, <1>6
  <1>8. TextType'
    BY <1>1, <1>4 DEF TextType
  <1> QED BY <1>7, <1>8 DEF LexInv

LEMMA LexInvariant == LexSpec => []LexInv
  <1>1. LexInit => LexInv
    BY LexInitInv
  <1>2. LexInv /\ [LexNext]_lvars => LexInv'
    <2> SUFFICES ASSUME LexInv, [LexNext]_lvars PROVE LexInv'
      OBVIOUS
    <2>1. CASE LexNext
      BY <2>1, LexStepInv
    <2>2. CASE UNCHANGED lvars
      BY <2>2 DEF lvars, LexInv, TextType
    <2> QED BY <2>1, <2>2
  <1> QED BY <1>1, <1>2, PTL DEF LexSpec

(* Every token the parser holds is one of the text. *)
LEMMA ScannedTokens == ASSUME LexInv PROVE \A k \in DOMAIN scanned : TokenOf(text, scanned[k])
  <1>1. Scanned(text, at, scanned)
    BY DEF LexInv
  <1>2. \A t : DOMAIN <<t>> = 1 .. 1 /\ <<t>>[1] = t
    OBVIOUS
  <1>3. \A s, t : DOMAIN <<s, t>> = 1 .. 2 /\ <<s, t>>[1] = s /\ <<s, t>>[2] = t
    OBVIOUS
  <1>4. DOMAIN << >> = {}
    OBVIOUS
  <1>5. CASE scanned = << >>
    BY <1>4, <1>5
  <1>6. ASSUME NEW t, scanned = <<t>>, TokenOf(text, t) PROVE \A k \in DOMAIN scanned : TokenOf(text, scanned[k])
    BY <1>2, <1>6
  <1>7. ASSUME NEW s, NEW t, scanned = <<s, t>>, TokenOf(text, s), TokenOf(text, t) PROVE \A k \in DOMAIN scanned : TokenOf(text, scanned[k])
    BY <1>3, <1>7
  <1> QED BY <1>1, <1>5, <1>6, <1>7, Zenon DEF Scanned

LEMMA IntegersFromInv == ASSUME LexInv PROVE IntegersConvert
  <1> SUFFICES ASSUME NEW t \in Tokens("int") PROVE ConvertsToInteger(t)
    BY DEF IntegersConvert
  <1>1. PICK k \in DOMAIN scanned : scanned[k] = t /\ t.kind = "int"
    BY DEF Tokens
  <1>2. TokenOf(text, t)
    BY <1>1, ScannedTokens
  <1> QED BY <1>1, <1>2, TheText DEF TokenOf

LEMMA LongestFromInv == ASSUME LexInv PROVE OperatorsAreLongest
  <1> SUFFICES ASSUME NEW t \in Tokens("operator"), NEW s \in Spellings, t.from + Len(s) < Past + 1, SubSeq(text, t.from, t.from + Len(s) - 1) = s
               PROVE  t.to >= t.from + Len(s)
    BY DEF OperatorsAreLongest
  <1>1. PICK k \in DOMAIN scanned : scanned[k] = t /\ t.kind = "operator"
    BY DEF Tokens
  <1>2. LongestIn(text, t)
    BY <1>1, ScannedTokens DEF TokenOf
  <1>3. Len(text) \in Nat /\ Past = Len(text) + 1
    BY TextIs DEF LexInv, TextType
  <1>4. Past + 1 = Len(text) + 2
    BY <1>3
  <1> QED BY <1>2, <1>4 DEF LongestIn

LEMMA CoveredIs ==
  ASSUME TextType, NEW before \in Int, before >= 1, NEW j \in Int, Covered(text, before, j)
  PROVE  \/ text[j] \in Blanks
         \/ \E b \in before .. j : text[b] = "/" /\ peek(b + 1) = "/" /\ \A l \in b .. j : text[l] # "\n"
         \/ \E b \in before .. j : text[b] = "/" /\ peek(b + 1) = "*" /\ \A l \in b + 2 .. j - 2 : text[l] # "*" \/ text[l + 1] # "/"
  <1>1. Past \in Nat /\ Past = Len(text) + 1
    BY TextIs
  <1>2. ASSUME NEW b \in before .. j, b < Len(text) + 1 - 1 PROVE peek(b + 1) = text[b + 1]
    <2>1. b + 1 \in 1 .. Past - 1
      BY <1>1, <1>2
    <2> QED BY <2>1, TextIs
  <1> QED BY <1>2 DEF Covered

LEMMA DroppedFromInv == ASSUME LexInv PROVE NothingIsDropped
  <1> DEFINE Said(before, t) == \A j \in before .. t.from - 1 :
         \/ text[j] \in Blanks
         \/ \E b \in before .. j : text[b] = "/" /\ peek(b + 1) = "/" /\ \A l \in b .. j : text[l] # "\n"
         \/ \E b \in before .. j : text[b] = "/" /\ peek(b + 1) = "*" /\ \A l \in b + 2 .. j - 2 : text[l] # "*" \/ text[l + 1] # "/"
  <1>1. TextType /\ Scanned(text, at, scanned)
    BY DEF LexInv
  <1>2. ASSUME NEW before \in Int, before >= 1, NEW t, TokenOf(text, t), Gap(text, before, t) PROVE Said(before, t)
    <2> SUFFICES ASSUME NEW j \in before .. t.from - 1
                 PROVE \/ text[j] \in Blanks
                       \/ \E b \in before .. j : text[b] = "/" /\ peek(b + 1) = "/" /\ \A l \in b .. j : text[l] # "\n"
                       \/ \E b \in before .. j : text[b] = "/" /\ peek(b + 1) = "*" /\ \A l \in b + 2 .. j - 2 : text[l] # "*" \/ text[l + 1] # "/"
      OBVIOUS
    <2>1. j \in Int /\ Covered(text, before, j)
      BY <1>2 DEF Gap
    <2> QED BY <1>1, <1>2, <2>1, CoveredIs
  <1>3. NothingIsDropped <=> (scanned # << >> => Said(IF Len(scanned) = 1 THEN 1 ELSE scanned[1].to, scanned[Len(scanned)]))
    BY Zenon DEF NothingIsDropped
  <1> HIDE DEF Said
  <1>4. ASSUME NEW t, scanned = <<t>>, TokenOf(text, t), Gap(text, 1, t) PROVE NothingIsDropped
    <2>1. Len(scanned) = 1 /\ scanned[1] = t
      BY <1>4
    <2>2. Said(1, t)
      BY <1>2, <1>4
    <2> QED BY <1>3, <2>1, <2>2
  <1>5. ASSUME NEW s, NEW t, scanned = <<s, t>>, TokenOf(text, s), TokenOf(text, t), Gap(text, s.to, t) PROVE NothingIsDropped
    <2>1. Len(scanned) = 2 /\ scanned[1] = s /\ scanned[2] = t
      BY <1>5
    <2>2. s.to \in Int /\ s.to >= 1
      <3>1. Len(text) \in Nat
        BY <1>1 DEF TextType
      <3> QED BY <1>5, <3>1 DEF TokenOf
    <2>3. Said(s.to, t)
      BY <1>2, <1>5, <2>2
    <2> QED BY <1>3, <2>1, <2>3
  <1> QED BY <1>1, <1>3, <1>4, <1>5, Zenon DEF Scanned

(* parse_integer_u64 converts whatever the lexer calls an integer, in any  *)
(* text: only its range check can refuse the token.                        *)
THEOREM IntegersAlwaysConvert == LexSpec => []IntegersConvert
  <1>1. LexInv => IntegersConvert
    BY IntegersFromInv
  <1> QED BY <1>1, LexInvariant, PTL

(* In any text, lexer_next leaves nothing between two tokens but blanks    *)
(* and comments, and never stops in the middle of a longer operator.       *)
THEOREM TokensAlwaysCoverTheText == LexSpec => []TokensCoverTheText
  <1>1. LexInv => TokensCoverTheText
    BY LongestFromInv, DroppedFromInv DEF TokensCoverTheText
  <1> QED BY <1>1, LexInvariant, PTL
=============================================================================
