----------------------------- MODULE Discovery -----------------------------
(***************************************************************************)
(* How the compiler driver comes to the files it compiles                  *)
(* (compiler_driver.c).  The explicit inputs are read and parsed; then the *)
(* list of inputs is walked, import by import, and the sources of a module *)
(* nobody declares yet are looked for and put at the end of the very list  *)
(* that is being walked.  Afterwards the whole program is checked.         *)
(*                                                                         *)
(* A file is a path.  What is on the disk never changes while the compiler *)
(* runs: which files exist, which of them can be read and parsed, the file *)
(* behind a path (two paths may be one file), the module a file declares   *)
(* and the modules it imports, and the sources that make up a package.     *)
(***************************************************************************)
EXTENDS Naturals, Sequences, SequencesExt, FiniteSets

CONSTANTS SourcePaths, Modules,
          StdModules,       \* the modules whose name is std or starts with std.
          SearchDirs,       \* the -I directories, in the order they are given
          StdRoot,          \* the root of the standard library
          Directory,        \* file -> the directory it lies in
          SingleIn,         \* <<directory, module>> -> the path a single source would have
          Disks,            \* the disks the compiler may find, in families
          CommandLines      \* the inputs, and whether imports are discovered

Directories == {Directory[f] : f \in SourcePaths} \cup ToSet(SearchDirs) \cup {StdRoot}

WellFormedDisk(d) ==
  /\ d.exists \subseteq SourcePaths
  /\ \A f \in SourcePaths : d.imports[f] \in Seq(Modules)
  /\ \A directory \in Directories, module \in Modules : d.package[<<directory, module>>] \in Seq(d.exists)

ASSUME DiscoveryAssumption ==
  /\ SearchDirs \in Seq(Directories)
  /\ \A family \in Disks : \A d \in family : WellFormedDisk(d)
  /\ \A line \in CommandLines : line[1] \in Seq(SourcePaths) /\ line[2] \in BOOLEAN

VARIABLES disk, inputs, discover, loaded, file, item, candidates, status
dvars == <<disk, inputs, discover, loaded, file, item, candidates, status>>

Final == {"ok", "semantic_error", "parse_error", "driver_error"}
NoModule == "no module"

SlipContains(path) == path \in {loaded[i] : i \in DOMAIN loaded}
input_list_contains_file(path) ==
  \E i \in DOMAIN loaded : loaded[i] = path \/ disk.identity[loaded[i]] = disk.identity[path]

input_list_declares_module(module) == \E i \in DOMAIN loaded : disk.declares[loaded[i]] = module

(* module_candidate_path and stat: the single source of a module there     *)
single_in(directory, module) ==
  LET path == SingleIn[<<directory, module>>] IN IF path \in disk.exists THEN <<path>> ELSE << >>
(* opendir, readdir and qsort: the sources of a package there              *)
package_in(directory, module) == disk.package[<<directory, module>>]

(* Single sources come before packages whatever the directory; the library *)
(* is the last place for a single source, and the second one for a package.*)
find_module_sources(importer, module) ==
  LET here     == <<Directory[importer]>>
      library  == IF module \in StdModules THEN <<StdRoot>> ELSE << >>
      singles  == [i \in 1 .. Len(here \o SearchDirs \o library) |-> single_in((here \o SearchDirs \o library)[i], module)]
      packages == [i \in 1 .. Len(here \o library \o SearchDirs) |-> package_in((here \o library \o SearchDirs)[i], module)]
      places   == singles \o packages
      found    == {i \in DOMAIN places : places[i] # << >> /\ \A j \in 1 .. i - 1 : places[j] = << >>}
  IN  IF found = {} THEN << >> ELSE places[CHOOSE i \in found : TRUE]

DiscoveryInit ==
  /\ \E family \in Disks : disk \in family
  /\ \E line \in CommandLines : inputs = line[1] /\ discover = line[2]
  /\ loaded = << >> /\ file = 1 /\ item = 1 /\ candidates = << >> /\ status = "reading"

(* load_and_parse_input for an explicit input: no duplicate is looked for  *)
LoadInput ==
  /\ status = "reading" /\ Len(loaded) < Len(inputs)
  /\ LET path == inputs[Len(loaded) + 1] IN
     IF path \in disk.exists \ disk.unreadable
     THEN loaded' = Append(loaded, path) /\ UNCHANGED status
     ELSE status' = "driver_error" /\ UNCHANGED loaded
  /\ UNCHANGED <<disk, inputs, discover, file, item, candidates>>

InputsLoaded ==
  /\ status = "reading" /\ Len(loaded) = Len(inputs)
  /\ status' = CASE ToSet(loaded) \cap disk.broken # {} -> "parse_error"
                 [] discover -> "discovering"
                 [] OTHER -> "checking"
  /\ UNCHANGED <<disk, inputs, discover, loaded, file, item, candidates>>

(* One import of the file the walk stands at                               *)
WalkImport ==
  /\ status = "discovering" /\ candidates = << >>
  /\ file <= Len(loaded) /\ item <= Len(disk.imports[loaded[file]])
  /\ LET module == disk.imports[loaded[file]][item] IN
     candidates' = IF input_list_declares_module(module) THEN << >> ELSE find_module_sources(loaded[file], module)
  /\ item' = item + 1
  /\ UNCHANGED <<disk, inputs, discover, loaded, file, status>>

SlipLastFile == Len(inputs)
last_file == Len(loaded)

NextFile ==
  /\ status = "discovering" /\ candidates = << >>
  /\ file <= last_file /\ item > Len(disk.imports[loaded[file]])
  /\ file' = file + 1 /\ item' = 1
  /\ UNCHANGED <<disk, inputs, discover, loaded, candidates, status>>

remaining_candidates == Tail(candidates)

(* One source of a module that was found; a source that is loaded already  *)
(* is passed over, and a parse error ends the discovery.                   *)
LoadCandidate ==
  /\ status = "discovering" /\ candidates # << >>
  /\ LET path == Head(candidates) IN
     CASE input_list_contains_file(path) ->
            candidates' = remaining_candidates /\ UNCHANGED <<loaded, status>>
       [] ~ input_list_contains_file(path) /\ path \in disk.unreadable ->
            status' = "driver_error" /\ UNCHANGED <<loaded, candidates>>
       [] OTHER ->
            /\ loaded' = Append(loaded, path)
            /\ candidates' = remaining_candidates
            /\ status' = IF path \in disk.broken THEN "parse_error" ELSE status
  /\ UNCHANGED <<disk, inputs, discover, file, item>>

Discovered ==
  /\ status = "discovering" /\ candidates = << >> /\ file > last_file
  /\ status' = "checking"
  /\ UNCHANGED <<disk, inputs, discover, loaded, file, item, candidates>>

(* semantic_check: an import of a module no file declares is an error, as  *)
(* is an import of the importer's own module; what else it finds is not    *)
(* told apart here.                                                        *)
SemanticCheck ==
  /\ status = "checking"
  /\ \/ status' = "semantic_error"
     \/ /\ \A f \in ToSet(loaded) : \A module \in ToSet(disk.imports[f]) :
             input_list_declares_module(module) /\ module # disk.declares[f]
        /\ status' = "ok"
  /\ UNCHANGED <<disk, inputs, discover, loaded, file, item, candidates>>

DiscoveryNext == LoadInput \/ InputsLoaded \/ WalkImport \/ NextFile \/ LoadCandidate \/ Discovered \/ SemanticCheck
DiscoverySpec == DiscoveryInit /\ [][DiscoveryNext]_dvars /\ WF_dvars(DiscoveryNext)

-----------------------------------------------------------------------------
(* discover_import_sources never loads a file a second time: under no      *)
(* second path of it, and whatever circle the imports make.                *)
DiscoveredOnce ==
  \A i, j \in DOMAIN loaded : i < j /\ j > Len(inputs) => disk.identity[loaded[i]] # disk.identity[loaded[j]]

(* When discover_import_sources is through, though the list grew while it  *)
(* was walked, no file of it has an import left whose module nobody        *)
(* declares and whose sources lie where the driver looks for them.         *)
NothingLeftToFind ==
  discover /\ status \in {"checking", "ok", "semantic_error"} =>
    \A f \in ToSet(loaded) : \A i \in DOMAIN disk.imports[f] :
      \/ input_list_declares_module(disk.imports[f][i])
      \/ \A c \in ToSet(find_module_sources(f, disk.imports[f][i])) : input_list_contains_file(c)

(* A file that discover_import_sources adds never comes without the rest   *)
(* of the package it was found in.                                         *)
PackagesAreWhole ==
  status \in {"checking", "ok", "semantic_error"} =>
    \A n \in DOMAIN loaded : n > Len(inputs) =>
      \E f \in ToSet(loaded) : \E i \in DOMAIN disk.imports[f] :
        LET sources == ToSet(find_module_sources(f, disk.imports[f][i])) IN
        loaded[n] \in sources /\ \A c \in sources : input_list_contains_file(c)

(* Nothing the program imports is missing from what is checked.            *)
ImportsAreLoaded == NothingLeftToFind /\ PackagesAreWhole

=============================================================================
