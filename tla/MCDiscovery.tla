---- MODULE MCDiscovery ----
EXTENDS Discovery
(* main.cog, the package a beside it, a.cog in the -I directory, and s of  *)
(* the standard library.                                                   *)
DiskFiles == {"main.cog", "a/1.cog", "a/2.cog", "lib/a.cog", "std/s.cog"}
DiskModules == {"a", "s"}
OwnModule == [f \in DiskFiles |-> CASE f = "main.cog" -> NoModule [] f = "std/s.cog" -> "s" [] OTHER -> "a"]
DirectoryOf == [f \in DiskFiles |->
  CASE f = "main.cog" -> "." [] f \in {"a/1.cog", "a/2.cog"} -> "./a" [] f = "lib/a.cog" -> "lib" [] OTHER -> "root/std"]
AllDirectories == {".", "./a", "lib", "root", "root/std"}
Singles == [p \in AllDirectories \X DiskModules |->
  CASE p = <<"lib", "a">> -> "lib/a.cog" [] p = <<"root", "s">> -> "std/s.cog" [] OTHER -> "absent"]
Packages == [p \in AllDirectories \X DiskModules |-> IF p = <<".", "a">> THEN <<"a/1.cog", "a/2.cog">> ELSE << >>]
(* At most one file of a disk is odd: it cannot be read or parsed, declares*)
(* no module, or is the same file as another.                              *)
Oddities == {<<"none", "main.cog">>} \cup ({"unreadable", "broken", "stray", "linked"} \X DiskFiles)
Odd(kind, oddity) == IF oddity[1] = kind THEN {oddity[2]} ELSE {}
DiskOf(existing, imported, oddity) ==
  [exists     |-> existing,
   imports    |-> [f \in DiskFiles |-> IF f \in existing THEN imported[f] ELSE << >>],
   declares   |-> [f \in DiskFiles |-> IF f \in Odd("stray", oddity) THEN NoModule ELSE OwnModule[f]],
   package    |-> [p \in AllDirectories \X DiskModules |-> SelectSeq(Packages[p], LAMBDA f : f \in existing)],
   unreadable |-> Odd("unreadable", oddity),
   broken     |-> Odd("broken", oddity),
   identity   |-> [f \in DiskFiles |-> IF f \in Odd("linked", oddity) THEN "a/1.cog" ELSE f]]
(* Main and one more file import something.                                *)
Imported(existing) == {i \in [existing -> {<< >>, <<"a">>, <<"s">>}] : Cardinality({f \in existing : i[f] # << >>}) < 3}
SomeDisks == {{DiskOf({"main.cog"} \cup more, imported, oddity) :
                       imported \in Imported({"main.cog"} \cup more), oddity \in {o \in Oddities : o[2] \in {"main.cog"} \cup more}} :
                    more \in SUBSET (DiskFiles \ {"main.cog"})}
SomeCommandLines == {<<<<"main.cog">>, TRUE>>, <<<<"main.cog", "a/1.cog">>, TRUE>>, <<<<"main.cog">>, FALSE>>}
SearchPath == <<"lib">>
====
