---- MODULE MCGlobals ----
EXTENDS Globals
NoneOrOne(n) == {<< >>} \cup {<<a>> : a \in 1 .. n}
Lists(n, kinds, uses) == {[d \in 1 .. n |-> [kind |-> k[d], uses |-> u[d]]] : k \in [1 .. n -> kinds], u \in [1 .. n -> uses]}
UsesOf(list, d) == ToSet(list[d].uses)
(* A generic function that its own user's initialiser waits for            *)
ReentersVariable(list) ==
  \E d, g \in DOMAIN list : list[d].kind = "var" /\ list[g].kind = "generic" /\ g \in UsesOf(list, d)
     /\ (d \in UsesOf(list, g) \/ \E e \in UsesOf(list, g) : d \in UsesOf(list, e))
SomeDeclarations ==
  {{list \in lists : ~ ReentersVariable(list)} :
     lists \in {Lists(3, {"const", "var", "func"}, NoneOrOne(3) \cup {<<2, 1>>, <<1, 3>>}),
               Lists(3, {"var", "func", "generic", "enum"}, NoneOrOne(3)),
               Lists(3, {"const", "enum"}, NoneOrOne(3) \cup {<<3, 1>>}),
               Lists(4, {"const"}, NoneOrOne(4)), Lists(2, Kinds, NoneOrOne(2))}}
SeveralFunctions == {Lists(3, {"var", "func"}, NoneOrOne(3))}
====
