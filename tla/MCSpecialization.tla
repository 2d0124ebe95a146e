---- MODULE MCSpecialization ----
EXTENDS Specialization
Use(templates, arguments) == [of : templates, for : arguments]
UptoTwo(uses) == {<< >>} \cup {<<u>> : u \in uses} \cup {<<u, v>> : u, v \in uses}
UptoOne(uses) == {<< >>} \cup {<<u>> : u \in uses}
Faults == {[where |-> "nowhere", when |-> "never"], [where |-> "body", when |-> "pointer"], [where |-> "body", when |-> "always"],
           [where |-> "constraint", when |-> "pointer"], [where |-> "signature", when |-> "base"]}
NoFault == [where |-> "nowhere", when |-> "never"]
Template(kind, signature, body, fault) == [kind |-> kind, signature |-> signature, body |-> body, fault |-> fault, owner |-> "S"]
Everything == {"T", "T*", "base"}
(* Two functions; a function and a struct; a function, a struct and its method *)
FunctionPrograms ==
  {[main |-> Template("main", << >>, <<[of |-> "f", for |-> "base"], [of |-> "g", for |-> "T*"]>>, NoFault),
    f |-> Template("function", << >>, body, NoFault),
    g |-> Template("function", << >>, other, fault)] :
   body \in UptoTwo(Use({"f", "g"}, Everything)), other \in UptoOne(Use({"f", "g"}, Everything)), fault \in Faults}
StructPrograms ==
  {[main |-> Template("main", << >>, <<[of |-> "f", for |-> "base"], u>>, NoFault),
    f |-> Template("function", signature, <<v>>, NoFault),
    S |-> Template("struct", << >>, fields, fault),
    m |-> Template("method", << >>, body, IF fault = NoFault THEN NoFault ELSE [where |-> "body", when |-> "base"])] :
   u \in Use({"S", "m"}, {"T*"}), signature \in UptoOne(Use({"S"}, Everything)), v \in Use({"m", "S"}, Everything),
   fields \in UptoOne(Use({"S"}, Everything)), body \in UptoOne(Use({"f", "S"}, Everything) \cup Use({"m"}, {"T", "base"})),
   fault \in {NoFault, [where |-> "body", when |-> "pointer"]}}
(* A method that uses itself for ever deeper arguments                     *)
DeepeningMethods ==
 {{[main |-> Template("main", << >>, <<[of |-> "m", for |-> "base"]>>, NoFault),
    S |-> Template("struct", << >>, fields, NoFault),
    m |-> Template("method", << >>, <<[of |-> "m", for |-> "T*"]>>, NoFault)] : fields \in UptoOne(Use({"S"}, {"T", "T*"}))}}
SomeTemplates == {FunctionPrograms, StructPrograms}
====
