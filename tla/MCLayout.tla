---- MODULE MCLayout ----
EXTENDS Layout
Plain == [repr_c |-> FALSE, resource |-> FALSE, union |-> FALSE, incomplete |-> FALSE, packed |-> FALSE, align |-> 0, fields |-> << >>]
C == [Plain EXCEPT !.repr_c = TRUE]
Shapes == {Plain, [Plain EXCEPT !.resource = TRUE], C, [C EXCEPT !.packed = TRUE], [C EXCEPT !.align = 8], [C EXCEPT !.align = 3],
           [C EXCEPT !.align = 32],
           [C EXCEPT !.union = TRUE], [C EXCEPT !.incomplete = TRUE], [Plain EXCEPT !.union = TRUE]}
Type(wrap, base) == [wrap |-> wrap, base |-> base]
TwoOf(types) == {<< >>} \cup {<<t>> : t \in types} \cup {<<t, u>> : t, u \in types}
OneOf(types) == {<< >>} \cup {<<t>> : t \in types}
WithFields(shape, list) == [shape EXCEPT !.fields = list]
TwoStructs ==
  {[A |-> WithFields(a, f), B |-> WithFields(b, g), D |-> Plain] :
     a \in Shapes, b \in {Plain, C, [Plain EXCEPT !.resource = TRUE], [C EXCEPT !.incomplete = TRUE], [C EXCEPT !.align = 8]},
     f \in TwoOf({Type(<< >>, "u8"), Type(<< >>, "s32"), Type(<<"*">>, "B"), Type(<<"array">>, "B")}),
     g \in OneOf({Type(<<"array">>, "f64"), Type(<<"slice">>, "A"), Type(<< >>, "A"), Type(<<"array", "array">>, "B")})}
Circles ==
  {[A |-> WithFields(a, f), B |-> WithFields(b, g), D |-> WithFields(d, h)] :
     a, b, d \in {Plain, C}, f, g, h \in OneOf({Type(<< >>, n) : n \in {"A", "B", "D"}})}
Aligns == [n \in {1, 2, 4, 8} |-> IF n = 8 THEN 4 ELSE n]
SomeStructs == <<"A", "B", "D">>
SomeTables == {TwoStructs, Circles}
====
