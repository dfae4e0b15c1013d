-------------------------- MODULE MCEventCondition --------------------------
(* Small instances of EventCondition for TLC. *)
EXTENDS EventCondition, FiniteSets

A == Text("a", FALSE)
B == Text("b", FALSE)
Leaves == {A, B, Null}

\* Arrays of up to two values, and objects of at most one key.
Arrays(S)  == {Array(<<>>)} \union {Array(<<v>>) : v \in S} \union {Array(<<v, w>>) : v, w \in S}
Boxes(S)   == {ObjectOf({})} \union {ObjectOf({<<"x", v>>}) : v \in S}
Nested(S)  == S \union Arrays(S) \union Boxes(S)

\* Objects that hold a list of objects.
ListDatas == Boxes(Arrays(Boxes(Arrays({A}))))

\* Objects whose field x nests two levels below it, beside a field y, or is such a
\* list.
DeepDatas ==
  Boxes(Nested(Nested(Leaves))) \union ListDatas
  \union {ObjectOf({<<"x", v>>, <<"y", w>>}) : v \in Nested(Leaves), w \in {A, Null, Array(<<B>>)}}

\* Types, one of them blank and one padded.
T == Text("t", FALSE)
AllTypes == {Text("t", FALSE), Text("t", TRUE), Text("u", TRUE), Text("", TRUE)}
TypeLists == {<<>>} \union {<<v>> : v \in AllTypes}
             \union {<<p[1], p[2]>> : p \in {q \in AllTypes \X AllTypes : q[1] # q[2]}}

\* Raw documents: any value for the type, for data and for another field, or
\* none; and values that are not objects.
Fields(k, S) == {{}} \union {{<<k, v>>} : v \in S}
Documents ==
  {ObjectOf(p \union q \union r) :
     p \in Fields("eventType", Nested(AllTypes \union {Null, ObjectOf({})})),
     q \in Fields("data", Nested(Boxes({A, Null, Array(<<A>>)})) \union {A}),
     r \in Fields("source", {A, Null, Array(<<Null>>)})}
  \union {A, Null, Array(<<A>>)}

\* Events of either type, whose data has texts and objects; the model does not say
\* how OCI compares an array in an event.
SomeEvents ==
  {ObjectOf({<<"eventType", t>>, <<"data", ObjectOf(x \union y)>>}) :
     t \in {T, Text("u", FALSE)},
     x \in Fields("x", {A, B, ObjectOf({})} \union Boxes({A, B} \union Boxes({A, B}))),
     y \in Fields("y", {A, B})}
=============================================================================
