------------------------- MODULE MCTemplatedKernel --------------------------
(* An instance of TemplatedKernel for TLC: the template                     *)
(*   {% y = "a" %}{{x}}c{{z}}                                              *)
(* where z is never set, with x = "a", or x = "b{{w}}" and w = "{{y}}{{z}}", *)
(* which takes three times over the text.                                  *)
EXTENDS TemplatedKernel, TLC

CONSTANTS n1, n2, n3

AllRules == {"knownNames", "namePerParams", "oneOwner"}

a == Literal("a")
b == Literal("b")
c == Literal("c")

p1 == ("x" :> <<a>>) @@ ("w" :> <<c>>)
p2 == ("x" :> <<b, Insert("w")>>) @@ ("w" :> <<Insert("y"), Insert("z")>>)

ParamsOfX == {p1, p2}
NameOfParams == (p1 :> n1) @@ (p2 :> n2)

GlobalNames == {"x", "w", "y", "z"}

TheTemplate == <<Assign("y", <<a>>), Insert("x"), c, Insert("z")>>
FaultyTemplates == {<<Insert("x"), Failing>>, <<a, Rejected>>, <<Insert("x"), Unclosed>>}
LocalValues == "y" :> <<a>>

(* A text with the values put in for the names, those in the values too.   *)
RECURSIVE Expand(_, _)
Expand(text, value) ==
  FlattenSeq([i \in DOMAIN text |->
    CASE text[i].is = "text" -> <<text[i]>>
      [] text[i].is = "insert" /\ text[i].of \in DOMAIN value ->
           Expand(value[text[i].of], value)
      [] OTHER -> <<>>])

WholeOf == [p \in ParamsOfX |-> [g \in GlobalNames |->
              Expand(<<Insert(g)>>, p @@ LocalValues)]]
=============================================================================
