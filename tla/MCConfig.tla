------------------------------ MODULE MCConfig ------------------------------
(***************************************************************************)
(* Two threads that look up and visit, one that loads two documents: a map *)
(* "a" with a member "a.b", and one with the member "a.key with 9".        *)
(***************************************************************************)
EXTENDS Config, TLC

Text(x, types) == [val |-> x, types |-> types]
MCNode(n, text) == [name |-> n, text |-> text]

\* A scalar "1" is an int and a string; the text of a map is no int.
Doc1 == <<MCNode(<<"a">>, Text("map1", {"string"})), MCNode(<<"a", "b">>, Text("1", {"int", "string"}))>>
Doc2 == <<MCNode(<<"a">>, Text("map1", {"string"})), MCNode(<<"a", "b">>, Text("x", {"string"})),
          MCNode(<<"a", Capital>>, Text("1", {"int", "string"})),
          MCNode(<<"a", Nine>>, Text("1", {"int", "string"}))>>

Docs == {Doc1, Doc2}
Symmetry == Permutations(Threads)
MCNames == {<<"a">>, <<"a", "b">>, <<"a", Capital>>, <<"a", Nine>>}
=============================================================================
