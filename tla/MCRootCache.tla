---------------------------- MODULE MCRootCache ----------------------------
(* Instances of RootCache for TLC. *)
EXTENDS RootCache, TLC

CONSTANTS c1, c2, c3, c4, h1, h2, h3, h4, h5, h6, h7

(* Two files in a/b, one in a/c and one in d: at most seven opens. *)
DirTree == c1 :> <<1, 2>> @@ c2 :> <<1, 2>> @@ c3 :> <<1, 3>> @@ c4 :> <<4>>

Symmetric == Permutations(Handles)
=============================================================================
