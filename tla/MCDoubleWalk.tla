---------------------------- MODULE MCDoubleWalk ----------------------------
(* Instances of DoubleWalk for TLC. *)
EXTENDS DoubleWalk

(* a, a/x and a/y, b. *)
PathsOneDir == {<<1>>, <<1, 1>>, <<1, 2>>, <<2>>}

(* a, a/x, b, b/x. *)
PathsTwoDirs == {<<1>>, <<1, 1>>, <<2>>, <<2, 1>>}

(* a, a/b, a/b/x, a/c, a/c/x. *)
PathsNested == {<<1>>, <<1, 1>>, <<1, 1, 1>>, <<1, 2>>, <<1, 2, 1>>}
=============================================================================
