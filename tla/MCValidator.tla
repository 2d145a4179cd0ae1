---------------------------- MODULE MCValidator ----------------------------
(* Two names on three levels: 1, 1/1, 1/1/1, 1/1/2, 1/2, 2 and 2/1.        *)
EXTENDS Validator

MCNames == {1, 2}
MCPaths == {<<1>>, <<1, 1>>, <<1, 1, 1>>, <<1, 1, 2>>, <<1, 2>>, <<2>>, <<2, 1>>}
=============================================================================
