----------------------------- MODULE MCTransfer -----------------------------
(* Instances of Transfer for TLC. *)
EXTENDS Transfer

CONSTANTS w1, w2

(* d/, d/s/, d/s/f (two reads), d/s/l (a hard link of d/s/f), d/t (a read). *)
KindTree   == <<"dir", "dir", "file", "link", "file">>
ChunksTree == <<0, 0, 2, 2, 1>>
ParentTree == <<0, 1, 2, 2, 1>>

(* Three files, the first of one read and the others empty.                *)
KindFiles   == <<"file", "file", "file">>
ChunksFiles == <<1, 0, 0>>
ParentFlat  == <<0, 0, 0>>

(* Two files, the first of two reads and the other empty.                   *)
KindPair   == <<"file", "file">>
ChunksPair == <<2, 0>>
ParentPair == <<0, 0>>
=============================================================================
