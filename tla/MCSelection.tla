----------------------------- MODULE MCSelection -----------------------------
(* Small trees with hard links, links to directories, links that lead to   *)
(* each other, and the patterns that make pruning, late parents and        *)
(* inherited matches meet.                                                 *)
EXTENDS Selection

Inc(c) == IncludePattern(c)
Not(c) == Exception(c)

(* 1/{1, 2/{1}}, 2/{1}, 3: one inode under 1/1, 1/2/1 and 2/1.             *)
HardTree ==
    (<<1>> :> DirNode @@ <<1, 1>> :> FileNode(1) @@ <<1, 2>> :> DirNode @@ <<1, 2, 1>> :> FileNode(1)
      @@ <<1, 2, 2>> :> FileNode(2) @@ <<2>> :> DirNode @@ <<2, 1>> :> FileNode(1) @@ <<3>> :> FileNode(3))
(* The top level a SubDirFS may have.                                      *)
SubTree == [p \in DOMAIN HardTree \ {<<3>>} |-> HardTree[p]]

(* 2 -> /1, 3/1 -> ../2/2, 3/2 -> /, 4 -> 5, 5 -> 4, 6 -> 3/1              *)
SoftTree ==
    (<<1>> :> DirNode @@ <<1, 1>> :> FileNode(1) @@ <<1, 2>> :> FileNode(2)
      @@ <<2>> :> LinkNode(Absolute, <<1>>) @@ <<3>> :> DirNode @@ <<3, 1>> :> LinkNode(1, <<2, 2>>)
      @@ <<3, 2>> :> LinkNode(Absolute, <<>>) @@ <<4>> :> LinkNode(0, <<5>>)
      @@ <<5>> :> LinkNode(0, <<4>>) @@ <<6>> :> LinkNode(0, <<3, 1>>))

(* 2 -> 1/1, 3/1 -> ../2, 3/2 -> ../5, 3/3 -> ../4, 6 -> 3/1, 7 -> 1,      *)
(* 8/1 -> ../../1/1, 4 is empty, and there is no 5                         *)
RelativeTree ==
    (<<1>> :> DirNode @@ <<1, 1>> :> FileNode(1) @@ <<1, 2>> :> FileNode(2)
      @@ <<2>> :> LinkNode(0, <<1, 1>>) @@ <<3>> :> DirNode @@ <<3, 1>> :> LinkNode(1, <<2>>)
      @@ <<3, 2>> :> LinkNode(1, <<5>>) @@ <<3, 3>> :> LinkNode(1, <<4>>) @@ <<4>> :> DirNode
      @@ <<6>> :> LinkNode(0, <<3, 1>>) @@ <<7>> :> LinkNode(0, <<1>>)
      @@ <<8>> :> DirNode @@ <<8, 1>> :> LinkNode(2, <<1, 1>>))

Includes == {<<>>, <<Inc(<<1, 2>>)>>, <<Inc(<<1, 2, 1>>), Inc(<<2>>)>>, <<Inc(<<Star, 1>>)>>,
             <<Inc(<<1, Star, DoubleStar>>)>>, <<Inc(<<1, DoubleStar>>), Inc(<<3>>)>>,
             <<Inc(<<1>>), Not(<<1, 2>>), Inc(<<1, 2, 1>>)>>}
Excludes == {<<>>, <<Inc(<<1>>)>>, <<Inc(<<1>>), Not(<<1, 2, 1>>)>>, <<Inc(<<1, 1>>)>>,
             <<Inc(<<Star>>), Not(<<Star, 1>>)>>, <<Inc(<<1, 2>>), Not(<<1, 2, DoubleStar>>)>>}
Maps == {<<>>, <<1>> :> "exclude", <<1>> :> "skipdir", <<1, 1>> :> "skipdir", <<1, 1>> :> "exclude", <<1, 2>> :> "skipdir"}

Case(fs, tree, follow, inc, exc, map, closed, vanishing) ==
    [fs |-> fs, tree |-> tree, follow |-> follow, include |-> inc, exclude |-> exc,
     map |-> map, closed |-> closed, vanishing |-> vanishing]

TreeOf(fs) == IF fs = "sub" THEN SubTree ELSE HardTree
Filters ==
    {Case(fs, TreeOf(fs), <<>>, inc, exc, map, {}, {}) :
       fs \in {"fs", "root", "sub"}, inc \in Includes, exc \in Excludes, map \in Maps}
Disks ==
    {Case(fs, TreeOf(fs), <<>>, inc, exc, map, closed, {<<1>>, <<1, 1>>, <<1, 2>>}) :
       fs \in {"fs", "root", "sub"}, inc \in Includes, exc \in {<<>>, <<Inc(<<1>>), Not(<<1, 2, 1>>)>>},
       map \in {<<>>, <<1>> :> "exclude"}, closed \in {{}, {<<1>>}, {<<1, 2>>}, {<<>>}}}
Follows ==
    {Case(fs, SoftTree, follow, inc, <<>>, <<>>, closed, {}) :
       fs \in {"fs", "root"}, inc \in {<<>>, <<Inc(<<1, 1>>)>>}, closed \in {{}, {<<3>>}},
       follow \in {<<p>> \o q : p \in {<<2, 1>>, <<3, Star>>, <<4>>, <<6>>, <<3, 2, 2>>},
                                q \in {<<>>, <<<<2, 2>>>>, <<<<Star, 1>>>>, <<<<3, 2>>>>, <<<<1, 2>>>>, <<<<9, 1>>>>}}}
RelativeFollows ==
    {Case(fs, RelativeTree, follow, inc, <<>>, <<>>, closed, {}) :
       fs \in {"fs", "root"}, inc \in {<<>>, <<Inc(<<1, 2>>)>>}, closed \in {{}, {<<4>>}},
       follow \in {<<p>> \o q : p \in {<<2>>, <<6>>, <<3, Star>>, <<3, 3, 1>>, <<7, 1>>, <<8, 1>>},
                                q \in {<<>>, <<<<3, 1>>>>, <<<<3, 2, 1>>>>, <<<<4, Star>>>>}}}
SubFollows ==
    {Case("sub", SubTree, <<p>>, <<>>, <<>>, <<>>, {}, {}) : p \in {<<1, 1>>, <<1, Star>>, <<9>>, <<Star>>, <<1, 2, Star>>}}

MCCases == Filters \cup Disks \cup Follows \cup RelativeFollows \cup SubFollows
=============================================================================
