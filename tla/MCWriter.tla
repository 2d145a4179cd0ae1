------------------------------- MODULE MCWriter -------------------------------
(* A directory with a read-only file of two packets, a second name of that *)
(* file, and an entry whose sort changes; over nothing, over an older      *)
(* version, and over one where names were links of each other.             *)
EXTENDS Writer

D == <<1>>
F == <<1, 1>>
L == <<2>>
X == <<3>>

S(sort, n, mode, link) == [kind |-> sort, n |-> n, mode |-> mode, link |-> link]
Source == [p \in {D, F, L, X} |->
             CASE p = D -> S("dir", 0, "rw", <<>>)
               [] p = F -> S("file", 2, "ro", <<>>)
               [] p = L -> S("file", 2, "ro", F)
               [] p = X -> S("dir", 0, "rw", <<>>)]
Small == [p \in {F, L} \cup {D} |-> Source[p]]
Plain == [p \in {D, F, X} |-> IF p = X THEN S("symlink", 0, "rw", <<>>) ELSE Source[p]]

B(sort, n, mode, link) == [node |-> Node(sort, "old", n, mode, "old"), link |-> link]
Nothing  == [p \in {} |-> B("dir", 0, "rw", <<>>)]
Older    == [p \in {D, F, L, X} |->
               CASE p = D -> B("dir", 0, "ro", <<>>)
                 [] p = F -> B("file", 2, "rw", <<>>)
                 [] p = L -> B("file", 2, "rw", F)
                 [] p = X -> B("file", 1, "rw", <<>>)]
Reversed == [p \in {D, F, <<1, 2>>} |->
               IF p = F THEN B("dir", 0, "rw", <<>>)
               ELSE IF p = D THEN B("dir", 0, "rw", <<>>) ELSE B("file", 1, "rw", <<>>)]

Scenario(source, before, rooted, sync, root, filtered, trouble) ==
    [source |-> source, before |-> before, rooted |-> rooted, sync |-> sync, root |-> root,
     filtered |-> filtered, trouble |-> trouble]
MCScenarios ==
    {Scenario(s, b, r, y, u, {}, t) :
       s \in {Source, Plain}, b \in {Nothing, Older, Reversed}, r \in BOOLEAN, y \in BOOLEAN, u \in BOOLEAN,
       t \in {{"fault"}, {"cancel"}, {"crash"}, {"mkdir"}}}
      \cup {Scenario(Small, b, r, FALSE, u, {F}, {}) : b \in {Nothing, Older, Reversed}, r \in BOOLEAN, u \in BOOLEAN}
=============================================================================
