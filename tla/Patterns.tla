------------------------------ MODULE Patterns ------------------------------
(***************************************************************************)
(* Paths and patterns, as filter.go, followlinks.go and copy.go use them.  *)
(* A path is its sequence of names, <<>> the root; a name is its rank.  A  *)
(* pattern is [neg, comps]: neg is TRUE for an exception (!pattern), and   *)
(* comps may hold the wildcards Star and, at the end, DoubleStar.          *)
(***************************************************************************)
EXTENDS PathOrder, FiniteSetsExt

Star       == 0
DoubleStar == -1

Extend(f, k, v) == [x \in DOMAIN f \cup {k} |-> IF x = k THEN v ELSE f[x]]

IncludePattern(p) == [neg |-> FALSE, comps |-> p]
Exception(p)      == [neg |-> TRUE,  comps |-> p]

OwnMatch(c, p) ==
    LET fixed == IF Last(c) = DoubleStar THEN Front(c) ELSE c
    IN  /\ IF Last(c) = DoubleStar THEN Len(p) > Len(fixed) ELSE Len(p) = Len(fixed)
        /\ \A i \in DOMAIN fixed : fixed[i] \in {Star, p[i]}

(* MatchInfo: which patterns match p or a parent; without the parent's     *)
(* info (<<>>) every parent is tried.                                      *)
MatchInfo(pats, p, parent) ==
    [i \in DOMAIN pats |->
       \/ OwnMatch(pats[i].comps, p)
       \/ IF parent # <<>> THEN parent[i]
          ELSE \E n \in 1..(Len(p) - 1) : OwnMatch(pats[i].comps, SubSeq(p, 1, n))]
Decides(pats, info) ==
    LET hits == {i \in DOMAIN pats : info[i]}
    IN  hits # {} /\ ~pats[Max(hits)].neg
MatchesOrParentMatches(pats, p) == Decides(pats, MatchInfo(pats, p, <<>>))
Exclusions(pats) == \E i \in DOMAIN pats : pats[i].neg
=============================================================================
