----------------------------- MODULE MCTreeCopy -----------------------------
(* Small source trees with hard links, a symlink and a pipe, destinations  *)
(* in which something is in the way, and the options that change what      *)
(* happens then.                                                           *)
EXTENDS TreeCopy, TLC

Dir(i)     == [kind |-> "dir",  ino |-> i, to |-> <<>>]
File(i)    == [kind |-> "file", ino |-> i, to |-> <<>>]
Pipe(i)    == [kind |-> "pipe", ino |-> i, to |-> <<>>]
Link(i, t) == [kind |-> "link", ino |-> i, to |-> t]

(* 1/{1, 2/{1}, 3}, 2/{1, 2/{1, 3}}, 3 -> 1/2: one inode under 1/1, 1/2/1  *)
(* and 2/2/1.                                                              *)
Source ==
    (<<>> :> Dir(1) @@ <<1>> :> Dir(2) @@ <<1, 1>> :> File(20) @@ <<1, 2>> :> Dir(3) @@ <<1, 2, 1>> :> File(20)
      @@ <<1, 3>> :> File(21)
      @@ <<2>> :> Dir(4) @@ <<2, 1>> :> File(22) @@ <<2, 2>> :> Dir(5) @@ <<2, 2, 1>> :> File(20)
      @@ <<2, 2, 3>> :> Pipe(23) @@ <<3>> :> Link(24, <<1, 2>>))

There(kind, n) == [kind |-> kind, node |-> n, data |-> IF kind = "dir" THEN 0 ELSE Old, mode |-> Old, time |-> Old]
Empty  == <<>> :> There("dir", 1)
Dest(p, kind) == Empty @@ p :> There(kind, 2)
(* 1/{1, 2, 9}, 9/{1/1, 2}                                                 *)
Full ==
    Empty @@ <<1>> :> There("dir", 2) @@ <<1, 1>> :> There("dir", 3) @@ <<1, 2>> :> There("file", 4)
      @@ <<1, 9>> :> There("file", 5)
      @@ <<9>> :> There("dir", 6) @@ <<9, 1>> :> There("dir", 7) @@ <<9, 1, 1>> :> There("link", 8) @@ <<9, 2>> :> There("file", 5)

Inc(c) == IncludePattern(c)
Not(c) == Exception(c)
Includes == {<<>>, <<Inc(<<2>>)>>, <<Inc(<<1>>), Inc(<<2, 1>>)>>, <<Inc(<<Star, 1>>)>>, <<Inc(<<2>>), Not(<<2, 1>>)>>}
Excludes == {<<>>, <<Inc(<<1>>)>>, <<Inc(<<2>>), Not(<<2, 1>>)>>}

Case(d, from, to, slash, follow, contents, replace, inc, exc, mode, utime, bad, vanishing, cancels) ==
    [src |-> Source, dst |-> d, from |-> from, to |-> to, slash |-> slash, wild |-> TRUE,
     follow |-> follow, contents |-> contents, replace |-> replace, include |-> inc, exclude |-> exc,
     mode |-> mode, utime |-> utime, bad |-> bad, vanishing |-> vanishing, cancels |-> cancels]

Plain(d, from, to, slash, contents, replace, utime) ==
    Case(d, from, to, slash, FALSE, contents, replace, <<>>, <<>>, utime, utime, {}, {}, FALSE)

(* Where things go.                                                        *)
Places ==
    {Plain(d, from, to, slash, contents, replace, utime) :
       d \in {Empty, Full, Dest(<<9>>, "file")}, from \in {<<>>, <<1>>, <<2, 1>>, <<Star>>, <<1, Star>>, <<4>>, <<4, Star>>, <<3>>},
       to \in {<<>>, <<9>>, <<9, 8>>}, slash \in BOOLEAN, contents \in BOOLEAN, replace \in BOOLEAN, utime \in BOOLEAN}
(* What goes.                                                              *)
Filters ==
    {Case(d, from, to, FALSE, TRUE, contents, replace, inc, exc, FALSE, utime, {}, {}, FALSE) :
       d \in {Empty, Full}, from \in {<<>>, <<1>>, <<Star>>, <<3>>}, to \in {<<>>, <<9>>},
       contents \in BOOLEAN, replace \in BOOLEAN, inc \in Includes, exc \in Excludes, utime \in BOOLEAN}
(* What fails.                                                             *)
Failures ==
    {Case(d, from, <<9>>, FALSE, FALSE, TRUE, TRUE, inc, <<>>, FALSE, FALSE, {b}, {}, FALSE) :
       d \in {Empty, Full}, from \in {<<>>, <<Star>>}, inc \in Includes,
       b \in {"read", "meta", "notify"} \X {<<1>>, <<1, 1>>, <<1, 2>>, <<3>>, <<2, 2, 3>>}}
Meanwhile ==
    {Case(d, from, <<9>>, FALSE, FALSE, TRUE, TRUE, inc, exc, FALSE, FALSE, {}, {<<1>>, <<1, 1>>, <<2, 2>>}, TRUE) :
       d \in {Empty, Full}, from \in {<<>>, <<Star>>}, inc \in Includes, exc \in Excludes}

MCCases == Places \cup Filters \cup Failures \cup Meanwhile
=============================================================================
