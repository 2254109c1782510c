----------------------------- MODULE FileScopes -----------------------------
(* The file scopes of planned tasks (dependency-graph.ts): a glob as the    *)
(* sequence of its path segments, which files it matches once compiled, and *)
(* the heuristic that says whether two scopes may touch one file. A segment *)
(* is a name, a name with a star in it, or "**".                            *)
EXTENDS Integers, Sequences, FiniteSets

(* Segment names, and what begins and ends with what. *)
Names == {"a", "b", "ab"}
BeginsWith(n) == IF n = "a" THEN {"a", "ab"} ELSE {n}
EndsWith(n) == IF n = "b" THEN {"b", "ab"} ELSE {n}

Wild == {"a*", "*", "**"}
Segments == Names \cup Wild

SeqUpTo(S, n) == UNION {[1 .. k -> S] : k \in 1 .. n}
Globs == SeqUpTo(Segments, 3)
Files == SeqUpTo(Names, 3)

(* "*" stays within a segment. *)
SegmentMatches(s, n) == \/ s = n
                        \/ s = "*"
                        \/ s = "a*" /\ n \in BeginsWith("a")

(* "**" becomes ".*" and swallows the slash behind it, so that the segment  *)
(* after it may also match the tail of a name.                              *)
TailMatches(s, n) == s \in {"*", "a*"} \/ n \in EndsWith(s)

(* The glob from segment i on matches the file from segment j on, when      *)
(* `from` tells that of the later segments.                                 *)
RestMatches(from, glob, file, i, j) ==
    LET G == Len(glob)  F == Len(file)
    IN \/ i = G + 1 /\ j = F + 1
       \/ i = G /\ glob[i] = "**" /\ j <= F      \* "x/**" needs something below x
       \/ /\ i < G /\ glob[i] = "**"
          /\ \E k \in j .. F :
                \/ from[<<i + 1, k>>]
                \/ /\ glob[i + 1] # "**" /\ TailMatches(glob[i + 1], file[k])
                   /\ from[<<i + 2, k + 1>>]
                \/ glob[i + 1] = "**"
       \/ /\ i <= G /\ glob[i] # "**" /\ j <= F
          /\ SegmentMatches(glob[i], file[j]) /\ from[<<i + 1, j + 1>>]

(* globToRegExp and the test of a path, by the position reached in each. *)
Matches(glob, file) ==
    LET from[at \in (1 .. Len(glob) + 1) \X (1 .. Len(file) + 1)] ==
            RestMatches(from, glob, file, at[1], at[2])
    IN from[<<1, 1>>]

(* The leading literal path: whole segments up to the first wildcard. *)
LiteralPrefix(glob) ==
    LET wild == {i \in DOMAIN glob : glob[i] \in Wild}
        first == CHOOSE i \in wild : \A k \in wild : i <= k
    IN IF wild = {} THEN glob ELSE SubSeq(glob, 1, first - 1)

IsPrefixDir(parent, child) ==
    Len(parent) <= Len(child) /\ parent = SubSeq(child, 1, Len(parent))

(* Mutant of PairOverlaps: nested prefixes are looked at one way only. *)
PairOverlapsOneWay(ga, gb) ==
    LET pa == LiteralPrefix(ga)  pb == LiteralPrefix(gb)
    IN \/ ga = gb
       \/ IsPrefixDir(pa, pb)
       \/ pb # <<>> /\ Matches(ga, pb)
       \/ pa # <<>> /\ Matches(gb, pa)

PairOverlaps(ga, gb) ==
    LET pa == LiteralPrefix(ga)  pb == LiteralPrefix(gb)
    IN \/ ga = gb
       \/ IsPrefixDir(pa, pb) \/ IsPrefixDir(pb, pa)
       \/ pb # <<>> /\ Matches(ga, pb)
       \/ pa # <<>> /\ Matches(gb, pa)

ScopesOverlap(a, b) == \E ga \in a, gb \in b : PairOverlaps(ga, gb)

-----------------------------------------------------------------------------
(* The heuristic never misses: two globs some file matches overlap, so that *)
(* scopes kept apart share no file (the comment on scopesOverlap).          *)
Matched(glob) == {f \in Files : Matches(glob, f)}
ScopesConservative ==
    LET matched == [g \in Globs |-> Matched(g)]
    IN \A g, h \in Globs : matched[g] \cap matched[h] # {} => PairOverlaps(g, h)
=============================================================================
