------------------------------ MODULE Routing ------------------------------
(***************************************************************************)
(* Longest-prefix routing: matchRoute and prefixMatches in                 *)
(* internal/proxy/gateway.go.                                              *)
(*                                                                         *)
(* An absolute path is the sequence of its segments, that is, the path     *)
(* split at every "/" after the first: "/" is <<"">>, "/a" is <<"a">> and  *)
(* "/a/" is <<"a", "">>.  A segment that is not empty has one character,   *)
(* the width at which a trailing slash weighs most.                        *)
(***************************************************************************)
EXTENDS Integers, FiniteSets, Sequences

\* A segment with nothing in it.
Empty == ""

Root == <<Empty>>

\* len(path) in bytes: a slash before every segment, and the segment.
Length(path) == Len(path) + Cardinality({i \in DOMAIN path : path[i] # Empty})

\* strings.TrimRight(path, "/")
TrimSlashes(path) ==
  LET last == CHOOSE n \in 0 .. Len(path) :
                /\ n > 0 => path[n] # Empty
                /\ \A i \in n + 1 .. Len(path) : path[i] = Empty
  IN  SubSeq(path, 1, last)

\* strings.HasPrefix(path, base + "/"): there is a segment, be it empty, after
\* those of base.
IsBelow(path, base) ==
  Len(path) > Len(base) /\ \A i \in 1 .. Len(base) : path[i] = base[i]

\* The prefix itself, or anything below it: the match ends at a segment.
prefixMatches(prefix, path) ==
  \/ prefix = Root
  \/ path = prefix
  \/ IsBelow(path, TrimSlashes(prefix))

Matches(routes, path) ==
  {i \in DOMAIN routes : prefixMatches(routes[i].pathPrefix, path)}

\* Mutant: the first route that matches wins.
matchFirstRoute(routes, path) ==
  LET matching == Matches(routes, path)
  IN  IF matching = {} THEN 0
      ELSE CHOOSE i \in matching : \A j \in matching : i <= j

\* The index of the longest matching prefix, the first of them if several are
\* equally long, and 0 if no route matches.
matchRoute(routes, path) ==
  LET matching == Matches(routes, path)
      length(i) == Length(routes[i].pathPrefix)
  IN  IF matching = {} THEN 0
      ELSE CHOOSE i \in matching :
             \A j \in matching :
               length(i) > length(j) \/ (length(i) = length(j) /\ i <= j)
=============================================================================
