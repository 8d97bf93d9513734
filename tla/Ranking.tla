------------------------------- MODULE Ranking -------------------------------
(***************************************************************************)
(* The vectors SirenWM builds with loops (pool lists, window lists) are    *)
(* described here by what they contain and in which order, instead of by   *)
(* the loop: a list is the content of a finite set in ascending order of   *)
(* an integer key.  Positions are those of TLA+ sequences, 1 .. Len(s);    *)
(* position 0 stands for the code's "not found", -1.                       *)
(***************************************************************************)
EXTENDS Integers, Sequences, FiniteSets, Functions

\* The list f itself (lemma ListIs): a function on 1 .. n, written so that TLC
\* computes its elements once and not at every use.
List(f) == SubSeq(f, 1, Len(f))

\* The position of x in s, 0 when x is not in s.  No list of the program
\* repeats an element, so it is also the first position.
index_of(s, x) ==
  IF x \in Range(s) THEN CHOOSE i \in DOMAIN s : s[i] = x ELSE 0

\* How many members of S have a key that is not above the key of x.
Rank(S, key, x) == Cardinality({y \in S : key[y] <= key[x]})

\* The members of the finite set S in ascending order of key, an injection.
SortedBy(S, key) ==
  List([k \in 1 .. Cardinality(S) |-> CHOOSE x \in S : Rank(S, key, x) = k])

\* The members of S that s lists, in the order s lists them.
Keep(s, S) ==
  SortedBy(Range(s) \cap S, [x \in Range(s) \cap S |-> index_of(s, x)])
=============================================================================
