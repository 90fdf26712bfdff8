-------------------------------- MODULE Lists --------------------------------
(***************************************************************************)
(* The list comprehension of Python with a condition,                      *)
(* [x for x in s if x in T], as the code uses it to clean its lists. It is *)
(* what SelectSeq computes, defined without recursion: by counting.        *)
(***************************************************************************)
EXTENDS Integers, Sequences, FiniteSets

\* Where s has elements of T, and how many of these places are not after i.
Places(s, T) == {i \in 1 .. Len(s) : s[i] \in T}
Rank(s, T, i) == Cardinality({j \in Places(s, T) : j <= i})

\* The elements of T in s, in the order of s.
Only(s, T) ==
  [n \in 1 .. Cardinality(Places(s, T)) |->
     s[CHOOSE i \in Places(s, T) : Rank(s, T, i) = n]]
==============================================================================
