--------------------------- MODULE SequenceParts ---------------------------
(* Parts of a sequence named by a set of elements, as SelectSeq names them *)
(* by a test.                                                              *)
EXTENDS Integers, Sequences, FiniteSets

\* The elements of s that are in S, in the order of s.
Kept(s, S) ==
  LET kept[n \in 0..Len(s)] ==
        IF n = 0 THEN <<>>
        ELSE IF s[n] \in S THEN Append(kept[n - 1], s[n]) ELSE kept[n - 1]
  IN  kept[Len(s)]

\* The images under f of the elements of s that f is defined for, in their order.
KeptImages(s, f) ==
  LET images[n \in 0..Len(s)] ==
        IF n = 0 THEN <<>>
        ELSE IF s[n] \in DOMAIN f THEN Append(images[n - 1], f[s[n]]) ELSE images[n - 1]
  IN  images[Len(s)]

\* How many elements of s are in S.
Occurrences(s, S) == Cardinality({i \in DOMAIN s : s[i] \in S})
=============================================================================
