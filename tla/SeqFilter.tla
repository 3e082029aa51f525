------------------------------ MODULE SeqFilter ------------------------------
(***************************************************************************)
(* Operators on sequences of distinct elements that the queue models share.*)
(* Each is the TLA+ form of an Array.prototype operation of the source:    *)
(* filter, findIndex and splice.                                           *)
(***************************************************************************)
EXTENDS Integers, Sequences

\* The elements of a sequence.
Elems(s) == {s[i] : i \in DOMAIN s}

\* FilterFcn(s, S)[n]: those of the first n elements of s that belong to S.
FilterFcn(s, S) ==
  LET F[n \in 0..Len(s)] ==
        IF n = 0 THEN << >>
        ELSE IF s[n] \in S THEN Append(F[n - 1], s[n])
        ELSE F[n - 1]
  IN  F

\* s.filter(x => S.has(x)): the subsequence of the elements that belong to S.
Filter(s, S) == FilterFcn(s, S)[Len(s)]

\* s.findIndex(...): the least index of a non-empty set of indexes.
Least(I) == CHOOSE i \in I : \A j \in I : i <= j

\* s.splice(i, 0, e).
InsertAt(s, i, e) == SubSeq(s, 1, i - 1) \o <<e>> \o SubSeq(s, i, Len(s))

\* s.splice(i, 1).
DeleteAt(s, i) == SubSeq(s, 1, i - 1) \o SubSeq(s, i + 1, Len(s))
==============================================================================
