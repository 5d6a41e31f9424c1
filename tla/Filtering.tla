---- MODULE Filtering ----
(* What a list comprehension with a condition leaves of a list.  A recursive *)
(* function, where SelectSeq is one the proof system has no definition of.   *)
EXTENDS Integers, Sequences

\* The elements of s that are in S, in their order.
Only(s, S) ==
  LET upTo[n \in 0..Len(s)] ==
        IF n = 0 THEN <<>>
        ELSE IF s[n] \in S THEN Append(upTo[n - 1], s[n]) ELSE upTo[n - 1]
  IN  upTo[Len(s)]
====
