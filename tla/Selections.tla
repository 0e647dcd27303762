----------------------------- MODULE Selections -----------------------------
(***************************************************************************)
(* Iterator filters and sorts of the code in closed form: what they take   *)
(* from a sequence is given by positions, and these are put in order by    *)
(* how many come before them.                                              *)
(***************************************************************************)
EXTENDS Naturals, Sequences, FiniteSets

\* The numbers of the finite set S, in ascending order.
Ordered(S) ==
    [k \in 1..Cardinality(S) |-> CHOOSE i \in S : Cardinality({j \in S : j <= i}) = k]

\* What of s is in T, in the order of s.
Select(s, T) ==
    LET at == Ordered({i \in DOMAIN s : s[i] \in T}) IN [k \in DOMAIN at |-> s[at[k]]]

\* The sequences of ss, one after the other.
Joined(ss) ==
    LET upTo[n \in 0..Len(ss)] == IF n = 0 THEN <<>> ELSE upTo[n - 1] \o ss[n]
    IN  upTo[Len(ss)]

\* How often x is in s.
Occurrences(s, x) == Cardinality({i \in DOMAIN s : s[i] = x})

\* The place of s[i] when s is sorted; of equal numbers, the first goes first.
Rank(s, i) == Cardinality({j \in DOMAIN s : s[j] < s[i] \/ (s[j] = s[i] /\ j <= i)})

Sorted(s) == [k \in DOMAIN s |-> s[CHOOSE i \in DOMAIN s : Rank(s, i) = k]]
=============================================================================
