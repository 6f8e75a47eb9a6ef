------------------------------ MODULE Sequencing ------------------------------
(***************************************************************************)
(* What the program does to lists: a comprehension with a condition, and   *)
(* sorted() by a key, which is stable.  Both are written so that they can  *)
(* be reasoned about.                                                      *)
(***************************************************************************)
EXTENDS Integers, Sequences, FiniteSets, SequencesExt

\* The elements of a sequence at some places, in their order.
Keep(s, places) ==
    FlattenSeq([i \in DOMAIN s |-> IF i \in places THEN <<s[i]>> ELSE <<>>])

\* The first of two tuples of numbers in the order of dictionaries.
Precedes(a, b) ==
    \E i \in DOMAIN a : a[i] < b[i] /\ \A j \in 1..(i - 1) : a[j] = b[j]

\* A stable order of the places of some keys: each goes behind those before it
\* in the list whose key it does not precede.
SortOrder(keys) ==
    LET upto[n \in 0..Len(keys)] ==
            IF n = 0 THEN <<>>
            ELSE LET t == upto[n - 1]
                     behind == {j \in DOMAIN t : Precedes(keys[n], keys[t[j]])}
                 IN IF behind = {} THEN Append(t, n)
                    ELSE Keep(t, DOMAIN t \ behind) \o <<n>> \o Keep(t, behind)
    IN upto[Len(keys)]

\* sorted(s, key=...), with the keys of the elements.
Sorted(s, keys) ==
    LET order == SortOrder(keys) IN [k \in DOMAIN s |-> s[order[k]]]
=============================================================================
