--------------------------- MODULE SequencingProofs ---------------------------
(***************************************************************************)
(* Proofs about the operators of Sequencing, and about the sum of a        *)
(* function, for all sequences and functions.                              *)
(***************************************************************************)
EXTENDS Sequencing, Functions, TLAPS, FiniteSetTheorems, SequenceTheorems

-----------------------------------------------------------------------------
(* Induction over the numbers up to a bound, on a set *)

\* A set of numbers that is not empty has a least one.
LEMMA LeastNat ==
    ASSUME NEW S, S \subseteq Nat, S # {}
    PROVE  \E n \in S : \A m \in S : n <= m
<1> DEFINE Less == {p \in Nat \X Nat : p[1] < p[2]}
<1>1. IsWellFoundedOn(Less, Nat)
  BY NatLessThanWellFounded, Zenon DEF OpToRel
<1>2. PICK n \in S : \A m \in S : ~(<<m, n>> \in Less)
  <2> HIDE DEF Less
  <2> QED
    BY <1>1, WFMin
<1>3. \A m \in S : m < n => <<m, n>> \in Less
  BY <1>2
<1> HIDE DEF Less
<1>4. \A m \in S : ~(m < n)
  BY <1>2, <1>3
<1>5. n \in Nat /\ S \subseteq Nat
  BY <1>2
<1>6. QED
  BY <1>2, <1>4, <1>5

\* What holds of 0, and of k + 1 when it holds of k, holds up to n.
LEMMA UpTo ==
    ASSUME NEW n \in Nat, NEW S, 0 \in S,
           \A k \in 0..n : k < n /\ k \in S => k + 1 \in S
    PROVE  \A k \in 0..n : k \in S
<1> DEFINE Out == {k \in 0..n : k \notin S}
<1>1. SUFFICES ASSUME Out # {} PROVE FALSE
  OBVIOUS
<1>2. PICK k \in Out : \A m \in Out : k <= m
  <2>1. Out \subseteq Nat
    OBVIOUS
  <2>2. QED
    BY <1>1, <2>1, LeastNat
<1>3. k # 0 /\ k \in 0..n
  BY <1>2
<1>4. k - 1 \in 0..n /\ k - 1 < n /\ k - 1 \notin Out
  BY <1>2, <1>3
<1>5. k - 1 \in S
  BY <1>4
<1>6. (k - 1) + 1 \in S
  BY <1>4, <1>5
<1>7. QED
  BY <1>2, <1>3, <1>6
-----------------------------------------------------------------------------
(* FlattenSeq *)

\* The concatenations of the first i sequences.
Prefixed(F, seqs, T, n) ==
    /\ F \in [0..n -> Seq(T)] /\ F[0] = <<>>
    /\ \A i \in 1..n : F[i] = F[i - 1] \o seqs[i]

\* FlattenSeq goes over the concatenations of the first sequences.
LEMMA FlattenPrefixes ==
    ASSUME NEW T, NEW seqs \in Seq(Seq(T))
    PROVE  \E F : Prefixed(F, seqs, T, Len(seqs)) /\ FlattenSeq(seqs) = F[Len(seqs)]
<1> DEFINE n == Len(seqs)
<1> DEFINE S == {k \in 0..n : \E F : Prefixed(F, seqs, T, k)}
<1>1. n \in Nat /\ \A i \in 1..n : seqs[i] \in Seq(T)
  OBVIOUS
<1>2. 0 \in S
  <2>1. Prefixed([i \in 0..0 |-> <<>>], seqs, T, 0)
    BY DEF Prefixed
  <2>2. QED
    BY <1>1, <2>1
<1>3. \A k \in 0..n : k < n /\ k \in S => k + 1 \in S
  <2> SUFFICES ASSUME NEW k \in 0..n, k < n, k \in S PROVE k + 1 \in S
    OBVIOUS
  <2>1. PICK F : Prefixed(F, seqs, T, k)
    OBVIOUS
  <2> DEFINE G == [i \in 0..(k + 1) |-> IF i = k + 1 THEN F[k] \o seqs[k + 1] ELSE F[i]]
  <2>2. F[k] \in Seq(T) /\ seqs[k + 1] \in Seq(T)
    BY <1>1, <2>1 DEF Prefixed
  <2>3. G \in [0..(k + 1) -> Seq(T)] /\ G[0] = <<>>
    BY <2>1, <2>2 DEF Prefixed
  <2>4. ASSUME NEW i \in 1..(k + 1) PROVE G[i] = G[i - 1] \o seqs[i]
    <3>1. G[i - 1] = F[i - 1]
      OBVIOUS
    <3>2. G[i] = IF i = k + 1 THEN F[k] \o seqs[k + 1] ELSE F[i]
      OBVIOUS
    <3>3. i # k + 1 => F[i] = F[i - 1] \o seqs[i]
      <4>1. i # k + 1 => i \in 1..k
        OBVIOUS
      <4>2. \A j \in 1..k : F[j] = F[j - 1] \o seqs[j]
        BY <2>1 DEF Prefixed
      <4> HIDE DEF G
      <4>3. QED
        BY <4>1, <4>2, Zenon
    <3>4. i = k + 1 => i - 1 = k
      OBVIOUS
    <3> HIDE DEF G
    <3>5. QED
      BY <3>1, <3>2, <3>3, <3>4, Zenon
  <2>5. Prefixed(G, seqs, T, k + 1)
    BY <2>3, <2>4 DEF Prefixed
  <2>6. QED
    BY <2>5, <1>1
<1>4. PICK F : Prefixed(F, seqs, T, n)
  <2>1. n \in S
    <3> HIDE DEF S
    <3>1. \A k \in 0..n : k \in S
      BY <1>1, <1>2, <1>3, UpTo
    <3>2. QED
      BY <1>1, <3>1
  <2>2. QED
    BY <2>1
<1>5. CASE n = 0
  <2>1. FlattenSeq(seqs) = <<>>
    BY <1>5 DEF FlattenSeq
  <2>2. QED
    BY <1>4, <1>5, <2>1 DEF Prefixed
<1>6. CASE n # 0
  <2> DEFINE Defines(f) == f = [i \in 1..n |-> IF i = 1 THEN seqs[i] ELSE f[i - 1] \o seqs[i]]
  <2> DEFINE f == CHOOSE g : Defines(g)
  <2>1. FlattenSeq(seqs) = f[n]
    BY <1>6 DEF FlattenSeq
  <2>2. \A i \in 1..n : F[i] = IF i = 1 THEN seqs[i] ELSE F[i - 1] \o seqs[i]
    <3>1. \A i \in 1..n : F[i] = F[i - 1] \o seqs[i]
      BY <1>4 DEF Prefixed
    <3>2. F[1] = <<>> \o seqs[1] /\ seqs[1] \in Seq(T)
      <4>1. 1 \in 1..n /\ 1 - 1 = 0
        BY <1>1, <1>6
      <4>2. F[1] = F[0] \o seqs[1]
        BY <3>1, <4>1
      <4>3. F[0] = <<>>
        BY <1>4 DEF Prefixed
      <4>4. QED
        BY <1>1, <4>1, <4>2, <4>3
    <3>3. F[1] = seqs[1]
      BY <3>2, ConcatEmptySeq
    <3>4. QED
      BY <3>1, <3>3, Zenon
  <2>5. Defines([i \in 1..n |-> F[i]])
    <3>1. \A i \in 1..n : i # 1 => i - 1 \in 1..n
      OBVIOUS
    <3>2. QED
      BY <2>2, <3>1
  <2>3. Defines(f)
    BY <2>5
  <2>4. \A i \in 1..n : f[i] = IF i = 1 THEN seqs[i] ELSE f[i - 1] \o seqs[i]
    BY <2>3
  <2> HIDE DEF f, Defines
  <2> DEFINE R == {k \in Nat : k + 1 \in 1..n => f[k + 1] = F[k + 1]}
  <2>6. 0 \in R
    BY <2>2, <2>4
  <2>7. \A k \in 0..n : k < n /\ k \in R => k + 1 \in R
    <3> HIDE DEF S
    <3>6. \A k \in 0..n : k + 1 \in Nat
      BY <1>1
    <3> SUFFICES ASSUME NEW k \in 0..n, k < n, k \in R, (k + 1) + 1 \in 1..n
                 PROVE  f[(k + 1) + 1] = F[(k + 1) + 1]
      BY <3>6, Zenon
    <3>1. (k + 1) + 1 # 1 /\ ((k + 1) + 1) - 1 = k + 1 /\ k + 1 \in 1..n
      BY <1>1
    <3>2. f[k + 1] = F[k + 1]
      BY <3>1
    <3> HIDE DEF R
    <3>3. f[(k + 1) + 1] = f[k + 1] \o seqs[(k + 1) + 1]
      BY <3>1, <2>4
    <3>4. F[(k + 1) + 1] = F[k + 1] \o seqs[(k + 1) + 1]
      BY <3>1, <2>2
    <3>5. QED
      BY <3>2, <3>3, <3>4
  <2>8. n - 1 \in R
    <3> HIDE DEF R
    <3>1. \A k \in 0..n : k \in R
      BY <1>1, <2>6, <2>7, UpTo
    <3>2. QED
      BY <1>1, <1>6, <3>1
  <2>9. f[n] = F[n]
    BY <1>1, <1>6, <2>8
  <2>10. QED
    BY <1>4, <2>1, <2>9
<1>7. QED
  BY <1>5, <1>6

\* An element of the concatenation of the first n sequences: which one it is of
\* and where it stands there, in order.
Places(q, seqs, n, at) ==
    /\ at \in [1..Len(q) -> Nat \X Nat]
    /\ \A k \in 1..Len(q) : /\ at[k][1] \in 1..n /\ at[k][2] \in 1..Len(seqs[at[k][1]])
                            /\ q[k] = seqs[at[k][1]][at[k][2]]
    /\ \A k, l \in 1..Len(q) : k < l =>
          \/ at[k][1] < at[l][1]
          \/ at[k][1] = at[l][1] /\ at[k][2] < at[l][2]
    /\ \A i \in 1..n : \A m \in 1..Len(seqs[i]) : \E k \in 1..Len(q) : at[k] = <<i, m>>

LEMMA NextPlaces ==
    ASSUME NEW T, NEW seqs \in Seq(Seq(T)), NEW n \in Nat, n + 1 \in 1..Len(seqs),
           NEW q \in Seq(T), NEW at, Places(q, seqs, n, at)
    PROVE  \E to : Places(q \o seqs[n + 1], seqs, n + 1, to)
<1> DEFINE s == seqs[n + 1]
<1> DEFINE r == q \o s
<1> DEFINE to == [k \in 1..(Len(q) + Len(s)) |-> IF k <= Len(q) THEN at[k] ELSE <<n + 1, k - Len(q)>>]
<1>1. s \in Seq(T)
  OBVIOUS
<1>2. /\ r \in Seq(T) /\ Len(r) = Len(q) + Len(s) /\ Len(q) \in Nat /\ Len(s) \in Nat
      /\ \A k \in 1..Len(q) : r[k] = q[k]
      /\ \A k \in 1..Len(s) : r[Len(q) + k] = s[k]
  BY <1>1, ConcatProperties
<1>3. /\ at \in [1..Len(q) -> Nat \X Nat]
      /\ \A k \in 1..Len(q) : /\ at[k][1] \in 1..n /\ at[k][2] \in 1..Len(seqs[at[k][1]])
                              /\ q[k] = seqs[at[k][1]][at[k][2]]
      /\ \A k, l \in 1..Len(q) : k < l =>
          \/ at[k][1] < at[l][1]
          \/ at[k][1] = at[l][1] /\ at[k][2] < at[l][2]
      /\ \A i \in 1..n : \A m \in 1..Len(seqs[i]) : \E k \in 1..Len(q) : at[k] = <<i, m>>
  BY DEF Places
<1> DEFINE Old(k) == k \in 1..Len(q)
<1> DEFINE New(k) == k \in 1..Len(r) /\ k > Len(q)
<1>4. \A k \in 1..Len(r) : Old(k) \/ New(k)
  BY <1>2
<1>5. \A k : Old(k) => to[k] = at[k] /\ r[k] = q[k]
  BY <1>2
<1>6. ASSUME NEW k, New(k) PROVE /\ to[k] = <<n + 1, k - Len(q)>> /\ k - Len(q) \in 1..Len(s)
                                 /\ r[k] = s[k - Len(q)]
  <2>1. k - Len(q) \in 1..Len(s) /\ Len(q) + (k - Len(q)) = k
    BY <1>2, <1>6
  <2>2. r[Len(q) + (k - Len(q))] = s[k - Len(q)]
    BY <1>2, <2>1
  <2>3. QED
    BY <1>2, <1>6, <2>1, <2>2
<1>7. to \in [1..Len(r) -> Nat \X Nat]
  BY <1>2, <1>3
<1> HIDE DEF to, r, Old, New
<1>8. ASSUME NEW k \in 1..Len(r)
      PROVE  /\ to[k][1] \in 1..(n + 1) /\ to[k][2] \in 1..Len(seqs[to[k][1]])
             /\ r[k] = seqs[to[k][1]][to[k][2]]
  <2>1. CASE Old(k)
    <3>1. k \in 1..Len(q) /\ to[k] = at[k] /\ r[k] = q[k]
      BY <1>5, <2>1 DEF Old
    <3>2. /\ at[k][1] \in 1..n /\ at[k][2] \in 1..Len(seqs[at[k][1]])
          /\ q[k] = seqs[at[k][1]][at[k][2]]
      BY <1>3, <3>1
    <3>3. at[k][1] \in 1..(n + 1)
      BY <3>2
    <3>4. QED
      BY <3>1, <3>2, <3>3
  <2>2. CASE New(k)
    <3>1. to[k] = <<n + 1, k - Len(q)>> /\ k - Len(q) \in 1..Len(s) /\ r[k] = s[k - Len(q)]
      BY <1>6, <2>2
    <3>2. to[k][1] = n + 1 /\ to[k][2] = k - Len(q)
      BY <3>1
    <3>3. n + 1 \in 1..(n + 1)
      OBVIOUS
    <3>4. QED
      BY <3>1, <3>2, <3>3
  <2>3. QED
    BY <1>4, <2>1, <2>2
<1>9. ASSUME NEW k \in 1..Len(r), NEW l \in 1..Len(r), k < l
      PROVE  \/ to[k][1] < to[l][1]
             \/ to[k][1] = to[l][1] /\ to[k][2] < to[l][2]
  <2>1. CASE Old(k) /\ Old(l)
    <3>1. k \in 1..Len(q) /\ to[k] = at[k] /\ l \in 1..Len(q) /\ to[l] = at[l]
      BY <1>5, <2>1 DEF Old
    <3>2. \/ at[k][1] < at[l][1]
          \/ at[k][1] = at[l][1] /\ at[k][2] < at[l][2]
      BY <1>3, <1>9, <3>1
    <3>3. QED
      BY <3>1, <3>2
  <2>2. CASE Old(k) /\ New(l)
    <3>1. to[k][1] \in 1..n
      BY <1>3, <1>5, <2>2 DEF Old
    <3>2. to[l][1] = n + 1
      BY <1>6, <2>2
    <3>3. QED
      BY <3>1, <3>2
  <2>3. CASE New(k) /\ New(l)
    <3>1. to[k] = <<n + 1, k - Len(q)>> /\ to[l] = <<n + 1, l - Len(q)>>
      BY <1>6, <2>3
    <3>2. /\ to[k][1] = n + 1 /\ to[k][2] = k - Len(q)
          /\ to[l][1] = n + 1 /\ to[l][2] = l - Len(q)
      BY <3>1
    <3>3. Len(q) \in Nat /\ k \in Int /\ l \in Int
      BY <1>2
    <3>4. k - Len(q) < l - Len(q)
      BY <1>9, <3>3
    <3>5. QED
      BY <3>2, <3>4
  <2>4. ~(New(k) /\ Old(l))
    BY <1>2, <1>9 DEF Old, New
  <2>5. QED
    BY <1>4, <2>1, <2>2, <2>3, <2>4
<1>10. ASSUME NEW i \in 1..(n + 1), NEW m \in 1..Len(seqs[i])
       PROVE  \E k \in 1..Len(r) : to[k] = <<i, m>>
  <2>1. CASE i \in 1..n
    <3>1. PICK k \in 1..Len(q) : at[k] = <<i, m>>
      BY <1>3, <2>1
    <3>2. Old(k) /\ k \in 1..Len(r)
      BY <1>2 DEF Old
    <3>3. QED
      BY <1>5, <3>1, <3>2
  <2>2. CASE i = n + 1
    <3>1. New(Len(q) + m) /\ (Len(q) + m) - Len(q) = m
      BY <1>2, <2>2 DEF New
    <3>2. to[Len(q) + m] = <<i, m>>
      BY <1>6, <2>2, <3>1
    <3>3. QED
      BY <3>1, <3>2 DEF New
  <2>3. QED
    BY <2>1, <2>2
<1>11. Places(r, seqs, n + 1, to)
  BY <1>7, <1>8, <1>9, <1>10 DEF Places
<1>12. QED
  BY <1>11 DEF r

\* FlattenSeq holds the elements of the sequences, in their order.
LEMMA FlattenIsOrdered ==
    ASSUME NEW T, NEW seqs \in Seq(Seq(T))
    PROVE  /\ FlattenSeq(seqs) \in Seq(T)
           /\ \E at : Places(FlattenSeq(seqs), seqs, Len(seqs), at)
<1> DEFINE n == Len(seqs)
<1>1. PICK F : Prefixed(F, seqs, T, n) /\ FlattenSeq(seqs) = F[n]
  BY FlattenPrefixes
<1>2. /\ n \in Nat /\ F \in [0..n -> Seq(T)] /\ F[0] = <<>>
      /\ \A i \in 1..n : F[i] = F[i - 1] \o seqs[i]
  <2>1. n \in Nat
    OBVIOUS
  <2>2. QED
    BY <1>1, <2>1, Zenon DEF Prefixed
<1> DEFINE S == {k \in 0..n : \E at : Places(F[k], seqs, k, at)}
<1>3. 0 \in S
  <2>1. Places(F[0], seqs, 0, <<>>)
    <3>1. Len(F[0]) = 0 /\ 1..0 = {}
      BY <1>2
    <3>2. <<>> \in [{} -> Nat \X Nat]
      OBVIOUS
    <3>3. QED
      BY <3>1, <3>2 DEF Places
  <2>2. QED
    BY <1>2, <2>1
<1>4. \A k \in 0..n : k < n /\ k \in S => k + 1 \in S
  <2> SUFFICES ASSUME NEW k \in 0..n, k < n, k \in S PROVE k + 1 \in S
    OBVIOUS
  <2>1. PICK at : Places(F[k], seqs, k, at)
    OBVIOUS
  <2>2. k \in Nat /\ k + 1 \in 1..n /\ F[k] \in Seq(T) /\ F[k + 1] = F[k] \o seqs[k + 1]
    <3>1. k + 1 \in 1..n /\ (k + 1) - 1 = k /\ k \in Nat
      BY <1>2
    <3>2. F[k] \in Seq(T)
      BY <1>2
    <3>3. F[k + 1] = F[(k + 1) - 1] \o seqs[k + 1]
      BY <1>2, <3>1
    <3>4. QED
      BY <3>1, <3>2, <3>3
  <2>3. \E to : Places(F[k] \o seqs[k + 1], seqs, k + 1, to)
    BY <2>1, <2>2, NextPlaces
  <2>4. k + 1 \in 0..n
    BY <2>2
  <2>5. QED
    BY <2>2, <2>3, <2>4
<1>5. n \in S
  <2> HIDE DEF S
  <2>1. \A k \in 0..n : k \in S
    BY <1>2, <1>3, <1>4, UpTo
  <2>2. QED
    BY <1>2, <2>1
<1>6. QED
  BY <1>1, <1>2, <1>5
-----------------------------------------------------------------------------
(* Keep *)

\* The places of the elements of q in s are those of P, in their order.
Kept(q, s, P, g) ==
    /\ g \in [1..Len(q) -> P]
    /\ \A k \in 1..Len(q) : q[k] = s[g[k]]
    /\ \A k, l \in 1..Len(q) : k < l => g[k] < g[l]
    /\ \A p \in P : \E k \in 1..Len(q) : g[k] = p

\* Keep holds the elements at the places, in their order, each once.
LEMMA KeepIsOrdered ==
    ASSUME NEW T, NEW s \in Seq(T), NEW P, P \subseteq DOMAIN s
    PROVE  /\ Keep(s, P) \in Seq(T)
           /\ IsFiniteSet(P) /\ Len(Keep(s, P)) = Cardinality(P)
           /\ \E g : Kept(Keep(s, P), s, P, g)
<1> DEFINE seqs == [i \in DOMAIN s |-> IF i \in P THEN <<s[i]>> ELSE <<>>]
<1> DEFINE q == Keep(s, P)
<1>1. /\ seqs \in Seq(Seq(T)) /\ Len(seqs) = Len(s) /\ DOMAIN s = 1..Len(s) /\ Len(s) \in Nat
      /\ \A i \in 1..Len(s) : seqs[i] = IF i \in P THEN <<s[i]>> ELSE <<>>
  <2>1. DOMAIN s = 1..Len(s) /\ Len(s) \in Nat
    OBVIOUS
  <2>2. \A i \in DOMAIN s : (IF i \in P THEN <<s[i]>> ELSE <<>>) \in Seq(T)
    <3>1. \A i \in DOMAIN s : <<s[i]>> \in Seq(T)
      BY <2>1
    <3>2. <<>> \in Seq(T)
      OBVIOUS
    <3>3. QED
      BY <3>1, <3>2, Zenon
  <2>3. seqs \in [1..Len(s) -> Seq(T)]
    BY <2>1, <2>2
  <2>4. seqs \in Seq(Seq(T)) /\ Len(seqs) = Len(s)
    <3> HIDE DEF seqs
    <3>1. QED
      BY <2>1, <2>3
  <2>5. QED
    BY <2>1, <2>4
<1>2. q = FlattenSeq(seqs)
  BY DEF Keep
<1> HIDE DEF seqs, q
<1>3. q \in Seq(T) /\ \E at : Places(q, seqs, Len(seqs), at)
  BY <1>1, <1>2, FlattenIsOrdered
<1>4. PICK at : Places(q, seqs, Len(seqs), at)
  BY <1>3
<1>5. /\ \A k \in 1..Len(q) : /\ at[k][1] \in 1..Len(s) /\ at[k][2] \in 1..Len(seqs[at[k][1]])
                              /\ q[k] = seqs[at[k][1]][at[k][2]]
      /\ \A k, l \in 1..Len(q) : k < l =>
          \/ at[k][1] < at[l][1]
          \/ at[k][1] = at[l][1] /\ at[k][2] < at[l][2]
      /\ \A i \in 1..Len(s) : \A m \in 1..Len(seqs[i]) : \E k \in 1..Len(q) : at[k] = <<i, m>>
  BY <1>1, <1>4 DEF Places
<1>6. ASSUME NEW k \in 1..Len(q)
      PROVE  at[k][1] \in P /\ at[k][2] = 1 /\ q[k] = s[at[k][1]]
  <2>1. at[k][1] \in 1..Len(s) /\ at[k][2] \in 1..Len(seqs[at[k][1]])
    BY <1>5
  <2>2. CASE at[k][1] \in P
    <3>1. seqs[at[k][1]] = <<s[at[k][1]]>>
      BY <1>1, <2>1, <2>2
    <3>2. at[k][2] = 1
      BY <2>1, <3>1
    <3>3. QED
      BY <1>5, <2>2, <3>1, <3>2
  <2>3. CASE at[k][1] \notin P
    <3>1. seqs[at[k][1]] = <<>>
      BY <1>1, <2>1, <2>3
    <3>2. QED
      BY <2>1, <3>1
  <2>4. QED
    BY <2>2, <2>3
<1> DEFINE g == [k \in 1..Len(q) |-> at[k][1]]
<1>7. Kept(q, s, P, g)
  <2>1. ASSUME NEW k \in 1..Len(q), NEW l \in 1..Len(q), k < l PROVE g[k] < g[l]
    <3>1. at[k][2] = 1 /\ at[l][2] = 1
      BY <1>6
    <3>2. at[k][1] < at[l][1]
      BY <1>5, <2>1, <3>1
    <3>3. QED
      BY <3>2
  <2>2. ASSUME NEW p \in P PROVE \E k \in 1..Len(q) : g[k] = p
    <3>1. p \in 1..Len(s) /\ seqs[p] = <<s[p]>>
      BY <1>1
    <3>2. 1 \in 1..Len(seqs[p])
      BY <3>1
    <3>3. PICK k \in 1..Len(q) : at[k] = <<p, 1>>
      BY <1>5, <3>1, <3>2
    <3>4. QED
      BY <3>3
  <2>3. QED
    BY <1>6, <2>1, <2>2 DEF Kept
<1> HIDE DEF g
<1>8. IsFiniteSet(P) /\ Len(q) = Cardinality(P)
  <2>1. Len(q) \in Nat
    BY <1>3
  <2>2. g \in Bijection(1..Len(q), P)
    <3>1. \A k, l \in 1..Len(q) : g[k] = g[l] => k = l
      <4> SUFFICES ASSUME NEW k \in 1..Len(q), NEW l \in 1..Len(q), g[k] = g[l], k # l PROVE FALSE
        OBVIOUS
      <4>1. g[k] \in Int /\ g[l] \in Int
        BY <1>1, <1>7 DEF Kept
      <4>2. k < l \/ l < k
        BY <2>1
      <4>3. QED
        BY <1>7, <4>1, <4>2 DEF Kept
    <3>2. QED
      BY <1>7, <3>1 DEF Kept, Bijection, Injection, Surjection, IsInjective
  <2>3. IsFiniteSet(1..Len(q)) /\ Cardinality(1..Len(q)) = Len(q)
    <3>1. 1 \in Int /\ Len(q) \in Int
      BY <2>1
    <3>2. IsFiniteSet(1..Len(q)) /\ Cardinality(1..Len(q)) = IF 1 > Len(q) THEN 0 ELSE Len(q) - 1 + 1
      BY <3>1, FS_Interval
    <3>3. QED
      BY <2>1, <3>2
  <2>4. QED
    BY <2>2, <2>3, FS_Bijection DEF ExistsBijection
<1>9. QED
  BY <1>3, <1>7, <1>8 DEF q
-----------------------------------------------------------------------------
(* SortOrder and Sorted *)

Behind(keys, t, n) == {j \in DOMAIN t : Precedes(keys[n], keys[t[j]])}
Inserted(keys, t, n) ==
    IF Behind(keys, t, n) = {} THEN Append(t, n)
    ELSE Keep(t, DOMAIN t \ Behind(keys, t, n)) \o <<n>> \o Keep(t, Behind(keys, t, n))

\* An order of the first n places.
IsOrder(t, n) ==
    /\ t \in Seq(1..n) /\ Len(t) = n
    /\ \A m \in 1..n : \E k \in 1..n : t[k] = m

\* One place is put between those of two lists.
Between(u, a, x, b) ==
    /\ Len(a) \in Nat /\ Len(b) \in Nat /\ Len(u) = (Len(a) + Len(b)) + 1
    /\ u[Len(a) + 1] = x
    /\ \A k \in 1..Len(a) : u[k] = a[k]
    /\ \A k \in 1..Len(b) : u[Len(a) + 1 + k] = b[k]

\* A place that does not go last is put between the other ones.
LEMMA InsertedBetween ==
    ASSUME NEW keys, NEW n \in Nat, NEW t, IsOrder(t, n), Behind(keys, t, n + 1) # {}
    PROVE  /\ Inserted(keys, t, n + 1) \in Seq(1..(n + 1))
           /\ \E a, b : /\ Len(a) + Len(b) = n
                        /\ Between(Inserted(keys, t, n + 1), a, n + 1, b)
                        /\ \E g : Kept(a, t, DOMAIN t \ Behind(keys, t, n + 1), g)
                        /\ \E g : Kept(b, t, Behind(keys, t, n + 1), g)
<1> DEFINE M == 1..(n + 1)
<1> DEFINE B == Behind(keys, t, n + 1)
<1>1. /\ t \in Seq(M) /\ Len(t) = n /\ DOMAIN t = 1..n /\ n + 1 \in M
  <2>1. 1..n \subseteq M
    OBVIOUS
  <2>2. t \in Seq(1..n) /\ Len(t) = n
    BY DEF IsOrder
  <2>3. QED
    BY <2>1, <2>2
<1> DEFINE a == Keep(t, DOMAIN t \ B)
<1> DEFINE b == Keep(t, B)
<1> DEFINE u == a \o <<n + 1>> \o b
<1>0. Inserted(keys, t, n + 1) = u
  BY DEF Inserted
<1>2. B \subseteq DOMAIN t /\ (DOMAIN t \ B) \subseteq DOMAIN t
  BY DEF Behind
<1> HIDE DEF B
<1>3. /\ a \in Seq(M) /\ IsFiniteSet(DOMAIN t \ B) /\ Len(a) = Cardinality(DOMAIN t \ B)
      /\ \E g : Kept(a, t, DOMAIN t \ B, g)
  BY <1>1, <1>2, KeepIsOrdered
<1>4. /\ b \in Seq(M) /\ IsFiniteSet(B) /\ Len(b) = Cardinality(B)
      /\ \E g : Kept(b, t, B, g)
  BY <1>1, <1>2, KeepIsOrdered
<1>5. Len(a) + Len(b) = n
  <2>1. IsFiniteSet(1..n) /\ Cardinality(1..n) = n
    <3>1. 1 \in Int /\ n \in Int
      OBVIOUS
    <3>2. IsFiniteSet(1..n) /\ Cardinality(1..n) = IF 1 > n THEN 0 ELSE n - 1 + 1
      BY <3>1, FS_Interval
    <3>3. QED
      BY <3>2
  <2>2. Cardinality(1..n \ B) = n - Cardinality((1..n) \cap B)
    BY <1>4, <2>1, FS_Difference
  <2>3. (1..n) \cap B = B
    BY <1>1, <1>2
  <2>4. Len(a) = n - Len(b)
    BY <1>1, <1>3, <1>4, <2>2, <2>3
  <2>5. Len(b) \in Nat
    BY <1>4
  <2> HIDE DEF a, b
  <2>6. QED
    BY <2>4, <2>5
<1> HIDE DEF a, b
<1>6. /\ Len(a) \in Nat /\ Len(b) \in Nat
      /\ u \in Seq(M) /\ Len(u) = n + 1 /\ u[Len(a) + 1] = n + 1
      /\ \A k \in 1..Len(a) : u[k] = a[k]
      /\ \A k \in 1..Len(b) : u[Len(a) + 1 + k] = b[k]
  <2> DEFINE v == a \o <<n + 1>>
  <2>1. <<n + 1>> \in Seq(M) /\ Len(<<n + 1>>) = 1
    BY <1>1
  <2>2. /\ v \in Seq(M) /\ Len(v) = Len(a) + 1 /\ v[Len(a) + 1] = n + 1
        /\ \A k \in 1..Len(a) : v[k] = a[k]
    <3>1. /\ v \in Seq(M) /\ Len(v) = Len(a) + Len(<<n + 1>>)
          /\ \A k \in 1..(Len(a) + Len(<<n + 1>>)) :
                v[k] = IF k <= Len(a) THEN a[k] ELSE <<n + 1>>[k - Len(a)]
      BY <1>3, <2>1, ConcatProperties
    <3>2. Len(a) \in Nat
      BY <1>3
    <3> HIDE DEF v
    <3>3. v[Len(a) + 1] = <<n + 1>>[(Len(a) + 1) - Len(a)]
      BY <2>1, <3>1, <3>2
    <3>4. (Len(a) + 1) - Len(a) = 1
      BY <3>2
    <3>5. QED
      BY <2>1, <3>1, <3>2, <3>3, <3>4
  <2>3. u = v \o b
    OBVIOUS
  <2> HIDE DEF u, v
  <2>4. /\ u \in Seq(M) /\ Len(u) = Len(v) + Len(b)
        /\ \A k \in 1..Len(v) : u[k] = v[k]
        /\ \A k \in 1..Len(b) : u[Len(v) + k] = b[k]
    <3>1. /\ u \in Seq(M) /\ Len(u) = Len(v) + Len(b)
          /\ \A k \in 1..(Len(v) + Len(b)) : u[k] = IF k <= Len(v) THEN v[k] ELSE b[k - Len(v)]
      BY <1>4, <2>2, <2>3, ConcatProperties
    <3>2. Len(v) \in Nat /\ Len(b) \in Nat
      BY <1>4, <2>2
    <3>3. \A k \in 1..Len(b) : /\ Len(v) + k \in 1..(Len(v) + Len(b)) /\ (Len(v) + k) - Len(v) = k
                               /\ ~(Len(v) + k <= Len(v))
      BY <3>2
    <3>4. \A k \in 1..Len(v) : k \in 1..(Len(v) + Len(b)) /\ k <= Len(v)
      BY <3>2
    <3>5. QED
      BY <3>1, <3>3, <3>4
  <2>5. Len(a) \in Nat /\ Len(b) \in Nat
    BY <1>3, <1>4
  <2>6. QED
    BY <1>5, <2>2, <2>4, <2>5
<1> HIDE DEF u
<1> HIDE DEF u
<1>7. Between(u, a, n + 1, b)
  <2>1. n + 1 = (Len(a) + Len(b)) + 1
    BY <1>5, Zenon
  <2>2. QED
    BY <1>6, <2>1 DEF Between
<1>8. QED
  BY <1>0, <1>3, <1>4, <1>5, <1>6, <1>7 DEF B

\* The next place is added to an order, wherever it is put.
LEMMA InsertedIsOrder ==
    ASSUME NEW keys, NEW n \in Nat, NEW t, IsOrder(t, n)
    PROVE  IsOrder(Inserted(keys, t, n + 1), n + 1)
<1> DEFINE M == 1..(n + 1)
<1> DEFINE B == Behind(keys, t, n + 1)
<1>1. /\ t \in Seq(M) /\ Len(t) = n /\ DOMAIN t = 1..n /\ n + 1 \in M
      /\ \A m \in 1..n : \E k \in 1..n : t[k] = m
  <2>1. 1..n \subseteq M
    OBVIOUS
  <2>2. t \in Seq(1..n) /\ Len(t) = n /\ \A m \in 1..n : \E k \in 1..n : t[k] = m
    BY DEF IsOrder
  <2>3. t \in Seq(M)
    BY <2>1, <2>2
  <2>4. QED
    BY <2>2, <2>3
<1>2. CASE B = {}
  <2> DEFINE u == Append(t, n + 1)
  <2>1. Inserted(keys, t, n + 1) = u
    BY <1>2 DEF Inserted
  <2>2. /\ u \in Seq(M) /\ Len(u) = n + 1 /\ u[n + 1] = n + 1
        /\ \A k \in 1..n : u[k] = t[k]
    BY <1>1
  <2> HIDE DEF u
  <2>3. ASSUME NEW m \in 1..(n + 1) PROVE \E k \in 1..(n + 1) : u[k] = m
    <3>1. CASE m = n + 1
      BY <2>2, <3>1
    <3>2. CASE m \in 1..n
      <4>1. PICK k \in 1..n : t[k] = m
        BY <1>1, <3>2
      <4>2. k \in 1..(n + 1) /\ u[k] = m
        BY <2>2, <4>1
      <4>3. QED
        BY <4>2
    <3>3. QED
      BY <3>1, <3>2
  <2>4. QED
    BY <2>1, <2>2, <2>3 DEF IsOrder
<1>3. CASE B # {}
  <2> DEFINE u == Inserted(keys, t, n + 1)
  <2>2. u \in Seq(M)
    BY <1>3, InsertedBetween
  <2>1. \E c, d : /\ Len(c) + Len(d) = n /\ Between(u, c, n + 1, d)
                  /\ \E g : Kept(c, t, DOMAIN t \ B, g)
                  /\ \E g : Kept(d, t, B, g)
    BY <1>3, InsertedBetween
  <2> HIDE DEF B, u
  <2>3. PICK a, b : /\ Len(a) + Len(b) = n /\ Between(u, a, n + 1, b)
                    /\ \E g : Kept(a, t, DOMAIN t \ B, g)
                    /\ \E g : Kept(b, t, B, g)
    BY <2>1
  <2>5. Len(a) + Len(b) = n
    BY <2>3
  <2>6. /\ Len(a) \in Nat /\ Len(b) \in Nat /\ Len(u) = n + 1 /\ u[Len(a) + 1] = n + 1
        /\ \A k \in 1..Len(a) : u[k] = a[k]
        /\ \A k \in 1..Len(b) : u[Len(a) + 1 + k] = b[k]
    <3>1. Len(u) = (Len(a) + Len(b)) + 1
      BY <2>3 DEF Between
    <3>2. Len(u) = n + 1
      BY <2>5, <3>1, Zenon
    <3>3. QED
      BY <2>3, <3>2, Zenon DEF Between
  <2>7. ASSUME NEW m \in 1..(n + 1) PROVE \E k \in 1..(n + 1) : u[k] = m
    <3>1. CASE m = n + 1
      <4>1. Len(a) + 1 \in 1..(n + 1)
        BY <2>5, <2>6
      <4>2. QED
        BY <2>6, <3>1, <4>1
    <3>2. CASE m \in 1..n
      <4>1. PICK p \in 1..n : t[p] = m
        BY <1>1, <3>2
      <4>2. CASE p \in B
        <5>1. PICK g : Kept(b, t, B, g)
          BY <2>3
        <5>2. PICK k \in 1..Len(b) : g[k] = p
          BY <4>2, <5>1 DEF Kept
        <5>3. b[k] = m
          BY <4>1, <5>1, <5>2 DEF Kept
        <5>4. u[Len(a) + 1 + k] = m
          BY <2>6, <5>3
        <5>5. Len(a) + 1 + k \in 1..(n + 1)
          <6>1. k \in 1..Len(b) /\ Len(a) \in Nat /\ Len(b) \in Nat /\ Len(a) + Len(b) = n
            BY <2>5, <2>6
          <6>2. QED
            BY <6>1
        <5>6. QED
          BY <5>4, <5>5
      <4>3. CASE p \notin B
        <5>1. PICK g : Kept(a, t, DOMAIN t \ B, g)
          BY <2>3
        <5>2. p \in DOMAIN t \ B
          BY <1>1, <4>3
        <5>3. PICK k \in 1..Len(a) : g[k] = p
          BY <5>1, <5>2 DEF Kept
        <5>4. a[k] = m
          BY <4>1, <5>1, <5>3 DEF Kept
        <5>5. u[k] = m
          BY <2>6, <5>4
        <5>6. k \in 1..(n + 1)
          BY <2>5, <2>6
        <5>7. QED
          BY <5>5, <5>6
      <4>4. QED
        BY <4>2, <4>3
    <3>3. QED
      BY <3>1, <3>2
  <2>8. IsOrder(u, n + 1)
    BY <2>2, <2>6, <2>7 DEF IsOrder
  <2>9. QED
    BY <2>8 DEF u
<1>4. QED
  BY <1>2, <1>3

\* The orders of the first i places.
Ordered(F, keys, n) ==
    /\ F = [i \in 0..n |-> F[i]] /\ F[0] = <<>>
    /\ \A i \in 1..n : F[i] = Inserted(keys, F[i - 1], i)
    /\ \A i \in 0..n : IsOrder(F[i], i)

LEMMA NextOrdered ==
    ASSUME NEW keys, NEW k \in Nat, NEW F, Ordered(F, keys, k)
    PROVE  \E G : Ordered(G, keys, k + 1)
<1> DEFINE G == [i \in 0..(k + 1) |-> IF i = k + 1 THEN Inserted(keys, F[k], k + 1) ELSE F[i]]
<1>1. /\ F[0] = <<>>
      /\ \A i \in 1..k : F[i] = Inserted(keys, F[i - 1], i)
      /\ \A i \in 0..k : IsOrder(F[i], i)
  BY Zenon DEF Ordered
<1>2. \A i \in 0..(k + 1) : G[i] = IF i = k + 1 THEN Inserted(keys, F[k], k + 1) ELSE F[i]
  OBVIOUS
<1>3. G = [i \in 0..(k + 1) |-> G[i]]
  OBVIOUS
<1> HIDE DEF G
<1>4. G[0] = <<>>
  BY <1>1, <1>2
<1>5. ASSUME NEW i \in 1..(k + 1) PROVE G[i] = Inserted(keys, G[i - 1], i)
  <2>1. G[i - 1] = F[i - 1]
    <3>1. i - 1 \in 0..(k + 1) /\ i - 1 # k + 1
      OBVIOUS
    <3>2. QED
      BY <1>2, <3>1
  <2>2. CASE i = k + 1
    <3>1. i - 1 = k
      BY <2>2
    <3>2. QED
      BY <1>2, <2>1, <2>2, <3>1
  <2>3. CASE i # k + 1
    <3>1. i \in 1..k /\ i \in 0..(k + 1)
      BY <2>3
    <3>2. G[i] = F[i] /\ F[i] = Inserted(keys, F[i - 1], i)
      BY <1>1, <1>2, <2>3, <3>1
    <3>3. QED
      BY <2>1, <3>2
  <2>4. QED
    BY <2>2, <2>3
<1>6. ASSUME NEW i \in 0..(k + 1) PROVE IsOrder(G[i], i)
  <2>1. CASE i = k + 1
    <3>1. IsOrder(F[k], k)
      BY <1>1
    <3>2. IsOrder(Inserted(keys, F[k], k + 1), k + 1)
      BY <3>1, InsertedIsOrder
    <3>3. QED
      BY <1>2, <2>1, <3>2
  <2>2. CASE i # k + 1
    <3>1. i \in 0..k
      BY <2>2
    <3>2. QED
      BY <1>1, <1>2, <2>2, <3>1
  <2>3. QED
    BY <2>1, <2>2
<1>7. Ordered(G, keys, k + 1)
  BY <1>3, <1>4, <1>5, <1>6 DEF Ordered
<1>8. QED
  BY <1>7

\* SortOrder goes over the orders of the first places.
LEMMA SortPrefixes ==
    ASSUME NEW keys, Len(keys) \in Nat
    PROVE  \E F : Ordered(F, keys, Len(keys)) /\ SortOrder(keys) = F[Len(keys)]
<1> DEFINE n == Len(keys)
<1> DEFINE S == {k \in 0..n : \E F : Ordered(F, keys, k)}
<1>1. n \in Nat
  OBVIOUS
<1>2. 0 \in S
  <2> DEFINE F == [i \in 0..0 |-> <<>>]
  <2>1. IsOrder(<<>>, 0)
    BY DEF IsOrder
  <2>2. Ordered(F, keys, 0)
    BY <2>1 DEF Ordered
  <2>3. QED
    BY <1>1, <2>2
<1>3. \A k \in 0..n : k < n /\ k \in S => k + 1 \in S
  <2> SUFFICES ASSUME NEW k \in 0..n, k < n, k \in S PROVE k + 1 \in S
    OBVIOUS
  <2>1. k \in Nat /\ k + 1 \in 0..n /\ \E F : Ordered(F, keys, k)
    BY <1>1
  <2>2. QED
    BY <2>1, NextOrdered
<1>4. PICK F : Ordered(F, keys, n)
  <2> HIDE DEF S
  <2>1. \A k \in 0..n : k \in S
    BY <1>1, <1>2, <1>3, UpTo
  <2>2. n \in S
    BY <1>1, <2>1
  <2>3. QED
    BY <2>2 DEF S
<1> DEFINE f == CHOOSE g : g = [i \in 0..n |->
      IF i = 0 THEN <<>>
      ELSE LET t == g[i - 1]
               behind == {j \in DOMAIN t : Precedes(keys[i], keys[t[j]])}
           IN IF behind = {} THEN Append(t, i)
              ELSE Keep(t, DOMAIN t \ behind) \o <<i>> \o Keep(t, behind)]
<1>5. SortOrder(keys) = f[n]
  BY DEF SortOrder
<1> DEFINE Rule(g) == g = [i \in 0..n |-> IF i = 0 THEN <<>> ELSE Inserted(keys, g[i - 1], i)]
<1>6. f = CHOOSE g : Rule(g)
  BY DEF Inserted, Behind
<1> HIDE DEF f
<1>7. /\ F = [i \in 0..n |-> F[i]] /\ F[0] = <<>>
      /\ \A i \in 1..n : F[i] = Inserted(keys, F[i - 1], i)
  BY <1>4, Zenon DEF Ordered
<1>8. \A i \in 0..n : F[i] = IF i = 0 THEN <<>> ELSE Inserted(keys, F[i - 1], i)
  <2>1. \A i \in 0..n : i # 0 => i \in 1..n
    OBVIOUS
  <2>2. QED
    BY <1>7, <2>1, Zenon
<1>9. Rule(F)
  <2>1. [i \in 0..n |-> F[i]] = [i \in 0..n |-> IF i = 0 THEN <<>> ELSE Inserted(keys, F[i - 1], i)]
    BY <1>8
  <2>2. QED
    BY <1>7, <2>1
<1>10. Rule(f)
  BY <1>6, <1>9
<1>11. \A i \in 0..n : f[i] = IF i = 0 THEN <<>> ELSE Inserted(keys, f[i - 1], i)
  BY <1>10
<1> DEFINE R == {k \in 0..n : f[k] = F[k]}
<1>12. 0 \in R
  BY <1>1, <1>8, <1>11
<1>13. \A k \in 0..n : k < n /\ k \in R => k + 1 \in R
  <2> SUFFICES ASSUME NEW k \in 0..n, k < n, k \in R PROVE k + 1 \in R
    OBVIOUS
  <2>1. k + 1 \in 0..n /\ k + 1 # 0 /\ (k + 1) - 1 = k
    BY <1>1
  <2>2. f[k] = F[k]
    OBVIOUS
  <2> HIDE DEF R
  <2>3. f[k + 1] = Inserted(keys, f[k], k + 1)
    BY <1>11, <2>1
  <2>4. F[k + 1] = Inserted(keys, F[k], k + 1)
    BY <1>8, <2>1
  <2>5. QED
    BY <2>1, <2>2, <2>3, <2>4 DEF R
<1>14. f[n] = F[n]
  <2> HIDE DEF R
  <2>1. \A k \in 0..n : k \in R
    BY <1>1, <1>12, <1>13, UpTo
  <2>2. n \in R
    BY <1>1, <2>1
  <2>3. QED
    BY <2>2 DEF R
<1>15. QED
  BY <1>4, <1>5, <1>14

\* The order of some keys holds each place once.
LEMMA SortIsOrder ==
    ASSUME NEW keys, Len(keys) \in Nat
    PROVE  /\ IsOrder(SortOrder(keys), Len(keys))
           /\ SortOrder(keys) \in Bijection(1..Len(keys), 1..Len(keys))
<1> DEFINE n == Len(keys)
<1> DEFINE t == SortOrder(keys)
<1>1. IsOrder(t, n)
  <2>1. PICK F : Ordered(F, keys, n) /\ t = F[n]
    BY SortPrefixes
  <2>2. n \in 0..n
    OBVIOUS
  <2>3. QED
    BY <2>1, <2>2 DEF Ordered
<1> HIDE DEF t
<1>2. t \in Surjection(1..n, 1..n)
  <2>1. /\ t \in Seq(1..n) /\ Len(t) = n
        /\ \A m \in 1..n : \E k \in 1..n : t[k] = m
    BY <1>1 DEF IsOrder
  <2>2. t \in [1..Len(t) -> 1..n]
    BY <2>1, LenProperties
  <2>3. QED
    BY <2>1, <2>2, Zenon DEF Surjection
<1>3. IsFiniteSet(1..n)
  BY FS_Interval
<1>4. t \in Injection(1..n, 1..n)
  BY <1>2, <1>3, FS_SurjSameCardinalityImpliesInj
<1>5. QED
  BY <1>1, <1>2, <1>4 DEF t, Bijection

\* sorted() of what is in order already changes nothing.
LEMMA SortKeepsOrder ==
    ASSUME NEW keys, Len(keys) \in Nat,
           \A i, j \in 1..Len(keys) : i < j => ~Precedes(keys[j], keys[i])
    PROVE  SortOrder(keys) = [k \in 1..Len(keys) |-> k]
<1> DEFINE n == Len(keys)
<1>1. PICK F : Ordered(F, keys, n) /\ SortOrder(keys) = F[n]
  BY SortPrefixes
<1>2. /\ F[0] = <<>>
      /\ \A i \in 1..n : F[i] = Inserted(keys, F[i - 1], i)
  BY <1>1, Zenon DEF Ordered
<1> DEFINE S == {k \in 0..n : F[k] = [i \in 1..k |-> i]}
<1>3. 0 \in S
  <2>1. 1..0 = {} /\ <<>> = [i \in {} |-> i]
    OBVIOUS
  <2>2. QED
    BY <1>2, <2>1
<1>4. \A k \in 0..n : k < n /\ k \in S => k + 1 \in S
  <2> SUFFICES ASSUME NEW k \in 0..n, k < n, k \in S PROVE k + 1 \in S
    OBVIOUS
  <2>1. k + 1 \in 1..n /\ (k + 1) - 1 = k /\ k \in Nat /\ k + 1 \in 0..n
    OBVIOUS
  <2> DEFINE t == [i \in 1..k |-> i]
  <2>2. F[k] = t
    OBVIOUS
  <2> HIDE DEF S
  <2>3. F[k + 1] = Inserted(keys, t, k + 1)
    BY <1>2, <2>1, <2>2
  <2>4. Behind(keys, t, k + 1) = {}
    <3>1. \A j \in 1..k : j \in 1..n /\ j < k + 1
      BY <2>1
    <3>2. QED
      BY <2>1, <3>1 DEF Behind
  <2>5. Append(t, k + 1) = [i \in 1..(k + 1) |-> i]
    <3>1. t \in Seq(Nat) /\ Len(t) = k
      BY <2>1
    <3>2. QED
      BY <2>1, <3>1
  <2>6. QED
    BY <2>1, <2>3, <2>4, <2>5 DEF Inserted, S
<1>5. n \in S
  <2> HIDE DEF S
  <2>1. \A k \in 0..n : k \in S
    BY <1>3, <1>4, UpTo
  <2>2. QED
    BY <2>1
<1>6. QED
  BY <1>1, <1>5

\* Tuples of n numbers; Precedes is a strict order on them.
Tuples(n) == [1..n -> Int]

LEMMA PrecedesIsAsymmetric ==
    ASSUME NEW n \in Nat, NEW a \in Tuples(n), NEW b \in Tuples(n), Precedes(a, b)
    PROVE  ~Precedes(b, a)
<1>1. PICK i \in 1..n : a[i] < b[i] /\ \A j \in 1..(i - 1) : a[j] = b[j]
  BY DEF Precedes, Tuples
<1> SUFFICES ASSUME Precedes(b, a) PROVE FALSE
  OBVIOUS
<1>2. PICK k \in 1..n : b[k] < a[k] /\ \A j \in 1..(k - 1) : b[j] = a[j]
  BY DEF Precedes, Tuples
<1>3. a[i] \in Int /\ b[i] \in Int /\ a[k] \in Int /\ b[k] \in Int
  BY DEF Tuples
<1>4. i < k => i \in 1..(k - 1)
  OBVIOUS
<1>5. k < i => k \in 1..(i - 1)
  OBVIOUS
<1>6. ~(i < k) /\ ~(k < i)
  BY <1>1, <1>2, <1>3, <1>4, <1>5
<1>7. i = k
  BY <1>6
<1>8. QED
  BY <1>1, <1>2, <1>3, <1>7

LEMMA PrecedesIsTransitive ==
    ASSUME NEW n \in Nat, NEW a \in Tuples(n), NEW b \in Tuples(n), NEW c \in Tuples(n),
           Precedes(a, b), Precedes(b, c)
    PROVE  Precedes(a, c)
<1>1. PICK i \in 1..n : a[i] < b[i] /\ \A j \in 1..(i - 1) : a[j] = b[j]
  BY DEF Precedes, Tuples
<1>2. PICK k \in 1..n : b[k] < c[k] /\ \A j \in 1..(k - 1) : b[j] = c[j]
  BY DEF Precedes, Tuples
<1>3. /\ a[i] \in Int /\ b[i] \in Int /\ c[i] \in Int
      /\ a[k] \in Int /\ b[k] \in Int /\ c[k] \in Int
  BY DEF Tuples
<1>4. PICK m \in 1..n : /\ m = IF i < k THEN i ELSE k
  OBVIOUS
<1>5. a[m] < c[m]
  <2>1. CASE i < k
    <3>1. m = i /\ i \in 1..(k - 1)
      BY <1>4, <2>1
    <3>2. b[i] = c[i]
      BY <1>2, <3>1
    <3>3. QED
      BY <1>1, <1>3, <3>1, <3>2
  <2>2. CASE i = k
    <3>1. m = i
      BY <1>4, <2>2
    <3>2. a[i] < b[i] /\ b[i] < c[i]
      BY <1>1, <1>2, <2>2
    <3>3. QED
      BY <1>3, <3>1, <3>2
  <2>3. CASE k < i
    <3>1. m = k /\ k \in 1..(i - 1)
      BY <1>4, <2>3
    <3>2. a[k] = b[k]
      BY <1>1, <3>1
    <3>3. QED
      BY <1>2, <1>3, <3>1, <3>2
  <2>4. QED
    BY <2>1, <2>2, <2>3
<1>6. \A j \in 1..(m - 1) : a[j] = c[j]
  <2> SUFFICES ASSUME NEW j \in 1..(m - 1) PROVE a[j] = c[j]
    OBVIOUS
  <2>1. j \in 1..(i - 1) /\ j \in 1..(k - 1)
    BY <1>4
  <2>2. QED
    BY <1>1, <1>2, <2>1
<1>7. DOMAIN a = 1..n
  BY DEF Tuples
<1>8. QED
  BY <1>5, <1>6, <1>7 DEF Precedes

LEMMA PrecedesIsTotal ==
    ASSUME NEW n \in Nat, NEW a \in Tuples(n), NEW b \in Tuples(n), a # b
    PROVE  Precedes(a, b) \/ Precedes(b, a)
<1> DEFINE S == {i \in 1..n : a[i] # b[i]}
<1>1. S # {} /\ S \subseteq Nat
  BY DEF Tuples
<1>2. PICK i \in S : \A j \in S : i <= j
  BY <1>1, LeastNat
<1>3. i \in 1..n /\ a[i] # b[i]
  BY <1>2
<1>4. \A j \in 1..(i - 1) : a[j] = b[j]
  <2> SUFFICES ASSUME NEW j \in 1..(i - 1), a[j] # b[j] PROVE FALSE
    OBVIOUS
  <2>1. j \in S
    BY <1>3
  <2>2. QED
    BY <1>2, <1>3, <2>1
<1>5. a[i] < b[i] \/ b[i] < a[i]
  BY <1>3 DEF Tuples
<1>6. DOMAIN a = 1..n /\ DOMAIN b = 1..n
  BY DEF Tuples
<1>7. QED
  BY <1>3, <1>4, <1>5, <1>6 DEF Precedes

\* No place comes behind one that its key precedes.
Settled(keys, t) == \A i, j \in 1..Len(t) : i < j => ~Precedes(keys[t[j]], keys[t[i]])

\* What is kept of such a list is one, and of its places.
Remains(a, t, P, keys, n) ==
    /\ Settled(keys, a)
    /\ \A k \in 1..Len(a) : \E p \in P : a[k] = t[p] /\ t[p] \in 1..n

LEMMA KeptSettled ==
    ASSUME NEW keys, NEW t, NEW n \in Nat, IsOrder(t, n), Settled(keys, t),
           NEW P, P \subseteq DOMAIN t, NEW a, Len(a) \in Nat, NEW g, Kept(a, t, P, g)
    PROVE  Remains(a, t, P, keys, n)
<1>1. t \in Seq(1..n) /\ Len(t) = n
  BY DEF IsOrder
<1>2. DOMAIN t = 1..n /\ \A p \in 1..n : t[p] \in 1..n
  <2>1. t \in [1..Len(t) -> 1..n]
    BY <1>1, LenProperties
  <2>2. QED
    BY <1>1, <2>1
<1>3. /\ g \in [1..Len(a) -> P]
      /\ \A k \in 1..Len(a) : a[k] = t[g[k]]
      /\ \A k, l \in 1..Len(a) : k < l => g[k] < g[l]
  BY Zenon DEF Kept
<1>4. \A k \in 1..Len(a) : g[k] \in P /\ g[k] \in 1..n
  BY <1>2, <1>3
<1>5. Settled(keys, a)
  <2> SUFFICES ASSUME NEW k \in 1..Len(a), NEW l \in 1..Len(a), k < l
               PROVE  ~Precedes(keys[a[l]], keys[a[k]])
    BY DEF Settled
  <2>1. g[k] < g[l] /\ g[k] \in 1..Len(t) /\ g[l] \in 1..Len(t)
    BY <1>1, <1>3, <1>4
  <2>2. ~Precedes(keys[t[g[l]]], keys[t[g[k]]])
    BY <2>1 DEF Settled
  <2>3. QED
    BY <1>3, <2>2
<1>6. QED
  BY <1>2, <1>3, <1>4, <1>5 DEF Remains

\* Putting the next place behind those its key does not precede keeps it so.
LEMMA InsertedIsSettled ==
    ASSUME NEW w \in Nat, NEW keys, NEW n \in Nat, \A i \in 1..(n + 1) : keys[i] \in Tuples(w),
           NEW t, IsOrder(t, n), Settled(keys, t)
    PROVE  Settled(keys, Inserted(keys, t, n + 1))
<1> DEFINE B == Behind(keys, t, n + 1)
<1> DEFINE u == Inserted(keys, t, n + 1)
<1> DEFINE x == keys[n + 1]
<1>1. t \in Seq(1..n) /\ Len(t) = n /\ DOMAIN t = 1..n /\ \A p \in 1..n : t[p] \in 1..n
  <2>1. t \in Seq(1..n) /\ Len(t) = n
    BY DEF IsOrder
  <2>2. t \in [1..Len(t) -> 1..n]
    BY <2>1, LenProperties
  <2>3. QED
    BY <2>1, <2>2
<1>2. \A p \in 1..n : p \in B <=> Precedes(x, keys[t[p]])
  BY <1>1 DEF Behind
<1>3. B \subseteq 1..n
  BY <1>1 DEF Behind
<1>4. x \in Tuples(w) /\ \A p \in 1..n : keys[t[p]] \in Tuples(w)
  <2>1. n + 1 \in 1..(n + 1) /\ \A p \in 1..n : t[p] \in 1..(n + 1)
    BY <1>1
  <2>2. QED
    BY <2>1
<1>5. CASE B = {}
  <2>1. u = Append(t, n + 1)
    BY <1>5 DEF Inserted
  <2> HIDE DEF u, B, x
  <2>2. /\ Len(u) = n + 1 /\ u[n + 1] = n + 1
        /\ \A k \in 1..n : u[k] = t[k]
    <3>1. t \in Seq(Nat) /\ Len(t) = n
      BY <1>1
    <3>2. QED
      BY <2>1, <3>1
  <2> SUFFICES ASSUME NEW i \in 1..(n + 1), NEW j \in 1..(n + 1), i < j
               PROVE  ~Precedes(keys[u[j]], keys[u[i]])
    BY <2>2 DEF Settled, u
  <2>3. i \in 1..n /\ u[i] = t[i]
    BY <2>2
  <2>4. CASE j = n + 1
    <3>1. ~Precedes(x, keys[t[i]])
      BY <1>2, <1>5, <2>3
    <3>2. u[j] = n + 1
      BY <2>2, <2>4
    <3>3. QED
      BY <2>3, <3>1, <3>2 DEF x
  <2>5. CASE j # n + 1
    <3>1. j \in 1..n /\ u[j] = t[j]
      BY <2>2, <2>5
    <3>2. ~Precedes(keys[t[j]], keys[t[i]])
      BY <1>1, <2>3, <3>1 DEF Settled
    <3>3. QED
      BY <2>3, <3>1, <3>2
  <2>6. QED
    BY <2>4, <2>5
<1>6. CASE B # {}
  <2>1. \E c, d : /\ Len(c) + Len(d) = n /\ Between(u, c, n + 1, d)
                  /\ \E g : Kept(c, t, DOMAIN t \ B, g)
                  /\ \E g : Kept(d, t, B, g)
    BY <1>6, InsertedBetween
  <2> HIDE DEF B, u, x
  <2>2. PICK a, b : /\ Len(a) + Len(b) = n /\ Between(u, a, n + 1, b)
                    /\ \E g : Kept(a, t, DOMAIN t \ B, g)
                    /\ \E g : Kept(b, t, B, g)
    BY <2>1
  <2>3. /\ Len(a) \in Nat /\ Len(b) \in Nat /\ Len(u) = (Len(a) + Len(b)) + 1
        /\ u[Len(a) + 1] = n + 1
        /\ \A k \in 1..Len(a) : u[k] = a[k]
        /\ \A k \in 1..Len(b) : u[Len(a) + 1 + k] = b[k]
    BY <2>2, Zenon DEF Between
  <2>4. /\ Settled(keys, a)
        /\ \A k \in 1..Len(a) : \E p \in 1..n \ B : a[k] = t[p]
    <3>1. PICK P : P = DOMAIN t \ B
      OBVIOUS
    <3>2. PICK g : Kept(a, t, P, g)
      BY <2>2, <3>1, Zenon
    <3>3. P \subseteq DOMAIN t
      BY <3>1
    <3>4. Remains(a, t, P, keys, n)
      BY <2>3, <3>2, <3>3, KeptSettled
    <3>5. QED
      BY <1>1, <3>1, <3>4 DEF Remains
  <2>5. /\ Settled(keys, b)
        /\ \A k \in 1..Len(b) : \E p \in B : b[k] = t[p]
    <3>1. PICK P : P = B
      OBVIOUS
    <3>2. PICK g : Kept(b, t, P, g)
      BY <2>2, <3>1, Zenon
    <3>3. P \subseteq DOMAIN t
      BY <1>1, <1>3, <3>1
    <3>4. Remains(b, t, P, keys, n)
      BY <2>3, <3>2, <3>3, KeptSettled
    <3>5. QED
      BY <3>1, <3>4 DEF Remains
  <2>6. ASSUME NEW k \in 1..Len(a)
        PROVE  keys[a[k]] \in Tuples(w) /\ ~Precedes(x, keys[a[k]])
    <3>1. PICK p \in 1..n \ B : a[k] = t[p]
      BY <2>4
    <3>2. QED
      BY <1>2, <1>4, <3>1
  <2>7. ASSUME NEW k \in 1..Len(b)
        PROVE  keys[b[k]] \in Tuples(w) /\ Precedes(x, keys[b[k]])
    <3>1. PICK p \in B : b[k] = t[p]
      BY <2>5
    <3>2. QED
      BY <1>2, <1>3, <1>4, <3>1
  <2> DEFINE m == Len(a)
  <2>8. ASSUME NEW i \in 1..Len(u)
        PROVE  \/ i \in 1..m /\ u[i] = a[i]
               \/ i = m + 1 /\ u[i] = n + 1
               \/ i - m - 1 \in 1..Len(b) /\ u[i] = b[i - m - 1]
    <3>1. i \in 1..m \/ i = m + 1 \/ i - m - 1 \in 1..Len(b)
      BY <2>3
    <3>2. m + 1 + (i - m - 1) = i
      BY <2>3
    <3>3. i - m - 1 \in 1..Len(b) => u[m + 1 + (i - m - 1)] = b[i - m - 1]
      BY <2>3
    <3>4. QED
      BY <2>3, <3>1, <3>2, <3>3
  <2> SUFFICES ASSUME NEW i \in 1..Len(u), NEW j \in 1..Len(u), i < j
               PROVE  ~Precedes(keys[u[j]], keys[u[i]])
    BY DEF Settled, u
  <2>9. CASE i \in 1..m /\ u[i] = a[i]
    <3>1. CASE j \in 1..m /\ u[j] = a[j]
      BY <2>4, <2>9, <3>1 DEF Settled
    <3>2. CASE j = m + 1 /\ u[j] = n + 1
      BY <2>6, <2>9, <3>2 DEF x
    <3>3. CASE j - m - 1 \in 1..Len(b) /\ u[j] = b[j - m - 1]
      <4>1. /\ keys[u[i]] \in Tuples(w) /\ ~Precedes(x, keys[u[i]])
            /\ keys[u[j]] \in Tuples(w) /\ Precedes(x, keys[u[j]])
        BY <2>6, <2>7, <2>9, <3>3
      <4>2. QED
        BY <1>4, <4>1, PrecedesIsTransitive
    <3>4. QED
      BY <2>8, <3>1, <3>2, <3>3
  <2>10. CASE i = m + 1 /\ u[i] = n + 1
    <3>1. j - m - 1 \in 1..Len(b) /\ u[j] = b[j - m - 1]
      <4>1. ~(j \in 1..m) /\ j # m + 1
        BY <2>3, <2>10
      <4>2. QED
        BY <2>8, <4>1
    <3>2. keys[u[j]] \in Tuples(w) /\ Precedes(x, keys[u[j]])
      BY <2>7, <3>1
    <3>3. QED
      BY <1>4, <2>10, <3>2, PrecedesIsAsymmetric DEF x
  <2>11. CASE i - m - 1 \in 1..Len(b) /\ u[i] = b[i - m - 1]
    <3>1. j - m - 1 \in 1..Len(b) /\ u[j] = b[j - m - 1]
      <4>1. ~(j \in 1..m) /\ j # m + 1
        BY <2>3, <2>11
      <4>2. QED
        BY <2>8, <4>1
    <3>2. i - m - 1 < j - m - 1
      BY <2>3
    <3>3. QED
      BY <2>5, <2>11, <3>1, <3>2 DEF Settled
  <2>12. QED
    BY <2>8, <2>9, <2>10, <2>11
<1>7. QED
  BY <1>5, <1>6

\* The order of some keys has no place behind one that its key precedes.
LEMMA SortIsSettled ==
    ASSUME NEW w \in Nat, NEW keys, Len(keys) \in Nat,
           \A i \in 1..Len(keys) : keys[i] \in Tuples(w)
    PROVE  Settled(keys, SortOrder(keys))
<1> DEFINE n == Len(keys)
<1>1. PICK F : Ordered(F, keys, n) /\ SortOrder(keys) = F[n]
  BY SortPrefixes
<1>2. /\ F[0] = <<>>
      /\ \A i \in 1..n : F[i] = Inserted(keys, F[i - 1], i)
      /\ \A i \in 0..n : IsOrder(F[i], i)
  BY <1>1, Zenon DEF Ordered
<1> DEFINE S == {k \in 0..n : Settled(keys, F[k])}
<1>3. 0 \in S
  <2>1. Len(F[0]) = 0
    BY <1>2
  <2>2. QED
    BY <2>1 DEF Settled
<1>4. \A k \in 0..n : k < n /\ k \in S => k + 1 \in S
  <2> SUFFICES ASSUME NEW k \in 0..n, k < n, k \in S PROVE k + 1 \in S
    OBVIOUS
  <2>1. k + 1 \in 1..n /\ (k + 1) - 1 = k /\ k \in Nat /\ k + 1 \in 0..n
    OBVIOUS
  <2>2. Settled(keys, F[k]) /\ IsOrder(F[k], k)
    BY <1>2
  <2> HIDE DEF S
  <2>3. \A i \in 1..(k + 1) : keys[i] \in Tuples(w)
    <3>1. \A i \in 1..(k + 1) : i \in 1..n
      BY <2>1
    <3>2. QED
      BY <3>1
  <2>4. Settled(keys, Inserted(keys, F[k], k + 1))
    BY <2>1, <2>2, <2>3, InsertedIsSettled
  <2>5. F[k + 1] = Inserted(keys, F[k], k + 1)
    BY <1>2, <2>1
  <2>6. QED
    BY <2>1, <2>4, <2>5 DEF S
<1>5. n \in S
  <2> HIDE DEF S
  <2>1. \A k \in 0..n : k \in S
    BY <1>3, <1>4, UpTo
  <2>2. QED
    BY <2>1
<1>6. QED
  BY <1>1, <1>5

\* The same elements in another order.
Rearranged(q, s, T) ==
    /\ q \in Seq(T) /\ Len(q) = Len(s)
    /\ \A k \in 1..Len(s) : \E i \in 1..Len(s) : q[k] = s[i]
    /\ \A i \in 1..Len(s) : \E k \in 1..Len(s) : q[k] = s[i]

\* sorted() rearranges the elements.
LEMMA SortedIsRearranged ==
    ASSUME NEW T, NEW s \in Seq(T), NEW keys, Len(keys) = Len(s)
    PROVE  Rearranged(Sorted(s, keys), s, T)
<1> DEFINE n == Len(s)
<1> DEFINE t == SortOrder(keys)
<1>1. n \in Nat /\ DOMAIN s = 1..n
  OBVIOUS
<1>2. IsOrder(t, n)
  BY <1>1, SortIsOrder
<1>3. /\ t \in Seq(1..n) /\ Len(t) = n
      /\ \A m \in 1..n : \E k \in 1..n : t[k] = m
  BY <1>2 DEF IsOrder
<1>4. Sorted(s, keys) = [k \in 1..n |-> s[t[k]]]
  BY <1>1 DEF Sorted
<1> HIDE DEF t
<1>5. \A k \in 1..n : t[k] \in 1..n
  <2>1. t \in [1..Len(t) -> 1..n]
    BY <1>3, LenProperties
  <2>2. QED
    BY <1>3, <2>1, Zenon
<1>6. Sorted(s, keys) \in [1..n -> T]
  BY <1>1, <1>4, <1>5
<1>7. Sorted(s, keys) \in Seq(T) /\ Len(Sorted(s, keys)) = n
  BY <1>1, <1>6
<1>8. \A k \in 1..n : Sorted(s, keys)[k] = s[t[k]]
  BY <1>4
<1>9. \A k \in 1..n : \E i \in 1..n : Sorted(s, keys)[k] = s[i]
  BY <1>5, <1>8
<1>10. \A i \in 1..n : \E k \in 1..n : Sorted(s, keys)[k] = s[i]
  <2> SUFFICES ASSUME NEW i \in 1..n PROVE \E k \in 1..n : Sorted(s, keys)[k] = s[i]
    OBVIOUS
  <2>1. PICK k \in 1..n : t[k] = i
    BY <1>3
  <2>2. Sorted(s, keys)[k] = s[i]
    BY <1>8, <2>1
  <2>3. QED
    BY <2>2
<1>11. QED
  BY <1>7, <1>9, <1>10 DEF Rearranged

\* sorted() keeps a list whose keys are in order.
LEMMA SortedIsSame ==
    ASSUME NEW T, NEW s \in Seq(T), NEW keys, Len(keys) = Len(s),
           \A i, j \in 1..Len(s) : i < j => ~Precedes(keys[j], keys[i])
    PROVE  Sorted(s, keys) = s
<1>1. SortOrder(keys) = [k \in 1..Len(s) |-> k] /\ DOMAIN s = 1..Len(s)
  BY SortKeepsOrder
<1>2. Sorted(s, keys) = [k \in 1..Len(s) |-> s[k]]
  BY <1>1 DEF Sorted
<1>3. QED
  BY <1>2
-----------------------------------------------------------------------------
(* Sequences in the order of a number *)

Increasing(s, f) == \A i, j \in 1..Len(s) : i < j => f[s[i]] < f[s[j]]
AllIn(s, t) == \A i \in 1..Len(s) : \E j \in 1..Len(t) : s[i] = t[j]

\* Two sequences in the order of a number that hold the same elements.
Matching(T, f, a, b) ==
    /\ f \in [T -> Int] /\ a \in Seq(T) /\ b \in Seq(T)
    /\ Increasing(a, f) /\ Increasing(b, f) /\ AllIn(a, b) /\ AllIn(b, a)

\* What is kept of such a sequence is one, of the elements at the places.
LEMMA KeepIncreasing ==
    ASSUME NEW T, NEW s \in Seq(T), NEW P, P \subseteq DOMAIN s, NEW f, Increasing(s, f)
    PROVE  /\ Increasing(Keep(s, P), f)
           /\ \A k \in 1..Len(Keep(s, P)) : \E p \in P : Keep(s, P)[k] = s[p]
           /\ \A p \in P : \E k \in 1..Len(Keep(s, P)) : Keep(s, P)[k] = s[p]
<1> DEFINE q == Keep(s, P)
<1>1. \E g : Kept(q, s, P, g)
  BY KeepIsOrdered
<1>2. PICK g : Kept(q, s, P, g)
  BY <1>1
<1> HIDE DEF q
<1>3. /\ g \in [1..Len(q) -> P]
      /\ \A k \in 1..Len(q) : q[k] = s[g[k]]
      /\ \A k, l \in 1..Len(q) : k < l => g[k] < g[l]
      /\ \A p \in P : \E k \in 1..Len(q) : g[k] = p
  BY <1>2, Zenon DEF Kept
<1>4. \A k \in 1..Len(q) : g[k] \in P /\ g[k] \in 1..Len(s)
  BY <1>3
<1>5. Increasing(q, f)
  <2> SUFFICES ASSUME NEW k \in 1..Len(q), NEW l \in 1..Len(q), k < l PROVE f[q[k]] < f[q[l]]
    BY DEF Increasing
  <2>1. f[s[g[k]]] < f[s[g[l]]]
    BY <1>3, <1>4 DEF Increasing
  <2>2. QED
    BY <1>3, <2>1
<1>6. QED
  BY <1>3, <1>4, <1>5 DEF q

\* Two such sequences of the same elements begin alike.
LEMMA SamePrefix ==
    ASSUME NEW T, NEW f, NEW a, NEW b, Matching(T, f, a, b)
    PROVE  \A k \in 0..Len(a) : k <= Len(b) /\ \A i \in 1..k : a[i] = b[i]
<1> /\ f \in [T -> Int] /\ a \in Seq(T) /\ b \in Seq(T)
    /\ Increasing(a, f) /\ Increasing(b, f) /\ AllIn(a, b) /\ AllIn(b, a)
  BY DEF Matching
<1> DEFINE n == Len(a)
<1> DEFINE S == {k \in 0..n : k <= Len(b) /\ \A i \in 1..k : a[i] = b[i]}
<1>1. /\ n \in Nat /\ Len(b) \in Nat
      /\ \A i \in 1..n : f[a[i]] \in Int
      /\ \A i \in 1..Len(b) : f[b[i]] \in Int
  <2>1. \A i \in 1..n : a[i] \in T
    BY ElementOfSeq
  <2>2. \A i \in 1..Len(b) : b[i] \in T
    BY ElementOfSeq
  <2>3. QED
    BY <2>1, <2>2
<1>2. 0 \in S
  BY <1>1
<1>3. \A k \in 0..n : k < n /\ k \in S => k + 1 \in S
  <2> SUFFICES ASSUME NEW k \in 0..n, k < n, k \in S PROVE k + 1 \in S
    OBVIOUS
  <2>1. k <= Len(b) /\ \A i \in 1..k : a[i] = b[i]
    OBVIOUS
  <2> DEFINE m == k + 1
  <2>2. m \in 1..n /\ k \in Nat /\ m \in 0..n /\ \A i \in 1..m : i \in 1..k \/ i = m
    BY <1>1
  <2>3. PICK j \in 1..Len(b) : a[m] = b[j]
    BY <2>2 DEF AllIn
  <2>4. j \notin 1..k
    <3> SUFFICES ASSUME j \in 1..k PROVE FALSE
      OBVIOUS
    <3>1. a[j] = a[m] /\ j < m /\ j \in 1..n
      BY <2>1, <2>2, <2>3
    <3>2. f[a[j]] < f[a[m]]
      BY <2>2, <3>1 DEF Increasing
    <3>3. QED
      BY <1>1, <3>1, <3>2
  <2>5. m <= j /\ m \in 1..Len(b)
    BY <1>1, <2>2, <2>4
  <2>6. PICK i \in 1..n : b[m] = a[i]
    BY <2>5 DEF AllIn
  <2>7. i \notin 1..k
    <3> SUFFICES ASSUME i \in 1..k PROVE FALSE
      OBVIOUS
    <3>1. b[i] = b[m] /\ i < m /\ i \in 1..Len(b)
      BY <1>1, <2>1, <2>2, <2>6
    <3>2. f[b[i]] < f[b[m]]
      BY <2>5, <3>1 DEF Increasing
    <3>3. f[b[m]] \in Int
      BY <1>1, <2>5
    <3>4. QED
      BY <3>1, <3>2, <3>3
  <2>8. m <= i
    BY <1>1, <2>2, <2>7
  <2>9. j = m
    <3>1. m < j => f[b[m]] < f[b[j]]
      BY <2>5 DEF Increasing
    <3>2. m < i => f[a[m]] < f[a[i]]
      BY <2>2 DEF Increasing
    <3>3. f[b[m]] = f[a[i]] /\ f[b[j]] = f[a[m]]
      BY <2>3, <2>6
    <3>4. m = i => f[b[m]] = f[b[j]]
      BY <3>3
    <3>5. f[b[m]] \in Int /\ f[b[j]] \in Int /\ f[a[m]] \in Int
      BY <1>1, <2>2, <2>5
    <3>6. ~(m < j)
      BY <2>2, <2>8, <3>1, <3>2, <3>3, <3>4, <3>5
    <3>7. QED
      BY <1>1, <2>2, <2>5, <3>6
  <2>10. a[m] = b[m]
    BY <2>3, <2>9
  <2>11. m <= Len(b) /\ \A x \in 1..m : a[x] = b[x]
    <3>1. \A x \in 1..m : a[x] = b[x]
      BY <2>1, <2>2, <2>10
    <3>2. QED
      BY <1>1, <2>5, <3>1
  <2>12. QED
    BY <2>2, <2>11
<1>4. \A k \in 0..n : k \in S
  <2> HIDE DEF S
  <2>1. QED
    BY <1>1, <1>2, <1>3, UpTo
<1>5. QED
  BY <1>4

\* They are the same.
LEMMA SameIncreasing ==
    ASSUME NEW T, NEW f \in [T -> Int], NEW a \in Seq(T), NEW b \in Seq(T),
           Increasing(a, f), Increasing(b, f), AllIn(a, b), AllIn(b, a)
    PROVE  a = b
<1>1. Len(a) \in Nat /\ Len(b) \in Nat /\ Matching(T, f, a, b) /\ Matching(T, f, b, a)
  BY DEF Matching
<1>2. Len(a) <= Len(b) /\ \A i \in 1..Len(a) : a[i] = b[i]
  <2>1. Len(a) \in 0..Len(a)
    BY <1>1
  <2>2. \A k \in 0..Len(a) : k <= Len(b) /\ \A i \in 1..k : a[i] = b[i]
    BY <1>1, SamePrefix
  <2>3. QED
    BY <2>1, <2>2
<1>3. Len(b) <= Len(a)
  <2>1. Len(b) \in 0..Len(b)
    BY <1>1
  <2>2. \A k \in 0..Len(b) : k <= Len(a) /\ \A i \in 1..k : b[i] = a[i]
    BY <1>1, SamePrefix
  <2>3. QED
    BY <2>1, <2>2
<1>4. Len(a) = Len(b)
  BY <1>1, <1>2, <1>3
<1>5. QED
  BY <1>2, <1>4
-----------------------------------------------------------------------------
(* Lists, whatever they hold *)

IsList(s) == \E n \in Nat : s = [i \in 1..n |-> s[i]]

LEMMA ListIsSeq ==
    ASSUME NEW s, IsList(s)
    PROVE  s \in Seq({s[i] : i \in DOMAIN s}) /\ Len(s) \in Nat /\ DOMAIN s = 1..Len(s)
<1>1. PICK n \in Nat : s = [i \in 1..n |-> s[i]]
  BY DEF IsList
<1>2. DOMAIN s = 1..n
  BY <1>1
<1> DEFINE T == {s[i] : i \in DOMAIN s}
<1>3. \A i \in 1..n : s[i] \in T
  BY <1>2
<1> HIDE DEF T
<1>4. s \in [1..n -> T]
  BY <1>1, <1>3
<1>5. s \in Seq(T) /\ Len(s) = n
  BY <1>4
<1>6. QED
  BY <1>2, <1>5 DEF T

LEMMA SeqIsList ==
    ASSUME NEW T, NEW s \in Seq(T)
    PROVE  IsList(s)
<1>1. Len(s) \in Nat /\ s = [i \in 1..Len(s) |-> s[i]]
  OBVIOUS
<1>2. QED
  BY <1>1 DEF IsList

LEMMA FlattenList ==
    ASSUME NEW ss, IsList(ss), \A i \in DOMAIN ss : IsList(ss[i])
    PROVE  IsList(FlattenSeq(ss))
<1> DEFINE T == UNION {{ss[i][k] : k \in DOMAIN ss[i]} : i \in DOMAIN ss}
<1>1. \A i \in DOMAIN ss : ss[i] \in Seq(T)
  <2> SUFFICES ASSUME NEW i \in DOMAIN ss PROVE ss[i] \in Seq(T)
    OBVIOUS
  <2>1. ss[i] \in Seq({ss[i][k] : k \in DOMAIN ss[i]})
    BY ListIsSeq
  <2>2. {ss[i][k] : k \in DOMAIN ss[i]} \subseteq T
    OBVIOUS
  <2> HIDE DEF T
  <2>3. QED
    BY <2>1, <2>2
<1> HIDE DEF T
<1>2. Len(ss) \in Nat /\ DOMAIN ss = 1..Len(ss) /\ ss \in Seq({ss[i] : i \in DOMAIN ss})
  BY ListIsSeq
<1>3. ss \in Seq(Seq(T))
  BY <1>1, <1>2
<1>4. FlattenSeq(ss) \in Seq(T)
  BY <1>3, FlattenIsOrdered
<1>5. QED
  BY <1>4, SeqIsList

LEMMA KeepList ==
    ASSUME NEW s, IsList(s), NEW P, P \subseteq DOMAIN s
    PROVE  IsList(Keep(s, P)) /\ \E g : Kept(Keep(s, P), s, P, g)
<1>1. s \in Seq({s[i] : i \in DOMAIN s})
  BY ListIsSeq
<1>2. Keep(s, P) \in Seq({s[i] : i \in DOMAIN s}) /\ \E g : Kept(Keep(s, P), s, P, g)
  BY <1>1, KeepIsOrdered
<1>3. QED
  BY <1>2, SeqIsList

\* sorted() of a list: which place each element had.
LEMMA SortedList ==
    ASSUME NEW s, IsList(s), NEW keys, Len(keys) = Len(s)
    PROVE  /\ IsList(Sorted(s, keys)) /\ Len(Sorted(s, keys)) = Len(s)
           /\ SortOrder(keys) \in Bijection(1..Len(s), 1..Len(s))
           /\ \A k \in 1..Len(s) : Sorted(s, keys)[k] = s[SortOrder(keys)[k]]
<1>1. s \in Seq({s[i] : i \in DOMAIN s}) /\ Len(s) \in Nat /\ DOMAIN s = 1..Len(s)
  BY ListIsSeq
<1>2. /\ Sorted(s, keys) \in Seq({s[i] : i \in DOMAIN s})
      /\ Len(Sorted(s, keys)) = Len(s)
  BY <1>1, SortedIsRearranged DEF Rearranged
<1>3. IsList(Sorted(s, keys))
  BY <1>2, SeqIsList
<1>4. SortOrder(keys) \in Bijection(1..Len(s), 1..Len(s))
  BY <1>1, SortIsOrder
<1>5. \A k \in 1..Len(s) : Sorted(s, keys)[k] = s[SortOrder(keys)[k]]
  BY <1>1 DEF Sorted
<1>6. QED
  BY <1>2, <1>3, <1>4, <1>5

\* What a list made of lists holds.
LEMMA FlattenHolds ==
    ASSUME NEW ss, IsList(ss), \A i \in DOMAIN ss : IsList(ss[i])
    PROVE  ToSet(FlattenSeq(ss)) = UNION {ToSet(ss[i]) : i \in DOMAIN ss}
<1> DEFINE T == UNION {{ss[i][k] : k \in DOMAIN ss[i]} : i \in DOMAIN ss}
<1>1. \A i \in DOMAIN ss : ss[i] \in Seq(T) /\ DOMAIN ss[i] = 1..Len(ss[i])
  <2> SUFFICES ASSUME NEW i \in DOMAIN ss PROVE ss[i] \in Seq(T) /\ DOMAIN ss[i] = 1..Len(ss[i])
    OBVIOUS
  <2>1. ss[i] \in Seq({ss[i][k] : k \in DOMAIN ss[i]}) /\ DOMAIN ss[i] = 1..Len(ss[i])
    BY ListIsSeq
  <2>2. {ss[i][k] : k \in DOMAIN ss[i]} \subseteq T
    OBVIOUS
  <2> HIDE DEF T
  <2>3. QED
    BY <2>1, <2>2
<1> HIDE DEF T
<1>2. Len(ss) \in Nat /\ DOMAIN ss = 1..Len(ss) /\ ss \in Seq({ss[i] : i \in DOMAIN ss})
  BY ListIsSeq
<1>3. ss \in Seq(Seq(T))
  BY <1>1, <1>2
<1>4. PICK q : q = FlattenSeq(ss)
  OBVIOUS
<1>5. q \in Seq(T) /\ \E at : Places(q, ss, Len(ss), at)
  BY <1>3, <1>4, FlattenIsOrdered
<1>6. PICK at : Places(q, ss, Len(ss), at)
  BY <1>5
<1>7. DOMAIN q = 1..Len(q)
  BY <1>5
<1>8. /\ \A k \in 1..Len(q) : /\ at[k][1] \in DOMAIN ss /\ at[k][2] \in DOMAIN ss[at[k][1]]
                              /\ q[k] = ss[at[k][1]][at[k][2]]
      /\ \A i \in DOMAIN ss : \A m \in DOMAIN ss[i] : \E k \in 1..Len(q) : at[k] = <<i, m>>
  BY <1>1, <1>2, <1>6 DEF Places
<1>9. ASSUME NEW x \in ToSet(q) PROVE \E i \in DOMAIN ss : x \in ToSet(ss[i])
  <2>1. PICK k \in 1..Len(q) : x = q[k]
    BY <1>7 DEF ToSet
  <2>2. QED
    BY <1>8, <2>1 DEF ToSet
<1>10. ASSUME NEW i \in DOMAIN ss, NEW x \in ToSet(ss[i]) PROVE x \in ToSet(q)
  <2>1. PICK m \in DOMAIN ss[i] : x = ss[i][m]
    BY DEF ToSet
  <2>2. PICK k \in 1..Len(q) : at[k] = <<i, m>>
    BY <1>8
  <2>3. q[k] = x
    BY <1>8, <2>1, <2>2
  <2>4. QED
    BY <1>7, <2>3 DEF ToSet
<1>11. QED
  BY <1>4, <1>9, <1>10

\* A sorted list holds the same.
LEMMA SortedHolds ==
    ASSUME NEW s, IsList(s), NEW keys, Len(keys) = Len(s)
    PROVE  ToSet(Sorted(s, keys)) = ToSet(s)
<1>1. PICK q : q = Sorted(s, keys)
  OBVIOUS
<1>2. PICK t : t = SortOrder(keys)
  OBVIOUS
<1>3. /\ IsList(q) /\ Len(q) = Len(s) /\ t \in Bijection(1..Len(s), 1..Len(s))
      /\ \A k \in 1..Len(s) : q[k] = s[t[k]]
  BY <1>1, <1>2, SortedList
<1>4. DOMAIN s = 1..Len(s) /\ DOMAIN q = 1..Len(s)
  BY <1>3, ListIsSeq
<1>5. /\ \A k \in 1..Len(s) : t[k] \in 1..Len(s)
      /\ \A i \in 1..Len(s) : \E k \in 1..Len(s) : t[k] = i
  BY <1>3 DEF Bijection, Injection, Surjection
<1>6. ASSUME NEW x \in ToSet(q) PROVE x \in ToSet(s)
  <2>1. PICK k \in 1..Len(s) : x = q[k]
    BY <1>4 DEF ToSet
  <2>2. QED
    BY <1>3, <1>4, <1>5, <2>1 DEF ToSet
<1>7. ASSUME NEW x \in ToSet(s) PROVE x \in ToSet(q)
  <2>1. PICK i \in 1..Len(s) : x = s[i]
    BY <1>4 DEF ToSet
  <2>2. PICK k \in 1..Len(s) : t[k] = i
    BY <1>5
  <2>3. QED
    BY <1>3, <1>4, <2>1, <2>2 DEF ToSet
<1>8. QED
  BY <1>1, <1>6, <1>7

\* What is kept of a list.
LEMMA KeepHolds ==
    ASSUME NEW s, IsList(s), NEW P, P \subseteq DOMAIN s
    PROVE  ToSet(Keep(s, P)) = {s[i] : i \in P}
<1>1. PICK q : q = Keep(s, P)
  OBVIOUS
<1>2. IsList(q) /\ \E g : Kept(q, s, P, g)
  BY <1>1, KeepList
<1>3. PICK g : Kept(q, s, P, g)
  BY <1>2
<1>4. /\ \A k \in 1..Len(q) : g[k] \in P /\ q[k] = s[g[k]]
      /\ \A p \in P : \E k \in 1..Len(q) : g[k] = p
  BY <1>3 DEF Kept
<1>5. DOMAIN q = 1..Len(q)
  BY <1>2, ListIsSeq
<1>6. QED
  BY <1>1, <1>4, <1>5 DEF ToSet

\* Elements that rise by a relation.
RisingBy(s, R) == \A i, j \in 1..Len(s) : i < j => <<s[i], s[j]>> \in R

\* sorted() of a list with a key of its own for each element.
LEMMA SortedIsRising ==
    ASSUME NEW w \in Nat, NEW s, IsList(s), NEW keys, Len(keys) = Len(s),
           \A i \in 1..Len(s) : keys[i] \in Tuples(w),
           \A i, j \in 1..Len(s) : keys[i] = keys[j] => i = j,
           NEW R, \A i, j \in 1..Len(s) : Precedes(keys[i], keys[j]) => <<s[i], s[j]>> \in R
    PROVE  RisingBy(Sorted(s, keys), R)
<1> DEFINE n == Len(s)
<1> DEFINE t == SortOrder(keys)
<1>1. /\ Len(Sorted(s, keys)) = n /\ t \in Bijection(1..n, 1..n)
      /\ \A k \in 1..n : Sorted(s, keys)[k] = s[t[k]]
  BY SortedList
<1>2. n \in Nat
  BY ListIsSeq
<1>3. Settled(keys, t)
  BY <1>2, SortIsSettled
<1>4. t \in Seq(1..n) /\ Len(t) = n
  BY <1>2, SortIsOrder DEF IsOrder
<1>5. \A k \in 1..n : t[k] \in 1..n
  BY <1>1 DEF Bijection, Injection
<1>6. \A k, l \in 1..n : t[k] = t[l] => k = l
  BY <1>1 DEF Bijection, Injection, IsInjective
<1> HIDE DEF t
<1> SUFFICES ASSUME NEW k \in 1..n, NEW l \in 1..n, k < l
             PROVE  <<Sorted(s, keys)[k], Sorted(s, keys)[l]>> \in R
  BY <1>1 DEF RisingBy
<1>7. t[k] # t[l] /\ t[k] \in 1..n /\ t[l] \in 1..n
  <2>1. k # l
    BY <1>2
  <2>2. QED
    BY <1>5, <1>6, <2>1
<1>8. keys[t[k]] # keys[t[l]] /\ keys[t[k]] \in Tuples(w) /\ keys[t[l]] \in Tuples(w)
  BY <1>7
<1>9. ~Precedes(keys[t[l]], keys[t[k]])
  BY <1>3, <1>4 DEF Settled
<1>10. Precedes(keys[t[k]], keys[t[l]])
  BY <1>8, <1>9, PrecedesIsTotal
<1>11. <<s[t[k]], s[t[l]]>> \in R
  BY <1>7, <1>10
<1>12. QED
  BY <1>1, <1>11

\* The elements of a finite set, each once.
LEMMA ListOfSet ==
    ASSUME NEW S, IsFiniteSet(S)
    PROVE  /\ SetToSeq(S) \in Seq(S)
           /\ \A i, j \in 1..Len(SetToSeq(S)) : SetToSeq(S)[i] = SetToSeq(S)[j] => i = j
           /\ \A x \in S : \E i \in 1..Len(SetToSeq(S)) : SetToSeq(S)[i] = x
<1> DEFINE n == Cardinality(S)
<1> DEFINE q == SetToSeq(S)
<1>1. n \in Nat
  BY FS_CardinalityType
<1>2. \E f \in [1..n -> S] : IsInjective(f)
  <2>1. PICK m \in Nat : ExistsBijection(1..m, S)
    BY FS_NatBijection
  <2>2. m = n
    BY <2>1, FS_CountingElements
  <2>3. QED
    BY <2>1, <2>2 DEF ExistsBijection, Bijection, Injection
<1>3. q \in [1..n -> S] /\ IsInjective(q)
  BY <1>2, Zenon DEF SetToSeq
<1> HIDE DEF q
<1>4. q \in Seq(S) /\ Len(q) = n
  BY <1>1, <1>3
<1>5. \A i, j \in 1..n : q[i] = q[j] => i = j
  BY <1>3 DEF IsInjective
<1>6. \A x \in S : \E i \in 1..n : q[i] = x
  <2>1. IsFiniteSet(1..n) /\ Cardinality(1..n) = n
    <3>1. 1 \in Int /\ n \in Int
      BY <1>1
    <3>2. IsFiniteSet(1..n) /\ Cardinality(1..n) = IF 1 > n THEN 0 ELSE n - 1 + 1
      BY <3>1, FS_Interval
    <3> HIDE DEF n
    <3>3. QED
      BY <1>1, <3>2
  <2>2. q \in Injection(1..n, S)
    BY <1>3 DEF Injection
  <2>3. q \in Surjection(1..n, S)
    BY <2>1, <2>2, FS_Injection
  <2>4. QED
    BY <2>3 DEF Surjection
<1>7. QED
  BY <1>4, <1>5, <1>6 DEF q

\* All the elements of a set, rising by a relation.
Ranking(s, S, R) ==
    /\ s \in Seq(S) /\ RisingBy(s, R)
    /\ \A x \in S : \E i \in 1..Len(s) : s[i] = x

\* What is added behind all the others leaves them where they are.
LEMMA LaterGoBehind ==
    ASSUME NEW A, NEW B, A \subseteq B, NEW R, \A x, y \in B : <<x, y>> \in R => <<y, x>> \notin R,
           NEW a, Ranking(a, A, R), NEW b, Ranking(b, B, R),
           \A x \in A, y \in B \ A : <<x, y>> \in R
    PROVE  Len(a) <= Len(b) /\ \A i \in 1..Len(a) : b[i] = a[i]
<1>1. /\ a \in Seq(A) /\ b \in Seq(B) /\ RisingBy(a, R) /\ RisingBy(b, R)
      /\ \A x \in A : \E i \in 1..Len(a) : a[i] = x
      /\ \A x \in B : \E i \in 1..Len(b) : b[i] = x
  BY DEF Ranking
<1> DEFINE n == Len(a)
<1> DEFINE S == {k \in 0..n : k <= Len(b) /\ \A i \in 1..k : b[i] = a[i]}
<1>2. n \in Nat /\ Len(b) \in Nat
  BY <1>1
<1>3. (\A i \in 1..n : a[i] \in A /\ a[i] \in B) /\ \A i \in 1..Len(b) : b[i] \in B
  BY <1>1, ElementOfSeq
<1>4. 0 \in S
  BY <1>2
<1>5. \A k \in 0..n : k < n /\ k \in S => k + 1 \in S
  <2> SUFFICES ASSUME NEW k \in 0..n, k < n, k \in S PROVE k + 1 \in S
    OBVIOUS
  <2> DEFINE m == k + 1
  <2>1. k <= Len(b) /\ \A i \in 1..k : b[i] = a[i]
    OBVIOUS
  <2>2. m \in 1..n /\ k \in Nat /\ m \in 0..n /\ (\A i \in 1..m : i \in 1..k \/ i = m)
        /\ \A i \in Nat : i \notin 1..k /\ i # 0 => m <= i
    BY <1>2
  <2>3. a[m] \in A /\ a[m] \in B
    BY <1>3, <2>2
  <2>4. PICK j \in 1..Len(b) : b[j] = a[m]
    BY <1>1, <2>3
  <2>5. j \notin 1..k
    <3> SUFFICES ASSUME j \in 1..k PROVE FALSE
      OBVIOUS
    <3>1. a[j] = a[m] /\ j < m /\ j \in 1..n
      BY <2>1, <2>2, <2>4
    <3>2. <<a[j], a[m]>> \in R
      BY <1>1, <2>2, <3>1 DEF RisingBy
    <3>3. QED
      BY <2>3, <3>1, <3>2
  <2>6. m <= j /\ m \in 1..Len(b)
    BY <1>2, <2>2, <2>5
  <2>7. b[m] \in B
    BY <1>3, <2>6
  <2>8. j = m
    <3> SUFFICES ASSUME m < j PROVE FALSE
      BY <1>2, <2>2, <2>6
    <3>1. <<b[m], a[m]>> \in R
      BY <1>1, <2>4, <2>6 DEF RisingBy
    <3>2. <<a[m], b[m]>> \notin R
      BY <2>3, <2>7, <3>1
    <3>3. b[m] \in A
      BY <2>3, <2>7, <3>2
    <3>4. PICK i \in 1..n : a[i] = b[m]
      BY <1>1, <3>3
    <3>5. i \notin 1..k
      <4> SUFFICES ASSUME i \in 1..k PROVE FALSE
        OBVIOUS
      <4>1. b[i] = b[m] /\ i < m /\ i \in 1..Len(b)
        BY <2>1, <2>2, <1>2, <3>4
      <4>2. <<b[i], b[m]>> \in R
        BY <1>1, <2>6, <4>1 DEF RisingBy
      <4>3. QED
        BY <2>7, <4>1, <4>2
    <3>6. m <= i
      BY <1>2, <2>2, <3>5
    <3>7. CASE i = m
      BY <2>3, <3>1, <3>4, <3>7
    <3>8. CASE m < i
      <4>1. <<a[m], a[i]>> \in R
        BY <1>1, <2>2, <3>8 DEF RisingBy
      <4>2. QED
        BY <3>2, <3>4, <4>1
    <3>9. QED
      BY <1>2, <2>2, <3>6, <3>7, <3>8
  <2>9. m <= Len(b) /\ \A x \in 1..m : b[x] = a[x]
    BY <1>2, <2>1, <2>2, <2>4, <2>6, <2>8
  <2>10. QED
    BY <2>2, <2>9
<1>6. \A k \in 0..n : k \in S
  <2> HIDE DEF S
  <2>1. QED
    BY <1>2, <1>4, <1>5, UpTo
<1>7. n \in S
  <2> HIDE DEF S
  <2>1. QED
    BY <1>2, <1>6
<1>8. QED
  BY <1>7
-----------------------------------------------------------------------------
(* SumFunction *)

Chosen(P) == CHOOSE x \in P : TRUE

\* A sum over a part takes one element and the sum over the rest.
SumRule(sum, f, Q) ==
    \A P \in Q : sum[P] = IF P = {} THEN 0 ELSE f[Chosen(P)] + sum[P \ {Chosen(P)}]

\* The parts of a set with at most k elements.
Parts(S, k) == {P \in SUBSET S : Cardinality(P) <= k}

LEMMA TakeOne ==
    ASSUME NEW S, IsFiniteSet(S), NEW k \in Nat, NEW P \in Parts(S, k + 1), P # {}
    PROVE  Chosen(P) \in P /\ Chosen(P) \in S /\ P \ {Chosen(P)} \in Parts(S, k)
<1> DEFINE x == Chosen(P)
<1>1. P \in SUBSET S /\ Cardinality(P) <= k + 1
  BY DEF Parts
<1>2. x \in P
  BY DEF Chosen
<1> HIDE DEF x
<1>3. IsFiniteSet(P) /\ Cardinality(P) \in Nat
  BY <1>1, FS_Subset, FS_CardinalityType
<1>4. Cardinality(P \ {x}) = Cardinality(P) - 1
  BY <1>2, <1>3, FS_RemoveElement
<1>5. Cardinality(P \ {x}) <= k
  BY <1>1, <1>3, <1>4
<1>6. QED
  BY <1>1, <1>2, <1>5 DEF Parts, x

\* There is such a sum.
LEMMA SumExists ==
    ASSUME NEW S, IsFiniteSet(S), NEW f
    PROVE  \E sum : sum = [P \in SUBSET S |-> sum[P]] /\ SumRule(sum, f, SUBSET S)
<1> DEFINE n == Cardinality(S)
<1> DEFINE K == {k \in 0..n : \E g : SumRule(g, f, Parts(S, k))}
<1>1. n \in Nat /\ Parts(S, n) = SUBSET S
  BY FS_CardinalityType, FS_Subset DEF Parts
<1>2. 0 \in K
  <2>1. \A P \in Parts(S, 0) : P = {}
    <3> SUFFICES ASSUME NEW P \in Parts(S, 0) PROVE P = {}
      OBVIOUS
    <3>1. IsFiniteSet(P) /\ Cardinality(P) \in Nat /\ Cardinality(P) <= 0
      BY FS_Subset, FS_CardinalityType DEF Parts
    <3>2. Cardinality(P) = 0
      BY <3>1
    <3>3. QED
      BY <3>1, <3>2, FS_EmptySet
  <2> DEFINE g == [P \in Parts(S, 0) |-> 0]
  <2>2. SumRule(g, f, Parts(S, 0))
    BY <2>1 DEF SumRule
  <2>3. QED
    BY <1>1, <2>2
<1>3. \A k \in 0..n : k < n /\ k \in K => k + 1 \in K
  <2> SUFFICES ASSUME NEW k \in 0..n, k < n, k \in K PROVE k + 1 \in K
    OBVIOUS
  <2>1. PICK g : SumRule(g, f, Parts(S, k))
    OBVIOUS
  <2> DEFINE G == [P \in Parts(S, k + 1) |->
                     IF P = {} THEN 0 ELSE f[Chosen(P)] + g[P \ {Chosen(P)}]]
  <2>2. k \in Nat /\ Parts(S, k) \subseteq Parts(S, k + 1)
    <3>1. k \in Nat
      BY <1>1
    <3>2. \A P \in SUBSET S : Cardinality(P) \in Nat
      BY FS_Subset, FS_CardinalityType
    <3>3. QED
      BY <3>1, <3>2 DEF Parts
  <2>3. \A P \in Parts(S, k + 1) : G[P] = IF P = {} THEN 0 ELSE f[Chosen(P)] + g[P \ {Chosen(P)}]
    OBVIOUS
  <2> HIDE DEF G
  <2>4. \A P \in Parts(S, k) : G[P] = g[P]
    BY <2>1, <2>2, <2>3 DEF SumRule
  <2>5. \A P \in Parts(S, k + 1) : P # {} => P \ {Chosen(P)} \in Parts(S, k)
    BY <2>2, TakeOne
  <2>6. SumRule(G, f, Parts(S, k + 1))
    BY <2>3, <2>4, <2>5 DEF SumRule
  <2>7. QED
    BY <1>1, <2>6
<1>4. n \in K
  <2> HIDE DEF K
  <2>1. \A k \in 0..n : k \in K
    BY <1>1, <1>2, <1>3, UpTo
  <2>2. QED
    BY <1>1, <2>1
<1>5. PICK g : SumRule(g, f, SUBSET S)
  BY <1>1, <1>4
<1> DEFINE sum == [P \in SUBSET S |-> g[P]]
<1>6. \A P \in SUBSET S : sum[P] = g[P] /\ P \ {Chosen(P)} \in SUBSET S
  OBVIOUS
<1>7. SumRule(sum, f, SUBSET S)
  BY <1>5, <1>6 DEF SumRule
<1>8. sum = [P \in SUBSET S |-> sum[P]]
  OBVIOUS
<1>9. QED
  BY <1>7, <1>8

\* A sum over a finite domain of numbers in a set that is closed under addition.
LEMMA SumFunctionType ==
    ASSUME NEW N, N \subseteq Int, 0 \in N, \A a, b \in N : a + b \in N,
           NEW S, IsFiniteSet(S), NEW f \in [S -> N]
    PROVE  SumFunction(f) \in N
<1> DEFINE Rule(g) == g = [P \in SUBSET S |->
              IF P = {} THEN 0 ELSE f[Chosen(P)] + g[P \ {Chosen(P)}]]
<1> DEFINE sum == CHOOSE g : Rule(g)
<1>1. SumFunction(f) = sum[S]
  <2>1. DOMAIN f = S
    OBVIOUS
  <2>2. QED
    BY <2>1 DEF SumFunction, SumFunctionOnSet, FoldFunctionOnSet, MapThenFoldSet, Chosen
<1>2. Rule(sum)
  <2>1. PICK g : g = [P \in SUBSET S |-> g[P]] /\ SumRule(g, f, SUBSET S)
    BY SumExists
  <2>2. [P \in SUBSET S |-> g[P]] = [P \in SUBSET S |->
              IF P = {} THEN 0 ELSE f[Chosen(P)] + g[P \ {Chosen(P)}]]
    BY <2>1 DEF SumRule
  <2>3. Rule(g)
    BY <2>1, <2>2
  <2>4. QED
    BY <2>3
<1> HIDE DEF sum
<1>3. \A P \in SUBSET S : sum[P] = IF P = {} THEN 0 ELSE f[Chosen(P)] + sum[P \ {Chosen(P)}]
  BY <1>2
<1> DEFINE n == Cardinality(S)
<1> DEFINE K == {k \in 0..n : \A P \in Parts(S, k) : sum[P] \in N}
<1>4. n \in Nat /\ S \in Parts(S, n) /\ \A k : Parts(S, k) \subseteq SUBSET S
  BY FS_CardinalityType DEF Parts
<1>5. 0 \in K
  <2> SUFFICES ASSUME NEW P \in Parts(S, 0) PROVE sum[P] \in N
    BY <1>4
  <2>1. IsFiniteSet(P) /\ Cardinality(P) \in Nat /\ Cardinality(P) <= 0
    BY FS_Subset, FS_CardinalityType DEF Parts
  <2>2. Cardinality(P) = 0
    BY <2>1
  <2>3. P = {}
    BY <2>1, <2>2, FS_EmptySet
  <2>4. QED
    BY <1>3, <1>4, <2>3
<1>6. \A k \in 0..n : k < n /\ k \in K => k + 1 \in K
  <2> SUFFICES ASSUME NEW k \in 0..n, k < n, k \in K, NEW P \in Parts(S, k + 1)
               PROVE  sum[P] \in N
    BY <1>4
  <2>1. CASE P = {}
    BY <1>3, <1>4, <2>1
  <2>2. CASE P # {}
    <3>1. k \in Nat
      BY <1>4
    <3>2. Chosen(P) \in S /\ P \ {Chosen(P)} \in Parts(S, k)
      BY <2>2, <3>1, TakeOne
    <3>3. sum[P \ {Chosen(P)}] \in N /\ f[Chosen(P)] \in N
      BY <3>2
    <3>4. sum[P] = f[Chosen(P)] + sum[P \ {Chosen(P)}]
      BY <1>3, <1>4, <2>2
    <3>5. QED
      BY <3>3, <3>4
  <2>3. QED
    BY <2>1, <2>2
<1>7. sum[S] \in N
  <2> HIDE DEF K
  <2>1. \A k \in 0..n : k \in K
    BY <1>4, <1>5, <1>6, UpTo
  <2>2. n \in K
    BY <1>4, <2>1
  <2>3. QED
    BY <1>4, <2>2 DEF K
<1>8. QED
  BY <1>1, <1>7
=============================================================================
