------------------------ MODULE PinYinMatch_proofs ------------------------
(***************************************************************************)
(* What the searches of PinYinMatch find, for every name and every text.   *)
(*                                                                         *)
(* The algorithms are recursive functions.  An induction is on a set of    *)
(* numbers: of the numbers that are not in it the least is looked at.      *)
(***************************************************************************)
EXTENDS PinYinMatch, SequenceTheorems, WellFoundedInduction, TLAPS

-----------------------------------------------------------------------------
(* Induction and recursion *)

\* Every set of natural numbers that is not empty has a least element.
LEMMA NatLeast ==
  ASSUME NEW T \in SUBSET Nat, T # {}
  PROVE  \E n \in T : \A m \in T : n <= m
<1>1. IsWellFoundedOn(OpToRel(<, Nat), Nat)
  BY NatLessThanWellFounded
<1>2. PICK n \in T : \A m \in T : ~ (<<m, n>> \in OpToRel(<, Nat))
  <2> HIDE DEF OpToRel
  <2>1. T \subseteq Nat
    OBVIOUS
  <2> QED
    BY WFMin, <1>1, <2>1
<1>3. \A m \in T : ~ (m < n)
  BY <1>2 DEF OpToRel
<1> QED
  BY <1>3

\* What holds of a number whenever it holds of all lower ones always holds.
LEMMA NatInduct ==
  ASSUME NEW P, \A n \in Nat : (\A m \in 0 .. n - 1 : m \in P) => n \in P
  PROVE  \A n \in Nat : n \in P
<1> SUFFICES ASSUME NEW k \in Nat, k \notin P
             PROVE  FALSE
  OBVIOUS
<1> DEFINE T == {n \in Nat : n \notin P}
<1>1. PICK n \in T : \A m \in T : n <= m
  <2>1. T \in SUBSET Nat /\ T # {}
    OBVIOUS
  <2> QED
    BY <2>1, NatLeast
<1>2. \A m \in 0 .. n - 1 : m \in P
  BY <1>1
<1> QED
  BY <1>1, <1>2

\* So has every bounded one a greatest.
LEMMA NatGreatest ==
  ASSUME NEW n \in Nat, NEW T \in SUBSET (0 .. n), T # {}
  PROVE  \E m \in T : \A k \in T : k <= m
<1> DEFINE U == {m \in Nat : \A k \in T : k <= m}
<1>1. U \in SUBSET Nat /\ n \in U
  OBVIOUS
<1>2. PICK m \in U : \A k \in U : m <= k
  <2> HIDE DEF U
  <2> QED
    BY <1>1, NatLeast
<1>3. m \in T
  <2> SUFFICES ASSUME m \notin T PROVE FALSE
    OBVIOUS
  <2>1. \A k \in T : k \in Nat /\ k <= m /\ k # m
    OBVIOUS
  <2>2. m # 0
    <3>1. PICK k \in T : TRUE
      OBVIOUS
    <3> QED
      BY <2>1, <3>1
  <2>3. m - 1 \in U
    BY <2>1, <2>2
  <2> QED
    BY <1>2, <2>3
<1> QED
  BY <1>3

LEMMA MinResult ==
  ASSUME NEW T \in SUBSET Nat, T # {}
  PROVE  Min(T) \in T /\ \A m \in T : Min(T) <= m
<1>1. PICK n \in T : \A m \in T : n <= m
  BY NatLeast
<1> QED
  BY <1>1 DEF Min

LEMMA MaxResult ==
  ASSUME NEW n \in Nat, NEW T \in SUBSET (0 .. n), T # {}
  PROVE  Max(T) \in T /\ \A m \in T : m <= Max(T)
<1>1. PICK k \in T : \A m \in T : m <= k
  BY NatGreatest
<1>2. \A a, b \in T : a <= b <=> b >= a
  OBVIOUS
<1> QED
  BY <1>1, <1>2 DEF Max

\* G maps a function to what its definition makes of it: the definition only
\* uses the function's values where the rank is lower.
Recursion(S, V, f0, B, rank, G) ==
  /\ f0 \in [S -> V]
  /\ B \in Nat /\ rank \in [S -> 0 .. B]
  /\ G \in [[S -> V] -> [S -> V]]
  /\ \A g, h \in [S -> V], x \in S :
       (\A y \in S : rank[y] < rank[x] => g[y] = h[y]) => G[g][x] = G[h][x]

\* Such a recursive definition has a solution.
LEMMA RecursiveFunction ==
  ASSUME NEW S, NEW V, NEW f0, NEW B, NEW rank, NEW G,
         Recursion(S, V, f0, B, rank, G)
  PROVE  \E f \in [S -> V] : f = G[f]
<1> USE DEF Recursion
<1> DEFINE Solves(f, n) == \A x \in S : rank[x] < n => f[x] = G[f][x]
           P == {n \in Nat : \E f \in [S -> V] : Solves(f, n)}
<1>1. \A n \in Nat : (\A m \in 0 .. n - 1 : m \in P) => n \in P
  <2> SUFFICES ASSUME NEW n \in Nat, \A m \in 0 .. n - 1 : m \in P
               PROVE  \E f \in [S -> V] : Solves(f, n)
    OBVIOUS
  <2>1. CASE n = 0
    BY <2>1
  <2>2. CASE n # 0
    <3>1. n - 1 \in P
      BY <2>2
    <3>2. PICK f \in [S -> V] : Solves(f, n - 1)
      BY <3>1
    <3>3. G[f] \in [S -> V]
      OBVIOUS
    <3>4. ASSUME NEW x \in S, rank[x] < n
          PROVE  G[f][x] = G[G[f]][x]
      <4>1. \A y \in S : rank[y] < rank[x] => f[y] = G[f][y]
        BY <3>2, <3>4
      <4> QED
        BY <3>3, <4>1
    <3> QED
      BY <3>3, <3>4
  <2> QED
    BY <2>1, <2>2
<1>2. B + 1 \in P
  <2> HIDE DEF P
  <2> QED BY <1>1, NatInduct
<1>3. PICK f \in [S -> V] : Solves(f, B + 1)
  BY <1>2
<1>4. \A x \in S : f[x] = G[f][x]
  BY <1>3
<1>5. G[f] \in [S -> V]
  OBVIOUS
<1> QED
  BY <1>4, <1>5

-----------------------------------------------------------------------------
(* Lists *)

LEMMA FunctionIsSeq ==
  ASSUME NEW A, NEW n \in Nat, NEW f \in [1 .. n -> A]
  PROVE  f \in Seq(A) /\ Len(f) = n
  BY SeqDef

\* The recursion of Kept is well defined.
LEMMA KeptFunction ==
  ASSUME NEW A, NEW list \in Seq(A), NEW S
  PROVE  \E K : /\ K = [n \in 0 .. Len(list) |->
                          IF n = 0 THEN <<>>
                          ELSE IF list[n] \in S THEN Append(K[n - 1], list[n])
                          ELSE K[n - 1]]
                /\ Kept(list, S) = K[Len(list)]
<1> DEFINE D == 0 .. Len(list)
           E(g, n) == IF n = 0 THEN <<>>
                      ELSE IF list[n] \in S THEN Append(g[n - 1], list[n])
                      ELSE g[n - 1]
           G == [g \in [D -> Seq(A)] |-> [n \in D |-> E(g, n)]]
           rank == [n \in D |-> n]
           f0 == [n \in D |-> <<>>]
<1>1. \E K \in [D -> Seq(A)] : K = G[K]
  <2>1. G \in [[D -> Seq(A)] -> [D -> Seq(A)]]
    OBVIOUS
  <2>2. \A g, h \in [D -> Seq(A)], x \in D :
          (\A y \in D : rank[y] < rank[x] => g[y] = h[y]) => G[g][x] = G[h][x]
    <3> SUFFICES ASSUME NEW g \in [D -> Seq(A)], NEW h \in [D -> Seq(A)], NEW x \in D,
                        \A y \in D : rank[y] < rank[x] => g[y] = h[y]
                 PROVE  G[g][x] = G[h][x]
      OBVIOUS
    <3>1. x # 0 => x - 1 \in D /\ rank[x - 1] < rank[x]
      OBVIOUS
    <3> QED
      BY <3>1
  <2>3. Len(list) \in Nat /\ rank \in [D -> 0 .. Len(list)] /\ f0 \in [D -> Seq(A)]
    OBVIOUS
  <2>4. Recursion(D, Seq(A), f0, Len(list), rank, G)
    <3> HIDE DEF G, D, rank, f0
    <3> QED
      BY <2>1, <2>2, <2>3 DEF Recursion
  <2> HIDE DEF G, D, rank, f0
  <2> QED
    BY <2>4, RecursiveFunction
<1>2. \E K : K = [n \in D |-> E(K, n)]
  BY <1>1
<1>3. PICK K : K = (CHOOSE F : F = [n \in D |-> E(F, n)])
  OBVIOUS
<1>4. K = [n \in D |-> E(K, n)]
  BY <1>2, <1>3, Zenon
<1>5. Kept(list, S) = K[Len(list)]
  BY <1>3, Zenon DEF Kept
<1> QED
  BY <1>4, <1>5, Zenon

\* kept is what remains of the first n elements of the list.
Keeps(kept, list, S, n) ==
  /\ \A i \in DOMAIN kept : \E a \in 1 .. n : kept[i] = list[a] /\ list[a] \in S
  /\ \A a \in 1 .. n : list[a] \in S => \E i \in DOMAIN kept : kept[i] = list[a]
  /\ \A i, j \in DOMAIN kept : i < j =>
       \E a, b \in 1 .. n : a < b /\ kept[i] = list[a] /\ kept[j] = list[b]
  /\ (\A a \in 1 .. n : list[a] \in S) =>
       Len(kept) = n /\ \A i \in 1 .. n : kept[i] = list[i]

LEMMA KeepsOneMore ==
  ASSUME NEW A, NEW list \in Seq(A), NEW S, NEW n \in 1 .. Len(list),
         NEW s \in Seq(A), Keeps(s, list, S, n - 1)
  PROVE  /\ list[n] \in S => Keeps(Append(s, list[n]), list, S, n)
         /\ list[n] \notin S => Keeps(s, list, S, n)
<1>1. list[n] \in A /\ n - 1 \in Nat /\ n \in 1 .. n
  OBVIOUS
<1>2. \A a \in 1 .. n : a \in 1 .. n - 1 \/ a = n
  OBVIOUS
<1>3. \A a \in 1 .. n - 1 : a \in 1 .. n /\ a < n
  OBVIOUS
<1>4. ASSUME list[n] \notin S
      PROVE  Keeps(s, list, S, n)
  BY <1>2, <1>3, <1>4 DEF Keeps
<1>5. PICK t \in Seq(A) : t = Append(s, list[n])
  <2>1. Append(s, list[n]) \in Seq(A)
    BY <1>1
  <2> QED
    BY <2>1, Zenon
<1>6. /\ \A i \in DOMAIN t : i \in DOMAIN s \/ i = Len(s) + 1
      /\ \A i \in DOMAIN s : i \in DOMAIN t /\ t[i] = s[i] /\ i < Len(s) + 1
      /\ t[Len(s) + 1] = list[n] /\ Len(s) + 1 \in DOMAIN t
      /\ Len(t) = Len(s) + 1 /\ Len(s) \in Nat
  BY <1>1, <1>5
<1>7. ASSUME list[n] \in S
      PROVE  Keeps(t, list, S, n)
  <2>1. ASSUME NEW i \in DOMAIN t
        PROVE  \E a \in 1 .. n : t[i] = list[a] /\ list[a] \in S
    <3>1. CASE i \in DOMAIN s
      BY <1>3, <1>6, <3>1 DEF Keeps
    <3>2. CASE i = Len(s) + 1
      BY <1>1, <1>6, <1>7, <3>2
    <3> QED
      BY <1>6, <3>1, <3>2
  <2>2. ASSUME NEW a \in 1 .. n, list[a] \in S
        PROVE  \E i \in DOMAIN t : t[i] = list[a]
    <3>1. CASE a \in 1 .. n - 1
      BY <1>6, <2>2, <3>1 DEF Keeps
    <3>2. CASE a = n
      BY <1>6, <3>2
    <3> QED
      BY <1>2, <3>1, <3>2
  <2>3. ASSUME NEW i \in DOMAIN t, NEW j \in DOMAIN t, i < j
        PROVE  \E a, b \in 1 .. n : a < b /\ t[i] = list[a] /\ t[j] = list[b]
    <3>1. i \in DOMAIN s
      BY <1>6, <2>3
    <3>2. CASE j \in DOMAIN s
      <4>1. PICK a \in 1 .. n - 1, b \in 1 .. n - 1 :
              a < b /\ s[i] = list[a] /\ s[j] = list[b]
        BY <2>3, <3>1, <3>2 DEF Keeps
      <4> QED
        BY <1>3, <1>6, <4>1, <3>1, <3>2
    <3>3. CASE j = Len(s) + 1
      <4>1. PICK a \in 1 .. n - 1 : s[i] = list[a]
        BY <3>1 DEF Keeps
      <4> QED
        BY <1>1, <1>3, <1>6, <4>1, <3>1, <3>3
    <3> QED
      BY <1>6, <3>2, <3>3
  <2>4. ASSUME \A a \in 1 .. n : list[a] \in S
        PROVE  Len(t) = n /\ \A i \in 1 .. n : t[i] = list[i]
    <3>1. Len(s) = n - 1 /\ \A i \in 1 .. n - 1 : s[i] = list[i]
      BY <1>3, <2>4 DEF Keeps
    <3>2. Len(t) = n
      BY <1>6, <3>1
    <3>3. \A i \in 1 .. n - 1 : t[i] = list[i]
      BY <1>6, <3>1
    <3> QED
      BY <1>2, <1>6, <3>1, <3>2, <3>3
  <2> QED
    BY <2>1, <2>2, <2>3, <2>4 DEF Keeps
<1> QED
  BY <1>4, <1>5, <1>7

\* Kept keeps what is in the set, in the order of the list.
LEMMA KeptResult ==
  ASSUME NEW A, NEW list \in Seq(A), NEW S
  PROVE  /\ Kept(list, S) \in Seq(A)
         /\ ToSet(Kept(list, S)) = ToSet(list) \cap S
         /\ \A i, j \in DOMAIN Kept(list, S) : i < j =>
              \E a, b \in DOMAIN list :
                a < b /\ Kept(list, S)[i] = list[a] /\ Kept(list, S)[j] = list[b]
         /\ ToSet(list) \subseteq S => Kept(list, S) = list
<1>1. PICK K : /\ K = [n \in 0 .. Len(list) |->
                         IF n = 0 THEN <<>>
                         ELSE IF list[n] \in S THEN Append(K[n - 1], list[n])
                         ELSE K[n - 1]]
               /\ Kept(list, S) = K[Len(list)]
  BY KeptFunction
<1> DEFINE E(n) == IF n = 0 THEN <<>>
                   ELSE IF list[n] \in S THEN Append(K[n - 1], list[n])
                   ELSE K[n - 1]
           P == {n \in Nat : n <= Len(list) => K[n] \in Seq(A) /\ Keeps(K[n], list, S, n)}
<1>2. \A n \in 0 .. Len(list) : K[n] = E(n)
  <2>1. K = [n \in 0 .. Len(list) |-> E(n)]
    BY <1>1
  <2> HIDE DEF E
  <2> QED
    BY <2>1
<1>3. ASSUME NEW n \in Nat, \A m \in 0 .. n - 1 : m \in P
      PROVE  n \in P
  <2> SUFFICES ASSUME n <= Len(list)
               PROVE  K[n] \in Seq(A) /\ Keeps(K[n], list, S, n)
    OBVIOUS
  <2>1. K[n] = E(n)
    BY <1>2
  <2>2. CASE n = 0
    <3>1. K[n] = <<>>
      BY <2>1, <2>2
    <3> QED
      BY <2>2, <3>1 DEF Keeps
  <2>3. CASE n # 0
    <3>1. n \in 1 .. Len(list) /\ n - 1 \in 0 .. n - 1 /\ n - 1 <= Len(list)
      BY <2>3
    <3>2. PICK s \in Seq(A) : s = K[n - 1] /\ Keeps(s, list, S, n - 1)
      BY <1>3, <3>1
    <3>3. K[n] = IF list[n] \in S THEN Append(s, list[n]) ELSE s
      BY <2>1, <2>3, <3>2
    <3>4. list[n] \in A
      BY <3>1
    <3>5. CASE list[n] \in S
      BY <3>1, <3>2, <3>3, <3>4, <3>5, KeepsOneMore
    <3>6. CASE list[n] \notin S
      BY <3>1, <3>2, <3>3, <3>6, KeepsOneMore
    <3> QED
      BY <3>5, <3>6
  <2> QED
    BY <2>2, <2>3
<1>4. K[Len(list)] \in Seq(A) /\ Keeps(K[Len(list)], list, S, Len(list))
  <2>1. Len(list) \in P
    <3> HIDE DEF P
    <3> QED
      BY <1>3, NatInduct
  <2> QED
    BY <2>1
<1>5. PICK kept \in Seq(A) : kept = Kept(list, S) /\ Keeps(kept, list, S, Len(list))
  BY <1>1, <1>4
<1>6. ToSet(kept) = ToSet(list) \cap S
  BY <1>5 DEF Keeps, ToSet
<1>7. \A i, j \in DOMAIN kept : i < j =>
        \E a, b \in DOMAIN list : a < b /\ kept[i] = list[a] /\ kept[j] = list[b]
  BY <1>5 DEF Keeps
<1>8. ToSet(list) \subseteq S => kept = list
  <2> SUFFICES ASSUME ToSet(list) \subseteq S PROVE kept = list
    OBVIOUS
  <2>1. \A a \in 1 .. Len(list) : list[a] \in S
    BY DEF ToSet
  <2>2. Len(kept) = Len(list) /\ \A i \in 1 .. Len(list) : kept[i] = list[i]
    BY <1>5, <2>1 DEF Keeps
  <2> QED
    BY <2>2
<1> QED
  BY <1>5, <1>6, <1>7, <1>8

\* t is a part of the sequence s; u is s and t joined.
IsPart(t, s, m, n) ==
  /\ t = SubSeq(s, m, n)
  /\ Len(t) = n - m + 1
  /\ \A i \in 1 .. n - m + 1 : t[i] = s[m + i - 1]

IsJoin(u, s, t) ==
  /\ u = s \o t
  /\ Len(u) = Len(s) + Len(t)
  /\ \A i \in 1 .. Len(s) : u[i] = s[i]
  /\ \A i \in 1 .. Len(t) : u[Len(s) + i] = t[i]

LEMMA PartOf ==
  ASSUME NEW A, NEW s \in Seq(A), NEW m \in 1 .. Len(s) + 1, NEW n \in m - 1 .. Len(s)
  PROVE  \E t \in Seq(A) : IsPart(t, s, m, n)
<1>1. m \in Int /\ n \in Int /\ \A i \in m .. n : s[i] \in A
  OBVIOUS
<1>2. /\ SubSeq(s, m, n) \in Seq(A)
      /\ Len(SubSeq(s, m, n)) = IF m <= n THEN n - m + 1 ELSE 0
      /\ \A i \in 1 .. n - m + 1 : SubSeq(s, m, n)[i] = s[m + i - 1]
  BY <1>1, SubSeqProperties
<1>3. (IF m <= n THEN n - m + 1 ELSE 0) = n - m + 1
  OBVIOUS
<1> QED
  BY <1>2, <1>3, Zenon DEF IsPart

LEMMA Joined ==
  ASSUME NEW A, NEW s \in Seq(A), NEW t \in Seq(A)
  PROVE  \E u \in Seq(A) : IsJoin(u, s, t)
<1>1. /\ s \o t \in Seq(A) /\ Len(s \o t) = Len(s) + Len(t)
      /\ \A i \in 1 .. Len(s) : (s \o t)[i] = s[i]
      /\ \A i \in 1 .. Len(t) : (s \o t)[Len(s) + i] = t[i]
  OBVIOUS
<1> QED
  BY <1>1, Zenon DEF IsJoin

\* The recursion of FlattenSeq is well defined.
Flattened(F, seqs, i) == IF i = 1 THEN seqs[i] ELSE F[i - 1] \o seqs[i]

LEMMA FlattenFunction ==
  ASSUME NEW A, NEW seqs \in Seq(Seq(A)), Len(seqs) # 0
  PROVE  \E F : /\ F = [i \in 1 .. Len(seqs) |-> Flattened(F, seqs, i)]
                /\ FlattenSeq(seqs) = F[Len(seqs)]
<1> DEFINE D == 1 .. Len(seqs)
           G == [g \in [D -> Seq(A)] |-> [i \in D |-> Flattened(g, seqs, i)]]
           rank == [i \in D |-> i]
           f0 == [i \in D |-> <<>>]
<1>1. \A g, h \in [D -> Seq(A)], x \in D :
        (\A y \in D : rank[y] < rank[x] => g[y] = h[y]) =>
          Flattened(g, seqs, x) \in Seq(A) /\ Flattened(g, seqs, x) = Flattened(h, seqs, x)
  <2> SUFFICES ASSUME NEW g \in [D -> Seq(A)], NEW h \in [D -> Seq(A)], NEW x \in D,
                      \A y \in D : rank[y] < rank[x] => g[y] = h[y]
               PROVE  /\ Flattened(g, seqs, x) \in Seq(A)
                      /\ Flattened(g, seqs, x) = Flattened(h, seqs, x)
    OBVIOUS
  <2>1. seqs[x] \in Seq(A)
    OBVIOUS
  <2>2. x # 1 => x - 1 \in D /\ g[x - 1] = h[x - 1] /\ g[x - 1] \in Seq(A)
    <3> SUFFICES ASSUME x # 1
                 PROVE  x - 1 \in D /\ g[x - 1] = h[x - 1] /\ g[x - 1] \in Seq(A)
      OBVIOUS
    <3>1. x - 1 \in D /\ rank[x - 1] < rank[x]
      OBVIOUS
    <3> HIDE DEF D, rank
    <3> QED
      BY <3>1
  <2> HIDE DEF D
  <2> QED
    BY <2>1, <2>2 DEF Flattened
<1>2. Recursion(D, Seq(A), f0, Len(seqs), rank, G)
  <2>1. Len(seqs) \in Nat /\ rank \in [D -> 0 .. Len(seqs)] /\ f0 \in [D -> Seq(A)]
    OBVIOUS
  <2>2. G \in [[D -> Seq(A)] -> [D -> Seq(A)]]
    BY <1>1
  <2>3. \A g, h \in [D -> Seq(A)], x \in D :
          (\A y \in D : rank[y] < rank[x] => g[y] = h[y]) => G[g][x] = G[h][x]
    BY <1>1
  <2> HIDE DEF D, G, rank, f0
  <2> QED
    BY <2>1, <2>2, <2>3 DEF Recursion
<1>3. \E F : F = [i \in D |-> Flattened(F, seqs, i)]
  <2>1. \E F \in [D -> Seq(A)] : F = G[F]
    <3> HIDE DEF D, G, rank, f0
    <3> QED
      BY <1>2, RecursiveFunction
  <2> QED
    BY <2>1
<1>4. PICK F : F = (CHOOSE H : H = [i \in 1 .. Len(seqs) |-> Flattened(H, seqs, i)])
  OBVIOUS
<1>5. F = [i \in 1 .. Len(seqs) |-> Flattened(F, seqs, i)]
  BY <1>3, <1>4, Zenon
<1>6. FlattenSeq(seqs) = F[Len(seqs)]
  BY <1>4, Zenon DEF FlattenSeq, Flattened
<1> QED
  BY <1>5, <1>6, Zenon

LEMMA FlattenType ==
  ASSUME NEW A, NEW seqs \in Seq(Seq(A))
  PROVE  FlattenSeq(seqs) \in Seq(A)
<1>1. CASE Len(seqs) = 0
  <2>1. seqs = <<>>
    BY <1>1
  <2> QED
    BY <1>1, <2>1 DEF FlattenSeq
<1>2. CASE Len(seqs) # 0
  <2>1. PICK F : /\ F = [i \in 1 .. Len(seqs) |-> Flattened(F, seqs, i)]
                 /\ FlattenSeq(seqs) = F[Len(seqs)]
    BY <1>2, FlattenFunction
  <2>2. \A i \in 1 .. Len(seqs) : F[i] = Flattened(F, seqs, i)
    BY <2>1
  <2> DEFINE P == {i \in Nat : i \in 1 .. Len(seqs) => F[i] \in Seq(A)}
  <2>3. ASSUME NEW n \in Nat, \A m \in 0 .. n - 1 : m \in P
        PROVE  n \in P
    <3> SUFFICES ASSUME n \in 1 .. Len(seqs) PROVE F[n] \in Seq(A)
      OBVIOUS
    <3>1. seqs[n] \in Seq(A) /\ F[n] = Flattened(F, seqs, n)
      BY <2>2
    <3>2. CASE n = 1
      BY <3>1, <3>2 DEF Flattened
    <3>3. CASE n # 1
      <4>1. PICK front \in Seq(A) : front = F[n - 1]
        BY <2>3, <3>3
      <4>2. F[n] = front \o seqs[n]
        BY <3>1, <3>3, <4>1 DEF Flattened
      <4> QED
        BY <3>1, <4>2
    <3> QED
      BY <3>2, <3>3
  <2>4. Len(seqs) \in P
    <3> HIDE DEF P
    <3> QED
      BY <2>3, NatInduct
  <2> QED
    BY <1>2, <2>1, <2>4
<1> QED
  BY <1>1, <1>2

\* One more sequence is joined to the others.
LEMMA FlattenOneMore ==
  ASSUME NEW A, NEW f \in Seq(Seq(A)), NEW g \in Seq(Seq(A)), Len(g) = Len(f) + 1,
         \A i \in 1 .. Len(f) : g[i] = f[i]
  PROVE  FlattenSeq(g) = FlattenSeq(f) \o g[Len(g)]
<1>1. Len(f) \in Nat /\ Len(g) # 0
  OBVIOUS
<1>2. PICK G : /\ G = [i \in 1 .. Len(g) |-> Flattened(G, g, i)]
               /\ FlattenSeq(g) = G[Len(g)]
  BY <1>1, FlattenFunction
<1>3. \A i \in 1 .. Len(g) : G[i] = Flattened(G, g, i)
  BY <1>2
<1>4. CASE Len(f) = 0
  <2>1. FlattenSeq(f) = <<>>
    BY <1>4, f = <<>> DEF FlattenSeq
  <2>2. FlattenSeq(g) = g[1] /\ g[1] \in Seq(A) /\ Len(g) = 1
    BY <1>2, <1>3, <1>4 DEF Flattened
  <2> QED
    BY <2>1, <2>2
<1>5. CASE Len(f) # 0
  <2>1. PICK F : /\ F = [i \in 1 .. Len(f) |-> Flattened(F, f, i)]
                 /\ FlattenSeq(f) = F[Len(f)]
    BY <1>5, FlattenFunction
  <2>2. \A i \in 1 .. Len(f) : F[i] = Flattened(F, f, i)
    BY <2>1
  <2> DEFINE P == {n \in Nat : n \in 1 .. Len(f) => F[n] = G[n]}
  <2>3. ASSUME NEW n \in Nat, \A m \in 0 .. n - 1 : m \in P
        PROVE  n \in P
    <3> SUFFICES ASSUME n \in 1 .. Len(f) PROVE F[n] = G[n]
      OBVIOUS
    <3>1. F[n] = Flattened(F, f, n) /\ G[n] = Flattened(G, g, n) /\ f[n] = g[n]
      BY <1>3, <2>2
    <3>2. n # 1 => F[n - 1] = G[n - 1]
      BY <2>3
    <3> QED
      BY <3>1, <3>2 DEF Flattened
  <2>4. \A n \in Nat : n \in P
    <3> HIDE DEF P
    <3> QED
      BY <2>3, NatInduct
  <2>5. F[Len(f)] = G[Len(f)]
    BY <1>1, <1>5, <2>4
  <2>6. G[Len(g)] = G[Len(f)] \o g[Len(g)]
    <3>1. Len(g) \in 1 .. Len(g) /\ Len(g) # 1 /\ Len(g) - 1 = Len(f)
      BY <1>1, <1>5
    <3> QED
      BY <1>3, <3>1 DEF Flattened
  <2> QED
    BY <1>2, <2>1, <2>5, <2>6
<1> QED
  BY <1>4, <1>5

-----------------------------------------------------------------------------
(***************************************************************************)
(* The search for a number (IsMatchByKmp).                                 *)
(***************************************************************************)

\* The first k elements of the text end with the first j of the input.
EndsWith(text, k, input, j) ==
  j \in 0 .. k /\ \A m \in 1 .. j : text[k - j + m] = input[m]

\* No more of the input can end there, if it starts after the place from.
Longest(text, from, k, input, j) ==
  /\ EndsWith(text, k, input, j) /\ j <= k - from /\ j <= Len(input)
  /\ \A i \in 0 .. Len(input) : i <= k - from /\ EndsWith(text, k, input, i) => i <= j

\* The first j entries of the table: each falls, and is correct.
Falls(buf, j) == \A i \in 1 .. j : buf[i] \in 0 .. i - 1

Correct(buf, input, j) ==
  \A i \in 1 .. j : buf[i] \in 0 .. i - 1 /\ Longest(input, 1, i, input, buf[i])

\* What ends the text and is no longer than j ends the first j of the input.
LEMMA EndsWithPart ==
  ASSUME NEW text, NEW k \in Nat, NEW input, NEW j \in Nat, NEW i \in 0 .. j,
         EndsWith(text, k, input, j)
  PROVE  EndsWith(text, k, input, i) <=> EndsWith(input, j, input, i)
<1>1. j <= k /\ \A m \in 1 .. j : text[k - j + m] = input[m]
  BY DEF EndsWith
<1>2. ASSUME NEW m \in 1 .. i
      PROVE  text[k - i + m] = input[j - i + m]
  <2>1. j - i + m \in 1 .. j /\ k - j + (j - i + m) = k - i + m
    OBVIOUS
  <2> QED
    BY <1>1, <2>1
<1>3. i \in 0 .. k
  BY <1>1
<1> QED
  BY <1>2, <1>3 DEF EndsWith

\* The recursion of Fall is well defined.
FallsTo(F, buf, input, c, i) == IF i > 0 /\ input[i + 1] # c THEN F[buf[i]] ELSE i

IsFall(F, buf, input, j, c) ==
  /\ \A i \in 0 .. j : F[i] = FallsTo(F, buf, input, c, i)
  /\ Fall(buf, input, j, c) = F[j]

LEMMA FallFunction ==
  ASSUME NEW buf, NEW input, NEW j \in Nat, NEW c, Falls(buf, j)
  PROVE  \E F : IsFall(F, buf, input, j, c)
<1> DEFINE D == 0 .. j
           G == [g \in [D -> Nat] |-> [i \in D |-> FallsTo(g, buf, input, c, i)]]
           rank == [i \in D |-> i]
<1>1. \A g, h \in [D -> Nat], x \in D :
        (\A y \in D : rank[y] < rank[x] => g[y] = h[y]) =>
          FallsTo(g, buf, input, c, x) \in Nat
            /\ FallsTo(g, buf, input, c, x) = FallsTo(h, buf, input, c, x)
  <2> SUFFICES ASSUME NEW g \in [D -> Nat], NEW h \in [D -> Nat], NEW x \in D,
                      \A y \in D : rank[y] < rank[x] => g[y] = h[y]
               PROVE  /\ FallsTo(g, buf, input, c, x) \in Nat
                      /\ FallsTo(g, buf, input, c, x) = FallsTo(h, buf, input, c, x)
    OBVIOUS
  <2>1. CASE x = 0
    BY <2>1 DEF FallsTo
  <2>2. CASE x > 0
    <3>1. buf[x] \in D /\ rank[buf[x]] < rank[x]
      BY <2>2 DEF Falls
    <3>2. g[buf[x]] = h[buf[x]] /\ g[buf[x]] \in Nat /\ x \in Nat
      BY <3>1
    <3> HIDE DEF D, rank
    <3> QED
      BY <3>2 DEF FallsTo
  <2> QED
    BY <2>1, <2>2
<1>2. Recursion(D, Nat, rank, j, rank, G)
  <2>1. rank \in [D -> 0 .. j] /\ rank \in [D -> Nat]
    OBVIOUS
  <2>2. G \in [[D -> Nat] -> [D -> Nat]]
    BY <1>1
  <2>3. \A g, h \in [D -> Nat], x \in D :
          (\A y \in D : rank[y] < rank[x] => g[y] = h[y]) => G[g][x] = G[h][x]
    BY <1>1
  <2> HIDE DEF D, G, rank
  <2> QED
    BY <2>1, <2>2, <2>3 DEF Recursion
<1>3. \E F : F = [i \in D |-> FallsTo(F, buf, input, c, i)]
  <2>1. \E F \in [D -> Nat] : F = G[F]
    <3> HIDE DEF D, G, rank
    <3> QED
      BY <1>2, RecursiveFunction
  <2> QED
    BY <2>1
<1>4. PICK F : F = (CHOOSE H : H = [i \in 0 .. j |-> FallsTo(H, buf, input, c, i)])
  OBVIOUS
<1>5. F = [i \in 0 .. j |-> FallsTo(F, buf, input, c, i)]
  BY <1>3, <1>4, Zenon
<1>6. Fall(buf, input, j, c) = F[j]
  BY <1>4, Zenon DEF Fall, FallsTo
<1>7. \A i \in 0 .. j : F[i] = FallsTo(F, buf, input, c, i)
  BY <1>5
<1> QED
  BY <1>6, <1>7 DEF IsFall

\* Fall never goes up, and Advance goes up by one at most.
LEMMA AdvanceType ==
  ASSUME NEW buf, NEW input, NEW j \in Nat, NEW c, Falls(buf, j)
  PROVE  Fall(buf, input, j, c) \in 0 .. j /\ Advance(buf, input, j, c) \in 0 .. j + 1
<1>1. PICK F : IsFall(F, buf, input, j, c)
  BY FallFunction
<1>2. \A i \in 0 .. j : F[i] = FallsTo(F, buf, input, c, i)
  BY <1>1 DEF IsFall
<1> DEFINE P == {i \in Nat : i <= j => F[i] \in 0 .. i}
<1>3. ASSUME NEW n \in Nat, \A m \in 0 .. n - 1 : m \in P
      PROVE  n \in P
  <2> SUFFICES ASSUME n <= j PROVE F[n] \in 0 .. n
    OBVIOUS
  <2>1. F[n] = FallsTo(F, buf, input, c, n)
    BY <1>2
  <2>2. n > 0 => buf[n] \in 0 .. n - 1 /\ F[buf[n]] \in 0 .. buf[n]
    BY <1>3 DEF Falls
  <2> QED
    BY <2>1, <2>2 DEF FallsTo
<1>4. F[j] \in 0 .. j
  <2>1. j \in P
    <3> HIDE DEF P
    <3> QED
      BY <1>3, NatInduct
  <2> QED
    BY <2>1
<1> QED
  BY <1>1, <1>4 DEF Advance, IsFall

\* One character more ends the text with one more of the input.
EndGoesOn(text, k, input, i) ==
  EndsWith(text, k + 1, input, i + 1)
    <=> EndsWith(text, k, input, i) /\ text[k + 1] = input[i + 1]

LEMMA EndsWithOneMore ==
  ASSUME NEW text, NEW k \in Nat, NEW input, NEW i \in Nat
  PROVE  EndGoesOn(text, k, input, i)
<1>1. \A m \in 1 .. i : m \in 1 .. i + 1 /\ k + 1 - (i + 1) + m = k - i + m
  OBVIOUS
<1>2. \A m \in 1 .. i + 1 : m \in 1 .. i \/ m = i + 1
  OBVIOUS
<1>3. k + 1 - (i + 1) + (i + 1) = k + 1 /\ i + 1 \in 1 .. i + 1
  OBVIOUS
<1>4. i + 1 \in 0 .. k + 1 <=> i \in 0 .. k
  OBVIOUS
<1>5. ASSUME EndsWith(text, k + 1, input, i + 1)
      PROVE  EndsWith(text, k, input, i) /\ text[k + 1] = input[i + 1]
  BY <1>1, <1>3, <1>4, <1>5 DEF EndsWith
<1>6. ASSUME EndsWith(text, k, input, i), text[k + 1] = input[i + 1]
      PROVE  EndsWith(text, k + 1, input, i + 1)
  <2>1. \A m \in 1 .. i : text[k + 1 - (i + 1) + m] = input[m]
    BY <1>1, <1>6 DEF EndsWith
  <2>2. text[k + 1 - (i + 1) + (i + 1)] = input[i + 1]
    BY <1>3, <1>6
  <2>3. i + 1 \in 0 .. k + 1
    BY <1>4, <1>6 DEF EndsWith
  <2> QED
    BY <1>2, <2>1, <2>2, <2>3 DEF EndsWith
<1> QED
  BY <1>5, <1>6 DEF EndGoesOn

\* Fall finds the longest match before j that the character continues.
FallIsLongest(input, j, c, r) ==
  /\ r \in 0 .. j /\ EndsWith(input, j, input, r)
  /\ r = 0 \/ input[r + 1] = c
  /\ \A i \in 0 .. j : EndsWith(input, j, input, i) /\ input[i + 1] = c => i <= r

LEMMA FallResult ==
  ASSUME NEW buf, NEW input, NEW j \in Nat, NEW c, Len(input) \in Nat,
         j < Len(input), Correct(buf, input, j)
  PROVE  FallIsLongest(input, j, c, Fall(buf, input, j, c))
<1>1. PICK F : IsFall(F, buf, input, j, c)
  BY FallFunction DEF Falls, Correct
<1> DEFINE P == {n \in Nat : n <= j => FallIsLongest(input, n, c, F[n])}
<1>2. ASSUME NEW n \in Nat, \A m \in 0 .. n - 1 : m \in P
      PROVE  n \in P
  <2> SUFFICES ASSUME n <= j PROVE FallIsLongest(input, n, c, F[n])
    OBVIOUS
  <2>1. F[n] = FallsTo(F, buf, input, c, n)
    BY <1>1 DEF IsFall
  <2>2. CASE n > 0 /\ input[n + 1] # c
    <3>1. PICK b \in 0 .. n - 1 : b = buf[n] /\ Longest(input, 1, n, input, b)
      BY <2>2 DEF Correct
    <3>2. F[n] = F[b]
      BY <2>1, <2>2, <3>1 DEF FallsTo
    <3>3. FallIsLongest(input, b, c, F[b])
      BY <1>2, <3>1
    <3>4. PICK r \in 0 .. b : r = F[b]
      BY <3>3 DEF FallIsLongest
    <3>5. \A i \in 0 .. b : EndsWith(input, n, input, i) <=> EndsWith(input, b, input, i)
      BY <3>1, EndsWithPart DEF Longest
    <3>6. \A i \in 0 .. n : EndsWith(input, n, input, i) /\ input[i + 1] = c => i \in 0 .. b
      <4> SUFFICES ASSUME NEW i \in 0 .. n, EndsWith(input, n, input, i), input[i + 1] = c
                   PROVE  i <= b
        BY <3>1
      <4>1. i # n
        BY <2>2
      <4> QED
        BY <3>1, <4>1 DEF Longest
    <3>7. FallIsLongest(input, b, c, r)
      BY <3>3, <3>4
    <3>8. FallIsLongest(input, n, c, r)
      BY <3>1, <3>5, <3>6, <3>7 DEF FallIsLongest
    <3> QED
      BY <3>2, <3>4, <3>8
  <2>3. CASE n = 0 \/ input[n + 1] = c
    <3>1. F[n] = n
      BY <2>1, <2>3 DEF FallsTo
    <3>2. EndsWith(input, n, input, n)
      BY DEF EndsWith
    <3>3. FallIsLongest(input, n, c, n)
      BY <2>3, <3>2 DEF FallIsLongest
    <3> QED
      BY <3>1, <3>3
  <2> QED
    BY <2>2, <2>3
<1>3. j \in P
  <2> HIDE DEF P
  <2> QED
    BY <1>2, NatInduct
<1> QED
  BY <1>1, <1>3 DEF IsFall

\* Advance keeps track of the longest match when the text goes on.
LEMMA AdvanceResult ==
  ASSUME NEW buf, NEW input, NEW j \in Nat, Len(input) \in Nat,
         j < Len(input), Correct(buf, input, j),
         NEW text, NEW from \in Nat, NEW k \in Nat, Longest(text, from, k, input, j)
  PROVE  Longest(text, from, k + 1, input, Advance(buf, input, j, text[k + 1]))
<1> DEFINE c == text[k + 1]
<1>1. PICK r \in 0 .. j : r = Fall(buf, input, j, c) /\ FallIsLongest(input, j, c, r)
  <2>1. FallIsLongest(input, j, c, Fall(buf, input, j, c))
    BY FallResult
  <2> QED
    BY <2>1 DEF FallIsLongest
<1>2. EndsWith(text, k, input, j) /\ j <= k - from
  BY DEF Longest
<1>3. \A i \in 0 .. j : EndsWith(text, k, input, i) <=> EndsWith(input, j, input, i)
  BY <1>2, EndsWithPart
<1>4. ASSUME NEW i \in 0 .. Len(input), i <= k + 1 - from,
             EndsWith(text, k + 1, input, i), i # 0
      PROVE  i - 1 <= r /\ input[i] = c
  <2>1. PICK h \in Nat : i = h + 1
    <3>1. i - 1 \in Nat /\ i = (i - 1) + 1
      BY <1>4
    <3> QED
      BY <3>1, Zenon
  <2>2. EndsWith(text, k, input, h) /\ c = input[h + 1]
    <3>1. EndsWith(text, k + 1, input, h + 1)
      BY <1>4, <2>1, Zenon
    <3>2. EndGoesOn(text, k, input, h)
      BY EndsWithOneMore
    <3> QED
      BY <3>1, <3>2 DEF EndGoesOn
  <2>3. h <= j
    BY <1>4, <2>1, <2>2 DEF Longest
  <2>4. EndsWith(input, j, input, h)
    BY <1>3, <2>2, <2>3
  <2>5. h <= r
    BY <1>1, <2>2, <2>3, <2>4 DEF FallIsLongest
  <2> QED
    BY <2>1, <2>2, <2>5
<1>5. CASE input[r + 1] = c
  <2>1. Advance(buf, input, j, c) = r + 1
    BY <1>1, <1>5 DEF Advance
  <2>2. EndsWith(text, k + 1, input, r + 1)
    <3>1. EndsWith(text, k, input, r) /\ r \in Nat
      BY <1>1, <1>3 DEF FallIsLongest
    <3>2. EndGoesOn(text, k, input, r)
      BY <3>1, EndsWithOneMore
    <3> QED
      BY <1>5, <3>1, <3>2 DEF EndGoesOn
  <2>3. \A i \in 0 .. Len(input) :
          i <= k + 1 - from /\ EndsWith(text, k + 1, input, i) => i <= r + 1
    BY <1>4
  <2>4. r + 1 <= k + 1 - from /\ r + 1 <= Len(input)
    BY <1>2
  <2> HIDE DEF c
  <2>5. Longest(text, from, k + 1, input, r + 1)
    BY <2>2, <2>3, <2>4 DEF Longest
  <2> QED
    BY <2>1, <2>5 DEF c
<1>6. CASE input[r + 1] # c
  <2>1. r = 0
    BY <1>1, <1>6 DEF FallIsLongest
  <2>2. Advance(buf, input, j, c) = 0
    BY <1>1, <1>6, <2>1 DEF Advance
  <2>3. EndsWith(text, k + 1, input, 0)
    BY DEF EndsWith
  <2>4. \A i \in 0 .. Len(input) :
          i <= k + 1 - from /\ EndsWith(text, k + 1, input, i) => i <= 0
    <3> SUFFICES ASSUME NEW i \in 0 .. Len(input), i <= k + 1 - from,
                        EndsWith(text, k + 1, input, i), i # 0
                 PROVE  FALSE
      OBVIOUS
    <3>1. i - 1 <= 0 /\ input[i] = c
      BY <1>4, <2>1
    <3>2. i = r + 1
      BY <2>1, <3>1
    <3> QED
      BY <1>6, <3>1, <3>2
  <2>5. 0 <= k + 1 - from /\ 0 <= Len(input)
    BY <1>2
  <2> HIDE DEF c
  <2>6. Longest(text, from, k + 1, input, 0)
    BY <2>3, <2>4, <2>5 DEF Longest
  <2> QED
    BY <2>2, <2>6 DEF c
<1> QED
  BY <1>5, <1>6

\* The recursion of KmpBuf is well defined.
TableTo(F, input, n) ==
  IF n = 1 THEN <<0>>
  ELSE Append(F[n - 1], Advance(F[n - 1], input, Last(F[n - 1]), input[n]))

IsTable(F, input) ==
  /\ \A n \in 1 .. Len(input) : F[n] = TableTo(F, input, n)
  /\ KmpBuf(input) = F[Len(input)]

GrownTable(t, buf, input, c) ==
  /\ t \in Seq(Nat) /\ t # <<>> /\ Falls(t, Len(t))
  /\ Len(t) = Len(buf) + 1 /\ t[Len(t)] = Advance(buf, input, Last(buf), c)
  /\ \A i \in 1 .. Len(buf) : t[i] = buf[i]

LEMMA TableGrows ==
  ASSUME NEW buf \in Seq(Nat), buf # <<>>, Falls(buf, Len(buf)), NEW input, NEW c,
         NEW t, t = Append(buf, Advance(buf, input, Last(buf), c))
  PROVE  GrownTable(t, buf, input, c)
<1>1. Len(buf) \in Nat \ {0} /\ Last(buf) = buf[Len(buf)]
  BY DEF Last
<1>2. Last(buf) \in 0 .. Len(buf) - 1
  BY <1>1 DEF Falls
<1>3. Falls(buf, Last(buf))
  BY <1>1, <1>2 DEF Falls
<1>4. PICK x \in 0 .. Last(buf) + 1 : x = Advance(buf, input, Last(buf), c)
  BY <1>2, <1>3, AdvanceType
<1>5. x \in Nat /\ x < Len(buf) + 1 /\ t = Append(buf, x)
  BY <1>1, <1>2, <1>4
<1>6. t \in Seq(Nat) /\ Len(t) = Len(buf) + 1 /\ t[Len(buf) + 1] = x
  BY <1>5
<1>7. \A i \in 1 .. Len(buf) : t[i] = buf[i]
  BY <1>5
<1>8. Falls(t, Len(t))
  <2> SUFFICES ASSUME NEW i \in 1 .. Len(t) PROVE t[i] \in 0 .. i - 1
    BY DEF Falls
  <2>1. CASE i = Len(buf) + 1
    BY <1>1, <1>5, <1>6, <2>1
  <2>2. CASE i \in 1 .. Len(buf)
    BY <1>7, <2>2 DEF Falls
  <2> QED
    BY <1>1, <1>6, <2>1, <2>2
<1> QED
  BY <1>1, <1>4, <1>6, <1>7, <1>8 DEF GrownTable

LEMMA TableFunction ==
  ASSUME NEW A, NEW input \in Seq(A), input # <<>>
  PROVE  \E F : IsTable(F, input)
<1> DEFINE D == 1 .. Len(input)
           V == {buf \in Seq(Nat) : buf # <<>> /\ Falls(buf, Len(buf))}
           G == [g \in [D -> V] |-> [n \in D |-> TableTo(g, input, n)]]
           rank == [n \in D |-> n]
           f0 == [n \in D |-> <<0>>]
<1>1. <<0>> \in V
  BY DEF Falls
<1>2. \A g, h \in [D -> V], x \in D :
        (\A y \in D : rank[y] < rank[x] => g[y] = h[y]) =>
          TableTo(g, input, x) \in V /\ TableTo(g, input, x) = TableTo(h, input, x)
  <2> SUFFICES ASSUME NEW g \in [D -> V], NEW h \in [D -> V], NEW x \in D,
                      \A y \in D : rank[y] < rank[x] => g[y] = h[y]
               PROVE  /\ TableTo(g, input, x) \in V
                      /\ TableTo(g, input, x) = TableTo(h, input, x)
    OBVIOUS
  <2>1. CASE x = 1
    BY <1>1, <2>1 DEF TableTo
  <2>2. CASE x # 1
    <3>1. x - 1 \in D /\ rank[x - 1] < rank[x]
      BY <2>2
    <3>2. g[x - 1] = h[x - 1] /\ g[x - 1] \in V
      <4> HIDE DEF V, D, rank
      <4> QED
        BY <3>1
    <3>3. PICK buf \in Seq(Nat) : buf = g[x - 1] /\ buf # <<>> /\ Falls(buf, Len(buf))
      BY <3>2
    <3>4. PICK t : t = Append(buf, Advance(buf, input, Last(buf), input[x]))
      OBVIOUS
    <3>5. t \in V
      BY <3>3, <3>4, TableGrows DEF GrownTable
    <3> HIDE DEF V, D, rank
    <3>6. TableTo(g, input, x) = t /\ TableTo(h, input, x) = t
      BY <2>2, <3>2, <3>3, <3>4 DEF TableTo
    <3> QED
      BY <3>5, <3>6
  <2> QED
    BY <2>1, <2>2
<1>3. Recursion(D, V, f0, Len(input), rank, G)
  <2>1. Len(input) \in Nat /\ rank \in [D -> 0 .. Len(input)]
    OBVIOUS
  <2>2. f0 \in [D -> V]
    <3> HIDE DEF V, D
    <3> QED
      BY <1>1
  <2>3. G \in [[D -> V] -> [D -> V]]
    <3> HIDE DEF V, D, rank
    <3> QED
      BY <1>2
  <2>4. \A g, h \in [D -> V], x \in D :
          (\A y \in D : rank[y] < rank[x] => g[y] = h[y]) => G[g][x] = G[h][x]
    <3> HIDE DEF V, D, rank
    <3> QED
      BY <1>2
  <2> HIDE DEF D, V, G, rank, f0
  <2> QED
    BY <2>1, <2>2, <2>3, <2>4 DEF Recursion
<1>4. \E F : F = [n \in D |-> TableTo(F, input, n)]
  <2>1. \E F \in [D -> V] : F = G[F]
    <3> HIDE DEF D, V, G, rank, f0
    <3> QED
      BY <1>3, RecursiveFunction
  <2> HIDE DEF D, V
  <2> QED
    BY <2>1
<1>5. DOMAIN input = 1 .. Len(input)
  OBVIOUS
<1>6. PICK F : F = (CHOOSE H : H = [n \in 1 .. Len(input) |-> TableTo(H, input, n)])
  OBVIOUS
<1>7. F = [n \in 1 .. Len(input) |-> TableTo(F, input, n)]
  BY <1>4, <1>6, Zenon
<1>8. KmpBuf(input) = F[Len(input)]
  BY <1>5, <1>6, Zenon DEF KmpBuf, TableTo
<1>9. \A n \in 1 .. Len(input) : F[n] = TableTo(F, input, n)
  BY <1>7
<1> QED
  BY <1>8, <1>9 DEF IsTable

\* The table that KmpBuf makes is correct.
LEMMA TableResult ==
  ASSUME NEW A, NEW input \in Seq(A), input # <<>>
  PROVE  Falls(KmpBuf(input), Len(input)) /\ Correct(KmpBuf(input), input, Len(input))
<1>1. PICK F : IsTable(F, input)
  BY TableFunction
<1> DEFINE Good(buf, n) == /\ buf \in Seq(Nat) /\ Len(buf) = n
                           /\ Falls(buf, n) /\ Correct(buf, input, n)
           P == {n \in Nat : n \in 1 .. Len(input) => Good(F[n], n)}
<1>2. ASSUME NEW n \in Nat, \A m \in 0 .. n - 1 : m \in P
      PROVE  n \in P
  <2> SUFFICES ASSUME n \in 1 .. Len(input) PROVE Good(F[n], n)
    OBVIOUS
  <2>1. F[n] = TableTo(F, input, n)
    BY <1>1 DEF IsTable
  <2>2. CASE n = 1
    <3>1. F[n] = <<0>>
      BY <2>1, <2>2 DEF TableTo
    <3>2. EndsWith(input, 1, input, 0)
      BY DEF EndsWith
    <3>3. Longest(input, 1, 1, input, 0)
      BY <3>2 DEF Longest
    <3>4. Falls(<<0>>, 1) /\ Correct(<<0>>, input, 1)
      BY <3>3 DEF Falls, Correct
    <3> QED
      BY <2>2, <3>1, <3>4
  <2>3. CASE n # 1
    <3>1. PICK k \in Nat : k = n - 1 /\ k \in 1 .. Len(input) /\ k \in 0 .. n - 1
      BY <2>3
    <3>2. PICK buf \in Seq(Nat) : buf = F[k] /\ Good(buf, k)
      BY <1>2, <3>1
    <3>3. PICK t : t = Append(buf, Advance(buf, input, Last(buf), input[k + 1]))
      OBVIOUS
    <3>4. F[n] = t
      BY <2>1, <2>3, <3>1, <3>2, <3>3 DEF TableTo
    <3>5. buf # <<>>
      BY <3>1, <3>2
    <3>6. /\ t \in Seq(Nat) /\ Falls(t, n) /\ Len(t) = n
          /\ t[n] = Advance(buf, input, Last(buf), input[k + 1])
          /\ \A i \in 1 .. k : t[i] = buf[i]
      <4>1. Falls(buf, Len(buf)) /\ Len(buf) = k /\ k + 1 = n
        BY <3>1, <3>2
      <4>2. /\ t \in Seq(Nat) /\ t # <<>> /\ Falls(t, Len(t))
            /\ Len(t) = Len(buf) + 1
            /\ t[Len(t)] = Advance(buf, input, Last(buf), input[k + 1])
            /\ \A i \in 1 .. Len(buf) : t[i] = buf[i]
        <5>1. GrownTable(t, buf, input, input[k + 1])
          BY <3>3, <3>5, <4>1, TableGrows
        <5> QED
          BY <5>1 DEF GrownTable
      <4> QED
        BY <4>1, <4>2
    <3>7. PICK j \in Nat : j = Last(buf) /\ j < k /\ Longest(input, 1, k, input, j)
      BY <3>1, <3>2 DEF Last, Correct
    <3>8. Correct(buf, input, j)
      BY <3>2, <3>7 DEF Correct
    <3>9. Longest(input, 1, k + 1, input, Advance(buf, input, j, input[k + 1]))
      BY <3>1, <3>7, <3>8, AdvanceResult
    <3>10. Longest(input, 1, n, input, t[n])
      BY <3>1, <3>6, <3>7, <3>9
    <3>11. Correct(t, input, n)
      <4> SUFFICES ASSUME NEW i \in 1 .. n
                   PROVE  t[i] \in 0 .. i - 1 /\ Longest(input, 1, i, input, t[i])
        BY DEF Correct
      <4>1. CASE i = n
        BY <3>6, <3>10, <4>1 DEF Falls
      <4>2. CASE i # n
        <5>1. i \in 1 .. k /\ Correct(buf, input, k)
          BY <3>1, <3>2, <4>2
        <5>2. buf[i] \in 0 .. i - 1 /\ Longest(input, 1, i, input, buf[i])
          BY <5>1 DEF Correct
        <5>3. t[i] = buf[i]
          BY <3>6, <5>1
        <5> QED
          BY <5>2, <5>3
      <4> QED
        BY <4>1, <4>2
    <3> QED
      BY <3>4, <3>6, <3>11
  <2> QED
    BY <2>2, <2>3
<1>3. Len(input) \in P
  <2> HIDE DEF P
  <2> QED
    BY <1>2, NatInduct
<1> QED
  BY <1>1, <1>3 DEF IsTable

\* The recursion of KmpEnd is well defined.
MatchedTo(F, iKmpBuf, text, input, i) ==
  IF i = 0 \/ input = <<>> THEN 0
  ELSE IF F[i - 1] = Len(input) THEN F[i - 1]
  ELSE Advance(iKmpBuf, input, F[i - 1], text[i])

IsMatched(F, text, input) ==
  /\ \A i \in 0 .. Len(text) : F[i] = MatchedTo(F, KmpBuf(input), text, input, i)
  /\ LET ends == {i \in DOMAIN text : F[i] = Len(input)}
     IN KmpEnd(text, input) = IF ends = {} THEN 0 ELSE Min(ends)

LEMMA MatchedFunction ==
  ASSUME NEW A, NEW text \in Seq(A), NEW B, NEW input \in Seq(B), input # <<>>
  PROVE  \E F : IsMatched(F, text, input)
<1> DEFINE D == 0 .. Len(text)
           V == 0 .. Len(input)
           E(g, i) == MatchedTo(g, KmpBuf(input), text, input, i)
           G == [g \in [D -> V] |-> [i \in D |-> E(g, i)]]
           rank == [i \in D |-> i]
           f0 == [i \in D |-> 0]
<1>1. \A g, h \in [D -> V], x \in D :
        (\A y \in D : rank[y] < rank[x] => g[y] = h[y]) =>
          E(g, x) \in V /\ E(g, x) = E(h, x)
  <2> SUFFICES ASSUME NEW g \in [D -> V], NEW h \in [D -> V], NEW x \in D,
                      \A y \in D : rank[y] < rank[x] => g[y] = h[y]
               PROVE  E(g, x) \in V /\ E(g, x) = E(h, x)
    OBVIOUS
  <2>1. CASE x = 0
    BY <2>1 DEF MatchedTo
  <2>2. CASE x # 0
    <3>1. x - 1 \in D /\ rank[x - 1] < rank[x]
      BY <2>2
    <3>2. PICK j \in V : j = g[x - 1] /\ j = h[x - 1]
      <4> HIDE DEF V, D, rank
      <4> QED
        BY <3>1
    <3>3. j # Len(input) => Advance(KmpBuf(input), input, j, text[x]) \in V
      <4> SUFFICES ASSUME j # Len(input)
                   PROVE  Advance(KmpBuf(input), input, j, text[x]) \in V
        OBVIOUS
      <4>1. Falls(KmpBuf(input), j)
        BY TableResult DEF Falls
      <4>2. Advance(KmpBuf(input), input, j, text[x]) \in 0 .. j + 1
        BY <4>1, AdvanceType
      <4> QED
        BY <4>2
    <3> HIDE DEF V, D, rank
    <3>4. E(g, x) = IF j = Len(input) THEN j ELSE Advance(KmpBuf(input), input, j, text[x])
      BY <2>2, <3>2 DEF MatchedTo
    <3>5. E(h, x) = IF j = Len(input) THEN j ELSE Advance(KmpBuf(input), input, j, text[x])
      BY <2>2, <3>2 DEF MatchedTo
    <3> HIDE DEF E
    <3> QED
      BY <3>3, <3>4, <3>5
  <2> QED
    BY <2>1, <2>2
<1>2. Recursion(D, V, f0, Len(text), rank, G)
  <2>1. Len(text) \in Nat /\ rank \in [D -> 0 .. Len(text)]
    OBVIOUS
  <2>2. f0 \in [D -> V]
    OBVIOUS
  <2>3. G \in [[D -> V] -> [D -> V]]
    <3> HIDE DEF V, D, rank, E
    <3> QED
      BY <1>1
  <2>4. \A g, h \in [D -> V], x \in D :
          (\A y \in D : rank[y] < rank[x] => g[y] = h[y]) => G[g][x] = G[h][x]
    <3> HIDE DEF V, D, rank, E
    <3> QED
      BY <1>1
  <2> HIDE DEF D, V, G, rank, f0
  <2> QED
    BY <2>1, <2>2, <2>3, <2>4 DEF Recursion
<1>3. \E F : F = [i \in D |-> E(F, i)]
  <2>1. \E F \in [D -> V] : F = G[F]
    <3> HIDE DEF D, V, G, rank, f0
    <3> QED
      BY <1>2, RecursiveFunction
  <2> HIDE DEF D, V, E
  <2> QED
    BY <2>1
<1>4. PICK F : F = (CHOOSE H : H = [i \in 0 .. Len(text) |-> E(H, i)])
  OBVIOUS
<1>5. F = [i \in 0 .. Len(text) |-> E(F, i)]
  BY <1>3, <1>4, Zenon
<1>6. LET ends == {i \in DOMAIN text : F[i] = Len(input)}
      IN KmpEnd(text, input) = IF ends = {} THEN 0 ELSE Min(ends)
  BY <1>4, Zenon DEF KmpEnd, MatchedTo
<1>7. \A i \in 0 .. Len(text) : F[i] = E(F, i)
  <2> HIDE DEF E
  <2> QED
    BY <1>5
<1> QED
  BY <1>6, <1>7 DEF IsMatched

\* KmpEnd is the first place where the whole input ends the text, 0 if none.
LEMMA KmpEndResult ==
  ASSUME NEW A, NEW text \in Seq(A), NEW B, NEW input \in Seq(B), input # <<>>
  PROVE  /\ KmpEnd(text, input) \in 0 .. Len(text)
         /\ KmpEnd(text, input) = 0 =>
              \A k \in 1 .. Len(text) : ~EndsWith(text, k, input, Len(input))
         /\ KmpEnd(text, input) # 0 =>
              EndsWith(text, KmpEnd(text, input), input, Len(input))
<1>1. PICK F : IsMatched(F, text, input)
  BY MatchedFunction
<1> DEFINE size == Len(input)
           Found(i) == \E k \in 1 .. i : EndsWith(text, k, input, size)
           P == {i \in Nat : i \in 0 .. Len(text) =>
                   /\ F[i] = size <=> Found(i)
                   /\ F[i] # size => Longest(text, 0, i, input, F[i])}
<1>2. size \in Nat \ {0} /\ Len(text) \in Nat
  OBVIOUS
<1>3. ASSUME NEW i \in Nat, \A m \in 0 .. i - 1 : m \in P
      PROVE  i \in P
  <2> SUFFICES ASSUME i \in 0 .. Len(text)
               PROVE  /\ F[i] = size <=> Found(i)
                      /\ F[i] # size => Longest(text, 0, i, input, F[i])
    OBVIOUS
  <2>1. F[i] = MatchedTo(F, KmpBuf(input), text, input, i)
    BY <1>1 DEF IsMatched
  <2>2. CASE i = 0
    <3>1. F[i] = 0
      BY <2>1, <2>2 DEF MatchedTo
    <3>2. EndsWith(text, 0, input, 0)
      BY DEF EndsWith
    <3>3. Longest(text, 0, 0, input, 0)
      BY <1>2, <3>2 DEF Longest
    <3> QED
      BY <1>2, <2>2, <3>1, <3>3
  <2>3. CASE i # 0
    <3>1. PICK k \in Nat : k = i - 1 /\ i = k + 1 /\ k \in 0 .. Len(text) /\ k \in P
      BY <1>3, <2>3
    <3>2. \A m \in 1 .. i : m \in 1 .. k \/ m = i
      BY <3>1
    <3>3. CASE F[k] = size
      <4>1. F[i] = size
        BY <2>1, <2>3, <3>1, <3>3 DEF MatchedTo
      <4>2. Found(i)
        BY <3>1, <3>3
      <4> QED
        BY <4>1, <4>2
    <3>4. CASE F[k] # size
      <4>1. PICK j : j = F[k] /\ Longest(text, 0, k, input, j) /\ j # size
        BY <3>1, <3>4
      <4>2. j \in Nat /\ j < size
        BY <1>2, <4>1 DEF Longest, EndsWith
      <4>3. Correct(KmpBuf(input), input, j)
        BY <4>2, TableResult DEF Correct
      <4>4. Longest(text, 0, k + 1, input, Advance(KmpBuf(input), input, j, text[k + 1]))
        BY <1>2, <4>1, <4>2, <4>3, AdvanceResult
      <4>5. F[i] = Advance(KmpBuf(input), input, j, text[i])
        BY <2>1, <2>3, <3>1, <3>4, <4>1 DEF MatchedTo
      <4>6. Longest(text, 0, i, input, F[i])
        BY <3>1, <4>4, <4>5
      <4>7. ~Found(k)
        BY <3>1, <3>4
      <4>8. ASSUME F[i] = size PROVE Found(i)
        <5>1. EndsWith(text, i, input, size) /\ i \in 1 .. i
          BY <2>3, <4>6, <4>8 DEF Longest
        <5> QED
          BY <5>1
      <4>9. ASSUME Found(i) PROVE F[i] = size
        <5>1. EndsWith(text, i, input, size)
          BY <3>2, <4>7, <4>9
        <5>2. size <= i - 0 /\ size \in 0 .. Len(input)
          BY <5>1 DEF EndsWith
        <5>3. size <= F[i] /\ F[i] <= Len(input) /\ F[i] \in Nat
          <6>1. \A m \in 0 .. Len(input) : m <= i - 0 /\ EndsWith(text, i, input, m) => m <= F[i]
            BY <4>6 DEF Longest
          <6>2. F[i] \in Nat /\ F[i] <= Len(input)
            BY <4>6 DEF Longest, EndsWith
          <6> QED
            BY <5>1, <5>2, <6>1, <6>2
        <5> QED
          BY <5>3
      <4> QED
        BY <4>6, <4>8, <4>9
    <3> QED
      BY <3>3, <3>4
  <2> QED
    BY <2>2, <2>3
<1>4. \A i \in 0 .. Len(text) : F[i] = size <=> Found(i)
  <2>1. \A i \in Nat : i \in P
    <3> HIDE DEF P
    <3> QED
      BY <1>3, NatInduct
  <2> QED
    BY <2>1
<1> DEFINE ends == {i \in DOMAIN text : F[i] = size}
<1>5. KmpEnd(text, input) = IF ends = {} THEN 0 ELSE Min(ends)
  BY <1>1 DEF IsMatched
<1>6. DOMAIN text = 1 .. Len(text)
  OBVIOUS
<1>7. CASE ends = {}
  <2>1. KmpEnd(text, input) = 0
    BY <1>5, <1>7
  <2>2. ASSUME NEW k \in 1 .. Len(text), EndsWith(text, k, input, size)
        PROVE  FALSE
    <3>1. k \in 1 .. k
      OBVIOUS
    <3>2. F[k] = size
      BY <1>4, <2>2, <3>1
    <3> QED
      BY <1>6, <1>7, <3>2
  <2> QED
    BY <2>1, <2>2
<1>8. CASE ends # {}
  <2>1. ends \in SUBSET Nat
    BY <1>6
  <2>3. Min(ends) \in ends /\ \A m \in ends : Min(ends) <= m
    <3> HIDE DEF ends
    <3> QED
      BY <1>8, <2>1, MinResult
  <2>4. PICK end \in 1 .. Len(text) : end = KmpEnd(text, input) /\ F[end] = size
                                   /\ \A m \in ends : end <= m
    BY <1>5, <1>6, <1>8, <2>3
  <2>5. PICK k \in 1 .. end : EndsWith(text, k, input, size)
    BY <1>4, <2>4
  <2>6. k \in 1 .. k /\ k \in 1 .. Len(text)
    BY <2>4
  <2>7. k \in ends
    BY <1>4, <1>6, <2>5, <2>6
  <2>8. k = end
    BY <2>4, <2>7
  <2> QED
    BY <2>4, <2>5, <2>8
<1> QED
  BY <1>7, <1>8

\* A text contains the input if some beginning of it ends with the input.
LEMMA InSubSeqs ==
  ASSUME NEW A, NEW text \in Seq(A), NEW B, NEW input \in Seq(B), input # <<>>
  PROVE  input \in SubSeqs(text)
           <=> \E k \in 1 .. Len(text) : EndsWith(text, k, input, Len(input))
<1>1. ASSUME NEW k \in 1 .. Len(text), EndsWith(text, k, input, Len(input))
      PROVE  input \in SubSeqs(text)
  <2>1. PICK i \in 0 .. Len(text) : i = k - Len(input)
    <3>1. Len(input) \in 0 .. k
      BY <1>1 DEF EndsWith
    <3>2. k - Len(input) \in 0 .. Len(text)
      BY <3>1
    <3> QED
      BY <3>2, Zenon
  <2>2. PICK t \in Seq(A) : IsPart(t, text, i + 1, k)
    <3>1. PICK m \in 1 .. Len(text) + 1 : m = i + 1 /\ k \in m - 1 .. Len(text)
      BY <2>1
    <3>2. \E t \in Seq(A) : IsPart(t, text, m, k)
      BY <3>1, PartOf
    <3> QED
      BY <3>1, <3>2
  <2>3. Len(t) = Len(input) /\ \A m \in 1 .. Len(input) : t[m] = text[i + m]
    <3>1. k - (i + 1) + 1 = Len(input) /\ \A m \in 1 .. Len(input) : i + 1 + m - 1 = i + m
      BY <2>1
    <3> QED
      BY <2>2, <3>1 DEF IsPart
  <2>4. \A m \in 1 .. Len(input) : text[i + m] = input[m]
    BY <1>1, <2>1 DEF EndsWith
  <2>5. t = input
    BY <2>3, <2>4
  <2> QED
    <3>1. input = SubSeq(text, i + 1, k) /\ k \in 0 .. Len(text)
      BY <2>2, <2>5 DEF IsPart
    <3>2. \E a, b \in 0 .. Len(text) : input = SubSeq(text, a + 1, b)
      BY <3>1, Zenon
    <3> QED
      BY <3>2 DEF SubSeqs
<1>2. ASSUME input \in SubSeqs(text)
      PROVE  \E k \in 1 .. Len(text) : EndsWith(text, k, input, Len(input))
  <2>1. PICK i \in 0 .. Len(text), j \in 0 .. Len(text) : input = SubSeq(text, i + 1, j)
    BY <1>2 DEF SubSeqs
  <2>2. i < j
    <3> SUFFICES ASSUME ~ (i < j) PROVE FALSE
      OBVIOUS
    <3>1. SubSeq(text, i + 1, j) = <<>>
      BY SubSeqEmpty
    <3> QED
      BY <2>1, <3>1
  <2>3. PICK t \in Seq(A) : IsPart(t, text, i + 1, j)
    <3>1. i + 1 \in 1 .. Len(text) + 1 /\ j \in i + 1 - 1 .. Len(text)
      BY <2>2
    <3> QED
      BY <3>1, PartOf
  <2>4. Len(input) = j - i /\ \A m \in 1 .. Len(input) : input[m] = text[i + m]
    <3>1. j - (i + 1) + 1 = j - i /\ \A m \in 1 .. j - i : i + 1 + m - 1 = i + m
      OBVIOUS
    <3> QED
      BY <2>1, <2>3, <3>1 DEF IsPart
  <2>5. EndsWith(text, j, input, Len(input))
    <3>1. \A m \in 1 .. Len(input) : j - Len(input) + m = i + m
      BY <2>4
    <3> QED
      BY <2>4, <3>1 DEF EndsWith
  <2> QED
    BY <2>2, <2>5
<1> QED
  BY <1>1, <1>2

\* IsMatchByKmp finds the input exactly where it is in the text, for any text
\* and any input, however much of itself the input repeats.
THEOREM KmpFinds ==
  ASSUME NEW A, NEW text \in Seq(A), NEW B, NEW input \in Seq(B), input # <<>>
  PROVE  IsMatchByKmp(text, input) <=> input \in SubSeqs(text)
<1>1. /\ KmpEnd(text, input) \in Nat
      /\ IsMatchByKmp(text, input) <=>
            \E k \in 1 .. Len(text) : EndsWith(text, k, input, Len(input))
  BY KmpEndResult DEF IsMatchByKmp
<1> QED
  BY <1>1, InSubSeqs

-----------------------------------------------------------------------------
(***************************************************************************)
(* The search for a name (IsHit).                                          *)
(***************************************************************************)

LEMMA ReadingsType ==
  ASSUME NEW c
  PROVE  /\ Readings(c) \in Seq(Seq(Letter) \ {<<>>})
         /\ Readings(c) # <<>> <=> c \in Hanzi
<1>1. CASE c \in Hanzi
  <2>1. PinYin[c] \in Seq(Seq(Letter) \ {<<>>}) \ {<<>>}
    BY <1>1, PinYinAssumption
  <2> QED
    BY <1>1, <2>1 DEF Readings
<1>2. CASE c \notin Hanzi
  BY <1>2 DEF Readings
<1> QED
  BY <1>1, <1>2

LEMMA FirstLettersType ==
  ASSUME NEW keypad, NEW name, NEW word \in Nat \ {0}, NEW input
  PROVE  /\ FirstLetters(keypad, name, word, input) \subseteq SearchPos
         /\ \A p \in FirstLetters(keypad, name, word, input) :
              p.word = word /\ p.py <= Len(Readings(name[word])) + 1
<1>1. Len(Readings(name[word])) \in Nat
      /\ DOMAIN Readings(name[word]) = 1 .. Len(Readings(name[word]))
  BY ReadingsType
<1> QED
  BY <1>1 DEF FirstLetters, SearchPos

\* What can come next is of a word, and of a reading, up to some bound.
Bounded(positions) ==
  /\ positions \subseteq SearchPos
  /\ \E n \in Nat : \A p \in positions : p.word <= n
  /\ \A word \in Nat : \E n \in Nat : \A p \in positions : p.word = word => p.py <= n

LEMMA NextPosBounded ==
  ASSUME NEW keypad, NEW A, NEW name \in Seq(A), NEW query, NEW path \in Seq(SearchPos)
  PROVE  Bounded(NextPos(keypad, name, query, path))
<1>1. \A word \in Nat : Len(Readings(name[word])) \in Nat
  BY ReadingsType
<1>2. CASE path = <<>>
  <2>1. NextPos(keypad, name, query, path) = Starts(keypad, name, query)
    BY <1>2 DEF NextPos
  <2>2. \A p \in Starts(keypad, name, query) :
          \E word \in DOMAIN name : p \in FirstLetters(keypad, name, word, query[1])
    BY DEF Starts
  <2>3. \A word \in DOMAIN name : word \in Nat \ {0} /\ word <= Len(name)
    OBVIOUS
  <2>4. \A p \in Starts(keypad, name, query) :
          /\ p \in SearchPos /\ p.word <= Len(name)
          /\ p.py <= Len(Readings(name[p.word])) + 1
    BY <2>2, <2>3, FirstLettersType
  <2>5. ASSUME NEW word \in Nat
        PROVE  \E n \in Nat : \A p \in Starts(keypad, name, query) : p.word = word => p.py <= n
    <3>1. Len(Readings(name[word])) + 1 \in Nat
      BY <1>1
    <3> QED
      BY <2>4, <3>1
  <2>6. Len(name) \in Nat
    OBVIOUS
  <2> QED
    BY <2>1, <2>4, <2>5, <2>6 DEF Bounded
<1>3. CASE path # <<>>
  <2>1. PICK at \in SearchPos : at = Last(path)
    BY <1>3 DEF Last
  <2>2. PICK input : input = query[Len(path) + 1]
    OBVIOUS
  <2>3. NextPos(keypad, name, query, path) =
          NextLetters(keypad, name, at, input) \union NextWords(keypad, name, at, input)
    BY <1>3, <2>1, <2>2 DEF NextPos
  <2>4. at.word \in Nat \ {0} /\ at.py \in Nat \ {0} /\ at.char \in Nat \ {0}
    BY DEF SearchPos
  <2>5. \A p \in NextLetters(keypad, name, at, input) :
          p \in SearchPos /\ p.word = at.word /\ p.py = at.py
    BY <2>4 DEF NextLetters, SearchPos
  <2>6. \A p \in NextWords(keypad, name, at, input) :
          /\ p \in SearchPos /\ p.word = at.word + 1
          /\ p.py <= Len(Readings(name[at.word + 1])) + 1
    <3>1. at.word + 1 \in Nat \ {0}
      BY <2>4
    <3> QED
      BY <3>1, FirstLettersType DEF NextWords
  <2>7. PICK n \in Nat : n = Len(Readings(name[at.word + 1])) + 1
    BY <1>1, <2>4
  <2>8. \A p \in NextPos(keypad, name, query, path) :
          p \in SearchPos /\ p.word <= at.word + 1 /\ p.py <= n + at.py
    BY <2>3, <2>4, <2>5, <2>6, <2>7 DEF SearchPos
  <2>9. at.word + 1 \in Nat /\ n + at.py \in Nat
    BY <2>4
  <2> QED
    BY <2>8, <2>9 DEF Bounded
<1> QED
  BY <1>2, <1>3

\* Of bounded positions there is one before which none is tried.
LEMMA FirstTried ==
  ASSUME NEW path, NEW found, Bounded(found), found # {}
  PROVE  \E p \in found : \A q \in found : ~TriedBefore(path, q, p)
<1>1. PICK n \in Nat : \A p \in found : p.word <= n
  BY DEF Bounded
<1>2. \A p \in found : p \in SearchPos /\ p.word \in Nat /\ p.py \in Nat
  BY DEF Bounded, SearchPos
<1> DEFINE words == {p.word : p \in found}
<1>3. words \in SUBSET (0 .. n) /\ words \in SUBSET Nat /\ words # {}
  BY <1>1, <1>2
<1>4. PICK word \in words :
        \A q \in found : ~ (IF path = <<>> THEN q.word < word ELSE q.word > word)
  <2>1. PICK low \in words : \A w \in words : low <= w
    <3> HIDE DEF words
    <3> QED
      BY <1>3, NatLeast
  <2>2. PICK high \in words : \A w \in words : w <= high
    <3> HIDE DEF words
    <3> QED
      BY <1>3, NatGreatest
  <2>3. \A q \in found : q.word \in words
    OBVIOUS
  <2>4. low \in Nat /\ high \in Nat
    BY <1>3
  <2> HIDE DEF words
  <2>5. CASE path = <<>>
    BY <1>2, <2>1, <2>3, <2>4, <2>5
  <2>6. CASE path # <<>>
    BY <1>2, <2>2, <2>3, <2>4, <2>6
  <2> QED
    BY <2>5, <2>6
<1>5. PICK m \in Nat : \A p \in found : p.word = word => p.py <= m
  BY <1>3 DEF Bounded
<1> DEFINE pys == {p.py : p \in {q \in found : q.word = word}}
<1>6. pys \in SUBSET (0 .. m) /\ pys # {}
  BY <1>2, <1>5
<1>7. PICK py \in pys : \A y \in pys : y <= py
  <2> HIDE DEF pys
  <2> QED
    BY <1>6, NatGreatest
<1>8. PICK p \in found : p.word = word /\ p.py = py
  OBVIOUS
<1>9. \A q \in found : q.word = word => q.py <= py /\ q.py \in Nat /\ py \in Nat
  BY <1>2, <1>7
<1>10. \A q \in found : ~TriedBefore(path, q, p)
  BY <1>4, <1>8, <1>9 DEF TriedBefore
<1> QED
  BY <1>10

\* The recursion of MatchThrough is well defined.
Found(F, keypad, name, query, path) ==
  {p \in NextPos(keypad, name, query, path) : F[Append(path, p)] # <<>>}

TryFrom(F, keypad, name, query, path) ==
  IF Len(path) = Len(query) THEN path
  ELSE LET found == Found(F, keypad, name, query, path)
       IN IF found = {} THEN <<>>
          ELSE F[Append(path, CHOOSE p \in found :
                                \A q \in found : ~TriedBefore(path, q, p))]

IsSearch(F, keypad, name, query) ==
  /\ \A path \in Paths(query) : F[path] = TryFrom(F, keypad, name, query, path)
  /\ MatchPath(keypad, name, query) = F[<<>>]

\* A path that is not complete can go on.
IsNext(next, path, p) ==
  /\ next = Append(path, p) /\ next # <<>>
  /\ Len(next) = Len(path) + 1 /\ next[Len(path) + 1] = p
  /\ \A i \in 1 .. Len(path) : next[i] = path[i]

LEMMA PathGoesOn ==
  ASSUME NEW B, NEW query \in Seq(B), NEW path \in Paths(query), Len(path) # Len(query),
         NEW p \in SearchPos
  PROVE  Append(path, p) \in Paths(query) /\ IsNext(Append(path, p), path, p)
<1>1. path \in Seq(SearchPos) /\ Len(path) <= Len(query) /\ Len(query) \in Nat
  BY DEF Paths
<1>2. Append(path, p) \in Seq(SearchPos) /\ Len(Append(path, p)) = Len(path) + 1
  BY <1>1
<1>3. Append(path, p) \in Paths(query)
  BY <1>1, <1>2 DEF Paths
<1> QED
  BY <1>1, <1>2, <1>3 DEF IsNext

LEMMA SearchFunction ==
  ASSUME NEW keypad, NEW A, NEW name \in Seq(A), NEW B, NEW query \in Seq(B)
  PROVE  \E F : IsSearch(F, keypad, name, query)
<1> DEFINE D == Paths(query)
           V == Seq(SearchPos)
           E(g, path) == TryFrom(g, keypad, name, query, path)
           G == [g \in [D -> V] |-> [path \in D |-> E(g, path)]]
           rank == [path \in D |-> Len(query) - Len(path)]
           f0 == [path \in D |-> <<>>]
<1>1. \A path \in D : path \in V /\ Len(path) \in 0 .. Len(query) /\ Len(query) \in Nat
  BY DEF Paths
<1>2. ASSUME NEW g \in [D -> V], NEW h \in [D -> V], NEW x \in D,
             \A y \in D : rank[y] < rank[x] => g[y] = h[y]
      PROVE  E(g, x) \in V /\ E(g, x) = E(h, x)
  <2>1. CASE Len(x) = Len(query)
    BY <1>1, <2>1 DEF TryFrom
  <2>2. CASE Len(x) # Len(query)
    <3>1. ASSUME NEW p \in SearchPos
          PROVE  g[Append(x, p)] = h[Append(x, p)] /\ g[Append(x, p)] \in V
      <4>1. PICK y \in D : y = Append(x, p) /\ Len(y) = Len(x) + 1
        BY <2>2, PathGoesOn DEF IsNext
      <4>2. rank[y] < rank[x]
        BY <1>1, <4>1
      <4>3. g[y] = h[y] /\ g[y] \in V
        <5> HIDE DEF rank, D, V
        <5> QED
          BY <1>2, <4>2
      <4> QED
        BY <4>1, <4>3
    <3>2. PICK found : found = Found(g, keypad, name, query, x)
      OBVIOUS
    <3>3. Bounded(NextPos(keypad, name, query, x))
      BY <1>1, NextPosBounded
    <3>4. Bounded(found) /\ found \subseteq SearchPos
      BY <3>2, <3>3 DEF Found, Bounded
    <3>5. found = Found(h, keypad, name, query, x)
      BY <3>1, <3>2, <3>3 DEF Found, Bounded
    <3>6. CASE found = {}
      BY <2>2, <3>2, <3>5, <3>6 DEF TryFrom
    <3>7. CASE found # {}
      <4>1. PICK p : p = CHOOSE q \in found : \A r \in found : ~TriedBefore(x, r, q)
        OBVIOUS
      <4>2. p \in found
        BY <3>4, <3>7, <4>1, FirstTried
      <4>3. E(g, x) = g[Append(x, p)]
        BY <2>2, <3>2, <3>7, <4>1, Zenon DEF TryFrom
      <4>4. E(h, x) = h[Append(x, p)]
        BY <2>2, <3>5, <3>7, <4>1, Zenon DEF TryFrom
      <4> HIDE DEF E
      <4> QED
        BY <3>1, <3>4, <4>2, <4>3, <4>4
    <3> QED
      BY <3>6, <3>7
  <2> QED
    BY <2>1, <2>2
<1>3. Recursion(D, V, f0, Len(query), rank, G)
  <2>1. Len(query) \in Nat /\ rank \in [D -> 0 .. Len(query)]
    <3>1. \A path \in D : Len(query) - Len(path) \in 0 .. Len(query)
      BY <1>1
    <3> HIDE DEF D
    <3> QED
      BY <3>1
  <2>2. f0 \in [D -> V]
    <3> HIDE DEF D
    <3> QED
      OBVIOUS
  <2>3. G \in [[D -> V] -> [D -> V]]
    <3> HIDE DEF V, D, rank, E
    <3> QED
      BY <1>2
  <2>4. \A g, h \in [D -> V], x \in D :
          (\A y \in D : rank[y] < rank[x] => g[y] = h[y]) => G[g][x] = G[h][x]
    <3> HIDE DEF V, D, rank, E
    <3> QED
      BY <1>2
  <2> HIDE DEF D, V, G, rank, f0
  <2> QED
    BY <2>1, <2>2, <2>3, <2>4 DEF Recursion
<1>4. PICK g \in [D -> V] : g = G[g]
  <2> HIDE DEF D, V, G, rank, f0
  <2> QED
    BY <1>3, RecursiveFunction
<1>5. \E F : F = [path \in D |-> E(F, path)]
  <2> HIDE DEF D, V, E
  <2> QED
    BY <1>4
<1>6. PICK F : F = (CHOOSE H : H = [path \in Paths(query) |-> E(H, path)])
  OBVIOUS
<1>7. F = [path \in Paths(query) |-> E(F, path)]
  BY <1>5, <1>6, Zenon
<1>8. MatchThrough(keypad, name, query) = F
  BY <1>6, Zenon DEF MatchThrough, TryFrom, Found
<1>9. MatchPath(keypad, name, query) = F[<<>>]
  BY <1>8 DEF MatchPath
<1>10. \A path \in Paths(query) : F[path] = E(F, path)
  <2> HIDE DEF E
  <2> QED
    BY <1>7
<1> QED
  BY <1>9, <1>10 DEF IsSearch

\* What may come after a position, and after none.
After(keypad, name, query, path, i) ==
  IF i = 1 THEN Starts(keypad, name, query)
  ELSE NextLetters(keypad, name, path[i - 1], query[i])
         \union NextWords(keypad, name, path[i - 1], query[i])

\* A path for the whole text that goes on from a path: each of its further
\* positions may come there.
GoesOn(keypad, name, query, path, t) ==
  /\ t \in Seq(SearchPos) /\ Len(t) = Len(query)
  /\ \A i \in 1 .. Len(path) : t[i] = path[i]
  /\ \A i \in Len(path) + 1 .. Len(query) : t[i] \in After(keypad, name, query, t, i)

\* What MatchThrough finds.
TryResult(keypad, name, query, path, found) ==
  /\ found # <<>> => GoesOn(keypad, name, query, path, found)
  /\ \A t \in Seq(SearchPos) :
       GoesOn(keypad, name, query, path, t) =>
         found # <<>> /\ (path = <<>> => found[1].word <= t[1].word)

LEMMA NextIsAfter ==
  ASSUME NEW keypad, NEW name, NEW query, NEW path \in Seq(SearchPos), NEW t,
         \A i \in 1 .. Len(path) : t[i] = path[i]
  PROVE  NextPos(keypad, name, query, path) = After(keypad, name, query, t, Len(path) + 1)
<1>1. CASE path = <<>>
  BY <1>1 DEF NextPos, After
<1>2. CASE path # <<>>
  <2>1. /\ Len(path) \in 1 .. Len(path) /\ Len(path) + 1 # 1
        /\ (Len(path) + 1) - 1 = Len(path)
    BY <1>2
  <2>2. t[Len(path)] = path[Len(path)]
    BY <2>1
  <2> QED
    BY <1>2, <2>1, <2>2 DEF NextPos, After, Last
<1> QED
  BY <1>1, <1>2

LEMMA MatchPathResult ==
  ASSUME NEW keypad, NEW A, NEW name \in Seq(A), NEW B, NEW query \in Seq(B),
         query # <<>>
  PROVE  /\ MatchPath(keypad, name, query) \in Seq(SearchPos)
         /\ TryResult(keypad, name, query, <<>>, MatchPath(keypad, name, query))
<1>1. PICK F : IsSearch(F, keypad, name, query)
  BY SearchFunction
<1> DEFINE left(path) == Len(query) - Len(path)
           Good(path) == /\ F[path] \in Seq(SearchPos)
                         /\ TryResult(keypad, name, query, path, F[path])
           P == {n \in Nat : \A path \in Paths(query) : left(path) = n => Good(path)}
<1>2. Len(query) \in Nat \ {0}
  OBVIOUS
<1>3. ASSUME NEW n \in Nat, \A m \in 0 .. n - 1 : m \in P
      PROVE  n \in P
  <2> SUFFICES ASSUME NEW path \in Paths(query), left(path) = n
               PROVE  Good(path)
    OBVIOUS
  <2>1. path \in Seq(SearchPos) /\ Len(path) \in 0 .. Len(query)
    BY DEF Paths
  <2>2. F[path] = TryFrom(F, keypad, name, query, path)
    BY <1>1 DEF IsSearch
  <2>3. CASE Len(path) = Len(query)
    <3>1. F[path] = path
      BY <2>2, <2>3 DEF TryFrom
    <3>2. path # <<>>
      BY <1>2, <2>3
    <3>3. GoesOn(keypad, name, query, path, path)
      BY <2>1, <2>3 DEF GoesOn
    <3>4. TryResult(keypad, name, query, path, path)
      BY <3>2, <3>3 DEF TryResult
    <3> QED
      BY <2>1, <3>1, <3>4
  <2>4. CASE Len(path) # Len(query)
    <3>1. PICK found : found = Found(F, keypad, name, query, path)
      OBVIOUS
    <3>2. Bounded(NextPos(keypad, name, query, path))
      BY <2>1, NextPosBounded
    <3>3. Bounded(found) /\ found \subseteq SearchPos
      BY <3>1, <3>2 DEF Found, Bounded
    <3>4. ASSUME NEW p \in SearchPos
          PROVE  Good(Append(path, p))
      <4>1. PICK next \in Paths(query) : next = Append(path, p) /\ Len(next) = Len(path) + 1
        BY <2>4, PathGoesOn DEF IsNext
      <4>2. left(next) \in 0 .. n - 1
        BY <2>1, <2>4, <4>1
      <4>3. Good(next)
        <5> HIDE DEF Good, left
        <5> QED
          BY <1>3, <4>2
      <4> QED
        BY <4>1, <4>3
    <3> HIDE DEF Good, left, P
    <3>5. ASSUME NEW t \in Seq(SearchPos), GoesOn(keypad, name, query, path, t)
          PROVE  t[Len(path) + 1] \in found
      <4>1. PICK p \in SearchPos : p = t[Len(path) + 1]
        BY <2>1, <2>4, <3>5 DEF GoesOn
      <4>2. p \in After(keypad, name, query, t, Len(path) + 1)
        BY <2>1, <2>4, <3>5, <4>1 DEF GoesOn
      <4>3. p \in NextPos(keypad, name, query, path)
        BY <2>1, <3>5, <4>2, NextIsAfter DEF GoesOn
      <4>4. PICK next \in Paths(query) :
              /\ next = Append(path, p) /\ Len(next) = Len(path) + 1
              /\ next[Len(path) + 1] = p
              /\ \A i \in 1 .. Len(path) : next[i] = path[i]
        <5>1. Append(path, p) \in Paths(query) /\ IsNext(Append(path, p), path, p)
          BY <2>4, PathGoesOn
        <5> QED
          BY <5>1 DEF IsNext
      <4>5. GoesOn(keypad, name, query, next, t)
        <5>1. ASSUME NEW i \in 1 .. Len(next) PROVE t[i] = next[i]
          <6>1. i = Len(path) + 1 \/ i \in 1 .. Len(path)
            BY <2>1, <4>4
          <6> QED
            BY <3>5, <4>1, <4>4, <6>1 DEF GoesOn
        <5>2. \A i \in Len(next) + 1 .. Len(query) : i \in Len(path) + 1 .. Len(query)
          BY <2>1, <4>4
        <5> QED
          BY <3>5, <5>1, <5>2 DEF GoesOn
      <4>6. F[next] # <<>>
        BY <3>4, <4>4, <4>5 DEF Good, TryResult
      <4> QED
        BY <3>1, <4>1, <4>3, <4>4, <4>6 DEF Found
    <3>6. CASE found = {}
      <4>1. F[path] = <<>>
        BY <2>2, <2>4, <3>1, <3>6 DEF TryFrom
      <4>2. TryResult(keypad, name, query, path, <<>>)
        BY <3>5, <3>6 DEF TryResult
      <4> QED
        BY <4>1, <4>2 DEF Good
    <3>7. CASE found # {}
      <4>1. PICK p : p = CHOOSE q \in found : \A r \in found : ~TriedBefore(path, r, q)
        OBVIOUS
      <4>2. p \in found /\ \A q \in found : ~TriedBefore(path, q, p)
        BY <3>3, <3>7, <4>1, FirstTried
      <4>3. PICK next \in Paths(query) :
              /\ next = Append(path, p) /\ Len(next) = Len(path) + 1
              /\ next[Len(path) + 1] = p
              /\ \A i \in 1 .. Len(path) : next[i] = path[i]
        <5>1. Append(path, p) \in Paths(query) /\ IsNext(Append(path, p), path, p)
          BY <2>4, <3>3, <4>2, PathGoesOn
        <5> QED
          BY <5>1 DEF IsNext
      <4>4. F[path] = F[next]
        BY <2>2, <2>4, <3>1, <3>7, <4>1, <4>3, Zenon DEF TryFrom
      <4>5. p \in NextPos(keypad, name, query, path) /\ F[next] # <<>>
        BY <3>1, <4>2, <4>3 DEF Found
      <4>6. PICK t \in Seq(SearchPos) : t = F[next] /\ GoesOn(keypad, name, query, next, t)
        BY <3>3, <3>4, <4>2, <4>3, <4>5 DEF Good, TryResult
      <4>7. \A i \in 1 .. Len(path) : t[i] = path[i]
        BY <2>1, <4>3, <4>6 DEF GoesOn
      <4>8. t[Len(path) + 1] = p
        BY <2>1, <4>3, <4>6 DEF GoesOn
      <4>9. p \in After(keypad, name, query, t, Len(path) + 1)
        BY <2>1, <4>5, <4>7, NextIsAfter
      <4>10. GoesOn(keypad, name, query, path, t)
        <5>1. ASSUME NEW i \in Len(path) + 1 .. Len(query)
              PROVE  t[i] \in After(keypad, name, query, t, i)
          <6>1. i = Len(path) + 1 \/ i \in Len(next) + 1 .. Len(query)
            BY <2>1, <4>3
          <6> QED
            BY <4>6, <4>8, <4>9, <6>1 DEF GoesOn
        <5> QED
          BY <4>6, <4>7, <5>1 DEF GoesOn
      <4>11. ASSUME NEW u \in Seq(SearchPos), GoesOn(keypad, name, query, path, u), path = <<>>
             PROVE  t[1].word <= u[1].word
        <5>1. u[1] \in found /\ t[1] = p
          BY <3>5, <4>8, <4>11
        <5>2. ~ (u[1].word < p.word)
          BY <4>2, <4>11, <5>1 DEF TriedBefore
        <5>3. u[1].word \in Nat /\ p.word \in Nat
          BY <3>3, <4>2, <5>1 DEF SearchPos
        <5> QED
          BY <5>1, <5>2, <5>3
      <4>12. TryResult(keypad, name, query, path, t)
        BY <4>5, <4>6, <4>10, <4>11 DEF TryResult
      <4> QED
        BY <4>4, <4>6, <4>12 DEF Good
    <3> QED
      BY <3>6, <3>7
  <2> QED
    BY <2>3, <2>4
<1>4. Good(<<>>)
  <2>1. <<>> \in Paths(query) /\ left(<<>>) \in Nat
    BY <1>2 DEF Paths
  <2>2. left(<<>>) \in P
    <3> HIDE DEF P, left
    <3> QED
      BY <1>3, <2>1, NatInduct
  <2> QED
    BY <2>1, <2>2
<1> QED
  BY <1>1, <1>4 DEF IsSearch

-----------------------------------------------------------------------------
(* What a path spells *)

LEMMA CompareResult ==
  ASSUME NEW keypad, NEW word \in Char, NEW input \in Char
  PROVE  /\ input \in Wide => (CompareWord(keypad, word, input) <=> word = input)
         /\ word \in Wide => (CompareWord(keypad, word, input) <=> word = input)
         /\ CompareWord(keypad, word, word)
<1>1. /\ Wide \cap Letter = {} /\ Wide \cap Digit = {}
      /\ \A c \in Letter : Keypad[c] \in Digit
  BY PinYinAssumption, CharAssumption
<1> QED
  BY <1>1 DEF CompareWord, ChangeWordToDigit

\* What it means that one letter matches.
LEMMA IsMatchResult ==
  ASSUME NEW keypad, NEW word \in Char, NEW py, NEW char, NEW input \in Char,
         IsMatch(keypad, word, py, char, input)
  PROVE  /\ input \in Wide => word = input
         /\ Readings(word) = <<>> => CompareWord(keypad, word, input)
         /\ Readings(word) = <<>> /\ char # 1 => input \in Wide
         /\ Readings(word) # <<>> /\ input \notin Wide =>
              /\ py \in DOMAIN Readings(word) /\ char \in DOMAIN Readings(word)[py]
              /\ CompareWord(keypad, Readings(word)[py][char], input)
<1>1. input \in Wide => word = input
  BY CompareResult DEF IsMatch
<1>2. Readings(word) = <<>> => DOMAIN Readings(word) = {}
  OBVIOUS
<1>3. Readings(word) = <<>> => CompareWord(keypad, word, input) /\ (char = 1 \/ input \in Wide)
  BY <1>2, Zenon DEF IsMatch
<1>4. Readings(word) # <<>> /\ input \notin Wide =>
        /\ py \in DOMAIN Readings(word) /\ char \in DOMAIN Readings(word)[py]
        /\ CompareWord(keypad, Readings(word)[py][char], input)
  BY Zenon DEF IsMatch
<1> QED
  BY <1>1, <1>3, <1>4

\* The letters of a piece match one reading of a word, one by one.
Run(keypad, word, py, piece) ==
  /\ py \in {1} \union DOMAIN Readings(word)
  /\ \A m \in DOMAIN piece :
       /\ IsMatch(keypad, word, py, m, piece[m])
       /\ m > 1 => Readings(piece[m]) = <<>>

\* Letters of a reading are its beginning.
LEMMA RunBegins ==
  ASSUME NEW keypad, NEW word \in Char, NEW piece \in Seq(Char), piece # <<>>,
         NEW py, Run(keypad, word, py, piece), Readings(word) # <<>>
  PROVE  /\ py \in DOMAIN Readings(word)
         /\ Beginning(keypad, word, Readings(word)[py], piece)
<1>1. Len(piece) \in Nat \ {0} /\ DOMAIN piece = 1 .. Len(piece) /\ piece[1] \in Char
  OBVIOUS
<1>2. \A m \in 1 .. Len(piece) :
        IsMatch(keypad, word, py, m, piece[m]) /\ (m > 1 => Readings(piece[m]) = <<>>)
  BY <1>1 DEF Run
<1>3. word \in Wide
  BY ReadingsType DEF Wide
<1>4. PICK reading \in Seq(Letter) \ {<<>>} :
        /\ py \in DOMAIN Readings(word) /\ reading = Readings(word)[py]
  <2>1. PICK readings \in Seq(Seq(Letter) \ {<<>>}) :
          readings = Readings(word) /\ readings # <<>>
    BY ReadingsType
  <2>2. py \in DOMAIN readings
    BY <2>1 DEF Run
  <2> QED
    BY <2>1, <2>2
<1>5. ASSUME NEW m \in 1 .. Len(piece)
      PROVE  \/ m \in DOMAIN reading /\ CompareWord(keypad, reading[m], piece[m])
             \/ m = 1 /\ piece[1] = word
  <2>1. PICK input \in Char : input = piece[m] /\ IsMatch(keypad, word, py, m, input)
    <3>1. piece[m] \in Char
      BY <1>1
    <3> QED
      BY <1>2, <3>1, Zenon
  <2>2. CASE input \in Wide
    <3>1. input = word
      BY <2>1, <2>2, IsMatchResult
    <3>2. m > 1 => Readings(input) = <<>>
      BY <1>2, <2>1
    <3>3. m = 1
      BY <3>1, <3>2
    <3> QED
      BY <2>1, <3>1, <3>3
  <2>3. CASE input \notin Wide
    BY <1>4, <2>1, <2>3, IsMatchResult
  <2> QED
    BY <2>2, <2>3
<1>6. Len(piece) <= Len(reading)
  <2>1. Len(piece) \in DOMAIN reading \/ Len(piece) = 1
    BY <1>1, <1>5
  <2> QED
    BY <2>1
<1>7. Beginning(keypad, word, reading, piece)
  BY <1>1, <1>5, <1>6 DEF Beginning
<1> QED
  BY <1>4, <1>7

LEMMA RunIsPiece ==
  ASSUME NEW keypad, NEW word \in Char, NEW piece \in Seq(Char), piece # <<>>,
         NEW py, Run(keypad, word, py, piece), ~RepeatsSymbol(piece)
  PROVE  Piece(keypad, word, piece)
<1>1. Len(piece) \in Nat \ {0} /\ DOMAIN piece = 1 .. Len(piece) /\ piece[1] \in Char
  OBVIOUS
<1>2. \A m \in 1 .. Len(piece) :
        IsMatch(keypad, word, py, m, piece[m]) /\ (m > 1 => Readings(piece[m]) = <<>>)
  BY <1>1 DEF Run
<1>3. CASE Readings(word) = <<>>
  <2>1. word \notin Hanzi
    BY <1>3, ReadingsType
  <2>2. CompareWord(keypad, word, piece[1])
    <3>1. IsMatch(keypad, word, py, 1, piece[1])
      <4>1. 1 \in 1 .. Len(piece)
        BY <1>1
      <4> QED
        BY <1>2, <4>1, Zenon
    <3> QED
      BY <1>1, <1>3, <3>1, IsMatchResult
  <2>3. Len(piece) = 1
    <3> SUFFICES ASSUME Len(piece) # 1 PROVE FALSE
      OBVIOUS
    <3>1. PICK input \in Char : input = piece[2] /\ IsMatch(keypad, word, py, 2, input)
      <4>1. 2 \in 1 .. Len(piece) /\ piece[2] \in Char
        BY <1>1
      <4> QED
        BY <1>2, <4>1, Zenon
    <3>2. input \in Wide /\ word = input
      BY <1>3, <3>1, IsMatchResult
    <3>3. word \in Symbol
      BY <2>1, <3>2 DEF Wide
    <3>4. piece[1] = word
      BY <1>1, <2>2, <3>2, CompareResult
    <3>5. 1 \in 1 .. Len(piece) - 1 /\ 1 + 1 = 2
      BY <1>1
    <3>6. piece[1] \in Symbol /\ piece[1 + 1] = piece[1]
      BY <3>1, <3>2, <3>3, <3>4, <3>5
    <3> QED
      BY <3>5, <3>6 DEF RepeatsSymbol
  <2> QED
    BY <1>3, <2>2, <2>3 DEF Piece
<1>4. CASE Readings(word) # <<>>
  <2>1. py \in DOMAIN Readings(word) /\ Beginning(keypad, word, Readings(word)[py], piece)
    BY <1>4, RunBegins
  <2> QED
    BY <2>1 DEF Piece, ToSet
<1> QED
  BY <1>3, <1>4

LEMMA PieceIsRun ==
  ASSUME NEW keypad, NEW word \in Char, NEW piece \in Seq(Char), piece # <<>>,
         Piece(keypad, word, piece)
  PROVE  \E py : Run(keypad, word, py, piece)
<1>1. Len(piece) \in Nat \ {0} /\ DOMAIN piece = 1 .. Len(piece) /\ piece[1] \in Char
  OBVIOUS
<1>2. CASE Len(piece) = 1 /\ Readings(word) = <<>> /\ CompareWord(keypad, word, piece[1])
  <2>1. IsMatch(keypad, word, 1, 1, piece[1])
    BY <1>2 DEF IsMatch
  <2>2. Run(keypad, word, 1, piece)
    BY <1>1, <1>2, <2>1 DEF Run
  <2> QED
    BY <2>2
<1>3. CASE \E reading \in ToSet(Readings(word)) : Beginning(keypad, word, reading, piece)
  <2>1. PICK py \in DOMAIN Readings(word) : Beginning(keypad, word, Readings(word)[py], piece)
    BY <1>3 DEF ToSet
  <2>2. PICK reading \in Seq(Letter) \ {<<>>} :
          /\ reading = Readings(word)[py] /\ Beginning(keypad, word, reading, piece)
    BY <2>1, ReadingsType
  <2>3. word \in Hanzi
    BY <2>1, ReadingsType
  <2>4. ASSUME NEW m \in 1 .. Len(piece)
        PROVE  /\ IsMatch(keypad, word, py, m, piece[m])
               /\ m > 1 => Readings(piece[m]) = <<>>
    <3>1. m \in DOMAIN reading /\ reading[m] \in Letter /\ piece[m] \in Char
      BY <1>1, <2>2 DEF Beginning
    <3>2. CASE CompareWord(keypad, reading[m], piece[m])
      <4>1. reading[m] \in Char /\ reading[m] \notin Wide
        BY <3>1, CharAssumption DEF Char
      <4>2. piece[m] \notin Wide
        BY <3>1, <3>2, <4>1, CompareResult
      <4>3. Readings(piece[m]) = <<>>
        BY <4>2, ReadingsType DEF Wide
      <4> QED
        BY <2>1, <2>2, <3>1, <3>2, <4>2, <4>3 DEF IsMatch
    <3>3. CASE m = 1 /\ piece[1] = word
      <4>1. piece[m] \in Wide /\ CompareWord(keypad, word, piece[m])
        BY <2>3, <3>3, CompareResult DEF Wide
      <4> QED
        BY <3>3, <4>1 DEF IsMatch
    <3> QED
      BY <1>1, <2>2, <3>2, <3>3 DEF Beginning
  <2>5. Run(keypad, word, py, piece)
    BY <1>1, <2>1, <2>4 DEF Run
  <2> QED
    BY <2>5
<1> QED
  BY <1>2, <1>3 DEF Piece

\* What is true of each position of a path for the whole text.
IsPlace(keypad, name, query, t, i) ==
  /\ t[i] \in SearchPos /\ t[i].word \in DOMAIN name
  /\ t[i].py \in {1} \union DOMAIN Readings(name[t[i].word])
  /\ IsMatch(keypad, name[t[i].word], t[i].py, t[i].char, query[i])

\* It begins a word, or goes on with the reading of the one before.
IsStep(query, t, i) ==
  IF i = 1 THEN t[i].char = 1
  ELSE \/ t[i].word = t[i - 1].word + 1 /\ t[i].char = 1
       \/ /\ t[i].word = t[i - 1].word /\ t[i].py = t[i - 1].py
          /\ t[i].char = t[i - 1].char + 1 /\ Readings(query[i]) = <<>>

LEMMA FirstLetterResult ==
  ASSUME NEW keypad, NEW name, NEW word \in Nat \ {0}, NEW input,
         NEW p \in FirstLetters(keypad, name, word, input)
  PROVE  /\ p \in SearchPos /\ p.word = word /\ p.char = 1
         /\ p.py \in {1} \union DOMAIN Readings(name[word])
         /\ IsMatch(keypad, name[word], p.py, 1, input)
<1>1. p \in SearchPos
  BY FirstLettersType
<1>2. PICK py \in {1} \union DOMAIN Readings(name[word]) :
        /\ IsMatch(keypad, name[word], py, 1, input)
        /\ p = [word |-> word, py |-> py, char |-> 1]
  BY DEF FirstLetters
<1> QED
  BY <1>1, <1>2

LEMMA PathSteps ==
  ASSUME NEW keypad, NEW A, NEW name \in Seq(A), NEW B, NEW query \in Seq(B),
         query # <<>>, NEW t, GoesOn(keypad, name, query, <<>>, t)
  PROVE  \A i \in 1 .. Len(query) :
           IsPlace(keypad, name, query, t, i) /\ IsStep(query, t, i)
<1> DEFINE P == {n \in Nat : n \in 1 .. Len(query) =>
                   IsPlace(keypad, name, query, t, n) /\ IsStep(query, t, n)}
<1>1. ASSUME NEW n \in Nat, \A m \in 0 .. n - 1 : m \in P
      PROVE  n \in P
  <2> SUFFICES ASSUME n \in 1 .. Len(query)
               PROVE  IsPlace(keypad, name, query, t, n) /\ IsStep(query, t, n)
    OBVIOUS
  <2>1. t[n] \in After(keypad, name, query, t, n)
    BY DEF GoesOn
  <2>2. CASE n = 1
    <3>1. t[n] \in Starts(keypad, name, query)
      BY <2>1, <2>2 DEF After
    <3>2. PICK word \in DOMAIN name : t[n] \in FirstLetters(keypad, name, word, query[n])
      BY <2>2, <3>1 DEF Starts
    <3>3. word \in Nat \ {0}
      OBVIOUS
    <3>4. PICK p \in FirstLetters(keypad, name, word, query[n]) : p = t[n]
      BY <3>2
    <3>5. /\ p \in SearchPos /\ p.word = word /\ p.char = 1
          /\ p.py \in {1} \union DOMAIN Readings(name[word])
          /\ IsMatch(keypad, name[word], p.py, 1, query[n])
      BY <3>3, FirstLetterResult
    <3> QED
      BY <2>2, <3>4, <3>5 DEF IsPlace, IsStep
  <2>3. CASE n # 1
    <3>1. n - 1 \in 0 .. n - 1 /\ n - 1 \in 1 .. Len(query)
      BY <2>3
    <3>2. PICK at \in SearchPos : at = t[n - 1] /\ IsPlace(keypad, name, query, t, n - 1)
      BY <1>1, <3>1 DEF IsPlace
    <3>3. PICK input : input = query[n]
      OBVIOUS
    <3>4. t[n] \in NextLetters(keypad, name, at, input) \/ t[n] \in NextWords(keypad, name, at, input)
      BY <2>1, <2>3, <3>2, <3>3 DEF After
    <3>5. at.word \in DOMAIN name /\ at.py \in {1} \union DOMAIN Readings(name[at.word])
      BY <3>2 DEF IsPlace
    <3>6. at.word \in Nat \ {0} /\ at.py \in Nat \ {0} /\ at.char \in Nat \ {0}
      BY DEF SearchPos
    <3>7. CASE t[n] \in NextLetters(keypad, name, at, input)
      <4>1. PICK p : p = t[n] /\ p = [at EXCEPT !.char = @ + 1]
        BY <3>7 DEF NextLetters
      <4>2. Readings(input) = <<>> /\ IsMatch(keypad, name[p.word], p.py, p.char, input)
        BY <3>7, <4>1 DEF NextLetters
      <4>3. /\ p \in SearchPos /\ p.word = at.word /\ p.py = at.py
            /\ p.char = at.char + 1
        BY <3>6, <4>1 DEF SearchPos
      <4>4. IsStep(query, t, n)
        BY <2>3, <3>2, <3>3, <4>1, <4>2, <4>3 DEF IsStep
      <4>5. IsPlace(keypad, name, query, t, n)
        BY <3>3, <3>5, <4>1, <4>2, <4>3 DEF IsPlace
      <4> QED
        BY <4>4, <4>5
    <3>8. CASE t[n] \in NextWords(keypad, name, at, input)
      <4>1. at.word < Len(name) /\ t[n] \in FirstLetters(keypad, name, at.word + 1, input)
        BY <3>8 DEF NextWords
      <4>2. PICK word \in Nat \ {0} : word = at.word + 1 /\ word \in DOMAIN name
        BY <3>6, <4>1
      <4>3. PICK p \in FirstLetters(keypad, name, word, input) : p = t[n]
        BY <4>1, <4>2
      <4>4. /\ p \in SearchPos /\ p.word = word /\ p.char = 1
            /\ p.py \in {1} \union DOMAIN Readings(name[word])
            /\ IsMatch(keypad, name[word], p.py, 1, input)
        BY FirstLetterResult
      <4>5. IsStep(query, t, n)
        BY <2>3, <3>2, <4>2, <4>3, <4>4 DEF IsStep
      <4>6. IsPlace(keypad, name, query, t, n)
        BY <3>3, <4>2, <4>3, <4>4 DEF IsPlace
      <4> QED
        BY <4>5, <4>6
    <3> QED
      BY <3>4, <3>7, <3>8
  <2> QED
    BY <2>2, <2>3
<1>2. \A n \in Nat : n \in P
  <2> HIDE DEF P
  <2> QED
    BY <1>1, NatInduct
<1>3. ASSUME NEW i \in 1 .. Len(query)
      PROVE  IsPlace(keypad, name, query, t, i) /\ IsStep(query, t, i)
  BY <1>2
<1> QED
  BY <1>3

IsPath(keypad, name, query, t) ==
  /\ t \in Seq(SearchPos) /\ Len(t) = Len(query)
  /\ \A i \in 1 .. Len(query) : IsPlace(keypad, name, query, t, i) /\ IsStep(query, t, i)

\* Numbers that stay or go up by one, and where each of them is last.
Climbs(len, W) ==
  /\ W \in [1 .. len -> Nat \ {0}]
  /\ \A i \in 2 .. len : W[i] = W[i - 1] \/ W[i] = W[i - 1] + 1

LEMMA ClimbsUp ==
  ASSUME NEW len \in Nat \ {0}, NEW W, Climbs(len, W)
  PROVE  \A i, j \in 1 .. len : i <= j => W[i] <= W[j] /\ W[j] <= W[i] + (j - i)
<1> USE DEF Climbs
<1> DEFINE P == {n \in Nat : n \in 1 .. len =>
                   \A i \in 1 .. n : W[i] <= W[n] /\ W[n] <= W[i] + (n - i)}
<1>1. ASSUME NEW n \in Nat, \A m \in 0 .. n - 1 : m \in P
      PROVE  n \in P
  <2> SUFFICES ASSUME n \in 1 .. len, NEW i \in 1 .. n
               PROVE  W[i] <= W[n] /\ W[n] <= W[i] + (n - i)
    OBVIOUS
  <2>1. PICK v \in Nat, w \in Nat : v = W[i] /\ w = W[n]
    OBVIOUS
  <2>2. CASE i = n
    BY <2>1, <2>2
  <2>3. CASE i # n
    <3>1. PICK k \in 1 .. len : k = n - 1 /\ k \in 0 .. n - 1 /\ i \in 1 .. k
      BY <2>3
    <3>2. PICK u \in Nat : u = W[k] /\ v <= u /\ u <= v + (k - i)
      BY <1>1, <2>1, <3>1
    <3>3. w = u \/ w = u + 1
      <4>1. n \in 2 .. len
        BY <3>1
      <4> QED
        BY <2>1, <3>1, <3>2, <4>1
    <3> QED
      BY <2>1, <3>1, <3>2, <3>3
  <2> QED
    BY <2>2, <2>3
<1>2. \A n \in Nat : n \in P
  <2> HIDE DEF P
  <2> QED
    BY <1>1, NatInduct
<1>3. ASSUME NEW i \in 1 .. len, NEW j \in 1 .. len, i <= j
      PROVE  W[i] <= W[j] /\ W[j] <= W[i] + (j - i)
  BY <1>2, <1>3
<1> QED
  BY <1>3

StartOf(ends, k) == IF k = 1 THEN 1 ELSE ends[k - 1] + 1

\* The ends of the runs of n equal numbers.
RunEnds(len, W, n, ends) ==
  /\ n \in 1 .. len /\ W[len] = W[1] + n - 1
  /\ ends \in [1 .. n -> 1 .. len] /\ ends[n] = len
  /\ \A k \in 2 .. n : ends[k - 1] < ends[k]
  /\ \A k \in 1 .. n, i \in 1 .. len :
       W[i] = W[1] + k - 1 <=> i \in StartOf(ends, k) .. ends[k]

LEMMA ClimbingRuns ==
  ASSUME NEW len \in Nat \ {0}, NEW W, Climbs(len, W)
  PROVE  \E n \in Nat, ends \in Seq(Nat) : Len(ends) = n /\ RunEnds(len, W, n, ends)
<1>1. W \in [1 .. len -> Nat \ {0}] /\ 1 \in 1 .. len /\ len \in 1 .. len
  BY DEF Climbs
<1> DEFINE Up(i, j) == W[i] <= W[j] /\ W[j] <= W[i] + (j - i)
<1>0. \A i, j \in 1 .. len : i <= j => Up(i, j)
  BY ClimbsUp
<1>2. PICK first \in Nat \ {0} : first = W[1]
  BY <1>1
<1>3. PICK last \in Nat \ {0} : last = W[len] /\ first <= last /\ last <= first + (len - 1)
  <2>1. Up(1, len)
    BY <1>0, <1>1
  <2> QED
    BY <1>1, <1>2, <2>1
<1>4. PICK n \in 1 .. len : n = last - first + 1 /\ last = first + n - 1
  BY <1>3
<1> DEFINE IsEnd(k, e) == \A i \in 1 .. len : W[i] <= first + k - 1 <=> i <= e
<1>5. ASSUME NEW k \in 1 .. n
      PROVE  \E e \in 1 .. len : IsEnd(k, e)
  <2> DEFINE S == {i \in 1 .. len : W[i] <= first + k - 1}
  <2>1. S \in SUBSET (0 .. len) /\ 1 \in S
    BY <1>1, <1>2
  <2>2. PICK e \in S : \A i \in S : i <= e
    <3> HIDE DEF S
    <3> QED
      BY <2>1, NatGreatest
  <2>3. ASSUME NEW i \in 1 .. len, i <= e
        PROVE  W[i] <= first + k - 1
    <3>1. PICK v \in Nat, w \in Nat : v = W[i] /\ w = W[e] /\ v <= w
      BY <1>0, <1>1, <2>3
    <3>2. w <= first + k - 1
      BY <3>1
    <3> QED
      BY <3>1, <3>2
  <2> QED
    BY <2>2, <2>3
<1> DEFINE ends == [k \in 1 .. n |-> CHOOSE e \in 1 .. len : IsEnd(k, e)]
<1>6. \A k \in 1 .. n : IsEnd(k, ends[k]) /\ ends[k] \in 1 .. len
  <2> HIDE DEF IsEnd
  <2> QED
    BY <1>5
<1>7. ends \in [1 .. n -> 1 .. len]
  <2>1. ends = [k \in 1 .. n |-> ends[k]]
    OBVIOUS
  <2> HIDE DEF ends
  <2> QED
    BY <1>6, <2>1
<1> HIDE DEF ends
<1>8. ends \in Seq(Nat) /\ Len(ends) = n
  <2>1. ends \in [1 .. n -> Nat]
    BY <1>7
  <2> QED
    BY <2>1, FunctionIsSeq
<1>9. ends[n] = len
  <2>1. n \in 1 .. n /\ ends[n] \in 1 .. len
    BY <1>6
  <2>2. W[len] <= first + n - 1
    BY <1>3, <1>4
  <2>3. len <= ends[n]
    BY <1>1, <1>6, <2>1, <2>2
  <2> QED
    BY <2>1, <2>3
<1>10. ASSUME NEW k \in 2 .. n
       PROVE  ends[k - 1] < ends[k]
  <2>1. PICK h \in 1 .. n : h = k - 1 /\ k \in 1 .. n
    OBVIOUS
  <2>2. PICK e \in 1 .. len : e = ends[h] /\ IsEnd(h, e)
    BY <1>6
  <2>3. PICK v \in Nat : v = W[e] /\ v <= first + h - 1
    BY <1>1, <2>2
  <2>4. e # len
    BY <1>3, <1>4, <2>1, <2>3
  <2>5. PICK f \in 1 .. len : f = e + 1
    BY <2>4
  <2>6. PICK w \in Nat : w = W[f] /\ w <= v + 1
    <3>1. Up(e, f)
      BY <1>0, <2>5
    <3> QED
      BY <1>1, <2>3, <2>5, <3>1
  <2>7. w <= first + k - 1
    BY <2>1, <2>3, <2>6
  <2>8. f <= ends[k]
    BY <1>6, <2>1, <2>6, <2>7
  <2> QED
    BY <1>6, <2>1, <2>2, <2>5, <2>8
<1>11. ASSUME NEW k \in 1 .. n, NEW i \in 1 .. len
       PROVE  W[i] = first + k - 1 <=> i \in StartOf(ends, k) .. ends[k]
  <2>1. PICK w \in Nat : w = W[i] /\ first <= w
    <3>1. Up(1, i)
      BY <1>0, <1>1
    <3> QED
      BY <1>1, <1>2, <3>1
  <2>2. PICK e \in 1 .. len : e = ends[k] /\ (w <= first + k - 1 <=> i <= e)
    BY <1>6, <2>1
  <2>3. CASE k = 1
    BY <2>1, <2>2, <2>3 DEF StartOf
  <2>4. CASE k # 1
    <3>1. PICK h \in 1 .. n : h = k - 1
      BY <2>4
    <3>2. PICK s \in 1 .. len : s = ends[h] /\ (w <= first + h - 1 <=> i <= s)
      BY <1>6, <2>1
    <3>3. StartOf(ends, k) = s + 1
      BY <2>4, <3>1, <3>2 DEF StartOf
    <3> QED
      BY <2>1, <2>2, <3>1, <3>2, <3>3
  <2> QED
    BY <2>3, <2>4
<1>12. RunEnds(len, W, n, ends)
  BY <1>2, <1>3, <1>4, <1>7, <1>9, <1>10, <1>11 DEF RunEnds
<1> QED
  BY <1>8, <1>12

\* The words of the positions of a path.
WordsOf(query, t) == [i \in 1 .. Len(query) |-> t[i].word]

LEMMA WordsClimb ==
  ASSUME NEW keypad, NEW name, NEW B, NEW query \in Seq(B), NEW t,
         IsPath(keypad, name, query, t)
  PROVE  Climbs(Len(query), WordsOf(query, t))
<1>1. \A i \in 1 .. Len(query) : t[i].word \in Nat \ {0}
  BY DEF IsPath, IsPlace, SearchPos
<1>2. \A i \in 2 .. Len(query) : i \in 1 .. Len(query) /\ i - 1 \in 1 .. Len(query) /\ i # 1
  OBVIOUS
<1>3. \A i \in 2 .. Len(query) : t[i].word = t[i - 1].word \/ t[i].word = t[i - 1].word + 1
  BY <1>2 DEF IsPath, IsStep
<1> QED
  BY <1>1, <1>2, <1>3 DEF Climbs, WordsOf

\* The positions of one word go through one reading, letter by letter.
IsRun(query, t, a, b) == \A i \in a .. b :
  /\ t[i].char = i - a + 1 /\ t[i].py = t[a].py
  /\ i > a => Readings(query[i]) = <<>>

LEMMA RunOfWord ==
  ASSUME NEW keypad, NEW name, NEW B, NEW query \in Seq(B), NEW t,
         IsPath(keypad, name, query, t),
         NEW a \in 1 .. Len(query), NEW b \in a .. Len(query), t[a].char = 1,
         \A i \in a .. b : t[i].word = t[a].word
  PROVE  IsRun(query, t, a, b)
<1> DEFINE Good(i) == /\ t[i].char = i - a + 1 /\ t[i].py = t[a].py
                      /\ i > a => Readings(query[i]) = <<>>
           P == {n \in Nat : n \in a .. b => Good(n)}
<1>1. ASSUME NEW n \in Nat, \A m \in 0 .. n - 1 : m \in P
      PROVE  n \in P
  <2> SUFFICES ASSUME n \in a .. b
               PROVE  Good(n)
    OBVIOUS
  <2>1. CASE n = a
    BY <2>1
  <2>2. CASE n # a
    <3>1. PICK k \in a .. b : k = n - 1 /\ k \in 0 .. n - 1 /\ n # 1 /\ n \in 1 .. Len(query)
      BY <2>2
    <3>2. Good(k)
      BY <1>1, <3>1
    <3>3. t[n].word = t[k].word /\ t[n].word \in Nat
      <4>1. t[n].word \in Nat
        BY <3>1 DEF IsPath, IsPlace, SearchPos
      <4> QED
        BY <3>1, <4>1
    <3>4. \/ t[n].word = t[k].word + 1
          \/ /\ t[n].py = t[k].py /\ t[n].char = t[k].char + 1
             /\ Readings(query[n]) = <<>>
      BY <3>1 DEF IsPath, IsStep
    <3>5. t[n].py = t[k].py /\ t[n].char = t[k].char + 1 /\ Readings(query[n]) = <<>>
      BY <3>3, <3>4
    <3>6. n - a + 1 = k - a + 1 + 1
      BY <3>1
    <3> QED
      BY <3>2, <3>5, <3>6
  <2> QED
    BY <2>1, <2>2
<1>2. \A n \in Nat : n \in P
  <2> HIDE DEF P
  <2> QED
    BY <1>1, NatInduct
<1>3. ASSUME NEW i \in a .. b PROVE Good(i)
  BY <1>2
<1> QED
  BY <1>3 DEF IsRun

-----------------------------------------------------------------------------
(* Paths and cuts *)

\* A text is cut into n pieces, and what the pieces are.
IsCut(query, n, ends) ==
  /\ n \in 1 .. Len(query) /\ Len(ends) = n
  /\ ends \in [1 .. n -> 1 .. Len(query)] /\ ends[n] = Len(query)
  /\ \A k \in 1 .. n : StartOf(ends, k) \in 1 .. ends[k]

IsPieceOf(query, ends, k, piece) ==
  /\ piece = PieceOf(query, ends, k) /\ piece # <<>>
  /\ Len(piece) = ends[k] - StartOf(ends, k) + 1
  /\ \A m \in 1 .. Len(piece), i \in 1 .. Len(query) :
       i = StartOf(ends, k) + m - 1 => piece[m] = query[i]

LEMMA CutResult ==
  ASSUME NEW B, NEW query \in Seq(B), NEW ends \in Cuts(query)
  PROVE  IsCut(query, Len(ends), ends)
<1>1. PICK n \in 1 .. Len(query) : ends \in [1 .. n -> 1 .. Len(query)]
  <2>1. DOMAIN query = 1 .. Len(query)
    OBVIOUS
  <2>2. ends \in UNION {[1 .. n -> DOMAIN query] : n \in DOMAIN query}
    BY Zenon DEF Cuts
  <2>3. \E n \in DOMAIN query : ends \in [1 .. n -> DOMAIN query]
    BY <2>2, Zenon
  <2> QED
    BY <2>1, <2>3
<1>2. Len(ends) = n
  BY <1>1, FunctionIsSeq
<1>3. Last(ends) = Len(query) /\ \A k \in 2 .. n : ends[k - 1] < ends[k]
  BY <1>2 DEF Cuts
<1>4. ends[n] = Len(query)
  BY <1>2, <1>3 DEF Last
<1>5. ASSUME NEW k \in 1 .. n
      PROVE  StartOf(ends, k) \in 1 .. ends[k]
  <2>1. CASE k = 1
    BY <1>1, <2>1 DEF StartOf
  <2>2. CASE k # 1
    <3>1. PICK h \in 1 .. n : h = k - 1 /\ k \in 2 .. n
      BY <2>2
    <3>2. ends[h] \in 1 .. Len(query) /\ ends[k] \in 1 .. Len(query) /\ ends[h] < ends[k]
      BY <1>1, <1>3, <3>1
    <3>3. StartOf(ends, k) = ends[h] + 1
      BY <2>2, <3>1 DEF StartOf
    <3> QED
      BY <3>2, <3>3
  <2> QED
    BY <2>1, <2>2
<1> QED
  BY <1>1, <1>2, <1>4, <1>5 DEF IsCut

LEMMA RunEndsCut ==
  ASSUME NEW B, NEW query \in Seq(B), NEW W, NEW n \in Nat, NEW ends \in Seq(Nat),
         Len(ends) = n, RunEnds(Len(query), W, n, ends)
  PROVE  ends \in Cuts(query)
<1>1. DOMAIN query = 1 .. Len(query) /\ n \in DOMAIN query
  BY DEF RunEnds
<1>2. ends \in UNION {[1 .. m -> DOMAIN query] : m \in DOMAIN query}
  BY <1>1 DEF RunEnds
<1>3. Last(ends) = Len(query)
  BY DEF RunEnds, Last
<1>4. \A k \in 2 .. Len(ends) : ends[k - 1] < ends[k]
  BY DEF RunEnds
<1> QED
  BY <1>2, <1>3, <1>4 DEF Cuts

LEMMA PieceResult ==
  ASSUME NEW B, NEW query \in Seq(B), NEW n, NEW ends, IsCut(query, n, ends),
         NEW k \in 1 .. n
  PROVE  \E piece \in Seq(B) : IsPieceOf(query, ends, k, piece)
<1>1. PICK s \in Nat, e \in Nat : /\ s = StartOf(ends, k) /\ e = ends[k]
                                  /\ 1 <= s /\ s <= e /\ e <= Len(query)
  BY DEF IsCut
<1>2. PICK piece \in Seq(B) : IsPart(piece, query, s, e)
  <2>1. s \in 1 .. Len(query) + 1 /\ e \in s - 1 .. Len(query)
    BY <1>1
  <2> QED
    BY <2>1, PartOf
<1>3. PieceOf(query, ends, k) = SubSeq(query, s, e)
  BY <1>1, Zenon DEF PieceOf, StartOf
<1>4. /\ piece = PieceOf(query, ends, k) /\ Len(piece) = e - s + 1
      /\ \A m \in 1 .. Len(piece) : piece[m] = query[s + m - 1]
  BY <1>2, <1>3 DEF IsPart
<1>5. piece # <<>>
  BY <1>1, <1>4
<1> QED
  BY <1>1, <1>4, <1>5 DEF IsPieceOf

\* Of a text without repeated symbols no piece has any.
LEMMA PieceRepeats ==
  ASSUME NEW B, NEW query \in Seq(B), NEW n, NEW ends, IsCut(query, n, ends),
         NEW k \in 1 .. n, NEW piece \in Seq(B), IsPieceOf(query, ends, k, piece),
         RepeatsSymbol(piece)
  PROVE  RepeatsSymbol(query)
<1>1. PICK s \in Nat, e \in Nat : /\ s = StartOf(ends, k) /\ e = ends[k]
                                  /\ 1 <= s /\ s <= e /\ e <= Len(query)
  BY DEF IsCut
<1>2. PICK m \in 1 .. Len(piece) - 1 : piece[m] \in Symbol /\ piece[m + 1] = piece[m]
  BY DEF RepeatsSymbol
<1>3. Len(piece) = e - s + 1
  BY <1>1 DEF IsPieceOf
<1>4. PICK i \in 1 .. Len(query) - 1, h \in 1 .. Len(query), l \in 1 .. Len(piece) :
        i = s + m - 1 /\ h = i + 1 /\ l = m + 1 /\ h = s + l - 1
  <2>1. Len(query) \in Nat /\ m \in Nat /\ 1 <= m /\ m <= e - s
    BY <1>3
  <2>2. s + m - 1 \in 1 .. Len(query) - 1 /\ m + 1 \in 1 .. e - s + 1
    BY <1>1, <2>1
  <2>3. PICK i \in 1 .. Len(query) - 1, l \in 1 .. Len(piece) : i = s + m - 1 /\ l = m + 1
    BY <1>3, <2>2
  <2>4. i + 1 \in 1 .. Len(query)
    BY <2>1
  <2>5. i + 1 = s + l - 1
    BY <2>1, <2>3
  <2> QED
    BY <2>3, <2>4, <2>5
<1>5. m \in 1 .. Len(piece) /\ i \in 1 .. Len(query)
  BY <1>3, <1>4
<1>6. piece[m] = query[i] /\ piece[l] = query[h]
  BY <1>1, <1>4, <1>5 DEF IsPieceOf
<1> QED
  BY <1>2, <1>4, <1>6 DEF RepeatsSymbol

\* Each piece is read off one reading of its word, the first one off word j.
Reads(keypad, name, query, j, n, ends, py) ==
  /\ j \in Nat \ {0} /\ j + n - 1 <= Len(name)
  /\ \A k \in 1 .. n : Run(keypad, name[j + k - 1], py[k], PieceOf(query, ends, k))

\* At the end of piece k the path has come to letter ends[k] of the text, and
\* leaves the word.
LeavesWord(query, t, ends, k, py) == \E i \in 1 .. Len(query) :
  /\ i = ends[k] /\ t[i].word = t[1].word + k - 1
  /\ t[i].char = i - StartOf(ends, k) + 1 /\ t[i].py = py
  /\ \A h \in 1 .. Len(query) : h = i + 1 => t[h].word # t[i].word

IsCutBy(keypad, name, query, t, n, ends, py) ==
  /\ Reads(keypad, name, query, t[1].word, n, ends, py)
  /\ t[Len(query)].word = t[1].word + n - 1
  /\ \A k \in 1 .. n : LeavesWord(query, t, ends, k, py[k])

\* A path cuts the text where it leaves a word.
LEMMA PathIsCut ==
  ASSUME NEW keypad, NEW A, NEW name \in Seq(A), NEW B, NEW query \in Seq(B), query # <<>>,
         NEW t, IsPath(keypad, name, query, t)
  PROVE  \E ends \in Cuts(query) : \E py :
           IsCutBy(keypad, name, query, t, Len(ends), ends, py)
<1> DEFINE W == WordsOf(query, t)
<1>1. Len(query) \in Nat \ {0} /\ 1 \in 1 .. Len(query)
  OBVIOUS
<1>2. PICK n \in Nat, ends \in Seq(Nat) : Len(ends) = n /\ RunEnds(Len(query), W, n, ends)
  <2> HIDE DEF W
  <2>1. Climbs(Len(query), W)
    BY WordsClimb DEF W
  <2> QED
    BY <1>1, <2>1, ClimbingRuns
<1>3. ends \in Cuts(query) /\ IsCut(query, n, ends)
  <2> HIDE DEF W
  <2> QED
    BY <1>2, RunEndsCut, CutResult
<1>4. PICK first \in Nat \ {0} : first = t[1].word
  BY <1>1 DEF IsPath, IsPlace, SearchPos
<1>5. \A k \in 1 .. n, i \in 1 .. Len(query) :
        t[i].word = first + k - 1 <=> i \in StartOf(ends, k) .. ends[k]
  BY <1>1, <1>2, <1>4 DEF RunEnds, WordsOf
<1> DEFINE py == [k \in 1 .. n |-> t[ends[k]].py]
<1>6. ASSUME NEW k \in 1 .. n
      PROVE  /\ Run(keypad, name[first + k - 1], py[k], PieceOf(query, ends, k))
             /\ first + k - 1 \in DOMAIN name
             /\ LeavesWord(query, t, ends, k, py[k])
  <2>1. PICK s \in 1 .. Len(query), e \in 1 .. Len(query) :
          s = StartOf(ends, k) /\ e = ends[k] /\ s <= e
    <3>1. ends[k] \in 1 .. Len(query) /\ StartOf(ends, k) \in 1 .. ends[k]
      BY <1>3 DEF IsCut
    <3> QED
      BY <3>1
  <2>2. \A i \in 1 .. Len(query) : t[i].word = first + k - 1 <=> i \in s .. e
    BY <1>5, <2>1
  <2>3. \A i \in s .. e : t[i].word = t[s].word /\ i \in 1 .. Len(query)
    BY <2>1, <2>2
  <2>4. t[s].char = 1
    <3>1. CASE s = 1
      BY <2>1, <3>1 DEF IsPath, IsStep
    <3>2. CASE s # 1
      <4>1. PICK h \in 1 .. Len(query) : h = s - 1 /\ h \notin s .. e
        <5>1. s - 1 \in 1 .. Len(query) /\ s - 1 \notin s .. e
          BY <1>1, <3>2
        <5> QED
          BY <5>1
      <4>2. t[h].word # t[s].word
        BY <2>1, <2>2, <4>1
      <4>3. IsStep(query, t, s)
        BY DEF IsPath
      <4> QED
        BY <3>2, <4>1, <4>2, <4>3 DEF IsStep
    <3> QED
      BY <3>1, <3>2
  <2>5. \A i \in s .. e : /\ t[i].char = i - s + 1 /\ t[i].py = t[s].py
                          /\ i > s => Readings(query[i]) = <<>>
    <3>1. e \in s .. Len(query) /\ \A i \in s .. e : t[i].word = t[s].word
      BY <2>1, <2>3
    <3> QED
      <4>1. IsRun(query, t, s, e)
        BY <2>4, <3>1, RunOfWord
      <4> QED
        BY <4>1 DEF IsRun
  <2>6. PICK piece \in Seq(B) : IsPieceOf(query, ends, k, piece)
    BY <1>3, PieceResult
  <2>7. PICK word \in DOMAIN name : word = first + k - 1 /\ \A i \in s .. e : t[i].word = word
    <3>1. t[s].word \in DOMAIN name
      BY DEF IsPath, IsPlace
    <3>2. t[s].word = first + k - 1
      BY <2>1, <2>2
    <3> QED
      BY <2>3, <3>1, <3>2
  <2>8. PICK p : p = t[s].py
    OBVIOUS
  <2>9. py[k] = p
    <3>1. e \in s .. e /\ py[k] = t[e].py
      BY <2>1
    <3> HIDE DEF py
    <3> QED
      BY <2>5, <2>8, <3>1
  <2>10. ASSUME NEW m \in 1 .. Len(piece)
         PROVE  /\ IsMatch(keypad, name[word], p, m, piece[m])
                /\ m > 1 => Readings(piece[m]) = <<>>
    <3>1. PICK i \in s .. e : i = s + m - 1 /\ i - s + 1 = m /\ i \in 1 .. Len(query)
      <4>1. Len(piece) = e - s + 1
        BY <2>1, <2>6 DEF IsPieceOf
      <4>2. s + m - 1 \in s .. e /\ (s + m - 1) - s + 1 = m /\ s + m - 1 \in 1 .. Len(query)
        BY <1>1, <4>1
      <4> QED
        BY <4>2
    <3>2. piece[m] = query[i]
      BY <2>1, <2>6, <3>1 DEF IsPieceOf
    <3>3. t[i].word = word /\ t[i].char = m /\ t[i].py = p
      BY <2>5, <2>7, <2>8, <3>1
    <3>4. IsPlace(keypad, name, query, t, i)
      BY <2>3 DEF IsPath
    <3>5. IsMatch(keypad, name[word], p, m, piece[m])
      BY <3>2, <3>3, <3>4 DEF IsPlace
    <3> QED
      BY <2>5, <3>1, <3>2, <3>5
  <2>11. p \in {1} \union DOMAIN Readings(name[word])
    <3>1. IsPlace(keypad, name, query, t, s) /\ t[s].word = word
      BY <2>1, <2>7 DEF IsPath
    <3> QED
      BY <2>8, <3>1 DEF IsPlace
  <2>12. DOMAIN piece = 1 .. Len(piece)
    OBVIOUS
  <2>13. Run(keypad, name[word], p, piece)
    BY <2>10, <2>11, <2>12 DEF Run
  <2>14. LeavesWord(query, t, ends, k, py[k])
    <3>1. e \in s .. e /\ t[e].word = first + k - 1
      BY <2>1, <2>2
    <3>2. ASSUME NEW h \in 1 .. Len(query), h = e + 1
          PROVE  t[h].word # t[e].word
      <4>1. h \notin s .. e
        BY <2>1, <3>2
      <4> QED
        BY <2>2, <3>1, <4>1
    <3>3. t[e].char = e - s + 1 /\ t[e].py = p
      BY <2>5, <2>8, <3>1
    <3> HIDE DEF py
    <3> QED
      BY <1>4, <2>1, <2>9, <3>1, <3>2, <3>3 DEF LeavesWord
  <2> HIDE DEF py
  <2> QED
    BY <2>6, <2>7, <2>9, <2>13, <2>14 DEF IsPieceOf
<1>7. first + n - 1 <= Len(name)
  <2>1. n \in 1 .. n
    BY <1>3 DEF IsCut
  <2>2. first + n - 1 \in DOMAIN name
    BY <1>6, <2>1
  <2> QED
    BY <2>2
<1>8. Reads(keypad, name, query, first, n, ends, py)
  <2> HIDE DEF py
  <2> QED
    BY <1>6, <1>7 DEF Reads
<1>9. t[Len(query)].word = first + n - 1
  BY <1>1, <1>2, <1>4 DEF RunEnds, WordsOf
<1>10. IsCutBy(keypad, name, query, t, n, ends, py)
  <2> HIDE DEF py
  <2> QED
    BY <1>4, <1>6, <1>8, <1>9 DEF IsCutBy
<1> QED
  BY <1>2, <1>3, <1>10

\* The ends of pieces go up.
LEMMA CutGrows ==
  ASSUME NEW B, NEW query \in Seq(B), NEW n, NEW ends, IsCut(query, n, ends)
  PROVE  \A h, k \in 1 .. n : h < k => ends[h] < ends[k]
<1>1. n \in Nat /\ ends \in [1 .. n -> Nat]
  BY DEF IsCut
<1> DEFINE P == {k \in Nat : k \in 1 .. n => \A h \in 1 .. k - 1 : ends[h] < ends[k]}
<1>2. ASSUME NEW k \in Nat, \A m \in 0 .. k - 1 : m \in P
      PROVE  k \in P
  <2> SUFFICES ASSUME k \in 1 .. n, NEW h \in 1 .. k - 1
               PROVE  ends[h] < ends[k]
    OBVIOUS
  <2>1. PICK g \in 1 .. n : g = k - 1 /\ g \in 0 .. k - 1 /\ h <= g /\ k # 1
    BY <1>1
  <2>2. PICK u \in Nat, v \in Nat, w \in Nat : u = ends[h] /\ v = ends[g] /\ w = ends[k]
    BY <1>1, <2>1
  <2>3. u <= v
    <3>1. CASE h = g
      BY <2>2, <3>1
    <3>2. CASE h # g
      <4>1. h \in 1 .. g - 1
        BY <2>1, <3>2
      <4> QED
        BY <1>2, <2>1, <2>2, <4>1
    <3> QED
      BY <3>1, <3>2
  <2>4. v + 1 <= w
    <3>1. StartOf(ends, k) = v + 1
      BY <2>1, <2>2 DEF StartOf
    <3>2. StartOf(ends, k) \in 1 .. w
      BY <2>2 DEF IsCut
    <3> QED
      BY <3>1, <3>2
  <2> QED
    BY <2>2, <2>3, <2>4
<1>3. \A k \in Nat : k \in P
  <2> HIDE DEF P
  <2> QED
    BY <1>2, NatInduct
<1>4. ASSUME NEW h \in 1 .. n, NEW k \in 1 .. n, h < k
      PROVE  ends[h] < ends[k]
  <2>1. h \in 1 .. k - 1 /\ k \in Nat
    BY <1>1, <1>4
  <2> QED
    BY <1>3, <2>1
<1> QED
  BY <1>4

\* Which piece each character is in.
IsPieceNumber(query, n, ends, K) ==
  /\ K \in [1 .. Len(query) -> 1 .. n]
  /\ \A i \in 1 .. Len(query) : i \in StartOf(ends, K[i]) .. ends[K[i]]
  /\ K[1] = 1
  /\ \A i \in 2 .. Len(query) :
       \/ K[i] = K[i - 1] /\ i # StartOf(ends, K[i])
       \/ K[i] = K[i - 1] + 1 /\ i = StartOf(ends, K[i])

LEMMA PieceNumbers ==
  ASSUME NEW B, NEW query \in Seq(B), NEW n, NEW ends, IsCut(query, n, ends)
  PROVE  \E K : IsPieceNumber(query, n, ends, K)
<1> DEFINE In(i, k) == i \in StartOf(ends, k) .. ends[k]
<1>1. n \in Nat \ {0} /\ ends \in [1 .. n -> 1 .. Len(query)] /\ ends[n] = Len(query)
      /\ Len(query) \in Nat
  BY DEF IsCut
<1>2. \A k \in 1 .. n : StartOf(ends, k) \in 1 .. ends[k]
  BY DEF IsCut
<1>3. ASSUME NEW i \in 1 .. Len(query)
      PROVE  \E k \in 1 .. n : In(i, k)
  <2> DEFINE T == {k \in 1 .. n : i <= ends[k]}
  <2>1. PICK k \in T : \A h \in T : k <= h
    <3>1. n \in T /\ T \in SUBSET Nat
      BY <1>1
    <3> HIDE DEF T
    <3> QED
      BY <3>1, NatLeast
  <2>2. CASE k = 1
    BY <2>2 DEF StartOf
  <2>3. CASE k # 1
    <3>1. PICK h \in 1 .. n : h = k - 1
      BY <1>1, <2>3
    <3>2. PICK e \in Nat : e = ends[h] /\ ~ (i <= e)
      BY <1>1, <2>1, <3>1
    <3>3. StartOf(ends, k) = e + 1
      BY <2>3, <3>1, <3>2 DEF StartOf
    <3> QED
      BY <1>1, <3>2, <3>3
  <2> QED
    BY <2>2, <2>3
<1>4. ASSUME NEW i \in 1 .. Len(query), NEW k \in 1 .. n, NEW l \in 1 .. n,
             In(i, k), In(i, l), k < l
      PROVE  FALSE
  <2>1. PICK h \in 1 .. n : h = l - 1 /\ l # 1 /\ k <= h
    BY <1>1, <1>4
  <2>2. PICK e \in Nat, f \in Nat : e = ends[h] /\ f = ends[k]
    BY <1>1
  <2>3. f <= e
    <3>1. CASE k = h
      BY <2>2, <3>1
    <3>2. CASE k # h
      <4>1. k < h
        BY <1>1, <2>1, <3>2
      <4> QED
        BY <2>2, <4>1, CutGrows
    <3> QED
      BY <3>1, <3>2
  <2>4. StartOf(ends, l) = e + 1
    BY <2>1, <2>2 DEF StartOf
  <2> QED
    BY <1>4, <2>2, <2>3, <2>4
<1>5. ASSUME NEW i \in 1 .. Len(query), NEW k \in 1 .. n, NEW l \in 1 .. n,
             In(i, k), In(i, l)
      PROVE  k = l
  <2>1. k < l \/ l < k \/ k = l
    BY <1>1
  <2> HIDE DEF In
  <2> QED
    BY <1>4, <1>5, <2>1
<1> DEFINE K == [i \in 1 .. Len(query) |-> CHOOSE k \in 1 .. n : In(i, k)]
<1>6. \A i \in 1 .. Len(query) : K[i] \in 1 .. n /\ In(i, K[i])
  <2> HIDE DEF In
  <2> QED
    BY <1>3
<1>7. K \in [1 .. Len(query) -> 1 .. n]
  <2>1. K = [i \in 1 .. Len(query) |-> K[i]]
    OBVIOUS
  <2> HIDE DEF K
  <2> QED
    BY <1>6, <2>1
<1> HIDE DEF K
<1>8. K[1] = 1
  <2>1. 1 \in 1 .. Len(query) /\ 1 \in 1 .. n /\ ends[1] \in 1 .. Len(query)
    BY <1>1
  <2>2. In(1, 1)
    BY <2>1 DEF StartOf
  <2> HIDE DEF In
  <2> QED
    BY <1>5, <1>6, <2>1, <2>2
<1>9. ASSUME NEW i \in 2 .. Len(query)
      PROVE  \/ K[i] = K[i - 1] /\ i # StartOf(ends, K[i])
             \/ K[i] = K[i - 1] + 1 /\ i = StartOf(ends, K[i])
  <2>1. PICK g \in 1 .. Len(query) : g = i - 1 /\ i \in 1 .. Len(query)
    <3>1. i - 1 \in 1 .. Len(query) /\ i \in 1 .. Len(query)
      BY <1>1
    <3> QED
      BY <3>1
  <2>2. PICK k \in 1 .. n : k = K[i] /\ In(i, k)
    BY <1>6, <2>1
  <2>3. PICK s \in Nat, e \in Nat : s = StartOf(ends, k) /\ e = ends[k] /\ s <= i /\ i <= e
    BY <1>1, <1>2, <2>2
  <2>4. CASE i # s
    <3>1. In(g, k)
      BY <2>1, <2>3, <2>4
    <3>2. K[g] = k
      BY <1>5, <1>6, <3>1
    <3> QED
      BY <2>1, <2>2, <2>3, <2>4, <3>2
  <2>5. CASE i = s
    <3>1. k # 1
      BY <2>3, <2>5 DEF StartOf
    <3>2. PICK h \in 1 .. n : h = k - 1
      BY <1>1, <3>1
    <3>3. PICK f \in Nat : f = ends[h] /\ StartOf(ends, h) \in 1 .. f
      BY <1>1, <1>2
    <3>4. s = f + 1
      BY <2>3, <3>1, <3>2, <3>3 DEF StartOf
    <3>5. In(g, h)
      BY <2>1, <2>5, <3>3, <3>4
    <3>6. K[g] = h
      BY <1>5, <1>6, <3>5
    <3>7. k = h + 1 /\ i - 1 = g
      BY <1>1, <2>1, <3>2
    <3>8. K[i] = K[i - 1] + 1
      BY <2>2, <3>6, <3>7
    <3> QED
      BY <2>2, <2>3, <2>5, <3>8
  <2> QED
    BY <2>4, <2>5
<1> QED
  BY <1>6, <1>7, <1>8, <1>9 DEF IsPieceNumber
LEMMA NumberInRange ==
  ASSUME NEW s \in Nat, NEW e \in Nat, NEW i \in Nat, s <= i, i <= e
  PROVE  \E m \in 1 .. e - s + 1 : m = i - s + 1 /\ i = s + m - 1
  OBVIOUS

LEMMA CutIsPath ==
  ASSUME NEW keypad, NEW A, NEW name \in Seq(A), NEW B, NEW query \in Seq(B), query # <<>>,
         NEW ends \in Cuts(query), NEW py, NEW j,
         Reads(keypad, name, query, j, Len(ends), ends, py)
  PROVE  \E t : IsPath(keypad, name, query, t) /\ t[1].word = j
<1>1. PICK n : n = Len(ends) /\ IsCut(query, n, ends)
  BY CutResult
<1>2. PICK K : IsPieceNumber(query, n, ends, K)
  BY <1>1, PieceNumbers
<1>3. /\ n \in Nat \ {0} /\ Len(query) \in Nat \ {0} /\ j \in Nat \ {0} /\ j + n - 1 <= Len(name)
      /\ Len(name) \in Nat
  BY <1>1 DEF Reads, IsCut
<1> DEFINE start(i) == StartOf(ends, K[i])
           at(i) == [word |-> j + K[i] - 1, py |-> py[K[i]], char |-> i - start(i) + 1]
           t == [i \in 1 .. Len(query) |-> at(i)]
<1>4. ASSUME NEW i \in 1 .. Len(query)
      PROVE  /\ at(i) \in SearchPos /\ at(i).word \in DOMAIN name
             /\ at(i).py \in {1} \union DOMAIN Readings(name[at(i).word])
             /\ IsMatch(keypad, name[at(i).word], at(i).py, at(i).char, query[i])
             /\ at(i).char # 1 => Readings(query[i]) = <<>>
  <2>1. PICK k \in 1 .. n : k = K[i] /\ i \in StartOf(ends, k) .. ends[k]
    BY <1>2 DEF IsPieceNumber
  <2>2. PICK s \in Nat, e \in Nat : /\ s = StartOf(ends, k) /\ e = ends[k] /\ s # 0
                                    /\ s <= i /\ i <= e
    <3>1. StartOf(ends, k) \in 1 .. ends[k] /\ ends[k] \in 1 .. Len(query)
      BY <1>1 DEF IsCut
    <3> QED
      BY <2>1, <3>1
  <2>3. PICK piece \in Seq(B) : IsPieceOf(query, ends, k, piece)
    BY <1>1, PieceResult
  <2>4. PICK word \in DOMAIN name : word = j + k - 1 /\ word \in Nat \ {0}
    BY <1>3
  <2>5. Run(keypad, name[word], py[k], piece)
    BY <1>1, <2>3, <2>4 DEF Reads, IsPieceOf
  <2>6. PICK m \in 1 .. Len(piece) : m = i - s + 1 /\ i = s + m - 1
    <3>1. Len(piece) = e - s + 1
      BY <2>2, <2>3 DEF IsPieceOf
    <3>2. PICK m \in 1 .. e - s + 1 : m = i - s + 1 /\ i = s + m - 1
      <4>1. i \in Nat
        OBVIOUS
      <4> QED
        BY <2>2, <4>1, NumberInRange, Zenon
    <3> QED
      BY <3>1, <3>2
  <2>7. piece[m] = query[i] /\ m \in DOMAIN piece /\ m \in Nat \ {0}
    <3>1. piece[m] = query[i]
      BY <2>2, <2>3, <2>6 DEF IsPieceOf
    <3> QED
      BY <3>1
  <2>8. PICK p : p = py[k] /\ p \in {1} \union DOMAIN Readings(name[word])
    BY <2>5 DEF Run
  <2>9. IsMatch(keypad, name[word], p, m, query[i]) /\ (m > 1 => Readings(query[i]) = <<>>)
    BY <2>5, <2>7, <2>8 DEF Run
  <2>10. p \in Nat \ {0}
    BY <2>8, ReadingsType
  <2>11. at(i) = [word |-> word, py |-> p, char |-> m]
    BY <2>1, <2>2, <2>4, <2>6, <2>8
  <2>12. m # 1 => m > 1
    BY <2>7
  <2> HIDE DEF at
  <2> QED
    BY <2>4, <2>7, <2>8, <2>9, <2>10, <2>11, <2>12 DEF SearchPos
<1> HIDE DEF at
<1>5. /\ t \in Seq(SearchPos) /\ Len(t) = Len(query)
      /\ \A i \in 1 .. Len(query) : t[i] = at(i)
  <2>1. t \in [1 .. Len(query) -> SearchPos]
    BY <1>4
  <2>2. \A i \in 1 .. Len(query) : t[i] = at(i)
    OBVIOUS
  <2> HIDE DEF t
  <2> QED
    BY <1>3, <2>1, <2>2, FunctionIsSeq
<1> HIDE DEF t
<1>6. ASSUME NEW i \in 1 .. Len(query)
      PROVE  IsPlace(keypad, name, query, t, i)
  BY <1>4, <1>5 DEF IsPlace
<1>7. ASSUME NEW i \in 1 .. Len(query)
      PROVE  IsStep(query, t, i)
  <2>1. PICK k \in 1 .. n : k = K[i]
    BY <1>2 DEF IsPieceNumber
  <2>2. PICK s \in Nat : s = StartOf(ends, k)
    BY <1>1 DEF IsCut
  <2>3. t[i] = [word |-> j + k - 1, py |-> py[k], char |-> i - s + 1]
    BY <1>5, <2>1, <2>2 DEF at
  <2>4. CASE i = 1
    <3>1. s = 1
      BY <1>2, <2>1, <2>2, <2>4 DEF IsPieceNumber, StartOf
    <3>2. i - s + 1 = 1
      BY <2>4, <3>1
    <3> QED
      BY <2>3, <2>4, <3>2 DEF IsStep
  <2>5. CASE i # 1
    <3>1. PICK h \in 1 .. Len(query) : h = i - 1 /\ i \in 2 .. Len(query) /\ i = h + 1
      <4>1. i - 1 \in 1 .. Len(query) /\ i \in 2 .. Len(query) /\ i = (i - 1) + 1
        BY <1>3, <2>5
      <4> QED
        BY <4>1
    <3>2. PICK g \in 1 .. n : g = K[h]
      BY <1>2 DEF IsPieceNumber
    <3>3. PICK r \in Nat : r = StartOf(ends, g)
      BY <1>1 DEF IsCut
    <3>4. t[h] = [word |-> j + g - 1, py |-> py[g], char |-> h - r + 1]
      BY <1>5, <3>2, <3>3 DEF at
    <3>5. (k = g /\ i # s) \/ (k = g + 1 /\ i = s)
      BY <1>2, <2>1, <2>2, <3>1, <3>2 DEF IsPieceNumber
    <3>6. CASE k = g /\ i # s
      <4>1. s = r /\ i - s + 1 = (h - r + 1) + 1 /\ i - s + 1 # 1
        BY <2>2, <3>1, <3>3, <3>6
      <4>2. Readings(query[i]) = <<>>
        <5>1. at(i).char # 1
          BY <1>5, <2>3, <4>1
        <5> QED
          BY <1>4, <5>1
      <4>3. t[i].word = t[h].word /\ t[i].py = t[h].py /\ t[i].char = t[h].char + 1
        BY <2>3, <3>4, <3>6, <4>1
      <4> QED
        BY <2>5, <3>1, <4>2, <4>3 DEF IsStep
    <3>7. CASE k = g + 1 /\ i = s
      <4>1. j + k - 1 = (j + g - 1) + 1 /\ i - s + 1 = 1
        BY <1>3, <3>7
      <4>2. t[i].word = t[h].word + 1 /\ t[i].char = 1
        BY <2>3, <3>4, <4>1
      <4> QED
        BY <2>5, <3>1, <4>2 DEF IsStep
    <3> QED
      BY <3>5, <3>6, <3>7
  <2> QED
    BY <2>4, <2>5
<1>8. t[1].word = j
  <2>1. 1 \in 1 .. Len(query) /\ K[1] = 1 /\ j + 1 - 1 = j
    BY <1>2, <1>3 DEF IsPieceNumber
  <2>2. at(1).word = j + K[1] - 1
    BY DEF at
  <2> QED
    BY <1>5, <2>1, <2>2
<1> QED
  BY <1>5, <1>6, <1>7, <1>8 DEF IsPath
\* A path is found unless another one is: a text of one character takes the
\* first of its readings.
LEMMA PathIsFound ==
  ASSUME NEW keypad, NEW A, NEW name \in Seq(A), NEW B, NEW query \in Seq(B), query # <<>>,
         NEW t, IsPath(keypad, name, query, t)
  PROVE  \E u \in Seq(SearchPos) :
           GoesOn(keypad, name, query, <<>>, u) /\ u[1].word = t[1].word
<1>1. /\ Len(query) \in Nat \ {0} /\ 1 \in 1 .. Len(query)
      /\ t \in Seq(SearchPos) /\ Len(t) = Len(query)
  BY DEF IsPath
<1>2. PICK first \in SearchPos : first = t[1]
  BY <1>1 DEF IsPath, IsPlace
<1>3. /\ first.word \in DOMAIN name /\ first.char = 1
      /\ first.py \in {1} \union DOMAIN Readings(name[first.word])
      /\ IsMatch(keypad, name[first.word], first.py, 1, query[1])
  <2>1. IsPlace(keypad, name, query, t, 1) /\ IsStep(query, t, 1)
    BY <1>1 DEF IsPath
  <2> QED
    BY <1>2, <2>1 DEF IsPlace, IsStep
<1>4. \A p \in SearchPos : p = [word |-> p.word, py |-> p.py, char |-> p.char]
  BY DEF SearchPos
<1>5. first \in FirstLetters(keypad, name, first.word, query[1])
  BY <1>3, <1>4 DEF FirstLetters
<1>6. CASE Len(query) = 1
  <2> DEFINE F == FirstLetters(keypad, name, first.word, query[1])
             T == {p.py : p \in F}
  <2>1. F \subseteq SearchPos /\ \A p \in F : p.word = first.word
    <3>1. first.word \in Nat \ {0}
      BY DEF SearchPos
    <3> QED
      BY <3>1, FirstLettersType
  <2>2. PICK p \in F : \A q \in F : p.py <= q.py
    <3>1. T \in SUBSET Nat /\ T # {}
      BY <1>5, <2>1 DEF SearchPos
    <3>2. PICK n \in T : \A m \in T : n <= m
      <4> HIDE DEF T
      <4> QED
        BY <3>1, NatLeast
    <3> HIDE DEF F
    <3> QED
      BY <3>2
  <2>3. PICK word \in DOMAIN name : word = first.word
    BY <1>3
  <2>4. p \in Starts(keypad, name, query)
    <3>1. p \in UNION {FirstLetters(keypad, name, w, query[1]) : w \in DOMAIN name}
      BY <2>2, <2>3
    <3>2. \A q \in FirstLetters(keypad, name, p.word, query[1]) : p.py <= q.py
      BY <2>1, <2>2
    <3> QED
      BY <3>1, <3>2 DEF Starts
  <2>5. PICK u : u = <<p>>
    OBVIOUS
  <2>6. u \in Seq(SearchPos) /\ Len(u) = 1 /\ u[1] = p
    BY <2>1, <2>5
  <2>7. \A i \in 1 .. Len(query) : i = 1
    BY <1>6
  <2>8. GoesOn(keypad, name, query, <<>>, u)
    <3>1. \A i \in 1 .. Len(query) : u[i] \in After(keypad, name, query, u, i)
      BY <2>4, <2>6, <2>7 DEF After
    <3>2. Len(<<>>) = 0 /\ Len(<<>>) + 1 = 1
      OBVIOUS
    <3> QED
      BY <1>6, <2>6, <3>1, <3>2 DEF GoesOn
  <2> QED
    BY <1>2, <2>1, <2>6, <2>8
<1>7. CASE Len(query) # 1
  <2>1. first \in Starts(keypad, name, query)
    BY <1>3, <1>5, <1>7 DEF Starts
  <2>2. ASSUME NEW i \in 1 .. Len(query)
        PROVE  t[i] \in After(keypad, name, query, t, i)
    <3>1. CASE i = 1
      BY <1>2, <2>1, <3>1 DEF After
    <3>2. CASE i # 1
      <4>1. PICK h \in 1 .. Len(query) : h = i - 1
        BY <3>2
      <4>2. PICK p \in SearchPos : p = t[i] /\ IsPlace(keypad, name, query, t, i)
        BY DEF IsPath, IsPlace
      <4>3. PICK at \in SearchPos : at = t[h] /\ IsPlace(keypad, name, query, t, h)
        BY DEF IsPath, IsPlace
      <4>4. PICK input : input = query[i]
        OBVIOUS
      <4>5. /\ p.word \in DOMAIN name
            /\ p.py \in {1} \union DOMAIN Readings(name[p.word])
            /\ IsMatch(keypad, name[p.word], p.py, p.char, input)
        BY <4>2, <4>4 DEF IsPlace
      <4>6. \/ p.word = at.word + 1 /\ p.char = 1
            \/ /\ p.word = at.word /\ p.py = at.py
               /\ p.char = at.char + 1 /\ Readings(input) = <<>>
        BY <3>2, <4>1, <4>2, <4>3, <4>4 DEF IsPath, IsStep
      <4>7. CASE p.word = at.word + 1 /\ p.char = 1
        <5>1. at.word < Len(name)
          BY <4>5, <4>7 DEF SearchPos
        <5>2. p \in FirstLetters(keypad, name, p.word, input)
          BY <1>4, <4>5, <4>7 DEF FirstLetters
        <5>3. p \in NextWords(keypad, name, at, input)
          BY <4>7, <5>1, <5>2 DEF NextWords
        <5> QED
          BY <3>2, <4>1, <4>2, <4>3, <4>4, <5>3 DEF After
      <4>8. CASE /\ p.word = at.word /\ p.py = at.py
                 /\ p.char = at.char + 1 /\ Readings(input) = <<>>
        <5>1. p = [at EXCEPT !.char = @ + 1]
          BY <4>8 DEF SearchPos
        <5>2. p \in NextLetters(keypad, name, at, input)
          BY <4>5, <4>8, <5>1 DEF NextLetters
        <5> QED
          BY <3>2, <4>1, <4>2, <4>3, <4>4, <5>2 DEF After
      <4> QED
        BY <4>6, <4>7, <4>8
    <3> QED
      BY <3>1, <3>2
  <2>3. Len(<<>>) = 0 /\ Len(<<>>) + 1 = 1
    OBVIOUS
  <2>4. GoesOn(keypad, name, query, <<>>, t)
    BY <1>1, <2>2, <2>3 DEF GoesOn
  <2> QED
    BY <1>1, <2>4
<1> QED
  BY <1>6, <1>7

\* Pieces for consecutive words, the first for word j, make a path.
LEMMA PiecesArePath ==
  ASSUME NEW keypad, NEW name \in Seq(Char), NEW query \in Seq(Char), query # <<>>,
         NEW ends \in Cuts(query), NEW j \in Nat \ {0}, j + Len(ends) - 1 <= Len(name),
         \A k \in DOMAIN ends : Piece(keypad, name[j + k - 1], PieceOf(query, ends, k))
  PROVE  \E t : IsPath(keypad, name, query, t) /\ t[1].word = j
<1>1. PICK n : n = Len(ends) /\ IsCut(query, n, ends) /\ DOMAIN ends = 1 .. n
  <2>1. IsCut(query, Len(ends), ends)
    BY CutResult
  <2> QED
    BY <2>1 DEF IsCut
<1>2. ASSUME NEW k \in 1 .. n
      PROVE  \E py : Run(keypad, name[j + k - 1], py, PieceOf(query, ends, k))
  <2>1. PICK piece \in Seq(Char) : IsPieceOf(query, ends, k, piece)
    BY <1>1, PieceResult
  <2>2. PICK word \in DOMAIN name : word = j + k - 1
    <3>1. j + k - 1 \in DOMAIN name
      BY <1>1 DEF IsCut
    <3> QED
      BY <3>1
  <2>3. /\ name[word] \in Char /\ piece # <<>> /\ piece = PieceOf(query, ends, k)
        /\ Piece(keypad, name[word], piece)
    <3>1. Piece(keypad, name[j + k - 1], PieceOf(query, ends, k))
      BY <1>1
    <3>2. piece # <<>> /\ piece = PieceOf(query, ends, k)
      BY <2>1 DEF IsPieceOf
    <3> QED
      BY <2>2, <3>1, <3>2
  <2>4. \E py : Run(keypad, name[word], py, piece)
    BY <2>3, PieceIsRun
  <2> QED
    BY <2>2, <2>3, <2>4
<1> DEFINE py == [k \in 1 .. n |->
                    CHOOSE p : Run(keypad, name[j + k - 1], p, PieceOf(query, ends, k))]
<1>3. \A k \in 1 .. n : Run(keypad, name[j + k - 1], py[k], PieceOf(query, ends, k))
  BY <1>2
<1>4. Reads(keypad, name, query, j, n, ends, py)
  <2> HIDE DEF py
  <2> QED
    BY <1>1, <1>3 DEF Reads
<1>5. PICK t : IsPath(keypad, name, query, t) /\ t[1].word = j
  <2> HIDE DEF py
  <2> QED
    BY <1>1, <1>4, CutIsPath
<1> QED
  BY <1>5

\* IsHit finds a match exactly where the text can be cut into pieces for
\* consecutive words, one of the first POS_SIGN ones for the first: whatever
\* order it tries the words, readings and letters in, it misses none.
THEOREM HitsAreMatches ==
  ASSUME NEW keypad, NEW name \in Seq(Char), NEW query \in Seq(Char), query # <<>>,
         ~RepeatsSymbol(query)
  PROVE  IsHit(keypad, name, query) <=> Matches(keypad, name, query)
<1>1. PICK path \in Seq(SearchPos) :
        /\ path = MatchPath(keypad, name, query)
        /\ TryResult(keypad, name, query, <<>>, path)
  BY MatchPathResult
<1>2. IsHit(keypad, name, query) <=> path # <<>> /\ path[1].word <= POS_SIGN
  BY <1>1 DEF IsHit
<1>3. ASSUME path # <<>>, path[1].word <= POS_SIGN
      PROVE  Matches(keypad, name, query)
  <2>1. IsPath(keypad, name, query, path)
    <3>1. GoesOn(keypad, name, query, <<>>, path)
      BY <1>1, <1>3 DEF TryResult
    <3>2. \A i \in 1 .. Len(query) :
            IsPlace(keypad, name, query, path, i) /\ IsStep(query, path, i)
      BY <3>1, PathSteps
    <3> QED
      BY <3>1, <3>2 DEF IsPath, GoesOn
  <2>cut. PICK ends \in Cuts(query) :
            \E py : IsCutBy(keypad, name, query, path, Len(ends), ends, py)
    BY <2>1, PathIsCut
  <2>2. PICK py : Reads(keypad, name, query, path[1].word, Len(ends), ends, py)
    BY <2>cut DEF IsCutBy
  <2>3. PICK n \in Nat : n = Len(ends) /\ IsCut(query, n, ends)
    <3>1. IsCut(query, Len(ends), ends)
      BY CutResult
    <3>2. Len(ends) \in 1 .. Len(query)
      BY <3>1, Zenon DEF IsCut
    <3>3. Len(ends) \in Nat
      BY <3>2
    <3> QED
      BY <3>1, <3>3, Zenon
  <2>4. PICK j \in 1 .. POS_SIGN : j = path[1].word /\ j + n - 1 <= Len(name)
    <3>1. path[1].word \in Nat \ {0} /\ path[1].word + n - 1 <= Len(name)
      BY <2>2, <2>3 DEF Reads
    <3>2. path[1].word \in 1 .. POS_SIGN
      BY <1>3, <3>1, PinYinAssumption
    <3> QED
      BY <3>1, <3>2
  <2>5. ASSUME NEW k \in 1 .. n
        PROVE  Piece(keypad, name[j + k - 1], PieceOf(query, ends, k))
    <3>1. PICK piece \in Seq(Char) : IsPieceOf(query, ends, k, piece)
      BY <2>3, PieceResult
    <3>2. ~RepeatsSymbol(piece)
      BY <2>3, <3>1, PieceRepeats
    <3>3. PICK word \in DOMAIN name : word = j + k - 1
      <4>1. j + k - 1 \in DOMAIN name
        BY <2>4
      <4> QED
        BY <4>1
    <3>4. Run(keypad, name[word], py[k], piece)
      BY <2>2, <2>3, <2>4, <3>1, <3>3 DEF Reads, IsPieceOf
    <3>5. name[word] \in Char /\ piece # <<>>
      BY <3>1 DEF IsPieceOf
    <3>6. Piece(keypad, name[word], piece)
      BY <3>2, <3>4, <3>5, RunIsPiece
    <3> QED
      BY <3>1, <3>3, <3>6 DEF IsPieceOf
  <2>6. DOMAIN ends = 1 .. n
    BY <2>3 DEF IsCut
  <2> QED
    BY <2>3, <2>4, <2>5, <2>6 DEF Matches
<1>4. ASSUME Matches(keypad, name, query)
      PROVE  path # <<>> /\ path[1].word <= POS_SIGN
  <2>1. PICK ends \in Cuts(query), j \in 1 .. POS_SIGN :
          /\ j + Len(ends) - 1 <= Len(name)
          /\ \A k \in DOMAIN ends : Piece(keypad, name[j + k - 1], PieceOf(query, ends, k))
    BY <1>4 DEF Matches
  <2>2. PICK t : IsPath(keypad, name, query, t) /\ t[1].word = j
    <3>1. j \in Nat \ {0}
      BY PinYinAssumption
    <3> QED
      BY <2>1, <3>1, PiecesArePath
  <2>3. PICK u \in Seq(SearchPos) :
          GoesOn(keypad, name, query, <<>>, u) /\ u[1].word = j
    BY <2>2, PathIsFound
  <2>4. path # <<>> /\ path[1].word <= j
    BY <1>1, <2>3 DEF TryResult
  <2>5. path[1].word \in Nat
    <3>1. path[1] \in SearchPos
      BY <2>4
    <3> QED
      BY <3>1 DEF SearchPos
  <2> QED
    BY <2>4, <2>5, PinYinAssumption
<1> QED
  BY <1>2, <1>3, <1>4

-----------------------------------------------------------------------------
(* What a match spells *)

\* The path of a match is a path for the text.
LEMMA MatchIsPath ==
  ASSUME NEW keypad, NEW name \in Seq(Char), NEW query \in Seq(Char), query # <<>>,
         MatchPath(keypad, name, query) # <<>>
  PROVE  IsPath(keypad, name, query, MatchPath(keypad, name, query))
<1>1. PICK path \in Seq(SearchPos) :
        /\ path = MatchPath(keypad, name, query)
        /\ TryResult(keypad, name, query, <<>>, path)
  BY MatchPathResult
<1>2. GoesOn(keypad, name, query, <<>>, path)
  BY <1>1 DEF TryResult
<1>3. \A i \in 1 .. Len(query) : IsPlace(keypad, name, query, path, i) /\ IsStep(query, path, i)
  BY <1>2, PathSteps
<1> QED
  BY <1>1, <1>2, <1>3 DEF IsPath, GoesOn

\* A path for a text that repeats no symbol takes of each word one letter, or
\* letters of one reading.
IsLetter(keypad, name, query, t, i) ==
  LET word == name[t[i].word]
      reading == Readings(word)[t[i].py]
  IN IF Readings(word) = <<>>
     THEN /\ t[i].py = 1 /\ t[i].char = 1 /\ (i = 1 \/ t[i - 1].word # t[i].word)
          /\ CompareWord(keypad, word, query[i])
     ELSE /\ t[i].py \in DOMAIN Readings(word) /\ t[i].char \in DOMAIN reading
          /\ query[i] \notin Wide => CompareWord(keypad, reading[t[i].char], query[i])
          /\ query[i] \in Wide => query[i] \in Hanzi

LEMMA PathLetters ==
  ASSUME NEW keypad, NEW name \in Seq(Char), NEW query \in Seq(Char), NEW t,
         IsPath(keypad, name, query, t), ~RepeatsSymbol(query), NEW i \in 1 .. Len(query)
  PROVE  IsLetter(keypad, name, query, t, i)
<1>1. PICK p \in SearchPos, word \in Char, input \in Char :
        /\ p = t[i] /\ word = name[p.word] /\ input = query[i]
        /\ p.py \in {1} \union DOMAIN Readings(word)
        /\ IsMatch(keypad, word, p.py, p.char, input)
  BY DEF IsPath, IsPlace
<1>2. IsStep(query, t, i)
  BY DEF IsPath
<1>3. CASE Readings(word) = <<>>
  <2>1. CompareWord(keypad, word, input) /\ p.py = 1 /\ (p.char # 1 => input \in Wide)
    BY <1>1, <1>3, IsMatchResult
  <2>2. ASSUME i # 1, t[i - 1].word = t[i].word
        PROVE  FALSE
    <3>1. PICK h \in 1 .. Len(query) : h = i - 1 /\ h + 1 = i
      BY <2>2
    <3>2. PICK q \in SearchPos, before \in Char :
            /\ q = t[h] /\ word = name[q.word] /\ before = query[h]
            /\ IsMatch(keypad, word, q.py, q.char, before)
      BY <1>1, <2>2, <3>1 DEF IsPath, IsPlace
    <3>3. p.char = q.char + 1 /\ Readings(input) = <<>>
      <4>1. p.word = q.word /\ p.word \in Nat
        BY <1>1, <2>2, <3>1, <3>2 DEF SearchPos
      <4> QED
        BY <1>1, <1>2, <2>2, <3>1, <3>2, <4>1 DEF IsStep
    <3>4. p.char # 1
      BY <3>3 DEF SearchPos
    <3>5. input \in Wide /\ word = input /\ input \in Symbol
      BY <1>1, <2>1, <3>3, <3>4, IsMatchResult, ReadingsType DEF Wide
    <3>6. before = word
      <4>1. CompareWord(keypad, word, before)
        BY <1>3, <3>2, IsMatchResult
      <4> QED
        BY <3>5, <4>1, CompareResult
    <3>7. query[h] \in Symbol /\ query[h + 1] = query[h] /\ h \in 1 .. Len(query) - 1
      BY <1>1, <3>1, <3>2, <3>5, <3>6
    <3> QED
      BY <3>7 DEF RepeatsSymbol
  <2>3. t[i].char = 1
    BY <1>2, <2>2 DEF IsStep
  <2> QED
    BY <1>1, <1>3, <2>1, <2>2, <2>3 DEF IsLetter
<1>4. CASE Readings(word) # <<>>
  <2>1. PICK readings \in Seq(Seq(Letter) \ {<<>>}) : readings = Readings(word)
    BY ReadingsType
  <2>2. p.py \in DOMAIN readings
    BY <1>1, <1>4, <2>1
  <2>3. PICK reading \in Seq(Letter) \ {<<>>} : reading = readings[p.py]
    BY <2>1, <2>2
  <2>4. CASE input \notin Wide
    <3>1. p.char \in DOMAIN reading /\ CompareWord(keypad, reading[p.char], input)
      BY <1>1, <1>4, <2>1, <2>3, <2>4, IsMatchResult
    <3> QED
      BY <1>1, <1>4, <2>1, <2>2, <2>3, <2>4, <3>1, Zenon DEF IsLetter
  <2>5. CASE input \in Wide
    <3>1. word = input
      BY <1>1, <2>5, IsMatchResult
    <3>2. input \in Hanzi
      BY <1>4, <3>1, ReadingsType
    <3>3. p.char = 1
      BY <1>1, <1>2, <1>4, <3>1 DEF IsStep
    <3>4. p.char \in DOMAIN reading
      BY <2>3, <3>3
    <3> QED
      BY <1>1, <1>4, <2>1, <2>2, <2>3, <2>5, <3>2, <3>4, Zenon DEF IsLetter
  <2> QED
    BY <2>4, <2>5
<1> QED
  BY <1>3, <1>4

\* The letters taken of one word are of one reading.
IsSteady(query, t) == \A i, j \in 1 .. Len(query) :
  t[i].word = t[j].word => t[i].py = t[j].py

LEMMA OneReading ==
  ASSUME NEW keypad, NEW name, NEW B, NEW query \in Seq(B), NEW t,
         IsPath(keypad, name, query, t)
  PROVE  IsSteady(query, t)
<1> SUFFICES ASSUME NEW i \in 1 .. Len(query), NEW j \in i .. Len(query), t[i].word = t[j].word
             PROVE  t[i].py = t[j].py
  BY DEF IsSteady
<1> DEFINE P == {n \in Nat : n \in i .. j => t[n].py = t[i].py}
<1>0. \A a \in 1 .. Len(query) : t[a].word \in Nat
  BY DEF IsPath, IsPlace, SearchPos
<1>1. \A n \in i .. j : t[n].word = t[i].word
  <2>1. Climbs(Len(query), WordsOf(query, t))
    BY WordsClimb
  <2>2. \A a, b \in 1 .. Len(query) : a <= b => t[a].word <= t[b].word
    <3>1. \A a, b \in 1 .. Len(query) :
            a <= b => WordsOf(query, t)[a] <= WordsOf(query, t)[b]
      BY <2>1, ClimbsUp
    <3> QED
      BY <3>1 DEF WordsOf
  <2>3. ASSUME NEW n \in i .. j PROVE t[n].word = t[i].word
    <3>1. t[i].word <= t[n].word /\ t[n].word <= t[j].word
      BY <2>2
    <3> QED
      BY <1>0, <3>1
  <2> QED
    BY <2>3
<1>2. ASSUME NEW n \in Nat, \A m \in 0 .. n - 1 : m \in P
      PROVE  n \in P
  <2> SUFFICES ASSUME n \in i .. j PROVE t[n].py = t[i].py
    OBVIOUS
  <2>1. CASE n = i
    BY <2>1
  <2>2. CASE n # i
    <3>1. PICK k \in i .. j : k = n - 1 /\ k \in 0 .. n - 1 /\ n # 1 /\ n \in 1 .. Len(query)
      BY <2>2
    <3>2. t[k].py = t[i].py /\ t[n].word = t[k].word /\ t[k].word \in Nat
      BY <1>0, <1>1, <1>2, <3>1
    <3> QED
      BY <3>1, <3>2 DEF IsPath, IsStep
  <2> QED
    BY <2>1, <2>2
<1>3. \A n \in Nat : n \in P
  <2> HIDE DEF P
  <2> QED
    BY <1>2, NatInduct
<1> QED
  BY <1>3

\* What rises within as many numbers as it has values takes them all in turn.
LEMMA RisesInTurn ==
  ASSUME NEW n \in Nat, NEW f \in [1 .. n -> Nat],
         \A i \in 1 .. n : 1 <= f[i] /\ f[i] <= n,
         \A i \in 2 .. n : f[i - 1] < f[i]
  PROVE  \A i \in 1 .. n : f[i] = i
<1> DEFINE P == {i \in Nat : i \in 1 .. n => i <= f[i]}
           Q == {d \in Nat : \A i \in 1 .. n : i = n - d => f[i] <= i}
<1>1. ASSUME NEW i \in Nat, \A m \in 0 .. i - 1 : m \in P
      PROVE  i \in P
  <2> SUFFICES ASSUME i \in 1 .. n PROVE i <= f[i]
    OBVIOUS
  <2>1. CASE i = 1
    BY <2>1
  <2>2. CASE i # 1
    <3>1. PICK h \in 1 .. n : h = i - 1 /\ h \in 0 .. i - 1 /\ i \in 2 .. n
      BY <2>2
    <3>2. h <= f[h] /\ f[h] < f[i] /\ f[h] \in Nat /\ f[i] \in Nat
      BY <1>1, <3>1
    <3> QED
      BY <3>1, <3>2
  <2> QED
    BY <2>1, <2>2
<1>2. ASSUME NEW d \in Nat, \A m \in 0 .. d - 1 : m \in Q
      PROVE  d \in Q
  <2> SUFFICES ASSUME NEW i \in 1 .. n, i = n - d PROVE f[i] <= i
    OBVIOUS
  <2>1. CASE d = 0
    BY <2>1
  <2>2. CASE d # 0
    <3>1. PICK h \in 2 .. n, c \in 0 .. d - 1 : h - 1 = i /\ h = n - c /\ h \in 1 .. n
      <4>1. i + 1 \in 2 .. n /\ d - 1 \in 0 .. d - 1 /\ i + 1 = n - (d - 1)
        BY <2>2
      <4> QED
        BY <4>1
    <3>2. f[h] <= h
      BY <1>2, <3>1
    <3>3. f[i] < f[h]
      BY <3>1
    <3>4. f[h] \in Nat /\ f[i] \in Nat
      BY <3>1
    <3> QED
      BY <3>1, <3>2, <3>3, <3>4
  <2> QED
    BY <2>1, <2>2
<1>3. \A i \in Nat : i \in P
  <2> HIDE DEF P
  <2> QED
    BY <1>1, NatInduct
<1>4. \A d \in Nat : d \in Q
  <2> HIDE DEF Q
  <2> QED
    BY <1>2, NatInduct
<1>5. ASSUME NEW i \in 1 .. n PROVE f[i] = i
  <2>1. i <= f[i] /\ f[i] \in Nat
    BY <1>3
  <2>2. PICK d \in Nat : d = n - i /\ i = n - d
    OBVIOUS
  <2>3. f[i] <= i
    BY <1>4, <2>2
  <2> QED
    BY <2>1, <2>3
<1> QED
  BY <1>5

-----------------------------------------------------------------------------
(* Texts that spell the name *)

\* The pieces of a text that spells the name: as long as the words.
WholeWord(word, start, end) ==
  IF Readings(word) = <<>> THEN end = start
  ELSE /\ DOMAIN Readings(word) = {1}
       /\ DOMAIN Readings(word)[1] = 1 .. end - start + 1

Whole(name, ends, n) == \A w \in 1 .. n : WholeWord(name[w], StartOf(ends, w), ends[w])

LEMMA SpellingIsWhole ==
  ASSUME NEW keypad, NEW name \in Seq(Char), NEW query \in Seq(Char), query # <<>>,
         Spells(keypad, name, query), \A c \in ToSet(name) : Len(Readings(c)) <= 1
  PROVE  \E ends : IsCut(query, Len(name), ends) /\ Whole(name, ends, Len(name))
<1>1. PICK ends \in Cuts(query) :
        /\ Len(ends) = Len(name)
        /\ \A k \in DOMAIN ends : FullPiece(keypad, name[k], PieceOf(query, ends, k))
  BY DEF Spells
<1>2. PICK n \in Nat : n = Len(name) /\ IsCut(query, n, ends) /\ DOMAIN ends = 1 .. n
  <2>1. IsCut(query, Len(ends), ends)
    BY CutResult
  <2>2. DOMAIN ends = 1 .. Len(ends)
    BY <2>1 DEF IsCut
  <2>3. Len(name) \in Nat
    OBVIOUS
  <2> QED
    BY <1>1, <2>1, <2>2, <2>3
<1>3. ASSUME NEW w \in 1 .. n
      PROVE  WholeWord(name[w], StartOf(ends, w), ends[w])
  <2>1. PICK piece \in Seq(Char) : IsPieceOf(query, ends, w, piece)
    BY <1>2, PieceResult
  <2>2. PICK word \in Char : word = name[w] /\ word \in ToSet(name)
    BY <1>2 DEF ToSet
  <2>3. FullPiece(keypad, word, piece)
    BY <1>1, <1>2, <2>1, <2>2 DEF IsPieceOf
  <2>4. PICK s \in Nat, e \in Nat : s = StartOf(ends, w) /\ e = ends[w] /\ Len(piece) = e - s + 1
    <3>1. StartOf(ends, w) \in 1 .. ends[w] /\ ends[w] \in 1 .. Len(query)
      BY <1>2 DEF IsCut
    <3> QED
      BY <2>1, <3>1 DEF IsPieceOf
  <2>5. CASE Readings(word) = <<>>
    <3>1. ToSet(Readings(word)) = {}
      BY <2>5 DEF ToSet
    <3>2. Len(piece) = 1
      BY <2>3, <3>1 DEF FullPiece, Piece
    <3>3. e = s
      <4>1. 1 = e - s + 1
        BY <2>4, <3>2
      <4> QED
        BY <4>1
    <3>4. WholeWord(word, s, e)
      BY <2>5, <3>3 DEF WholeWord
    <3> QED
      BY <2>2, <2>4, <3>4
  <2>6. CASE Readings(word) # <<>>
    <3>1. PICK readings \in Seq(Seq(Letter) \ {<<>>}) : readings = Readings(word)
      BY ReadingsType
    <3>2. DOMAIN readings = {1}
      <4>1. Len(readings) <= 1
        BY <2>2, <3>1
      <4>2. PICK l \in Nat : l = Len(readings) /\ l # 0 /\ l <= 1
        <5>1. readings # <<>>
          BY <2>6, <3>1
        <5>2. Len(readings) \in Nat /\ Len(readings) # 0
          BY <5>1
        <5> QED
          BY <4>1, <5>2
      <4>3. Len(readings) = 1
        BY <4>2
      <4> QED
        BY <4>3
    <3>3. PICK reading \in ToSet(readings) : Len(piece) = Len(reading)
      BY <2>3, <2>6, <3>1 DEF FullPiece
    <3>4. reading = readings[1] /\ reading \in Seq(Letter)
      <4>1. readings[1] \in Seq(Letter)
        <5>1. 1 \in DOMAIN readings
          BY <3>2
        <5>2. readings[1] \in Seq(Letter) \ {<<>>}
          BY <5>1
        <5> QED
          BY <5>2
      <4>2. reading = readings[1]
        BY <3>2, <3>3 DEF ToSet
      <4> QED
        BY <4>1, <4>2
    <3>5. DOMAIN readings[1] = 1 .. e - s + 1
      BY <2>4, <3>3, <3>4
    <3>6. WholeWord(word, s, e)
      BY <2>6, <3>1, <3>2, <3>5 DEF WholeWord
    <3> QED
      BY <2>2, <2>4, <3>6
  <2> QED
    BY <2>5, <2>6
<1> QED
  BY <1>2, <1>3 DEF Whole

\* Where a path is in the pieces of such a text: at the letter itself.
LEMMA PathIsWhole ==
  ASSUME NEW keypad, NEW name \in Seq(Char), NEW query \in Seq(Char), query # <<>>,
         NEW t, IsPath(keypad, name, query, t), ~RepeatsSymbol(query), t[1].word = 1,
         NEW ends, IsCut(query, Len(name), ends), Whole(name, ends, Len(name))
  PROVE  \A i \in 1 .. Len(query) :
           /\ i = StartOf(ends, t[i].word) + t[i].char - 1
           /\ i \in StartOf(ends, t[i].word) .. ends[t[i].word]
<1>1. PICK n \in Nat : n = Len(query) /\ 1 \in 1 .. n
  OBVIOUS
<1> DEFINE s(i) == StartOf(ends, t[i].word)
           e(i) == ends[t[i].word]
           f == [i \in 1 .. n |-> s(i) + t[i].char - 1]
<1>2. ASSUME NEW i \in 1 .. n
      PROVE  /\ s(i) \in Nat /\ e(i) \in Nat /\ t[i].char \in Nat /\ f[i] \in Nat
             /\ f[i] = s(i) + t[i].char - 1
             /\ 1 <= s(i) /\ s(i) <= f[i] /\ f[i] <= e(i) /\ e(i) <= n
  <2>1. PICK p \in SearchPos : p = t[i] /\ p.word \in 1 .. Len(name)
    BY <1>1 DEF IsPath, IsPlace
  <2>2. PICK a \in Nat, b \in Nat : /\ a = s(i) /\ b = e(i)
                                    /\ 1 <= a /\ a <= b /\ b <= n
    <3>1. StartOf(ends, p.word) \in 1 .. ends[p.word] /\ ends[p.word] \in 1 .. Len(query)
      BY <2>1 DEF IsCut
    <3> QED
      BY <1>1, <2>1, <3>1
  <2>3. PICK c \in Nat : c = t[i].char /\ 1 <= c /\ c <= b - a + 1
    <3>1. IsLetter(keypad, name, query, t, i)
      BY <1>1, PathLetters
    <3>2. CASE Readings(name[p.word]) = <<>>
      <4>1. p.char = 1
        BY <2>1, <3>1, <3>2 DEF IsLetter
      <4> QED
        BY <2>1, <2>2, <4>1
    <3>3. CASE Readings(name[p.word]) # <<>>
      <4>1. /\ p.py \in DOMAIN Readings(name[p.word])
            /\ p.char \in DOMAIN Readings(name[p.word])[p.py]
        BY <2>1, <3>1, <3>3, Zenon DEF IsLetter
      <4>2. /\ DOMAIN Readings(name[p.word]) = {1}
            /\ DOMAIN Readings(name[p.word])[1] = 1 .. b - a + 1
        <5>1. WholeWord(name[p.word], a, b)
          BY <2>1, <2>2 DEF Whole
        <5> QED
          BY <3>3, <5>1 DEF WholeWord
      <4>3. p.char \in 1 .. b - a + 1
        BY <4>1, <4>2
      <4> QED
        BY <2>1, <2>2, <4>3
    <3> QED
      BY <3>2, <3>3
  <2>4. f[i] = a + c - 1
    BY <2>2, <2>3
  <2>5. a + c - 1 \in Nat /\ a <= a + c - 1 /\ a + c - 1 <= b
    BY <2>3
  <2> HIDE DEF f, s, e
  <2> QED
    BY <2>2, <2>3, <2>4, <2>5
<1>3. ASSUME NEW i \in 2 .. n
      PROVE  f[i - 1] < f[i]
  <2>1. PICK h \in 1 .. n : h = i - 1 /\ i \in 1 .. n /\ i # 1
    OBVIOUS
  <2>2. PICK p \in SearchPos, q \in SearchPos :
          /\ p = t[h] /\ q = t[i] /\ p.word \in 1 .. Len(name) /\ q.word \in 1 .. Len(name)
    BY <1>1, <2>1 DEF IsPath, IsPlace
  <2>3. \/ q.word = p.word + 1
        \/ q.word = p.word /\ q.char = p.char + 1
    BY <1>1, <2>1, <2>2 DEF IsPath, IsStep
  <2>4. CASE q.word = p.word /\ q.char = p.char + 1
    <3>1. s(h) = s(i) /\ t[i].char = t[h].char + 1
      BY <2>2, <2>4
    <3> HIDE DEF f, s, e
    <3>2. PICK a \in Nat, c \in Nat : a = s(h) /\ c = t[h].char /\ f[h] = a + c - 1
      BY <1>2
    <3>3. f[i] = a + (c + 1) - 1
      BY <1>2, <2>1, <3>1, <3>2
    <3> QED
      BY <2>1, <3>2, <3>3
  <2>5. CASE q.word = p.word + 1
    <3>1. q.word # 1 /\ q.word - 1 = p.word
      BY <2>2, <2>5
    <3>2. s(i) = e(h) + 1
      BY <2>2, <3>1 DEF StartOf
    <3> HIDE DEF f, s, e
    <3>3. f[h] \in Nat /\ e(h) \in Nat /\ f[h] <= e(h)
      BY <1>2
    <3>4. f[i] \in Nat /\ e(h) + 1 <= f[i]
      BY <1>2, <2>1, <3>2
    <3> QED
      BY <2>1, <3>3, <3>4
  <2> QED
    BY <2>3, <2>4, <2>5
<1>4. \A i \in 1 .. n : f[i] = i
  <2>1. f \in [1 .. n -> Nat]
    <3>1. \A i \in 1 .. n : f[i] \in Nat
      BY <1>2
    <3> QED
      BY <3>1
  <2>2. \A i \in 1 .. n : 1 <= f[i] /\ f[i] <= n
    <3> HIDE DEF f, s, e
    <3> QED
      BY <1>2
  <2> HIDE DEF f
  <2> QED
    BY <1>3, <2>1, <2>2, RisesInTurn
<1>5. ASSUME NEW i \in 1 .. n
      PROVE  i = s(i) + t[i].char - 1 /\ i \in s(i) .. e(i)
  <2> HIDE DEF f, s, e
  <2>1. PICK a \in Nat, b \in Nat : a = s(i) /\ b = e(i) /\ a <= f[i] /\ f[i] <= b
    BY <1>2
  <2>2. f[i] = i /\ f[i] = s(i) + t[i].char - 1
    BY <1>2, <1>4
  <2> QED
    BY <2>1, <2>2
<1> QED
  BY <1>1, <1>5

\* The path of a text that spells the name goes to the end of every word.
LEMMA PathSpells ==
  ASSUME NEW keypad, NEW name \in Seq(Char), NEW query \in Seq(Char), query # <<>>,
         NEW t, IsPath(keypad, name, query, t), ~RepeatsSymbol(query), t[1].word = 1,
         Spells(keypad, name, query), \A c \in ToSet(name) : Len(Readings(c)) <= 1
  PROVE  t[Len(query)].word = Len(name) /\ SpellsReadings(name, t)
<1>1. PICK ends : IsCut(query, Len(name), ends) /\ Whole(name, ends, Len(name))
  BY SpellingIsWhole
<1>2. PICK n \in Nat : n = Len(query) /\ n \in 1 .. n /\ DOMAIN t = 1 .. n /\ Len(t) = n
  BY DEF IsPath
<1>3. ASSUME NEW i \in 1 .. n
      PROVE  /\ i = StartOf(ends, t[i].word) + t[i].char - 1
             /\ i \in StartOf(ends, t[i].word) .. ends[t[i].word]
  <2>1. \A k \in 1 .. Len(query) :
          /\ k = StartOf(ends, t[k].word) + t[k].char - 1
          /\ k \in StartOf(ends, t[k].word) .. ends[t[k].word]
    BY <1>1, PathIsWhole
  <2> QED
    BY <1>2, <2>1
<1>4. ASSUME NEW i \in 1 .. n
      PROVE  t[i] \in SearchPos /\ t[i].word \in 1 .. Len(name)
  BY <1>2 DEF IsPath, IsPlace
<1>5. PICK m \in Nat : /\ m = Len(name) /\ m \in 1 .. m /\ ends[m] = n
                       /\ ends \in [1 .. m -> 1 .. n]
  <2>1. Len(name) \in Nat /\ Len(name) \in 1 .. Len(name)
    BY <1>2, <1>4
  <2> QED
    BY <1>1, <1>2, <2>1 DEF IsCut
<1>6. t[n].word = m
  <2>1. PICK w \in 1 .. m : w = t[n].word
    BY <1>2, <1>4, <1>5
  <2>2. n <= ends[w] /\ ends[w] \in 1 .. n
    <3>1. n \in StartOf(ends, w) .. ends[w] /\ ends[w] \in 1 .. n
      BY <1>2, <1>3, <1>5, <2>1
    <3> QED
      BY <3>1
  <2>3. ~ (w < m)
    <3>1. \A h, k \in 1 .. m : h < k => ends[h] < ends[k]
      BY <1>1, <1>5, CutGrows
    <3> QED
      BY <1>5, <2>2, <3>1
  <2> QED
    BY <1>5, <2>1, <2>3
<1>7. ASSUME NEW i \in 1 .. n, i = n \/ t[i + 1].word # t[i].word
      PROVE  \/ Readings(name[t[i].word]) = <<>>
             \/ t[i].char = Len(Readings(name[t[i].word])[t[i].py])
  <2>1. PICK w \in 1 .. m : w = t[i].word
    BY <1>4, <1>5
  <2>2. PICK a \in Nat, b \in Nat, c \in Nat :
          /\ a = StartOf(ends, w) /\ b = ends[w] /\ c = t[i].char
          /\ i = a + c - 1 /\ 1 <= a /\ a <= b
    <3>1. StartOf(ends, w) \in 1 .. ends[w] /\ ends[w] \in 1 .. n
      BY <1>1, <1>2, <1>5, <2>1 DEF IsCut
    <3>2. t[i].char \in Nat /\ i = StartOf(ends, w) + t[i].char - 1
      BY <1>3, <1>4, <2>1 DEF SearchPos
    <3>3. PICK b \in Nat : b = ends[w] /\ StartOf(ends, w) \in 1 .. b
      BY <3>1
    <3>4. StartOf(ends, w) \in Nat /\ 1 <= StartOf(ends, w) /\ StartOf(ends, w) <= b
      BY <3>3
    <3> QED
      BY <3>2, <3>3, <3>4
  <2>3. i = b
    <3>1. CASE i = n
      <4>1. w = m
        BY <1>6, <2>1, <3>1
      <4> QED
        BY <1>5, <2>2, <3>1, <4>1
    <3>2. CASE i # n
      <4>1. PICK h \in 1 .. n : h = i + 1 /\ h # 1 /\ h - 1 = i
        BY <3>2
      <4>2. t[h].word = w + 1
        <5>1. t[h].word = t[h - 1].word + 1 \/ t[h].word = t[h - 1].word
          BY <1>2, <4>1 DEF IsPath, IsStep
        <5> QED
          BY <1>7, <2>1, <3>2, <4>1, <5>1
      <4>3. h \in StartOf(ends, w + 1) .. ends[w + 1] /\ h = StartOf(ends, w + 1) + t[h].char - 1
        BY <1>3, <4>2
      <4>4. t[h].char = 1
        <5>1. \/ t[h].char = 1
              \/ t[h].word = t[h - 1].word
          BY <1>2, <4>1 DEF IsPath, IsStep
        <5> QED
          BY <1>7, <2>1, <3>2, <4>1, <4>2, <5>1
      <4>5. StartOf(ends, w + 1) = b + 1
        BY <2>2 DEF StartOf
      <4> QED
        BY <2>2, <4>1, <4>3, <4>4, <4>5
    <3> QED
      BY <3>1, <3>2
  <2>4. c = b - a + 1
    <3>1. b = a + c - 1
      BY <2>2, <2>3
    <3> QED
      BY <3>1
  <2>5. CASE Readings(name[w]) # <<>>
    <3>1. WholeWord(name[w], a, b)
      BY <1>1, <1>5, <2>2 DEF Whole
    <3>2. IsLetter(keypad, name, query, t, i)
      BY <1>2, PathLetters
    <3>3. t[i].py \in DOMAIN Readings(name[w])
      BY <2>1, <2>5, <3>2, Zenon DEF IsLetter
    <3>4. PICK reading \in Seq(Letter) : reading = Readings(name[w])[t[i].py]
      <4>1. PICK readings \in Seq(Seq(Letter) \ {<<>>}) : readings = Readings(name[w])
        BY ReadingsType
      <4>2. readings[t[i].py] \in Seq(Letter) \ {<<>>}
        BY <3>3, <4>1
      <4> QED
        BY <4>1, <4>2
    <3>5. DOMAIN reading = 1 .. c
      BY <2>4, <2>5, <3>1, <3>3, <3>4 DEF WholeWord
    <3>6. Len(reading) = c
      <4>1. Len(reading) \in Nat /\ 1 .. Len(reading) = 1 .. c
        BY <3>5
      <4> QED
        BY <4>1
    <3> QED
      BY <2>1, <2>2, <3>4, <3>6
  <2> QED
    BY <2>1, <2>5
<1> QED
  BY <1>2, <1>5, <1>6, <1>7 DEF SpellsReadings

\* A path that goes to the end of every word, for all words: the text spells
\* the name.
LEMMA SpelledByPath ==
  ASSUME NEW keypad, NEW name \in Seq(Char), NEW query \in Seq(Char), query # <<>>,
         NEW t, IsPath(keypad, name, query, t), ~RepeatsSymbol(query), t[1].word = 1,
         t[Len(query)].word = Len(name), SpellsReadings(name, t)
  PROVE  Spells(keypad, name, query)
<1>1. PICK ends \in Cuts(query) : \E py : IsCutBy(keypad, name, query, t, Len(ends), ends, py)
  BY PathIsCut
<1>2. PICK py : IsCutBy(keypad, name, query, t, Len(ends), ends, py)
  BY <1>1
<1>3. PICK n \in Nat : n = Len(ends) /\ IsCut(query, n, ends) /\ DOMAIN ends = 1 .. n
  <2>1. IsCut(query, Len(ends), ends)
    BY CutResult
  <2>2. DOMAIN ends = 1 .. Len(ends) /\ Len(ends) \in Nat
    BY <2>1 DEF IsCut
  <2> QED
    BY <2>1, <2>2
<1>4. n = Len(name)
  <2>1. Len(name) = 1 + n - 1
    BY <1>2, <1>3 DEF IsCutBy
  <2> QED
    BY <2>1
<1>5. ASSUME NEW k \in 1 .. n
      PROVE  FullPiece(keypad, name[k], PieceOf(query, ends, k))
  <2>1. PICK word \in Char : word = name[k]
    BY <1>4
  <2>2. PICK piece \in Seq(Char) : IsPieceOf(query, ends, k, piece)
    BY <1>3, PieceResult
  <2>3. piece # <<>> /\ piece = PieceOf(query, ends, k) /\ Len(piece) = ends[k] - StartOf(ends, k) + 1
    BY <2>2 DEF IsPieceOf
  <2>4. PICK p : p = py[k] /\ Run(keypad, word, p, piece)
    <3>1. 1 + k - 1 = k
      OBVIOUS
    <3>2. Run(keypad, name[1 + k - 1], py[k], PieceOf(query, ends, k))
      BY <1>2, <1>3 DEF IsCutBy, Reads
    <3> QED
      BY <2>1, <2>3, <3>1, <3>2
  <2>5. CASE Readings(word) = <<>>
    <3>1. ~RepeatsSymbol(piece)
      BY <1>3, <2>2, PieceRepeats
    <3>2. Piece(keypad, word, piece)
      BY <2>3, <2>4, <3>1, RunIsPiece
    <3> QED
      BY <2>1, <2>3, <2>5, <3>2 DEF FullPiece
  <2>6. CASE Readings(word) # <<>>
    <3>1. p \in DOMAIN Readings(word) /\ Beginning(keypad, word, Readings(word)[p], piece)
      BY <2>3, <2>4, <2>6, RunBegins
    <3>2. PICK i \in 1 .. Len(query) :
            /\ i = ends[k] /\ t[i].word = k
            /\ t[i].char = i - StartOf(ends, k) + 1 /\ t[i].py = p
            /\ \A h \in 1 .. Len(query) : h = i + 1 => t[h].word # t[i].word
      <4>1. LeavesWord(query, t, ends, k, p)
        BY <1>2, <1>3, <2>4 DEF IsCutBy
      <4>2. 1 + k - 1 = k
        OBVIOUS
      <4> QED
        BY <4>1, <4>2 DEF LeavesWord
    <3>3. i = Len(t) \/ t[i + 1].word # t[i].word
      <4>1. Len(t) = Len(query) /\ i \in 1 .. Len(query) /\ Len(query) \in Nat
        BY DEF IsPath
      <4>2. i # Len(query) => i + 1 \in 1 .. Len(query)
        BY <4>1
      <4> QED
        BY <3>2, <4>1, <4>2
    <3>4. i \in DOMAIN t
      BY DEF IsPath
    <3>5. t[i].char = Len(Readings(name[t[i].word])[t[i].py])
      BY <2>1, <2>6, <3>2, <3>3, <3>4 DEF SpellsReadings
    <3>6. Len(piece) = Len(Readings(word)[p])
      BY <2>1, <2>3, <3>2, <3>5
    <3>7. Readings(word)[p] \in ToSet(Readings(word))
      BY <3>1 DEF ToSet
    <3> QED
      BY <2>1, <2>3, <3>1, <3>6, <3>7 DEF FullPiece
  <2> QED
    BY <2>5, <2>6
<1> QED
  BY <1>3, <1>4, <1>5 DEF Spells

\* A text that spells the name is a path from its first word.
LEMMA SpellingIsPath ==
  ASSUME NEW keypad, NEW name \in Seq(Char), NEW query \in Seq(Char), query # <<>>,
         Spells(keypad, name, query)
  PROVE  \E t : IsPath(keypad, name, query, t) /\ t[1].word = 1
<1>1. PICK ends \in Cuts(query) :
        /\ Len(ends) = Len(name)
        /\ \A k \in DOMAIN ends : FullPiece(keypad, name[k], PieceOf(query, ends, k))
  BY DEF Spells
<1>2. DOMAIN ends = 1 .. Len(name)
  <2>1. IsCut(query, Len(ends), ends)
    BY CutResult
  <2> QED
    BY <1>1, <2>1 DEF IsCut
<1>3. PICK j \in Nat \ {0} : j = 1
  OBVIOUS
<1>4. \A k \in DOMAIN ends : Piece(keypad, name[j + k - 1], PieceOf(query, ends, k))
  <2> TAKE k \in DOMAIN ends
  <2>1. j + k - 1 = k
    BY <1>2, <1>3
  <2>2. \A word, piece : FullPiece(keypad, word, piece) => Piece(keypad, word, piece)
    BY Zenon DEF FullPiece, Piece
  <2>3. Piece(keypad, name[k], PieceOf(query, ends, k))
    BY <1>1, <2>2
  <2> QED
    BY <2>1, <2>3
<1>5. j + Len(ends) - 1 <= Len(name)
  BY <1>1, <1>3
<1>6. \E t : IsPath(keypad, name, query, t) /\ t[1].word = j
  BY <1>4, <1>5, PiecesArePath
<1> QED
  BY <1>3, <1>6

\* The weight of a hit says that it is spelled in full only where the text
\* spells the name, and says so if the words have one reading each.
LEMMA WeightSpells ==
  ASSUME NEW keypad, NEW name \in Seq(Char), NEW query \in Seq(Char), query # <<>>,
         ~RepeatsSymbol(query), IsHit(keypad, name, query)
  PROVE  /\ Weight(keypad, name, query).matchAllInPy \in BOOLEAN
         /\ Weight(keypad, name, query).matchAllInPy => Spells(keypad, name, query)
         /\ Spells(keypad, name, query) /\ (\A c \in ToSet(name) : Len(Readings(c)) <= 1) =>
              Weight(keypad, name, query).matchAllInPy
<1>1. PICK path \in Seq(SearchPos) :
        /\ path = MatchPath(keypad, name, query) /\ path # <<>>
        /\ TryResult(keypad, name, query, <<>>, path)
  BY MatchPathResult DEF IsHit
<1>2. IsPath(keypad, name, query, path) /\ Len(path) = Len(query)
  BY <1>1, MatchIsPath DEF IsPath
<1>3. Weight(keypad, name, query).matchAllInPy
        = (/\ path[1].word = 1 /\ path[Len(query)].word = Len(name)
           /\ SpellsReadings(name, path))
  BY <1>1, <1>2 DEF Weight, Last
<1>4. ASSUME Weight(keypad, name, query).matchAllInPy
      PROVE  Spells(keypad, name, query)
  BY <1>2, <1>3, <1>4, SpelledByPath
<1>5. ASSUME Spells(keypad, name, query), \A c \in ToSet(name) : Len(Readings(c)) <= 1
      PROVE  Weight(keypad, name, query).matchAllInPy
  <2>1. path[1].word = 1
    <3>1. PICK t : IsPath(keypad, name, query, t) /\ t[1].word = 1
      BY <1>5, SpellingIsPath
    <3>2. PICK u \in Seq(SearchPos) :
            GoesOn(keypad, name, query, <<>>, u) /\ u[1].word = t[1].word
      BY <3>1, PathIsFound
    <3>3. path[1].word <= 1
      BY <1>1, <3>1, <3>2 DEF TryResult
    <3>4. PICK first \in SearchPos : first = path[1]
      <4>1. 1 \in 1 .. Len(query)
        OBVIOUS
      <4> QED
        BY <1>2, <4>1 DEF IsPath, IsPlace
    <3>5. first.word \in Nat \ {0}
      BY DEF SearchPos
    <3> QED
      BY <3>3, <3>4, <3>5
  <2>2. path[Len(query)].word = Len(name) /\ SpellsReadings(name, path)
    BY <1>2, <1>5, <2>1, PathSpells
  <2> QED
    BY <1>3, <2>1, <2>2
<1> QED
  BY <1>3, <1>4, <1>5
=============================================================================
