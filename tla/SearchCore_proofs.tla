------------------------- MODULE SearchCore_proofs -------------------------
(***************************************************************************)
(* Proofs about the contact search, for any contacts, texts, readings and  *)
(* keypad.                                                                 *)
(***************************************************************************)
EXTENDS SearchCore, PinYinMatch_proofs, FiniteSetTheorems

-----------------------------------------------------------------------------
(* The binary search *)

\* The ranges that FindSearchDataIndex looks at, and how much is left of one.
Ranges(array) == (0 .. Len(array)) \X (-1 .. Len(array) - 1)

Width(range) == IF range[1] > range[2] THEN 0 ELSE range[2] - range[1] + 1

\* One look at the middle of a range, F being the search of a smaller range.
Look(F, array, id, range) ==
  LET low == range[1]
      high == range[2]
      mid == (low + high) \div 2
  IN IF low > high THEN -(low + 1)
     ELSE IF array[mid + 1].id < id THEN F[<<mid + 1, high>>]
     ELSE IF array[mid + 1].id > id THEN F[<<low, mid - 1>>]
     ELSE mid

\* The middle is in the range, and both halves are smaller ranges.
LEMMA Halves ==
  ASSUME NEW n \in Nat, NEW low \in 0 .. n, NEW high \in -1 .. n - 1, low <= high,
         NEW mid, mid = (low + high) \div 2
  PROVE  /\ mid \in low .. high
         /\ <<mid + 1, high>> \in (0 .. n) \X (-1 .. n - 1)
         /\ <<low, mid - 1>> \in (0 .. n) \X (-1 .. n - 1)
         /\ Width(<<mid + 1, high>>) < Width(<<low, high>>)
         /\ Width(<<low, mid - 1>>) < Width(<<low, high>>)
  BY DEF Width

LEMMA WidthType ==
  ASSUME NEW n \in Nat, NEW range \in (0 .. n) \X (-1 .. n - 1)
  PROVE  Width(range) \in 0 .. n
  BY DEF Width

\* The recursion of FindSearchDataIndex is well defined.
LEMMA FindFunction ==
  ASSUME NEW A, NEW array \in Seq(A), NEW id
  PROVE  \E F : /\ F = [range \in Ranges(array) |-> Look(F, array, id, range)]
                /\ FindSearchDataIndex(array, id) = F[<<0, Len(array) - 1>>]
<1> DEFINE n == Len(array)
           D == Ranges(array)
           G == [g \in [D -> Int] |-> [range \in D |-> Look(g, array, id, range)]]
           rank == [range \in D |-> Width(range)]
           f0 == [range \in D |-> 0]
<1>1. \A range \in D : /\ range = <<range[1], range[2]>>
                       /\ range[1] \in 0 .. n /\ range[2] \in -1 .. n - 1
  BY DEF Ranges
<1>2. \A g, h \in [D -> Int], x \in D :
        (\A y \in D : rank[y] < rank[x] => g[y] = h[y]) =>
          Look(g, array, id, x) \in Int /\ Look(g, array, id, x) = Look(h, array, id, x)
  <2> SUFFICES ASSUME NEW g \in [D -> Int], NEW h \in [D -> Int], NEW x \in D,
                      \A y \in D : rank[y] < rank[x] => g[y] = h[y]
               PROVE  /\ Look(g, array, id, x) \in Int
                      /\ Look(g, array, id, x) = Look(h, array, id, x)
    OBVIOUS
  <2>1. CASE x[1] > x[2]
    BY <1>1, <2>1 DEF Look
  <2>2. CASE x[1] <= x[2]
    <3>1. PICK mid : mid = (x[1] + x[2]) \div 2
      OBVIOUS
    <3>2. /\ <<mid + 1, x[2]>> \in D /\ <<x[1], mid - 1>> \in D /\ mid \in Int
          /\ Width(<<mid + 1, x[2]>>) < Width(x) /\ Width(<<x[1], mid - 1>>) < Width(x)
      BY <1>1, <2>2, <3>1, Halves DEF Ranges
    <3>3. /\ g[<<mid + 1, x[2]>>] = h[<<mid + 1, x[2]>>]
          /\ g[<<x[1], mid - 1>>] = h[<<x[1], mid - 1>>]
          /\ g[<<mid + 1, x[2]>>] \in Int /\ g[<<x[1], mid - 1>>] \in Int
      BY <3>2
    <3>4. \A F : Look(F, array, id, x) = IF array[mid + 1].id < id THEN F[<<mid + 1, x[2]>>]
                 ELSE IF array[mid + 1].id > id THEN F[<<x[1], mid - 1>>] ELSE mid
      BY <1>1, <2>2, <3>1 DEF Look
    <3> HIDE DEF D
    <3> QED
      BY <3>2, <3>3, <3>4
  <2> QED
    BY <1>1, <2>1, <2>2
<1>3. Recursion(D, Int, f0, n, rank, G)
  <2>1. n \in Nat /\ rank \in [D -> 0 .. n] /\ f0 \in [D -> Int]
    BY WidthType DEF Ranges
  <2>2. G \in [[D -> Int] -> [D -> Int]]
    BY <1>2
  <2>3. \A g, h \in [D -> Int], x \in D :
          (\A y \in D : rank[y] < rank[x] => g[y] = h[y]) => G[g][x] = G[h][x]
    BY <1>2
  <2> HIDE DEF n, D, G, rank, f0
  <2> QED
    BY <2>1, <2>2, <2>3 DEF Recursion
<1>4. \E F : F = [range \in D |-> Look(F, array, id, range)]
  <2>1. \E F \in [D -> Int] : F = G[F]
    <3> HIDE DEF n, D, G, rank, f0
    <3> QED
      BY <1>3, RecursiveFunction
  <2> QED
    BY <2>1
<1>5. PICK F : F = (CHOOSE H : H = [range \in Ranges(array) |-> Look(H, array, id, range)])
  OBVIOUS
<1>6. F = [range \in Ranges(array) |-> Look(F, array, id, range)]
  BY <1>4, <1>5, Zenon
<1>7. FindSearchDataIndex(array, id) = F[<<0, Len(array) - 1>>]
  BY <1>5, Zenon DEF FindSearchDataIndex, Ranges, Look
<1> QED
  BY <1>6, <1>7, Zenon

\* x tells where the contact is, or between which contacts it would be.
Located(array, id, x) ==
  /\ x \in Int
  /\ x >= 0 => x + 1 \in DOMAIN array /\ array[x + 1].id = id
  /\ x < 0 => /\ -x \in 1 .. Len(array) + 1
              /\ \A i \in DOMAIN array : IF i < -x THEN array[i].id < id ELSE id < array[i].id

\* The contact can only be in the range.
Around(array, id, range) ==
  /\ \A i \in DOMAIN array : i <= range[1] => array[i].id < id
  /\ \A i \in DOMAIN array : i > range[2] + 1 => id < array[i].id

\* In a sorted list the binary search finds the contact, or its place.
LEMMA FindResult ==
  ASSUME NEW A, \A a \in A : a.id \in Int,
         NEW array \in Seq(A), SortedById(array), NEW id \in Int
  PROVE  Located(array, id, FindSearchDataIndex(array, id))
<1>1. PICK F : /\ F = [range \in Ranges(array) |-> Look(F, array, id, range)]
               /\ FindSearchDataIndex(array, id) = F[<<0, Len(array) - 1>>]
  BY FindFunction
<1>2. \A range \in Ranges(array) : F[range] = Look(F, array, id, range)
  BY <1>1
<1> DEFINE n == Len(array)
           P == {w \in Nat : \A range \in Ranges(array) :
                   Width(range) = w /\ Around(array, id, range) => Located(array, id, F[range])}
<1>3. n \in Nat /\ DOMAIN array = 1 .. n /\ \A i \in 1 .. n : array[i].id \in Int
  OBVIOUS
<1>4. ASSUME NEW w \in Nat, \A m \in 0 .. w - 1 : m \in P
      PROVE  w \in P
  <2> SUFFICES ASSUME NEW low \in 0 .. n, NEW high \in -1 .. n - 1,
                      Width(<<low, high>>) = w, Around(array, id, <<low, high>>)
               PROVE  Located(array, id, F[<<low, high>>])
    BY DEF Ranges
  <2>1. F[<<low, high>>] = Look(F, array, id, <<low, high>>)
    BY <1>2, <1>3 DEF Ranges
  <2>2. /\ \A i \in 1 .. n : i <= low => array[i].id < id
        /\ \A i \in 1 .. n : i > high + 1 => id < array[i].id
    BY <1>3 DEF Around
  <2>3. CASE low > high
    <3>1. F[<<low, high>>] = -(low + 1)
      BY <2>1, <2>3 DEF Look
    <3> QED
      BY <1>3, <2>2, <2>3, <3>1 DEF Located
  <2>4. CASE low <= high
    <3>1. PICK mid : mid = (low + high) \div 2
      OBVIOUS
    <3>2. /\ mid \in low .. high
          /\ <<mid + 1, high>> \in Ranges(array) /\ <<low, mid - 1>> \in Ranges(array)
          /\ Width(<<mid + 1, high>>) < w /\ Width(<<low, mid - 1>>) < w
      BY <1>3, <2>4, <3>1, Halves DEF Ranges
    <3>3. F[<<low, high>>] = IF array[mid + 1].id < id THEN F[<<mid + 1, high>>]
                             ELSE IF array[mid + 1].id > id THEN F[<<low, mid - 1>>] ELSE mid
      BY <2>1, <2>4, <3>1 DEF Look
    <3>4. mid \in Nat /\ mid + 1 \in 1 .. n /\ array[mid + 1].id \in Int
      BY <1>3, <3>2
    <3>5. \A range \in Ranges(array) :
            Width(range) < w /\ Around(array, id, range) => Located(array, id, F[range])
      <4> SUFFICES ASSUME NEW range \in Ranges(array), Width(range) < w,
                          Around(array, id, range)
                   PROVE  Located(array, id, F[range])
        OBVIOUS
      <4>1. Width(range) \in 0 .. w - 1
        BY <1>3, WidthType DEF Ranges
      <4> QED
        BY <1>4, <4>1
    <3>6. \A i, j \in 1 .. n : i < j => array[i].id < array[j].id
      BY <1>3 DEF SortedById
    <3>7. CASE array[mid + 1].id < id
      <4>1. ASSUME NEW i \in 1 .. n, i <= mid + 1
            PROVE  array[i].id < id
        <5>1. i = mid + 1 \/ array[i].id < array[mid + 1].id
          BY <3>4, <3>6, <4>1
        <5> QED
          BY <1>3, <3>4, <3>7, <5>1
      <4>2. Around(array, id, <<mid + 1, high>>)
        BY <1>3, <2>2, <4>1 DEF Around
      <4> QED
        BY <3>2, <3>3, <3>5, <3>7, <4>2
    <3>8. CASE array[mid + 1].id > id
      <4>1. ASSUME NEW i \in 1 .. n, i > mid
            PROVE  array[i].id > id
        <5>1. i = mid + 1 \/ array[mid + 1].id < array[i].id
          BY <3>4, <3>6, <4>1
        <5> QED
          BY <1>3, <3>4, <3>8, <5>1
      <4>2. Around(array, id, <<low, mid - 1>>)
        BY <1>3, <3>4, <2>2, <4>1 DEF Around
      <4> QED
        BY <3>2, <3>3, <3>4, <3>5, <3>8, <4>2
    <3>9. CASE array[mid + 1].id = id
      <4>1. F[<<low, high>>] = mid
        BY <3>3, <3>4, <3>9
      <4> QED
        BY <1>3, <3>4, <3>9, <4>1 DEF Located
    <3> QED
      BY <3>4, <3>7, <3>8, <3>9
  <2> QED
    BY <2>3, <2>4
<1>5. Located(array, id, F[<<0, n - 1>>])
  <2>1. <<0, n - 1>> \in Ranges(array) /\ Around(array, id, <<0, n - 1>>)
    BY <1>3 DEF Ranges, Around
  <2>2. Width(<<0, n - 1>>) \in Nat
    BY <1>3, <2>1, WidthType DEF Ranges
  <2>3. Width(<<0, n - 1>>) \in P
    <3> HIDE DEF P
    <3> QED
      BY <1>4, <2>2, NatInduct
  <2> QED
    BY <2>1, <2>3
<1> QED
  BY <1>1, <1>5

-----------------------------------------------------------------------------
(* Sorted lists of contacts *)

LEMMA IdType == Id \subseteq Int /\ \A d \in SearchData : d.id \in Int
  BY SearchAssumption DEF Id, SearchData

LEMMA HasResult ==
  ASSUME NEW array \in Seq(SearchData), SortedById(array), NEW id \in Int
  PROVE  /\ Has(array, id) <=> \E d \in ToSet(array) : d.id = id
         /\ Has(array, id) =>
              LET i == FindSearchDataIndex(array, id) + 1
              IN i \in DOMAIN array /\ array[i] \in ToSet(array) /\ array[i].id = id
<1> DEFINE x == FindSearchDataIndex(array, id)
<1>1. Located(array, id, x)
  BY IdType, FindResult
<1>2. \A i \in DOMAIN array : array[i].id \in Int /\ i \in Int
  BY IdType
<1> HIDE DEF x
<1>3. CASE x >= 0
  BY <1>1, <1>3 DEF Located, Has, ToSet, x
<1>4. CASE x < 0
  BY <1>1, <1>2, <1>4 DEF Located, Has, ToSet, x
<1> QED
  BY <1>1, <1>3, <1>4 DEF Located

\* The elements of a list with one more, and with one less.
LEMMA InsertAtResult ==
  ASSUME NEW A, NEW list \in Seq(A), NEW k \in 1 .. Len(list) + 1, NEW e \in A
  PROVE  /\ InsertAt(list, k, e) \in Seq(A)
         /\ Len(InsertAt(list, k, e)) = Len(list) + 1
         /\ \A i \in 1 .. Len(list) + 1 :
              InsertAt(list, k, e)[i] =
                IF i < k THEN list[i] ELSE IF i = k THEN e ELSE list[i - 1]
<1>1. PICK a \in Seq(A) : IsPart(a, list, 1, k - 1)
  <2>1. 1 \in 1 .. Len(list) + 1 /\ k - 1 \in 1 - 1 .. Len(list)
    OBVIOUS
  <2> QED
    BY <2>1, PartOf
<1>2. PICK c \in Seq(A) : IsPart(c, list, k, Len(list))
  <2>1. Len(list) \in k - 1 .. Len(list)
    OBVIOUS
  <2> QED
    BY <2>1, PartOf
<1>3. PICK one \in Seq(A) : one = <<e>> /\ Len(one) = 1 /\ one[1] = e
  <2>1. <<e>> \in Seq(A) /\ Len(<<e>>) = 1 /\ <<e>>[1] = e
    OBVIOUS
  <2> QED
    BY <2>1, Zenon
<1>4. PICK b \in Seq(A) : IsJoin(b, a, one)
  BY Joined
<1>5. PICK new \in Seq(A) : IsJoin(new, b, c)
  BY Joined
<1>6. new = InsertAt(list, k, e)
  BY <1>1, <1>2, <1>3, <1>4, <1>5, Zenon DEF InsertAt, IsPart, IsJoin
<1>7. Len(a) = k - 1 /\ \A i \in 1 .. k - 1 : a[i] = list[i]
  BY <1>1 DEF IsPart
<1>8. /\ Len(c) = Len(list) - k + 1
      /\ \A i \in 1 .. Len(list) - k + 1 : c[i] = list[k + i - 1]
  BY <1>2 DEF IsPart
<1>9. Len(b) = k /\ b[k] = e /\ \A i \in 1 .. k - 1 : b[i] = list[i]
  <2>1. Len(b) = k - 1 + 1 /\ \A i \in 1 .. k - 1 : b[i] = a[i]
    BY <1>3, <1>4, <1>7 DEF IsJoin
  <2>2. b[k - 1 + 1] = one[1]
    <3>1. 1 \in 1 .. Len(one)
      BY <1>3
    <3> QED
      BY <1>4, <1>7, <3>1 DEF IsJoin
  <2> QED
    BY <1>3, <1>7, <2>1, <2>2
<1>10. /\ Len(new) = Len(list) + 1
       /\ \A i \in 1 .. k : new[i] = b[i]
       /\ \A i \in 1 .. Len(list) - k + 1 : new[k + i] = c[i]
  BY <1>5, <1>8, <1>9 DEF IsJoin
<1>11. ASSUME NEW i \in 1 .. Len(list) + 1
       PROVE  new[i] = IF i < k THEN list[i] ELSE IF i = k THEN e ELSE list[i - 1]
  <2>1. CASE i <= k
    BY <1>9, <1>10, <2>1
  <2>2. CASE i > k
    <3>1. PICK j \in 1 .. Len(list) - k + 1 : i = k + j
      <4>1. i - k \in 1 .. Len(list) - k + 1 /\ i = k + (i - k)
        BY <2>2
      <4> QED
        BY <4>1, Zenon
    <3>2. new[i] = c[j] /\ c[j] = list[k + j - 1] /\ k + j - 1 = i - 1
      BY <1>8, <1>10, <3>1
    <3> QED
      BY <2>2, <3>2
  <2> QED
    BY <2>1, <2>2
<1> QED
  BY <1>6, <1>10, <1>11

LEMMA RemoveAtResult ==
  ASSUME NEW A, NEW list \in Seq(A), NEW k \in DOMAIN list
  PROVE  /\ RemoveAt(list, k) \in Seq(A)
         /\ Len(RemoveAt(list, k)) = Len(list) - 1
         /\ \A i \in 1 .. Len(list) - 1 :
              RemoveAt(list, k)[i] = IF i < k THEN list[i] ELSE list[i + 1]
<1>1. PICK a \in Seq(A) : IsPart(a, list, 1, k - 1)
  <2>1. 1 \in 1 .. Len(list) + 1 /\ k - 1 \in 1 - 1 .. Len(list)
    OBVIOUS
  <2> QED
    BY <2>1, PartOf
<1>2. PICK c \in Seq(A) : IsPart(c, list, k + 1, Len(list))
  <2>1. k + 1 \in 1 .. Len(list) + 1 /\ Len(list) \in (k + 1) - 1 .. Len(list)
    OBVIOUS
  <2> QED
    BY <2>1, PartOf
<1>3. PICK new \in Seq(A) : IsJoin(new, a, c)
  BY Joined
<1>4. new = RemoveAt(list, k)
  BY <1>1, <1>2, <1>3, Zenon DEF RemoveAt, IsPart, IsJoin
<1>5. Len(a) = k - 1 /\ \A i \in 1 .. k - 1 : a[i] = list[i]
  BY <1>1 DEF IsPart
<1>6. Len(c) = Len(list) - k /\ \A i \in 1 .. Len(list) - k : c[i] = list[k + i]
  BY <1>2 DEF IsPart
<1>7. /\ Len(new) = Len(list) - 1
      /\ \A i \in 1 .. k - 1 : new[i] = a[i]
      /\ \A i \in 1 .. Len(list) - k : new[k - 1 + i] = c[i]
  BY <1>3, <1>5, <1>6 DEF IsJoin
<1>8. ASSUME NEW i \in 1 .. Len(list) - 1
      PROVE  new[i] = IF i < k THEN list[i] ELSE list[i + 1]
  <2>1. CASE i < k
    BY <1>5, <1>7, <2>1
  <2>2. CASE i >= k
    <3>1. PICK j \in 1 .. Len(list) - k : i = k - 1 + j
      <4>1. i - k + 1 \in 1 .. Len(list) - k /\ i = k - 1 + (i - k + 1)
        BY <2>2
      <4> QED
        BY <4>1, Zenon
    <3>2. new[i] = c[j] /\ c[j] = list[k + j] /\ k + j = i + 1
      BY <1>6, <1>7, <3>1
    <3> QED
      BY <2>2, <3>2
  <2> QED
    BY <2>1, <2>2
<1> QED
  BY <1>4, <1>7, <1>8

\* A contact enters a sorted list in its place, once.
LEMMA EnteredResult ==
  ASSUME NEW array \in Seq(SearchData), SortedById(array), NEW data \in SearchData
  PROVE  /\ Entered(array, data) \in Seq(SearchData)
         /\ SortedById(Entered(array, data))
         /\ ToSet(Entered(array, data)) =
              IF Has(array, data.id) THEN ToSet(array) ELSE ToSet(array) \cup {data}
<1>1. data.id \in Int /\ \A i \in DOMAIN array : array[i].id \in Int
  BY IdType
<1>2. PICK x : x = FindSearchDataIndex(array, data.id)
  OBVIOUS
<1>3. Located(array, data.id, x)
  BY <1>1, <1>2, IdType, FindResult
<1>4. CASE x >= 0
  BY <1>2, <1>4 DEF Entered, Has
<1>5. CASE x < 0
  <2>1. PICK k \in 1 .. Len(array) + 1 : k = -x
    BY <1>3, <1>5 DEF Located
  <2>2. \A i \in DOMAIN array : IF i < k THEN array[i].id < data.id ELSE data.id < array[i].id
    BY <1>3, <1>5, <2>1 DEF Located
  <2>3. PICK new \in Seq(SearchData) :
          /\ new = Entered(array, data)
          /\ Len(new) = Len(array) + 1
          /\ \A i \in 1 .. Len(array) + 1 :
               new[i] = IF i < k THEN array[i] ELSE IF i = k THEN data ELSE array[i - 1]
    <3>1. Entered(array, data) = InsertAt(array, k, data)
      BY <1>2, <1>3, <1>5, <2>1 DEF Entered, Located
    <3>2. PICK new : new = InsertAt(array, k, data)
      OBVIOUS
    <3>3. /\ new \in Seq(SearchData) /\ Len(new) = Len(array) + 1
          /\ \A i \in 1 .. Len(array) + 1 :
               new[i] = IF i < k THEN array[i] ELSE IF i = k THEN data ELSE array[i - 1]
      BY <3>2, InsertAtResult
    <3> QED
      BY <3>1, <3>2, <3>3
  <2>4. ASSUME NEW i \in DOMAIN new, NEW j \in DOMAIN new, i < j
        PROVE  new[i].id < new[j].id
    <3>1. \A a, b \in DOMAIN array : a < b => array[a].id < array[b].id
      BY DEF SortedById
    <3>2. i \in 1 .. Len(array) + 1 /\ j \in 1 .. Len(array) + 1
      BY <2>3
    <3>3. CASE i < k /\ j < k
      BY <2>3, <2>4, <3>1, <3>2, <3>3
    <3>4. CASE i < k /\ j = k
      BY <2>2, <2>3, <3>2, <3>4
    <3>5. CASE i < k /\ j > k
      <4>1. i \in DOMAIN array /\ j - 1 \in DOMAIN array /\ i < j - 1
        BY <3>2, <3>5
      <4> QED
        BY <2>3, <3>1, <3>2, <3>5, <4>1
    <3>6. CASE i = k
      <4>1. j - 1 \in DOMAIN array /\ j - 1 >= k
        BY <2>4, <3>2, <3>6
      <4> QED
        BY <2>2, <2>3, <2>4, <3>2, <3>6, <4>1
    <3>7. CASE i > k
      <4>1. i - 1 \in DOMAIN array /\ j - 1 \in DOMAIN array /\ i - 1 < j - 1
        BY <2>4, <3>2, <3>7
      <4> QED
        BY <2>3, <2>4, <3>1, <3>2, <3>7, <4>1
    <3> QED
      BY <2>4, <3>2, <3>3, <3>4, <3>5, <3>6, <3>7
  <2>5. ToSet(new) = ToSet(array) \cup {data}
    <3>1. \A i \in DOMAIN new : new[i] \in ToSet(array) \cup {data}
      BY <2>3 DEF ToSet
    <3>2. \A i \in DOMAIN array : \E j \in DOMAIN new : new[j] = array[i]
      <4>1. \A i \in DOMAIN array : /\ i \in DOMAIN new /\ i < k => new[i] = array[i]
                                    /\ i + 1 \in DOMAIN new /\ i >= k => new[i + 1] = array[i]
        BY <2>3
      <4>2. \A i \in DOMAIN array : i \in DOMAIN new /\ i + 1 \in DOMAIN new
        BY <2>3
      <4>3. \A i \in DOMAIN array : i < k \/ i >= k
        OBVIOUS
      <4> QED
        BY <4>1, <4>2, <4>3
    <3>3. k \in DOMAIN new /\ new[k] = data
      BY <2>3
    <3>4. \A i \in DOMAIN array : array[i] \in ToSet(new)
      BY <3>2 DEF ToSet
    <3>5. data \in ToSet(new)
      BY <3>3, Zenon DEF ToSet
    <3> QED
      BY <3>1, <3>4, <3>5 DEF ToSet
  <2>6. ~Has(array, data.id)
    BY <1>2, <1>3, <1>5 DEF Has, Located
  <2> QED
    BY <2>3, <2>4, <2>5, <2>6 DEF SortedById
<1> QED
  BY <1>3, <1>4, <1>5 DEF Located

\* A contact leaves a sorted list, and only that contact.
LEMMA LeftResult ==
  ASSUME NEW array \in Seq(SearchData), SortedById(array), NEW id \in Int
  PROVE  /\ Left(array, id) \in Seq(SearchData)
         /\ SortedById(Left(array, id))
         /\ ToSet(Left(array, id)) = {d \in ToSet(array) : d.id # id}
<1>1. \A i \in DOMAIN array : array[i].id \in Int
  BY IdType
<1>2. PICK x : x = FindSearchDataIndex(array, id)
  OBVIOUS
<1>3. Located(array, id, x)
  BY <1>2, IdType, FindResult
<1>4. CASE x < 0
  <2>1. Left(array, id) = array
    BY <1>2, <1>3, <1>4 DEF Left, Located
  <2>2. \A i \in DOMAIN array : array[i].id # id
    BY <1>1, <1>3, <1>4 DEF Located
  <2> QED
    BY <2>1, <2>2 DEF ToSet
<1>5. CASE x >= 0
  <2>1. PICK k \in DOMAIN array : k = x + 1 /\ array[k].id = id
    BY <1>3, <1>5 DEF Located
  <2>2. PICK new \in Seq(SearchData) :
          /\ new = Left(array, id)
          /\ Len(new) = Len(array) - 1
          /\ \A i \in 1 .. Len(array) - 1 :
               new[i] = IF i < k THEN array[i] ELSE array[i + 1]
    <3>1. Left(array, id) = RemoveAt(array, k)
      BY <1>2, <1>5, <2>1 DEF Left
    <3> QED
      BY <3>1, RemoveAtResult
  <2>3. ASSUME NEW i \in DOMAIN new, NEW j \in DOMAIN new, i < j
        PROVE  new[i].id < new[j].id
    <3>1. \A a, b \in DOMAIN array : a < b => array[a].id < array[b].id
      BY DEF SortedById
    <3>2. i \in 1 .. Len(array) - 1 /\ j \in 1 .. Len(array) - 1
      BY <2>2
    <3>3. CASE j < k
      BY <2>2, <2>3, <3>1, <3>2, <3>3
    <3>4. CASE i < k /\ j >= k
      <4>1. i \in DOMAIN array /\ j + 1 \in DOMAIN array /\ i < j + 1
        BY <3>2, <2>3
      <4>2. new[i] = array[i] /\ new[j] = array[j + 1]
        BY <2>2, <3>2, <3>4
      <4> QED
        BY <3>1, <4>1, <4>2
    <3>5. CASE i >= k
      <4>1. i + 1 \in DOMAIN array /\ j + 1 \in DOMAIN array /\ i + 1 < j + 1 /\ j >= k
        BY <3>2, <2>3, <3>5
      <4>2. new[i] = array[i + 1] /\ new[j] = array[j + 1]
        BY <2>2, <3>2, <3>5, <4>1
      <4> QED
        BY <3>1, <4>1, <4>2
    <3> QED
      BY <2>3, <3>2, <3>3, <3>4, <3>5
  <2>4. \A i \in DOMAIN array : i = k \/ array[i].id # id
    BY <1>1, <2>1 DEF SortedById
  <2>5. ToSet(new) = {d \in ToSet(array) : d.id # id}
    <3>1. \A i \in DOMAIN new : new[i] \in ToSet(array) /\ new[i].id # id
      BY <2>1, <2>2, <2>4 DEF ToSet
    <3>2. \A i \in DOMAIN array : /\ i < k => new[i] = array[i] /\ i \in DOMAIN new
                                  /\ i > k => new[i - 1] = array[i] /\ i - 1 \in DOMAIN new
      BY <2>2
    <3>3. \A i \in DOMAIN array : array[i].id # id => array[i] \in ToSet(new)
      BY <2>1, <3>2 DEF ToSet
    <3> QED
      BY <3>1, <3>3 DEF ToSet
  <2> QED
    BY <2>2, <2>3, <2>5 DEF SortedById
<1> QED
  BY <1>3, <1>4, <1>5 DEF Located

-----------------------------------------------------------------------------
(* The contacts and the lists that searches start from *)

TreeType(tree) ==
  /\ tree.data \in Seq(SearchData)
  /\ tree.hits \in [Key -> Seq(SearchData)]

\* The contacts that are found under a key.
UnderKey(d, key) == key = Full \/ \E c \in ToSet(d.name) : key \in KeysOf(c)

TreeExact(tree) ==
  /\ SortedById(tree.data)
  /\ \A key \in Key :
       /\ SortedById(tree.hits[key])
       /\ ToSet(tree.hits[key]) = {d \in ToSet(tree.data) : UnderKey(d, key)}

LEMMA Text2SearchDataType ==
  ASSUME NEW text \in Seq(Char)
  PROVE  Text2SearchData(text) \in Seq(Char)
  BY KeptResult DEF Text2SearchData

LEMMA NewDataType ==
  ASSUME NEW contact \in Contact
  PROVE  NewData(contact) \in SearchData /\ NewData(contact).id = contact.id
<1>1. /\ contact.id \in Id /\ contact.name \in Seq(Char)
      /\ contact.phones \in Seq(Seq(Char \ {Separator}))
  BY SearchAssumption DEF Id
<1>2. PICK phones \in Seq(Seq(Char)) :
        phones = [i \in DOMAIN contact.phones |-> Append(contact.phones[i], Separator)]
  <2> DEFINE phones == [i \in DOMAIN contact.phones |-> Append(contact.phones[i], Separator)]
  <2>1. \A i \in 1 .. Len(contact.phones) : Append(contact.phones[i], Separator) \in Seq(Char)
    BY <1>1 DEF Char
  <2>2. phones \in Seq(Seq(Char))
    <3>1. phones \in [1 .. Len(contact.phones) -> Seq(Char)] /\ Len(contact.phones) \in Nat
      BY <1>1, <2>1
    <3> HIDE DEF phones
    <3> QED
      BY <3>1, FunctionIsSeq
  <2> QED
    BY <2>2, Zenon
<1>3. FlattenSeq(phones) \in Seq(Char)
  BY FlattenType
<1>4. Text2SearchData(contact.name) \in Seq(Char)
  BY <1>1, Text2SearchDataType
<1> QED
  BY <1>1, <1>2, <1>3, <1>4 DEF NewData, SearchData

\* A contact is added to the contacts and to its lists, and no other one.
LEMMA AddedExact ==
  ASSUME NEW tree, TreeType(tree), TreeExact(tree), NEW contact \in Contact
  PROVE  TreeType(Added(tree, contact)) /\ TreeExact(Added(tree, contact))
<1> DEFINE data == NewData(contact)
           new == Added(tree, contact)
<1>1. data \in SearchData /\ data.id = contact.id /\ data.id \in Int
  BY NewDataType, IdType
<1>2. tree.data \in Seq(SearchData) /\ SortedById(tree.data)
  BY DEF TreeType, TreeExact
<1>3. CASE Has(tree.data, contact.id)
  BY <1>3 DEF Added
<1>4. CASE ~Has(tree.data, contact.id)
  <2>1. /\ new.data = Entered(tree.data, data)
        /\ new.hits = AddToCachedHit(tree.hits, data)
    BY <1>4 DEF Added
  <2> HIDE DEF data, new
  <2>2. /\ new.data \in Seq(SearchData) /\ SortedById(new.data)
        /\ ToSet(new.data) = ToSet(tree.data) \cup {data}
    BY <1>1, <1>2, <1>4, <2>1, EnteredResult
  <2>3. \A d \in ToSet(tree.data) : d.id # data.id
    BY <1>1, <1>2, <1>4, HasResult
  <2>4. new.hits = [key \in Key |-> IF UnderKey(data, key) THEN Entered(tree.hits[key], data)
                                   ELSE tree.hits[key]]
    BY <2>1 DEF AddToCachedHit, UnderKey
  <2>5. ASSUME NEW key \in Key
        PROVE  /\ new.hits[key] \in Seq(SearchData) /\ SortedById(new.hits[key])
               /\ ToSet(new.hits[key]) = {d \in ToSet(new.data) : UnderKey(d, key)}
    <3>1. /\ tree.hits[key] \in Seq(SearchData) /\ SortedById(tree.hits[key])
          /\ ToSet(tree.hits[key]) = {d \in ToSet(tree.data) : UnderKey(d, key)}
      BY <2>5 DEF TreeType, TreeExact
    <3>2. CASE ~UnderKey(data, key)
      <4>1. new.hits[key] = tree.hits[key]
        BY <2>4, <3>2
      <4> QED
        BY <2>2, <3>1, <3>2, <4>1
    <3>3. CASE UnderKey(data, key)
      <4>1. new.hits[key] = Entered(tree.hits[key], data)
        BY <2>4, <3>3
      <4>2. ~Has(tree.hits[key], data.id)
        BY <1>1, <2>3, <3>1, HasResult
      <4>3. /\ new.hits[key] \in Seq(SearchData) /\ SortedById(new.hits[key])
            /\ ToSet(new.hits[key]) = ToSet(tree.hits[key]) \cup {data}
        BY <1>1, <3>1, <4>1, <4>2, EnteredResult
      <4> QED
        BY <2>2, <3>1, <3>3, <4>3
    <3> QED
      BY <3>2, <3>3
  <2>6. new.hits \in [Key -> Seq(SearchData)]
    BY <2>4, <2>5
  <2> QED
    BY <2>2, <2>5, <2>6 DEF TreeType, TreeExact, new
<1> QED
  BY <1>3, <1>4

\* A contact is deleted from the contacts and from every list.
LEMMA DeletedExact ==
  ASSUME NEW tree, TreeType(tree), TreeExact(tree), NEW id \in Id
  PROVE  TreeType(Deleted(tree, id)) /\ TreeExact(Deleted(tree, id))
<1> DEFINE new == Deleted(tree, id)
<1>1. id \in Int /\ tree.data \in Seq(SearchData) /\ SortedById(tree.data)
  BY IdType DEF TreeType, TreeExact
<1>2. new.data = Left(tree.data, id) /\ new.hits = [key \in Key |-> Left(tree.hits[key], id)]
  BY DEF Deleted
<1> HIDE DEF new
<1>3. /\ new.data \in Seq(SearchData) /\ SortedById(new.data)
      /\ ToSet(new.data) = {d \in ToSet(tree.data) : d.id # id}
  BY <1>1, <1>2, LeftResult
<1>4. ASSUME NEW key \in Key
      PROVE  /\ new.hits[key] \in Seq(SearchData) /\ SortedById(new.hits[key])
             /\ ToSet(new.hits[key]) = {d \in ToSet(new.data) : UnderKey(d, key)}
  <2>1. /\ tree.hits[key] \in Seq(SearchData) /\ SortedById(tree.hits[key])
        /\ ToSet(tree.hits[key]) = {d \in ToSet(tree.data) : UnderKey(d, key)}
    BY <1>4 DEF TreeType, TreeExact
  <2>2. /\ new.hits[key] \in Seq(SearchData) /\ SortedById(new.hits[key])
        /\ ToSet(new.hits[key]) = {d \in ToSet(tree.hits[key]) : d.id # id}
    BY <1>1, <1>2, <2>1, LeftResult
  <2> QED
    BY <1>3, <2>1, <2>2
<1>5. new.hits \in [Key -> Seq(SearchData)]
  BY <1>2, <1>4
<1> QED
  BY <1>3, <1>4, <1>5 DEF TreeType, TreeExact, new

(* The inductive invariant of the contacts.                                *)
TreeInv == TreeType(Tree) /\ TreeExact(Tree)

LEMMA TreeInvExact == TreeInv => CachesAreExact
  BY DEF TreeInv, TreeExact, Tree, CachesAreExact, UnderKey

LEMMA InitTree == SearchTreeInit => TreeInv
<1> SUFFICES ASSUME SearchTreeInit PROVE TreeInv
  OBVIOUS
<1>1. Tree.data = <<>> /\ Tree.hits = [key \in Key |-> <<>>]
  BY DEF SearchTreeInit, Tree
<1>2. SortedById(<<>>) /\ ToSet(<<>>) = {}
  BY DEF SortedById, ToSet
<1> QED
  BY <1>1, <1>2 DEF TreeInv, TreeType, TreeExact

LEMMA NextTree ==
  ASSUME TreeInv, [SearchNext]_vars
  PROVE  TreeInv'
<1>1. ASSUME NEW tree, TreeType(tree), TreeExact(tree), Becomes(tree)
      PROVE  TreeInv'
  BY <1>1 DEF Becomes, TreeInv, TreeType, TreeExact, Tree
<1>2. ASSUME NEW contact \in Contact, AddContact(contact)
      PROVE  TreeInv'
  BY <1>1, <1>2, AddedExact DEF AddContact, TreeInv
<1>3. ASSUME NEW contact \in Contact, ReplaceContact(contact)
      PROVE  TreeInv'
  <2>1. contact.id \in Id
    BY DEF Id
  <2> QED
    BY <1>1, <1>3, <2>1, AddedExact, DeletedExact DEF ReplaceContact, TreeInv
<1>4. ASSUME NEW id \in Id, DeleteContact(id)
      PROVE  TreeInv'
  BY <1>1, <1>4, DeletedExact DEF DeleteContact, TreeInv
<1>5. ASSUME UNCHANGED treeVars
      PROVE  TreeInv'
  BY <1>5 DEF treeVars, TreeInv, TreeType, TreeExact, Tree
<1>6. ASSUME Reset
      PROVE  TreeInv'
  <2>1. Tree'.data = <<>> /\ Tree'.hits = [key \in Key |-> <<>>]
    BY <1>6 DEF Reset, Tree
  <2>2. SortedById(<<>>) /\ ToSet(<<>>) = {}
    BY DEF SortedById, ToSet
  <2> QED
    BY <2>1, <2>2 DEF TreeInv, TreeType, TreeExact
<1> QED
  BY <1>2, <1>3, <1>4, <1>5, <1>6
     DEF SearchNext, Search, GetPinYin, MarksName, GetPhoneNum, vars

(* The lists that searches start from agree with the contacts in every     *)
(* state, whatever was added, replaced and deleted (AddToCachedHit and     *)
(* DeleteData of SearchCore.mm).                                           *)
THEOREM ListsAreExact == SearchSpec => []CachesAreExact
<1>1. SearchTreeInit => TreeInv
  BY InitTree
<1>2. TreeInv /\ [SearchNext]_vars => TreeInv'
  BY NextTree
<1>3. TreeInv => CachesAreExact
  BY TreeInvExact
<1> QED
  BY <1>1, <1>2, <1>3, PTL DEF SearchSpec

-----------------------------------------------------------------------------
(* What a search shows *)

LEMMA KeptSorted ==
  ASSUME NEW list \in Seq(SearchData), SortedById(list), NEW S
  PROVE  /\ Kept(list, S) \in Seq(SearchData)
         /\ SortedById(Kept(list, S))
         /\ ToSet(Kept(list, S)) = ToSet(list) \cap S
<1>1. PICK kept : kept = Kept(list, S)
  OBVIOUS
<1>2. \A i, j \in DOMAIN kept : i < j =>
        \E a, b \in DOMAIN list : a < b /\ kept[i] = list[a] /\ kept[j] = list[b]
  BY <1>1, KeptResult
<1>3. kept \in Seq(SearchData) /\ ToSet(kept) = ToSet(list) \cap S
  BY <1>1, KeptResult
<1>4. SortedById(kept)
  BY <1>2 DEF SortedById
<1> QED
  BY <1>1, <1>3, <1>4

LEMMA ToSetFinite ==
  ASSUME NEW A, NEW list \in Seq(A)
  PROVE  IsFiniteSet(ToSet(list))
<1>1. list \in Surjection(1 .. Len(list), ToSet(list))
  BY DEF Surjection, ToSet
<1>2. IsFiniteSet(1 .. Len(list))
  BY FS_Interval
<1> QED
  BY <1>1, <1>2, FS_Surjection

\* A sequence without repetitions as long as a set of its elements has them all.
LEMMA SetToSeqsResult ==
  ASSUME NEW S, IsFiniteSet(S), NEW order \in SetToSeqs(S)
  PROVE  order \in Seq(S) /\ ToSet(order) = S
<1>1. Cardinality(S) \in Nat
  BY FS_CardinalityType
<1>2. /\ order \in [1 .. Cardinality(S) -> S]
      /\ \A i, j \in 1 .. Cardinality(S) : i # j => order[i] # order[j]
  BY DEF SetToSeqs
<1>3. ASSUME NEW s \in S, \A i \in 1 .. Cardinality(S) : order[i] # s
      PROVE  FALSE
  <2>1. IsFiniteSet(S \ {s}) /\ Cardinality(S \ {s}) = Cardinality(S) - 1
    BY FS_RemoveElement
  <2>2. IsFiniteSet(1 .. Cardinality(S)) /\ Cardinality(1 .. Cardinality(S)) = Cardinality(S)
    <3>1. /\ IsFiniteSet(1 .. Cardinality(S))
          /\ Cardinality(1 .. Cardinality(S))
               = IF 1 > Cardinality(S) THEN 0 ELSE Cardinality(S) - 1 + 1
      BY <1>1, FS_Interval
    <3> QED
      BY <1>1, <3>1
  <2>3. order \in [1 .. Cardinality(S) -> S \ {s}]
    BY <1>2, <1>3
  <2>4. Cardinality(S \ {s}) < Cardinality(1 .. Cardinality(S))
    BY <1>1, <2>1, <2>2
  <2>5. \E i, j \in 1 .. Cardinality(S) : i # j /\ order[i] = order[j]
    <3>1. PICK D : D = 1 .. Cardinality(S)
      OBVIOUS
    <3>2. PICK T : T = S \ {s}
      OBVIOUS
    <3>3. /\ IsFiniteSet(D) /\ IsFiniteSet(T)
          /\ Cardinality(T) < Cardinality(D) /\ order \in [D -> T]
      BY <2>1, <2>2, <2>3, <2>4, <3>1, <3>2, Zenon
    <3>4. \E i, j \in D : i # j /\ order[i] = order[j]
      BY <3>3, FS_PigeonHole, Zenon
    <3> QED
      BY <3>1, <3>4
  <2> QED
    BY <1>2, <2>5
<1>4. order \in Seq(S)
  BY <1>1, <1>2, FunctionIsSeq
<1> QED
  BY <1>2, <1>3, <1>4 DEF ToSet

\* What the keypad makes of a text holds no mark between numbers.
LEMMA TypedDigitsType ==
  ASSUME NEW keypad \in BOOLEAN, NEW text \in Seq(Char \ {Separator})
  PROVE  /\ TypedDigits(keypad, text) \in Seq(Char \ {Separator})
         /\ Len(TypedDigits(keypad, text)) = Len(text)
<1>1. \A c \in Char \ {Separator} : ChangeWordToDigit(keypad, c) \in Char \ {Separator}
  BY PinYinAssumption, CharAssumption DEF ChangeWordToDigit, Char
<1>2. TypedDigits(keypad, text) \in [1 .. Len(text) -> Char \ {Separator}]
  BY <1>1 DEF TypedDigits
<1>3. Len(text) \in Nat
  OBVIOUS
<1> QED
  BY <1>2, <1>3, FunctionIsSeq

\* The names and the phones that a search of the contacts lists.
IsSearched(keypad, text, names, phones) ==
  LET query == Text2SearchData(text)
      hits == NameHits(keypad, query)
  IN IF query = <<>> /\ text # <<>> THEN names = <<>> /\ phones = <<>>
     ELSE /\ \E order \in Sorted(keypad, hits, query) : names = Ids(order)
          /\ phones = Ids(PhoneHits(keypad, text, hits))

(* The inductive invariant of the searches: what is shown is what the last *)
(* search of these contacts, by this keypad, found.                        *)
ShownInv ==
  /\ iMatchFunc \in BOOLEAN
  /\ shown # Nil =>
       /\ shown.text \in Text /\ iCurSeachData = Text2SearchData(shown.text)
       /\ IsSearched(iMatchFunc, shown.text, shown.names, shown.phones)

LEMMA NextShown ==
  ASSUME ShownInv, [SearchNext]_vars
  PROVE  ShownInv'
<1>1. ASSUME NEW tree, Becomes(tree)
      PROVE  ShownInv'
  BY <1>1 DEF Becomes, ShownInv, searchVars
<1>2. ASSUME NEW text \in Text, NEW keypad \in BOOLEAN, Search(text, keypad)
      PROVE  ShownInv'
  <2>1. /\ iMatchFunc' = KeypadAfter(keypad) /\ KeypadAfter(keypad) \in BOOLEAN
        /\ iCurSeachData' = Text2SearchData(text) /\ iCachedHits' = iCachedHits
    BY <1>2 DEF Search, SetMatchFunction, TreeSearch, treeVars, KeypadAfter, ShownInv
  <2>2. PICK names, phones :
          /\ shown' = [text |-> text, names |-> names, phones |-> phones]
          /\ IsSearched(iMatchFunc', text, names, phones)
    <3>1. TreeSearch(text, iMatchFunc')
      BY <1>2, <2>1 DEF Search
    <3> QED
      BY <3>1 DEF TreeSearch, IsSearched
  <2>3. IsSearched(iMatchFunc, text, names, phones)'
    BY <2>1, <2>2 DEF IsSearched, NameHits, SearchCachedHit, PhoneHits
  <2> QED
    BY <2>1, <2>2, <2>3 DEF ShownInv
<1>3. ASSUME UNCHANGED <<treeVars, searchVars, shown>>
      PROVE  ShownInv'
  BY <1>3 DEF treeVars, searchVars, ShownInv, IsSearched, NameHits, SearchCachedHit, PhoneHits
<1>4. ASSUME Reset
      PROVE  ShownInv'
  BY <1>4 DEF Reset, ShownInv
<1> QED
  BY <1>1, <1>2, <1>3, <1>4
     DEF SearchNext, AddContact, ReplaceContact, DeleteContact, GetPinYin, MarksName,
         GetPhoneNum, vars

\* The list a search starts from is that of a key.
LEMMA HitKey ==
  ASSUME NEW keypad \in BOOLEAN, NEW c \in Char
  PROVE  \E key \in Key : SearchCachedHit(keypad, c) = iCachedHits[key]
<1>1. CASE Readings(c) # <<>>
  <2>1. c \in Hanzi /\ PinYin[c] \in Seq(Seq(Letter) \ {<<>>}) \ {<<>>}
    BY <1>1, PinYinAssumption DEF Readings
  <2>2. PICK readings \in Seq(Seq(Letter) \ {<<>>}) : readings = Readings(c) /\ readings # <<>>
    BY <2>1 DEF Readings
  <2>3. readings[1] \in Seq(Letter) /\ readings[1] # <<>>
    BY <2>2
  <2>4. readings[1][1] \in Letter
    BY <2>3
  <2> QED
    BY <1>1, <2>2, <2>4 DEF SearchCachedHit, Key
<1>2. CASE Readings(c) = <<>>
  BY <1>2 DEF SearchCachedHit, Key
<1> QED
  BY <1>1, <1>2

LEMMA NameHitsType ==
  ASSUME TreeInv, NEW keypad \in BOOLEAN, NEW query \in Seq(Char)
  PROVE  /\ NameHits(keypad, query) \in Seq(SearchData)
         /\ SortedById(NameHits(keypad, query))
         /\ ToSet(NameHits(keypad, query)) \subseteq ToSet(SearchDataArray)
<1>1. ASSUME NEW key \in Key
      PROVE  /\ iCachedHits[key] \in Seq(SearchData) /\ SortedById(iCachedHits[key])
             /\ ToSet(iCachedHits[key]) \subseteq ToSet(SearchDataArray)
  BY <1>1 DEF TreeInv, TreeType, TreeExact, Tree
<1>2. CASE query = <<>>
  BY <1>1, <1>2 DEF NameHits, Key
<1>3. CASE query # <<>>
  <2>1. query[1] \in Char
    BY <1>3
  <2>2. PICK key \in Key : SearchCachedHit(keypad, query[1]) = iCachedHits[key]
    BY <2>1, HitKey
  <2>3. \E S : NameHits(keypad, query) = Kept(iCachedHits[key], S)
    BY <1>3, <2>2 DEF NameHits
  <2> QED
    BY <1>1, <2>3, KeptSorted
<1> QED
  BY <1>2, <1>3

\* A search by name shows the contacts it found, in some order.
LEMMA NamesShown ==
  ASSUME NEW keypad, NEW array \in Seq(SearchData), NEW query,
         NEW order \in Sorted(keypad, array, query)
  PROVE  /\ order \in Seq(ToSet(array)) /\ ToSet(order) = ToSet(array)
         /\ ToSet(Ids(order)) = {d.id : d \in ToSet(array)}
<1>1. order \in SetToSeqs(ToSet(array))
  BY DEF Sorted
<1>2. order \in Seq(ToSet(array)) /\ ToSet(order) = ToSet(array)
  BY <1>1, ToSetFinite, SetToSeqsResult
<1>3. DOMAIN Ids(order) = DOMAIN order /\ \A i \in DOMAIN order : Ids(order)[i] = order[i].id
  BY DEF Ids
<1>4. ToSet(Ids(order)) = {order[i].id : i \in DOMAIN order}
  BY <1>3 DEF ToSet
<1>5. {order[i].id : i \in DOMAIN order} = {d.id : d \in ToSet(order)}
  BY DEF ToSet
<1> QED
  BY <1>2, <1>4, <1>5

LEMMA TextType ==
  ASSUME NEW text \in Text
  PROVE  /\ text \in Seq(Char \ {Separator}) /\ text \in Seq(Char)
         /\ Text2SearchData(text) \in Seq(Char)
         /\ Space \notin ToSet(text) => Text2SearchData(text) = text
<1>1. text \in Seq(Char \ {Separator})
  BY SearchAssumption
<1>2. text \in Seq(Char)
  BY <1>1
<1>3. Text2SearchData(text) \in Seq(Char)
  BY <1>2, Text2SearchDataType
<1>4. Space \notin ToSet(text) => Text2SearchData(text) = text
  BY <1>2, KeptResult DEF Text2SearchData
<1> QED
  BY <1>1, <1>2, <1>3, <1>4

\* A search by number lists the contacts not listed by name whose number
\* contains the digits typed.
LEMMA PhoneHitsResult ==
  ASSUME TreeInv, NEW keypad \in BOOLEAN, NEW text \in Text, text # <<>>,
         NEW names \in Seq(SearchData), SortedById(names)
  PROVE  ToSet(PhoneHits(keypad, text, names)) =
           {d \in ToSet(SearchDataArray) :
              /\ TypedDigits(keypad, text) \in SubSeqs(d.phone)
              /\ d.id \notin {e.id : e \in ToSet(names)}}
<1> DEFINE input == TypedDigits(keypad, text)
<1>1. /\ iCachedHits[Full] \in Seq(SearchData) /\ SortedById(iCachedHits[Full])
      /\ ToSet(iCachedHits[Full]) = ToSet(SearchDataArray)
      /\ SearchDataArray \in Seq(SearchData)
  BY DEF TreeInv, TreeType, TreeExact, Tree, UnderKey, Key
<1>2. text \in Seq(Char \ {Separator})
  BY TextType
<1>3. input \in Seq(Char \ {Separator}) /\ Len(input) = Len(text) /\ input # <<>>
  BY <1>2, TypedDigitsType
<1>4. \A d \in ToSet(SearchDataArray) : d \in SearchData /\ d.phone \in Seq(Char) /\ d.id \in Int
  <2>1. \A d \in SearchData : d.phone \in Seq(Char) /\ d.id \in Int
    BY IdType DEF SearchData
  <2>2. \A d \in ToSet(SearchDataArray) : d \in SearchData
    BY <1>1 DEF ToSet
  <2> QED
    BY <2>1, <2>2
<1>5. \A d \in ToSet(SearchDataArray) :
        Has(names, d.id) <=> d.id \in {e.id : e \in ToSet(names)}
  BY <1>4, HasResult
<1>6. ASSUME NEW d \in ToSet(SearchDataArray)
      PROVE  /\ IsMatchByKmp(d.phone, input) <=> input \in SubSeqs(d.phone)
             /\ input \in SubSeqs(d.phone) => d.phone # <<>> /\ Len(d.phone) >= Len(text)
  <2>1. PICK phone \in Seq(Char) : phone = d.phone
    BY <1>4
  <2> HIDE DEF input
  <2>2. IsMatchByKmp(phone, input) <=> input \in SubSeqs(phone)
    BY <1>3, KmpFinds
  <2>3. ASSUME input \in SubSeqs(phone)
        PROVE  phone # <<>> /\ Len(phone) >= Len(text)
    <3>1. PICK k \in 1 .. Len(phone) : EndsWith(phone, k, input, Len(input))
      BY <1>3, <2>3, InSubSeqs
    <3>2. Len(input) \in 0 .. k
      BY <3>1 DEF EndsWith
    <3> QED
      BY <1>2, <1>3, <3>1, <3>2
  <2> QED
    BY <2>1, <2>2, <2>3
<1>7. ToSet(PhoneHits(keypad, text, names)) =
        ToSet(iCachedHits[Full]) \cap
          {d \in ToSet(iCachedHits[Full]) :
             /\ d.phone # <<>> /\ Len(d.phone) >= Len(text)
             /\ ~Has(names, d.id) /\ IsMatchByKmp(d.phone, input)}
  BY <1>1, KeptSorted DEF PhoneHits
<1> HIDE DEF input
<1>8. \A d \in ToSet(SearchDataArray) :
        (/\ d.phone # <<>> /\ Len(d.phone) >= Len(text)
         /\ ~Has(names, d.id) /\ IsMatchByKmp(d.phone, input))
          <=> input \in SubSeqs(d.phone) /\ d.id \notin {e.id : e \in ToSet(names)}
  BY <1>5, <1>6
<1> QED
  BY <1>1, <1>7, <1>8 DEF input

LEMMA InvPhonesFound ==
  ASSUME TreeInv, ShownInv
  PROVE  PhonesFound
<1> SUFFICES ASSUME shown # Nil, Query # <<>>
             PROVE  ToSet(shown.phones) =
                      {d.id : d \in {e \in ToSet(SearchDataArray) :
                         TypedDigits(iMatchFunc, shown.text) \in SubSeqs(e.phone)}}
                        \ ToSet(shown.names)
  BY DEF PhonesFound
<1>1. PICK text \in Text : text = shown.text /\ Query = Text2SearchData(text)
  BY DEF ShownInv, Query
<1>2. Query \in Seq(Char) /\ text \in Seq(Char)
  BY <1>1, TextType
<1>3. text # <<>>
  <2>1. ToSet(<<>>) = {}
    BY DEF ToSet
  <2> QED
    BY <1>1, <2>1, TextType
<1>4. PICK names \in Seq(SearchData) : names = NameHits(iMatchFunc, Query) /\ SortedById(names)
  BY <1>2, NameHitsType DEF ShownInv
<1>5. PICK order \in Sorted(iMatchFunc, names, Query) :
        shown.names = Ids(order) /\ shown.phones = Ids(PhoneHits(iMatchFunc, text, names))
  BY <1>1, <1>3, <1>4 DEF ShownInv, IsSearched
<1>6. ToSet(shown.names) = {d.id : d \in ToSet(names)}
  BY <1>5, NamesShown
<1>7. PICK phones : phones = PhoneHits(iMatchFunc, text, names)
  OBVIOUS
<1>8. ToSet(phones) = {d \in ToSet(SearchDataArray) :
                         /\ TypedDigits(iMatchFunc, text) \in SubSeqs(d.phone)
                         /\ d.id \notin ToSet(shown.names)}
  BY <1>3, <1>4, <1>6, <1>7, PhoneHitsResult DEF ShownInv
<1>9. ToSet(shown.phones) = {d.id : d \in ToSet(phones)}
  <2>1. shown.phones = Ids(phones)
    BY <1>5, <1>7
  <2> QED
    BY <2>1 DEF Ids, ToSet
<1> QED
  BY <1>1, <1>8, <1>9

LEMMA InitShown == SearchTreeInit => ShownInv
  BY DEF SearchTreeInit, ShownInv

(* A search lists under phones exactly the contacts that it does not list  *)
(* under names and one of whose numbers contains the text (PhoneHits over  *)
(* IsMatchByKmp), for any contacts and any text.                           *)
THEOREM PhonesAreFound == SearchSpec => []PhonesFound
<1>1. SearchTreeInit => TreeInv /\ ShownInv
  BY InitTree, InitShown
<1>2. (TreeInv /\ ShownInv) /\ [SearchNext]_vars => (TreeInv /\ ShownInv)'
  BY NextTree, NextShown
<1>3. TreeInv /\ ShownInv => PhonesFound
  BY InvPhonesFound
<1> QED
  BY <1>1, <1>2, <1>3, PTL DEF SearchSpec

-----------------------------------------------------------------------------
(* The number that is shown *)

\* What the last answer of GetPhoneNum is made from.
MarksInv ==
  (marks # Nil /\ marks.kind = "phone") =>
    /\ marks.id \in Id /\ Has(SearchDataArray, marks.id)
    /\ LET phone == DataOf(marks.id).phone
           places == KmpPlaces(phone, CurrentDigits(iCurSeachData))
       IN /\ marks.text = NumberAround(phone, places)
          /\ marks.places = PlacesInNumber(phone, places)

LEMMA InitMarks == SearchTreeInit => MarksInv
  BY DEF SearchTreeInit, MarksInv

LEMMA NextMarks ==
  ASSUME MarksInv, [SearchNext]_vars
  PROVE  MarksInv'
<1>1. ASSUME marks' = Nil
      PROVE  MarksInv'
  BY <1>1 DEF MarksInv
<1>2. ASSUME NEW id \in Id, GetPinYin(id)
      PROVE  MarksInv'
  <2>1. Reset \/ \E query : MarksName(id, query)
    BY <1>2 DEF GetPinYin
  <2>2. CASE Reset
    BY <1>1, <2>2 DEF Reset
  <2>3. CASE \E query : MarksName(id, query)
    <3>1. PICK text, places :
            marks' = [id |-> id, kind |-> "name", text |-> text, places |-> places]
      BY <2>3 DEF MarksName
    <3>2. marks'.kind = "name"
      BY <3>1
    <3> QED
      BY <3>2 DEF MarksInv
  <2> QED
    BY <2>1, <2>2, <2>3
<1>3. ASSUME NEW id \in Id, GetPhoneNum(id)
      PROVE  MarksInv'
  <2>1. CASE Reset
    BY <1>1, <2>1 DEF Reset
  <2>2. CASE ~Reset
    <3>1. PICK phone, places :
            /\ phone = DataOf(id).phone /\ Has(SearchDataArray, id)
            /\ places = KmpPlaces(phone, CurrentDigits(iCurSeachData))
            /\ marks' = [id |-> id, kind |-> "phone", text |-> NumberAround(phone, places),
                         places |-> PlacesInNumber(phone, places)]
            /\ UNCHANGED <<SearchDataArray, iMatchFunc, iCurSeachData>>
      BY <1>3, <2>2 DEF GetPhoneNum, PhonePlaces, treeVars, searchVars
    <3>2. phone = DataOf(id)'.phone /\ CurrentDigits(iCurSeachData)' = CurrentDigits(iCurSeachData)
      BY <3>1 DEF DataOf, CurrentDigits
    <3>3. marks'.id = id /\ marks'.text = NumberAround(phone, places)
          /\ marks'.places = PlacesInNumber(phone, places)
      BY <3>1
    <3> QED
      BY <3>1, <3>2, <3>3 DEF MarksInv
  <2> QED
    BY <2>1, <2>2
<1>4. ASSUME UNCHANGED vars
      PROVE  MarksInv'
  BY <1>4 DEF vars, treeVars, searchVars, MarksInv, DataOf, CurrentDigits
<1> QED
  BY <1>1, <1>2, <1>3, <1>4
     DEF SearchNext, AddContact, ReplaceContact, DeleteContact, Becomes, Search, Reset

\* A number holds the digits typed at these places, one after the other.
HoldsDigits(number, places, input) ==
  /\ number \in Seq(Char) /\ Separator \notin ToSet(number)
  /\ places \in Seq(Nat \ {0}) /\ Len(places) = Len(input)
  /\ \A i \in 1 .. Len(input) :
       /\ places[i] = places[1] + i - 1
       /\ places[i] \in DOMAIN number
       /\ number[places[i]] = input[i]

\* The number around the places where the digits typed are holds them, and no
\* other number.
LEMMA NumberAroundResult ==
  ASSUME NEW phone \in Seq(Char), NEW input \in Seq(Char \ {Separator}), input # <<>>,
         IsMatchByKmp(phone, input)
  PROVE  /\ KmpPlaces(phone, input) \in Seq(Nat) /\ KmpPlaces(phone, input) # <<>>
         /\ HoldsDigits(NumberAround(phone, KmpPlaces(phone, input)),
                        PlacesInNumber(phone, KmpPlaces(phone, input)), input)
<1>1. PICK end \in 1 .. Len(phone) : /\ end = KmpEnd(phone, input)
                                    /\ EndsWith(phone, end, input, Len(input))
  BY KmpEndResult DEF IsMatchByKmp
<1>2. PICK first \in 1 .. end : /\ first = end - Len(input) + 1
                               /\ \A m \in 1 .. Len(input) : phone[first - 1 + m] = input[m]
  <2>1. Len(input) \in 1 .. end
    BY <1>1 DEF EndsWith
  <2>2. \A m \in 1 .. Len(input) : phone[end - Len(input) + m] = input[m]
    BY <1>1 DEF EndsWith
  <2>3. PICK f : f = end - Len(input) + 1
    OBVIOUS
  <2>4. f \in 1 .. end /\ \A m \in 1 .. Len(input) : f - 1 + m = end - Len(input) + m
    BY <2>1, <2>3
  <2> QED
    BY <2>2, <2>3, <2>4
<1>3. PICK places \in Seq(Nat) : /\ places = KmpPlaces(phone, input)
                                /\ Len(places) = Len(input) /\ places # <<>>
                                /\ places[1] = first /\ Last(places) = end
  <2>1. PICK n \in Nat : n = Len(input) /\ n # 0 /\ n <= end
    BY <1>1 DEF EndsWith
  <2>2. PICK places : places = [i \in 1 .. n |-> end - n + i]
    OBVIOUS
  <2>3. places \in [1 .. n -> Nat]
    BY <2>1, <2>2
  <2>4. places \in Seq(Nat) /\ Len(places) = n
    BY <2>3, FunctionIsSeq
  <2>5. places[1] = end - n + 1 /\ places[n] = end
    BY <2>1, <2>2
  <2>6. places = KmpPlaces(phone, input)
    BY <1>1, <2>1, <2>2 DEF KmpPlaces
  <2> QED
    BY <1>2, <2>1, <2>4, <2>5, <2>6 DEF Last
<1>4. ASSUME NEW j \in first .. end
      PROVE  phone[j] # Separator
  <2>1. PICK m \in 1 .. Len(input) : j = first - 1 + m
    <3>1. j - first + 1 \in 1 .. Len(input) /\ j = first - 1 + (j - first + 1)
      BY <1>2
    <3> QED
      BY <3>1, Zenon
  <2>2. phone[j] = input[m] /\ input[m] \in Char \ {Separator}
    BY <1>2, <2>1
  <2> QED
    BY <2>2
<1> DEFINE inside(i) == \A j \in DOMAIN phone :
                          (j \in i .. first \/ j \in end .. i) => phone[j] # Separator
           kept == {i \in DOMAIN phone : inside(i)}
           low == Min(kept)
           high == Max(kept)
           number == NumberAround(phone, places)
           shownAt == PlacesInNumber(phone, places)
<1>5. /\ number = SubSeq(phone, low, high)
      /\ shownAt = [i \in DOMAIN places |-> places[i] - low + 1]
  <2>1. AroundPlaces(phone, places) = kept
    BY <1>3 DEF AroundPlaces
  <2> QED
    BY <2>1 DEF NumberAround, PlacesInNumber
<1>6. first \in kept /\ end \in kept
  BY <1>1, <1>2, <1>4
<1>7. kept \subseteq 0 .. Len(phone) /\ kept \subseteq Nat /\ Len(phone) \in Nat
  OBVIOUS
<1>8. /\ low \in kept /\ low <= first
      /\ high \in kept /\ high >= end
  <2> HIDE DEF kept
  <2> QED
    BY <1>6, <1>7, MinResult, MaxResult
<1>9. PICK lo \in 1 .. first, hi \in end .. Len(phone) : lo = low /\ hi = high
  <2>1. low \in 1 .. first /\ high \in end .. Len(phone)
    <3>1. low \in 1 .. Len(phone) /\ high \in 1 .. Len(phone)
      <4> HIDE DEF low, high
      <4> QED
        BY <1>8
    <3> HIDE DEF low, high
    <3> QED
      BY <1>8, <3>1
  <2> QED
    BY <2>1, Zenon
<1>10. ASSUME NEW j \in lo .. hi
       PROVE  phone[j] # Separator
  <2>1. j \in DOMAIN phone
    BY <1>9, <1>10
  <2>2. inside(lo) /\ inside(hi)
    BY <1>8, <1>9
  <2>3. CASE j <= first
    BY <2>1, <2>2, <2>3
  <2>4. CASE j >= end
    BY <2>1, <2>2, <2>4
  <2>5. CASE j > first /\ j < end
    BY <1>4, <2>5
  <2> QED
    BY <2>3, <2>4, <2>5
<1> HIDE DEF low, high, kept
<1>11. PICK t \in Seq(Char) : IsPart(t, phone, lo, hi)
  <2>1. lo \in 1 .. Len(phone) + 1 /\ hi \in lo - 1 .. Len(phone)
    BY <1>9
  <2> QED
    BY <2>1, PartOf
<1>12. t = number
  BY <1>5, <1>9, <1>11 DEF IsPart
<1>13. Len(t) = hi - lo + 1 /\ \A i \in 1 .. hi - lo + 1 : t[i] = phone[lo + i - 1]
  BY <1>11 DEF IsPart
<1>14. Separator \notin ToSet(t)
  <2>1. ASSUME NEW i \in DOMAIN t
        PROVE  t[i] # Separator
    <3>1. i \in 1 .. hi - lo + 1
      BY <1>13
    <3>2. PICK k \in lo .. hi : k = lo + i - 1
      <4>1. lo + i - 1 \in lo .. hi
        BY <3>1
      <4> QED
        BY <4>1
    <3>3. t[i] = phone[k] /\ phone[k] # Separator
      BY <1>10, <1>13, <3>1, <3>2
    <3> QED
      BY <3>3
  <2> QED
    BY <2>1 DEF ToSet
<1>15. PICK k \in 1 .. first : k = first - lo + 1
  <2>1. first - lo + 1 \in 1 .. first
    BY <1>9
  <2> QED
    BY <2>1, Zenon
<1>16. PICK n \in Nat : n = Len(input) /\ end = first + n - 1 /\ DOMAIN places = 1 .. n
  BY <1>2, <1>3
<1>17. /\ shownAt \in [1 .. n -> Nat \ {0}]
       /\ \A i \in 1 .. n : shownAt[i] = k + i - 1
  <2>1. \A i \in 1 .. n : places[i] = first + i - 1
    BY <1>1, <1>2, <1>3, <1>16 DEF KmpPlaces
  <2>2. \A i \in 1 .. n : places[i] - low + 1 = k + i - 1 /\ k + i - 1 \in Nat \ {0}
    BY <1>9, <1>15, <2>1
  <2> QED
    BY <1>5, <1>16, <2>2
<1>18. ASSUME NEW i \in 1 .. n
       PROVE  k + i - 1 \in 1 .. hi - lo + 1 /\ t[k + i - 1] = input[i]
  <2>1. k + i - 1 \in 1 .. hi - lo + 1 /\ lo + (k + i - 1) - 1 = first - 1 + i
    BY <1>9, <1>15, <1>16
  <2> QED
    BY <1>2, <1>13, <1>16, <2>1
<1>19. shownAt \in Seq(Nat \ {0}) /\ Len(shownAt) = n
  BY <1>16, <1>17, FunctionIsSeq
<1>20. HoldsDigits(t, shownAt, input)
  <2>1. DOMAIN t = 1 .. hi - lo + 1
    BY <1>11, <1>13
  <2>2. 1 \in 1 .. n
    BY <1>3, <1>16
  <2>3. shownAt[1] = k /\ k \in Nat
    BY <1>17, <2>2
  <2> HIDE DEF shownAt
  <2>4. ASSUME NEW i \in 1 .. n
        PROVE  /\ shownAt[i] = shownAt[1] + i - 1 /\ shownAt[i] \in DOMAIN t
               /\ t[shownAt[i]] = input[i]
    BY <1>17, <1>18, <2>1, <2>3
  <2> QED
    BY <1>11, <1>14, <1>16, <1>19, <2>4 DEF HoldsDigits
<1> QED
  BY <1>3, <1>12, <1>20

\* The contact with an id is the one that DataOf finds.
LEMMA DataOfResult ==
  ASSUME TreeInv, NEW d \in ToSet(SearchDataArray)
  PROVE  /\ d \in SearchData /\ d.id \in Id
         /\ Has(SearchDataArray, d.id) /\ DataOf(d.id) = d
<1>1. SearchDataArray \in Seq(SearchData) /\ SortedById(SearchDataArray)
  BY DEF TreeInv, TreeType, TreeExact, Tree
<1>2. PICK i \in DOMAIN SearchDataArray : SearchDataArray[i] = d
  BY DEF ToSet
<1>3. d \in SearchData /\ d.id \in Id /\ d.id \in Int
  <2>1. d \in SearchData
    BY <1>1, <1>2
  <2> QED
    BY <2>1, IdType DEF SearchData
<1>4. Has(SearchDataArray, d.id)
  BY <1>1, <1>3, HasResult
<1>5. PICK k \in DOMAIN SearchDataArray :
        DataOf(d.id) = SearchDataArray[k] /\ SearchDataArray[k].id = d.id
  BY <1>1, <1>3, <1>4, HasResult DEF DataOf
<1>6. \A a, b \in DOMAIN SearchDataArray :
        SearchDataArray[a].id = SearchDataArray[b].id => a = b
  <2>1. \A a \in DOMAIN SearchDataArray : SearchDataArray[a].id \in Int /\ a \in Int
    BY <1>1, IdType
  <2>2. \A a, b \in DOMAIN SearchDataArray :
          a < b => SearchDataArray[a].id < SearchDataArray[b].id
    BY <1>1 DEF SortedById
  <2> QED
    BY <2>1, <2>2
<1>7. k = i
  BY <1>2, <1>5, <1>6
<1> QED
  BY <1>2, <1>3, <1>4, <1>5, <1>7

\* A number that a search without spaces found holds the digits of its text.
LEMMA PhoneFound ==
  ASSUME TreeInv, ShownInv, shown # Nil, Space \notin ToSet(shown.text),
         NEW id \in ToSet(shown.phones)
  PROVE  /\ iCurSeachData # Nil /\ Has(SearchDataArray, id)
         /\ \E phone \in Seq(Char), input \in Seq(Char \ {Separator}) :
              /\ phone = DataOf(id).phone /\ input # <<>>
              /\ input = CurrentDigits(iCurSeachData) /\ Len(input) = Len(iCurSeachData)
              /\ IsMatchByKmp(phone, input)
<1>1. PICK text \in Text : text = shown.text /\ iCurSeachData = text
  BY TextType DEF ShownInv
<1>2. PICK names \in Seq(SearchData) :
        /\ SortedById(names) /\ names = NameHits(iMatchFunc, text)
        /\ shown.phones = Ids(PhoneHits(iMatchFunc, text, names))
  <2>1. text \in Seq(Char) /\ Text2SearchData(text) = text
    BY <1>1, TextType
  <2>2. /\ NameHits(iMatchFunc, text) \in Seq(SearchData)
        /\ SortedById(NameHits(iMatchFunc, text))
    BY <2>1, NameHitsType DEF ShownInv
  <2>3. shown.phones = Ids(PhoneHits(iMatchFunc, text, NameHits(iMatchFunc, text)))
    BY <1>1, <2>1 DEF ShownInv, IsSearched
  <2> QED
    BY <2>2, <2>3
<1>3. PICK phones : phones = PhoneHits(iMatchFunc, text, names)
  OBVIOUS
<1>4. PICK d \in ToSet(phones) : d.id = id
  <2>1. shown.phones = Ids(phones)
    BY <1>2, <1>3
  <2> QED
    BY <2>1 DEF Ids, ToSet
<1>5. /\ iCachedHits[Full] \in Seq(SearchData) /\ SortedById(iCachedHits[Full])
      /\ ToSet(iCachedHits[Full]) = ToSet(SearchDataArray)
  BY DEF TreeInv, TreeType, TreeExact, Tree, UnderKey, Key
<1>6. /\ d \in ToSet(SearchDataArray) /\ ~Has(names, d.id)
      /\ IsMatchByKmp(d.phone, TypedDigits(iMatchFunc, text))
  BY <1>3, <1>4, <1>5, KeptSorted DEF PhoneHits
<1>7. /\ d.phone \in Seq(Char) /\ d.id \in Int /\ DataOf(id) = d
  <2>1. d \in SearchData /\ DataOf(d.id) = d
    BY <1>6, DataOfResult
  <2> QED
    BY <1>4, <2>1, IdType DEF SearchData
<1>8. text # <<>>
  <2> SUFFICES ASSUME text = <<>> PROVE FALSE
    OBVIOUS
  <2>1. names = iCachedHits[Full]
    BY <1>2 DEF NameHits
  <2> QED
    BY <1>5, <1>6, <1>7, <2>1, HasResult
<1>9. PICK input \in Seq(Char \ {Separator}) :
        /\ input = TypedDigits(iMatchFunc, text) /\ input # <<>>
        /\ input = CurrentDigits(iCurSeachData) /\ Len(input) = Len(iCurSeachData)
  <2>1. text \in Seq(Char \ {Separator})
    BY TextType
  <2>2. /\ TypedDigits(iMatchFunc, text) \in Seq(Char \ {Separator})
        /\ Len(TypedDigits(iMatchFunc, text)) = Len(text)
    BY <2>1, TypedDigitsType DEF ShownInv
  <2>3. TypedDigits(iMatchFunc, text) # <<>>
    BY <1>8, <2>1, <2>2
  <2> QED
    BY <1>1, <2>2, <2>3 DEF CurrentDigits
<1>10. iCurSeachData # Nil
  <2>1. text \in Seq(Char)
    BY TextType
  <2> QED
    BY <1>1, <2>1, SearchAssumption
<1>11. Has(SearchDataArray, id)
  BY <1>4, <1>6, DataOfResult
<1> QED
  BY <1>6, <1>7, <1>9, <1>10, <1>11

LEMMA InvPhoneCanBeShown ==
  ASSUME TreeInv, ShownInv, MarksInv
  PROVE  PhoneCanBeShown
<1> SUFFICES ASSUME shown # Nil, Space \notin ToSet(shown.text),
                    NEW id \in ToSet(shown.phones)
             PROVE  /\ PhonePlaces(id) # <<>>
                    /\ (marks # Nil /\ marks.kind = "phone" /\ marks.id = id) =>
                         /\ Separator \notin ToSet(marks.text)
                         /\ Len(marks.places) = Len(iCurSeachData)
                         /\ \A i \in DOMAIN marks.places :
                              /\ marks.places[i] = marks.places[1] + i - 1
                              /\ marks.places[i] \in DOMAIN marks.text
                              /\ marks.text[marks.places[i]] = CurrentDigits(iCurSeachData)[i]
  BY DEF PhoneCanBeShown
<1>1. PICK phone \in Seq(Char), input \in Seq(Char \ {Separator}) :
        /\ iCurSeachData # Nil /\ Has(SearchDataArray, id)
        /\ phone = DataOf(id).phone /\ input # <<>>
        /\ input = CurrentDigits(iCurSeachData) /\ Len(input) = Len(iCurSeachData)
        /\ IsMatchByKmp(phone, input)
  BY PhoneFound
<1>2. PICK places : places = KmpPlaces(phone, input)
  OBVIOUS
<1>3. /\ places # <<>>
      /\ HoldsDigits(NumberAround(phone, places), PlacesInNumber(phone, places), input)
  BY <1>1, <1>2, NumberAroundResult
<1>4. PhonePlaces(id) # <<>>
  BY <1>1, <1>2, <1>3 DEF PhonePlaces
<1>5. ASSUME marks # Nil, marks.kind = "phone", marks.id = id
      PROVE  /\ Separator \notin ToSet(marks.text)
             /\ Len(marks.places) = Len(iCurSeachData)
             /\ \A i \in DOMAIN marks.places :
                  /\ marks.places[i] = marks.places[1] + i - 1
                  /\ marks.places[i] \in DOMAIN marks.text
                  /\ marks.text[marks.places[i]] = CurrentDigits(iCurSeachData)[i]
  <2>1. /\ marks.text = NumberAround(phone, places)
        /\ marks.places = PlacesInNumber(phone, places)
    BY <1>1, <1>2, <1>5 DEF MarksInv
  <2>2. HoldsDigits(marks.text, marks.places, input)
    BY <1>3, <2>1
  <2>3. DOMAIN marks.places = 1 .. Len(input)
    BY <2>2 DEF HoldsDigits
  <2> QED
    BY <1>1, <2>2, <2>3 DEF HoldsDigits
<1> QED
  BY <1>4, <1>5

(* A number that a search without spaces found can be shown afterwards:    *)
(* GetPhoneNum finds the digits typed again, instead of ending the program *)
(* with no place to take, and cuts one number out of the joined ones, with *)
(* the places in it (ChangeToOranagePhones).                               *)
THEOREM PhoneIsShown == SearchSpec => []PhoneCanBeShown
<1> DEFINE Inv == TreeInv /\ ShownInv /\ MarksInv
<1>1. SearchTreeInit => Inv
  BY InitTree, InitShown, InitMarks
<1>2. Inv /\ [SearchNext]_vars => Inv'
  BY NextTree, NextShown, NextMarks
<1>3. Inv => PhoneCanBeShown
  BY InvPhoneCanBeShown
<1> QED
  BY <1>1, <1>2, <1>3, PTL DEF SearchSpec
-----------------------------------------------------------------------------
(* The names that are shown *)

\* The first character of a text that matches a name begins one of its words.
Begins(keypad, word, c) ==
  \/ Readings(word) = <<>> /\ CompareWord(keypad, word, c)
  \/ \E reading \in ToSet(Readings(word)) : CompareWord(keypad, reading[1], c) \/ c = word

LEMMA MatchBegins ==
  ASSUME NEW keypad, NEW name \in Seq(Char), NEW query \in Seq(Char), query # <<>>,
         Matches(keypad, name, query)
  PROVE  \E word \in ToSet(name) : Begins(keypad, word, query[1])
<1>1. PICK ends \in Cuts(query), j \in 1 .. POS_SIGN :
        /\ j + Len(ends) - 1 <= Len(name)
        /\ \A k \in DOMAIN ends : Piece(keypad, name[j + k - 1], PieceOf(query, ends, k))
  BY DEF Matches
<1>2. PICK n : n = Len(ends) /\ IsCut(query, n, ends) /\ DOMAIN ends = 1 .. n
  <2>1. IsCut(query, Len(ends), ends)
    BY CutResult
  <2> QED
    BY <2>1 DEF IsCut
<1>3. 1 \in 1 .. n /\ n \in Nat \ {0} /\ 1 \in 1 .. Len(query)
  BY <1>2 DEF IsCut
<1>4. PICK piece \in Seq(Char) : IsPieceOf(query, ends, 1, piece)
  BY <1>2, <1>3, PieceResult
<1>5. piece = PieceOf(query, ends, 1) /\ piece # <<>> /\ piece[1] = query[1]
  <2>1. StartOf(ends, 1) = 1 /\ 1 \in 1 .. Len(piece) /\ 1 = 1 + 1 - 1
    BY <1>4 DEF StartOf, IsPieceOf
  <2> QED
    BY <1>3, <1>4, <2>1 DEF IsPieceOf
<1>6. PICK word \in ToSet(name) : word = name[j]
  <2>1. j \in DOMAIN name
    BY <1>1, <1>2, <1>3
  <2> QED
    BY <2>1 DEF ToSet
<1>7. Piece(keypad, word, piece)
  <2>1. j + 1 - 1 = j
    OBVIOUS
  <2> QED
    BY <1>1, <1>2, <1>3, <1>5, <1>6, <2>1
<1>8. Begins(keypad, word, piece[1])
  <2>1. 1 \in DOMAIN piece
    BY <1>5
  <2> QED
    BY <1>7, <2>1 DEF Piece, Beginning, Begins
<1> QED
  BY <1>5, <1>8

\* The list that a search starts from holds every contact that can match, but
\* not if it is a letter's and a keypad is set.
LEMMA ListHoldsMatches ==
  ASSUME TreeInv, NEW keypad \in BOOLEAN, NEW c \in Char, ~(keypad /\ c \in Letter),
         NEW d \in ToSet(SearchDataArray),
         NEW word \in ToSet(d.name), word \in Char, Begins(keypad, word, c)
  PROVE  d \in ToSet(SearchCachedHit(keypad, c))
<1> DEFINE key == IF Readings(c) # <<>> THEN Readings(c)[1][1]
                  ELSE IF c \in Digit /\ keypad THEN Full
                  ELSE IF c \in Letter \union Digit THEN c ELSE NonAlpha
<1>1. SearchCachedHit(keypad, c) = iCachedHits[key]
  BY DEF SearchCachedHit
<1>2. ASSUME NEW x \in Char
      PROVE  /\ Readings(x) # <<>> <=> x \in Hanzi
             /\ Readings(x) # <<>> =>
                  /\ Readings(x)[1] \in ToSet(Readings(x))
                  /\ \A reading \in ToSet(Readings(x)) : reading[1] \in Letter
  <2>1. PICK readings \in Seq(Seq(Letter) \ {<<>>}) : readings = Readings(x)
    BY ReadingsType
  <2>2. \A reading \in Seq(Letter) \ {<<>>} : reading[1] \in Letter
    OBVIOUS
  <2> QED
    BY <2>1, <2>2, ReadingsType DEF ToSet
<1>3. /\ Hanzi \subseteq Wide /\ Symbol \subseteq Wide /\ Wide \cap (Letter \union Digit) = {}
      /\ Hanzi \cap Symbol = {} /\ Letter \cap Digit = {}
      /\ {Space, Separator} \cap (Wide \union Letter \union Digit) = {}
      /\ \A l \in Letter : Keypad[l] \in Digit
      /\ \A x \in Char : x \in Hanzi \union Symbol \union Letter \union Digit
                                \union {Space, Separator}
  BY CharAssumption, PinYinAssumption DEF Wide, Char
<1>4. CASE c \in Hanzi
  <2>1. word = c
    <3>1. CASE Readings(word) = <<>> /\ CompareWord(keypad, word, c)
      BY <1>3, <1>4, <3>1, CompareResult
    <3>2. ASSUME NEW reading \in ToSet(Readings(word)), CompareWord(keypad, reading[1], c)
          PROVE  FALSE
      <4>1. reading[1] \in Letter /\ reading[1] \in Char
        <5>1. Readings(word) # <<>>
          BY <3>2 DEF ToSet
        <5> QED
          BY <1>2, <5>1 DEF Char
      <4>2. PICK letter \in Char : letter = reading[1] /\ letter \in Letter
        BY <4>1
      <4>3. letter = c
        BY <1>3, <1>4, <3>2, <4>2, CompareResult
      <4> QED
        BY <1>3, <1>4, <4>2, <4>3
    <3> QED
      BY <3>1, <3>2 DEF Begins
  <2>2. key \in KeysOf(word)
    BY <1>2, <1>4, <2>1 DEF KeysOf
  <2>3. key \in Letter
    BY <1>2, <1>4
  <2> HIDE DEF key
  <2> QED
    BY <1>1, <2>2, <2>3 DEF TreeInv, TreeExact, UnderKey, Tree, Key
<1>5. CASE c \notin Hanzi /\ c \in Digit /\ keypad
  <2>1. key = Full
    BY <1>2, <1>5
  <2> QED
    BY <1>1, <2>1 DEF TreeInv, TreeExact, UnderKey, Tree, Key
<1>6. CASE c \notin Hanzi /\ ~(c \in Digit /\ keypad)
  <2>1. c \in Letter \union Digit => ~keypad
    BY <1>6
  <2>2. key = (IF c \in Letter \union Digit THEN c ELSE NonAlpha) /\ key \in Key
    BY <1>2, <1>6 DEF Key
  <2>3. \A x \in Char \ Letter : CompareWord(keypad, x, c) => x = c
    BY <1>3, <2>1 DEF CompareWord, ChangeWordToDigit
  <2>4. \A x \in Letter : CompareWord(keypad, x, c) => x = c
    BY <1>3, <1>6, <2>1 DEF CompareWord, ChangeWordToDigit
  <2>5. CASE Readings(word) = <<>>
    <3>1. word = c
      <4>1. ToSet(Readings(word)) = {}
        BY <2>5 DEF ToSet
      <4> QED
        BY <2>3, <2>4, <4>1 DEF Begins
    <3>2. key \in KeysOf(word)
      BY <2>2, <2>5, <3>1 DEF KeysOf
    <3> HIDE DEF key
    <3> QED
      BY <1>1, <2>2, <3>2 DEF TreeInv, TreeExact, UnderKey, Tree
  <2>6. CASE Readings(word) # <<>>
    <3>1. word # c
      BY <1>2, <1>6, <2>6
    <3>2. PICK reading \in ToSet(Readings(word)) : reading[1] = c /\ c \in Letter
      BY <1>2, <2>4, <2>6, <3>1 DEF Begins
    <3>3. key \in KeysOf(word)
      BY <2>2, <2>6, <3>2 DEF KeysOf
    <3> HIDE DEF key
    <3> QED
      BY <1>1, <2>2, <3>3 DEF TreeInv, TreeExact, UnderKey, Tree
  <2> QED
    BY <2>5, <2>6
<1> QED
  BY <1>4, <1>5, <1>6

LEMMA InvSearchFindsMatches ==
  ASSUME TreeInv, ShownInv
  PROVE  SearchFindsMatches
<1> SUFFICES ASSUME shown # Nil, Query # <<>>, ~LetterUnderKeypad(Query), ~RepeatsSymbol(Query)
             PROVE  ToSet(shown.names) = {d.id : d \in {e \in ToSet(SearchDataArray) :
                                                Matches(iMatchFunc, e.name, Query)}}
  BY DEF SearchFindsMatches
<1>1. PICK text \in Text : text = shown.text /\ Query = Text2SearchData(text)
  BY DEF ShownInv, Query
<1>2. PICK query \in Seq(Char) : query = Query /\ query # <<>> /\ ~RepeatsSymbol(query)
  BY <1>1, TextType
<1>3. query[1] \in Char /\ ~(iMatchFunc /\ query[1] \in Letter)
  BY <1>2 DEF LetterUnderKeypad
<1>4. PICK names \in Seq(SearchData) : names = NameHits(iMatchFunc, query)
  BY NameHitsType DEF ShownInv
<1>5. PICK order \in Sorted(iMatchFunc, names, query) : shown.names = Ids(order)
  BY <1>1, <1>2, <1>4 DEF ShownInv, IsSearched
<1>6. ToSet(shown.names) = {d.id : d \in ToSet(names)}
  BY <1>5, NamesShown
<1>7. PICK key \in Key : SearchCachedHit(iMatchFunc, query[1]) = iCachedHits[key]
  BY <1>3, HitKey DEF ShownInv
<1>8. /\ iCachedHits[key] \in Seq(SearchData) /\ SortedById(iCachedHits[key])
      /\ ToSet(iCachedHits[key]) \subseteq ToSet(SearchDataArray)
  BY DEF TreeInv, TreeType, TreeExact, Tree
<1>9. ToSet(names) = {d \in ToSet(iCachedHits[key]) : IsHit(iMatchFunc, d.name, query)}
  <2>1. names = Kept(iCachedHits[key],
                     {d \in ToSet(iCachedHits[key]) : IsHit(iMatchFunc, d.name, query)})
    BY <1>2, <1>4, <1>7 DEF NameHits
  <2> QED
    BY <1>8, <2>1, KeptSorted
<1>10. ASSUME NEW d \in ToSet(SearchDataArray)
       PROVE  /\ IsHit(iMatchFunc, d.name, query) <=> Matches(iMatchFunc, d.name, query)
              /\ Matches(iMatchFunc, d.name, query) => d \in ToSet(iCachedHits[key])
  <2>1. PICK name \in Seq(Char) : name = d.name
    BY DataOfResult DEF SearchData
  <2>2. IsHit(iMatchFunc, name, query) <=> Matches(iMatchFunc, name, query)
    BY <1>2, HitsAreMatches
  <2>3. ASSUME Matches(iMatchFunc, name, query)
        PROVE  d \in ToSet(iCachedHits[key])
    <3>1. PICK word \in ToSet(name) : Begins(iMatchFunc, word, query[1])
      BY <1>2, <2>3, MatchBegins
    <3>2. word \in Char
      BY <3>1 DEF ToSet
    <3> QED
      BY <1>3, <1>7, <2>1, <3>1, <3>2, ListHoldsMatches DEF ShownInv
  <2> QED
    BY <2>1, <2>2, <2>3
<1>11. ToSet(names) = {d \in ToSet(SearchDataArray) : Matches(iMatchFunc, d.name, query)}
  BY <1>8, <1>9, <1>10
<1> QED
  BY <1>2, <1>6, <1>11

(* A search shows exactly the contacts whose names match the text: the     *)
(* list it starts from (SearchCachedHit) hides none, and IsHit finds a     *)
(* match wherever there is one.                                            *)
THEOREM MatchesAreFound == SearchSpec => []SearchFindsMatches
<1>1. SearchTreeInit => TreeInv /\ ShownInv
  BY InitTree, InitShown
<1>2. (TreeInv /\ ShownInv) /\ [SearchNext]_vars => (TreeInv /\ ShownInv)'
  BY NextTree, NextShown
<1>3. TreeInv /\ ShownInv => SearchFindsMatches
  BY InvSearchFindsMatches
<1> QED
  BY <1>1, <1>2, <1>3, PTL DEF SearchSpec
-----------------------------------------------------------------------------
(* Types *)

LEMMA PartOfReading ==
  ASSUME NEW name \in Seq(Char), NEW path \in Seq(SearchPos), NEW word \in DOMAIN name
  PROVE  ReadingOf(name, path, word) \in Seq(Char)
<1>1. PICK readings \in Seq(Seq(Letter) \ {<<>>}) : readings = Readings(name[word])
  BY ReadingsType
<1>2. \A i \in DOMAIN readings : readings[i] \in Seq(Letter) /\ readings[i] \in Seq(Char)
  <2>1. \A s \in Seq(Letter) : s \in Seq(Char)
    BY DEF Char
  <2> QED
    BY <2>1
<1>3. CASE readings = <<>>
  <2>1. name[word] \in Char
    OBVIOUS
  <2> QED
    BY <1>1, <1>3, <2>1 DEF ReadingOf
<1>4. CASE readings # <<>>
  <2> DEFINE at == {i \in DOMAIN path : path[i].word = word /\ path[i].py \in DOMAIN readings}
  <2>1. ReadingOf(name, path, word) = readings[IF at = {} THEN 1 ELSE path[Max(at)].py]
    BY <1>1, <1>4 DEF ReadingOf
  <2>2. CASE at = {}
    BY <1>2, <1>4, <2>1, <2>2
  <2>3. CASE at # {}
    <3>1. at \in SUBSET (0 .. Len(path)) /\ Len(path) \in Nat
      OBVIOUS
    <3>2. Max(at) \in at
      <4> HIDE DEF at
      <4> QED
        BY <2>3, <3>1, MaxResult
    <3>3. path[Max(at)].py \in DOMAIN readings
      BY <3>2
    <3> HIDE DEF at
    <3> QED
      BY <1>2, <2>1, <2>3, <3>3
  <2> QED
    BY <2>2, <2>3
<1> QED
  BY <1>3, <1>4

\* The letters of the first words of a name.
LEMMA LettersType ==
  ASSUME NEW name \in Seq(Char), NEW path \in Seq(SearchPos), NEW n \in 0 .. Len(name)
  PROVE  FlattenSeq([w \in 1 .. n |-> ReadingOf(name, path, w)]) \in Seq(Char)
<1>1. PICK f : f = [w \in 1 .. n |-> ReadingOf(name, path, w)]
  OBVIOUS
<1>2. \A w \in 1 .. n : ReadingOf(name, path, w) \in Seq(Char)
  <2>1. \A w \in 1 .. n : w \in DOMAIN name
    OBVIOUS
  <2> QED
    BY <2>1, PartOfReading
<1>3. f \in [1 .. n -> Seq(Char)] /\ n \in Nat
  BY <1>1, <1>2
<1>4. f \in Seq(Seq(Char))
  BY <1>3, FunctionIsSeq
<1> QED
  BY <1>1, <1>4, FlattenType

LEMMA MarkedType ==
  ASSUME NEW name \in Seq(Char), NEW path \in Seq(SearchPos)
  PROVE  /\ Marked(name, path) \in Seq(SearchPos)
         /\ \A i \in DOMAIN Marked(name, path) : Marked(name, path)[i].word \in DOMAIN name
<1> DEFINE Fits(i) ==
             /\ path[i].word \in DOMAIN name
             /\ IF Readings(name[path[i].word]) = <<>>
                THEN path[i].py = 1 /\ (i = 1 \/ path[i - 1].word # path[i].word)
                ELSE path[i].py \in DOMAIN Readings(name[path[i].word])
           fitting == {n \in 0 .. Len(path) : \A i \in 1 .. n : Fits(i)}
<1>1. Marked(name, path) = SubSeq(path, 1, Max(fitting))
  BY DEF Marked
<1>2. Len(path) \in Nat /\ fitting \in SUBSET (0 .. Len(path)) /\ 0 \in fitting
  OBVIOUS
<1>3. Max(fitting) \in fitting
  <2> HIDE DEF fitting
  <2> QED
    BY <1>2, MaxResult
<1>4. PICK n \in 0 .. Len(path) : n = Max(fitting) /\ \A i \in 1 .. n : path[i].word \in DOMAIN name
  BY <1>3
<1>5. PICK t \in Seq(SearchPos) : IsPart(t, path, 1, n)
  <2>1. 1 \in 1 .. Len(path) + 1 /\ n \in 1 - 1 .. Len(path)
    BY <1>4
  <2> QED
    BY <2>1, PartOf
<1>6. t = Marked(name, path)
  <2> HIDE DEF fitting
  <2> QED
    BY <1>1, <1>4, <1>5 DEF IsPart
<1>7. Len(t) = n /\ \A i \in 1 .. n : t[i] = path[i]
  <2>1. n - 1 + 1 = n /\ \A i \in 1 .. n : 1 + i - 1 = i
    OBVIOUS
  <2> QED
    BY <1>5, <2>1 DEF IsPart
<1>8. \A i \in DOMAIN t : t[i].word \in DOMAIN name
  BY <1>4, <1>7
<1> QED
  BY <1>6, <1>8

LEMMA PlaceType ==
  ASSUME NEW name \in Seq(Char), NEW path \in Seq(SearchPos), NEW p \in SearchPos,
         p.word \in DOMAIN name
  PROVE  PlaceOf(name, path, p) \in Nat \ {0}
<1>1. PICK n \in 0 .. Len(name) : n = p.word - 1
  <2>1. p.word - 1 \in 0 .. Len(name)
    OBVIOUS
  <2> QED
    BY <2>1
<1>2. FlattenSeq([w \in 1 .. n |-> ReadingOf(name, path, w)]) \in Seq(Char)
  BY LettersType
<1>3. Len(FlattenSeq([w \in 1 .. n |-> ReadingOf(name, path, w)])) \in Nat
  BY <1>2
<1>4. p.char \in Nat \ {0}
  BY DEF SearchPos
<1> QED
  BY <1>1, <1>3, <1>4 DEF PlaceOf

LEMMA PhoneMarksType ==
  ASSUME NEW phone \in Seq(Char), NEW input \in Seq(Char \ {Separator})
  PROVE  LET places == KmpPlaces(phone, input)
         IN places # <<>> => /\ NumberAround(phone, places) \in Seq(Char)
                             /\ PlacesInNumber(phone, places) \in Seq(Nat \ {0})
<1>1. CASE input = <<>>
  <2>1. KmpPlaces(phone, input) = <<>>
    <3>1. Len(input) = 0 /\ 1 .. 0 = {}
      BY <1>1
    <3>2. [i \in 1 .. Len(input) |-> KmpEnd(phone, input) - Len(input) + i] = <<>>
      BY <3>1
    <3> QED
      BY <3>2, Zenon DEF KmpPlaces
  <2> QED
    BY <2>1
<1>2. CASE input # <<>> /\ ~IsMatchByKmp(phone, input)
  <2>1. KmpEnd(phone, input) = 0
    <3>1. KmpEnd(phone, input) \in 0 .. Len(phone)
      BY <1>2, KmpEndResult
    <3> QED
      BY <1>2, <3>1 DEF IsMatchByKmp
  <2>2. KmpPlaces(phone, input) = <<>>
    BY <2>1 DEF KmpPlaces
  <2> QED
    BY <2>2
<1>3. CASE input # <<>> /\ IsMatchByKmp(phone, input)
  BY <1>3, NumberAroundResult DEF HoldsDigits
<1> QED
  BY <1>1, <1>2, <1>3

LEMMA IdsType ==
  ASSUME NEW array \in Seq(SearchData)
  PROVE  Ids(array) \in Seq(Id)
<1>1. \A i \in 1 .. Len(array) : array[i].id \in Id
  <2>1. \A i \in 1 .. Len(array) : array[i] \in SearchData
    OBVIOUS
  <2> QED
    BY <2>1 DEF SearchData
<1>2. DOMAIN array = 1 .. Len(array) /\ Len(array) \in Nat
  OBVIOUS
<1>3. Ids(array) \in [1 .. Len(array) -> Id]
  BY <1>1, <1>2 DEF Ids
<1> QED
  BY <1>2, <1>3, FunctionIsSeq

\* What a search by name or by number lists.
LEMMA SearchedType ==
  ASSUME TreeInv, NEW keypad \in BOOLEAN, NEW text \in Text, NEW names, NEW phones,
         IsSearched(keypad, text, names, phones)
  PROVE  names \in Seq(Id) /\ phones \in Seq(Id)
<1>1. PICK query \in Seq(Char) : query = Text2SearchData(text)
  BY TextType
<1>2. CASE names = <<>> /\ phones = <<>>
  BY <1>2
<1>3. CASE ~(names = <<>> /\ phones = <<>>)
  <2>1. PICK hits \in Seq(SearchData) : hits = NameHits(keypad, query)
    BY NameHitsType
  <2>2. /\ \E order \in Sorted(keypad, hits, query) : names = Ids(order)
        /\ phones = Ids(PhoneHits(keypad, text, hits))
    BY <1>1, <1>3, <2>1 DEF IsSearched
  <2>3. PICK order \in Sorted(keypad, hits, query) : names = Ids(order)
    BY <2>2
  <2>4. order \in Seq(SearchData)
    <3>1. order \in Seq(ToSet(hits))
      BY NamesShown
    <3>2. ToSet(hits) \subseteq SearchData
      BY DEF ToSet
    <3> QED
      BY <3>1, <3>2
  <2>5. PhoneHits(keypad, text, hits) \in Seq(SearchData)
    <3>1. iCachedHits[Full] \in Seq(SearchData) /\ SortedById(iCachedHits[Full])
      BY DEF TreeInv, TreeType, TreeExact, Tree, Key
    <3> QED
      BY <3>1, KeptSorted DEF PhoneHits
  <2> QED
    BY <2>2, <2>3, <2>4, <2>5, IdsType
<1> QED
  BY <1>2, <1>3

\* What is answered for a name.
LEMMA NameMarksType ==
  ASSUME NEW name \in Seq(Char), NEW trace \in Seq(SearchPos),
         NEW path, path = Marked(name, trace)
  PROVE  /\ PinYinOf(name, path) \in Seq(Char)
         /\ [i \in DOMAIN path |-> PlaceOf(name, path, path[i])] \in Seq(Nat \ {0})
<1>1. path \in Seq(SearchPos) /\ \A i \in DOMAIN path : path[i].word \in DOMAIN name
  BY MarkedType
<1>2. PinYinOf(name, path) \in Seq(Char)
  <2>1. DOMAIN name = 1 .. Len(name) /\ Len(name) \in 0 .. Len(name)
    OBVIOUS
  <2> QED
    BY <1>1, <2>1, LettersType DEF PinYinOf
<1>3. PICK places : places = [i \in DOMAIN path |-> PlaceOf(name, path, path[i])]
  OBVIOUS
<1>4. DOMAIN path = 1 .. Len(path) /\ Len(path) \in Nat /\ \A i \in DOMAIN path : path[i] \in SearchPos
  BY <1>1
<1>5. \A i \in DOMAIN path : PlaceOf(name, path, path[i]) \in Nat \ {0}
  BY <1>1, <1>4, PlaceType
<1>6. places \in [1 .. Len(path) -> Nat \ {0}]
  BY <1>3, <1>4, <1>5
<1>7. places \in Seq(Nat \ {0})
  BY <1>4, <1>6, FunctionIsSeq
<1> QED
  BY <1>2, <1>3, <1>7

LEMMA DataOfType ==
  ASSUME TreeInv, NEW id \in Id, Has(SearchDataArray, id)
  PROVE  /\ DataOf(id) \in SearchData /\ DataOf(id) \in ToSet(SearchDataArray)
         /\ DataOf(id).id = id
<1>1. SearchDataArray \in Seq(SearchData) /\ SortedById(SearchDataArray) /\ id \in Int
  BY IdType DEF TreeInv, TreeType, TreeExact, Tree
<1>2. PICK k \in DOMAIN SearchDataArray :
        DataOf(id) = SearchDataArray[k] /\ SearchDataArray[k].id = id
  BY <1>1, HasResult DEF DataOf
<1> QED
  BY <1>1, <1>2 DEF ToSet

(* The inductive invariant of the types: besides them, that the search     *)
(* text holds no mark between numbers.                                     *)
SearchVarsType ==
  /\ iMatchFunc \in BOOLEAN
  /\ matchFunction \in {Nil, "", "keypad"}
  /\ iCurSeachData \in Seq(Char \ {Separator}) \union {Nil}

AnswersType ==
  /\ iMatchTrace \in Seq(SearchPos)
  /\ shown \in Shown \union {Nil}
  /\ marks \in Marks \union {Nil}

LEMMA TypesTogether ==
  ASSUME TreeInv, SearchVarsType, AnswersType
  PROVE  TypeOK
<1>1. iCurSeachData \in Seq(Char) \union {Nil}
  <2>1. \A t \in Seq(Char \ {Separator}) : t \in Seq(Char)
    OBVIOUS
  <2> QED
    BY <2>1 DEF SearchVarsType
<1> QED
  BY <1>1 DEF TypeOK, TreeInv, TreeType, Tree, SearchVarsType, AnswersType

LEMMA InitType == SearchTreeInit => SearchVarsType /\ AnswersType
<1> SUFFICES ASSUME SearchTreeInit PROVE SearchVarsType /\ AnswersType
  OBVIOUS
<1>1. SearchVarsType
  BY DEF SearchTreeInit, SearchVarsType
<1>2. <<>> \in Seq(SearchPos)
  OBVIOUS
<1>3. AnswersType
  BY <1>2, Zenon DEF SearchTreeInit, AnswersType
<1> QED
  BY <1>1, <1>3

LEMMA NextSearchVars ==
  ASSUME SearchVarsType, [SearchNext]_vars
  PROVE  SearchVarsType'
<1>1. ASSUME NEW text \in Text, NEW keypad \in BOOLEAN, Search(text, keypad)
      PROVE  SearchVarsType'
  <2>1. iCurSeachData' = Text2SearchData(text) /\ matchFunction' = ""
    BY <1>1 DEF Search, SetMatchFunction, TreeSearch
  <2>2. Text2SearchData(text) \in Seq(Char \ {Separator})
    <3>1. text \in Seq(Char \ {Separator})
      BY TextType
    <3> QED
      BY <3>1, KeptResult DEF Text2SearchData
  <2>3. iMatchFunc' \in BOOLEAN
    BY <1>1 DEF Search, SetMatchFunction, KeypadAfter, SearchVarsType
  <2> QED
    BY <2>1, <2>2, <2>3 DEF SearchVarsType
<1>2. ASSUME UNCHANGED searchVars
      PROVE  SearchVarsType'
  BY <1>2 DEF searchVars, SearchVarsType
<1>3. ASSUME Reset
      PROVE  SearchVarsType'
  BY <1>3 DEF Reset, SearchVarsType
<1> QED
  BY <1>1, <1>2, <1>3
     DEF SearchNext, AddContact, ReplaceContact, DeleteContact, Becomes, GetPinYin,
         MarksName, GetPhoneNum, vars

LEMMA NextAnswers ==
  ASSUME SearchVarsType, AnswersType, TreeInv, [SearchNext]_vars
  PROVE  AnswersType'
<1>1. ASSUME NEW tree, Becomes(tree)
      PROVE  AnswersType'
  BY <1>1 DEF Becomes, AnswersType
<1>2. ASSUME NEW text \in Text, NEW keypad \in BOOLEAN, Search(text, keypad)
      PROVE  AnswersType'
  <2>1. iMatchTrace' = iMatchTrace /\ marks' = Nil /\ TreeSearch(text, KeypadAfter(keypad))
    BY <1>2 DEF Search
  <2>2. KeypadAfter(keypad) \in BOOLEAN
    BY DEF KeypadAfter, SearchVarsType
  <2>3. PICK names, phones :
          /\ shown' = [text |-> text, names |-> names, phones |-> phones]
          /\ IsSearched(KeypadAfter(keypad), text, names, phones)
    BY <2>1 DEF TreeSearch, IsSearched
  <2>4. names \in Seq(Id) /\ phones \in Seq(Id)
    BY <2>2, <2>3, SearchedType
  <2>5. shown' \in Shown
    BY <2>3, <2>4 DEF Shown
  <2> QED
    BY <2>1, <2>5 DEF AnswersType
<1>3. ASSUME Reset
      PROVE  AnswersType'
  BY <1>3 DEF Reset, AnswersType
<1>4. ASSUME NEW id \in Id, Has(SearchDataArray, id),
             NEW query \in Seq(Char), query # <<>>, MarksName(id, query)
      PROVE  AnswersType'
  <2>1. PICK name \in Seq(Char) : name = DataOf(id).name
    BY <1>4, DataOfType DEF SearchData
  <2>2. PICK trace \in Seq(SearchPos) : trace = Trace(MatchPath(iMatchFunc, name, query))
    <3>1. MatchPath(iMatchFunc, name, query) \in Seq(SearchPos)
      BY <1>4, MatchPathResult
    <3> QED
      BY <3>1 DEF Trace, AnswersType
  <2>3. PICK path : path = Marked(name, trace)
    OBVIOUS
  <2>4. /\ iMatchTrace' = trace
        /\ marks' = [id |-> id, kind |-> "name", text |-> PinYinOf(name, path),
                     places |-> [i \in DOMAIN path |-> PlaceOf(name, path, path[i])]]
        /\ shown' = shown
    BY <1>4, <2>1, <2>2, <2>3 DEF MarksName
  <2>5. /\ PinYinOf(name, path) \in Seq(Char)
        /\ [i \in DOMAIN path |-> PlaceOf(name, path, path[i])] \in Seq(Nat \ {0})
    BY <2>3, NameMarksType
  <2>6. marks' \in Marks
    BY <2>4, <2>5 DEF Marks
  <2> QED
    BY <2>4, <2>6 DEF AnswersType
<1>5. ASSUME NEW id \in Id, GetPinYin(id)
      PROVE  AnswersType'
  <2>1. CASE Reset
    BY <1>3, <2>1
  <2>2. CASE iCurSeachData \notin {Nil, <<>>} /\ MarksName(id, iCurSeachData)
    <3>1. iCurSeachData \in Seq(Char \ {Separator}) /\ iCurSeachData # <<>>
      BY <2>2 DEF SearchVarsType
    <3>2. iCurSeachData \in Seq(Char)
      BY <3>1
    <3> QED
      BY <1>4, <1>5, <2>2, <3>1, <3>2 DEF GetPinYin
  <2>3. CASE iCurSeachData = <<>> /\ \E c \in Char : MarksName(id, <<c>>)
    <3>1. PICK c \in Char : MarksName(id, <<c>>)
      BY <2>3
    <3>2. <<c>> \in Seq(Char) /\ <<c>> # <<>>
      OBVIOUS
    <3> QED
      BY <1>4, <1>5, <3>1, <3>2 DEF GetPinYin
  <2> QED
    BY <1>5, <2>1, <2>2, <2>3 DEF GetPinYin
<1>6. ASSUME NEW id \in Id, GetPhoneNum(id)
      PROVE  AnswersType'
  <2>1. CASE Reset
    BY <1>3, <2>1
  <2>2. CASE ~Reset
    <3>1. PICK phone, places :
            /\ phone = DataOf(id).phone /\ Has(SearchDataArray, id)
            /\ iCurSeachData # Nil
            /\ places = KmpPlaces(phone, CurrentDigits(iCurSeachData)) /\ places # <<>>
            /\ marks' = [id |-> id, kind |-> "phone", text |-> NumberAround(phone, places),
                         places |-> PlacesInNumber(phone, places)]
            /\ UNCHANGED <<iMatchTrace, shown>>
      BY <1>6, <2>2 DEF GetPhoneNum, PhonePlaces
    <3>2. phone \in Seq(Char)
      BY <3>1, DataOfType DEF SearchData
    <3>3. PICK input \in Seq(Char \ {Separator}) : input = CurrentDigits(iCurSeachData)
      <4>1. iCurSeachData \in Seq(Char \ {Separator}) /\ iMatchFunc \in BOOLEAN
        BY <3>1 DEF SearchVarsType
      <4> QED
        BY <4>1, TypedDigitsType DEF CurrentDigits
    <3>4. /\ NumberAround(phone, places) \in Seq(Char)
          /\ PlacesInNumber(phone, places) \in Seq(Nat \ {0})
      BY <3>1, <3>2, <3>3, PhoneMarksType
    <3>5. marks' \in Marks
      BY <3>1, <3>4 DEF Marks
    <3> QED
      BY <3>1, <3>5 DEF AnswersType
  <2> QED
    BY <2>1, <2>2
<1>7. ASSUME UNCHANGED vars
      PROVE  AnswersType'
  BY <1>7 DEF vars, AnswersType
<1> QED
  BY <1>1, <1>2, <1>3, <1>5, <1>6, <1>7
     DEF SearchNext, AddContact, ReplaceContact, DeleteContact

(* Every list, answer and path that the search keeps is of its type, so it *)
(* is made without reading a list beyond its end.                          *)
THEOREM SearchTypes == SearchSpec => []TypeOK
<1> DEFINE Inv == TreeInv /\ ShownInv /\ SearchVarsType /\ AnswersType
<1>1. SearchTreeInit => Inv
  BY InitTree, InitShown, InitType
<1>2. Inv /\ [SearchNext]_vars => Inv'
  BY NextTree, NextShown, NextSearchVars, NextAnswers
<1>3. Inv => TypeOK
  BY TypesTogether
<1> QED
  BY <1>1, <1>2, <1>3, PTL DEF SearchSpec

-----------------------------------------------------------------------------
(* The letters that are highlighted *)

\* The letters of the first n words.
Letters(name, path, n) == FlattenSeq([w \in 1 .. n |-> ReadingOf(name, path, w)])

LEMMA LettersGrow ==
  ASSUME NEW name \in Seq(Char), NEW path \in Seq(SearchPos), NEW n \in DOMAIN name
  PROVE  IsJoin(Letters(name, path, n), Letters(name, path, n - 1), ReadingOf(name, path, n))
<1>1. PICK f, g : /\ f = [w \in 1 .. n - 1 |-> ReadingOf(name, path, w)]
                  /\ g = [w \in 1 .. n |-> ReadingOf(name, path, w)]
  OBVIOUS
<1>2. \A w \in 1 .. n : ReadingOf(name, path, w) \in Seq(Char)
  <2>1. \A w \in 1 .. n : w \in DOMAIN name
    OBVIOUS
  <2> QED
    BY <2>1, PartOfReading
<1>3. /\ n \in Nat /\ n - 1 \in Nat
      /\ f \in [1 .. n - 1 -> Seq(Char)] /\ g \in [1 .. n -> Seq(Char)]
  BY <1>1, <1>2
<1>4. f \in Seq(Seq(Char)) /\ g \in Seq(Seq(Char)) /\ Len(f) = n - 1 /\ Len(g) = n
  BY <1>3, FunctionIsSeq
<1>5. FlattenSeq(g) = FlattenSeq(f) \o g[n]
  <2>1. Len(g) = Len(f) + 1 /\ \A i \in 1 .. Len(f) : g[i] = f[i]
    BY <1>1, <1>3, <1>4
  <2> QED
    BY <1>4, <2>1, FlattenOneMore
<1>6. FlattenSeq(f) \in Seq(Char) /\ g[n] \in Seq(Char) /\ g[n] = ReadingOf(name, path, n)
  BY <1>1, <1>2, <1>3, <1>4, FlattenType
<1>7. \E u \in Seq(Char) : IsJoin(u, FlattenSeq(f), g[n])
  BY <1>6, Joined
<1>8. IsJoin(FlattenSeq(g), FlattenSeq(f), g[n])
  BY <1>5, <1>7 DEF IsJoin
<1> QED
  BY <1>1, <1>6, <1>8, Zenon DEF Letters

BeginsWith(u, s) == Len(s) <= Len(u) /\ \A k \in 1 .. Len(s) : u[k] = s[k]

LEMMA LettersBegin ==
  ASSUME NEW name \in Seq(Char), NEW path \in Seq(SearchPos), NEW n \in 0 .. Len(name)
  PROVE  \A m \in n .. Len(name) : BeginsWith(Letters(name, path, m), Letters(name, path, n))
<1> DEFINE P == {m \in Nat : m \in n .. Len(name) =>
                   BeginsWith(Letters(name, path, m), Letters(name, path, n))}
<1>1. \A m \in 0 .. Len(name) : Letters(name, path, m) \in Seq(Char)
  BY LettersType DEF Letters
<1>2. ASSUME NEW m \in Nat, \A k \in 0 .. m - 1 : k \in P
      PROVE  m \in P
  <2> SUFFICES ASSUME m \in n .. Len(name)
               PROVE  BeginsWith(Letters(name, path, m), Letters(name, path, n))
    OBVIOUS
  <2>1. CASE m = n
    BY <1>1, <2>1 DEF BeginsWith
  <2>2. CASE m # n
    <3>1. m \in DOMAIN name /\ m - 1 \in 0 .. m - 1 /\ m - 1 \in n .. Len(name)
      BY <2>2
    <3>2. PICK u, v, w, r :
            /\ u = Letters(name, path, m) /\ v = Letters(name, path, m - 1)
            /\ w = Letters(name, path, n) /\ r = ReadingOf(name, path, m)
      OBVIOUS
    <3>3. IsJoin(u, v, r) /\ BeginsWith(v, w)
      BY <1>2, <3>1, <3>2, LettersGrow
    <3>4. u \in Seq(Char) /\ v \in Seq(Char) /\ w \in Seq(Char) /\ r \in Seq(Char)
      BY <1>1, <3>1, <3>2, PartOfReading
    <3>5. BeginsWith(u, w)
      BY <3>3, <3>4 DEF IsJoin, BeginsWith
    <3> QED
      BY <3>2, <3>5
  <2> QED
    BY <2>1, <2>2
<1>3. \A m \in Nat : m \in P
  <2> HIDE DEF P
  <2> QED
    BY <1>2, NatInduct
<1> QED
  BY <1>3

\* A letter of a word is in the letters of the name, behind those of the words
\* before it and not behind those of the word.
LEMMA LetterPlace ==
  ASSUME NEW name \in Seq(Char), NEW path \in Seq(SearchPos), NEW w \in DOMAIN name,
         NEW reading, reading = ReadingOf(name, path, w), NEW c \in DOMAIN reading
  PROVE  \E place \in DOMAIN PinYinOf(name, path) :
           /\ place = Len(Letters(name, path, w - 1)) + c
           /\ Len(Letters(name, path, w - 1)) < place
           /\ place <= Len(Letters(name, path, w))
           /\ PinYinOf(name, path)[place] = reading[c]
<1>1. /\ w \in 0 .. Len(name) /\ w - 1 \in 0 .. Len(name) /\ Len(name) \in w .. Len(name)
      /\ Len(name) \in 0 .. Len(name) /\ DOMAIN name = 1 .. Len(name)
  OBVIOUS
<1>2. PICK u \in Seq(Char), v \in Seq(Char), all \in Seq(Char) :
        /\ u = Letters(name, path, w) /\ v = Letters(name, path, w - 1)
        /\ all = Letters(name, path, Len(name))
  <2>1. \A m \in 0 .. Len(name) : Letters(name, path, m) \in Seq(Char)
    BY LettersType DEF Letters
  <2> QED
    BY <1>1, <2>1
<1>3. all = PinYinOf(name, path)
  BY <1>1, <1>2 DEF Letters, PinYinOf
<1>4. IsJoin(u, v, reading) /\ reading \in Seq(Char)
  BY <1>2, LettersGrow, PartOfReading
<1>5. BeginsWith(all, u)
  BY <1>1, <1>2, LettersBegin
<1>6. PICK place \in 1 .. Len(u) : place = Len(v) + c /\ u[place] = reading[c] /\ Len(v) < place
  <2>1. c \in 1 .. Len(reading) /\ Len(v) \in Nat /\ Len(u) = Len(v) + Len(reading)
    BY <1>4 DEF IsJoin
  <2>2. u[Len(v) + c] = reading[c]
    BY <1>4, <2>1 DEF IsJoin
  <2>3. Len(v) + c \in 1 .. Len(u) /\ Len(v) < Len(v) + c
    BY <1>4, <2>1
  <2> QED
    BY <2>2, <2>3
<1>7. place \in DOMAIN all /\ all[place] = u[place]
  BY <1>5 DEF BeginsWith
<1> QED
  BY <1>2, <1>3, <1>6, <1>7

-----------------------------------------------------------------------------
\* A path for the text takes its own reading of each of its words.
Takes(name, t, p) ==
  ReadingOf(name, t, p.word) =
    IF Readings(name[p.word]) = <<>> THEN <<name[p.word]>>
    ELSE Readings(name[p.word])[p.py]

LEMMA ReadingTaken ==
  ASSUME NEW keypad, NEW name \in Seq(Char), NEW query \in Seq(Char), NEW t,
         IsPath(keypad, name, query, t), ~RepeatsSymbol(query)
  PROVE  \A i \in 1 .. Len(query) : Takes(name, t, t[i])
<1> SUFFICES ASSUME NEW i \in 1 .. Len(query), NEW p, p = t[i]
             PROVE  Takes(name, t, p)
  OBVIOUS
<1>1. PICK word \in Nat : word = t[i].word /\ word = p.word
  BY DEF IsPath, IsPlace, SearchPos
<1>2. CASE Readings(name[word]) = <<>>
  BY <1>1, <1>2 DEF ReadingOf, Takes
<1>3. CASE Readings(name[word]) # <<>>
  <2> DEFINE at == {j \in DOMAIN t : t[j].word = word
                                  /\ t[j].py \in DOMAIN Readings(name[word])}
  <2>1. t \in Seq(SearchPos) /\ Len(t) = Len(query)
    BY DEF IsPath
  <2>2. IsLetter(keypad, name, query, t, i)
    BY PathLetters
  <2>3. i \in at
    BY <1>1, <1>3, <2>1, <2>2 DEF IsLetter
  <2>4. Max(at) \in at
    <3>1. at \in SUBSET (0 .. Len(t)) /\ Len(t) \in Nat /\ at # {}
      BY <2>1, <2>3
    <3> HIDE DEF at
    <3> QED
      BY <3>1, MaxResult
  <2>5. PICK j \in 1 .. Len(query) : j = Max(at) /\ t[j].word = t[i].word
    <3>1. \A j \in at : j \in 1 .. Len(query) /\ t[j].word = t[i].word
      BY <1>1, <2>1
    <3> HIDE DEF at
    <3> QED
      BY <2>4, <3>1
  <2>6. t[j].py = t[i].py
    <3> HIDE DEF at
    <3>1. IsSteady(query, t)
      BY OneReading
    <3> QED
      BY <2>5, <3>1 DEF IsSteady
  <2>7. ReadingOf(name, t, word) = Readings(name[word])[t[Max(at)].py]
    BY <1>3, <2>3 DEF ReadingOf
  <2> HIDE DEF at
  <2> QED
    BY <1>1, <1>3, <2>5, <2>6, <2>7 DEF Takes
<1> QED
  BY <1>2, <1>3

\* All of it is marked.
LEMMA AllMarked ==
  ASSUME NEW keypad, NEW name \in Seq(Char), NEW query \in Seq(Char), NEW t,
         IsPath(keypad, name, query, t), ~RepeatsSymbol(query)
  PROVE  Marked(name, t) = t
<1> DEFINE Fits(i) ==
             /\ t[i].word \in DOMAIN name
             /\ IF Readings(name[t[i].word]) = <<>>
                THEN t[i].py = 1 /\ (i = 1 \/ t[i - 1].word # t[i].word)
                ELSE t[i].py \in DOMAIN Readings(name[t[i].word])
           fitting == {n \in 0 .. Len(t) : \A i \in 1 .. n : Fits(i)}
<1>1. Marked(name, t) = SubSeq(t, 1, Max(fitting))
  BY DEF Marked
<1>2. t \in Seq(SearchPos) /\ Len(t) = Len(query) /\ Len(t) \in Nat
  BY DEF IsPath
<1>3. ASSUME NEW i \in 1 .. Len(t) PROVE Fits(i)
  <2>1. IsLetter(keypad, name, query, t, i)
    BY <1>2, PathLetters
  <2>2. t[i].word \in DOMAIN name
    BY <1>2 DEF IsPath, IsPlace
  <2> QED
    BY <2>1, <2>2, Zenon DEF IsLetter
<1>4. Len(t) \in fitting /\ fitting \in SUBSET (0 .. Len(t))
  BY <1>2, <1>3
<1>5. Max(fitting) = Len(t)
  <2>1. Max(fitting) \in fitting /\ \A n \in fitting : n <= Max(fitting)
    <3> HIDE DEF fitting
    <3> QED
      BY <1>2, <1>4, MaxResult
  <2>2. Max(fitting) \in 0 .. Len(t) /\ Len(t) <= Max(fitting)
    BY <1>4, <2>1
  <2> HIDE DEF fitting
  <2> QED
    BY <1>2, <2>2
<1>6. SubSeq(t, 1, Len(t)) = t
  BY <1>2
<1> HIDE DEF fitting
<1> QED
  BY <1>1, <1>5, <1>6

\* What is highlighted for it spells the text.
Highlights(keypad, query, text, places) ==
  /\ Len(places) = Len(query)
  /\ \A i \in DOMAIN places :
       /\ places[i] \in DOMAIN text
       /\ i > 1 => places[i - 1] < places[i]
       /\ query[i] \notin Hanzi => CompareWord(keypad, text[places[i]], query[i])

LEMMA PathHighlights ==
  ASSUME NEW keypad, NEW name \in Seq(Char), NEW query \in Seq(Char), NEW t,
         IsPath(keypad, name, query, t), ~RepeatsSymbol(query),
         NEW places, places = [i \in DOMAIN t |-> PlaceOf(name, t, t[i])]
  PROVE  Highlights(keypad, query, PinYinOf(name, t), places)
<1>1. t \in Seq(SearchPos) /\ Len(t) = Len(query) /\ Len(t) \in Nat /\ DOMAIN t = 1 .. Len(query)
  BY DEF IsPath
<1>2. ASSUME NEW i \in 1 .. Len(query)
      PROVE  /\ t[i].word \in DOMAIN name /\ t[i].word \in Nat
             /\ places[i] = Len(Letters(name, t, t[i].word - 1)) + t[i].char
             /\ t[i].char \in Nat /\ Len(Letters(name, t, t[i].word - 1)) \in Nat
             /\ places[i] \in DOMAIN PinYinOf(name, t)
             /\ places[i] \in Nat
             /\ Len(Letters(name, t, t[i].word - 1)) < places[i]
             /\ places[i] <= Len(Letters(name, t, t[i].word))
             /\ query[i] \notin Hanzi =>
                  CompareWord(keypad, PinYinOf(name, t)[places[i]], query[i])
  <2>1. PICK p \in SearchPos : p = t[i] /\ p.word \in DOMAIN name
    BY DEF IsPath, IsPlace
  <2>2. IsLetter(keypad, name, query, t, i)
    BY PathLetters
  <2>3. PICK reading \in Seq(Char) :
          /\ reading = ReadingOf(name, t, p.word) /\ p.char \in DOMAIN reading
          /\ query[i] \notin Hanzi => CompareWord(keypad, reading[p.char], query[i])
    <3>1. PICK reading \in Seq(Char) : reading = ReadingOf(name, t, p.word)
      BY <1>1, <2>1, PartOfReading
    <3>2. reading = IF Readings(name[p.word]) = <<>> THEN <<name[p.word]>>
                    ELSE Readings(name[p.word])[p.py]
      <4>1. \A h \in 1 .. Len(query) : Takes(name, t, t[h])
        BY ReadingTaken
      <4>2. Takes(name, t, p)
        BY <2>1, <4>1
      <4> QED
        BY <3>1, <4>2, Zenon DEF Takes
    <3>3. CASE Readings(name[p.word]) = <<>>
      <4>1. p.char = 1 /\ CompareWord(keypad, name[p.word], query[i])
        BY <2>1, <2>2, <3>3 DEF IsLetter
      <4>2. reading = <<name[p.word]>>
        BY <3>2, <3>3
      <4>3. 1 \in DOMAIN reading /\ reading[1] = name[p.word]
        BY <4>2
      <4> QED
        BY <3>1, <4>1, <4>3
    <3>4. CASE Readings(name[p.word]) # <<>>
      <4>1. reading = Readings(name[p.word])[p.py]
        BY <3>2, <3>4
      <4>2. /\ p.char \in DOMAIN reading
            /\ query[i] \notin Wide => CompareWord(keypad, reading[p.char], query[i])
            /\ query[i] \in Wide => query[i] \in Hanzi
        BY <2>1, <2>2, <3>4, <4>1, Zenon DEF IsLetter
      <4> QED
        BY <3>1, <4>2
    <3> QED
      BY <3>3, <3>4
  <2>4. PICK place \in DOMAIN PinYinOf(name, t) :
          /\ place = Len(Letters(name, t, p.word - 1)) + p.char
          /\ Len(Letters(name, t, p.word - 1)) < place
          /\ place <= Len(Letters(name, t, p.word))
          /\ PinYinOf(name, t)[place] = reading[p.char]
    BY <1>1, <2>1, <2>3, LetterPlace
  <2>5. places[i] = place
    BY <1>1, <2>1, <2>4 DEF PlaceOf, Letters
  <2>6. /\ p.word \in Nat /\ p.char \in Nat /\ place \in Nat
        /\ Len(Letters(name, t, p.word - 1)) \in Nat
    <3>1. p.word - 1 \in 0 .. Len(name) /\ Len(name) \in 0 .. Len(name)
      BY <2>1
    <3>2. Letters(name, t, p.word - 1) \in Seq(Char) /\ PinYinOf(name, t) \in Seq(Char)
      <4>1. DOMAIN name = 1 .. Len(name)
        OBVIOUS
      <4> QED
        BY <1>1, <3>1, <4>1, LettersType DEF Letters, PinYinOf
    <3> QED
      BY <3>2, <2>4 DEF SearchPos
  <2> QED
    BY <2>1, <2>3, <2>4, <2>5, <2>6
<1>3. ASSUME NEW i \in 1 .. Len(query), i > 1
      PROVE  places[i - 1] < places[i]
  <2>1. PICK h \in 1 .. Len(query) : h = i - 1
    BY <1>3
  <2>2. IsStep(query, t, i)
    BY DEF IsPath
  <2>3. CASE t[i].word = t[h].word /\ t[i].char = t[h].char + 1
    <3>1. PICK n \in Nat, c \in Nat :
            /\ n = Len(Letters(name, t, t[h].word - 1)) /\ c = t[h].char
      BY <1>2
    <3>2. places[h] = n + c /\ places[i] = n + (c + 1)
      BY <1>2, <2>3, <3>1
    <3> QED
      BY <2>1, <3>1, <3>2
  <2>4. CASE t[i].word = t[h].word + 1
    <3>1. t[i].word - 1 = t[h].word
      <4>1. PICK n \in Nat : n = t[h].word
        BY <1>2
      <4> QED
        BY <2>4, <4>1
    <3>2. /\ places[h] <= Len(Letters(name, t, t[h].word))
          /\ Len(Letters(name, t, t[h].word)) < places[i]
          /\ places[h] \in Nat /\ places[i] \in Nat
          /\ Len(Letters(name, t, t[h].word)) \in Nat
      <4>1. /\ Len(Letters(name, t, t[i].word - 1)) < places[i]
            /\ Len(Letters(name, t, t[i].word - 1)) \in Nat
        BY <1>2
      <4> QED
        BY <1>2, <3>1, <4>1
    <3> QED
      BY <2>1, <3>2
  <2> QED
    BY <1>3, <2>1, <2>2, <2>3, <2>4 DEF IsStep
<1>4. DOMAIN places = 1 .. Len(query) /\ Len(places) = Len(query)
  BY <1>1
<1> QED
  BY <1>2, <1>3, <1>4 DEF Highlights

\* What the last answer of GetPinYin is made from, if the contact matches.
NameMarksInv ==
  (marks # Nil /\ marks.kind = "name") =>
    /\ marks.id \in Id /\ Has(SearchDataArray, marks.id)
    /\ iCurSeachData \in Seq(Char)
    /\ LET name == DataOf(marks.id).name
           path == MatchPath(iMatchFunc, name, iCurSeachData)
       IN (iCurSeachData # <<>> /\ path # <<>>) =>
            /\ marks.text = PinYinOf(name, Marked(name, path))
            /\ marks.places = [i \in DOMAIN Marked(name, path) |->
                                 PlaceOf(name, Marked(name, path), Marked(name, path)[i])]

LEMMA InitNameMarks == SearchTreeInit => NameMarksInv
  BY DEF SearchTreeInit, NameMarksInv

LEMMA NextNameMarks ==
  ASSUME SearchVarsType, NameMarksInv, [SearchNext]_vars
  PROVE  NameMarksInv'
<1>1. ASSUME marks' = Nil
      PROVE  NameMarksInv'
  BY <1>1 DEF NameMarksInv
<1>2. ASSUME NEW id \in Id, Has(SearchDataArray, id),
             iCurSeachData \notin {Nil, <<>>}, MarksName(id, iCurSeachData)
      PROVE  NameMarksInv'
  <2>1. UNCHANGED <<SearchDataArray, iMatchFunc, iCurSeachData>>
    BY <1>2 DEF MarksName, treeVars, searchVars
  <2>2. PICK name, path, marked :
          /\ name = DataOf(id).name /\ path = MatchPath(iMatchFunc, name, iCurSeachData)
          /\ marked = Marked(name, Trace(path))
    OBVIOUS
  <2>3. marks' = [id |-> id, kind |-> "name", text |-> PinYinOf(name, marked),
                  places |-> [i \in DOMAIN marked |-> PlaceOf(name, marked, marked[i])]]
    BY <1>2, <2>2 DEF MarksName
  <2>4. Has(SearchDataArray', id) /\ marks'.id = id
    BY <1>2, <2>1, <2>3
  <2>5. DataOf(id)' = DataOf(id)
    BY <2>1 DEF DataOf
  <2>6. path # <<>> => Trace(path) = path
    BY DEF Trace
  <2>7. path # <<>> =>
          /\ marks'.text = PinYinOf(name, Marked(name, path))
          /\ marks'.places = [i \in DOMAIN Marked(name, path) |->
                                PlaceOf(name, Marked(name, path), Marked(name, path)[i])]
    BY <2>2, <2>3, <2>6
  <2>8. iCurSeachData \in Seq(Char)
    <3>1. iCurSeachData \in Seq(Char \ {Separator})
      BY <1>2 DEF SearchVarsType
    <3> QED
      BY <3>1
  <2> QED
    BY <2>1, <2>2, <2>4, <2>5, <2>7, <2>8 DEF NameMarksInv, DataOf
<1>3. ASSUME NEW id \in Id, Has(SearchDataArray, id),
             iCurSeachData = <<>>, NEW c \in Char, MarksName(id, <<c>>)
      PROVE  NameMarksInv'
  <2>1. /\ UNCHANGED <<SearchDataArray, iCurSeachData>>
        /\ marks'.id = id
    BY <1>3 DEF MarksName, treeVars, searchVars
  <2>2. iCurSeachData \in Seq(Char)
    BY <1>3
  <2> QED
    BY <1>3, <2>1, <2>2 DEF NameMarksInv
<1>4. ASSUME NEW id \in Id, GetPinYin(id)
      PROVE  NameMarksInv'
  <2>1. Has(SearchDataArray, id)
    BY <1>4 DEF GetPinYin
  <2>2. CASE Reset
    BY <1>1, <2>2 DEF Reset
  <2>3. CASE iCurSeachData \notin {Nil, <<>>} /\ MarksName(id, iCurSeachData)
    BY <1>2, <2>1, <2>3
  <2>4. CASE iCurSeachData = <<>> /\ \E c \in Char : MarksName(id, <<c>>)
    <3>1. PICK c \in Char : MarksName(id, <<c>>)
      BY <2>4
    <3> QED
      BY <1>3, <2>1, <2>4, <3>1
  <2> QED
    BY <1>4, <2>2, <2>3, <2>4 DEF GetPinYin
<1>5. ASSUME NEW id \in Id, GetPhoneNum(id)
      PROVE  NameMarksInv'
  <2>1. CASE Reset
    BY <1>1, <2>1 DEF Reset
  <2>2. CASE marks' # Nil /\ marks'.kind = "phone"
    BY <2>2 DEF NameMarksInv
  <2>3. Reset \/ \E text, places :
          marks' = [id |-> id, kind |-> "phone", text |-> text, places |-> places]
    BY <1>5 DEF GetPhoneNum
  <2>4. (\E text, places :
          marks' = [id |-> id, kind |-> "phone", text |-> text, places |-> places]) =>
            marks'.kind = "phone"
    OBVIOUS
  <2> QED
    BY <1>1, <2>1, <2>2, <2>3, <2>4
<1>6. ASSUME UNCHANGED vars
      PROVE  NameMarksInv'
  BY <1>6 DEF vars, treeVars, searchVars, NameMarksInv, DataOf
<1> QED
  BY <1>1, <1>4, <1>5, <1>6
     DEF SearchNext, AddContact, ReplaceContact, DeleteContact, Becomes, Search, Reset

LEMMA InvHighlightSpellsQuery ==
  ASSUME TreeInv, SearchVarsType, NameMarksInv
  PROVE  HighlightSpellsQuery
<1> SUFFICES ASSUME marks # Nil, marks.kind = "name",
                    Matches(iMatchFunc, DataOf(marks.id).name, iCurSeachData),
                    ~RepeatsSymbol(iCurSeachData)
             PROVE  Highlights(iMatchFunc, iCurSeachData, marks.text, marks.places)
  BY DEF HighlightSpellsQuery, Highlights
<1>1. PICK query \in Seq(Char) : query = iCurSeachData /\ query # <<>>
  <2>1. iCurSeachData \in Seq(Char)
    BY DEF NameMarksInv
  <2>2. iCurSeachData # <<>>
    <3>1. \A n \in DOMAIN <<>> : FALSE
      OBVIOUS
    <3>2. Cuts(<<>>) = {}
      BY <3>1, Zenon DEF Cuts
    <3> QED
      BY <3>2 DEF Matches
  <2> QED
    BY <2>1, <2>2
<1>2. PICK name \in Seq(Char) : name = DataOf(marks.id).name
  BY DataOfType DEF NameMarksInv, SearchData
<1>3. PICK path : path = MatchPath(iMatchFunc, name, query)
  OBVIOUS
<1>4. path # <<>>
  <2>1. IsHit(iMatchFunc, name, query)
    BY <1>1, <1>2, HitsAreMatches
  <2> QED
    BY <1>3, <2>1 DEF IsHit
<1>5. IsPath(iMatchFunc, name, query, path)
  BY <1>1, <1>3, <1>4, MatchIsPath
<1>6. Marked(name, path) = path
  BY <1>1, <1>5, AllMarked
<1>7. /\ marks.text = PinYinOf(name, path)
      /\ marks.places = [i \in DOMAIN path |-> PlaceOf(name, path, path[i])]
  BY <1>1, <1>2, <1>3, <1>4, <1>6 DEF NameMarksInv
<1>8. Highlights(iMatchFunc, query, PinYinOf(name, path), marks.places)
  BY <1>1, <1>5, <1>7, PathHighlights
<1> QED
  BY <1>1, <1>7, <1>8

(* What is highlighted for a contact that matches spells the text, letter  *)
(* by letter and in order (Tree_GetPinYin): for it the trace is that of    *)
(* its own match, and of each word the reading that was matched is shown.  *)
THEOREM HighlightsSpell == SearchSpec => []HighlightSpellsQuery
<1> DEFINE Inv == TreeInv /\ SearchVarsType /\ NameMarksInv
<1>1. SearchTreeInit => Inv
  BY InitTree, InitType, InitNameMarks
<1>2. Inv /\ [SearchNext]_vars => Inv'
  BY NextTree, NextSearchVars, NextNameMarks
<1>3. Inv => HighlightSpellsQuery
  BY InvHighlightSpellsQuery
<1> QED
  BY <1>1, <1>2, <1>3, PTL DEF SearchSpec

-----------------------------------------------------------------------------
(* The order of the names *)

LEMMA InvFullSpellingFirst ==
  ASSUME TreeInv, ShownInv
  PROVE  FullSpellingFirst
<1> SUFFICES ASSUME shown # Nil, Query # <<>>, ~RepeatsSymbol(Query),
                    NEW i \in DOMAIN shown.names, NEW j \in DOMAIN shown.names,
                    NEW a, a = DataOf(shown.names[i]).name,
                    NEW b, b = DataOf(shown.names[j]).name,
                    Spells(iMatchFunc, a, Query), ~Spells(iMatchFunc, b, Query),
                    \A c \in ToSet(a) : Len(Readings(c)) <= 1
             PROVE  i < j
  BY DEF FullSpellingFirst
<1>1. PICK text \in Text : text = shown.text /\ Query = Text2SearchData(text)
  BY DEF ShownInv, Query
<1>2. PICK query \in Seq(Char) : query = Query /\ query # <<>> /\ ~RepeatsSymbol(query)
  BY <1>1, TextType
<1>3. PICK keypad \in BOOLEAN : keypad = iMatchFunc
  BY DEF ShownInv
<1>4. PICK names \in Seq(SearchData) :
        /\ names = NameHits(keypad, query)
        /\ ToSet(names) \subseteq ToSet(SearchDataArray)
  BY NameHitsType
<1>5. PICK order \in Sorted(keypad, names, query) : shown.names = Ids(order)
  BY <1>1, <1>2, <1>3, <1>4 DEF ShownInv, IsSearched
<1>6. order \in Seq(ToSet(names)) /\ DOMAIN shown.names = DOMAIN order
  BY <1>5, NamesShown DEF Ids
<1>7. ASSUME NEW d \in ToSet(names)
      PROVE  d.name \in Seq(Char) /\ DataOf(d.id) = d /\ IsHit(keypad, d.name, query)
  <2>1. d \in SearchData /\ DataOf(d.id) = d
    BY <1>4, DataOfResult
  <2>2. query[1] \in Char
    BY <1>2
  <2>3. PICK key \in Key : SearchCachedHit(keypad, query[1]) = iCachedHits[key]
    BY <2>2, HitKey
  <2>4. iCachedHits[key] \in Seq(SearchData) /\ SortedById(iCachedHits[key])
    BY DEF TreeInv, TreeType, TreeExact, Tree
  <2>5. PICK S : /\ S = {e \in ToSet(iCachedHits[key]) : IsHit(keypad, e.name, query)}
                 /\ names = Kept(iCachedHits[key], S)
    BY <1>2, <1>4, <2>3 DEF NameHits
  <2>6. d \in S
    BY <2>4, <2>5, KeptSorted
  <2> QED
    BY <2>1, <2>5, <2>6 DEF SearchData
<1>8. ASSUME NEW k \in DOMAIN order
      PROVE  order[k] \in ToSet(names) /\ DataOf(shown.names[k]) = order[k]
  <2>1. shown.names[k] = order[k].id /\ order[k] \in ToSet(names)
    BY <1>5, <1>6 DEF Ids
  <2> QED
    BY <1>7, <2>1
<1>9. PICK d \in ToSet(names), e \in ToSet(names) :
        d = order[i] /\ e = order[j] /\ a = d.name /\ b = e.name
  BY <1>6, <1>8
<1>10. Weight(keypad, a, query).matchAllInPy
  BY <1>2, <1>3, <1>7, <1>9, WeightSpells
<1>11. ~Weight(keypad, b, query).matchAllInPy
  BY <1>2, <1>3, <1>7, <1>9, WeightSpells
<1>12. ListedBefore(Weight(keypad, a, query), Weight(keypad, b, query))
  BY <1>10, <1>11 DEF ListedBefore
<1>13. ListedBefore(Weight(keypad, order[i].name, query), Weight(keypad, order[j].name, query))
  BY <1>9, <1>12
<1> QED
  BY <1>2, <1>5, <1>6, <1>8, <1>13 DEF Sorted

(* A contact whose whole name the text spells is listed before those whose *)
(* names it only begins (SearchSortCmp): the path IsHit keeps for it, the  *)
(* first one it finds, goes through all the words to their ends.           *)
THEOREM FullSpellingsFirst == SearchSpec => []FullSpellingFirst
<1>1. SearchTreeInit => TreeInv /\ ShownInv
  BY InitTree, InitShown
<1>2. (TreeInv /\ ShownInv) /\ [SearchNext]_vars => (TreeInv /\ ShownInv)'
  BY NextTree, NextShown
<1>3. TreeInv /\ ShownInv => FullSpellingFirst
  BY InvFullSpellingFirst
<1> QED
  BY <1>1, <1>2, <1>3, PTL DEF SearchSpec
=============================================================================
