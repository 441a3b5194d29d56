---------------------------- MODULE Array_proofs ----------------------------
(***************************************************************************)
(* Proofs about Array.  The invariant that carries them is EndInv: while   *)
(* the memory is not used up, the end is size words from the start, counted*)
(* from its own block, and that block is one of the array's.               *)
(***************************************************************************)
EXTENDS Array, SequenceTheorems, TLAPS

EndInv ==
  HasRoom => /\ pDataEnd.block * MALLOC_SIZE + pDataEnd.offset = size
             /\ pDataEnd.block < pIndexNum

ArrayInv == TypeOK /\ EndInv /\ OneBlockNeverStrays

-----------------------------------------------------------------------------
(* Blocks and words *)

LEMMA DivMod ==
  ASSUME NEW i \in Nat
  PROVE  /\ i \div MALLOC_SIZE \in Nat
         /\ i % MALLOC_SIZE \in 0 .. MALLOC_SIZE - 1
         /\ (i \div MALLOC_SIZE) * MALLOC_SIZE + (i % MALLOC_SIZE) = i
  BY SizeAssumption

LEMMA TimesMono ==
  ASSUME NEW a \in Nat, NEW b \in Nat, a < b
  PROVE  /\ a * MALLOC_SIZE \in Nat
         /\ (a + 1) * MALLOC_SIZE = a * MALLOC_SIZE + MALLOC_SIZE
         /\ (a + 1) * MALLOC_SIZE <= b * MALLOC_SIZE
  BY SizeAssumption

LEMMA DivBelow ==
  ASSUME NEW i \in Nat, NEW n \in Nat, i < n * MALLOC_SIZE
  PROVE  i \div MALLOC_SIZE < n
  BY SizeAssumption, DivMod

LEMMA TimesType ==
  ASSUME NEW a \in Nat
  PROVE  /\ a * MALLOC_SIZE \in Nat
         /\ (a + 1) * MALLOC_SIZE = a * MALLOC_SIZE + MALLOC_SIZE
  BY SizeAssumption

\* What a reader sees at an index is the word with that number.
LEMMA ContentsAreWords ==
  ASSUME size \in Nat
  PROVE  Contents = [i \in 1 .. size |-> pIndexData[i - 1]]
  <1>1. ASSUME NEW i \in 1 .. size
        PROVE  ArrayGetValue(i - 1) = pIndexData[i - 1]
    <2>1. i - 1 \in Nat
      OBVIOUS
    <2> QED
      BY <2>1, DivMod DEF ArrayGetValue
  <1> QED
    BY <1>1 DEF Contents

-----------------------------------------------------------------------------
(* Type correctness and the end *)

\* Where an Append or an Insert starts: a word of a block, or the end.
LEMMA EndType ==
  ASSUME TypeOK, EndInv, HasRoom \/ CanGrow
  PROVE  /\ Blocks \in 1 .. INDEX_NUM_MAX - 1
         /\ size < Blocks * MALLOC_SIZE
         /\ mallocsize \in Nat /\ mallocsize <= Blocks * MALLOC_SIZE
         /\ Blocks * MALLOC_SIZE \in Nat
         /\ End \in Pointer
         /\ End.block * MALLOC_SIZE + End.offset = size
         /\ End.block < Blocks
  <1>1. pIndexNum \in Nat /\ size \in Nat /\ mallocsize \in Nat
    BY SizeAssumption, TimesType DEF TypeOK, mallocsize
  <1>2. CASE HasRoom
    <2>1. pIndexNum # 0
      BY <1>1, <1>2, SizeAssumption DEF HasRoom, mallocsize
    <2> QED
      BY <1>1, <1>2, <2>1, SizeAssumption
      DEF TypeOK, EndInv, Blocks, End, HasRoom, mallocsize
  <1>3. CASE ~HasRoom
    <2>1. size = mallocsize
      BY <1>1, <1>3 DEF TypeOK, HasRoom
    <2>2. /\ Blocks = pIndexNum + 1
          /\ End = [block |-> pIndexNum, offset |-> 0]
      BY <1>3 DEF Blocks, End
    <2>3. Blocks * MALLOC_SIZE = mallocsize + MALLOC_SIZE
      BY <1>1, <2>2, TimesType DEF mallocsize
    <2>4. pIndexNum + 1 < INDEX_NUM_MAX
      BY <1>3 DEF CanGrow
    <2> QED
      BY <1>1, <2>1, <2>2, <2>3, <2>4, SizeAssumption DEF Pointer, mallocsize
  <1> QED
    BY <1>2, <1>3

LEMMA WordsType ==
  ASSUME TypeOK, EndInv, HasRoom \/ CanGrow
  PROVE  Words \in [0 .. Blocks * MALLOC_SIZE - 1 -> Value \union {Garbage}]
  BY EndType DEF Words, TypeOK

LEMMA GrownInv ==
  ASSUME ArrayInv, Grown,
         pIndexData' \in [0 .. Blocks * MALLOC_SIZE - 1 -> Value \union {Garbage}]
  PROVE  ArrayInv'
  <1> USE DEF ArrayInv
  <1>1. HasRoom \/ CanGrow
    BY DEF Grown
  <1>2. mallocsize' = Blocks * MALLOC_SIZE
    BY DEF Grown, mallocsize
  <1>3. size' = size + 1 /\ size \in Nat
    BY SizeAssumption, EndType, <1>1 DEF Grown, TypeOK
  <1>4. TypeOK'
    <2>1. pDataEnd' \in Pointer
      BY EndType, <1>1 DEF Grown, NextEnd, Pointer
    <2>2. size' \in 0 .. mallocsize'
      BY EndType, <1>1, <1>2, <1>3
    <2>3. stray' \in BOOLEAN
      BY DEF Grown, TypeOK
    <2>4. pIndexNum' \in 0 .. INDEX_NUM_MAX - 1
      BY EndType, <1>1 DEF Grown
    <2> QED
      BY <1>2, <2>1, <2>2, <2>3, <2>4 DEF TypeOK
  <1>5. EndInv'
    <2>1. SUFFICES ASSUME HasRoom'
                   PROVE  /\ pDataEnd'.block * MALLOC_SIZE + pDataEnd'.offset = size'
                          /\ pDataEnd'.block < pIndexNum'
      BY DEF EndInv
    <2>2. pDataEnd' = [End EXCEPT !.offset = @ + 1]
      BY <1>2, <1>3, <2>1 DEF Grown, NextEnd, HasRoom
    <2>3. pDataEnd'.block = End.block /\ pDataEnd'.offset = End.offset + 1
      BY <2>2, EndType, <1>1 DEF Pointer
    <2>4. End.block * MALLOC_SIZE \in Nat /\ End.offset \in Nat
      BY TimesType, EndType, <1>1 DEF Pointer
    <2> QED
      BY <2>3, <2>4, EndType, <1>1, <1>3 DEF Grown
  <1>6. OneBlockNeverStrays'
    <2>1. SUFFICES ASSUME pIndexNum' <= 1, Blocks <= 1 PROVE ~stray'
      BY DEF OneBlockNeverStrays, Grown
    <2>2. End.block = 0 /\ End.offset = size /\ Blocks = 1
      BY <2>1, EndType, <1>1, SizeAssumption DEF Pointer
    <2>3. pIndexNum <= 1
      BY <2>1, <1>1 DEF Blocks, TypeOK
    <2>4. ~stray
      BY <2>3 DEF OneBlockNeverStrays
    <2>5. ~(End.offset >= MALLOC_SIZE)
      <3>1. Blocks * MALLOC_SIZE = MALLOC_SIZE
        BY <2>2, SizeAssumption
      <3> QED
        BY <2>2, <3>1, EndType, <1>1, <1>3, SizeAssumption
    <2> QED
      BY <2>4, <2>5, Zenon DEF Grown
  <1> QED
    BY <1>4, <1>5, <1>6

LEMMA RemoveInv ==
  ASSUME ArrayInv, NEW index \in 0 .. size - 1, ArrayRemove(index)
  PROVE  ArrayInv'
  <1> USE DEF ArrayInv
  <1>1. /\ size \in Nat /\ size - 1 \in Nat /\ size' = size - 1
        /\ pIndexNum' = pIndexNum /\ mallocsize' = mallocsize /\ stray' = stray
    BY SizeAssumption, TimesType DEF ArrayRemove, TypeOK, mallocsize
  <1>2. pIndexNum \in Nat /\ mallocsize \in Nat /\ size <= mallocsize
    BY TimesType, SizeAssumption DEF TypeOK, mallocsize
  <1>3. /\ pDataEnd' \in Pointer
        /\ pDataEnd'.block * MALLOC_SIZE + pDataEnd'.offset = size'
    BY <1>1, DivMod DEF ArrayRemove, RemovedEnd, Pointer
  <1>4. pDataEnd'.block < pIndexNum'
    <2>1. size - 1 < pIndexNum * MALLOC_SIZE
      BY <1>1, <1>2 DEF mallocsize
    <2>2. (size - 1) \div MALLOC_SIZE < pIndexNum
      BY <1>1, <1>2, <2>1, DivBelow
    <2> QED
      BY <1>1, <2>2 DEF ArrayRemove, RemovedEnd
  <1>5. pIndexData' \in [0 .. mallocsize - 1 -> Value \union {Garbage}]
    <2>1. \A c \in index .. size - 2 : c + 1 \in 0 .. mallocsize - 1
      BY <1>1, <1>2
    <2> QED
      BY <2>1 DEF ArrayRemove, TypeOK
  <1>6. TypeOK'
    BY <1>1, <1>2, <1>3, <1>5 DEF TypeOK
  <1>7. EndInv' /\ OneBlockNeverStrays'
    BY <1>1, <1>3, <1>4 DEF EndInv, OneBlockNeverStrays
  <1> QED
    BY <1>6, <1>7

LEMMA EmptyInv ==
  ASSUME ArrayInit
  PROVE  ArrayInv
  <1> USE DEF ArrayInit
  <1>1. mallocsize = 0
    BY SizeAssumption DEF mallocsize
  <1>2. pIndexData \in [0 .. mallocsize - 1 -> Value \union {Garbage}]
    <2>1. 0 .. mallocsize - 1 = {}
      BY <1>1
    <2> QED
      BY <2>1
  <1>3. TypeOK
    <2>1. pDataEnd \in Pointer
      BY DEF Pointer
    <2>2. size \in 0 .. mallocsize /\ pIndexNum \in 0 .. INDEX_NUM_MAX - 1
      BY <1>1, SizeAssumption
    <2>3. stray \in BOOLEAN
      OBVIOUS
    <2> QED
      BY <1>2, <2>1, <2>2, <2>3 DEF TypeOK
  <1> QED
    BY <1>1, <1>3 DEF ArrayInv, EndInv, HasRoom, OneBlockNeverStrays

LEMMA AppendWords ==
  ASSUME ArrayInv, NEW value \in Value, ArrayAppend(value)
  PROVE  ArrayInv'
  <1>1. HasRoom \/ CanGrow
    BY DEF ArrayAppend, Grown
  <1>2. pIndexData' \in [0 .. Blocks * MALLOC_SIZE - 1 -> Value \union {Garbage}]
    BY WordsType, <1>1 DEF ArrayAppend, ArrayInv
  <1> QED
    BY <1>2, GrownInv DEF ArrayAppend

LEMMA InsertWords ==
  ASSUME ArrayInv, NEW value \in Value, NEW pos \in 0 .. size,
         ArrayInsert(value, pos)
  PROVE  ArrayInv'
  <1>1. HasRoom \/ CanGrow
    BY DEF ArrayInsert, Grown
  <1>2. size \in Nat /\ size < Blocks * MALLOC_SIZE /\ Blocks * MALLOC_SIZE \in Nat
    BY EndType, <1>1 DEF ArrayInv, TypeOK
  <1>3. ASSUME NEW c \in 0 .. Blocks * MALLOC_SIZE - 1
        PROVE  Shifted(value, pos)[c] \in Value \union {Garbage}
    <2>1. CASE c \in pos .. size /\ c # pos
      <3>1. c - 1 \in 0 .. Blocks * MALLOC_SIZE - 1
        BY <1>2, <2>1
      <3> QED
        BY <2>1, <3>1, WordsType, <1>1 DEF Shifted, WordBelow, ArrayInv
    <2>2. CASE ~(c \in pos .. size /\ c # pos)
      BY <2>2, WordsType, <1>1 DEF Shifted, ArrayInv
    <2> QED
      BY <2>1, <2>2
  <1>4. Shifted(value, pos) \in
          [0 .. Blocks * MALLOC_SIZE - 1 -> Value \union {Garbage}]
    BY <1>1, <1>3, WordsType DEF Shifted, ArrayInv
  <1> QED
    BY <1>4, GrownInv DEF ArrayInsert

LEMMA ArrayInvHolds == ArraySpec => []ArrayInv
  <1>1. ArrayInit => ArrayInv
    BY EmptyInv
  <1>2. ArrayReset => ArrayInit'
    BY DEF ArrayReset, ArrayInit
  <1>3. ArrayReset => ArrayInv'
    BY <1>1, <1>2, PTL
  <1>4. ArrayInv /\ [ArrayNext]_arrayVars => ArrayInv'
    <2>1. SUFFICES ASSUME ArrayInv, [ArrayNext]_arrayVars PROVE ArrayInv'
      OBVIOUS
    <2>2. ASSUME NEW value \in Value, ArrayAppend(value) PROVE ArrayInv'
      BY <2>1, <2>2, AppendWords
    <2>3. ASSUME NEW value \in Value, NEW pos \in 0 .. size, ArrayInsert(value, pos)
          PROVE  ArrayInv'
      BY <2>1, <2>3, InsertWords
    <2>4. ASSUME NEW index \in 0 .. size - 1, ArrayRemove(index) PROVE ArrayInv'
      BY <2>1, <2>4, RemoveInv
    <2>5. CASE ArrayReset
      BY <1>3, <2>5
    <2>6. CASE UNCHANGED arrayVars
      BY <2>1, <2>6 DEF arrayVars, ArrayInv, TypeOK, EndInv, OneBlockNeverStrays,
                        HasRoom, mallocsize
    <2> QED
      BY <2>1, <2>2, <2>3, <2>4, <2>5, <2>6 DEF ArrayNext
  <1> QED
    BY <1>1, <1>4, PTL DEF ArraySpec

(* The array keeps its type: the size never exceeds the memory, and the    *)
(* table of blocks never overflows (ArrayReSize).                          *)
THEOREM ArrayTypeOK == ArraySpec => []TypeOK
  BY ArrayInvHolds, PTL DEF ArrayInv

(* An array with one block only writes inside it (ArrayAppend, Insert).    *)
THEOREM OneBlockSafe == ArraySpec => []OneBlockNeverStrays
  BY ArrayInvHolds, PTL DEF ArrayInv

-----------------------------------------------------------------------------
(* Lists *)

LEMMA InsertAtWords ==
  ASSUME NEW S, NEW s \in Seq(S), NEW v \in S, NEW p \in 1 .. Len(s) + 1,
         NEW t \in [1 .. Len(s) + 1 -> S],
         \A i \in 1 .. p - 1 : t[i] = s[i],
         t[p] = v,
         \A i \in p + 1 .. Len(s) + 1 : t[i] = s[i - 1]
  PROVE  t = InsertAt(s, p, v)
  <1> DEFINE front == SubSeq(s, 1, p - 1)
             back == SubSeq(s, p, Len(s))
             mid == front \o <<v>>
             whole == mid \o back
  <1>1. Len(s) \in Nat /\ p \in Nat /\ p <= Len(s) + 1
    OBVIOUS
  <1>2. /\ front \in Seq(S) /\ Len(front) = p - 1
        /\ \A i \in 1 .. p - 1 : front[i] = s[i]
    <2>1. \A i \in 1 .. p - 1 : s[i] \in S
      BY <1>1
    <2> QED
      BY <1>1, <2>1
  <1>3. /\ back \in Seq(S) /\ Len(back) = Len(s) - p + 1
        /\ \A i \in 1 .. Len(s) - p + 1 : back[i] = s[p + i - 1]
    <2>1. \A i \in p .. Len(s) : s[i] \in S
      BY <1>1
    <2> QED
      BY <1>1, <2>1
  <1>4. <<v>> \in Seq(S) /\ Len(<<v>>) = 1 /\ <<v>>[1] = v
    OBVIOUS
  <1>5. /\ mid \in Seq(S) /\ Len(mid) = p
        /\ \A i \in 1 .. p : mid[i] = IF i <= p - 1 THEN front[i] ELSE <<v>>[i - (p - 1)]
    BY <1>1, <1>2, <1>4, ConcatProperties
  <1>6. /\ whole \in Seq(S) /\ Len(whole) = Len(s) + 1
        /\ \A i \in 1 .. Len(s) + 1 : whole[i] = IF i <= p THEN mid[i] ELSE back[i - p]
    <2>1. whole = mid \o back
      OBVIOUS
    <2> HIDE DEF front, back, mid, whole
    <2>2. Len(mid) + Len(back) = Len(s) + 1
      BY <1>1, <1>3, <1>5
    <2> QED
      BY <1>1, <1>3, <1>5, <2>1, <2>2, ConcatProperties
  <1>7. t \in Seq(S) /\ Len(t) = Len(s) + 1
    BY <1>1
  <1>8. ASSUME NEW i \in 1 .. Len(s) + 1
        PROVE  t[i] = whole[i]
    <2> HIDE DEF front, back, mid, whole
    <2>1. CASE i < p
      BY <1>1, <1>2, <1>5, <1>6, <2>1
    <2>2. CASE i = p
      BY <1>1, <1>4, <1>5, <1>6, <2>2
    <2>3. CASE i > p
      <3>1. i - p \in 1 .. Len(s) - p + 1 /\ i \in p + 1 .. Len(s) + 1
        BY <1>1, <2>3
      <3>2. back[i - p] = s[p + (i - p) - 1]
        BY <1>3, <3>1
      <3> QED
        BY <1>1, <1>6, <2>3, <3>1, <3>2
    <2> QED
      BY <1>1, <2>1, <2>2, <2>3
  <1>9. t = whole
    BY <1>6, <1>7, <1>8, SeqEqual
  <1> QED
    BY <1>9 DEF InsertAt

LEMMA RemoveAtWords ==
  ASSUME NEW S, NEW s \in Seq(S), NEW p \in 1 .. Len(s),
         NEW t \in [1 .. Len(s) - 1 -> S],
         \A i \in 1 .. p - 1 : t[i] = s[i],
         \A i \in p .. Len(s) - 1 : t[i] = s[i + 1]
  PROVE  t = RemoveAt(s, p)
  <1> DEFINE front == SubSeq(s, 1, p - 1)
             back == SubSeq(s, p + 1, Len(s))
             whole == front \o back
  <1>1. Len(s) \in Nat /\ p \in Nat /\ p <= Len(s) /\ Len(s) - 1 \in Nat
    OBVIOUS
  <1>2. /\ front \in Seq(S) /\ Len(front) = p - 1
        /\ \A i \in 1 .. p - 1 : front[i] = s[i]
    <2>1. \A i \in 1 .. p - 1 : s[i] \in S
      BY <1>1
    <2> QED
      BY <1>1, <2>1
  <1>3. /\ back \in Seq(S) /\ Len(back) = Len(s) - p
        /\ \A i \in 1 .. Len(s) - p : back[i] = s[p + i]
    <2>1. \A i \in p + 1 .. Len(s) : s[i] \in S
      BY <1>1
    <2> QED
      BY <1>1, <2>1
  <1>4. /\ whole \in Seq(S) /\ Len(whole) = Len(s) - 1
        /\ \A i \in 1 .. Len(s) - 1 :
             whole[i] = IF i <= p - 1 THEN front[i] ELSE back[i - (p - 1)]
    <2>1. whole = front \o back
      OBVIOUS
    <2> HIDE DEF front, back, whole
    <2>2. Len(front) + Len(back) = Len(s) - 1
      BY <1>1, <1>2, <1>3
    <2> QED
      BY <1>1, <1>2, <1>3, <2>1, <2>2, ConcatProperties
  <1>5. t \in Seq(S) /\ Len(t) = Len(s) - 1
    BY <1>1
  <1>6. ASSUME NEW i \in 1 .. Len(s) - 1
        PROVE  t[i] = whole[i]
    <2> HIDE DEF front, back, whole
    <2>1. CASE i < p
      BY <1>1, <1>2, <1>4, <2>1
    <2>2. CASE i >= p
      <3>1. i - (p - 1) \in 1 .. Len(s) - p /\ i \in p .. Len(s) - 1
        BY <1>1, <2>2
      <3>2. back[i - (p - 1)] = s[p + (i - (p - 1))]
        BY <1>3, <3>1
      <3> QED
        BY <1>1, <1>4, <2>2, <3>1, <3>2
    <2> QED
      BY <1>1, <2>1, <2>2
  <1>7. t = whole
    BY <1>4, <1>5, <1>6, SeqEqual
  <1> QED
    BY <1>7 DEF RemoveAt

-----------------------------------------------------------------------------
(* The array implements the list *)

Item == Value \union {Garbage}

LEMMA ContentsType ==
  ASSUME TypeOK
  PROVE  /\ size \in Nat
         /\ Contents \in Seq(Item) /\ Len(Contents) = size
         /\ \A i \in 1 .. size : Contents[i] = pIndexData[i - 1]
  <1>1. size \in Nat /\ mallocsize \in Nat /\ size <= mallocsize
    BY SizeAssumption, TimesType DEF TypeOK, mallocsize
  <1>2. \A i \in 1 .. size : pIndexData[i - 1] \in Item
    <2>1. \A i \in 1 .. size : i - 1 \in 0 .. mallocsize - 1
      BY <1>1
    <2> QED
      BY <2>1 DEF TypeOK, Item
  <1> QED
    BY <1>1, <1>2, ContentsAreWords

\* ContentsAreWords for the next state.
LEMMA NextContents ==
  ASSUME size' \in Nat
  PROVE  Contents' = [i \in 1 .. size' |-> pIndexData'[i - 1]]
  <1>1. ASSUME NEW i \in 1 .. size'
        PROVE  ArrayGetValue(i - 1)' = pIndexData'[i - 1]
    <2>1. i - 1 \in Nat
      OBVIOUS
    <2> QED
      BY <2>1, DivMod DEF ArrayGetValue
  <1> QED
    BY <1>1 DEF Contents

\* Below its capacity the array takes one more value at any position: no
\* write goes astray, and the words move as the values of a list do.
LEMMA InsertedContents ==
  ASSUME ArrayInv, Grown, ~stray', NEW value \in Value, NEW pos \in 0 .. size,
         \A c \in 0 .. pos - 1 : pIndexData'[c] = Words[c],
         pIndexData'[pos] = value,
         \A c \in pos + 1 .. size : pIndexData'[c] = Words[c - 1]
  PROVE  List!InsertItem
  <1>1. TypeOK /\ (HasRoom \/ CanGrow)
    BY DEF ArrayInv, Grown
  <1>2. /\ size \in Nat /\ pos \in Nat /\ pos <= size /\ size' = size + 1
        /\ mallocsize \in Nat /\ size <= mallocsize
    BY SizeAssumption, TimesType DEF Grown, TypeOK, ArrayInv, mallocsize
  <1>3. stray = FALSE
    BY <1>1 DEF Grown, TypeOK
  <1>4. /\ Contents \in Seq(Item) /\ Len(Contents) = size
        /\ \A i \in 1 .. size : Contents[i] = pIndexData[i - 1]
    BY <1>1, ContentsType
  <1>5. \A c \in 0 .. size - 1 : Words[c] = pIndexData[c]
    <2>1. \A c \in 0 .. size - 1 : c \in DOMAIN pIndexData
      BY <1>1, <1>2 DEF TypeOK
    <2>2. \A c \in 0 .. size - 1 : c \in 0 .. Blocks * MALLOC_SIZE - 1
      BY <1>1, <1>2, EndType DEF ArrayInv
    <2> QED
      BY <2>1, <2>2 DEF Words
  <1>6. Contents' = [i \in 1 .. size + 1 |-> pIndexData'[i - 1]]
    BY <1>2, NextContents
  <1>7. Contents' = InsertAt(Contents, pos + 1, value)
    <2>1. \A i \in 1 .. pos : Contents'[i] = Contents[i]
      <3>1. SUFFICES ASSUME NEW i \in 1 .. pos PROVE Contents'[i] = Contents[i]
        OBVIOUS
      <3>2. /\ i - 1 \in 0 .. pos - 1 /\ i - 1 \in 0 .. size - 1
            /\ i \in 1 .. size + 1 /\ i \in 1 .. size
        BY <1>2
      <3>3. Contents'[i] = Words[i - 1]
        BY <1>6, <3>2
      <3> HIDE DEF Contents
      <3> QED
        BY <1>4, <1>5, <3>2, <3>3
    <2>2. Contents'[pos + 1] = value
      BY <1>2, <1>6
    <2>3. \A i \in pos + 2 .. size + 1 : Contents'[i] = Contents[i - 1]
      <3>1. SUFFICES ASSUME NEW i \in pos + 2 .. size + 1
                     PROVE  Contents'[i] = Contents[i - 1]
        OBVIOUS
      <3>2. i - 1 \in pos + 1 .. size /\ i - 2 \in 0 .. size - 1 /\ i \in 1 .. size + 1
        BY <1>2
      <3>3. Contents'[i] = Words[(i - 1) - 1]
        BY <1>6, <3>2
      <3>4. (i - 1) - 1 = i - 2 /\ i - 1 \in 1 .. size
        BY <1>2, <3>2
      <3>5. Contents[i - 1] = pIndexData[(i - 1) - 1]
        BY <1>4, <3>4
      <3> QED
        BY <1>5, <3>2, <3>3, <3>4, <3>5
    <2>4. Contents' \in [1 .. Len(Contents) + 1 -> Item]
      <3>1. ASSUME NEW i \in 1 .. size + 1 PROVE Contents'[i] \in Item
        <4>1. CASE i <= pos
          BY <1>2, <1>4, <2>1, <4>1
        <4>2. CASE i = pos + 1
          BY <2>2, <4>2 DEF Item
        <4>3. CASE i > pos + 1
          <5>1. i \in pos + 2 .. size + 1 /\ i - 1 \in 1 .. size
            BY <1>2, <4>3
          <5> QED
            BY <1>4, <2>3, <5>1
        <4> QED
          BY <1>2, <4>1, <4>2, <4>3
      <3> QED
        BY <1>4, <1>6, <3>1
    <2>5. value \in Item
      BY DEF Item
    <2>6. pos + 1 \in 1 .. Len(Contents) + 1
      BY <1>2, <1>4
    <2>7. \A i \in 1 .. (pos + 1) - 1 : Contents'[i] = Contents[i]
      BY <1>2, <2>1
    <2>8. \A i \in (pos + 1) + 1 .. Len(Contents) + 1 : Contents'[i] = Contents[i - 1]
      BY <1>2, <1>4, <2>3
    <2> HIDE DEF Contents
    <2> QED
      BY <1>4, <2>2, <2>4, <2>5, <2>6, <2>7, <2>8, InsertAtWords
  <1>8. size < Capacity
    <2>1. Blocks \in Nat /\ Blocks < INDEX_NUM_MAX /\ size < Blocks * MALLOC_SIZE
      BY <1>1, EndType, SizeAssumption DEF ArrayInv
    <2>2. Blocks * MALLOC_SIZE <= Capacity
      BY <2>1, SizeAssumption, TimesMono DEF Capacity
    <2> QED
      BY <1>2, <2>1, <2>2, SizeAssumption DEF Capacity
  <1>9. pos + 1 \in 1 .. Len(Contents) + 1
    BY <1>2, <1>4
  <1> QED
    BY <1>3, <1>4, <1>7, <1>8, <1>9 DEF List!InsertItem, List!InsertAt, InsertAt

LEMMA AppendIsInsert ==
  ASSUME ArrayInv, NEW value \in Value, ArrayAppend(value), ~stray'
  PROVE  List!InsertItem
  <1>1. TypeOK /\ EndInv /\ (HasRoom \/ CanGrow)
    BY DEF ArrayInv, ArrayAppend, Grown
  <1>2. size \in Nat /\ size < Blocks * MALLOC_SIZE /\ Blocks * MALLOC_SIZE \in Nat
    BY <1>1, EndType DEF TypeOK
  <1>3. End.block * MALLOC_SIZE + End.offset = size
    BY <1>1, EndType
  <1>4. End.offset < MALLOC_SIZE
    <2>1. ~(End.offset >= MALLOC_SIZE)
      BY Zenon DEF ArrayAppend, Grown
    <2>2. End.offset \in Nat
      BY <1>1, EndType DEF Pointer
    <2> QED
      BY <2>1, <2>2, SizeAssumption
  <1>5. \A c \in 0 .. size : c \in DOMAIN Words
    BY <1>1, <1>2, WordsType
  <1>6. /\ \A c \in 0 .. size - 1 : pIndexData'[c] = Words[c]
        /\ pIndexData'[size] = value
    BY <1>2, <1>3, <1>4, <1>5 DEF ArrayAppend
  <1>7. /\ size \in 0 .. size
        /\ \A c \in size + 1 .. size : pIndexData'[c] = Words[c - 1]
    BY <1>2
  <1> QED
    BY <1>6, <1>7, InsertedContents DEF ArrayAppend

LEMMA InsertIsInsert ==
  ASSUME ArrayInv, NEW value \in Value, NEW pos \in 0 .. size,
         ArrayInsert(value, pos), ~stray'
  PROVE  List!InsertItem
  <1>1. TypeOK /\ EndInv /\ (HasRoom \/ CanGrow)
    BY DEF ArrayInv, ArrayInsert, Grown
  <1>2. /\ size \in Nat /\ pos \in Nat /\ pos <= size
        /\ size < Blocks * MALLOC_SIZE /\ Blocks * MALLOC_SIZE \in Nat
    BY <1>1, EndType DEF TypeOK
  <1>3. End.offset < MALLOC_SIZE
    <2>1. ~(End.offset >= MALLOC_SIZE)
      BY Zenon DEF ArrayInsert, Grown
    <2>2. End.offset \in Nat
      BY <1>1, EndType DEF Pointer
    <2> QED
      BY <2>1, <2>2, SizeAssumption
  <1>4. \A c \in 0 .. size : c \in DOMAIN Words
    BY <1>1, <1>2, WordsType
  <1>5. \A c \in 0 .. size :
          pIndexData'[c] = IF c \notin pos .. size THEN Words[c]
                           ELSE IF c = pos THEN value ELSE Words[c - 1]
    BY <1>3, <1>4 DEF ArrayInsert, Shifted, WalksBlock, WordBelow
  <1>6. /\ \A c \in 0 .. pos - 1 : pIndexData'[c] = Words[c]
        /\ pIndexData'[pos] = value
        /\ \A c \in pos + 1 .. size : pIndexData'[c] = Words[c - 1]
    BY <1>2, <1>5
  <1> QED
    BY <1>6, InsertedContents DEF ArrayInsert

LEMMA RemoveIsRemove ==
  ASSUME ArrayInv, NEW index \in 0 .. size - 1, ArrayRemove(index), ~stray'
  PROVE  List!RemoveItem
  <1>1. TypeOK /\ ~stray
    BY DEF ArrayInv, ArrayRemove
  <1>2. /\ size \in Nat /\ size - 1 \in Nat /\ index \in Nat /\ index <= size - 1
        /\ size' = size - 1 /\ mallocsize \in Nat /\ size <= mallocsize
    BY <1>1, SizeAssumption, TimesType DEF ArrayRemove, TypeOK, mallocsize
  <1>3. /\ Contents \in Seq(Item) /\ Len(Contents) = size
        /\ \A i \in 1 .. size : Contents[i] = pIndexData[i - 1]
    BY <1>1, ContentsType
  <1>4. Contents' = [i \in 1 .. size - 1 |-> pIndexData'[i - 1]]
    BY <1>2, NextContents
  <1>5. \A c \in 0 .. size - 2 :
          pIndexData'[c] = IF c \in index .. size - 2 THEN pIndexData[c + 1]
                           ELSE pIndexData[c]
    <2>1. \A c \in 0 .. size - 2 : c \in DOMAIN pIndexData
      BY <1>1, <1>2 DEF TypeOK
    <2> QED
      BY <2>1 DEF ArrayRemove
  <1>6. \A i \in 1 .. index : Contents'[i] = Contents[i]
    <2>1. SUFFICES ASSUME NEW i \in 1 .. index PROVE Contents'[i] = Contents[i]
      OBVIOUS
    <2>2. i - 1 \in 0 .. size - 2 /\ i - 1 \notin index .. size - 2 /\ i \in 1 .. size - 1
      BY <1>2
    <2> QED
      BY <1>2, <1>3, <1>4, <1>5, <2>2
  <1>7. \A i \in index + 1 .. size - 1 : Contents'[i] = Contents[i + 1]
    <2>1. SUFFICES ASSUME NEW i \in index + 1 .. size - 1
                   PROVE  Contents'[i] = Contents[i + 1]
      OBVIOUS
    <2>2. /\ i - 1 \in 0 .. size - 2 /\ i - 1 \in index .. size - 2
          /\ i \in 1 .. size - 1 /\ i + 1 \in 1 .. size /\ (i - 1) + 1 = (i + 1) - 1
      BY <1>2
    <2>3. Contents'[i] = pIndexData[(i - 1) + 1]
      BY <1>4, <1>5, <2>2
    <2> QED
      BY <1>3, <2>2, <2>3
  <1>8. Contents' \in [1 .. Len(Contents) - 1 -> Item]
    <2>1. ASSUME NEW i \in 1 .. size - 1 PROVE Contents'[i] \in Item
      <3>1. CASE i <= index
        BY <1>2, <1>3, <1>6, <3>1
      <3>2. CASE i > index
        <4>1. i \in index + 1 .. size - 1 /\ i + 1 \in 1 .. size
          BY <1>2, <3>2
        <4> QED
          BY <1>3, <1>7, <4>1
      <3> QED
        BY <1>2, <3>1, <3>2
    <2> QED
      BY <1>3, <1>4, <2>1
  <1>9. Contents' = RemoveAt(Contents, index + 1)
    <2>1. index + 1 \in 1 .. Len(Contents)
      BY <1>2, <1>3
    <2>2. \A i \in 1 .. (index + 1) - 1 : Contents'[i] = Contents[i]
      BY <1>2, <1>6
    <2>3. \A i \in index + 1 .. Len(Contents) - 1 : Contents'[i] = Contents[i + 1]
      BY <1>3, <1>7
    <2> HIDE DEF Contents
    <2> QED
      BY <1>3, <1>8, <2>1, <2>2, <2>3, RemoveAtWords
  <1>10. index + 1 \in 1 .. Len(Contents)
    BY <1>2, <1>3
  <1> QED
    BY <1>1, <1>9, <1>10 DEF List!RemoveItem, List!RemoveAt, RemoveAt

(* Until a write leaves its block, Append, Insert, Remove and Reset        *)
(* (Array.mm) act as the operations of a list, and no value that was put   *)
(* in is ever lost or replaced: for every number and size of the blocks.   *)
THEOREM ArrayIsList == ArraySpec => ImplementsValueList
  <1>1. ArrayInit => List!ListInit
    <2>1. SUFFICES ASSUME ArrayInit PROVE Contents = <<>> /\ stray = FALSE
      BY DEF List!ListInit, ArrayInit
    <2>2. 1 .. size = {}
      BY <2>1 DEF ArrayInit
    <2> QED
      BY <2>1, <2>2 DEF Contents, ArrayInit
  <1>2. ArrayInv /\ [ArrayNext]_arrayVars => [List!ListNext]_List!listVars
    <2>1. SUFFICES ASSUME ArrayInv, [ArrayNext]_arrayVars
                   PROVE  [List!ListNext]_List!listVars
      OBVIOUS
    <2>2. CASE stray'
      BY <2>2 DEF List!ListNext, List!Broken
    <2>3. CASE ~stray'
      <3>1. ASSUME NEW value \in Value, ArrayAppend(value) PROVE List!ListNext
        BY <2>1, <2>3, <3>1, AppendIsInsert DEF List!ListNext
      <3>2. ASSUME NEW value \in Value, NEW pos \in 0 .. size, ArrayInsert(value, pos)
            PROVE  List!ListNext
        BY <2>1, <2>3, <3>2, InsertIsInsert DEF List!ListNext
      <3>3. ASSUME NEW index \in 0 .. size - 1, ArrayRemove(index)
            PROVE  List!ListNext
        BY <2>1, <2>3, <3>3, RemoveIsRemove DEF List!ListNext
      <3>4. CASE ArrayReset
        <4>1. size' = 0 /\ stray' = FALSE
          BY <3>4 DEF ArrayReset
        <4>2. Contents' = <<>>
          BY <4>1, NextContents
        <4> QED
          BY <4>1, <4>2 DEF List!ListNext, List!ResetItems
      <3>5. CASE UNCHANGED arrayVars
        BY <3>5 DEF arrayVars, List!listVars, Contents, ArrayGetValue
      <3> QED
        BY <2>1, <3>1, <3>2, <3>3, <3>4, <3>5 DEF ArrayNext
    <2> QED
      BY <2>2, <2>3
  <1> QED
    BY <1>1, <1>2, ArrayInvHolds, PTL DEF ArraySpec, ImplementsValueList, List!ListSpec
=============================================================================
