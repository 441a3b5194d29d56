------------------------------- MODULE Array -------------------------------
(***************************************************************************)
(* The growing array of the search core (Array.h, Array.mm).  Its memory   *)
(* is a table of at most INDEX_NUM_MAX block addresses, each block holding *)
(* MALLOC_SIZE words.  Every array keeps a pointer to its end, pDataEnd,   *)
(* which Append and Insert step word by word and which only ArrayReSize    *)
(* moves to a later block.                                                 *)
(*                                                                         *)
(* A pointer into the data is a block and an offset; an offset that is not *)
(* below MALLOC_SIZE points outside the block.  pIndexData holds the words *)
(* of all blocks, word o of block b under b * MALLOC_SIZE + o.  What a     *)
(* write outside a block destroys is not modelled; that it took place is   *)
(* kept in stray, until the array is reset.                                *)
(***************************************************************************)
EXTENDS SequencesExt

CONSTANTS Value,          \* what the array holds: ids and addresses
          Garbage,        \* the contents of memory nobody has written
          MALLOC_SIZE,
          INDEX_NUM_MAX

ASSUME SizeAssumption == MALLOC_SIZE \in Nat \ {0} /\ INDEX_NUM_MAX \in Nat \ {0}
ASSUME GarbageAssumption == Garbage \notin Value

VARIABLES size, pIndexNum, pIndexData, pDataEnd,
          stray           \* history: a write went outside the blocks

arrayVars == <<size, pIndexNum, pIndexData, pDataEnd, stray>>

Pointer == [block : Nat, offset : Nat]

mallocsize == pIndexNum * MALLOC_SIZE

(* The last entry of the table is never used: one block less than the      *)
(* MALLOC_SIZE*INDEX_NUM_MAX of Array.h.                                   *)
Capacity == (INDEX_NUM_MAX - 1) * MALLOC_SIZE

TypeOK ==
  /\ size \in 0 .. mallocsize
  /\ pIndexNum \in 0 .. INDEX_NUM_MAX - 1
  /\ pIndexData \in [0 .. mallocsize - 1 -> Value \union {Garbage}]
  /\ pDataEnd \in Pointer
  /\ stray \in BOOLEAN

ArrayInit ==
  /\ size = 0
  /\ pIndexNum = 0
  /\ pIndexData = [c \in {} |-> Garbage]
  /\ pDataEnd = [block |-> 0, offset |-> 0]
  /\ stray = FALSE

ArrayGetValue(index) ==
  pIndexData[(index \div MALLOC_SIZE) * MALLOC_SIZE + (index % MALLOC_SIZE)]

(***************************************************************************)
(* ArrayReSize adds a block when the array is full and the table is not.   *)
(***************************************************************************)
HasRoom == size < mallocsize

(* Mutant: a table entry too many.                                         *)
CanGrowOneMore == pIndexNum < INDEX_NUM_MAX

CanGrow == pIndexNum + 1 < INDEX_NUM_MAX

Blocks == IF HasRoom THEN pIndexNum ELSE pIndexNum + 1

Words == [c \in 0 .. Blocks * MALLOC_SIZE - 1 |->
            IF c \in DOMAIN pIndexData THEN pIndexData[c] ELSE Garbage]

End == IF HasRoom THEN pDataEnd ELSE [block |-> pIndexNum, offset |-> 0]

(* The end moves on within its block, unless the memory is used up.        *)
NextEnd == IF size + 1 < Blocks * MALLOC_SIZE
           THEN [End EXCEPT !.offset = @ + 1] ELSE End

(***************************************************************************)
(* ArrayInsert walks down from the end, moving each value up by one word.  *)
(* It goes to the previous block only at the first word of the block that  *)
(* size belongs to: an end that is still in an earlier block is walked     *)
(* down word by word through that block and below it.                      *)
(***************************************************************************)
WalksBlock(c) ==
  LET first == End.block * MALLOC_SIZE
  IN End.offset < MALLOC_SIZE \/ c \in first .. first + MALLOC_SIZE - 1

WordBelow(c) ==
  IF End.offset < MALLOC_SIZE \/ c # End.block * MALLOC_SIZE
  THEN Words[c - 1] ELSE Garbage

(* Mutant: the first word of a block is not fetched from the block below.  *)
ShiftedWithinBlocks(value, pos) == [c \in DOMAIN Words |->
  IF c \notin pos .. size THEN Words[c]
  ELSE IF c = pos THEN value
  ELSE IF c % MALLOC_SIZE = 0 THEN Words[c] ELSE Words[c - 1]]

Shifted(value, pos) == [c \in DOMAIN Words |->
  IF ~WalksBlock(c) \/ c \notin pos .. size THEN Words[c]
  ELSE IF c = pos THEN value ELSE WordBelow(c)]

Grown ==
  /\ HasRoom \/ CanGrow
  /\ size' = size + 1
  /\ pIndexNum' = Blocks
  /\ pDataEnd' = NextEnd
  /\ stray' = (stray \/ End.offset >= MALLOC_SIZE)

ArrayInsert(value, pos) ==
  /\ pos \in 0 .. size
  /\ Grown
  /\ pIndexData' = Shifted(value, pos)

ArrayAppend(value) ==
  /\ Grown
  /\ pIndexData' = [c \in DOMAIN Words |->
       IF c = End.block * MALLOC_SIZE + End.offset /\ End.offset < MALLOC_SIZE
       THEN value ELSE Words[c]]

(* Mutant: the end stays where it was.                                     *)
EndKept == pDataEnd

(* Where the walk up to the last value stopped: the first unused word.     *)
RemovedEnd == [block |-> (size - 1) \div MALLOC_SIZE,
               offset |-> (size - 1) % MALLOC_SIZE]

ArrayRemove(index) ==
  /\ index \in 0 .. size - 1
  /\ size' = size - 1
  /\ pIndexData' = [c \in DOMAIN pIndexData |->
       IF c \in index .. size - 2 THEN pIndexData[c + 1] ELSE pIndexData[c]]
  /\ pDataEnd' = RemovedEnd
  /\ UNCHANGED <<pIndexNum, stray>>

ArrayReset ==
  /\ size' = 0
  /\ pIndexNum' = 0
  /\ pIndexData' = [c \in {} |-> Garbage]
  /\ pDataEnd' = [block |-> 0, offset |-> 0]
  /\ stray' = FALSE

ArrayNext ==
  \/ \E value \in Value : ArrayAppend(value)
  \/ \E value \in Value, pos \in 0 .. size : ArrayInsert(value, pos)
  \/ \E index \in 0 .. size - 1 : ArrayRemove(index)
  \/ ArrayReset

ArraySpec == ArrayInit /\ [][ArrayNext]_arrayVars

-----------------------------------------------------------------------------
(* What ArrayGetValue returns for the indices 0 .. size - 1.               *)
Contents == [i \in 1 .. size |-> ArrayGetValue(i - 1)]

List == INSTANCE ValueList WITH items <- IF stray THEN <<>> ELSE Contents,
                                broken <- stray

(* Until a write goes outside its blocks, the array is the list its users  *)
(* take it for: every Append, Insert and Remove (Array.mm) has the effect  *)
(* of the same operation on a sequence.                                    *)
ImplementsValueList == List!ListSpec

(* An array that never needed a second block writes to its block only,     *)
(* whatever is inserted and removed: trees of up to MALLOC_SIZE contacts.  *)
OneBlockNeverStrays == pIndexNum <= 1 => ~stray
=============================================================================
