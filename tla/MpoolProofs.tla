----------------------------- MODULE MpoolProofs -----------------------------
(***************************************************************************)
(* Proofs about Mpool, for every block size and every sizes that are asked *)
(* for: pieces are aligned, lie in their block and do not overlap, and     *)
(* every block is given back once.                                         *)
(***************************************************************************)
EXTENDS Mpool, TLAPS

(* The chain goes from the newest block to the first one. *)
ChainOK ==
  /\ block = Len(blocks)
  /\ \A i \in 1..Len(blocks) : blocks[i].next = i - 1

FreeIsAligned == \A i \in 1..Len(blocks) : blocks[i].free % 16 = 0

(* What was carved lies before the free area. *)
PiecesAreCarved ==
  \A x \in pieces :
    /\ x.block \in 1..Len(blocks)
    /\ x.from % 16 = 0
    /\ x.from + x.bytes <= blocks[x.block].free

(* Which blocks are not given back yet: those still to come in the chain *)
LiveOK ==
  /\ pool = "made" => live = 1..Len(blocks) /\ Len(blocks) > 0
  /\ pool = "freeing" => live = 1..p
  /\ pool \in {"none", "freed"} => live = {}
  /\ pool # "freeing" => p = Null

MpoolInv ==
  /\ MpoolTypeOK
  /\ ChainOK
  /\ FreeIsAligned
  /\ PiecesAreCarved
  /\ PiecesAreApart
  /\ LiveOK

------------------------------------------------------------------------------
(* RoundUp gives the next multiple of 16.                                  *)
LEMMA RoundUpIsMultiple ==
  ASSUME NEW n \in Nat
  PROVE  RoundUp(n) \in Nat /\ RoundUp(n) >= n /\ RoundUp(n) % 16 = 0
  BY DEF RoundUp

LEMMA MultiplesAdd ==
  ASSUME NEW m \in Nat, NEW n \in Nat, m % 16 = 0, n % 16 = 0
  PROVE  (m + n) % 16 = 0
  OBVIOUS

LEMMA MpoolInit == Init => MpoolInv
<1> SUFFICES ASSUME Init PROVE MpoolInv
  OBVIOUS
<1>1. blocks = << >> /\ Len(blocks) = 0 /\ blocks \in Seq(Block)
  BY DEF Init
<1> QED
  BY <1>1 DEF Init, MpoolInv, MpoolTypeOK, ChainOK, FreeIsAligned,
              PiecesAreCarved, PiecesAreApart, LiveOK, Null

LEMMA CreateKeeps ==
  ASSUME MpoolInv, NEW n \in Size, MpoolCreate(n)
  PROVE  MpoolInv'
<1> DEFINE b == NewBlock(n, 0, Null)
<1>1. b \in Block /\ b.free = 0 /\ b.next = 0
  BY MpoolAssumption DEF NewBlock, Block, Null
<1>2. /\ blocks' = <<b>> /\ blocks' \in Seq(Block)
      /\ Len(blocks') = 1 /\ blocks'[1] = b
  BY <1>1 DEF MpoolCreate
<1>3. /\ pool' = "made" /\ block' = 1 /\ live' = {1} /\ pieces' = {} /\ p' = p
      /\ p = 0
  BY DEF MpoolCreate, MpoolInv, LiveOK, Null
<1>4. MpoolTypeOK'
  <2>1. \A i \in 1..Len(blocks') : blocks'[i].free <= blocks'[i].size
    BY <1>1, <1>2 DEF Block
  <2> QED
    BY <1>2, <1>3, <2>1 DEF MpoolTypeOK
<1>5. ChainOK'
  BY <1>1, <1>2, <1>3 DEF ChainOK
<1>6. FreeIsAligned'
  BY <1>1, <1>2 DEF FreeIsAligned
<1>7. PiecesAreCarved' /\ PiecesAreApart'
  BY <1>3 DEF PiecesAreCarved, PiecesAreApart
<1>8. LiveOK'
  BY <1>2, <1>3 DEF LiveOK, Null
<1> QED
  BY <1>4, <1>5, <1>6, <1>7, <1>8 DEF MpoolInv

(* A piece is carved from the free area of the newest block, or is the     *)
(* beginning of a block that is new and big enough.                        *)
LEMMA CarveKeeps ==
  ASSUME MpoolInv, pool = "made", NEW n \in Nat, n > 0, NEW bytes \in Nat,
         bytes <= n, Carve(n, bytes), UNCHANGED <<pool, p>>
  PROVE  MpoolInv'
<1> DEFINE size == RoundUp(n)
           k == Len(blocks)
<1>1. size \in Nat /\ size >= n /\ size % 16 = 0 /\ size > 0
  BY RoundUpIsMultiple
<1>2. /\ blocks \in Seq(Block) /\ k \in Nat /\ k > 0 /\ block = k
      /\ \A i \in 1..k : blocks[i] \in Block
      /\ live = 1..k /\ p = 0 /\ pieces \subseteq Piece
  BY DEF MpoolInv, MpoolTypeOK, ChainOK, LiveOK, Null
<1>3. /\ \A i \in 1..k : blocks[i].free \in Nat /\ blocks[i].size \in Nat
      /\ \A i \in 1..k : blocks[i].free <= blocks[i].size
      /\ \A i \in 1..k : blocks[i].free % 16 = 0
      /\ \A i \in 1..k : blocks[i].next = i - 1
  BY <1>2 DEF MpoolInv, MpoolTypeOK, ChainOK, FreeIsAligned, Block
<1>4. /\ \A x \in pieces : x.from \in Nat /\ x.bytes \in Nat
      /\ \A x \in pieces : x.block \in 1..k /\ x.from % 16 = 0
                            /\ x.from + x.bytes <= blocks[x.block].free
  BY <1>2 DEF MpoolInv, PiecesAreCarved, Piece
<1>5. CASE Remain < size /\ block' = k + 1
  <2> DEFINE b == NewBlock(SizeOfNew(size), size, NextOfNew)
             x == [block |-> k + 1, from |-> 0, bytes |-> bytes]
  <2>1. SizeOfNew(size) \in Nat /\ SizeOfNew(size) >= size
    BY <1>1, <1>2, <1>3 DEF SizeOfNew
  <2>2. /\ b \in Block /\ b.free = size /\ b.size >= size /\ b.next = k
    BY <1>1, <1>2, <2>1 DEF NewBlock, Block, NextOfNew
  <2>3. /\ blocks' = Append(blocks, b) /\ live' = live \cup {k + 1}
        /\ pieces' = pieces \cup {x}
    BY <1>2, <1>5 DEF Carve, Remain
  <2>4. /\ blocks' \in Seq(Block) /\ Len(blocks') = k + 1
        /\ blocks'[k + 1] = b /\ \A i \in 1..k : blocks'[i] = blocks[i]
    BY <1>2, <2>2, <2>3
  <2>5. MpoolTypeOK'
    <3>1. \A i \in 1..(k + 1) : blocks'[i].free <= blocks'[i].size
      BY <1>2, <1>3, <2>2, <2>4
    <3>2. x \in Piece
      BY <1>2 DEF Piece
    <3>3. live' \subseteq 1..(k + 1) /\ block' \in 0..(k + 1)
      BY <1>2, <1>5, <2>3
    <3> QED
      BY <1>2, <2>3, <2>4, <3>1, <3>2, <3>3 DEF MpoolTypeOK, MpoolInv
  <2>6. ChainOK'
    BY <1>2, <1>3, <1>5, <2>2, <2>4 DEF ChainOK
  <2>7. FreeIsAligned'
    BY <1>1, <1>2, <1>3, <2>2, <2>4 DEF FreeIsAligned
  <2>8. PiecesAreCarved'
    <3>1. x.from + x.bytes <= b.free /\ x.block = k + 1 /\ x.from % 16 = 0
      BY <1>1, <2>2
    <3> QED
      BY <1>2, <1>4, <2>3, <2>4, <3>1 DEF PiecesAreCarved
  <2>9. PiecesAreApart'
    <3>1. \A y \in pieces : y.block # x.block
      BY <1>2, <1>4
    <3> QED
      BY <2>3, <3>1 DEF PiecesAreApart, MpoolInv
  <2>10. LiveOK'
    BY <1>2, <2>3, <2>4 DEF LiveOK, Null
  <2> QED
    BY <2>5, <2>6, <2>7, <2>8, <2>9, <2>10 DEF MpoolInv
<1>6. CASE Remain >= size /\ UNCHANGED <<block, live>>
  <2> DEFINE old == blocks[k]
             x == [block |-> k, from |-> old.free, bytes |-> bytes]
  <2>1. /\ blocks' = [blocks EXCEPT ![k].free = @ + size]
        /\ pieces' = pieces \cup {x}
    BY <1>1, <1>2, <1>3, <1>6 DEF Carve, Remain
  <2>2. old.free + size <= old.size /\ old.free + size \in Nat
    BY <1>1, <1>2, <1>3, <1>6 DEF Remain
  <2>3. /\ blocks' \in Seq(Block) /\ Len(blocks') = k
        /\ blocks'[k].free = old.free + size /\ blocks'[k].size = old.size
        /\ blocks'[k].next = old.next
        /\ \A i \in 1..k : i # k => blocks'[i] = blocks[i]
    <3> DEFINE new == [old EXCEPT !.free = @ + size]
    <3>1. /\ new \in Block /\ new.free = old.free + size
          /\ new.size = old.size /\ new.next = old.next
      <4>1. old \in Block
        BY <1>2
      <4> QED
        BY <2>2, <4>1 DEF Block
    <3>2. blocks' = [blocks EXCEPT ![k] = new]
      BY <2>1
    <3> HIDE DEF new, old
    <3> QED
      BY <1>2, <3>1, <3>2
  <2>4. MpoolTypeOK'
    <3>1. \A i \in 1..k : blocks'[i].free <= blocks'[i].size
      BY <1>2, <1>3, <2>2, <2>3
    <3>2. x \in Piece
      BY <1>2, <1>3 DEF Piece
    <3> QED
      BY <1>2, <1>6, <2>1, <2>3, <3>1, <3>2 DEF MpoolTypeOK, MpoolInv
  <2>5. ChainOK'
    BY <1>2, <1>3, <1>6, <2>3 DEF ChainOK
  <2>6. FreeIsAligned'
    <3>1. (old.free + size) % 16 = 0
      BY <1>1, <1>2, <1>3, MultiplesAdd
    <3> QED
      BY <1>2, <1>3, <2>3, <3>1 DEF FreeIsAligned
  <2>7. PiecesAreCarved'
    <3>1. /\ x.block \in 1..k /\ x.from % 16 = 0
          /\ x.from + x.bytes <= blocks'[k].free
      BY <1>1, <1>2, <1>3, <2>3
    <3>2. ASSUME NEW y \in pieces
          PROVE  y.from + y.bytes <= blocks'[y.block].free
      <4>1. blocks[y.block].free <= blocks'[y.block].free
        <5>1. CASE y.block = k
          BY <1>1, <1>2, <1>3, <2>3, <5>1
        <5>2. CASE y.block # k
          BY <1>3, <1>4, <2>3, <5>2
        <5> QED
          BY <5>1, <5>2
      <4>2. blocks[y.block].free \in Nat /\ blocks'[y.block].free \in Nat
        BY <1>2, <1>3, <1>4, <2>2, <2>3
      <4> QED
        BY <1>4, <4>1, <4>2
    <3> QED
      BY <1>4, <2>1, <2>3, <3>1, <3>2 DEF PiecesAreCarved
  <2>8. PiecesAreApart'
    <3>1. \A y \in pieces : y.block = k => y.from + y.bytes <= x.from
      BY <1>2, <1>4
    <3> QED
      BY <2>1, <3>1 DEF PiecesAreApart, MpoolInv
  <2>9. LiveOK'
    BY <1>2, <1>6, <2>3 DEF LiveOK, Null
  <2> QED
    BY <2>4, <2>5, <2>6, <2>7, <2>8, <2>9 DEF MpoolInv
<1> QED
  BY <1>2, <1>5, <1>6 DEF Carve

(* mpool_free goes down the chain. *)
LEMMA FreeKeeps ==
  ASSUME MpoolInv, MpoolFree \/ FreeStep
  PROVE  MpoolInv'
<1> USE DEF Null
<1>1. /\ UNCHANGED <<blocks, block, pieces>>
  BY DEF MpoolFree, FreeStep, FreeBlock, FreeEnd
<1>2. Len(blocks) \in Nat /\ block = Len(blocks) /\ p \in 0..Len(blocks)
  BY DEF MpoolInv, MpoolTypeOK, ChainOK
<1>3. live' \subseteq live
  BY DEF MpoolFree, FreeStep, FreeBlock, FreeEnd
<1>4. CASE MpoolFree
  BY <1>1, <1>2, <1>4 DEF MpoolFree, MpoolInv, MpoolTypeOK, ChainOK,
       FreeIsAligned, PiecesAreCarved, PiecesAreApart, LiveOK
<1>5. CASE FreeBlock
  <2>1. p' = p - 1
    BY <1>2, <1>5 DEF FreeBlock, NextToFree, MpoolInv, ChainOK
  <2>2. live' = 1..p'
    BY <1>2, <1>5, <2>1 DEF FreeBlock, MpoolInv, LiveOK
  <2> QED
    BY <1>1, <1>2, <1>3, <1>5, <2>1, <2>2 DEF FreeBlock, MpoolInv, MpoolTypeOK,
         ChainOK, FreeIsAligned, PiecesAreCarved, PiecesAreApart, LiveOK
<1>6. CASE FreeEnd
  BY <1>1, <1>2, <1>6 DEF FreeEnd, MpoolInv, MpoolTypeOK, ChainOK,
       FreeIsAligned, PiecesAreCarved, PiecesAreApart, LiveOK
<1> QED
  BY <1>4, <1>5, <1>6 DEF FreeStep

LEMMA MpoolStep == MpoolInv /\ [Next]_vars => MpoolInv'
<1> SUFFICES ASSUME MpoolInv, [Next]_vars PROVE MpoolInv'
  OBVIOUS
<1>1. ASSUME NEW n \in Size, MpoolMalloc(n) PROVE MpoolInv'
  <2>1. n \in Nat
    BY MpoolAssumption
  <2> QED
    BY <1>1, <2>1, CarveKeeps DEF MpoolMalloc, CanTake
<1>2. ASSUME NEW n \in Size, MpoolStrndup(n) PROVE MpoolInv'
  <2>1. n + 1 \in Nat /\ n + 1 > 0
    BY MpoolAssumption
  <2> QED
    BY <1>2, <2>1, CarveKeeps DEF MpoolStrndup, CanTake, RoomFor
<1>3. CASE UNCHANGED vars
  BY <1>3 DEF vars, MpoolInv, MpoolTypeOK, ChainOK, FreeIsAligned,
              PiecesAreCarved, PiecesAreApart, LiveOK
<1> QED
  BY <1>1, <1>2, <1>3, CreateKeeps, FreeKeeps DEF Next

THEOREM MpoolInvariant == Spec => []MpoolInv
  BY MpoolInit, MpoolStep, PTL DEF Spec

------------------------------------------------------------------------------
(* The room that remains in a block is never computed below zero.          *)
THEOREM MpoolTypesHold == Spec => []MpoolTypeOK
<1>1. MpoolInv => MpoolTypeOK
  BY DEF MpoolInv
<1> QED
  BY <1>1, MpoolInvariant, PTL

(* mpool_malloc never hands out a byte twice. *)
THEOREM PiecesStayApart == Spec => []PiecesAreApart
<1>1. MpoolInv => PiecesAreApart
  BY DEF MpoolInv
<1> QED
  BY <1>1, MpoolInvariant, PTL

(* What mpool_malloc and mpool_strndup hand out is aligned and lies in a   *)
(* block, up to the end of the string.                                     *)
THEOREM PiecesStayInside == Spec => []PiecesAreInside
<1>1. MpoolInv => PiecesAreInside
  <2> SUFFICES ASSUME MpoolInv, NEW x \in pieces
               PROVE  /\ x.block \in 1..Len(blocks)
                      /\ x.from % 16 = 0
                      /\ x.from + x.bytes <= blocks[x.block].size
    BY DEF PiecesAreInside
  <2>1. /\ x.block \in 1..Len(blocks) /\ x.from % 16 = 0
        /\ x.from + x.bytes <= blocks[x.block].free
    BY DEF MpoolInv, PiecesAreCarved
  <2>2. x.from \in Nat /\ x.bytes \in Nat /\ blocks[x.block] \in Block
    BY <2>1 DEF MpoolInv, MpoolTypeOK, Piece
  <2>3. /\ blocks[x.block].free \in Nat /\ blocks[x.block].size \in Nat
        /\ blocks[x.block].free <= blocks[x.block].size
    BY <2>1, <2>2 DEF MpoolInv, MpoolTypeOK, Block
  <2> QED
    BY <2>1, <2>2, <2>3
<1> QED
  BY <1>1, MpoolInvariant, PTL

(* mpool_free gives back every block, and none of them twice. *)
THEOREM BlocksAreFreedOnce == Spec => []FreedOnce
<1>1. MpoolInv => FreedOnce
  <2> SUFFICES ASSUME MpoolInv PROVE FreedOnce
    OBVIOUS
  <2>1. pool = "freeing" /\ p # Null => p \in live
    BY DEF MpoolInv, MpoolTypeOK, LiveOK, Null
  <2> QED
    BY <2>1 DEF FreedOnce, MpoolInv, LiveOK
<1> QED
  BY <1>1, MpoolInvariant, PTL
==============================================================================
