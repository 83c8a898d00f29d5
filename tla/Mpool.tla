-------------------------------- MODULE Mpool --------------------------------
(***************************************************************************)
(* The pool the trie takes the memory of its nodes and of its copies of    *)
(* the patterns from (mpool.c): blocks got from malloc, of which the       *)
(* newest is carved into pieces until a piece does not fit in what is left *)
(* of it.  Nothing is given back before mpool_free gives back everything.  *)
(*                                                                         *)
(* A block is known by its place in the order of allocation, 0 is the null *)
(* pointer; an address is a block and an offset in it.  Blocks never touch *)
(* (malloc).  Every iteration of the loop of mpool_free is a step.         *)
(***************************************************************************)
EXTENDS Integers, Sequences, FiniteSets

CONSTANTS
  BlockSize,  \* MPOOL_BLOCK_SIZE
  Size,       \* the sizes clients pass
  MaxPieces   \* bound on the pieces taken from a pool

ASSUME MpoolAssumption ==
  /\ BlockSize \in Nat \ {0} /\ BlockSize % 16 = 0
  /\ Size \subseteq Nat

VARIABLES
  pool,       \* "none", "made", "freeing" while mpool_free runs, "freed"
  blocks,     \* the struct mpool_block of each block
  block,      \* pool->block: the newest one
  live,       \* the blocks that were not given back to malloc
  p,          \* the local p of mpool_free
  pieces      \* history: the pieces handed out, with the bytes written there

vars == <<pool, blocks, block, live, p, pieces>>

Null == 0

Block == [size : Nat, free : Nat, next : Nat]

Piece == [block : Nat, from : Nat, bytes : Nat]

(* mpool_new_block *)
NewBlock(size, free, next) ==
  [size |-> IF size = 0 THEN BlockSize ELSE size, free |-> free, next |-> next]

Init ==
  /\ pool = "none"
  /\ blocks = << >> /\ block = Null /\ live = {}
  /\ p = Null
  /\ pieces = {}

MpoolCreate(size) ==
  /\ pool \in {"none", "freed"}
  /\ pool' = "made"
  /\ blocks' = <<NewBlock(size, 0, Null)>>
  /\ block' = 1
  /\ live' = live \cup {1}
  /\ pieces' = {}
  /\ UNCHANGED p

(* As RoundUp, but down.                                                   *)
RoundDown(n) == (n \div 16) * 16

(* (size + 15) & ~0xF *)
RoundUp(n) == ((n + 15) \div 16) * 16

(* As SizeOfNew, but the block is as big as the one before.                *)
SizeOfSame(n) == blocks[block].size

(* The size of a block for a piece that does not fit *)
SizeOfNew(n) == IF n > blocks[block].size THEN n ELSE blocks[block].size

(* As NextOfNew, but the old blocks are not chained.                       *)
NextOfNone == Null

NextOfNew == block

Remain == blocks[block].size - blocks[block].free

(* mpool_malloc for n bytes; the client writes that many. *)
Carve(n, bytes) ==
  LET size == RoundUp(n) IN
    \/ /\ Remain < size
       /\ blocks' = Append(blocks, NewBlock(SizeOfNew(size), size, NextOfNew))
       /\ block' = Len(blocks) + 1
       /\ live' = live \cup {Len(blocks) + 1}
       /\ pieces' = pieces \cup {[block |-> block', from |-> 0, bytes |-> bytes]}
    \/ /\ Remain >= size
       /\ blocks' = [blocks EXCEPT ![block].free = @ + size]
       /\ pieces' = pieces \cup
            {[block |-> block, from |-> blocks[block].free, bytes |-> bytes]}
       /\ UNCHANGED <<block, live>>

CanTake == pool = "made" /\ Cardinality(pieces) < MaxPieces

(* A node is created; mpool_malloc(0) is null. *)
MpoolMalloc(n) ==
  /\ CanTake /\ n > 0
  /\ Carve(n, n)
  /\ UNCHANGED <<pool, p>>

(* As RoomFor, but the end of the string is forgotten.                     *)
RoomForText(n) == n

(* What mpool_strndup asks for *)
RoomFor(n) == n + 1

(* mpool_strndup, and mpool_strdup of a string of n characters: the copy   *)
(* of a pattern, its replacement or its name, with a zero at its end       *)
MpoolStrndup(n) ==
  /\ CanTake /\ RoomFor(n) > 0
  /\ Carve(RoomFor(n), n + 1)
  /\ UNCHANGED <<pool, p>>

(* As NextToFree, but the loop goes on with the same block.                *)
NextToFreeSame == p

(* p_next, read before p is given back *)
NextToFree == blocks[p].next

MpoolFree ==
  /\ pool = "made"
  /\ pool' = "freeing"
  /\ p' = block
  /\ UNCHANGED <<blocks, block, live, pieces>>

FreeBlock ==
  /\ pool = "freeing" /\ p # Null
  /\ live' = live \ {p}
  /\ p' = NextToFree
  /\ UNCHANGED <<pool, blocks, block, pieces>>

FreeEnd ==
  /\ pool = "freeing" /\ p = Null
  /\ pool' = "freed"
  /\ UNCHANGED <<blocks, block, live, p, pieces>>

FreeStep == FreeBlock \/ FreeEnd

Next ==
  \/ \E n \in Size : MpoolCreate(n) \/ MpoolMalloc(n) \/ MpoolStrndup(n)
  \/ MpoolFree
  \/ FreeStep

Spec == Init /\ [][Next]_vars

(* A call of a single-threaded program goes on running. *)
FairSpec == Spec /\ WF_vars(FreeStep)
------------------------------------------------------------------------------
(* The type invariant; the free area of a block begins in the block, so    *)
(* that what remains of it, an unsigned number, does not wrap.             *)
MpoolTypeOK ==
  /\ pool \in {"none", "made", "freeing", "freed"}
  /\ blocks \in Seq(Block)
  /\ \A i \in 1..Len(blocks) : blocks[i].free <= blocks[i].size
  /\ block \in 0..Len(blocks)
  /\ live \subseteq 1..Len(blocks)
  /\ p \in 0..Len(blocks)
  /\ pieces \subseteq Piece

(* The pieces two callers got have no byte in common, however the sizes    *)
(* were mixed and whichever blocks they made necessary.                    *)
PiecesAreApart ==
  \A x, y \in pieces :
    x # y /\ x.block = y.block =>
      x.from + x.bytes <= y.from \/ y.from + y.bytes <= x.from

(* Every byte a caller writes, the zero that ends a string too, is in the  *)
(* block its piece was carved from, and the piece begins at a multiple     *)
(* of 16.                                                                  *)
PiecesAreInside ==
  \A x \in pieces :
    /\ x.block \in 1..Len(blocks)
    /\ x.from % 16 = 0
    /\ x.from + x.bytes <= blocks[x.block].size

(* mpool_free gives back every block once: none that it gave back already, *)
(* and when it returns there is none it left.                              *)
FreedOnce ==
  /\ pool = "freeing" /\ p # Null => p \in live
  /\ pool = "freed" => live = {}

(* mpool_free comes to the end of the chain.                               *)
FreeReturns == pool = "freeing" ~> pool = "freed"
==============================================================================
