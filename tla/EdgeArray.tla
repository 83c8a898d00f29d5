----------------------------- MODULE EdgeArray -------------------------------
(***************************************************************************)
(* The outgoing edges of one node of the trie (node.c): an array that      *)
(* grows while patterns are added and is searched linearly, is sorted when *)
(* the trie is finalized, and is searched by halves from then on.          *)
(*                                                                         *)
(* Alphabets are chars, signed numbers here.  The array is the sequence    *)
(* outgoing, whose index i + 1 is the array's index i.  A node that an     *)
(* edge leads to is the number of nodes that were created for this one, it *)
(* included; 0 is the null pointer.  Every iteration of the binary search  *)
(* is a step.                                                              *)
(***************************************************************************)
EXTENDS Integers, Sequences, FiniteSets

CONSTANTS
  Alphabet,   \* AC_ALPHABET_t
  Depths,     \* the depths of nodes that are looked at
  IntMod      \* 2^w for the w bits of an int

ASSUME EdgeAssumption ==
  /\ Alphabet \subseteq Int
  /\ IsFiniteSet(Alphabet)
  /\ Depths \subseteq Nat
  /\ IntMod \in Nat /\ IntMod > 1
  /\ 4 * Cardinality(Alphabet) < IntMod

VARIABLES
  depth,      \* the node's depth
  outgoing,   \* the edges in use: outgoing[0] to outgoing[outgoing_size-1]
  capacity,   \* outgoing_capacity
  sorted,     \* the trie was finalized: no edge is added any more
  child,      \* history: the answers of node_create_next, alphabet -> node
  pc,         \* "ready", or "bs" while node_find_next_bs runs
  alpha,      \* its argument,
  min, max,   \* its locals
  result      \* and what it returned

vars == <<depth, outgoing, capacity, sorted, child, pc, alpha, min, max, result>>

Null == 0

Edge == [alpha : Alphabet, next : Nat]

(* node_init *)
Init ==
  /\ depth \in Depths
  /\ outgoing = << >>
  /\ capacity = 0
  /\ sorted = FALSE
  /\ child = << >>
  /\ pc = "ready"
  /\ alpha \in Alphabet
  /\ min = 0 /\ max = -1
  /\ result = Null

------------------------------------------------------------------------------
(* The edge that node_find_next comes to first *)
FindNext(a) ==
  LET at == {i \in 1..Len(outgoing) : outgoing[i].alpha = a}
  IN  IF at = {} THEN Null
      ELSE outgoing[CHOOSE i \in at : \A j \in at : i <= j].next

(* As GrowFactor, but without the one that keeps it positive.              *)
GrowFactorByDepth == 8 \div (depth + 1)

(* grow_factor of node_grow_outgoing_vector *)
GrowFactor == 8 \div (depth + 1) + 1

(* node_add_edge *)
AddEdge(a, next) ==
  /\ outgoing' = Append(outgoing, [alpha |-> a, next |-> next])
  /\ capacity' = IF Len(outgoing) = capacity THEN capacity + GrowFactor
                 ELSE capacity

(* ac_trie_add comes to this node: the edge exists, or it is created.      *)
CreateNext(a) ==
  /\ pc = "ready" /\ ~sorted
  /\ FindNext(a) = Null
  /\ AddEdge(a, Len(outgoing) + 1)
  /\ child' = [b \in DOMAIN child \cup {a} |->
                 IF b = a THEN Len(outgoing) + 1 ELSE child[b]]
  /\ UNCHANGED <<depth, sorted, pc, alpha, min, max, result>>

(* As EdgeCompare, but of the chars as unsigned numbers.                   *)
EdgeCompareUnsigned(l, r) == IF l.alpha % 256 >= r.alpha % 256 THEN 1 ELSE -1

(* node_edge_compare *)
EdgeCompare(l, r) == IF l.alpha >= r.alpha THEN 1 ELSE -1

(* The ways to order n edges *)
Orders(n) ==
  {p \in [1..n -> 1..n] : \A i, j \in 1..n : i # j => p[i] # p[j]}

(* node_sort_edges: qsort permutes the array so that it ascends.           *)
SortEdges ==
  /\ pc = "ready"
  /\ \E p \in Orders(Len(outgoing)) :
       /\ \A i, j \in 1..Len(outgoing) :
            i < j => EdgeCompare(outgoing[p[i]], outgoing[p[j]]) < 0
       /\ outgoing' = [i \in 1..Len(outgoing) |-> outgoing[p[i]]]
  /\ sorted' = TRUE
  /\ UNCHANGED <<depth, capacity, child, pc, alpha, min, max, result>>

------------------------------------------------------------------------------
(* As IntOf, but the number stays unsigned.                                *)
UnsignedOf(n) == n % IntMod

(* A size_t (of a width that the width of an int divides) stored in an int *)
IntOf(n) ==
  IF n % IntMod < IntMod \div 2 THEN n % IntMod ELSE (n % IntMod) - IntMod

(* As LastIndex, but the last edge is left out.                            *)
LastIndexBefore == Len(outgoing) - 2

(* outgoing_size - 1: in an empty array, the greatest size_t *)
LastIndex == Len(outgoing) - 1

(* node_find_next_bs is called. *)
BsCall(a) ==
  /\ pc = "ready" /\ sorted
  /\ pc' = "bs"
  /\ alpha' = a
  /\ min' = 0
  /\ max' = IntOf(LastIndex)
  /\ result' = Null
  /\ UNCHANGED <<depth, outgoing, capacity, sorted, child>>

mid == (min + max) \div 2

amid == outgoing[mid + 1].alpha

(* As AboveMid, but the middle stays in the range.                         *)
AboveMidAgain == mid

(* Where the upper half begins *)
AboveMid == mid + 1

(* As BelowMid, but one place too low.                                     *)
BelowMidTwice == mid - 2

(* Where the lower half ends: for mid = 0, the greatest size_t *)
BelowMid == mid - 1

BsLoop == pc = "bs" /\ min <= max

BsUp ==
  /\ BsLoop
  /\ alpha > amid
  /\ min' = IntOf(AboveMid)
  /\ UNCHANGED <<depth, outgoing, capacity, sorted, child, pc, alpha, max,
                 result>>

BsDown ==
  /\ BsLoop
  /\ alpha < amid
  /\ max' = IntOf(BelowMid)
  /\ UNCHANGED <<depth, outgoing, capacity, sorted, child, pc, alpha, min,
                 result>>

BsFound ==
  /\ BsLoop
  /\ alpha = amid
  /\ result' = outgoing[mid + 1].next
  /\ pc' = "ready"
  /\ UNCHANGED <<depth, outgoing, capacity, sorted, child, alpha, min, max>>

BsMissing ==
  /\ pc = "bs" /\ min > max
  /\ pc' = "ready"
  /\ UNCHANGED <<depth, outgoing, capacity, sorted, child, alpha, min, max,
                 result>>

BsStep == BsUp \/ BsDown \/ BsFound \/ BsMissing

Next ==
  \/ \E a \in Alphabet : CreateNext(a) \/ BsCall(a)
  \/ SortEdges
  \/ BsStep

Spec == Init /\ [][Next]_vars

(* A call of a single-threaded program goes on running. *)
FairSpec == Spec /\ WF_vars(BsStep)
------------------------------------------------------------------------------
(* The type invariant; node_add_edge writes inside the array at every      *)
(* depth: no more edges are in use than there is room for.                 *)
EdgeTypeOK ==
  /\ depth \in Depths
  /\ outgoing \in Seq(Edge)
  /\ capacity \in Nat
  /\ Len(outgoing) <= capacity
  /\ sorted \in BOOLEAN
  /\ pc \in {"ready", "bs"}
  /\ alpha \in Alphabet
  /\ min \in Int /\ max \in Int
  /\ result \in Nat

(* Whatever the order in which edges were added, the array leads every     *)
(* alphabet to the node that was created for it, and no other alphabet to  *)
(* any; from finalization on it ascends, as signed chars, which is the     *)
(* order node_find_next_bs goes by.                                        *)
EdgesAreTheChildren ==
  /\ DOMAIN child = {outgoing[i].alpha : i \in 1..Len(outgoing)}
  /\ \A i \in 1..Len(outgoing) : child[outgoing[i].alpha] = outgoing[i].next
  /\ sorted => \A i, j \in 1..Len(outgoing) :
                 i < j => outgoing[i].alpha < outgoing[j].alpha

(* What an iteration of the binary search reads is in the array, for an    *)
(* empty array too, though sizes are unsigned and its bounds are not.      *)
ReadsAreInside == BsLoop => mid \in 0..(Len(outgoing) - 1)

(* The edge that is sought, if there is one, never leaves the range that   *)
(* is still searched.                                                      *)
SoughtIsInRange ==
  pc = "bs" => \A i \in 1..Len(outgoing) :
                 outgoing[i].alpha = alpha => min < i /\ i <= max + 1

(* The binary search returns the node that was created for the alphabet,   *)
(* and null only when there was none.                                      *)
LookupIsExact ==
  [][pc = "bs" /\ pc' = "ready" =>
       result' = IF alpha \in DOMAIN child THEN child[alpha] ELSE Null]_vars

(* The range shrinks until the edge is found or the range is empty.        *)
LookupReturns == pc = "bs" ~> pc = "ready"
==============================================================================
