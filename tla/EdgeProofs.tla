----------------------------- MODULE EdgeProofs ------------------------------
(***************************************************************************)
(* Proofs about EdgeArray, for every set of alphabets that an int counts,  *)
(* every depth and every order in which edges are added: the binary search *)
(* reads inside the array and returns the node of the alphabet.            *)
(***************************************************************************)
EXTENDS EdgeArray, FiniteSetTheorems, TLAPS

(* No alphabet has two edges. *)
AlphasDiffer ==
  \A i, j \in 1..Len(outgoing) :
    outgoing[i].alpha = outgoing[j].alpha => i = j

(* An edge leads to a node. *)
EdgesLead == \A i \in 1..Len(outgoing) : outgoing[i].next # Null

(* Where the bounds of the binary search may be *)
BoundsOK ==
  pc = "bs" =>
    /\ sorted
    /\ min \in 0..Len(outgoing)
    /\ max \in -1..(Len(outgoing) - 1)
    /\ result = Null

EdgeInv ==
  /\ EdgeTypeOK
  /\ EdgesAreTheChildren
  /\ AlphasDiffer
  /\ EdgesLead
  /\ BoundsOK
  /\ SoughtIsInRange

------------------------------------------------------------------------------
(* There are no more edges than alphabets, so an int counts them twice.    *)
LEMMA EdgesAreFew ==
  ASSUME EdgeTypeOK, AlphasDiffer
  PROVE  4 * Len(outgoing) < IntMod
<1> DEFINE f == [i \in 1..Len(outgoing) |-> outgoing[i].alpha]
<1>1. Len(outgoing) \in Nat /\ \A i \in 1..Len(outgoing) : outgoing[i] \in Edge
  BY DEF EdgeTypeOK
<1>2. f \in Injection(1..Len(outgoing), Alphabet)
  BY <1>1 DEF AlphasDiffer, Edge, Injection, IsInjective
<1>3. Cardinality(1..Len(outgoing)) <= Cardinality(Alphabet)
  BY <1>2, FS_Injection, EdgeAssumption
<1>4. Cardinality(1..Len(outgoing)) = Len(outgoing)
  <2>1. Cardinality(1..Len(outgoing))
          = IF 1 > Len(outgoing) THEN 0 ELSE Len(outgoing) - 1 + 1
    BY <1>1, FS_Interval
  <2> QED
    BY <1>1, <2>1
<1>5. Cardinality(Alphabet) \in Nat
  BY EdgeAssumption, FS_CardinalityType
<1> QED
  BY <1>1, <1>3, <1>4, <1>5, EdgeAssumption

(* A number near enough to zero is kept when it is stored in an int, a     *)
(* negative one too.                                                       *)
LEMMA IntOfSmall ==
  ASSUME NEW n \in Int, -1 <= n, 4 * n < IntMod
  PROVE  IntOf(n) = n
<1>1. IntMod \in Nat /\ IntMod > 1
  BY EdgeAssumption
<1>2. CASE n >= 0
  <2>1. n % IntMod = n
    BY <1>1, <1>2
  <2> QED
    BY <1>1, <1>2, <2>1 DEF IntOf
<1>3. CASE n = -1
  <2>1. n % IntMod = IntMod - 1
    BY <1>1, <1>3
  <2>2. ~(IntMod - 1 < IntMod \div 2)
    BY <1>1
  <2> QED
    BY <1>1, <1>3, <2>1, <2>2 DEF IntOf
<1> QED
  BY <1>2, <1>3

(* The middle of a range lies in it.                                       *)
LEMMA MidIsBetween ==
  ASSUME NEW lo \in Int, NEW hi \in Int, lo <= hi
  PROVE  (lo + hi) \div 2 \in lo..hi
  OBVIOUS

(* What the linear search returns for an alphabet without an edge.         *)
LEMMA FindNextNull ==
  ASSUME EdgeTypeOK, AlphasDiffer, EdgesLead, NEW a \in Alphabet, FindNext(a) = Null
  PROVE  \A i \in 1..Len(outgoing) : outgoing[i].alpha # a
<1> DEFINE at == {i \in 1..Len(outgoing) : outgoing[i].alpha = a}
           first == CHOOSE i \in at : \A j \in at : i <= j
<1> SUFFICES ASSUME at # {} PROVE FALSE
  OBVIOUS
<1>1. \E i \in at : \A j \in at : i <= j
  BY DEF AlphasDiffer, EdgeTypeOK
<1>2. first \in at
  BY <1>1
<1>3. FindNext(a) = outgoing[first].next
  BY DEF FindNext
<1> QED
  BY <1>2, <1>3 DEF EdgesLead

------------------------------------------------------------------------------
LEMMA EdgeInit == Init => EdgeInv
<1> SUFFICES ASSUME Init PROVE EdgeInv
  OBVIOUS
<1>1. outgoing = << >> /\ Len(outgoing) = 0 /\ 1..Len(outgoing) = {}
  BY DEF Init
<1>2. EdgeTypeOK
  <2>1. << >> \in Seq(Edge)
    OBVIOUS
  <2>2. sorted \in BOOLEAN
    BY Zenon DEF Init
  <2>3. Len(outgoing) <= capacity
    BY <1>1 DEF Init
  <2> QED
    BY <2>1, <2>2, <2>3 DEF Init, EdgeTypeOK, Null
<1>3. EdgesAreTheChildren
  BY <1>1 DEF Init, EdgesAreTheChildren
<1> QED
  BY <1>1, <1>2, <1>3 DEF Init, EdgeInv, AlphasDiffer, EdgesLead, BoundsOK,
                          SoughtIsInRange

(* A new edge is for another alphabet, and there is room for it.           *)
LEMMA CreateNextKeeps ==
  ASSUME EdgeInv, NEW a \in Alphabet, CreateNext(a)
  PROVE  EdgeInv'
<1> DEFINE n == Len(outgoing)
           e == [alpha |-> a, next |-> n + 1]
<1>1. /\ outgoing \in Seq(Edge) /\ n \in Nat
      /\ \A i \in 1..n : outgoing[i] \in Edge
  BY DEF EdgeInv, EdgeTypeOK
<1>2. e \in Edge /\ outgoing' = Append(outgoing, e)
  BY <1>1 DEF CreateNext, AddEdge, Edge
<1>3. /\ outgoing' \in Seq(Edge) /\ Len(outgoing') = n + 1
      /\ outgoing'[n + 1] = e
      /\ \A i \in 1..n : outgoing'[i] = outgoing[i]
  BY <1>1, <1>2
<1>4. \A i \in 1..n : outgoing[i].alpha # a
  BY FindNextNull DEF EdgeInv, CreateNext
<1>5. /\ pc' = "ready" /\ sorted' = FALSE
  BY DEF CreateNext, EdgeInv, EdgeTypeOK
<1>6. EdgeTypeOK'
  <2>1. depth \in Nat
    BY EdgeAssumption DEF EdgeInv, EdgeTypeOK
  <2>2. GrowFactor \in Nat /\ GrowFactor >= 1
    BY <2>1 DEF GrowFactor
  <2>3. capacity' \in Nat /\ n + 1 <= capacity'
    BY <1>1, <2>2 DEF CreateNext, AddEdge, EdgeInv, EdgeTypeOK
  <2> QED
    BY <1>3, <2>3 DEF CreateNext, EdgeInv, EdgeTypeOK
<1>7. EdgesAreTheChildren'
  <2>1. DOMAIN child' = DOMAIN child \cup {a}
    BY DEF CreateNext
  <2>2. {outgoing'[i].alpha : i \in 1..(n + 1)} = {outgoing[i].alpha : i \in 1..n} \cup {a}
    <3>1. 1..(n + 1) = (1..n) \cup {n + 1}
      BY <1>1
    <3> QED
      BY <1>3, <3>1
  <2>3. ASSUME NEW i \in 1..(n + 1)
        PROVE  child'[outgoing'[i].alpha] = outgoing'[i].next
    <3>1. CASE i = n + 1
      BY <1>3, <3>1, <2>1 DEF CreateNext
    <3>2. CASE i \in 1..n
      <4>1. outgoing[i].alpha \in DOMAIN child /\ outgoing[i].alpha # a
        BY <1>4, <3>2 DEF EdgeInv, EdgesAreTheChildren
      <4> QED
        BY <1>3, <3>2, <4>1 DEF CreateNext, EdgeInv, EdgesAreTheChildren
    <3> QED
      BY <1>1, <3>1, <3>2
  <2> QED
    BY <1>3, <1>5, <2>1, <2>2, <2>3 DEF EdgeInv, EdgesAreTheChildren
<1>8. AlphasDiffer'
  BY <1>1, <1>3, <1>4 DEF AlphasDiffer, EdgeInv
<1>9. EdgesLead'
  BY <1>1, <1>3 DEF EdgesLead, EdgeInv, Null
<1> QED
  BY <1>5, <1>6, <1>7, <1>8, <1>9 DEF EdgeInv, BoundsOK, SoughtIsInRange

(* qsort moves the edges to other places, in the order of their alphabets. *)
LEMMA SortEdgesKeeps ==
  ASSUME EdgeInv, SortEdges
  PROVE  EdgeInv'
<1> DEFINE n == Len(outgoing)
<1>1. PICK p \in Orders(n) :
        /\ \A i, j \in 1..n :
             i < j => EdgeCompare(outgoing[p[i]], outgoing[p[j]]) < 0
        /\ outgoing' = [i \in 1..n |-> outgoing[p[i]]]
  BY DEF SortEdges
<1>2. /\ outgoing \in Seq(Edge) /\ n \in Nat
      /\ \A i \in 1..n : outgoing[i] \in Edge
  BY DEF EdgeInv, EdgeTypeOK
<1>3. /\ p \in [1..n -> 1..n]
      /\ \A i \in 1..n : p[i] \in 1..n
      /\ \A i, j \in 1..n : i # j => p[i] # p[j]
  BY DEF Orders
<1>4. /\ outgoing' \in Seq(Edge) /\ Len(outgoing') = n
      /\ \A i \in 1..n : outgoing'[i] = outgoing[p[i]]
  BY <1>1, <1>2, <1>3
<1>5. \A k \in 1..n : \E i \in 1..n : p[i] = k
  <2>1. p \in Injection(1..n, 1..n)
    BY <1>3 DEF Injection, IsInjective
  <2>2. IsFiniteSet(1..n)
    BY <1>2, FS_Interval
  <2>3. p \in Surjection(1..n, 1..n)
    BY <2>1, <2>2, FS_Injection
  <2> QED
    BY <2>3 DEF Surjection
<1>6. pc' = "ready" /\ pc = "ready" /\ sorted' = TRUE /\ child' = child
  BY DEF SortEdges, EdgeInv, EdgeTypeOK
<1>7. EdgeTypeOK'
  BY <1>4, <1>6 DEF SortEdges, EdgeInv, EdgeTypeOK
<1>8. EdgesAreTheChildren'
  <2>1. {outgoing'[i].alpha : i \in 1..n} = {outgoing[i].alpha : i \in 1..n}
    <3>1. \A i \in 1..n : outgoing'[i].alpha \in {outgoing[k].alpha : k \in 1..n}
      BY <1>3, <1>4
    <3>2. \A k \in 1..n : outgoing[k].alpha \in {outgoing'[i].alpha : i \in 1..n}
      <4> TAKE k \in 1..n
      <4>1. PICK i \in 1..n : p[i] = k
        BY <1>5
      <4>2. outgoing'[i].alpha = outgoing[k].alpha
        BY <1>4, <4>1
      <4> QED
        BY <4>2
    <3> QED
      BY <3>1, <3>2
  <2>2. ASSUME NEW i \in 1..n
        PROVE  child[outgoing'[i].alpha] = outgoing'[i].next
    <3>1. child[outgoing[p[i]].alpha] = outgoing[p[i]].next
      BY <1>3 DEF EdgeInv, EdgesAreTheChildren
    <3> QED
      BY <1>4, <3>1
  <2>3. ASSUME NEW i \in 1..n, NEW j \in 1..n, i < j
        PROVE  outgoing'[i].alpha < outgoing'[j].alpha
    <3>1. EdgeCompare(outgoing'[i], outgoing'[j]) < 0
      BY <1>1, <1>4, <2>3
    <3>2. outgoing'[i].alpha \in Int /\ outgoing'[j].alpha \in Int
      BY <1>2, <1>3, <1>4, EdgeAssumption DEF Edge
    <3> QED
      BY <3>1, <3>2 DEF EdgeCompare
  <2> QED
    BY <1>4, <1>6, <2>1, <2>2, <2>3 DEF EdgeInv, EdgesAreTheChildren
<1>9. AlphasDiffer'
  <2> SUFFICES ASSUME NEW i \in 1..n, NEW j \in 1..n,
                      outgoing'[i].alpha = outgoing'[j].alpha
               PROVE  i = j
    BY <1>4 DEF AlphasDiffer
  <2>1. p[i] = p[j]
    BY <1>3, <1>4 DEF EdgeInv, AlphasDiffer
  <2> QED
    BY <1>3, <2>1
<1>10. EdgesLead'
  <2>1. \A i \in 1..n : outgoing[p[i]].next # Null
    BY <1>3 DEF EdgeInv, EdgesLead
  <2> QED
    BY <1>4, <2>1 DEF EdgesLead, Null
<1> QED
  BY <1>10, <1>6, <1>7, <1>8, <1>9 DEF EdgeInv, BoundsOK, SoughtIsInRange

(* The search begins with the whole array, which may be empty.             *)
LEMMA BsCallKeeps ==
  ASSUME EdgeInv, NEW a \in Alphabet, BsCall(a)
  PROVE  EdgeInv'
<1>1. Len(outgoing) \in Nat /\ 4 * (Len(outgoing) - 1) < IntMod
  <2>1. Len(outgoing) \in Nat /\ IntMod \in Nat
    BY EdgeAssumption DEF EdgeInv, EdgeTypeOK
  <2> QED
    BY <2>1, EdgesAreFew DEF EdgeInv
<1>2. max' = Len(outgoing) - 1
  BY <1>1, IntOfSmall DEF BsCall, LastIndex
<1> QED
  BY <1>1, <1>2 DEF BsCall, EdgeInv, EdgeTypeOK, EdgesAreTheChildren,
                    AlphasDiffer, EdgesLead, BoundsOK, SoughtIsInRange, Null

(* What the loop of the binary search reads is in the array, and an int    *)
(* holds the bounds it computes.                                           *)
LEMMA MidIsInside ==
  ASSUME EdgeInv, BsLoop
  PROVE  /\ mid \in min..max
         /\ mid \in 0..(Len(outgoing) - 1)
         /\ Len(outgoing) \in Nat
         /\ outgoing[mid + 1] \in Edge
         /\ amid \in Int
         /\ IntOf(AboveMid) = mid + 1
         /\ IntOf(BelowMid) = mid - 1
<1>1. /\ Len(outgoing) \in Nat
      /\ min \in 0..Len(outgoing) /\ max \in -1..(Len(outgoing) - 1)
      /\ min <= max
  BY DEF EdgeInv, EdgeTypeOK, BoundsOK, BsLoop
<1>2. mid \in min..max
  BY <1>1, MidIsBetween DEF mid
<1>3. mid \in 0..(Len(outgoing) - 1)
  BY <1>1, <1>2
<1>4. outgoing[mid + 1] \in Edge
  BY <1>1, <1>3 DEF EdgeInv, EdgeTypeOK
<1>5. amid \in Int
  BY <1>4, EdgeAssumption DEF amid, Edge
<1>6. 4 * Len(outgoing) < IntMod /\ IntMod \in Nat
  BY EdgesAreFew, EdgeAssumption DEF EdgeInv
<1>7. IntOf(AboveMid) = mid + 1
  <2>1. mid + 1 \in Int /\ -1 <= mid + 1 /\ 4 * (mid + 1) < IntMod
    BY <1>1, <1>3, <1>6
  <2> QED
    BY <2>1, IntOfSmall DEF AboveMid
<1>8. IntOf(BelowMid) = mid - 1
  <2>1. mid - 1 \in Int /\ -1 <= mid - 1 /\ 4 * (mid - 1) < IntMod
    BY <1>1, <1>3, <1>6
  <2> QED
    BY <2>1, IntOfSmall DEF BelowMid
<1> QED
  BY <1>1, <1>2, <1>3, <1>4, <1>5, <1>7, <1>8

(* The half that is dropped holds only smaller, or only greater alphabets. *)
LEMMA BsHalvesKeep ==
  ASSUME EdgeInv, BsUp \/ BsDown
  PROVE  EdgeInv'
<1> DEFINE n == Len(outgoing)
<1>1. BsLoop /\ sorted /\ pc = "bs"
  BY DEF BsUp, BsDown, BsLoop, EdgeInv, BoundsOK
<1>2. /\ mid \in min..max /\ mid \in 0..(n - 1) /\ n \in Nat
      /\ outgoing[mid + 1] \in Edge /\ amid \in Int
      /\ IntOf(AboveMid) = mid + 1 /\ IntOf(BelowMid) = mid - 1
  BY <1>1, MidIsInside
<1>3. UNCHANGED <<depth, outgoing, capacity, sorted, child, pc, alpha, result>>
  BY DEF BsUp, BsDown
<1>4. /\ min \in 0..n /\ max \in -1..(n - 1) /\ alpha \in Int
      /\ \A i \in 1..n : outgoing[i].alpha \in Int
  <2>1. \A i \in 1..n : outgoing[i] \in Edge
    BY DEF EdgeInv, EdgeTypeOK
  <2>2. \A i \in 1..n : outgoing[i].alpha \in Int
    BY <2>1, EdgeAssumption DEF Edge
  <2> QED
    BY <1>1, <2>2, EdgeAssumption DEF EdgeInv, BoundsOK, EdgeTypeOK
<1>5. /\ min' \in 0..n /\ max' \in -1..(n - 1)
  BY <1>2, <1>4 DEF BsUp, BsDown
<1>6. SoughtIsInRange'
  <2> SUFFICES ASSUME NEW i \in 1..n, outgoing[i].alpha = alpha
               PROVE  min' < i /\ i <= max' + 1
    BY <1>3 DEF SoughtIsInRange
  <2>1. min < i /\ i <= max + 1
    BY <1>1 DEF EdgeInv, SoughtIsInRange
  <2>2. \A j, k \in 1..n : j < k => outgoing[j].alpha < outgoing[k].alpha
    BY <1>1 DEF EdgeInv, EdgesAreTheChildren
  <2>3. mid + 1 \in 1..n
    BY <1>2
  <2>4. CASE BsUp
    <3>1. outgoing[mid + 1].alpha < outgoing[i].alpha
      BY <2>4 DEF BsUp, amid
    <3>2. i # mid + 1 /\ ~(i < mid + 1)
      BY <1>4, <2>2, <2>3, <3>1
    <3> QED
      BY <1>2, <2>1, <2>4, <3>2 DEF BsUp
  <2>5. CASE BsDown
    <3>1. outgoing[i].alpha < outgoing[mid + 1].alpha
      BY <2>5 DEF BsDown, amid
    <3>2. i # mid + 1 /\ ~(mid + 1 < i)
      BY <1>4, <2>2, <2>3, <3>1
    <3> QED
      BY <1>2, <2>1, <2>5, <3>2 DEF BsDown
  <2> QED
    BY <2>4, <2>5
<1> QED
  BY <1>3, <1>5, <1>6 DEF EdgeInv, EdgeTypeOK, EdgesAreTheChildren,
                          AlphasDiffer, EdgesLead, BoundsOK

(* The search ends. *)
LEMMA BsEndKeeps ==
  ASSUME EdgeInv, BsFound \/ BsMissing
  PROVE  EdgeInv'
<1>1. /\ pc' = "ready"
      /\ UNCHANGED <<depth, outgoing, capacity, sorted, child, alpha, min, max>>
  BY DEF BsFound, BsMissing
<1>2. result' \in Nat
  <2>1. CASE BsFound
    <3>1. outgoing[mid + 1] \in Edge
      BY <2>1, MidIsInside DEF BsFound
    <3> QED
      BY <2>1, <3>1 DEF BsFound, Edge
  <2>2. CASE BsMissing
    BY <2>2 DEF BsMissing, EdgeInv, EdgeTypeOK
  <2> QED
    BY <2>1, <2>2
<1> QED
  BY <1>1, <1>2 DEF EdgeInv, EdgeTypeOK, EdgesAreTheChildren, AlphasDiffer,
                    EdgesLead, BoundsOK, SoughtIsInRange

LEMMA EdgeStep == EdgeInv /\ [Next]_vars => EdgeInv'
<1> SUFFICES ASSUME EdgeInv, [Next]_vars PROVE EdgeInv'
  OBVIOUS
<1>1. CASE UNCHANGED vars
  BY <1>1 DEF vars, EdgeInv, EdgeTypeOK, EdgesAreTheChildren, AlphasDiffer,
              EdgesLead, BoundsOK, SoughtIsInRange
<1>2. CASE Next
  BY <1>2, CreateNextKeeps, SortEdgesKeeps, BsCallKeeps, BsHalvesKeep,
     BsEndKeeps DEF Next, BsStep
<1> QED
  BY <1>1, <1>2

THEOREM EdgeInvariant == Spec => []EdgeInv
  BY EdgeInit, EdgeStep, PTL DEF Spec

------------------------------------------------------------------------------
(* node_create_next never writes behind the array, at any depth.           *)
THEOREM EdgeTypesHold == Spec => []EdgeTypeOK
<1>1. EdgeInv => EdgeTypeOK
  BY DEF EdgeInv
<1> QED
  BY <1>1, EdgeInvariant, PTL

(* The edges lead to the nodes created for them, also when qsort has put   *)
(* them in the order of signed chars.                                      *)
THEOREM EdgesStayTheChildren == Spec => []EdgesAreTheChildren
<1>1. EdgeInv => EdgesAreTheChildren
  BY DEF EdgeInv
<1> QED
  BY <1>1, EdgeInvariant, PTL

(* node_find_next_bs reads no edge outside of the array.                   *)
THEOREM BsReadsInside == Spec => []ReadsAreInside
<1>1. EdgeInv => ReadsAreInside
  BY MidIsInside DEF ReadsAreInside
<1> QED
  BY <1>1, EdgeInvariant, PTL

(* node_find_next_bs never drops the half the edge is in.                  *)
THEOREM BsKeepsSought == Spec => []SoughtIsInRange
<1>1. EdgeInv => SoughtIsInRange
  BY DEF EdgeInv
<1> QED
  BY <1>1, EdgeInvariant, PTL

(* node_find_next_bs returns what was created for the alphabet, and null   *)
(* only when nothing was.                                                  *)
THEOREM BsIsExact == Spec => LookupIsExact
<1> DEFINE A == pc = "bs" /\ pc' = "ready" =>
                  result' = IF alpha \in DOMAIN child THEN child[alpha] ELSE Null
<1>1. EdgeInv /\ [Next]_vars => [A]_vars
  <2> SUFFICES ASSUME EdgeInv, Next, pc = "bs", pc' = "ready"
               PROVE  result' = IF alpha \in DOMAIN child THEN child[alpha]
                                ELSE Null
    OBVIOUS
  <2>1. BsFound \/ BsMissing
    BY DEF Next, BsStep, CreateNext, BsCall, SortEdges, BsUp, BsDown
  <2>2. CASE BsFound
    <3>1. mid + 1 \in 1..Len(outgoing)
      BY <2>2, MidIsInside DEF BsFound
    <3> QED
      BY <2>2, <3>1 DEF BsFound, amid, EdgeInv, EdgesAreTheChildren
  <2>3. CASE BsMissing
    <3>1. min > max /\ min \in Int /\ max \in Int /\ result' = Null
      BY <2>3 DEF BsMissing, EdgeInv, BoundsOK, EdgeTypeOK
    <3>2. \A i \in 1..Len(outgoing) : outgoing[i].alpha # alpha
      <4> SUFFICES ASSUME NEW i \in 1..Len(outgoing), outgoing[i].alpha = alpha
                   PROVE  FALSE
        OBVIOUS
      <4>1. min < i /\ i <= max + 1
        BY DEF EdgeInv, SoughtIsInRange
      <4> QED
        BY <3>1, <4>1
    <3>3. alpha \notin DOMAIN child
      BY <3>2 DEF EdgeInv, EdgesAreTheChildren
    <3> QED
      BY <3>1, <3>3
  <2> QED
    BY <2>1, <2>2, <2>3
<1> QED
  BY <1>1, EdgeInvariant, PTL DEF Spec, LookupIsExact
==============================================================================
