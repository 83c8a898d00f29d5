----------------------------- MODULE TrieProofs ------------------------------
(***************************************************************************)
(* Proofs about Trie, for every alphabet, length limit and set of words.   *)
(***************************************************************************)
EXTENDS Trie, WordsProofs

(* The path of a word is made of nodes-to-be, begins in the root and ends  *)
(* with the word.                                                          *)
LEMMA PrefixesOfWord ==
  ASSUME NEW w \in Path
  PROVE  /\ Prefixes(w) \subseteq Path
         /\ Root \in Prefixes(w)
         /\ w \in Prefixes(w)
<1>1. SubSeq(w, 1, 0) = Root
  BY DEF Path, Root
<1>2. SubSeq(w, 1, Len(w)) = w
  BY DEF Path
<1>3. \A l \in 0..Len(w) : SubSeq(w, 1, l) \in Path
  BY DEF Path
<1>4. 0 \in 0..Len(w) /\ Len(w) \in 0..Len(w)
  BY DEF Path
<1> QED
  BY <1>1, <1>2, <1>3, <1>4, Zenon DEF Prefixes

(* What is left of a node when as many alphabets are dropped as Drops says *)
(* is a node.                                                              *)
LEMMA DroppedIsNode ==
  ASSUME TrieTypeOK, NEW n \in nodes, NEW d \in Drops(n)
  PROVE  /\ d \in 1..(Len(n) - 1)
         /\ SubSeq(n, d + 1, Len(n)) \in nodes
<1>1. n \in Seq(Alphabet)
  BY DEF TrieTypeOK, Path
<1>2. d \in 1..(Len(n) - 1) /\ Reaches(SubSeq(n, d + 1, Len(n)))
  BY DEF Drops
<1> DEFINE f == SubSeq(n, d + 1, Len(n))
<1>3. f \in Seq(Alphabet) /\ Len(f) = Len(n) - d
  BY <1>1, <1>2, DropIsTail
<1>4. SubSeq(f, 1, Len(f)) \in nodes
  BY <1>1, <1>2, <1>3 DEF Reaches
<1>5. SubSeq(f, 1, Len(f)) = f
  BY <1>3
<1> QED
  BY <1>2, <1>4, <1>5

LEMMA DroppedIsLeast ==
  ASSUME TrieTypeOK, NEW n \in nodes, Drops(n) # {}
  PROVE  Dropped(n) \in Drops(n) /\ \A d \in Drops(n) : Dropped(n) <= d
<1>1. n \in Seq(Alphabet)
  BY DEF TrieTypeOK, Path
<1>2. Drops(n) \in SUBSET Nat
  BY <1>1 DEF Drops
<1> QED
  BY <1>2, MinOfNaturals DEF Dropped

LEMMA FailureOfIsNode ==
  ASSUME TrieTypeOK, NEW n \in nodes, PrefixOf(n) = n
  PROVE  FailureOf(n) \in nodes \cup {NoNode}
<1>1. CASE n # Root /\ Drops(n) # {}
  BY <1>1, DroppedIsLeast, DroppedIsNode DEF FailureOf
<1>2. CASE ~(n # Root /\ Drops(n) # {})
  BY <1>2 DEF FailureOf, TrieTypeOK
<1> QED
  BY <1>1, <1>2

(* Where the traversal may go next, the shared array still holds the path  *)
(* of the caller, whatever other branches have written behind it.          *)
PrefixInv ==
  phase = "set_failure" =>
    \A m \in todo \ {Root} : Front(m) \notin todo =>
      /\ Len(m) - 1 <= Len(prefix)
      /\ SubSeq(prefix, 1, Len(m) - 1) = Front(m)

(* A node that is not the root is its parent's path and an alphabet.       *)
LEMMA NodeHasParent ==
  ASSUME NEW n \in Path, n # Root
  PROVE  /\ Len(n) \in Nat /\ Len(n) >= 1
         /\ Front(n) \in Path /\ Len(Front(n)) = Len(n) - 1
         /\ Last(n) \in Alphabet
         /\ n = Append(Front(n), Last(n))
<1>1. n \in Seq(Alphabet) /\ n # << >>
  BY DEF Path, Root
<1>2. Len(n) \in Nat /\ Len(n) >= 1
  BY <1>1
<1>3. Front(n) = SubSeq(n, 1, Len(n) - 1) /\ Last(n) = n[Len(n)]
  BY DEF Front, Last
<1>4. Front(n) \in Seq(Alphabet) /\ Len(Front(n)) = Len(n) - 1
  <2>1. ASSUME NEW k \in 0..Len(n)
        PROVE  SubSeq(n, 1, k) \in Seq(Alphabet) /\ Len(SubSeq(n, 1, k)) = k
    BY <1>1
  <2>2. Len(n) - 1 \in 0..Len(n)
    BY <1>2
  <2> QED
    BY <1>3, <2>1, <2>2
<1>5. n = Append(Front(n), Last(n))
  BY <1>1, <1>2, <1>3, <1>4
<1> QED
  BY <1>1, <1>2, <1>3, <1>4, <1>5 DEF Path

(* ac_trie_set_failure reads the path of its node in the array.            *)
LEMMA PrefixIsPath ==
  ASSUME TrieTypeOK, PrefixInv, phase = "set_failure", NEW n \in nodes, Visits(n)
  PROVE  /\ Written(n) \in Path
         /\ Len(n) <= Len(Written(n))
         /\ PrefixOf(n) = n
         /\ \A k \in Nat : k < Len(n) =>
              SubSeq(Written(n), 1, k) = SubSeq(prefix, 1, k)
<1>1. n \in Path /\ prefix \in Seq(Alphabet)
  BY DEF TrieTypeOK, Path
<1>2. CASE n = Root
  BY <1>1, <1>2 DEF Written, PrefixOf, Path, Root
<1>3. CASE n # Root
  <2>1. /\ Len(n) \in Nat /\ Len(n) >= 1
        /\ Front(n) \in Seq(Alphabet) /\ Len(Front(n)) = Len(n) - 1
        /\ Last(n) \in Alphabet
        /\ n = Append(Front(n), Last(n))
    BY <1>1, <1>3, NodeHasParent DEF Path
  <2>2. /\ Len(n) - 1 <= Len(prefix)
        /\ SubSeq(prefix, 1, Len(n) - 1) = Front(n)
    BY <1>3 DEF Visits, PrefixInv
  <2>3. /\ Written(n) \in Seq(Alphabet)
        /\ Len(n) <= Len(Written(n))
        /\ Written(n)[Len(n)] = Last(n)
        /\ \A i \in 1..(Len(n) - 1) : Written(n)[i] = prefix[i]
    BY <1>1, <1>3, <2>1, <2>2 DEF Written
  <2>4. ASSUME NEW k \in Nat, k < Len(n)
        PROVE  SubSeq(Written(n), 1, k) = SubSeq(prefix, 1, k)
    BY <1>1, <2>1, <2>2, <2>3, <2>4
  <2>5. PrefixOf(n) = Append(Front(n), Last(n))
    <3>1. PrefixOf(n) = Append(SubSeq(Written(n), 1, Len(n) - 1), Last(n))
      BY <2>1, <2>3 DEF PrefixOf
    <3>2. SubSeq(Written(n), 1, Len(n) - 1) = SubSeq(prefix, 1, Len(n) - 1)
      BY <2>1, <2>4
    <3> QED
      BY <2>2, <3>1, <3>2
  <2> QED
    BY <2>1, <2>3, <2>4, <2>5 DEF Path
<1> QED
  BY <1>2, <1>3

LEMMA TrieTypeInit == TrieInit => TrieTypeOK
BY DEF TrieInit, TrieTypeOK, Path, Root, Status

LEMMA TrieTypeStep ==
  ASSUME TrieTypeOK, PrefixInv, [TrieNext]_trieVars
  PROVE  TrieTypeOK'
<1> USE DEF TrieTypeOK
<1>1. ASSUME NEW w \in Offered, AddRefused(w)
      PROVE  TrieTypeOK'
  BY <1>1 DEF AddRefused, Status
<1>2. ASSUME NEW w \in Offered, AddDuplicate(w)
      PROVE  TrieTypeOK'
  <2>1. w \in Path
    BY TrieAssumption DEF Path
  <2>2. nodes' = nodes \cup Prefixes(w)
    BY <1>2 DEF AddDuplicate, MakePath
  <2>3. nodes' \subseteq Path
    BY <2>1, <2>2, PrefixesOfWord
  <2>4. failure' \in [nodes' -> nodes' \cup {NoNode}]
    BY <1>2, <2>2 DEF AddDuplicate, MakePath
  <2>5. matched' \in [nodes' -> SUBSET words']
    BY <1>2, <2>2 DEF AddDuplicate, MatchedAt
  <2> QED
    BY <1>2, <2>2, <2>3, <2>4, <2>5 DEF AddDuplicate, Status
<1>3. ASSUME NEW w \in Offered, AddNew(w)
      PROVE  TrieTypeOK'
  <2>1. w \in Path
    BY TrieAssumption DEF Path
  <2>2. nodes' = nodes \cup Prefixes(w)
    BY <1>3 DEF AddNew, MakePath
  <2>3. nodes' \subseteq Path /\ w \in nodes'
    BY <2>1, <2>2, PrefixesOfWord
  <2>4. matched' \in [nodes' -> SUBSET words']
    BY <1>3, <2>1, <2>2, PrefixesOfWord DEF AddNew, MatchedAt
  <2>5. failure' \in [nodes' -> nodes' \cup {NoNode}]
    BY <1>3, <2>2 DEF AddNew, MakePath
  <2> QED
    BY <1>3, <2>2, <2>3, <2>4, <2>5 DEF AddNew, MadeFinal, Status
<1>4. ASSUME FinalizeBegin
      PROVE  TrieTypeOK'
  BY <1>4 DEF FinalizeBegin
<1>5. ASSUME NEW n \in nodes, SetFailure(n)
      PROVE  TrieTypeOK'
  <2>1. phase = "set_failure" /\ Visits(n)
    BY <1>5 DEF SetFailure, Descends
  <2>2. Written(n) \in Path /\ PrefixOf(n) = n
    BY <2>1, PrefixIsPath
  <2>3. FailureOf(n) \in nodes \cup {NoNode}
    BY <2>2, FailureOfIsNode
  <2> QED
    BY <1>5, <2>2, <2>3 DEF SetFailure
<1>6. ASSUME NEW n \in nodes, CollectBegin(n)
      PROVE  TrieTypeOK'
  BY <1>6 DEF CollectBegin
<1>7. ASSUME SetFailureEnd
      PROVE  TrieTypeOK'
  BY <1>7 DEF SetFailureEnd, Path
<1>8. ASSUME CollectStep
      PROVE  TrieTypeOK'
  <2>1. walk \in nodes
    BY <1>8 DEF CollectStep
  <2>2. matched' \in [nodes -> SUBSET words]
    BY <1>8, <2>1 DEF CollectStep
  <2>3. walk' \in nodes \cup {NoNode} /\ final' \subseteq nodes
    BY <1>8, <2>1 DEF CollectStep, NextWalk
  <2> QED
    BY <1>8, <2>2, <2>3 DEF CollectStep
<1>9. ASSUME CollectEnd
      PROVE  TrieTypeOK'
  BY <1>9 DEF CollectEnd
<1>10. ASSUME FinalizeEnd
       PROVE  TrieTypeOK'
  BY <1>10 DEF FinalizeEnd
<1>11. CASE UNCHANGED trieVars
  BY <1>11 DEF trieVars
<1> QED
  BY <1>1, <1>2, <1>3, <1>4, <1>5, <1>6, <1>7, <1>8, <1>9, <1>10, <1>11
     DEF TrieNext, FinalizeStep, Add

------------------------------------------------------------------------------
(***************************************************************************)
(* The inductive invariant.  Each part says what is true of one variable   *)
(* in every phase of ac_trie_finalize, the first one and those of a trie   *)
(* that is closed already.                                                 *)
(***************************************************************************)

(* The accepted words that end where the path of n ends *)
Tails(n) == {w \in words : IsTail(w, n)}

(* A trie to which words may be added has no failure links; a traversal    *)
(* gives its nodes the right ones, and they stay right.                    *)
FailureInv ==
  /\ failure[Root] = NoNode
  /\ \A n \in nodes \ {Root} :
       IF failure[n] = NoNode
         THEN trie_open /\ (phase = "idle" \/ (phase = "set_failure" /\ n \in todo))
         ELSE IsFailureOf(failure[n], n) /\ ~(trie_open /\ phase = "idle")

WordsInv ==
  /\ \A w \in words : Len(w) \in 1..MaxLength
  /\ nodes = {Root} \cup UNION {Prefixes(w) : w \in words}

(* A node matches its own word and otherwise only tails of its path: none  *)
(* before node_collect_matches reaches it, all when that is done.          *)
MatchedInv ==
  /\ \A n \in nodes :
       /\ n \in words => n \in matched[n]
       /\ matched[n] \subseteq Tails(n)
       /\ n \in final <=> matched[n] # {}
  /\ (trie_open /\ phase \in {"idle", "set_failure"})
       => \A n \in nodes : matched[n] \subseteq {n}
  /\ ~trie_open => \A n \in nodes : matched[n] = Tails(n)
  /\ phase \in {"collect", "walk"}
       => \A n \in nodes \ todo : matched[n] = Tails(n)

(* The walk along the failure links of nod has gathered every word that is *)
(* longer than the node it has come to.                                    *)
WalkInv ==
  phase = "walk" =>
    /\ nod \in todo
    /\ walk = NoNode => Tails(nod) \subseteq matched[nod]
    /\ walk # NoNode =>
         /\ IsProperTail(walk, nod)
         /\ \A w \in Tails(nod) : Len(w) > Len(walk) => w \in matched[nod]

TrieInv ==
  /\ TrieTypeOK
  /\ WordsInv
  /\ PrefixInv
  /\ FailureInv
  /\ MatchedInv
  /\ WalkInv

------------------------------------------------------------------------------
(* Facts about paths and failure nodes *)

(* The nodes on the way to a node are nodes.                               *)
LEMMA NodesAreClosed ==
  ASSUME TrieTypeOK, WordsInv, NEW n \in nodes, NEW k \in 0..Len(n)
  PROVE  SubSeq(n, 1, k) \in nodes
<1>1. n \in Seq(Alphabet)
  BY DEF TrieTypeOK, Path
<1>2. CASE n = Root
  <2>1. SubSeq(n, 1, k) = Root
    BY <1>2 DEF Root
  <2> QED
    BY <1>2, <2>1
<1>3. CASE n # Root
  <2>1. PICK w \in words : n \in Prefixes(w)
    BY <1>3 DEF WordsInv
  <2>2. w \in Seq(Alphabet)
    BY DEF TrieTypeOK, Path
  <2>3. PICK l \in 0..Len(w) : n = SubSeq(w, 1, l)
    BY <2>1 DEF Prefixes
  <2>4. k \in 0..Len(w)
    BY <2>2, <2>3
  <2>5. SubSeq(n, 1, k) = SubSeq(w, 1, k)
    BY <2>2, <2>3, <2>4
  <2>6. SubSeq(w, 1, k) \in Prefixes(w)
    BY <2>4 DEF Prefixes
  <2>7. Prefixes(w) \subseteq nodes
    BY DEF WordsInv
  <2> QED
    BY <2>5, <2>6, <2>7
<1> QED
  BY <1>2, <1>3

(* The loop of ac_trie_set_failure would find every tail that is a node    *)
(* and not the root.                                                       *)
LEMMA TailIsReached ==
  ASSUME TrieTypeOK, WordsInv, NEW n \in nodes, NEW m \in nodes,
         IsProperTail(m, n), Len(m) # 0
  PROVE  Len(n) - Len(m) \in Drops(n)
<1>1. n \in Seq(Alphabet) /\ m \in Seq(Alphabet)
  BY DEF TrieTypeOK, Path
<1>2. m = SubSeq(n, (Len(n) - Len(m)) + 1, Len(n))
  BY <1>1, TailIsDrop DEF IsProperTail
<1>3. \A k \in 1..Len(m) : SubSeq(m, 1, k) \in nodes
  BY <1>1, NodesAreClosed
<1>4. Reaches(m)
  BY <1>3 DEF Reaches
<1>5. Len(n) - Len(m) \in 1..(Len(n) - 1)
  BY <1>1 DEF IsProperTail
<1> QED
  BY <1>2, <1>4, <1>5 DEF Drops

(* The longest proper tail that is a node is unique.                       *)
LEMMA FailureIsUnique ==
  ASSUME TrieTypeOK, NEW n \in nodes, NEW f, NEW g,
         IsFailureOf(f, n), IsFailureOf(g, n)
  PROVE  f = g
<1>1. n \in Seq(Alphabet) /\ f \in Seq(Alphabet) /\ g \in Seq(Alphabet)
  BY DEF TrieTypeOK, Path, IsFailureOf
<1>2. IsTail(f, n) /\ IsTail(g, n)
  BY DEF IsFailureOf, IsProperTail
<1>3. Len(f) <= Len(g) /\ Len(g) <= Len(f)
  BY DEF IsFailureOf
<1>4. Len(f) = Len(g)
  BY <1>1, <1>3
<1> QED
  BY <1>1, <1>2, <1>4, TailsSameLength

(* ac_trie_set_failure finds it, in a new trie and in a closed one.        *)
LEMMA FailureOfIsLongest ==
  ASSUME TrieTypeOK, WordsInv, FailureInv, NEW n \in nodes \ {Root},
         PrefixOf(n) = n
  PROVE  IsFailureOf(FailureOf(n), n)
<1>1. n \in Seq(Alphabet) /\ n # << >>
  BY DEF TrieTypeOK, Path, Root
<1>2. CASE Drops(n) # {}
  <2>1. Dropped(n) \in Drops(n) /\ \A d \in Drops(n) : Dropped(n) <= d
    BY <1>2, DroppedIsLeast
  <2>2. Dropped(n) \in 1..(Len(n) - 1) /\ FailureOf(n) \in nodes
    BY <1>2, <2>1, DroppedIsNode DEF FailureOf
  <2>3. FailureOf(n) = SubSeq(n, Dropped(n) + 1, Len(n))
    BY <1>2 DEF FailureOf
  <2>4. Dropped(n) \in 0..Len(n)
    BY <1>1, <2>2
  <2>5. Len(FailureOf(n)) = Len(n) - Dropped(n) /\ IsTail(FailureOf(n), n)
    BY <1>1, <2>3, <2>4, DropIsTail
  <2>6. IsProperTail(FailureOf(n), n)
    BY <1>1, <2>2, <2>5 DEF IsProperTail
  <2>7. ASSUME NEW m \in nodes, IsProperTail(m, n)
        PROVE  Len(m) <= Len(FailureOf(n))
    <3>1. m \in Seq(Alphabet)
      BY DEF TrieTypeOK, Path
    <3>2. CASE Len(m) = 0
      BY <1>1, <2>2, <2>5, <3>2
    <3>3. CASE Len(m) # 0
      <4>1. Dropped(n) <= Len(n) - Len(m)
        BY <2>1, <2>7, <3>3, TailIsReached
      <4> QED
        BY <1>1, <2>2, <2>5, <3>1, <4>1
    <3> QED
      BY <3>2, <3>3
  <2> QED
    BY <2>2, <2>6, <2>7 DEF IsFailureOf
<1>3. CASE Drops(n) = {} /\ failure[n] = NoNode
  <2>1. FailureOf(n) = Root
    BY <1>3 DEF FailureOf
  <2>2. Len(Root) = 0 /\ IsTail(Root, n) /\ Len(n) > 0
    BY <1>1, TailReflexive DEF Root
  <2>3. IsProperTail(Root, n)
    BY <2>2 DEF IsProperTail
  <2>4. ASSUME NEW m \in nodes, IsProperTail(m, n)
        PROVE  Len(m) <= Len(Root)
    BY <1>3, <2>2, <2>4, TailIsReached
  <2>5. Root \in nodes
    BY DEF TrieTypeOK
  <2> QED
    BY <2>1, <2>3, <2>4, <2>5 DEF IsFailureOf
<1>4. CASE Drops(n) = {} /\ failure[n] # NoNode
  BY <1>4 DEF FailureOf, FailureInv
<1> QED
  BY <1>2, <1>3, <1>4

------------------------------------------------------------------------------
(* The steps preserve the invariant *)

LEMMA TrieInvInit == TrieInit => TrieInv
<1> SUFFICES ASSUME TrieInit
             PROVE  TrieInv
  OBVIOUS
<1>1. TrieTypeOK
  BY TrieTypeInit
<1>2. WordsInv
  BY Zenon DEF TrieInit, WordsInv
<1>3. FailureInv
  BY DEF TrieInit, FailureInv
<1>4. MatchedInv
  BY DEF TrieInit, MatchedInv
<1>5. WalkInv /\ PrefixInv
  BY DEF TrieInit, WalkInv, PrefixInv
<1> QED
  BY <1>1, <1>2, <1>3, <1>4, <1>5 DEF TrieInv

(* While words are added, a final node is the node of an accepted word.    *)
LEMMA OpenFinal ==
  ASSUME TrieInv, trie_open, phase = "idle"
  PROVE  final = words
<1>1. ASSUME NEW n \in final
      PROVE  n \in words
  <2>1. n \in nodes /\ matched[n] # {} /\ matched[n] \subseteq {n}
    BY DEF TrieInv, TrieTypeOK, MatchedInv
  <2>2. matched[n] \subseteq words
    BY <2>1 DEF TrieInv, TrieTypeOK
  <2> QED
    BY <2>1, <2>2
<1>2. ASSUME NEW n \in words
      PROVE  n \in final
  BY DEF TrieInv, TrieTypeOK, MatchedInv
<1> QED
  BY <1>1, <1>2

LEMMA AddDuplicateKeeps ==
  ASSUME TrieInv, NEW w \in Offered, AddDuplicate(w)
  PROVE  /\ UNCHANGED <<nodes, words, final, trie_open, phase, todo, nod, walk>>
         /\ \A n \in nodes : matched'[n] = matched[n] /\ failure'[n] = failure[n]
<1>1. w \in words
  BY OpenFinal DEF AddDuplicate, Acceptable
<1>2. Prefixes(w) \subseteq nodes
  BY <1>1 DEF TrieInv, WordsInv
<1>3. nodes' = nodes
  BY <1>2 DEF AddDuplicate, MakePath
<1>4. \A n \in nodes : matched'[n] = matched[n] /\ failure'[n] = failure[n]
  BY <1>3 DEF AddDuplicate, MakePath, MatchedAt
<1> QED
  BY <1>3, <1>4 DEF AddDuplicate

LEMMA AddNewWords ==
  ASSUME TrieInv, NEW w \in Offered, AddNew(w)
  PROVE  WordsInv'
<1>1. nodes' = nodes \cup Prefixes(w) /\ words' = words \cup {w}
  BY DEF AddNew, MakePath
<1>2. Len(w) \in 1..MaxLength
  BY DEF AddNew, Acceptable
<1>3. UNION {Prefixes(v) : v \in words'}
        = Prefixes(w) \cup UNION {Prefixes(v) : v \in words}
  BY <1>1
<1>4. nodes = {Root} \cup UNION {Prefixes(v) : v \in words}
  BY DEF TrieInv, WordsInv
<1>5. nodes' = {Root} \cup UNION {Prefixes(v) : v \in words'}
  BY <1>1, <1>3, <1>4
<1>6. \A v \in words' : Len(v) \in 1..MaxLength
  BY <1>1, <1>2 DEF TrieInv, WordsInv
<1> QED
  BY <1>5, <1>6 DEF WordsInv

LEMMA AddNewFailure ==
  ASSUME TrieInv, NEW w \in Offered, AddNew(w)
  PROVE  FailureInv'
<1>1. trie_open /\ phase = "idle" /\ trie_open' /\ phase' = "idle"
  BY DEF AddNew, Acceptable
<1>2. \A n \in nodes : failure[n] = NoNode
  BY <1>1 DEF TrieInv, FailureInv
<1>3. failure' = [n \in nodes' |-> IF n \in nodes THEN failure[n] ELSE NoNode]
  BY DEF AddNew, MakePath
<1>4. \A n \in nodes' : failure'[n] = NoNode
  BY <1>2, <1>3
<1>5. Root \in nodes'
  BY DEF TrieInv, TrieTypeOK, AddNew, MakePath
<1> QED
  BY <1>1, <1>4, <1>5 DEF FailureInv

LEMMA AddNewMatched ==
  ASSUME TrieInv, NEW w \in Offered, AddNew(w)
  PROVE  MatchedInv'
<1>1. /\ nodes' = nodes \cup Prefixes(w) /\ words' = words \cup {w}
      /\ final' = final \cup {w}
  BY DEF AddNew, MakePath, MadeFinal
<1>2. trie_open /\ phase = "idle" /\ trie_open' /\ phase' = "idle"
  BY DEF AddNew, Acceptable
<1>3. w \in Path /\ w \in Prefixes(w)
  BY TrieAssumption, PrefixesOfWord DEF Path
<1>4. ASSUME NEW n \in nodes'
      PROVE  matched'[n] = MatchedAt(n) \cup (IF n = w THEN {w} ELSE {})
  BY DEF AddNew
<1>5. ASSUME NEW n \in nodes'
      PROVE  MatchedAt(n) = IF n \in words THEN {n} ELSE {}
  <2>1. CASE n \in nodes
    <3>1. n \in words => n \in matched[n]
      BY <2>1 DEF TrieInv, MatchedInv
    <3>2. matched[n] \subseteq {n} /\ matched[n] \subseteq words
      BY <1>2, <2>1 DEF TrieInv, TrieTypeOK, MatchedInv
    <3> QED
      BY <2>1, <3>1, <3>2 DEF MatchedAt
  <2>2. CASE n \notin nodes
    BY <2>2 DEF MatchedAt, TrieInv, TrieTypeOK
  <2> QED
    BY <2>1, <2>2
<1>6. \A n \in nodes' : matched'[n] = IF n \in words' THEN {n} ELSE {}
  BY <1>1, <1>4, <1>5
<1>7. final' = words'
  BY <1>1, <1>2, OpenFinal
<1>8. ASSUME NEW n \in nodes', n \in words'
      PROVE  n \in Tails(n)'
  <2>1. n \in Seq(Alphabet)
    BY <1>1, <1>3, <1>8 DEF TrieInv, TrieTypeOK, Path
  <2>2. IsTail(n, n)
    BY <2>1, TailReflexive
  <2> QED
    BY <1>8, <2>2 DEF Tails
<1> QED
  BY <1>2, <1>6, <1>7, <1>8 DEF MatchedInv

LEMMA AddStep ==
  ASSUME TrieInv, NEW w \in Offered, Add(w), TrieTypeOK', PrefixInv'
  PROVE  TrieInv'
<1>1. CASE AddRefused(w)
  BY <1>1 DEF AddRefused, TrieInv, WordsInv, FailureInv, MatchedInv, WalkInv,
              Tails, IsFailureOf
<1>2. CASE AddDuplicate(w)
  <2>1. /\ UNCHANGED <<nodes, words, final, trie_open, phase, todo, nod, walk>>
        /\ \A n \in nodes : matched'[n] = matched[n] /\ failure'[n] = failure[n]
        /\ phase = "idle"
    BY <1>2, AddDuplicateKeeps DEF AddDuplicate, Acceptable
  <2>2. Root \in nodes
    BY DEF TrieInv, TrieTypeOK
  <2>3. WordsInv' /\ WalkInv'
    BY <2>1 DEF TrieInv, WordsInv, WalkInv
  <2>4. FailureInv'
    BY <2>1, <2>2 DEF TrieInv, FailureInv, IsFailureOf
  <2>5. MatchedInv'
    BY <2>1 DEF TrieInv, MatchedInv, Tails
  <2> QED
    BY <2>3, <2>4, <2>5 DEF TrieInv
<1>3. CASE AddNew(w)
  <2>1. WalkInv'
    BY <1>3 DEF AddNew, Acceptable, WalkInv
  <2> QED
    BY <1>3, <2>1, AddNewWords, AddNewFailure, AddNewMatched DEF TrieInv
<1> QED
  BY <1>1, <1>2, <1>3 DEF Add

(* What is the same before and after a step of ac_trie_finalize            *)
LEMMA FinalizeKeepsWords ==
  ASSUME TrieInv, UNCHANGED <<nodes, words>>
  PROVE  /\ WordsInv'
         /\ \A n : Tails(n)' = Tails(n)
         /\ \A f, n : IsFailureOf(f, n)' <=> IsFailureOf(f, n)
BY DEF TrieInv, WordsInv, Tails, IsFailureOf

LEMMA SetFailureStep ==
  ASSUME TrieInv, NEW n \in nodes, SetFailure(n)
  PROVE  FailureInv' /\ (~trie_open => failure' = failure)
<1>1. /\ phase = "set_failure" /\ phase' = "set_failure" /\ n \in todo
      /\ UNCHANGED <<nodes, words, trie_open>>
      /\ todo' = todo \ {n}
      /\ failure' = [failure EXCEPT ![n] = FailureOf(n)]
  BY DEF SetFailure, Descends, Visits
<1>2. failure \in [nodes -> nodes \cup {NoNode}] /\ NoNode \notin nodes
  BY TrieAssumption DEF TrieInv, TrieTypeOK, Path
<1>3. failure'[n] = FailureOf(n) /\ \A m \in nodes \ {n} : failure'[m] = failure[m]
  BY <1>1, <1>2
<1>4. n = Root => FailureOf(n) = NoNode
  BY DEF FailureOf, TrieInv, FailureInv
<1>5. n # Root => IsFailureOf(FailureOf(n), n)
  <2>1. Visits(n)
    BY DEF SetFailure, Descends
  <2>2. PrefixOf(n) = n
    BY <1>1, <2>1, PrefixIsPath DEF TrieInv
  <2> QED
    BY <2>2, FailureOfIsLongest DEF TrieInv
<1>6. \A f, m : IsFailureOf(f, m)' <=> IsFailureOf(f, m)
  BY <1>1, FinalizeKeepsWords
<1>7. ~trie_open => FailureOf(n) = failure[n]
  <2>1. CASE n = Root
    BY <2>1, <1>4 DEF TrieInv, FailureInv
  <2>2. CASE n # Root
    <3>1. ~trie_open => IsFailureOf(failure[n], n)
      BY <2>2 DEF TrieInv, FailureInv
    <3> QED
      BY <2>2, <3>1, <1>5, FailureIsUnique DEF TrieInv
  <2> QED
    BY <2>1, <2>2
<1>8. ~trie_open => failure' = failure
  BY <1>1, <1>2, <1>7
<1>9. failure'[Root] = NoNode
  BY <1>3, <1>4 DEF TrieInv, TrieTypeOK, FailureInv
<1>10. ASSUME NEW m \in nodes \ {Root}
       PROVE  IF failure'[m] = NoNode
                THEN trie_open /\ m \in todo'
                ELSE IsFailureOf(failure'[m], m)
  <2>1. CASE m = n
    <3>1. failure'[m] \in nodes /\ IsFailureOf(failure'[m], m)
      BY <2>1, <1>3, <1>5 DEF IsFailureOf
    <3> QED
      BY <3>1, <1>2
  <2>2. CASE m # n
    <3>1. failure'[m] = failure[m]
      BY <2>2, <1>3
    <3>2. IF failure[m] = NoNode
            THEN trie_open /\ m \in todo
            ELSE IsFailureOf(failure[m], m)
      BY <1>1 DEF TrieInv, FailureInv
    <3> QED
      BY <2>2, <3>1, <3>2, <1>1
  <2> QED
    BY <2>1, <2>2
<1> QED
  BY <1>1, <1>6, <1>8, <1>9, <1>10 DEF FailureInv

(* node_collect_matches starts: what is longer than the failure node is    *)
(* the node's own word, which it has.                                      *)
LEMMA CollectBeginStep ==
  ASSUME TrieInv, NEW n \in nodes, CollectBegin(n)
  PROVE  WalkInv'
<1>1. /\ phase = "collect" /\ phase' = "walk" /\ n \in todo /\ nod' = n
      /\ walk' = failure[n]
      /\ UNCHANGED <<nodes, words, matched, todo>>
  BY DEF CollectBegin, Visits
<1>2. Tails(n)' = Tails(n)
  BY <1>1, FinalizeKeepsWords
<1>3. CASE n = Root
  <2>1. walk' = NoNode
    BY <1>1, <1>3 DEF TrieInv, FailureInv
  <2>2. \A w \in words : Len(w) > 0
    BY DEF TrieInv, WordsInv
  <2>3. \A w \in words : ~IsTail(w, Root)
    BY <2>2 DEF IsTail, EndsAt, Root
  <2>4. Tails(n) = {}
    BY <1>3, <2>3 DEF Tails
  <2> QED
    BY <1>1, <1>2, <2>1, <2>4 DEF WalkInv
<1>4. CASE n # Root
  <2>1. IsFailureOf(failure[n], n)
    BY <1>1, <1>4 DEF TrieInv, FailureInv
  <2>2. failure[n] # NoNode
    BY <2>1, TrieAssumption DEF IsFailureOf, TrieInv, TrieTypeOK, Path
  <2>3. ASSUME NEW w \in Tails(n), Len(w) > Len(failure[n])
        PROVE  w \in matched[n]
    <3>1. w \in nodes /\ w \in words /\ IsTail(w, n)
      BY DEF Tails, TrieInv, TrieTypeOK
    <3>2. n \in Seq(Alphabet) /\ w \in Seq(Alphabet) /\ failure[n] \in Seq(Alphabet)
      BY <3>1, <2>1 DEF TrieInv, TrieTypeOK, Path, IsFailureOf
    <3>3. ~IsProperTail(w, n)
      BY <3>1, <3>2, <2>1, <2>3 DEF IsFailureOf
    <3>4. Len(w) = Len(n)
      BY <3>1, <3>2, <3>3 DEF IsProperTail, IsTail, EndsAt
    <3>5. w = n
      BY <3>1, <3>2, <3>4, TailReflexive, TailsSameLength
    <3> QED
      BY <3>1, <3>5 DEF TrieInv, MatchedInv
  <2> QED
    BY <1>1, <1>2, <2>1, <2>2, <2>3 DEF WalkInv, IsFailureOf
<1> QED
  BY <1>3, <1>4

(* One turn of node_collect_matches: what is longer than the next failure  *)
(* node and not longer than this one is this one's own word.               *)
LEMMA CollectStepWalk ==
  ASSUME TrieInv, CollectStep
  PROVE  WalkInv'
<1>1. /\ phase = "walk" /\ phase' = "walk" /\ walk \in nodes
      /\ nod \in nodes /\ nod \in todo /\ nod' = nod /\ todo' = todo
      /\ UNCHANGED <<nodes, words>>
      /\ IsProperTail(walk, nod)
      /\ walk' = failure[walk] /\ walk # NoNode
  BY DEF CollectStep, NextWalk, TrieInv, TrieTypeOK, WalkInv
<1>2. matched'[nod] = matched[nod] \cup matched[walk]
  BY <1>1 DEF CollectStep, TrieInv, TrieTypeOK
<1>3. Tails(nod)' = Tails(nod)
  BY <1>1, FinalizeKeepsWords
<1>4. nod \in Seq(Alphabet) /\ walk \in Seq(Alphabet)
  BY <1>1 DEF TrieInv, TrieTypeOK, Path
<1>5. ASSUME NEW w \in Tails(nod), walk # Root => Len(w) > Len(failure[walk])
      PROVE  w \in matched'[nod]
  <2>1. w \in words /\ w \in nodes /\ IsTail(w, nod) /\ w \in Seq(Alphabet) /\ Len(w) > 0
    BY DEF Tails, TrieInv, TrieTypeOK, WordsInv, Path
  <2>2. CASE Len(w) > Len(walk)
    BY <1>1, <1>2, <2>2 DEF TrieInv, WalkInv
  <2>3. CASE Len(w) <= Len(walk)
    <3>1. IsTail(w, walk)
      BY <1>1, <1>4, <2>1, <2>3, TailsOrdered DEF IsProperTail
    <3>2. walk # Root
      BY <2>1, <2>3 DEF Root
    <3>3. IsFailureOf(failure[walk], walk)
      BY <1>1, <3>2 DEF TrieInv, FailureInv
    <3>4. failure[walk] \in Seq(Alphabet)
      BY <3>3 DEF IsFailureOf, TrieInv, TrieTypeOK, Path
    <3>5. ~IsProperTail(w, walk)
      BY <1>5, <2>1, <3>2, <3>3, <3>4 DEF IsFailureOf
    <3>6. Len(w) = Len(walk)
      BY <1>4, <2>1, <2>3, <3>1, <3>5 DEF IsProperTail
    <3>7. w = walk
      BY <1>4, <2>1, <3>1, <3>6, TailReflexive, TailsSameLength
    <3>8. w \in matched[walk]
      BY <1>1, <2>1, <3>7 DEF TrieInv, MatchedInv
    <3> QED
      BY <1>2, <3>8
  <2> QED
    BY <1>4, <2>1, <2>2, <2>3
<1>6. CASE walk = Root
  <2>1. walk' = NoNode
    BY <1>1, <1>6 DEF TrieInv, FailureInv
  <2> QED
    BY <1>1, <1>3, <1>5, <1>6, <2>1 DEF WalkInv
<1>7. CASE walk # Root
  <2>1. IsFailureOf(failure[walk], walk)
    BY <1>1, <1>7 DEF TrieInv, FailureInv
  <2>2. failure[walk] \in Seq(Alphabet) /\ failure[walk] # NoNode
    BY <2>1, TrieAssumption DEF IsFailureOf, TrieInv, TrieTypeOK, Path
  <2>3. IsTail(failure[walk], nod)
    BY <1>1, <1>4, <2>1, <2>2, TailTransitive DEF IsFailureOf, IsProperTail
  <2>4. IsProperTail(failure[walk], nod)
    BY <1>1, <1>4, <2>1, <2>2, <2>3 DEF IsFailureOf, IsProperTail
  <2> QED
    BY <1>1, <1>3, <1>5, <2>2, <2>4 DEF WalkInv
<1> QED
  BY <1>6, <1>7

(* ... and it gathers nothing but words that end there.                    *)
LEMMA CollectStepMatched ==
  ASSUME TrieInv, CollectStep
  PROVE  /\ MatchedInv'
         /\ ~trie_open => matched' = matched /\ final' = final
<1>1. /\ phase = "walk" /\ phase' = "walk" /\ walk \in nodes
      /\ nod \in nodes /\ nod \in todo /\ todo' = todo
      /\ UNCHANGED <<nodes, words, trie_open>>
      /\ IsProperTail(walk, nod)
  BY DEF CollectStep, TrieInv, TrieTypeOK, WalkInv
<1>2. /\ matched \in [nodes -> SUBSET words]
      /\ matched' = [matched EXCEPT ![nod] = @ \cup matched[walk]]
      /\ final' = IF walk \in final THEN final \cup {nod} ELSE final
  BY DEF CollectStep, TrieInv, TrieTypeOK
<1>3. /\ matched'[nod] = matched[nod] \cup matched[walk]
      /\ \A n \in nodes \ {nod} : matched'[n] = matched[n]
  BY <1>1, <1>2
<1>4. \A n : Tails(n)' = Tails(n)
  BY <1>1, FinalizeKeepsWords
<1>5. \A n \in nodes :
        /\ n \in words => n \in matched[n]
        /\ matched[n] \subseteq Tails(n)
        /\ n \in final <=> matched[n] # {}
  BY DEF TrieInv, MatchedInv
<1>6. matched[walk] \subseteq Tails(nod)
  <2>1. SUFFICES ASSUME NEW w \in matched[walk]
                 PROVE  w \in words /\ IsTail(w, nod)
    BY DEF Tails
  <2>2. w \in words /\ IsTail(w, walk)
    BY <1>1, <1>5 DEF Tails
  <2>3. w \in Seq(Alphabet) /\ walk \in Seq(Alphabet) /\ nod \in Seq(Alphabet)
    BY <1>1, <2>2 DEF TrieInv, TrieTypeOK, Path
  <2> QED
    BY <1>1, <2>2, <2>3, TailTransitive DEF IsProperTail
<1>7. \A n \in nodes :
        /\ n \in words => n \in matched'[n]
        /\ matched'[n] \subseteq Tails(n)
        /\ n \in final' <=> matched'[n] # {}
  <2>1. /\ nod \in words => nod \in matched'[nod]
        /\ matched'[nod] \subseteq Tails(nod)
    BY <1>1, <1>3, <1>5, <1>6
  <2>2. nod \in final' <=> matched'[nod] # {}
    BY <1>1, <1>2, <1>3, <1>5
  <2>3. \A n \in nodes \ {nod} : n \in final' <=> n \in final
    BY <1>2
  <2> QED
    BY <1>3, <1>5, <2>1, <2>2, <2>3
<1>8. ~trie_open => matched' = matched /\ final' = final
  <2>1. SUFFICES ASSUME ~trie_open
                 PROVE  matched' = matched /\ final' = final
    OBVIOUS
  <2>2. matched[nod] = Tails(nod)
    BY <1>1, <2>1 DEF TrieInv, MatchedInv
  <2>3. matched[nod] \cup matched[walk] = matched[nod]
    BY <1>6, <2>2
  <2>4. matched' = matched
    BY <1>1, <1>2, <2>3
  <2>5. walk \in final => nod \in final
    BY <1>1, <1>5, <2>3
  <2> QED
    BY <1>2, <2>4, <2>5
<1>9. \A n \in nodes \ todo : matched'[n] = Tails(n)
  BY <1>1, <1>3 DEF TrieInv, MatchedInv
<1>10. ~trie_open => \A n \in nodes : matched'[n] = Tails(n)
  BY <1>8 DEF TrieInv, MatchedInv
<1> QED
  BY <1>1, <1>4, <1>7, <1>8, <1>9, <1>10 DEF MatchedInv

(* The array holds the path to wherever the traversal may go next: it      *)
(* leaves n for a child of n, or for a node that is no deeper than n.      *)
LEMMA PrefixSetFailure ==
  ASSUME TrieInv, NEW n \in nodes, SetFailure(n)
  PROVE  PrefixInv'
<1>1. /\ phase = "set_failure" /\ n \in todo /\ Visits(n)
      /\ todo' = todo \ {n} /\ prefix' = Written(n)
      /\ \A m \in todo : Visits(m) => Len(m) <= Len(n)
  BY DEF SetFailure, Descends, Visits
<1>2. /\ Written(n) \in Path /\ Len(n) <= Len(Written(n)) /\ PrefixOf(n) = n
      /\ \A k \in Nat : k < Len(n) =>
           SubSeq(Written(n), 1, k) = SubSeq(prefix, 1, k)
  BY <1>1, PrefixIsPath DEF TrieInv
<1>3. n \in Path /\ Len(n) \in Nat /\ Len(Written(n)) \in Nat
  BY <1>2 DEF TrieInv, TrieTypeOK, Path
<1>4. ASSUME NEW m \in todo', m # Root, Front(m) \notin todo'
      PROVE  /\ Len(m) - 1 <= Len(prefix')
             /\ SubSeq(prefix', 1, Len(m) - 1) = Front(m)
  <2>1. m \in todo /\ m \in Path
    BY <1>1, <1>4 DEF TrieInv, TrieTypeOK
  <2>2. Len(m) \in Nat /\ Len(m) >= 1 /\ Len(Front(m)) = Len(m) - 1
    BY <2>1, <1>4, NodeHasParent
  <2>3. CASE Front(m) = n
    BY <1>1, <1>2, <2>2, <2>3 DEF PrefixOf
  <2>4. CASE Front(m) # n
    <3>1. Front(m) \notin todo
      BY <1>1, <1>4, <2>4
    <3>2. Len(m) <= Len(n)
      BY <1>1, <2>1, <3>1 DEF Visits
    <3>3. SubSeq(prefix, 1, Len(m) - 1) = Front(m)
      BY <1>1, <1>4, <2>1, <3>1 DEF TrieInv, PrefixInv
    <3>4. Len(m) - 1 \in Nat /\ Len(m) - 1 < Len(n)
      BY <1>3, <2>2, <3>2
    <3>5. SubSeq(Written(n), 1, Len(m) - 1) = Front(m)
      BY <1>2, <3>3, <3>4
    <3> QED
      BY <1>1, <1>2, <1>3, <3>4, <3>5
  <2> QED
    BY <2>3, <2>4
<1> QED
  BY <1>4 DEF PrefixInv

LEMMA PrefixStep ==
  ASSUME TrieInv, [TrieNext]_trieVars
  PROVE  PrefixInv'
<1>1. ASSUME NEW w \in Offered, Add(w)
      PROVE  PrefixInv'
  BY <1>1 DEF Add, AddRefused, AddDuplicate, AddNew, Acceptable, PrefixInv
<1>2. CASE FinalizeBegin
  <2>1. todo' = nodes
    BY <1>2 DEF FinalizeBegin
  <2>2. ASSUME NEW m \in nodes, m # Root
        PROVE  Front(m) \in nodes
    <3>1. m \in Path
      BY DEF TrieInv, TrieTypeOK
    <3>2. Len(m) \in Nat /\ Len(m) >= 1
      BY <2>2, <3>1, NodeHasParent
    <3>3. SubSeq(m, 1, Len(m) - 1) \in nodes
      BY <3>2, NodesAreClosed DEF TrieInv
    <3> QED
      BY <3>3 DEF Front
  <2> QED
    BY <2>1, <2>2 DEF PrefixInv
<1>3. ASSUME NEW n \in nodes, SetFailure(n)
      PROVE  PrefixInv'
  BY <1>3, PrefixSetFailure
<1>4. ASSUME NEW n \in nodes, CollectBegin(n)
      PROVE  PrefixInv'
  BY <1>4 DEF CollectBegin, PrefixInv
<1>5. CASE SetFailureEnd \/ CollectStep \/ CollectEnd \/ FinalizeEnd
  BY <1>5 DEF SetFailureEnd, CollectStep, CollectEnd, FinalizeEnd, PrefixInv
<1>6. CASE UNCHANGED trieVars
  BY <1>6 DEF trieVars, TrieInv, PrefixInv
<1> QED
  BY <1>1, <1>2, <1>3, <1>4, <1>5, <1>6 DEF TrieNext, FinalizeStep

LEMMA TrieInvStep ==
  ASSUME TrieInv, [TrieNext]_trieVars
  PROVE  TrieInv'
<1>1. TrieTypeOK' /\ PrefixInv'
  BY TrieTypeStep, PrefixStep DEF TrieInv
<1>2. ASSUME NEW w \in Offered, Add(w)
      PROVE  TrieInv'
  BY <1>1, <1>2, AddStep
<1>3. CASE UNCHANGED trieVars
  BY <1>1, <1>3 DEF trieVars, TrieInv, WordsInv, FailureInv, MatchedInv,
              WalkInv, Tails, IsFailureOf
<1>4. CASE FinalizeBegin
  <2>1. /\ phase = "idle" /\ phase' = "set_failure" /\ todo' = nodes
        /\ UNCHANGED <<nodes, words, final, matched, failure, trie_open>>
    BY <1>4 DEF FinalizeBegin
  <2>2. FailureInv'
    BY <2>1, FinalizeKeepsWords DEF TrieInv, FailureInv
  <2>3. MatchedInv' /\ WalkInv'
    BY <2>1, FinalizeKeepsWords DEF TrieInv, MatchedInv, WalkInv
  <2> QED
    BY <1>1, <2>1, <2>2, <2>3, FinalizeKeepsWords DEF TrieInv
<1>5. ASSUME NEW n \in nodes, SetFailure(n)
      PROVE  TrieInv'
  <2>1. /\ phase = "set_failure" /\ phase' = "set_failure"
        /\ UNCHANGED <<nodes, words, final, matched, trie_open>>
    BY <1>5 DEF SetFailure
  <2>2. MatchedInv' /\ WalkInv'
    BY <2>1, FinalizeKeepsWords DEF TrieInv, MatchedInv, WalkInv
  <2> QED
    BY <1>1, <1>5, <2>1, <2>2, SetFailureStep, FinalizeKeepsWords DEF TrieInv
<1>6. CASE SetFailureEnd
  <2>1. /\ phase = "set_failure" /\ phase' = "collect" /\ todo = {} /\ todo' = nodes
        /\ UNCHANGED <<nodes, words, final, matched, failure, trie_open>>
    BY <1>6 DEF SetFailureEnd
  <2>2. FailureInv'
    BY <2>1, FinalizeKeepsWords DEF TrieInv, FailureInv
  <2>3. MatchedInv' /\ WalkInv'
    BY <2>1, FinalizeKeepsWords DEF TrieInv, MatchedInv, WalkInv
  <2> QED
    BY <1>1, <2>1, <2>2, <2>3, FinalizeKeepsWords DEF TrieInv
<1>7. ASSUME NEW n \in nodes, CollectBegin(n)
      PROVE  TrieInv'
  <2>1. /\ phase = "collect" /\ phase' = "walk" /\ todo' = todo
        /\ UNCHANGED <<nodes, words, final, matched, failure, trie_open>>
    BY <1>7 DEF CollectBegin
  <2>2. FailureInv'
    BY <2>1, FinalizeKeepsWords DEF TrieInv, FailureInv
  <2>3. MatchedInv'
    BY <2>1, FinalizeKeepsWords DEF TrieInv, MatchedInv
  <2> QED
    BY <1>1, <1>7, <2>1, <2>2, <2>3, CollectBeginStep, FinalizeKeepsWords
       DEF TrieInv
<1>8. CASE CollectStep
  <2>1. phase' = phase /\ todo' = todo /\ UNCHANGED <<nodes, words, failure, trie_open>>
    BY <1>8 DEF CollectStep
  <2>2. FailureInv'
    BY <2>1, FinalizeKeepsWords DEF TrieInv, FailureInv
  <2> QED
    BY <1>1, <1>8, <2>1, <2>2, CollectStepWalk, CollectStepMatched,
       FinalizeKeepsWords DEF TrieInv
<1>9. CASE CollectEnd
  <2>1. /\ phase = "walk" /\ walk = NoNode /\ phase' = "collect"
        /\ todo' = todo \ {nod} /\ nod \in nodes
        /\ UNCHANGED <<nodes, words, final, matched, failure, trie_open>>
    BY <1>9 DEF CollectEnd, TrieInv, TrieTypeOK
  <2>2. FailureInv' /\ WalkInv'
    BY <2>1, FinalizeKeepsWords DEF TrieInv, FailureInv, WalkInv
  <2>3. matched[nod] = Tails(nod)
    BY <2>1 DEF TrieInv, WalkInv, MatchedInv
  <2>4. \A n \in nodes \ todo' : matched[n] = Tails(n)
    BY <2>1, <2>3 DEF TrieInv, MatchedInv
  <2>5. MatchedInv'
    BY <2>1, <2>4, FinalizeKeepsWords DEF TrieInv, MatchedInv
  <2> QED
    BY <1>1, <2>1, <2>2, <2>5, FinalizeKeepsWords DEF TrieInv
<1>10. CASE FinalizeEnd
  <2>1. /\ phase = "collect" /\ phase' = "idle" /\ todo = {} /\ ~trie_open'
        /\ UNCHANGED <<nodes, words, final, matched, failure>>
    BY <1>10 DEF FinalizeEnd
  <2>2. FailureInv'
    BY <2>1, FinalizeKeepsWords DEF TrieInv, FailureInv
  <2>3. MatchedInv' /\ WalkInv'
    BY <2>1, FinalizeKeepsWords DEF TrieInv, MatchedInv, WalkInv
  <2> QED
    BY <1>1, <2>1, <2>2, <2>3, FinalizeKeepsWords DEF TrieInv
<1> QED
  BY <1>2, <1>3, <1>4, <1>5, <1>6, <1>7, <1>8, <1>9, <1>10
     DEF TrieNext, FinalizeStep

(* TrieInv holds in every state of the trie.                               *)
LEMMA TrieInvariant == TrieSpec => []TrieInv
<1> QED
  BY TrieInvInit, TrieInvStep, PTL DEF TrieSpec

(* TrieTypeOK holds in every state of the trie.                            *)
THEOREM TrieTypeCorrect == TrieSpec => []TrieTypeOK
<1>1. TrieInv => TrieTypeOK
  BY DEF TrieInv
<1> QED
  BY <1>1, TrieInvariant, PTL

------------------------------------------------------------------------------
(* The nodes of the trie are the prefixes of the accepted words, whatever  *)
(* ac_trie_add has refused.                                                *)
THEOREM NodesCorrect == TrieSpec => []NodesArePrefixes
<1>1. TrieInv => NodesArePrefixes
  <2> SUFFICES ASSUME TrieInv
               PROVE  NodesArePrefixes
    OBVIOUS
  <2>1. ASSUME NEW n \in nodes
        PROVE  Len(n) <= MaxLength
    <3>1. CASE n = Root
      BY <3>1, TrieAssumption DEF Root
    <3>2. CASE n # Root
      <4>1. PICK w \in words : n \in Prefixes(w)
        BY <3>2 DEF TrieInv, WordsInv
      <4>2. PICK l \in 0..Len(w) : n = SubSeq(w, 1, l)
        BY <4>1 DEF Prefixes
      <4>3. w \in Seq(Alphabet) /\ Len(w) <= MaxLength
        BY DEF TrieInv, TrieTypeOK, WordsInv, Path
      <4>4. Len(n) = l
        BY <4>2, <4>3
      <4> QED
        BY <4>3, <4>4, TrieAssumption
    <3> QED
      BY <3>1, <3>2
  <2> QED
    BY <2>1 DEF NodesArePrefixes, TrieInv, WordsInv
<1> QED
  BY <1>1, TrieInvariant, PTL

(* Whatever the words, the failure link of every node of a closed trie is  *)
(* the longest proper tail of its path that is a node.                     *)
THEOREM FailureCorrect == TrieSpec => []FailureIsLongestTail
<1>1. TrieInv => FailureIsLongestTail
  BY DEF TrieInv, FailureInv, FailureIsLongestTail
<1> QED
  BY <1>1, TrieInvariant, PTL

(* Whatever the words and the order of the traversal, a node of a closed   *)
(* trie matches exactly the accepted words that end there.                 *)
THEOREM MatchedCorrect == TrieSpec => []MatchedIsEveryTail
<1>1. TrieInv => MatchedIsEveryTail
  BY DEF TrieInv, MatchedInv, MatchedIsEveryTail, Tails
<1> QED
  BY <1>1, TrieInvariant, PTL

(* The test for duplicates of ac_trie_add is right.                        *)
THEOREM FinalCorrect == TrieSpec => []FinalMeansAccepted
<1>1. TrieInv => FinalMeansAccepted
  BY OpenFinal DEF FinalMeansAccepted
<1> QED
  BY <1>1, TrieInvariant, PTL

(* No step changes what a search reads of a closed trie.                   *)
LEMMA ClosedTrieStep ==
  ASSUME TrieInv, [TrieNext]_trieVars, ~trie_open
  PROVE  UNCHANGED <<nodes, words, final, matched, failure, trie_open>>
<1> DEFINE Same == UNCHANGED <<nodes, words, final, matched, failure, trie_open>>
<1>1. ASSUME NEW w \in Offered, Add(w)
      PROVE  Same
  BY <1>1 DEF Add, AddRefused, AddDuplicate, AddNew, Acceptable
<1>2. ASSUME NEW n \in nodes, SetFailure(n)
      PROVE  Same
  BY <1>2, SetFailureStep DEF SetFailure
<1>3. CASE CollectStep
  BY <1>3, CollectStepMatched DEF CollectStep
<1>4. ASSUME NEW n \in nodes, CollectBegin(n)
      PROVE  Same
  BY <1>4 DEF CollectBegin
<1>5. CASE FinalizeBegin \/ SetFailureEnd \/ CollectEnd \/ UNCHANGED trieVars
  BY <1>5 DEF FinalizeBegin, SetFailureEnd, CollectEnd, trieVars
<1>6. CASE FinalizeEnd
  BY <1>6 DEF FinalizeEnd, TrieInv, TrieTypeOK
<1> QED
  BY <1>1, <1>2, <1>3, <1>4, <1>5, <1>6 DEF TrieNext, FinalizeStep

(* A closed trie stays as it is, whatever is called.                       *)
THEOREM FrozenCorrect == TrieSpec => ClosedTrieIsFrozen
<1>1. TrieInv /\ [TrieNext]_trieVars
        => [~trie_open => UNCHANGED <<nodes, words, final, matched, failure,
                                      trie_open>>]_trieVars
  BY ClosedTrieStep
<1> QED
  BY <1>1, TrieInvariant, PTL DEF TrieSpec, ClosedTrieIsFrozen
==============================================================================
