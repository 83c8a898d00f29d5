-------------------------------- MODULE Trie ---------------------------------
(***************************************************************************)
(* The Aho-Corasick trie while it is built and finalized: ac_trie_create,  *)
(* ac_trie_add and ac_trie_finalize (ahocorasick.c) with the node          *)
(* operations they call (node.c).                                          *)
(*                                                                         *)
(* A node is identified with the path of alphabets that leads to it from   *)
(* the root: node_create_next never makes a second edge for an alphabet,   *)
(* so paths and nodes are one to one, and a node's depth is the length of  *)
(* its path.  The edge array of a node is the set of one-alphabet          *)
(* extensions of its path that are nodes; its order is not part of this    *)
(* model.  A pattern is identified with its text (ptext).                  *)
(*                                                                         *)
(* The two recursive traversals of ac_trie_finalize are split into one     *)
(* step per node (and, in node_collect_matches, one per failure link that  *)
(* is followed).  They visit a node before its children.  The first one    *)
(* goes depth first and hands one array down to every call, in which each  *)
(* call finds the path of its node and what other branches left behind;    *)
(* the order of the children, and that of the second traversal, which      *)
(* shares nothing, are left open.                                          *)
(***************************************************************************)
EXTENDS Words, SequencesExt

CONSTANTS
  Alphabet,   \* AC_ALPHABET_t
  MaxLength,  \* AC_PATTRN_MAX_LENGTH
  NoNode,     \* the null node pointer
  Offered     \* the words clients may pass to ac_trie_add

ASSUME TrieAssumption ==
  /\ Offered \subseteq Seq(Alphabet)
  /\ MaxLength \in Nat
  /\ NoNode \notin Seq(Alphabet)

VARIABLES
  nodes,      \* the nodes of the trie
  words,      \* the accepted patterns; patterns_count is their number
  final,      \* the nodes whose final flag is set
  matched,    \* node -> the patterns in its matched array
  failure,    \* node -> its failure_node
  trie_open,  \* patterns are still accepted
  status,     \* what the last ac_trie_add returned
  phase,      \* where ac_trie_finalize is; "idle" when it is not running
  todo,       \* the nodes its current traversal has not finished
  prefix,     \* the entries written so far of its local array
  nod, walk   \* the locals nod and n of node_collect_matches; the root and
              \* the null pointer when it does not run

trieVars == <<nodes, words, final, matched, failure, trie_open, status,
              phase, todo, prefix, nod, walk>>

Root == << >>

Path == Seq(Alphabet)

Status == {"SUCCESS", "DUPLICATE_PATTERN", "LONG_PATTERN", "ZERO_PATTERN",
           "TRIE_CLOSED"}

(* ac_trie_create *)
TrieInit ==
  /\ nodes = {Root}
  /\ words = {}
  /\ final = {}
  /\ matched = [n \in {Root} |-> {}]
  /\ failure = [n \in {Root} |-> NoNode]
  /\ trie_open = TRUE
  /\ status = "SUCCESS"
  /\ phase = "idle"
  /\ todo = {}
  /\ prefix = << >>
  /\ nod = Root
  /\ walk = NoNode

------------------------------------------------------------------------------
(* As AddRefused, but the path is made before the length is looked at.     *)
AddRefusedLate(w) ==
  /\ phase = "idle"
  /\ \/ ~trie_open /\ status' = "TRIE_CLOSED" /\ UNCHANGED <<nodes, failure>>
     \/ trie_open /\ Len(w) = 0 /\ status' = "ZERO_PATTERN"
        /\ UNCHANGED <<nodes, failure>>
     \/ /\ trie_open /\ Len(w) > MaxLength /\ status' = "LONG_PATTERN"
        /\ nodes' = nodes \cup Prefixes(w)
        /\ failure' = [n \in nodes' |->
                         IF n \in nodes THEN failure[n] ELSE NoNode]
  /\ matched' = [n \in nodes' |-> IF n \in nodes THEN matched[n] ELSE {}]
  /\ UNCHANGED <<words, final, trie_open, phase, todo, prefix, nod, walk>>

(* ac_trie_add: the three refusals that leave the trie as it is *)
AddRefused(w) ==
  /\ phase = "idle"
  /\ \/ ~trie_open /\ status' = "TRIE_CLOSED"
     \/ trie_open /\ Len(w) = 0 /\ status' = "ZERO_PATTERN"
     \/ trie_open /\ Len(w) > MaxLength /\ status' = "LONG_PATTERN"
  /\ UNCHANGED <<nodes, words, final, matched, failure, trie_open, phase,
                 todo, prefix, nod, walk>>

(* The loop over the alphabets: each missing node of the path is created,  *)
(* with no failure node and nothing matched.                               *)
MakePath(w) ==
  /\ nodes' = nodes \cup Prefixes(w)
  /\ failure' = [n \in nodes' |-> IF n \in nodes THEN failure[n] ELSE NoNode]

(* What a node of that path has matched so far *)
MatchedAt(n) == IF n \in nodes THEN matched[n] ELSE {}

(* As Acceptable, but a closed trie still accepts.                         *)
AcceptableClosed(w) == phase = "idle" /\ Len(w) \in 1..MaxLength

Acceptable(w) == phase = "idle" /\ trie_open /\ Len(w) \in 1..MaxLength

AddDuplicate(w) ==
  /\ Acceptable(w)
  /\ w \in final
  /\ MakePath(w)
  /\ matched' = [n \in nodes' |-> MatchedAt(n)]
  /\ status' = "DUPLICATE_PATTERN"
  /\ UNCHANGED <<words, final, trie_open, phase, todo, prefix, nod, walk>>

(* As MadeFinal, but the flag is set on every node of the path.            *)
MadeFinalAll(w) == Prefixes(w) \ {Root}

(* The node whose final flag is set *)
MadeFinal(w) == {w}

(* node_accept_pattern puts the pattern in the matched array of its node.  *)
AddNew(w) ==
  /\ Acceptable(w)
  /\ w \notin final
  /\ MakePath(w)
  /\ final' = final \cup MadeFinal(w)
  /\ words' = words \cup {w}
  /\ matched' = [n \in nodes' |->
                   MatchedAt(n) \cup (IF n = w THEN {w} ELSE {})]
  /\ status' = "SUCCESS"
  /\ UNCHANGED <<trie_open, phase, todo, prefix, nod, walk>>

Add(w) == AddRefused(w) \/ AddDuplicate(w) \/ AddNew(w)

------------------------------------------------------------------------------
(* Following node_find_next from the root along s never misses an edge.    *)
Reaches(s) == \A k \in 1..Len(s) : SubSeq(s, 1, k) \in nodes

(* As Drops, but the path itself is tried too.                             *)
DropsNone(n) == {i \in 0..(Len(n) - 1) : Reaches(SubSeq(n, i + 1, Len(n)))}

(* How many alphabets can be dropped from the front of a path so that the  *)
(* rest, not empty, is a path of the trie.                                 *)
Drops(n) == {i \in 1..(Len(n) - 1) : Reaches(SubSeq(n, i + 1, Len(n)))}

(* As Dropped, but one alphabet more.                                      *)
DroppedOneMore(n) == Min(Drops(n)) + 1

Dropped(n) == Min(Drops(n))

(* The traversal reaches n: its parent, if any, has been handled. *)
Visits(n) == n \in todo /\ (n # Root => Front(n) \notin todo)

(* Depth first: what is nearer to the root waits. *)
Descends(n) == Visits(n) /\ \A m \in todo : Visits(m) => Len(m) <= Len(n)

(* As Written, but an entry another branch has written stays.              *)
WrittenOnce(n) ==
  IF Len(n) <= Len(prefix) THEN prefix ELSE Append(prefix, Last(n))

(* The array when n is reached: the caller has written its last alphabet   *)
(* at its depth; deeper entries are what other branches left there.        *)
Written(n) ==
  IF n = Root THEN prefix
  ELSE IF Len(n) <= Len(prefix) THEN [prefix EXCEPT ![Len(n)] = Last(n)]
  ELSE Append(prefix, Last(n))

(* The entries ac_trie_set_failure reads of it *)
PrefixOf(n) == SubSeq(Written(n), 1, Len(n))

(* The node ac_trie_set_failure leaves in n->failure_node *)
FailureOf(n) ==
  LET p == PrefixOf(n) IN
    IF n = Root THEN failure[n]
    ELSE IF Drops(p) # {} THEN SubSeq(p, Dropped(p) + 1, Len(p))
    ELSE IF failure[n] = NoNode THEN Root
    ELSE failure[n]

FinalizeBegin ==
  /\ phase = "idle"
  /\ phase' = "set_failure"
  /\ todo' = nodes
  /\ UNCHANGED <<nodes, words, final, matched, failure, trie_open, status,
                 prefix, nod, walk>>

SetFailure(n) ==
  /\ phase = "set_failure"
  /\ Descends(n)
  /\ failure' = [failure EXCEPT ![n] = FailureOf(n)]
  /\ prefix' = Written(n)
  /\ todo' = todo \ {n}
  /\ UNCHANGED <<nodes, words, final, matched, trie_open, status, phase,
                 nod, walk>>

SetFailureEnd ==
  /\ phase = "set_failure"
  /\ todo = {}
  /\ phase' = "collect"
  /\ todo' = nodes
  /\ prefix' = << >>
  /\ UNCHANGED <<nodes, words, final, matched, failure, trie_open, status,
                 nod, walk>>

(* node_collect_matches(n) starts with n's failure node ... *)
CollectBegin(n) ==
  /\ phase = "collect"
  /\ Visits(n)
  /\ phase' = "walk"
  /\ nod' = n
  /\ walk' = failure[n]
  /\ UNCHANGED <<nodes, words, final, matched, failure, trie_open, status,
                 todo, prefix>>

(* As NextWalk, but only one failure link is followed.                     *)
NextWalkNone == NoNode

NextWalk == failure[walk]

(* ... accepts what that node matches (node_has_pattern drops duplicates)  *)
(* and follows its failure link ...                                        *)
CollectStep ==
  /\ phase = "walk"
  /\ walk # NoNode
  /\ matched' = [matched EXCEPT ![nod] = @ \cup matched[walk]]
  /\ final' = IF walk \in final THEN final \cup {nod} ELSE final
  /\ walk' = NextWalk
  /\ UNCHANGED <<nodes, words, failure, trie_open, status, phase, todo,
                 prefix, nod>>

(* ... until there is none. *)
CollectEnd ==
  /\ phase = "walk"
  /\ walk = NoNode
  /\ phase' = "collect"
  /\ todo' = todo \ {nod}
  /\ nod' = Root
  /\ UNCHANGED <<nodes, words, final, matched, failure, trie_open, status,
                 prefix, walk>>

FinalizeEnd ==
  /\ phase = "collect"
  /\ todo = {}
  /\ trie_open' = FALSE
  /\ phase' = "idle"
  /\ UNCHANGED <<nodes, words, final, matched, failure, status, todo, prefix,
                 nod, walk>>

FinalizeStep ==
  \/ \E n \in nodes : SetFailure(n) \/ CollectBegin(n)
  \/ SetFailureEnd \/ CollectStep \/ CollectEnd \/ FinalizeEnd

TrieNext == (\E w \in Offered : Add(w)) \/ FinalizeBegin \/ FinalizeStep

TrieSpec == TrieInit /\ [][TrieNext]_trieVars

(***************************************************************************)
(* ac_trie_finalize is one call of a single-threaded program: once entered *)
(* it runs.                                                                *)
(***************************************************************************)
FairTrieSpec == TrieSpec /\ WF_trieVars(FinalizeStep)
------------------------------------------------------------------------------
(* The type invariant of the trie. *)
TrieTypeOK ==
  /\ Root \in nodes
  /\ nodes \subseteq Path
  /\ words \subseteq nodes
  /\ final \subseteq nodes
  /\ matched \in [nodes -> SUBSET words]
  /\ failure \in [nodes -> nodes \cup {NoNode}]
  /\ trie_open \in BOOLEAN
  /\ status \in Status
  /\ phase \in {"idle", "set_failure", "collect", "walk"}
  /\ todo \subseteq nodes
  /\ prefix \in Path
  /\ nod \in nodes
  /\ walk \in nodes \cup {NoNode}

(* No node hangs in the air or leads nowhere: the nodes are exactly the    *)
(* prefixes of the accepted patterns, whatever was refused in between, so  *)
(* a refused pattern has not left a part of itself in the trie and every   *)
(* depth fits the prefix array of ac_trie_finalize.                        *)
NodesArePrefixes ==
  /\ nodes = {Root} \cup UNION {Prefixes(w) : w \in words}
  /\ \A n \in nodes : Len(n) <= MaxLength

(* n's failure node is the longest proper tail of n that is a node.        *)
IsFailureOf(f, n) ==
  /\ f \in nodes
  /\ IsProperTail(f, n)
  /\ \A m \in nodes : IsProperTail(m, n) => Len(m) <= Len(f)

(* Once the trie is closed every failure link is the longest proper tail   *)
(* that is a node, for whatever set of patterns and order of insertion.    *)
FailureIsLongestTail ==
  ~trie_open => \A n \in nodes \ {Root} : IsFailureOf(failure[n], n)

(* Once the trie is closed a node matches every accepted pattern that ends *)
(* there, nothing else, and is final exactly when there is one: what       *)
(* node_collect_matches gathers does not depend on which of the nodes of   *)
(* the failure chain were already collected.                               *)
MatchedIsEveryTail ==
  ~trie_open => \A n \in nodes :
    /\ matched[n] = {w \in words : IsTail(w, n)}
    /\ n \in final <=> matched[n] # {}

(* The duplicate test of ac_trie_add, the final flag of the last node, is  *)
(* right: before finalization the flag is set on accepted patterns only.   *)
FinalMeansAccepted == (trie_open /\ phase = "idle") => final = words

(* Finalizing a closed trie again (Paraglob::compile may be called twice)  *)
(* changes nothing a search reads; nor does an ac_trie_add it refuses.     *)
ClosedTrieIsFrozen ==
  [][~trie_open => UNCHANGED <<nodes, words, final, matched, failure,
                               trie_open>>]_trieVars

(* ac_trie_finalize returns: every failure chain ends at the root.         *)
FinalizeReturns == phase # "idle" ~> phase = "idle"
==============================================================================
