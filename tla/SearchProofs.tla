---------------------------- MODULE SearchProofs -----------------------------
(***************************************************************************)
(* Proofs about TrieSearch, for every alphabet, length limit, set of words *)
(* and set of chunks: what is reported is exact, whether it is asked for   *)
(* with ac_trie_findnext or ac_trie_search, and the client's calls on the  *)
(* trie implement the abstract matcher.                                    *)
(***************************************************************************)
EXTENDS TrieSearch, TrieProofs

(* At the beginning of a text the longest path is the root's.              *)
LEMMA RootIsLongest ==
  ASSUME NEW A, NEW N \in SUBSET Seq(A), Root \in N, NEW s \in Seq(A)
  PROVE  LongestEnding(N, s, 0, Root)
BY EmptyIsLongest DEF Root

(* One more position adds the words that end there.                        *)
LEMMA OccurrencesNext ==
  ASSUME NEW W, NEW s, NEW e \in Nat
  PROVE  OccurrencesUpTo(W, s, e + 1)
           = OccurrencesUpTo(W, s, e)
               \cup {<<w, e + 1>> : w \in {v \in W : EndsAt(v, s, e + 1)}}
<1>1. 1..(e + 1) = (1..e) \cup {e + 1}
  OBVIOUS
<1> QED
  BY <1>1 DEF OccurrencesUpTo

LEMMA OccurrencesNone ==
  ASSUME NEW W, NEW s
  PROVE  OccurrencesUpTo(W, s, 0) = {}
BY DEF OccurrencesUpTo

LEMMA OccurrencesSameStart ==
  ASSUME NEW A, NEW W \in SUBSET Seq(A), NEW s \in Seq(A), NEW t \in Seq(A),
         NEW e \in Nat, e <= Len(s), e <= Len(t),
         \A i \in 1..e : s[i] = t[i]
  PROVE  OccurrencesUpTo(W, s, e) = OccurrencesUpTo(W, t, e)
<1>1. ASSUME NEW w \in W, NEW k \in 1..e
      PROVE  EndsAt(w, s, k) <=> EndsAt(w, t, k)
  <2>1. k \in Nat /\ k <= Len(s) /\ k <= Len(t) /\ \A i \in 1..k : s[i] = t[i]
    OBVIOUS
  <2> QED
    BY <2>1, EndsAtSameStart
<1>2. \A o \in W \X (1..e) : EndsAt(o[1], s, o[2]) <=> EndsAt(o[1], t, o[2])
  BY <1>1
<1> QED
  BY <1>2, Zenon DEF OccurrencesUpTo

------------------------------------------------------------------------------
(***************************************************************************)
(* The inductive invariant                                                 *)
(***************************************************************************)

(* Where a search is, what the trie keeps of it, and which part of the     *)
(* stream text is: the one from base_position on, until it is drained.     *)
TextInv ==
  /\ phase # "idle" => Resting
  /\ trie_open => /\ pc = "ready" /\ base_position = 0 /\ position = 0
                  /\ last_node = Root /\ found = {}
  /\ pc = "ready" => pos = 0
  /\ pc = "search" => drained
  /\ pc = "findnext" => ~drained
  /\ Len(input) = base_position + (IF Resting THEN 0 ELSE Len(text))
  /\ ~Resting => \A i \in 1..Len(text) : input[base_position + i] = text[i]

(* The node kept in the trie is the longest one for what was read; so is   *)
(* the node of the loop, but for those the next alphabet does not extend.  *)
(* A search that is stopped goes back to where its text began.             *)
NodeInv ==
  /\ pc = "ready" => LongestEnding(nodes, input, Read, last_node)
  /\ pc = "search" => LongestEnding(nodes, input, base_position, last_node)
  /\ Scanning => LongestBefore(nodes, input, Read, current,
                               pos < Len(text), text[pos + 1])

SearchInv ==
  TrieInv /\ SearchTypeOK /\ TextInv /\ NodeInv /\ FoundIsExact

(* The nodes of the trie are paths that LongestEnding and the lemmas speak of.   *)
LEMMA NodesArePaths ==
  ASSUME TrieInv
  PROVE  /\ nodes \in SUBSET Seq(Alphabet)
         /\ words \in SUBSET Seq(Alphabet)
         /\ words \subseteq nodes
         /\ Root \in nodes
         /\ \A m \in nodes : Len(m) # 0 => SubSeq(m, 1, Len(m) - 1) \in nodes
<1>1. \A m \in nodes : Len(m) \in Nat
  BY DEF TrieInv, TrieTypeOK, Path
<1>2. \A m \in nodes : Len(m) # 0 => SubSeq(m, 1, Len(m) - 1) \in nodes
  BY <1>1, NodesAreClosed DEF TrieInv
<1> QED
  BY <1>2 DEF TrieInv, TrieTypeOK, Path

(* The words that end at a position are those the longest node matches.    *)
LEMMA LongestMatches ==
  ASSUME TrieInv, ~trie_open, NEW s \in Seq(Alphabet), NEW e \in Nat, NEW n,
         LongestEnding(nodes, s, e, n)
  PROVE  {w \in words : EndsAt(w, s, e)} = matched[n]
<1>1. n \in nodes /\ EndsAt(n, s, e) /\ n \in Seq(Alphabet)
  BY NodesArePaths DEF LongestEnding
<1>2. matched[n] = {w \in words : IsTail(w, n)}
  BY <1>1 DEF TrieInv, MatchedInv, Tails
<1>3. ASSUME NEW w \in words
      PROVE  EndsAt(w, s, e) <=> IsTail(w, n)
  <2>1. w \in nodes /\ w \in Seq(Alphabet)
    BY NodesArePaths
  <2>2. ASSUME EndsAt(w, s, e)
        PROVE  IsTail(w, n)
    <3>1. Len(w) <= Len(n)
      BY <2>1, <2>2 DEF LongestEnding
    <3> QED
      BY <1>1, <2>1, <2>2, <3>1, EndsAtOrdered
  <2>3. ASSUME IsTail(w, n)
        PROVE  EndsAt(w, s, e)
    BY <1>1, <2>1, <2>3, EndsAtTail
  <2> QED
    BY <2>2, <2>3
<1> QED
  BY <1>2, <1>3

(* What is known inside the loop                                           *)
LEMMA LoopFacts ==
  ASSUME SearchInv, Scanning
  PROVE  /\ ~trie_open /\ phase = "idle" /\ ~Resting
         /\ base_position \in Nat /\ pos \in Nat /\ pos <= Len(text)
         /\ input \in Seq(Alphabet) /\ text \in Seq(Alphabet)
         /\ Len(input) = base_position + Len(text)
         /\ Read = base_position + pos
         /\ current \in nodes
         /\ LongestBefore(nodes, input, Read, current, pos < Len(text), text[pos + 1])
         /\ pos < Len(text) => Read < Len(input) /\ input[Read + 1] = text[pos + 1]
<1>1. /\ ~trie_open /\ phase = "idle" /\ ~Resting
      /\ base_position \in Nat /\ pos \in Nat /\ pos <= Len(text)
      /\ input \in Seq(Alphabet) /\ text \in Seq(Alphabet)
      /\ Len(input) = base_position + Len(text)
      /\ Read = base_position + pos
      /\ current \in nodes
      /\ \A i \in 1..Len(text) : input[base_position + i] = text[i]
  BY DEF SearchInv, TextInv, SearchTypeOK, Scanning, Resting, Read, Path
<1>2. pos < Len(text) => input[base_position + (pos + 1)] = text[pos + 1]
  BY <1>1
<1>3. base_position + (pos + 1) = Read + 1
  BY <1>1
<1> QED
  BY <1>1, <1>2, <1>3 DEF SearchInv, NodeInv

(* Following an edge                                                       *)
LEMMA GotoIsLongest ==
  ASSUME SearchInv, Scanning, pos < Len(text), HasGoto
  PROVE  /\ LongestEnding(nodes, input, Read + 1, Goto)
         /\ OccurrencesUpTo(words, input, Read + 1)
              = found \cup {<<w, Read + 1>> : w \in matched[Goto]}
<1>1. /\ Read \in Nat /\ Read < Len(input) /\ input[Read + 1] = text[pos + 1]
      /\ input \in Seq(Alphabet) /\ ~trie_open /\ current \in nodes
      /\ LongestBefore(nodes, input, Read, current, pos < Len(text), input[Read + 1])
  BY LoopFacts
<1>2. Goto = Append(current, input[Read + 1]) /\ Goto \in nodes
  BY <1>1 DEF Goto, HasGoto
<1>3. TrieInv /\ found = OccurrencesUpTo(words, input, Read)
  BY DEF SearchInv, FoundIsExact
<1> HIDE DEF Goto, Read
<1>4. LongestEnding(nodes, input, Read + 1, Goto)
  BY <1>1, <1>2, <1>3, NodesArePaths, EdgeKeepsLongest
<1>5. {w \in words : EndsAt(w, input, Read + 1)} = matched[Goto]
  BY <1>1, <1>3, <1>4, LongestMatches
<1> QED
  BY <1>1, <1>3, <1>4, <1>5, OccurrencesNext

(* A step that leaves the trie alone                                       *)
LEMMA TrieStaysSame ==
  ASSUME TrieInv, UNCHANGED trieVars
  PROVE  /\ TrieInv'
         /\ UNCHANGED <<nodes, words, final, matched, failure, trie_open, phase>>
<1>1. TrieInv'
  BY TrieInvStep
<1> QED
  BY <1>1 DEF trieVars

------------------------------------------------------------------------------
(* The steps preserve the invariant *)

LEMMA SearchInvInit == Init => SearchInv
<1> SUFFICES ASSUME Init
             PROVE  SearchInv
  OBVIOUS
<1>1. TrieInv
  BY TrieInvInit DEF Init
<1>2. SearchTypeOK /\ TextInv
  BY DEF Init, TrieInit, SearchInit, SearchTypeOK, TextInv, Resting, Path, Root
<1>3. Read = 0 /\ input = << >> /\ last_node = Root /\ pc = "ready" /\ found = {}
  BY DEF Init, SearchInit, Read, Scanning
<1>4. LongestEnding(nodes, input, 0, Root)
  <2>1. << >> \in Seq(Alphabet)
    OBVIOUS
  <2> QED
    BY <1>1, <1>3, <2>1, NodesArePaths, RootIsLongest
<1>5. NodeInv
  BY <1>3, <1>4 DEF NodeInv, Scanning
<1>6. FoundIsExact
  BY <1>3, OccurrencesNone DEF FoundIsExact
<1> QED
  BY <1>1, <1>2, <1>5, <1>6 DEF SearchInv

(* Adding words and finalizing, between two texts                          *)
LEMMA BuildStep ==
  ASSUME SearchInv, BuildNext
  PROVE  SearchInv'
<1>1. UNCHANGED scanVars /\ TrieNext
  BY DEF BuildNext, TrieNext
<1>2. /\ UNCHANGED <<text, position, last_node, base_position, pc, current,
                     pos, drained, input, found>>
      /\ Read' = Read /\ Resting' = Resting /\ Scanning' = Scanning
  BY <1>1 DEF scanVars, Read, Resting, Scanning
<1>3. TrieInv /\ TrieInv'
  BY <1>1, TrieInvStep DEF SearchInv
<1>4. phase = "idle" => Resting
  BY DEF BuildNext, Idle, Resting, FinalizeStep, SetFailure, CollectBegin,
         SetFailureEnd, CollectStep, CollectEnd, FinalizeEnd
<1>5. Resting /\ pc = "ready"
  BY <1>4 DEF SearchInv, TextInv, Resting
<1>6. trie_open' => trie_open
  BY <1>1, <1>3, ClosedTrieStep
<1>7. nodes \subseteq nodes' /\ words \subseteq words'
  BY <1>1 DEF TrieNext, Add, AddRefused, AddDuplicate, AddNew, MakePath,
              FinalizeBegin, FinalizeStep, SetFailure, CollectBegin,
              SetFailureEnd, CollectStep, CollectEnd, FinalizeEnd
<1>8. SearchTypeOK'
  BY <1>2, <1>7 DEF SearchInv, SearchTypeOK
<1>9. TextInv'
  BY <1>2, <1>5, <1>6 DEF SearchInv, TextInv
<1>10. NodeInv' /\ FoundIsExact'
  <2>1. CASE trie_open
    <3>1. Read' = 0 /\ last_node' = Root /\ found' = {}
      BY <1>2, <1>5, <2>1 DEF SearchInv, TextInv, Read, Scanning
    <3>2. input' \in Seq(Alphabet)
      BY <1>8 DEF SearchTypeOK, Path
    <3>3. nodes' \in SUBSET Seq(Alphabet) /\ Root \in nodes'
      BY <1>3 DEF TrieInv, TrieTypeOK, Path
    <3>4. LongestEnding(nodes', input', 0, Root)
      BY <3>2, <3>3, RootIsLongest
    <3>5. OccurrencesUpTo(words', input', 0) = {}
      BY OccurrencesNone
    <3> QED
      BY <1>2, <1>5, <3>1, <3>4, <3>5 DEF NodeInv, FoundIsExact, Scanning
  <2>2. CASE ~trie_open
    <3>1. nodes' = nodes /\ words' = words
      BY <1>1, <1>3, <2>2, ClosedTrieStep
    <3> QED
      BY <1>2, <3>1 DEF SearchInv, NodeInv, FoundIsExact
  <2> QED
    BY <2>1, <2>2
<1> QED
  BY <1>3, <1>8, <1>9, <1>10 DEF SearchInv

(* Setting a text: the stream that was read ends where the text begins.    *)
LEMMA FeedKeeps ==
  ASSUME SearchInv, Idle, NEW t \in Chunk, NEW keep \in BOOLEAN,
         Reset(keep), Feed(t, keep), UNCHANGED trieVars,
         keep = FALSE => last_node' = Root
  PROVE  /\ input' \in Seq(Alphabet) /\ t \in Seq(Alphabet)
         /\ base_position' \in Nat /\ last_node' \in nodes
         /\ found' \subseteq words \X Nat
         /\ Len(input') = base_position' + Len(t)
         /\ \A i \in 1..Len(t) : input'[base_position' + i] = t[i]
         /\ LongestEnding(nodes, input', base_position', last_node')
         /\ found' = OccurrencesUpTo(words, input', base_position')
         /\ trie_open => base_position' = 0 /\ last_node' = Root /\ found' = {}
<1>1. /\ t \in Seq(Alphabet) /\ input \in Seq(Alphabet)
      /\ base_position \in Nat /\ last_node \in nodes
      /\ found \subseteq words \X Nat
      /\ Len(input) = base_position /\ Read = base_position
      /\ LongestEnding(nodes, input, base_position, last_node)
      /\ found = OccurrencesUpTo(words, input, base_position)
      /\ trie_open => base_position = 0 /\ last_node = Root /\ found = {}
  BY SearchAssumption DEF SearchInv, SearchTypeOK, TextInv, NodeInv, FoundIsExact,
     Idle, Resting, Read, Scanning, Path
<1>2. nodes \in SUBSET Seq(Alphabet) /\ words \in SUBSET Seq(Alphabet) /\ Root \in nodes
  BY NodesArePaths DEF SearchInv
<1>3. CASE keep = TRUE
  <2>1. /\ input' = input \o t /\ found' = found
        /\ last_node' = last_node /\ base_position' = base_position
    BY <1>3 DEF Feed, Reset
  <2>2. /\ input' \in Seq(Alphabet) /\ Len(input') = base_position + Len(t)
        /\ \A i \in 1..base_position : input[i] = input'[i]
        /\ \A i \in 1..Len(t) : input'[base_position + i] = t[i]
    <3>1. input \in Seq(Alphabet) /\ t \in Seq(Alphabet)
      BY <1>1
    <3>2. /\ input \o t \in Seq(Alphabet)
          /\ Len(input \o t) = Len(input) + Len(t)
          /\ \A i \in 1..Len(input) : input[i] = (input \o t)[i]
          /\ \A i \in 1..Len(t) : (input \o t)[Len(input) + i] = t[i]
      BY ONLY <3>1, Concatenated
    <3>3. Len(input) = base_position
      BY <1>1
    <3> QED
      BY <2>1, <3>2, <3>3, Zenon
  <2>3. LongestEnding(nodes, input', base_position, last_node)
    BY <1>1, <1>2, <2>2, LongestSameStart
  <2>4. found = OccurrencesUpTo(words, input', base_position)
    BY <1>1, <1>2, <2>2, OccurrencesSameStart
  <2> QED
    BY <1>1, <2>1, <2>2, <2>3, <2>4
<1>4. CASE keep = FALSE
  <2>1. input' = t /\ found' = {} /\ last_node' = Root /\ base_position' = 0
    BY <1>4 DEF Feed, Reset
  <2>2. LongestEnding(nodes, t, 0, Root)
    BY <1>1, <1>2, RootIsLongest
  <2>3. OccurrencesUpTo(words, t, 0) = {}
    BY OccurrencesNone
  <2> QED
    BY <1>1, <1>2, <2>1, <2>2, <2>3
<1> QED
  BY <1>3, <1>4

LEMMA SetTextStep ==
  ASSUME SearchInv, NEW t \in Chunk, NEW keep \in BOOLEAN, SetText(t, keep)
  PROVE  SearchInv'
<1>1. /\ Idle /\ Reset(keep) /\ Feed(t, keep) /\ UNCHANGED trieVars
      /\ keep = FALSE => last_node' = Root
  BY DEF SetText, Reset
<1>2. /\ text' = t /\ position' = 0 /\ drained' = FALSE
      /\ pc = "ready" /\ pc' = "ready" /\ current' = current /\ pos' = pos
      /\ phase = "idle"
  BY DEF SetText, Idle, Resting
<1>3. /\ TrieInv' /\ UNCHANGED <<nodes, words, trie_open, phase>>
  BY <1>1, TrieStaysSame DEF SearchInv
<1>4. /\ input' \in Seq(Alphabet) /\ t \in Seq(Alphabet)
      /\ base_position' \in Nat /\ last_node' \in nodes
      /\ found' \subseteq words \X Nat
      /\ Len(input') = base_position' + Len(t)
      /\ \A i \in 1..Len(t) : input'[base_position' + i] = t[i]
      /\ LongestEnding(nodes, input', base_position', last_node')
      /\ found' = OccurrencesUpTo(words, input', base_position')
      /\ trie_open => base_position' = 0 /\ last_node' = Root /\ found' = {}
  BY <1>1, FeedKeeps
<1>5. /\ Read' = base_position' /\ ~Resting' /\ ~Scanning'
  BY <1>2, <1>4 DEF Read, Resting, Scanning
<1>6. SearchTypeOK'
  <2>1. pos' = 0 /\ current' \in nodes /\ Len(t) \in Nat
    BY <1>2, <1>4 DEF SearchInv, SearchTypeOK, TextInv
  <2> QED
    <3>1. text' \in Path
      BY <1>2, <1>4 DEF Path
    <3>2. position' \in Nat /\ position' <= Len(text')
      BY <1>2, <2>1
    <3>3. pos' \in 0..Len(text') /\ pc' \in {"ready", "findnext", "search"}
      BY <1>2, <2>1
    <3>4. drained' \in BOOLEAN /\ last_node' \in nodes' /\ current' \in nodes'
      BY <1>2, <1>3, <1>4, <2>1
    <3>5. found' \subseteq words' \X Nat /\ input' \in Path /\ base_position' \in Nat
      BY <1>3, <1>4 DEF Path
    <3> QED
      BY <3>1, <3>2, <3>3, <3>4, <3>5 DEF SearchTypeOK
<1>7. TextInv'
  BY <1>2, <1>3, <1>4, <1>5 DEF SearchInv, TextInv
<1>8. NodeInv' /\ FoundIsExact'
  BY <1>2, <1>3, <1>4, <1>5 DEF NodeInv, FoundIsExact
<1> QED
  BY <1>3, <1>6, <1>7, <1>8 DEF SearchInv

LEMMA SearchStep ==
  ASSUME SearchInv, NEW t \in Chunk, NEW keep \in BOOLEAN, Search(t, keep),
         keep = FALSE => last_node = Root
  PROVE  SearchInv'
<1>1. /\ ~trie_open /\ phase = "idle" /\ drained
      /\ text' = t /\ position' = position /\ drained' = TRUE
      /\ pc' = "search" /\ current' = last_node /\ pos' = 0
  BY DEF Search, Idle, Resting, StartNode, SearchInv, SearchTypeOK
<1>2. /\ Idle /\ Reset(keep) /\ Feed(t, keep) /\ UNCHANGED trieVars
      /\ keep = FALSE => last_node' = Root
  BY DEF Search, Reset
<1>3. last_node' = last_node
  BY <1>2 DEF Reset
<1>4. /\ TrieInv' /\ UNCHANGED <<nodes, words, trie_open, phase>>
  BY <1>2, TrieStaysSame DEF SearchInv
<1>5. /\ input' \in Seq(Alphabet) /\ t \in Seq(Alphabet)
      /\ base_position' \in Nat /\ last_node' \in nodes
      /\ found' \subseteq words \X Nat
      /\ Len(input') = base_position' + Len(t)
      /\ \A i \in 1..Len(t) : input'[base_position' + i] = t[i]
      /\ LongestEnding(nodes, input', base_position', last_node')
      /\ found' = OccurrencesUpTo(words, input', base_position')
  BY <1>2, FeedKeeps
<1>6. /\ Read' = base_position' /\ ~Resting' /\ Scanning'
  BY <1>1, <1>5 DEF Read, Resting, Scanning
<1>7. SearchTypeOK'
  BY <1>1, <1>3, <1>4, <1>5 DEF SearchInv, SearchTypeOK, Path
<1>8. TextInv'
  BY <1>1, <1>4, <1>5, <1>6 DEF TextInv
<1>9. LongestBefore(nodes, input', Read', current', pos' < Len(text'), text'[pos' + 1])
  BY <1>1, <1>3, <1>5, <1>6, NodesArePaths, LongestIsBefore DEF SearchInv
<1>10. NodeInv' /\ FoundIsExact'
  BY <1>1, <1>4, <1>5, <1>6, <1>9 DEF NodeInv, FoundIsExact
<1> QED
  BY <1>4, <1>7, <1>8, <1>10 DEF SearchInv

(* Asking an open trie                                                     *)
LEMMA FindNextOpenStep ==
  ASSUME SearchInv, FindNextOpen
  PROVE  SearchInv'
<1>1. /\ UNCHANGED <<text, position, last_node, base_position, pc, current,
                     pos, found>>
      /\ phase = "idle" /\ pc = "ready" /\ trie_open
      /\ drained' = TRUE /\ input' = << >>
  BY DEF FindNextOpen
<1>2. /\ TrieInv' /\ UNCHANGED <<nodes, words, trie_open, phase>>
  BY TrieStaysSame DEF FindNextOpen, SearchInv
<1>3. << >> \in Seq(Alphabet)
  OBVIOUS
<1>4. base_position = 0 /\ last_node = Root /\ found = {}
  BY <1>1 DEF SearchInv, TextInv
<1>5. Read' = 0 /\ ~Scanning' /\ Resting'
  BY <1>1, <1>4 DEF Read, Scanning, Resting
<1>6. SearchTypeOK'
  BY <1>1, <1>2, <1>3 DEF SearchInv, SearchTypeOK, Path
<1>7. TextInv'
  BY <1>1, <1>2, <1>4, <1>5 DEF SearchInv, TextInv
<1>8. LongestEnding(nodes, << >>, 0, Root)
  BY <1>3, NodesArePaths, RootIsLongest DEF SearchInv
<1>9. NodeInv' /\ FoundIsExact'
  BY <1>1, <1>2, <1>4, <1>5, <1>8, OccurrencesNone DEF NodeInv, FoundIsExact
<1> QED
  BY <1>2, <1>6, <1>7, <1>9 DEF SearchInv

(* The loop goes on from where the last match stopped it.                  *)
LEMMA FindNextStep ==
  ASSUME SearchInv, FindNext
  PROVE  SearchInv'
<1>1. /\ UNCHANGED <<text, position, last_node, base_position, drained,
                     input, found>>
      /\ phase = "idle" /\ pc = "ready" /\ ~drained /\ ~trie_open
      /\ pc' = "findnext" /\ pos' = position /\ current' = last_node
  BY DEF FindNext, StartPosition, StartNode
<1>2. /\ TrieInv' /\ UNCHANGED <<nodes, words, trie_open, phase>>
  BY TrieStaysSame DEF FindNext, SearchInv
<1>3. /\ Read' = Read /\ Scanning' /\ ~Resting' /\ ~Resting
  BY <1>1 DEF Read, Scanning, Resting
<1>4. SearchTypeOK'
  <2>1. position \in Nat /\ position <= Len(text) /\ Len(text) \in Nat
    BY <1>1 DEF SearchInv, SearchTypeOK, Path
  <2> QED
    BY <1>1, <1>2, <2>1 DEF SearchInv, SearchTypeOK
<1>5. TextInv'
  BY <1>1, <1>2, <1>3 DEF SearchInv, TextInv
<1>6. LongestEnding(nodes, input, Read, last_node)
  BY <1>1 DEF SearchInv, NodeInv
<1>7. LongestBefore(nodes, input, Read, last_node, pos' < Len(text), text[pos' + 1])
  BY <1>6, NodesArePaths, LongestIsBefore DEF SearchInv
<1>8. NodeInv' /\ FoundIsExact'
  BY <1>1, <1>2, <1>3, <1>7 DEF SearchInv, NodeInv, FoundIsExact
<1> QED
  BY <1>2, <1>4, <1>5, <1>8 DEF SearchInv

(* An edge to a node that matches nothing                                  *)
LEMMA AdvanceStep ==
  ASSUME SearchInv, Advance
  PROVE  SearchInv'
<1>1. /\ UNCHANGED <<text, position, last_node, base_position, pc, drained,
                     input, found>>
      /\ Scanning /\ pos < Len(text) /\ HasGoto /\ Goto \notin final
      /\ current' = Goto /\ pos' = pos + 1
  BY DEF Advance
<1>2. /\ TrieInv' /\ TrieInv /\ UNCHANGED <<nodes, words, trie_open, phase>>
  BY TrieStaysSame DEF Advance, SearchInv
<1>3. /\ base_position \in Nat /\ pos \in Nat /\ Read = base_position + pos
      /\ ~Resting /\ Goto \in nodes
  BY <1>1, LoopFacts DEF HasGoto
<1>4. /\ Read' = Read + 1 /\ Scanning' /\ Resting' = Resting
  BY <1>1, <1>3 DEF Read, Scanning, Resting
<1>5. SearchTypeOK'
  BY <1>1, <1>2, <1>3 DEF SearchInv, SearchTypeOK
<1>6. TextInv'
  BY <1>1, <1>2, <1>3, <1>4 DEF SearchInv, TextInv, Scanning
<1>7. /\ LongestEnding(nodes, input, Read + 1, Goto)
      /\ OccurrencesUpTo(words, input, Read + 1)
           = found \cup {<<w, Read + 1>> : w \in matched[Goto]}
  BY <1>1, GotoIsLongest
<1>8. matched[Goto] = {}
  BY <1>1, <1>2, <1>3 DEF TrieInv, MatchedInv
<1>9. LongestBefore(nodes, input, Read + 1, Goto, pos' < Len(text), text[pos' + 1])
  BY <1>2, <1>7, NodesArePaths, LongestIsBefore
<1>10. NodeInv'
  BY <1>1, <1>2, <1>4, <1>9 DEF SearchInv, NodeInv, Scanning
<1>11. FoundIsExact'
  BY <1>1, <1>2, <1>4, <1>7, <1>8 DEF FoundIsExact
<1> QED
  BY <1>2, <1>5, <1>6, <1>10, <1>11 DEF SearchInv

(* What the call-back is given are words and positions.                    *)
LEMMA MatchesAreWords ==
  ASSUME SearchInv, Scanning, Match
  PROVE  /\ Matches = {<<w, Read + 1>> : w \in matched[Goto]}
         /\ found \cup Matches \subseteq words \X Nat
         /\ found \cup Matches = OccurrencesUpTo(words, input, Read + 1)
<1>1. /\ pos < Len(text) /\ HasGoto /\ Goto \in nodes
      /\ base_position \in Nat /\ pos \in Nat /\ Read = base_position + pos
  BY LoopFacts DEF Match, HasGoto
<1>2. pos + 1 + base_position = Read + 1 /\ Read + 1 \in Nat
  BY <1>1
<1>3. Matches = {<<w, Read + 1>> : w \in matched[Goto]}
  BY <1>2, Zenon DEF Matches
<1>4. matched[Goto] \subseteq words
  BY <1>1 DEF SearchInv, TrieInv, TrieTypeOK
<1>5. found \cup Matches \subseteq words \X Nat
  BY <1>2, <1>3, <1>4 DEF SearchInv, SearchTypeOK
<1> QED
  BY <1>1, <1>3, <1>5, GotoIsLongest

(* A match of findAll stops the loop and is reported.                      *)
LEMMA ReportNextStep ==
  ASSUME SearchInv, ReportNext
  PROVE  SearchInv'
<1>1. /\ UNCHANGED <<text, base_position, drained, input>>
      /\ pc = "findnext" /\ pos < Len(text) /\ HasGoto
      /\ found' = found \cup Matches /\ position' = pos + 1 /\ last_node' = Goto
      /\ pc' = "ready" /\ current' = Root /\ pos' = 0
  BY DEF ReportNext, Match, Return, StopPosition
<1>2. /\ TrieInv' /\ TrieInv /\ UNCHANGED <<nodes, words, trie_open, phase>>
  BY TrieStaysSame DEF ReportNext, SearchInv
<1>3. Scanning /\ Match
  BY <1>1 DEF Scanning, ReportNext
<1>4. /\ base_position \in Nat /\ pos \in Nat /\ Read = base_position + pos
      /\ Goto \in nodes /\ text \in Seq(Alphabet) /\ ~trie_open /\ phase = "idle"
  BY <1>1, <1>3, LoopFacts DEF HasGoto
<1>5. ~drained
  BY <1>1 DEF SearchInv, TextInv
<1>6. /\ Read' = Read + 1 /\ ~Scanning' /\ ~Resting' /\ ~Resting
  BY <1>1, <1>4, <1>5 DEF Read, Scanning, Resting
<1>7. SearchTypeOK'
  <2>1. position' \in Nat /\ position' <= Len(text) /\ 0 \in 0..Len(text)
    BY <1>1, <1>4
  <2>2. Root \in nodes
    BY <1>2, NodesArePaths
  <2>3. found' \subseteq words \X Nat
    BY <1>1, <1>3, MatchesAreWords
  <2> QED
    BY <1>1, <1>2, <1>4, <2>1, <2>2, <2>3 DEF SearchInv, SearchTypeOK
<1>8. TextInv'
  BY <1>1, <1>2, <1>4, <1>6 DEF SearchInv, TextInv
<1>9. LongestEnding(nodes, input, Read + 1, Goto)
  BY <1>1, <1>3, GotoIsLongest
<1>10. NodeInv'
  BY <1>1, <1>2, <1>6, <1>9 DEF NodeInv
<1>11. FoundIsExact'
  BY <1>1, <1>2, <1>3, <1>6, MatchesAreWords DEF FoundIsExact
<1> QED
  BY <1>2, <1>7, <1>8, <1>10, <1>11 DEF SearchInv

(* A match of ac_trie_search, whose call-back goes on                      *)
LEMMA ReportStep ==
  ASSUME SearchInv, Report
  PROVE  SearchInv'
<1>1. /\ UNCHANGED <<text, position, last_node, base_position, pc, drained, input>>
      /\ pc = "search" /\ pos < Len(text) /\ HasGoto
      /\ found' = found \cup Matches /\ current' = Goto /\ pos' = pos + 1
  BY DEF Report, Match
<1>2. /\ TrieInv' /\ TrieInv /\ UNCHANGED <<nodes, words, trie_open, phase>>
  BY TrieStaysSame DEF Report, SearchInv
<1>3. Scanning /\ Match
  BY <1>1 DEF Scanning, Report
<1>4. /\ base_position \in Nat /\ pos \in Nat /\ Read = base_position + pos
      /\ Goto \in nodes /\ text \in Seq(Alphabet) /\ ~Resting
  BY <1>1, <1>3, LoopFacts DEF HasGoto
<1>5. /\ Read' = Read + 1 /\ Scanning' /\ Resting' = Resting
  BY <1>1, <1>4 DEF Read, Scanning, Resting
<1>6. SearchTypeOK'
  <2>1. found' \subseteq words \X Nat
    BY <1>1, <1>3, MatchesAreWords
  <2> QED
    BY <1>1, <1>2, <1>4, <2>1 DEF SearchInv, SearchTypeOK
<1>7. TextInv'
  BY <1>1, <1>2, <1>4, <1>5 DEF SearchInv, TextInv
<1>8. LongestBefore(nodes, input, Read + 1, Goto, pos' < Len(text), text[pos' + 1])
  BY <1>1, <1>2, <1>3, GotoIsLongest, NodesArePaths, LongestIsBefore
<1>9. NodeInv'
  BY <1>1, <1>2, <1>5, <1>8 DEF SearchInv, NodeInv
<1>10. FoundIsExact'
  BY <1>1, <1>2, <1>3, <1>5, MatchesAreWords DEF FoundIsExact
<1> QED
  BY <1>2, <1>6, <1>7, <1>9, <1>10 DEF SearchInv

(* ... or stops: the trie goes back to where the chunk began.              *)
LEMMA ReportStopStep ==
  ASSUME SearchInv, ReportStop
  PROVE  SearchInv' /\ found' = Occurrences(words, input')
<1>1. /\ UNCHANGED <<text, position, last_node, base_position, drained>>
      /\ pc = "search" /\ pc' = "ready" /\ current' = Root /\ pos' = 0
      /\ input' = SubSeq(input, 1, base_position)
      /\ found' = {o \in found : o[2] <= base_position}
  BY DEF ReportStop, Return
<1>2. /\ TrieInv' /\ TrieInv /\ UNCHANGED <<nodes, words, trie_open, phase>>
  BY TrieStaysSame DEF ReportStop, SearchInv
<1>3. /\ base_position \in Nat /\ pos \in Nat /\ Read = base_position + pos
      /\ text \in Seq(Alphabet) /\ input \in Seq(Alphabet) /\ ~trie_open
      /\ Len(input) = base_position + Len(text) /\ phase = "idle"
  BY <1>1, LoopFacts DEF Scanning
<1>4. drained
  BY <1>1 DEF SearchInv, TextInv
<1>5. Read' = base_position /\ ~Scanning' /\ Resting'
  BY <1>1, <1>3, <1>4 DEF Read, Scanning, Resting
<1>6. base_position \in 0..Len(input)
  BY <1>3
<1>7. /\ input' \in Seq(Alphabet) /\ Len(input') = base_position
      /\ \A i \in 1..base_position : input[i] = input'[i]
  BY <1>1, <1>3, <1>6, StartOfWord
<1>8. SearchTypeOK'
  <2>1. Root \in nodes /\ 0 \in 0..Len(text)
    BY <1>2, <1>3, NodesArePaths
  <2> QED
    BY <1>1, <1>2, <1>4, <1>7, <2>1 DEF SearchInv, SearchTypeOK, Path
<1>9. TextInv'
  BY <1>1, <1>2, <1>3, <1>4, <1>5, <1>7 DEF TextInv
<1>10. NodeInv'
  <2>1. LongestEnding(nodes, input, base_position, last_node)
    BY <1>1 DEF SearchInv, NodeInv
  <2>2. LongestEnding(nodes, input', base_position, last_node)
    <3>1. nodes \in SUBSET Seq(Alphabet)
      BY <1>2, NodesArePaths
    <3>2. base_position <= Len(input) /\ base_position <= Len(input')
      BY <1>3, <1>7
    <3> QED
      BY <1>3, <1>7, <2>1, <3>1, <3>2, LongestSameStart
  <2> QED
    BY <1>1, <1>2, <1>5, <2>2 DEF NodeInv
<1>11. FoundIsExact'
  <2>1. found = OccurrencesUpTo(words, input, Read)
    BY DEF SearchInv, FoundIsExact
  <2>2. \A k : k \in 1..Read /\ k <= base_position <=> k \in 1..base_position
    BY <1>3
  <2>3. found' = OccurrencesUpTo(words, input, base_position)
    BY <1>1, <2>1, <2>2 DEF OccurrencesUpTo
  <2>4. OccurrencesUpTo(words, input, base_position)
          = OccurrencesUpTo(words, input', base_position)
    BY <1>2, <1>3, <1>6, <1>7, NodesArePaths, OccurrencesSameStart
  <2> QED
    BY <1>2, <1>5, <2>3, <2>4 DEF FoundIsExact
<1>12. found' = Occurrences(words, input')
  BY <1>2, <1>5, <1>7, <1>11 DEF FoundIsExact, Occurrences
<1> QED
  BY <1>2, <1>8, <1>9, <1>10, <1>11, <1>12 DEF SearchInv

(* No edge: the next node to try is the failure node.  What is longer than *)
(* that one, and ends here, was ruled out before or is the node just left. *)
LEMMA FailStep ==
  ASSUME SearchInv, Fail
  PROVE  SearchInv'
<1>1. /\ UNCHANGED <<text, position, last_node, base_position, pc, pos, drained,
                     input, found>>
      /\ Scanning /\ pos < Len(text) /\ ~HasGoto
      /\ current' = failure[current] /\ failure[current] # NoNode
  BY DEF Fail, Fallback
<1>2. /\ TrieInv' /\ TrieInv /\ UNCHANGED <<nodes, words, trie_open, phase>>
  BY TrieStaysSame DEF Fail, SearchInv
<1>3. /\ current \in nodes /\ input \in Seq(Alphabet) /\ Read \in Nat /\ ~trie_open
      /\ LongestBefore(nodes, input, Read, current, pos < Len(text), text[pos + 1])
  BY <1>1, LoopFacts
<1>4. /\ Read' = Read /\ Scanning' /\ Resting' = Resting
  BY <1>1 DEF Read, Scanning, Resting
<1> DEFINE f == failure[current]
<1>5. current # Root /\ IsFailureOf(f, current)
  BY <1>1, <1>2, <1>3 DEF TrieInv, FailureInv
<1>6. /\ f \in nodes /\ IsTail(f, current)
      /\ \A m \in nodes : IsProperTail(m, current) => Len(m) <= Len(f)
  BY <1>5 DEF IsFailureOf, IsProperTail
<1>7. Append(current, text[pos + 1]) \notin nodes
  BY <1>1 DEF HasGoto, Goto
<1> HIDE DEF f
<1>8. LongestBefore(nodes, input, Read, f, pos < Len(text), text[pos + 1])
  BY <1>1, <1>2, <1>3, <1>6, <1>7, NodesArePaths, FailureKeepsLongest
<1>9. SearchTypeOK'
  BY <1>1, <1>2, <1>6 DEF SearchInv, SearchTypeOK, f
<1>10. TextInv'
  BY <1>1, <1>2, <1>4 DEF SearchInv, TextInv, Scanning
<1>11. NodeInv'
  BY <1>1, <1>2, <1>4, <1>8 DEF SearchInv, NodeInv, Scanning, f
<1>12. FoundIsExact'
  BY <1>1, <1>2, <1>4 DEF SearchInv, FoundIsExact
<1> QED
  BY <1>2, <1>9, <1>10, <1>11, <1>12 DEF SearchInv

(* The root has no edge: the alphabet is skipped, no word ends there.      *)
LEMMA SkipStep ==
  ASSUME SearchInv, Skip
  PROVE  SearchInv'
<1>1. /\ UNCHANGED <<text, position, last_node, base_position, pc, current,
                     drained, input, found>>
      /\ Scanning /\ pos < Len(text) /\ ~HasGoto
      /\ failure[current] = NoNode /\ pos' = pos + 1
  BY DEF Skip
<1>2. /\ TrieInv' /\ TrieInv /\ UNCHANGED <<nodes, words, trie_open, phase>>
  BY TrieStaysSame DEF Skip, SearchInv
<1>3. /\ base_position \in Nat /\ pos \in Nat /\ Read = base_position + pos
      /\ current \in nodes /\ text \in Seq(Alphabet) /\ input \in Seq(Alphabet)
      /\ ~trie_open /\ Read < Len(input) /\ input[Read + 1] = text[pos + 1] /\ ~Resting
      /\ LongestBefore(nodes, input, Read, current, pos < Len(text), input[Read + 1])
  BY <1>1, LoopFacts
<1>4. /\ Read' = Read + 1 /\ Scanning' /\ Resting' = Resting
  BY <1>1, <1>3 DEF Read, Scanning, Resting
<1>5. current = Root
  BY <1>1, <1>2, <1>3 DEF TrieInv, FailureInv
<1>6. Append(Root, input[Read + 1]) \notin nodes
  BY <1>1, <1>3, <1>5 DEF HasGoto, Goto
<1>7. Read \in Nat
  BY <1>3
<1> HIDE DEF Read
<1>8. LongestEnding(nodes, input, Read + 1, Root)
  BY <1>2, <1>3, <1>5, <1>6, <1>7, NodesArePaths, SkipKeepsLongest
     DEF Root
<1>9. {w \in words : EndsAt(w, input, Read + 1)} = {}
  <2>0. Read + 1 \in Nat
    BY <1>7
  <2>1. {w \in words : EndsAt(w, input, Read + 1)} = matched[Root]
    BY <1>2, <1>3, <1>8, <2>0, LongestMatches
  <2>2. ASSUME NEW w \in words
        PROVE  ~IsTail(w, Root)
    BY <1>2 DEF TrieInv, WordsInv, IsTail, EndsAt, Root
  <2>3. matched[Root] \subseteq Tails(Root)
    BY <1>2 DEF TrieInv, TrieTypeOK, MatchedInv
  <2> QED
    BY <2>1, <2>2, <2>3 DEF Tails
<1>10. OccurrencesUpTo(words, input, Read + 1) = found
  <2>1. OccurrencesUpTo(words, input, Read + 1) = OccurrencesUpTo(words, input, Read)
    BY <1>7, <1>9, OccurrencesNext
  <2> QED
    BY <2>1 DEF SearchInv, FoundIsExact
<1>11. SearchTypeOK'
  BY <1>1, <1>2, <1>3 DEF SearchInv, SearchTypeOK
<1>12. TextInv'
  BY <1>1, <1>2, <1>3, <1>4 DEF SearchInv, TextInv, Scanning
<1>13. LongestBefore(nodes, input, Read + 1, Root, pos' < Len(text), text[pos' + 1])
  BY <1>2, <1>8, NodesArePaths, LongestIsBefore
<1>14. NodeInv'
  BY <1>1, <1>2, <1>4, <1>5, <1>13 DEF SearchInv, NodeInv, Scanning
<1>15. FoundIsExact'
  BY <1>1, <1>2, <1>4, <1>10 DEF FoundIsExact
<1> QED
  BY <1>2, <1>11, <1>12, <1>14, <1>15 DEF SearchInv

(* At the end of the text no longer node can be extended: there is none.   *)
LEMMA EndOfTextStep ==
  ASSUME SearchInv, EndOfText
  PROVE  SearchInv' /\ found = Occurrences(words, input)
<1>1. /\ UNCHANGED <<text, position, input, found>>
      /\ Scanning /\ pos = Len(text) /\ last_node' = current
      /\ base_position' = base_position + pos /\ drained' = TRUE
      /\ pc' = "ready" /\ current' = Root /\ pos' = 0
  BY DEF EndOfText, Return
<1>2. /\ TrieInv' /\ TrieInv /\ UNCHANGED <<nodes, words, trie_open, phase>>
  BY TrieStaysSame DEF EndOfText, SearchInv
<1>3. /\ base_position \in Nat /\ pos \in Nat /\ Read = base_position + pos
      /\ current \in nodes /\ text \in Seq(Alphabet) /\ input \in Seq(Alphabet)
      /\ ~trie_open /\ Len(input) = base_position + Len(text) /\ phase = "idle"
      /\ LongestBefore(nodes, input, Read, current, pos < Len(text), text[pos + 1])
  BY <1>1, LoopFacts
<1>4. /\ Read' = Read /\ ~Scanning' /\ Resting' /\ Len(input) = Read
  BY <1>1, <1>3 DEF Read, Scanning, Resting
<1>5. \A m \in nodes : Len(m) \in Nat
  BY <1>2, NodesArePaths
<1>6. ~(pos < Len(text))
  BY <1>1, <1>3
<1>7. LongestEnding(nodes, input, Read, current)
  BY <1>3, <1>5, <1>6 DEF LongestEnding, LongestBefore
<1>8. SearchTypeOK'
  <2>1. Root \in nodes /\ 0 \in 0..Len(text)
    BY <1>2, <1>3, NodesArePaths
  <2> QED
    BY <1>1, <1>2, <1>3, <2>1 DEF SearchInv, SearchTypeOK
<1>9. TextInv'
  BY <1>1, <1>2, <1>3, <1>4 DEF TextInv
<1>10. NodeInv'
  BY <1>1, <1>2, <1>4, <1>7 DEF NodeInv
<1>11. FoundIsExact'
  BY <1>1, <1>2, <1>4 DEF SearchInv, FoundIsExact
<1>12. found = Occurrences(words, input)
  BY <1>4 DEF SearchInv, FoundIsExact, Occurrences
<1> QED
  BY <1>2, <1>8, <1>9, <1>10, <1>11, <1>12 DEF SearchInv

LEMMA SearchInvStep ==
  ASSUME SearchInv, [ClientNext]_vars
  PROVE  SearchInv'
<1>1. ASSUME NEW t \in Chunk, NEW keep \in BOOLEAN, SetText(t, keep)
      PROVE  SearchInv'
  BY <1>1, SetTextStep
<1>2. ASSUME NEW t \in Chunk, NEW keep \in BOOLEAN,
             keep \/ last_node = Root, Search(t, keep)
      PROVE  SearchInv'
  BY <1>2, SearchStep
<1>3. CASE UNCHANGED vars
  BY <1>3, TrieStaysSame
     DEF vars, scanVars, SearchInv, SearchTypeOK, TextInv, NodeInv,
         FoundIsExact, Read, Scanning, Resting
<1> QED
  BY <1>1, <1>2, <1>3, BuildStep, FindNextOpenStep, FindNextStep, AdvanceStep,
     ReportNextStep, ReportStep, ReportStopStep, FailStep, SkipStep,
     EndOfTextStep
     DEF ClientNext, CarefulSearch, ScanStep

LEMMA SearchInvariant == ClientSpec => []SearchInv
BY SearchInvInit, SearchInvStep, PTL DEF ClientSpec

------------------------------------------------------------------------------
(***************************************************************************)
(* The theorems                                                            *)
(***************************************************************************)

(* The search keeps to the types, and the place findAll keeps between two  *)
(* matches is in the text.                                                 *)
THEOREM SearchTypeCorrect == ClientSpec => []SearchTypeOK
<1>1. SearchInv => SearchTypeOK
  BY DEF SearchInv
<1> QED
  BY <1>1, SearchInvariant, PTL

(* At every moment exactly the occurrences of the accepted words in what   *)
(* was read of the stream have been reported, whatever they are, however   *)
(* the stream was cut into chunks, and whether each chunk was searched by  *)
(* findAll or by ac_trie_search, which its call-back may have stopped.     *)
THEOREM SearchCorrect == ClientSpec => []FoundIsExact
<1>1. SearchInv => FoundIsExact
  BY DEF SearchInv
<1> QED
  BY <1>1, SearchInvariant, PTL

LEMMA RestingIsComplete == SearchInv => DrainedIsComplete
<1> SUFFICES ASSUME SearchInv, Resting
             PROVE  found = Occurrences(words, input)
  BY DEF DrainedIsComplete, Resting
<1>1. Read = Len(input)
  BY DEF SearchInv, SearchTypeOK, TextInv, Read, Scanning, Resting
<1> QED
  BY <1>1 DEF SearchInv, FoundIsExact, Occurrences

(* "No more matches" is said only when there are no more.                  *)
THEOREM DrainedCorrect == ClientSpec => []DrainedIsComplete
BY RestingIsComplete, SearchInvariant, PTL

(* The words findAll has been given                                        *)
WordsFound == {o[1] : o \in found}

(* The words that occur in the text: those whose ids FindAll of module     *)
(* Paraglob returns                                                        *)
OccurringWords == {w \in words : \E e \in 1..Len(input) : EndsAt(w, input, e)}

(* When a text has been read to its end the words delivered are those that *)
(* occur in it and no others, whatever was added, searched and stopped     *)
(* before: findAll returns what FindAll of module Paraglob says.           *)
THEOREM DrainedWordsOccur == ClientSpec => [](Resting => WordsFound = OccurringWords)
<1>1. ASSUME DrainedIsComplete, Resting
      PROVE  WordsFound = OccurringWords
  <2>1. found = Occurrences(words, input)
    BY <1>1 DEF DrainedIsComplete
  <2>2. ASSUME NEW w \in WordsFound
        PROVE  w \in OccurringWords
    <3>1. PICK o \in found : w = o[1]
      BY DEF WordsFound
    <3>2. o \in words \X (1..Len(input)) /\ EndsAt(o[1], input, o[2])
      BY <2>1 DEF Occurrences, OccurrencesUpTo
    <3> QED
      BY <3>1, <3>2 DEF OccurringWords
  <2>3. ASSUME NEW w \in OccurringWords
        PROVE  w \in WordsFound
    <3>1. PICK e \in 1..Len(input) : EndsAt(w, input, e)
      BY DEF OccurringWords
    <3>2. <<w, e>> \in found
      BY <2>1, <3>1 DEF Occurrences, OccurrencesUpTo, OccurringWords
    <3>3. <<w, e>>[1] = w
      OBVIOUS
    <3> QED
      BY <3>2, <3>3 DEF WordsFound
  <2> QED
    BY <2>2, <2>3
<1>2. DrainedIsComplete => (Resting => WordsFound = OccurringWords)
  BY <1>1
<1> QED
  BY <1>2, DrainedCorrect, PTL

(* The loop stands in the longest node that what it read ends with, or, on *)
(* the way along the failure links, in the longest that may go on.         *)
THEOREM CurrentCorrect == ClientSpec => []CurrentIsLongest
<1>1. SearchInv => CurrentIsLongest
  <2> SUFFICES ASSUME SearchInv, Scanning
               PROVE  CurrentIsLongest
    BY DEF CurrentIsLongest
  <2> DEFINE read == SubSeq(input, 1, Read)
  <2>1. /\ LongestBefore(nodes, input, Read, current, pos < Len(text), text[pos + 1])
        /\ input \in Seq(Alphabet) /\ Read \in 0..Len(input)
        /\ nodes \in SUBSET Seq(Alphabet)
    BY LoopFacts, NodesArePaths DEF SearchInv
  <2>2. \A m \in nodes : EndsAt(m, input, Read) <=> IsTail(m, read)
    BY <2>1, EndsAtIsTail
  <2> HIDE DEF read
  <2>3. IsTail(current, read)
    BY <2>1, <2>2 DEF LongestBefore
  <2>4. \A m \in nodes : IsTail(m, read) /\ Len(m) > Len(current) =>
          pos < Len(text) /\ Append(m, text[pos + 1]) \notin nodes
    BY <2>1, <2>2 DEF LongestBefore
  <2> QED
    BY <2>3, <2>4 DEF CurrentIsLongest, read
<1> QED
  BY <1>1, SearchInvariant, PTL

------------------------------------------------------------------------------
(***************************************************************************)
(* The search implements the abstract matcher: a step of the loop delivers *)
(* the words that end at the next position at which some word ends, or     *)
(* changes nothing the matcher has.                                        *)
(***************************************************************************)

LEMMA PromiseInit == Init => Promise!Init
BY DEF Init, TrieInit, SearchInit, Resting, Promise!Init

(* A stutter of the matcher *)
LEMMA PromiseStutters ==
  ASSUME UNCHANGED <<words, trie_open, input, found, Resting>>
  PROVE  UNCHANGED Promise!matcherVars
BY DEF Promise!matcherVars

(* Words are inserted and the matcher is sealed between two texts only.    *)
LEMMA PromiseBuild ==
  ASSUME SearchInv, BuildNext
  PROVE  Promise!Next \/ UNCHANGED Promise!matcherVars
<1>1. UNCHANGED <<input, found, Resting>>
  BY DEF BuildNext, scanVars, Resting
<1>2. ASSUME NEW w \in Offered, Idle, AddNew(w)
      PROVE  Promise!Next
  <2>1. Len(w) > 0
    BY <1>2 DEF AddNew, Acceptable
  <2>2. Promise!Insert(w)
    BY <1>1, <1>2, <2>1 DEF AddNew, Acceptable, Idle, Promise!Insert
  <2> QED
    BY <2>2 DEF Promise!Next
<1>3. ASSUME NEW w \in Offered, AddRefused(w) \/ AddDuplicate(w)
      PROVE  UNCHANGED Promise!matcherVars
  BY <1>1, <1>3, PromiseStutters DEF AddRefused, AddDuplicate
<1>4. ASSUME FinalizeBegin \/ SetFailureEnd \/ CollectStep \/ CollectEnd
      PROVE  UNCHANGED Promise!matcherVars
  BY <1>1, <1>4, PromiseStutters
     DEF FinalizeBegin, SetFailureEnd, CollectStep, CollectEnd
<1>5. ASSUME NEW n \in nodes, SetFailure(n) \/ CollectBegin(n)
      PROVE  UNCHANGED Promise!matcherVars
  BY <1>1, <1>5, PromiseStutters DEF SetFailure, CollectBegin
<1>6. ASSUME FinalizeEnd
      PROVE  Promise!Next
  <2>1. Resting
    BY <1>6 DEF FinalizeEnd, SearchInv, TextInv
  <2>2. Promise!Seal
    BY <1>1, <1>6, <2>1 DEF FinalizeEnd, Promise!Seal
  <2> QED
    BY <2>2 DEF Promise!Next
<1> QED
  BY <1>2, <1>3, <1>4, <1>5, <1>6 DEF BuildNext, FinalizeStep, Add

(* A match is reported with all others at its position: a delivery.        *)
LEMMA PromiseDeliver ==
  ASSUME SearchInv, ReportNext \/ Report
  PROVE  Promise!Deliver
<1>1. /\ UNCHANGED <<words, trie_open, input, drained>>
      /\ found' = found \cup Matches
      /\ Scanning /\ Match
      /\ (pc = "search" /\ pc' = pc) \/ pc = "findnext"
  BY DEF ReportNext, Report, trieVars, Scanning
<1>2. /\ ~trie_open /\ Read \in Nat /\ Read < Len(input) /\ Len(input) \in Nat
      /\ Goto \in final
  BY <1>1, LoopFacts DEF Match
<1>3. ~Resting /\ Resting' = Resting
  <2>1. CASE pc = "search" /\ pc' = pc
    BY <1>1, <2>1 DEF Resting
  <2>2. CASE pc = "findnext"
    <3>1. ~drained /\ ~drained'
      BY <1>1, <2>2 DEF SearchInv, TextInv
    <3> QED
      BY <3>1 DEF Resting
  <2> QED
    BY <1>1, <2>1, <2>2
<1>4. /\ Matches = {<<w, Read + 1>> : w \in matched[Goto]}
      /\ found \cup Matches = OccurrencesUpTo(words, input, Read + 1)
  BY <1>1, MatchesAreWords
<1>5. found = OccurrencesUpTo(words, input, Read)
  BY DEF SearchInv, FoundIsExact
<1> HIDE DEF Read, Matches, Goto
<1>6. Read + 1 \in 1..Len(input) /\ (Read + 1) - 1 = Read
  BY <1>2
<1>7. \A W, s, n : Promise!OccurrencesUpTo(W, s, n) = OccurrencesUpTo(W, s, n)
  BY DEF Promise!OccurrencesUpTo, OccurrencesUpTo, Promise!EndsAt, EndsAt
<1>8. found' # found
  <2>1. PICK w : w \in matched[Goto]
    BY <1>2 DEF SearchInv, TrieInv, TrieTypeOK, MatchedInv
  <2>2. <<w, Read + 1>> \in found'
    BY <1>1, <1>4, <2>1
  <2>3. <<w, Read + 1>> \notin found
    BY <1>2, <1>5 DEF OccurrencesUpTo
  <2> QED
    BY <2>2, <2>3
<1>9. \E e \in 1..Len(input) :
        /\ found = Promise!OccurrencesUpTo(words, input, e - 1)
        /\ found' = Promise!OccurrencesUpTo(words, input, e)
  <2>1. /\ found = Promise!OccurrencesUpTo(words, input, (Read + 1) - 1)
        /\ found' = Promise!OccurrencesUpTo(words, input, Read + 1)
    BY <1>1, <1>4, <1>5, <1>6, <1>7
  <2> QED
    BY <1>6, <2>1
<1> QED
  BY <1>1, <1>2, <1>3, <1>8, <1>9 DEF Promise!Deliver

(* The end of the text is where there are no more.                         *)
LEMMA PromiseDrain ==
  ASSUME SearchInv, EndOfText
  PROVE  Promise!Drain
<1>1. /\ UNCHANGED <<words, trie_open, input, found>> /\ Scanning
      /\ drained' = TRUE /\ pc' = "ready"
  BY DEF EndOfText, Return, trieVars
<1>2. ~trie_open /\ ~Resting /\ Resting' = TRUE
  BY <1>1, LoopFacts DEF Resting
<1>3. found = Occurrences(words, input)
  BY EndOfTextStep
<1>4. Promise!Occurrences(words, input) = Occurrences(words, input)
  BY DEF Promise!Occurrences, Occurrences, Promise!OccurrencesUpTo,
         OccurrencesUpTo, Promise!EndsAt, EndsAt
<1> QED
  BY <1>1, <1>2, <1>3, <1>4 DEF Promise!Drain

(* Stopping the search stops the matcher: it forgets the chunk.            *)
LEMMA PromiseStop ==
  ASSUME SearchInv, ReportStop
  PROVE  Promise!Stop
<1>1. /\ UNCHANGED <<words, trie_open, drained>> /\ Scanning
      /\ pc = "search" /\ pc' = "ready"
      /\ input' = SubSeq(input, 1, base_position)
      /\ found' = {o \in found : o[2] <= base_position}
  BY DEF ReportStop, Return, trieVars, Scanning
<1>2. ~trie_open /\ ~Resting /\ Resting' /\ drained
  BY <1>1, LoopFacts DEF SearchInv, TextInv, Resting
<1>3. base_position \in 0..Len(input)
  BY <1>1, <1>2 DEF SearchInv, TextInv, SearchTypeOK, Path
<1>4. found' = Occurrences(words, input') /\ found' \subseteq found
  BY <1>1, ReportStopStep
<1>5. Promise!Occurrences(words, input') = Occurrences(words, input')
  BY DEF Promise!Occurrences, Occurrences, Promise!OccurrencesUpTo,
         OccurrencesUpTo, Promise!EndsAt, EndsAt
<1> QED
  BY <1>1, <1>2, <1>3, <1>4, <1>5 DEF Promise!Stop

LEMMA PromiseStep ==
  ASSUME SearchInv, [ClientNext]_vars
  PROVE  [Promise!Next]_(Promise!matcherVars)
<1>1. ASSUME NEW t \in Chunk, NEW keep \in BOOLEAN,
             SetText(t, keep) \/ Search(t, keep)
      PROVE  Promise!Next
  <2>1. Resting /\ ~Resting'
    BY <1>1 DEF SetText, Search, Idle, Resting
  <2>2. Promise!Feed(t, keep)
    BY <1>1, <2>1 DEF SetText, Search, Feed, trieVars, Promise!Feed
  <2> QED
    BY <2>2 DEF Promise!Next
<1>2. ASSUME FindNextOpen
      PROVE  Promise!Next
  <2>1. Promise!Ignore
    BY <1>2 DEF FindNextOpen, trieVars, Promise!Ignore, Resting
  <2> QED
    BY <2>1 DEF Promise!Next
<1>3. ASSUME FindNext \/ Advance \/ Fail \/ Skip
      PROVE  UNCHANGED Promise!matcherVars
  <2>1. UNCHANGED <<words, trie_open, input, found, drained>>
    BY <1>3 DEF FindNext, Advance, Fail, Skip, trieVars
  <2>2. Resting' = Resting
    <3>1. CASE FindNext
      BY <3>1 DEF FindNext, Resting
    <3>2. CASE Advance \/ Fail \/ Skip
      BY <3>2 DEF Advance, Fail, Skip, Resting
    <3> QED
      BY <1>3, <3>1, <3>2
  <2> QED
    BY <2>1, <2>2, PromiseStutters
<1>4. ASSUME ReportNext \/ Report
      PROVE  Promise!Next
  BY <1>4, PromiseDeliver DEF Promise!Next
<1>5. ASSUME EndOfText
      PROVE  Promise!Next
  BY <1>5, PromiseDrain DEF Promise!Next
<1>6. ASSUME ReportStop
      PROVE  Promise!Next
  BY <1>6, PromiseStop DEF Promise!Next
<1>7. CASE UNCHANGED vars
  BY <1>7, PromiseStutters DEF vars, trieVars, scanVars, Resting
<1> QED
  BY <1>1, <1>2, <1>3, <1>4, <1>5, <1>6, <1>7, PromiseBuild
     DEF ClientNext, CarefulSearch, ScanStep

(* The client's calls and the trie implement the matcher: for every set of *)
(* words and every stream of chunks the occurrences are delivered from     *)
(* left to right, none twice, none left out, and the end is told at the    *)
(* end.                                                                    *)
THEOREM ClientImplements == ClientSpec => ImplementsMatcher
<1>1. SearchInv /\ [ClientNext]_vars => [Promise!Next]_(Promise!matcherVars)
  BY PromiseStep
<1> QED
  BY <1>1, SearchInvariant, PromiseInit, PTL
     DEF ClientSpec, ImplementsMatcher, Promise!Spec
==============================================================================
