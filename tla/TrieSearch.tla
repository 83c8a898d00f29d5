----------------------------- MODULE TrieSearch ------------------------------
(***************************************************************************)
(* Searching the trie: ac_trie_settext, ac_trie_findnext and               *)
(* ac_trie_search (ahocorasick.c), used by AhoCorasickPlus::search and     *)
(* findAll, or called directly with a call-back of the client's own.       *)
(*                                                                         *)
(* Every iteration of the loop of ac_trie_search is a step.  findAll calls *)
(* ac_trie_findnext until it reports no match: a client of this module     *)
(* sets a text when the one before is drained and asks for the next match  *)
(* while it is not.  It may also search a text with ac_trie_search and a   *)
(* call-back, and go on with the same stream in either way.                *)
(***************************************************************************)
EXTENDS Trie

CONSTANTS
  Chunk,      \* the pieces of text clients may pass
  MaxInput    \* bound on the length of a stream of pieces

ASSUME SearchAssumption == Chunk \subseteq Seq(Alphabet) /\ MaxInput \in Nat

VARIABLES
  text,           \* the text the loop reads
  position,       \* thiz->position: where the next _findnext starts in text
  last_node,      \* thiz->last_node: the node it starts in
  base_position,  \* thiz->base_position: length of the stream before text
  pc,             \* the loop runs for "findnext", for "search", or "ready"
  current, pos,   \* the loop's locals: the current node, alphabets read;
                  \* the root and 0 when it does not run
  drained,        \* the last _findnext reported no match
  input,          \* history: the stream of texts set since the last reset
  found           \* history: the matches reported of it, <<word, end>>

scanVars == <<text, position, last_node, base_position, pc, current, pos,
              drained, input, found>>

vars == <<trieVars, scanVars>>

SearchInit ==
  /\ text = << >>
  /\ position = 0
  /\ last_node = Root
  /\ base_position = 0
  /\ pc = "ready"
  /\ current = Root
  /\ pos = 0
  /\ drained = TRUE
  /\ input = << >>
  /\ found = {}

Init == TrieInit /\ SearchInit

------------------------------------------------------------------------------
(* No other call is in progress: the library has one thread and the texts  *)
(* before have been drained.                                               *)
Resting == pc = "ready" /\ drained

Idle == phase = "idle" /\ Resting

Fits(t, keep) == Len(t) + (IF keep THEN Len(input) ELSE 0) <= MaxInput

(* The history of a text that opens a stream or goes on with it *)
Feed(t, keep) ==
  /\ input' = IF keep THEN input \o t ELSE t
  /\ found' = IF keep THEN found ELSE {}

(* ac_trie_reset, unless the text is the next chunk *)
Reset(keep) ==
  /\ last_node' = IF keep THEN last_node ELSE Root
  /\ base_position' = IF keep THEN base_position ELSE 0

(* ac_trie_settext *)
SetText(t, keep) ==
  /\ Idle
  /\ Fits(t, keep)
  /\ Reset(keep)
  /\ text' = t
  /\ position' = 0
  /\ drained' = FALSE
  /\ Feed(t, keep)
  /\ UNCHANGED <<trieVars, pc, current, pos>>

(* ac_trie_findnext of an open trie: the search fails, no match is         *)
(* reported.  The text was not read; the history forgets it.               *)
FindNextOpen ==
  /\ phase = "idle" /\ pc = "ready" /\ ~drained
  /\ trie_open
  /\ drained' = TRUE
  /\ input' = << >>
  /\ UNCHANGED <<trieVars, text, position, last_node, base_position, pc,
                 current, pos, found>>

(* As StartPosition, but the text is searched from its beginning again.    *)
StartPositionZero == 0

(* Where _findnext starts *)
StartPosition == position

(* As StartNode, but the node the loop stood in is forgotten.              *)
StartNodeRoot == Root

(* The node in which the loop starts, read before any reset *)
StartNode == last_node

(* ac_trie_findnext: the loop starts where the last match was reported *)
FindNext ==
  /\ phase = "idle" /\ pc = "ready" /\ ~drained
  /\ ~trie_open
  /\ pc' = "findnext"
  /\ pos' = StartPosition
  /\ current' = StartNode
  /\ UNCHANGED <<trieVars, text, position, last_node, base_position,
                 drained, input, found>>

(* ac_trie_search: current is read from last_node before the reset *)
Search(t, keep) ==
  /\ Idle
  /\ ~trie_open
  /\ Fits(t, keep)
  /\ pc' = "search"
  /\ pos' = 0
  /\ current' = StartNode
  /\ Reset(keep)
  /\ text' = t
  /\ Feed(t, keep)
  /\ UNCHANGED <<trieVars, position, drained>>

------------------------------------------------------------------------------
Scanning == pc # "ready"

(* The edge for the next alphabet leads to this node, when it is one. *)
Goto == Append(current, text[pos + 1])

HasGoto == Goto \in nodes

(* As Matches, but the position is the one in the chunk.                   *)
MatchesInChunk == {<<w, pos + 1>> : w \in matched[Goto]}

(* As Matches, but of the patterns of a node only its own path.            *)
MatchesOfPath ==
  {<<w, pos + 1 + base_position>> : w \in matched[Goto] \cap {Goto}}

(* What the call-back is given *)
Matches == {<<w, pos + 1 + base_position>> : w \in matched[Goto]}

(* An edge to a node that is not final *)
Advance ==
  /\ Scanning
  /\ pos < Len(text)
  /\ HasGoto
  /\ Goto \notin final
  /\ current' = Goto
  /\ pos' = pos + 1
  /\ UNCHANGED <<trieVars, text, position, last_node, base_position, pc,
                 drained, input, found>>

(* An edge to a final node: the call-back gets what the node matches. *)
Match == pos < Len(text) /\ HasGoto /\ Goto \in final

Return == pc' = "ready" /\ current' = Root /\ pos' = 0

(* As StopPosition, but the alphabet after the match is skipped.           *)
StopPositionNext == pos + 2

(* Where the loop stands when _findnext's call-back stops it *)
StopPosition == pos + 1

(* The call-back of _findnext stops the loop; where it stood is kept. *)
ReportNext ==
  /\ pc = "findnext"
  /\ Match
  /\ found' = found \cup Matches
  /\ position' = StopPosition
  /\ last_node' = Goto
  /\ Return
  /\ UNCHANGED <<trieVars, text, base_position, drained, input>>

(* The client's call-back goes on ... *)
Report ==
  /\ pc = "search"
  /\ Match
  /\ found' = found \cup Matches
  /\ current' = Goto
  /\ pos' = pos + 1
  /\ UNCHANGED <<trieVars, text, position, last_node, base_position, pc,
                 drained, input>>

(* ... or stops the search.  Nothing is saved: the library forgets the     *)
(* chunk, and so does the history.                                         *)
ReportStop ==
  /\ pc = "search"
  /\ Match
  /\ Return
  /\ input' = SubSeq(input, 1, base_position)
  /\ found' = {o \in found : o[2] <= base_position}
  /\ UNCHANGED <<trieVars, text, position, last_node, base_position, drained>>

(* As Fallback, but straight to the root.                                  *)
FallbackRoot == Root

Fallback == failure[current]

(* No edge: follow the failure link, ... *)
Fail ==
  /\ Scanning
  /\ pos < Len(text)
  /\ ~HasGoto
  /\ Fallback # NoNode
  /\ current' = Fallback
  /\ UNCHANGED <<trieVars, text, position, last_node, base_position, pc, pos,
                 drained, input, found>>

(* ... or, in the root, skip the alphabet. *)
Skip ==
  /\ Scanning
  /\ pos < Len(text)
  /\ ~HasGoto
  /\ failure[current] = NoNode
  /\ pos' = pos + 1
  /\ UNCHANGED <<trieVars, text, position, last_node, base_position, pc,
                 current, drained, input, found>>

(* The text is read to its end. *)
EndOfText ==
  /\ Scanning
  /\ pos = Len(text)
  /\ last_node' = current
  /\ base_position' = base_position + pos
  /\ Return
  /\ drained' = TRUE
  /\ UNCHANGED <<trieVars, text, position, input, found>>

ScanStep == Advance \/ ReportNext \/ Report \/ ReportStop \/ Fail \/ Skip
               \/ EndOfText

(***************************************************************************)
(* The client sets a text and asks for the next match until there is none, *)
(* as findAll does, or calls ac_trie_search.  With the latter it is        *)
(* careful: it goes on with a stream, or starts a new one only where the   *)
(* loop happens to stand in the root, because ac_trie_search reads the     *)
(* node to start in before it resets it.                                   *)
(***************************************************************************)
BuildNext ==
  \/ Idle /\ (FinalizeBegin \/ \E w \in Offered : Add(w)) /\ UNCHANGED scanVars
  \/ FinalizeStep /\ UNCHANGED scanVars

CarefulSearch(t, keep) == (keep \/ last_node = Root) /\ Search(t, keep)

ClientNext ==
  \/ BuildNext
  \/ \E t \in Chunk, keep \in BOOLEAN : SetText(t, keep) \/ CarefulSearch(t, keep)
  \/ FindNextOpen \/ FindNext
  \/ ScanStep

ClientSpec == Init /\ [][ClientNext]_vars

(***************************************************************************)
(* findAll and ac_trie_search are calls of a single-threaded program: the  *)
(* one goes on asking and the loop of the other goes on running, and so    *)
(* does ac_trie_finalize.                                                  *)
(***************************************************************************)
FairClientSpec ==
  /\ ClientSpec
  /\ WF_vars(FinalizeStep /\ UNCHANGED scanVars)
  /\ WF_vars(FindNextOpen \/ FindNext)
  /\ WF_vars(ScanStep)
------------------------------------------------------------------------------
(* How much of the stream has been read: the loop's own count while it     *)
(* runs, the saved position between two matches of findAll.                *)
Read ==
  base_position + (IF Scanning THEN pos ELSE IF drained THEN 0 ELSE position)

(* The type invariant of the search; the place kept between two matches of *)
(* a text is in the text.                                                  *)
SearchTypeOK ==
  /\ text \in Path
  /\ position \in Nat
  /\ ~drained => position <= Len(text)
  /\ last_node \in nodes
  /\ base_position \in Nat
  /\ pc \in {"ready", "findnext", "search"}
  /\ current \in nodes
  /\ pos \in 0..Len(text)
  /\ drained \in BOOLEAN
  /\ input \in Path
  /\ found \subseteq words \X Nat

(* At every point of a search, and across the chunks of a stream, the      *)
(* matches reported are the occurrences of the accepted patterns in what   *)
(* was read: each of them, whichever patterns nest or overlap or straddle  *)
(* two chunks, at its place in the whole stream, and no other.             *)
FoundIsExact == found = OccurrencesUpTo(words, input, Read)

(* "No more matches" is said only when there are none: the stream was read *)
(* to its end.                                                             *)
DrainedIsComplete == Resting => found = Occurrences(words, input)

(* The node the loop stands in is the longest tail of what was read that   *)
(* is a node; while failure links are followed, the longest one that can   *)
(* still be extended by the next alphabet.                                 *)
CurrentIsLongest ==
  Scanning =>
    LET read == SubSeq(input, 1, Read) IN
      /\ IsTail(current, read)
      /\ \A m \in nodes : IsTail(m, read) /\ Len(m) > Len(current) =>
           pos < Len(text) /\ Append(m, text[pos + 1]) \notin nodes

(* A text that was set or is searched is drained, or the call-back stops   *)
(* the search: neither a chain of failure links nor findAll asking again   *)
(* and again goes on for ever.                                             *)
TextIsDrained == ~Resting ~> Resting

(* The client's calls and the trie they search implement the abstract      *)
(* matcher, whichever way the chunks of a stream are searched.             *)
Promise == INSTANCE Matcher WITH sealed <- ~trie_open, drained <- Resting

ImplementsMatcher == Promise!Spec
==============================================================================
