------------------------------- MODULE Replace -------------------------------
(***************************************************************************)
(* Replacing patterns in a stream of chunks: multifast_replace and         *)
(* multifast_rep_flush (replace.c), for a trie that is closed.  Its nodes, *)
(* failure links and matches are those of module Trie, for which TrieProofs *)
(* shows what they are; here they are operators.                           *)
(*                                                                         *)
(* Every iteration of the main loop, of the loop that takes back nominees  *)
(* and of the loop that replaces them is a step.  A nominee is a pair of a *)
(* pattern and the position it ends at.  While no call runs the chunk is   *)
(* empty here: the library still has a pointer to it but may not read it.  *)
(***************************************************************************)
EXTENDS Words, SequencesExt

CONSTANTS
  Alphabet,   \* AC_ALPHABET_t
  Pattern,    \* ptext of the accepted patterns
  Rtext,      \* rtext of those that have one
  MaxLength,  \* AC_PATTRN_MAX_LENGTH
  BufferSize, \* MF_REPLACEMENT_BUFFER_SIZE
  Chunk,      \* the chunks clients may pass
  MaxInput    \* bound on the length of a stream

ASSUME ReplaceAssumption ==
  /\ Pattern \subseteq Seq(Alphabet) \ {<< >>}
  /\ DOMAIN Rtext \subseteq Pattern
  /\ \A w \in DOMAIN Rtext : Rtext[w] \in Seq(Alphabet)
  /\ MaxLength \in Nat /\ BufferSize \in Nat \ {0}
  /\ Chunk \subseteq Seq(Alphabet)

VARIABLES
  text,           \* thiz->text
  base_position,  \* thiz->base_position: length of the stream before text
  last_node,      \* thiz->last_node
  buffer,         \* the output not yet given to the call-back
  backlog,        \* the end of the stream that is not yet decided about
  noms,           \* the nominees
  curser,         \* the stream up to here was replaced
  replace_mode,
  pc,             \* "ready"; in multifast_replace "scan", "book", "replace";
                  \* in multifast_rep_flush "flush"
  current, position_r, nom,  \* locals of multifast_replace
  ended,          \* no stream was begun since the last one was flushed
  input, output   \* history: the stream, and what the call-back was given

vars == <<text, base_position, last_node, buffer, backlog, noms, curser,
          replace_mode, pc, current, position_r, nom, ended, input, output>>

Root == << >>

NoPattern == <<Root, 0>>

Mode == {"NORMAL", "LAZY"}

(* The closed trie *)
Nodes == {Root} \cup UNION {Prefixes(w) : w \in Pattern}

Longest(W) == CHOOSE w \in W : \A v \in W : Len(v) <= Len(w)

HasFailure(n) == n # Root

(* As Failure, but the node itself.                                        *)
FailureSelf(n) == n

Failure(n) == Longest({m \in Nodes : IsProperTail(m, n)})

(* The patterns in the node's matched array that have a replacement *)
Replaceable(n) == {w \in DOMAIN Rtext : IsTail(w, n)}

(* node_book_replacement *)
ToBeReplaced(n) == Longest(Replaceable(n))

(* mf_repdata_bookreplacements: some node has something to replace         *)
HasReplacement == \E n \in Nodes : Replaceable(n) # {}

------------------------------------------------------------------------------
Init ==
  /\ text = << >> /\ base_position = 0 /\ last_node = Root
  /\ buffer = << >> /\ backlog = << >> /\ noms = << >> /\ curser = 0
  /\ replace_mode = "NORMAL"
  /\ pc = "ready" /\ current = Root /\ position_r = 0 /\ nom = NoPattern
  /\ ended = TRUE /\ input = << >> /\ output = << >>

(* What multifast_replace begins with.  Once the backlog was written       *)
(* behind its end, nothing more is said.                                   *)
Replace(t, mode) ==
  /\ pc = "ready" /\ HasReplacement
  /\ Len(backlog) <= MaxLength
  /\ ended \/ mode = replace_mode
  /\ (IF ended THEN 0 ELSE Len(input)) + Len(t) <= MaxInput
  /\ replace_mode' = mode
  /\ text' = t
  /\ current' = last_node
  /\ position_r' = 0
  /\ pc' = "scan"
  /\ ended' = FALSE
  /\ input' = IF ended THEN t ELSE input \o t
  /\ output' = IF ended THEN << >> ELSE output
  /\ UNCHANGED <<base_position, last_node, buffer, backlog, noms, curser, nom>>

Scanning == pc = "scan" /\ position_r < Len(text)

Goto == Append(current, text[position_r + 1])

repUnchanged == UNCHANGED <<text, base_position, last_node, buffer, backlog,
                            curser, replace_mode, ended, input, output>>

(* An edge; what its node has to replace becomes a nominee. *)
Follow ==
  /\ Scanning
  /\ Goto \in Nodes
  /\ current' = Goto
  /\ position_r' = position_r + 1
  /\ IF Replaceable(Goto) = {} THEN UNCHANGED <<pc, nom>>
     ELSE /\ pc' = "book"
          /\ nom' = <<ToBeReplaced(Goto), base_position + position_r + 1>>
  /\ noms' = noms /\ repUnchanged

(* No edge: the failure link, ... *)
Fail ==
  /\ Scanning
  /\ Goto \notin Nodes
  /\ HasFailure(current)
  /\ current' = Failure(current)
  /\ UNCHANGED <<pc, position_r, nom, noms>> /\ repUnchanged

(* ... or, in the root, the next alphabet *)
Skip ==
  /\ Scanning
  /\ Goto \notin Nodes
  /\ ~HasFailure(current)
  /\ position_r' = position_r + 1
  /\ UNCHANGED <<pc, current, nom, noms>> /\ repUnchanged

(* mf_repdata_booknominee *)
Start(n) == n[2] - Len(n[1])

(* As Swollen, but not when both begin at the same place.                  *)
SwollenInside == noms # << >> /\ Start(nom) < Start(Last(noms))

(* The last nominee is a factor of the new one. *)
Swollen == noms # << >> /\ Start(nom) <= Start(Last(noms))

(* As Overlaps, but what was replaced already is not looked at.            *)
OverlapsNominee == noms # << >> /\ Start(nom) < Last(noms)[2]

(* The new nominee overlaps with what is or will be replaced. *)
Overlaps ==
  \/ Start(nom) < curser
  \/ noms # << >> /\ Start(nom) < Last(noms)[2]

TakeBack ==
  /\ pc = "book" /\ replace_mode = "NORMAL"
  /\ Swollen
  /\ noms' = Front(noms)
  /\ UNCHANGED <<pc, current, position_r, nom>> /\ repUnchanged

Push ==
  /\ pc = "book"
  /\ ~(IF replace_mode = "NORMAL" THEN Swollen ELSE Overlaps)
  /\ noms' = Append(noms, nom)
  /\ pc' = "scan" /\ nom' = NoPattern
  /\ UNCHANGED <<current, position_r>> /\ repUnchanged

Nullify ==
  /\ pc = "book" /\ replace_mode = "LAZY"
  /\ Overlaps
  /\ pc' = "scan" /\ nom' = NoPattern
  /\ UNCHANGED <<current, position_r, noms>> /\ repUnchanged

(* The chunk is read to its end: mf_repdata_do_replace is called.          *)
EndOfChunk ==
  /\ pc = "scan" /\ position_r = Len(text)
  /\ pc' = "replace"
  /\ UNCHANGED <<current, position_r, nom, noms>> /\ repUnchanged

------------------------------------------------------------------------------
(* As BacklogPos, but the node reached is not looked at.                   *)
BacklogPosEnd == base_position + Len(text)

(* From here on the stream may be the beginning of a pattern. *)
BacklogPos == base_position + Len(text) - Len(current)

(* The argument of mf_repdata_do_replace *)
to_position == IF pc = "flush" THEN base_position ELSE BacklogPos

(* As Flushed, but a full buffer waits for more.                           *)
FlushedLate(n) ==
  IF n = 0 THEN 0 ELSE BufferSize * ((n - 1) \div BufferSize)

(* How much of n alphabets mf_repdata_appendtext passes to the call-back   *)
Flushed(n) == BufferSize * (n \div BufferSize)

(* mf_repdata_appendtext *)
AppendText(t) ==
  LET all == buffer \o t
      n == Flushed(Len(all))
  IN  /\ output' = output \o SubSeq(all, 1, n)
      /\ buffer' = SubSeq(all, n + 1, Len(all))

BacklogBase == base_position - Len(backlog)

(* mf_repdata_appendfactor: what it appends, of the backlog or the chunk   *)
Factor(from, to) ==
  IF to < from \/ from < BacklogBase THEN << >>
  ELSE SubSeq(backlog \o text, from - BacklogBase + 1, to - BacklogBase)

Replacing == pc \in {"replace", "flush"} /\ to_position >= base_position

InRange == noms # << >> /\ Start(Head(noms)) < to_position

(* One nominee of the loop of mf_repdata_do_replace *)
ReplaceNominee ==
  /\ Replacing
  /\ InRange
  /\ AppendText(Factor(curser, Start(Head(noms))) \o Rtext[Head(noms)[1]])
  /\ curser' = Head(noms)[2]
  /\ noms' = Tail(noms)
  /\ UNCHANGED <<text, base_position, last_node, backlog, replace_mode, pc,
                 current, position_r, nom, ended, input>>

(* The text between the last nominee and to_position *)
Rest == Factor(curser, to_position)

(* As SaveFrom, but from where the cursor is.                              *)
SaveFromEnd == Len(text)

(* bg_pos_r of mf_repdata_savetobacklog *)
SaveFrom ==
  IF base_position < to_position THEN to_position - base_position ELSE 0

(* What mf_repdata_do_replace and multifast_replace end with.  The cursor  *)
(* is not before base_position then, and the whole backlog is consumed.    *)
Return ==
  /\ pc' = "ready" /\ text' = << >> /\ current' = Root /\ position_r' = 0
  /\ UNCHANGED <<replace_mode, nom, input>>

ReplaceEnd ==
  /\ pc = "replace" /\ ~(Replacing /\ InRange)
  /\ IF Replacing /\ to_position > curser
     THEN AppendText(Rest) /\ curser' = to_position
     ELSE UNCHANGED <<buffer, output, curser>>
  /\ backlog' = (IF Replacing /\ base_position <= curser' THEN << >> ELSE backlog)
                  \o SubSeq(text, SaveFrom + 1, Len(text))
  /\ last_node' = current
  /\ base_position' = base_position + position_r
  /\ Return
  /\ UNCHANGED <<noms, ended>>

(* multifast_rep_flush, keep = 1 *)
FlushKeep ==
  /\ pc = "ready" /\ ~ended
  /\ Len(backlog) <= MaxLength
  /\ output' = output \o buffer
  /\ buffer' = << >>
  /\ UNCHANGED <<text, base_position, last_node, backlog, noms, curser,
                 replace_mode, pc, current, position_r, nom, ended, input>>

(* multifast_rep_flush, keep = 0, begins with mf_repdata_do_replace *)
Flush ==
  /\ pc = "ready" /\ ~ended
  /\ Len(backlog) <= MaxLength
  /\ pc' = "flush"
  /\ UNCHANGED <<current, position_r, nom, noms>> /\ repUnchanged

(* mf_repdata_reset *)
ResetData ==
  buffer' = << >> /\ backlog' = << >> /\ curser' = 0 /\ noms' = << >>

(* ... and ends with mf_repdata_flush and mf_repdata_reset. *)
FlushEnd ==
  /\ pc = "flush" /\ ~InRange
  /\ output' = output \o buffer \o Rest
  /\ ResetData
  /\ last_node' = Root /\ base_position' = 0
  /\ ended' = TRUE
  /\ Return

Step == Follow \/ Fail \/ Skip \/ TakeBack \/ Push \/ Nullify \/ EndOfChunk
          \/ ReplaceNominee \/ ReplaceEnd \/ FlushEnd

Next ==
  \/ \E t \in Chunk, mode \in Mode : Replace(t, mode)
  \/ FlushKeep \/ Flush
  \/ Step

Spec == Init /\ [][Next]_vars

(* A call of a single-threaded program goes on running. *)
FairSpec == Spec /\ WF_vars(Step)
------------------------------------------------------------------------------
(* What should be replaced in the first n alphabets of a text s, said      *)
(* without reading it in order.  The candidates: at every position, the    *)
(* longest pattern that ends there and has a replacement.                  *)
EndingAt(s, e) == {w \in DOMAIN Rtext : EndsAt(w, s, e)}

CandidateAt(s, e) == <<Longest(EndingAt(s, e)), e>>

Candidates(s, n) ==
  {CandidateAt(s, e) : e \in {i \in 1..n : EndingAt(s, i) # {}}}

(* d is a factor of c.                                                     *)
IsFactor(d, c) == Start(c) <= Start(d) /\ d[2] <= c[2]

(* Normal mode: those of K that are not a factor of another one *)
NormalChoice(K) == {c \in K : \A d \in K \ {c} : ~IsFactor(c, d)}

(* c begins where all of C that end before it have ended.                  *)
BeginsBehind(c, C) == \A d \in C : d[2] < c[2] => d[2] <= Start(c)

(* Lazy mode: what ends first, unless it overlaps with one chosen before   *)
IsLazyChoice(K, C) ==
  /\ C \subseteq K
  /\ \A c \in K : c \in C <=> BeginsBehind(c, C)

LazyChoice(K) == CHOOSE C \in SUBSET K : IsLazyChoice(K, C)

Choice(mode, s, n) ==
  IF mode = "LAZY" THEN LazyChoice(Candidates(s, n))
  ELSE NormalChoice(Candidates(s, n))

(* What the p-th alphabet of s becomes when the patterns in choice are     *)
(* replaced: the replacement of the one that begins with it, and the       *)
(* alphabet itself unless one covers it.                                   *)
BeginningAt(choice, p) == {c \in choice : Start(c) = p - 1}

Covered(choice, p) == \E c \in choice : Start(c) < p /\ p <= c[2]

Piece(s, choice, p) ==
  (IF BeginningAt(choice, p) = {} THEN << >>
   ELSE Rtext[(CHOOSE c \in BeginningAt(choice, p) : TRUE)[1]])
    \o IF Covered(choice, p) THEN << >> ELSE <<s[p]>>

(* The first n alphabets with their chosen patterns replaced; where        *)
(* patterns overlap, their replacements follow each other.                 *)
ReplacedIn(s, choice, n) == FlattenSeq([p \in 1..n |-> Piece(s, choice, p)])

Replaced(s) == ReplacedIn(s, Choice(replace_mode, s, Len(s)), Len(s))

(* The type invariant; the buffer is flushed before it is written full, so *)
(* there always is room in it.                                             *)
ReplaceTypeOK ==
  /\ text \in Seq(Alphabet) /\ position_r \in 0..Len(text)
  /\ base_position \in Nat /\ curser \in Nat
  /\ last_node \in Nodes /\ current \in Nodes
  /\ buffer \in Seq(Alphabet) /\ Len(buffer) < BufferSize
  /\ backlog \in Seq(Alphabet)
  /\ noms \in Seq(Pattern \X Nat) /\ nom \in (Pattern \cup {Root}) \X Nat
  /\ replace_mode \in Mode
  /\ pc \in {"ready", "scan", "book", "replace", "flush"}
  /\ ended \in BOOLEAN
  /\ input \in Seq(Alphabet) /\ output \in Seq(Alphabet)

(* When a stream is flushed, the call-back was given the stream with its   *)
(* patterns replaced as the mode says: whatever the chunks it came in, and *)
(* wherever patterns were cut by them, nested in or overlapped each other. *)
StreamIsReplaced == ended => output = Replaced(input)

(* What has been put out before that is the beginning of what the stream   *)
(* becomes: nothing is put out that a later chunk makes part of a longer   *)
(* pattern.                                                                *)
OutputIsDecided == pc = "ready" => IsPrefix(output \o buffer, Replaced(input))

(* Nominees lie in the order of their places, none is a factor of another; *)
(* in lazy mode they do not overlap, and nothing that was put out is to be *)
(* replaced again.                                                         *)
NomineesAscend ==
  /\ \A i, j \in 1..Len(noms) :
       i < j => Start(noms[i]) < Start(noms[j]) /\ noms[i][2] < noms[j][2]
  /\ replace_mode = "LAZY" =>
       /\ \A i, j \in 1..Len(noms) : i < j => noms[i][2] <= Start(noms[j])
       /\ noms # << >> => curser <= Start(noms[1])

(* The backlog is the end of the stream before the chunk, and all of it    *)
(* that is not behind the cursor: mf_repdata_appendfactor never comes      *)
(* where it "shouldn't come".                                              *)
BacklogIsKept ==
  /\ ~ended => base_position + Len(text) = Len(input)
  /\ ended => backlog = << >>
  /\ ~ended => IsTail(backlog \o text, input)
  /\ BacklogBase <= curser

(* The backlog is no longer than the longest pattern.                      *)
BacklogFits == Len(backlog) <= MaxLength

(* A call returns. *)
CallReturns == pc # "ready" ~> pc = "ready"
==============================================================================
