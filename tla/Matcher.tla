------------------------------- MODULE Matcher -------------------------------
(***************************************************************************)
(* What the multi-pattern matcher promises, whatever it is made of.  Words *)
(* are inserted until it is sealed.  Text is then fed to it, either as a   *)
(* new stream or as the next piece of the current one.  It delivers the    *)
(* occurrences of the words in the stream from left to right, all those    *)
(* that end at one position together, each once, and it says it has no     *)
(* more only when there are no more; but it can be stopped, and then       *)
(* forgets the end of the stream, of which it may have delivered a part.   *)
(* Before it is sealed it ignores what it is fed.                          *)
(*                                                                         *)
(* AhoCorasickPlus::findAll is a Feed followed by Deliver steps up to a    *)
(* Drain, and so is ac_trie_search unless its call-back stops it.          *)
(***************************************************************************)
EXTENDS Words

CONSTANTS Offered, Chunk

VARIABLES
  words,    \* the words inserted so far
  sealed,   \* no more are accepted
  input,    \* the text of the current stream
  found,    \* the occurrences delivered: pairs of a word and its end
  drained   \* the matcher said there are no more in the text it was fed

matcherVars == <<words, sealed, input, found, drained>>

Init ==
  /\ words = {}
  /\ sealed = FALSE
  /\ input = << >>
  /\ found = {}
  /\ drained = TRUE

Insert(w) ==
  /\ ~sealed
  /\ drained
  /\ Len(w) > 0
  /\ words' = words \cup {w}
  /\ UNCHANGED <<sealed, input, found, drained>>

Seal ==
  /\ drained
  /\ sealed' = TRUE
  /\ UNCHANGED <<words, input, found, drained>>

Feed(t, keep) ==
  /\ drained
  /\ input' = IF keep THEN input \o t ELSE t
  /\ found' = IF keep THEN found ELSE {}
  /\ drained' = FALSE
  /\ UNCHANGED <<words, sealed>>

Deliver ==
  /\ sealed
  /\ ~drained
  /\ \E e \in 1..Len(input) :
       /\ found = OccurrencesUpTo(words, input, e - 1)
       /\ found' = OccurrencesUpTo(words, input, e)
  /\ found' # found
  /\ UNCHANGED <<words, sealed, input, drained>>

Drain ==
  /\ sealed
  /\ ~drained
  /\ found = Occurrences(words, input)
  /\ drained' = TRUE
  /\ UNCHANGED <<words, sealed, input, found>>

Stop ==
  /\ sealed
  /\ ~drained
  /\ drained' = TRUE
  /\ \E n \in 0..Len(input) : input' = SubSeq(input, 1, n)
  /\ found' = Occurrences(words, input')
  /\ found' \subseteq found
  /\ UNCHANGED <<words, sealed>>

Ignore ==
  /\ ~sealed
  /\ ~drained
  /\ drained' = TRUE
  /\ input' = << >>
  /\ UNCHANGED <<words, sealed, found>>

Next ==
  \/ \E w \in Offered : Insert(w)
  \/ Seal
  \/ \E t \in Chunk, keep \in BOOLEAN : Feed(t, keep)
  \/ Deliver
  \/ Drain
  \/ Stop
  \/ Ignore

Spec == Init /\ [][Next]_matcherVars
==============================================================================
