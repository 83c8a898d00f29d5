------------------------------ MODULE Paraglob -------------------------------
(***************************************************************************)
(* The Paraglob class (paraglob.cpp, node.h): a set of patterns, indexed   *)
(* by their meta-words, that is filled, compiled, searched and copied by   *)
(* way of its serialized form.                                             *)
(*                                                                         *)
(* The trie is represented by what Matcher says of it: the words it has    *)
(* accepted, with the id each was given, and the words that occur in a     *)
(* text.  Splitting patterns (Glob), fnmatch and the serialized form       *)
(* (Serializer) are parameters, so that what is proved here holds for any. *)
(*                                                                         *)
(* The vectors of patterns of a ParaglobNode and single_wildcards are sets *)
(* here: get and get_patterns sort them and drop the duplicates.           *)
(***************************************************************************)
EXTENDS Integers, Sequences, SequencesExt

CONSTANTS
  Object,       \* the paraglobs a program may have
  Filled,       \* those it creates empty; it makes the others from patterns
  Pattern,      \* the patterns it may add
  Empty,        \* the pattern of no characters
  Vectors,      \* the vectors of patterns it may construct one from
  Text,         \* the texts it may look up
  MetaWords,    \* pattern -> the sequence of its meta-words
  TooLong,      \* the words ac_trie_add refuses
  Occurring,    \* pairs of a word and a text it occurs in
  Matching,     \* pairs of a pattern and a text: fnmatch returns 0
  Reread(_),    \* what unserialize makes of a serialized set of patterns:
                \* a sequence of patterns, or None when it throws
  None

Word == UNION {ToSet(MetaWords[p]) : p \in Pattern}

ASSUME ParaglobAssumption ==
  /\ Filled \subseteq Object
  /\ Empty \in Pattern
  /\ Vectors \subseteq Seq(Pattern)
  /\ \A p \in Pattern : MetaWords[p] \in Seq(Word)
  /\ \A P \in SUBSET Pattern : Reread(P) \in Seq(Pattern) \cup {None}
  /\ None \notin Seq(Pattern) /\ None \notin Object /\ None \notin Pattern
  /\ None \notin {"add", "construct", "load"}

VARIABLES
  alive,             \* the paraglobs that have been constructed
  meta_words,        \* of each, the words by id (from 0)
  ids,               \* ... the words in its trie, with their ids
  trie_open,         \* ... whether its trie accepts words
  meta_to_node_map,  \* ... word -> the patterns of its node
  single_wildcards,  \* ... the patterns that have no meta-words
  call,              \* "add" or a constructor, when one is running
  obj,               \* ... for this paraglob
  pattern, rest,     \* the pattern it is adding and that one's words to come
  queue,             \* the patterns a constructor has still to add
  outcome,           \* how the last call failed, None if it did not
  accepted,          \* history: the patterns add returned true for
  answers            \* history: text -> what get is to return for it from a
                     \* copy of a compiled paraglob, None for the others

indexVars == <<meta_words, ids, trie_open, meta_to_node_map,
               single_wildcards>>

callVars == <<call, obj, pattern, rest, queue>>

vars == <<alive, indexVars, callVars, outcome, accepted, answers>>

Init ==
  /\ alive = {}
  /\ meta_words = [o \in Object |-> << >>]
  /\ ids = [o \in Object |-> << >>]
  /\ trie_open = [o \in Object |-> TRUE]
  /\ meta_to_node_map = [o \in Object |-> << >>]
  /\ single_wildcards = [o \in Object |-> {}]
  /\ call = None /\ obj = None /\ pattern = None
  /\ rest = << >>
  /\ queue = << >>
  /\ outcome = None
  /\ accepted = [o \in Object |-> {}]
  /\ answers = [o \in Object |-> None]

------------------------------------------------------------------------------
(* findAll: the ids of the words that occur; none while the trie is open   *)
FindAll(o, t) ==
  IF trie_open[o] THEN {}
  ELSE {ids[o][w] : w \in {x \in DOMAIN ids[o] : <<x, t>> \in Occurring}}

(* ParaglobNode::merge_matches of the node meta_to_node_map has for an id *)
MergeMatches(o, id, t) ==
  {p \in meta_to_node_map[o][meta_words[o][id + 1]] : <<p, t>> \in Matching}

(* Paraglob::get *)
Get(o, t) ==
  (UNION {MergeMatches(o, id, t) : id \in FindAll(o, t)})
    \cup single_wildcards[o]

(* As GetPatterns, but the patterns without meta-words are forgotten.      *)
GetPatternsOfNodes(o) ==
  UNION {meta_to_node_map[o][w] : w \in DOMAIN meta_to_node_map[o]}

(* Paraglob::get_patterns *)
GetPatterns(o) ==
  (UNION {meta_to_node_map[o][w] : w \in DOMAIN meta_to_node_map[o]})
    \cup single_wildcards[o]

(* As Equal, but the words are compared in the order of their ids.         *)
EqualInOrder(o, other) == meta_words[o] = meta_words[other]

(* Paraglob::operator==, which compares the maps: equal nodes are nodes of *)
(* the same word                                                           *)
Equal(o, other) ==
  DOMAIN meta_to_node_map[o] = DOMAIN meta_to_node_map[other]

------------------------------------------------------------------------------
(* A new trie and empty containers *)
Blank(o) ==
  /\ meta_words' = [meta_words EXCEPT ![o] = << >>]
  /\ ids' = [ids EXCEPT ![o] = << >>]
  /\ trie_open' = [trie_open EXCEPT ![o] = TRUE]
  /\ meta_to_node_map' = [meta_to_node_map EXCEPT ![o] = << >>]
  /\ single_wildcards' = [single_wildcards EXCEPT ![o] = {}]
  /\ accepted' = [accepted EXCEPT ![o] = {}]

Idle == call = None

(* Paraglob() *)
Create(o) ==
  /\ Idle
  /\ o \in Filled
  /\ o \notin alive
  /\ Blank(o)
  /\ alive' = alive \cup {o}
  /\ answers' = [answers EXCEPT ![o] = None]
  /\ outcome' = None
  /\ UNCHANGED callVars

(* A constructor from patterns starts. *)
Begin(o, name, patterns) ==
  /\ Blank(o)
  /\ call' = name
  /\ obj' = o
  /\ queue' = patterns
  /\ outcome' = None
  /\ UNCHANGED <<alive, pattern, rest>>

(* Paraglob(const std::vector<std::string>&) *)
Construct(o, v) ==
  /\ Idle
  /\ o \notin alive
  /\ Begin(o, "construct", v)
  /\ answers' = [answers EXCEPT ![o] = None]

(* Paraglob(std::unique_ptr<std::vector<uint8_t>>) of what serialize       *)
(* returned for another paraglob                                           *)
Load(o, other) ==
  /\ Idle
  /\ o \notin alive
  /\ other \in alive
  /\ IF Reread(GetPatterns(other)) = None
     THEN /\ outcome' = <<"load", "data error">>
          /\ UNCHANGED <<alive, indexVars, callVars, accepted, answers>>
     ELSE /\ Begin(o, "load", Reread(GetPatterns(other)))
          /\ answers' = [answers EXCEPT ![o] = IF trie_open[other] THEN None
                                               ELSE [t \in Text |-> Get(other, t)]]

------------------------------------------------------------------------------
(* Paraglob::add starts with get_meta_words, which remembers a pattern     *)
(* that has no words, unless it is the empty one.                          *)
Wildcard(p) == MetaWords[p] = << >> /\ p # Empty

GetMetaWords(o, p) ==
  /\ pattern' = p
  /\ rest' = MetaWords[p]
  /\ single_wildcards' =
       IF Wildcard(p) THEN [single_wildcards EXCEPT ![o] = @ \cup {p}]
                      ELSE single_wildcards

(* History: the answers of the original are what a copy is to give, and a  *)
(* pattern without words that is added to the copy itself, for every text. *)
(* (Any other pattern is refused by the compiled trie of the copy.)        *)
ToAnswer(o, p) ==
  IF Wildcard(p) /\ answers[o] # None
  THEN [answers EXCEPT ![o] = [t \in Text |-> @[t] \cup {p}]]
  ELSE answers

Add(o, p) ==
  /\ Idle
  /\ o \in alive
  /\ call' = "add"
  /\ obj' = o
  /\ GetMetaWords(o, p)
  /\ outcome' = None
  /\ answers' = ToAnswer(o, p)
  /\ UNCHANGED <<alive, meta_words, ids, trie_open, meta_to_node_map, queue,
                 accepted>>

(* A constructor adds its next pattern. *)
AddNext ==
  /\ call \in {"construct", "load"}
  /\ pattern = None
  /\ queue # << >>
  /\ GetMetaWords(obj, Head(queue))
  /\ queue' = Tail(queue)
  /\ UNCHANGED <<alive, meta_words, ids, trie_open, meta_to_node_map, call,
                 obj, outcome, accepted, answers>>

Adding == ~Idle /\ pattern # None

NextWord == Head(rest)

(* AhoCorasickPlus::addPattern has an id for every word it accepts. *)
Accepts(o, w) == trie_open[o] /\ w \notin TooLong

(* As NextId, but taken after the word is pushed.                          *)
NextIdLate(o) == Len(meta_words[o]) + 1

(* patId, the id of the next word *)
NextId(o) == Len(meta_words[o])

(* As InitPatterns, but the word is taken for the pattern.                 *)
InitPatternsWord == {NextWord}

(* The patterns of a new ParaglobNode *)
InitPatterns == {pattern}

AddNewWord ==
  /\ Adding
  /\ rest # << >>
  /\ Accepts(obj, NextWord)
  /\ NextWord \notin DOMAIN ids[obj]
  /\ ids' = [ids EXCEPT ![obj] =
               [w \in DOMAIN @ \cup {NextWord} |->
                  IF w = NextWord THEN NextId(obj) ELSE @[w]]]
  /\ meta_words' = [meta_words EXCEPT ![obj] = Append(@, NextWord)]
  /\ meta_to_node_map' = [meta_to_node_map EXCEPT ![obj] =
               [w \in DOMAIN @ \cup {NextWord} |->
                  IF w = NextWord THEN InitPatterns ELSE @[w]]]
  /\ rest' = Tail(rest)
  /\ UNCHANGED <<alive, trie_open, single_wildcards, call, obj, pattern,
                 queue, outcome, accepted, answers>>

(* As AddPattern, but it is not pushed.                                    *)
AddPatternNot(patterns) == patterns

(* ParaglobNode::add_pattern *)
AddPattern(patterns) == patterns \cup {pattern}

AddKnownWord ==
  /\ Adding
  /\ rest # << >>
  /\ Accepts(obj, NextWord)
  /\ NextWord \in DOMAIN ids[obj]
  /\ meta_to_node_map' =
       [meta_to_node_map EXCEPT ![obj][NextWord] = AddPattern(@)]
  /\ rest' = Tail(rest)
  /\ UNCHANGED <<alive, meta_words, ids, trie_open, single_wildcards, call,
                 obj, pattern, queue, outcome, accepted, answers>>

Return(what) ==
  /\ outcome' = what
  /\ call' = None /\ obj' = None /\ pattern' = None
  /\ rest' = << >>
  /\ queue' = << >>

(* add returns false; what the words before have added stays.  In a        *)
(* constructor add_error is thrown and the object is gone.                 *)
RefuseWord ==
  /\ Adding
  /\ rest # << >>
  /\ ~Accepts(obj, NextWord)
  /\ Return(<<call, "refused">>)
  /\ IF call = "add" THEN UNCHANGED <<indexVars, accepted, answers>>
     ELSE Blank(obj) /\ answers' = [answers EXCEPT ![obj] = None]
  /\ UNCHANGED alive

(* add returns true *)
AddEnd ==
  /\ Adding
  /\ rest = << >>
  /\ accepted' = [accepted EXCEPT ![obj] = @ \cup {pattern}]
  /\ IF call = "add" THEN Return(None)
     ELSE pattern' = None /\ UNCHANGED <<call, obj, rest, queue, outcome>>
  /\ UNCHANGED <<alive, indexVars, answers>>

(* A constructor has added all patterns: it compiles. *)
ConstructEnd ==
  /\ call \in {"construct", "load"}
  /\ pattern = None
  /\ queue = << >>
  /\ trie_open' = [trie_open EXCEPT ![obj] = FALSE]
  /\ alive' = alive \cup {obj}
  /\ Return(None)
  /\ UNCHANGED <<meta_words, ids, meta_to_node_map, single_wildcards,
                 accepted, answers>>

(* Paraglob::compile *)
Compile(o) ==
  /\ Idle
  /\ o \in alive
  /\ trie_open' = [trie_open EXCEPT ![o] = FALSE]
  /\ outcome' = None
  /\ UNCHANGED <<alive, meta_words, ids, meta_to_node_map, single_wildcards,
                 callVars, accepted, answers>>

Next ==
  \/ \E o \in Object :
       \/ Create(o) \/ Compile(o)
       \/ \E v \in Vectors : Construct(o, v)
       \/ \E other \in Object : Load(o, other)
       \/ \E p \in Pattern : Add(o, p)
  \/ AddNext \/ AddNewWord \/ AddKnownWord \/ RefuseWord \/ AddEnd
  \/ ConstructEnd

Spec == Init /\ [][Next]_vars
------------------------------------------------------------------------------
(* The type invariant of the class. *)
ParaglobTypeOK ==
  /\ alive \subseteq Object
  /\ \A o \in Object :
       /\ meta_words[o] \in Seq(Word)
       /\ DOMAIN ids[o] \subseteq Word
       /\ \A w \in DOMAIN ids[o] : ids[o][w] \in Nat
       /\ trie_open[o] \in BOOLEAN
       /\ DOMAIN meta_to_node_map[o] \subseteq Word
       /\ \A w \in DOMAIN meta_to_node_map[o] :
            meta_to_node_map[o][w] \subseteq Pattern
       /\ single_wildcards[o] \subseteq Pattern
       /\ accepted[o] \subseteq Pattern
  /\ call \in {None, "add", "construct", "load"}
  /\ obj \in Object \cup {None}
  /\ pattern \in Pattern \cup {None}
  /\ rest \in Seq(Word)
  /\ queue \in Seq(Pattern)

(* The three indexes agree at every moment, also between the words of one  *)
(* pattern and after a refused one: an id the trie can report is in        *)
(* meta_words, is there the word it was given for, and that word has a     *)
(* node, so that neither at() of get nor that of add ever throws.          *)
IndexesAgree ==
  \A o \in Object :
    /\ DOMAIN ids[o] = DOMAIN meta_to_node_map[o]
    /\ \A w \in DOMAIN ids[o] :
         /\ ids[o][w] < Len(meta_words[o])
         /\ meta_words[o][ids[o][w] + 1] = w
    /\ \A i \in 1..Len(meta_words[o]) :
         meta_words[o][i] \in DOMAIN ids[o] /\ ids[o][meta_words[o][i]] = i - 1

(* A text that fnmatch accepts contains the words of the pattern.          *)
Necessary(p) ==
  \A t \in Text : <<p, t>> \in Matching =>
    \A i \in 1..Len(MetaWords[p]) : <<MetaWords[p][i], t>> \in Occurring

(* Whatever was added, refused and copied before: once it is compiled, get *)
(* finds every pattern add returned true for that matches, provided its    *)
(* meta-words are necessary.  (The empty pattern is not stored.)           *)
GetFindsAccepted ==
  \A o \in alive : ~trie_open[o] =>
    \A t \in Text :
      {p \in accepted[o] \ {Empty} : Necessary(p) /\ <<p, t>> \in Matching}
        \subseteq Get(o, t)

(* A copy made from the serialized form of a compiled paraglob answers as  *)
(* the original did when it was serialized, no pattern more and none less, *)
(* although its words have other ids and each pattern was indexed anew; to *)
(* these answers it adds only the patterns without words that are added to *)
(* the copy itself.                                                        *)
CopyAnswersTheSame ==
  \A o \in alive : answers[o] # None =>
    \A t \in Text : Get(o, t) = answers[o][t]

(* get returns patterns that match.                                        *)
GetReturnsMatches ==
  Idle => \A o \in alive, t \in Text :
            \A p \in Get(o, t) : <<p, t>> \in Matching

(* A paraglob can be rebuilt from its serialized form.                     *)
LoadSucceeds == outcome # <<"load", "refused">>

(* Paraglobs with the same patterns are equal, whichever way and in        *)
(* whichever order they were put there, and whatever was refused.          *)
SamePatternsAreEqual ==
  Idle => \A o, other \in alive :
            GetPatterns(o) = GetPatterns(other) => Equal(o, other)
==============================================================================
