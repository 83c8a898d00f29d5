---------------------------- MODULE ParaglobProofs ----------------------------
(***************************************************************************)
(* What TLAPS proves of module Paraglob, for every set of patterns and     *)
(* texts, every way of splitting patterns and of matching them, and every  *)
(* limit of the trie: the indexes agree, get finds what was accepted,      *)
(* paraglobs with the same patterns are equal, and, where the serialized   *)
(* form is read back as it was written, copies answer as their originals.  *)
(***************************************************************************)
EXTENDS Paraglob, TLAPS

(***************************************************************************)
(* The inductive invariant, for one paraglob                               *)
(***************************************************************************)

ObjectTypeOK(o) ==
  /\ meta_words[o] \in Seq(Word)
  /\ DOMAIN ids[o] \subseteq Word
  /\ \A w \in DOMAIN ids[o] : ids[o][w] \in Nat
  /\ trie_open[o] \in BOOLEAN
  /\ DOMAIN meta_to_node_map[o] \subseteq Word
  /\ \A w \in DOMAIN meta_to_node_map[o] : meta_to_node_map[o][w] \subseteq Pattern
  /\ single_wildcards[o] \subseteq Pattern
  /\ accepted[o] \subseteq Pattern

(* What IndexesAgree says of one paraglob *)
Agree(o) ==
  /\ DOMAIN ids[o] = DOMAIN meta_to_node_map[o]
  /\ \A w \in DOMAIN ids[o] :
       /\ ids[o][w] < Len(meta_words[o])
       /\ meta_words[o][ids[o][w] + 1] = w
  /\ \A i \in 1..Len(meta_words[o]) :
       meta_words[o][i] \in DOMAIN ids[o] /\ ids[o][meta_words[o][i]] = i - 1

Stored(o, p, w) ==
  w \in DOMAIN meta_to_node_map[o] /\ p \in meta_to_node_map[o][w]

(* No word of p up to the i-th is refused: adding p gets that far.         *)
Reached(p, i) == \A j \in 1..i : MetaWords[p][j] \notin TooLong

(* Every word adding p gets to has it.                                     *)
Complete(o, p) ==
  \A i \in 1..Len(MetaWords[p]) : Reached(p, i) => Stored(o, p, MetaWords[p][i])

(* A node has at least one pattern, and only those whose word it is.       *)
NodesInv(o) ==
  \A w \in DOMAIN meta_to_node_map[o] :
    /\ meta_to_node_map[o][w] # {}
    /\ \A p \in meta_to_node_map[o][w] :
         \E i \in 1..Len(MetaWords[p]) : MetaWords[p][i] = w /\ Reached(p, i)

WildcardsInv(o) == \A p \in single_wildcards[o] : Wildcard(p)

(* An accepted pattern is where get will find it.                          *)
AcceptedInv(o) ==
  \A p \in accepted[o] :
    /\ \A i \in 1..Len(MetaWords[p]) : Stored(o, p, MetaWords[p][i])
    /\ Wildcard(p) => p \in single_wildcards[o]

ObjectInv(o) ==
  /\ ObjectTypeOK(o) /\ Agree(o)
  /\ NodesInv(o) /\ WildcardsInv(o) /\ AcceptedInv(o)

(***************************************************************************)
(* ... and for the call in progress                                        *)
(***************************************************************************)

Shape ==
  /\ DOMAIN meta_words = Object /\ DOMAIN ids = Object
  /\ DOMAIN trie_open = Object /\ DOMAIN meta_to_node_map = Object
  /\ DOMAIN single_wildcards = Object /\ DOMAIN accepted = Object
  /\ DOMAIN answers = Object
  /\ alive \subseteq Object

CallTypeOK ==
  /\ call \in {None, "add", "construct", "load"}
  /\ obj \in Object \cup {None}
  /\ pattern \in Pattern \cup {None}
  /\ rest \in Seq(Word)
  /\ queue \in Seq(Pattern)
  /\ call = None => pattern = None
  /\ call # None => obj \in Object

(* How many words of the pattern being added were done *)
Done == Len(MetaWords[pattern]) - Len(rest)

(* The words done are stored; the others are still to come.                *)
AddInv ==
  pattern # None =>
    /\ Done \in Nat
    /\ \A j \in 1..Len(rest) : rest[j] = MetaWords[pattern][Done + j]
    /\ \A i \in 1..Done : Stored(obj, pattern, MetaWords[pattern][i])
    /\ Reached(pattern, Done)
    /\ Done > 0 => trie_open[obj]
    /\ Wildcard(pattern) => pattern \in single_wildcards[obj]

(* Only the pattern being added may not have got as far as it will.        *)
CompleteInv ==
  \A o \in Object : \A p \in GetPatterns(o) :
    Complete(o, p) \/ (pattern # None /\ o = obj /\ p = pattern /\ trie_open[o])

ParaglobInv ==
  /\ Shape /\ CallTypeOK /\ AddInv /\ CompleteInv
  /\ \A o \in Object : ObjectInv(o)

LEMMA MetaWordsAreWords ==
  ASSUME NEW p \in Pattern
  PROVE  MetaWords[p] \in Seq(Word)
BY ParaglobAssumption

(* The patterns of a paraglob are those of its nodes and its wildcards,    *)
(* now and after a step.                                                   *)
LEMMA PatternsOfObject ==
  ASSUME NEW o
  PROVE  \A p : p \in GetPatterns(o) <=>
                  (\E w : Stored(o, p, w)) \/ p \in single_wildcards[o]
BY DEF GetPatterns, Stored

LEMMA PatternsAfter ==
  ASSUME NEW o
  PROVE  \A p : p \in GetPatterns(o)' <=>
                  (\E w : Stored(o, p, w)') \/ p \in single_wildcards'[o]
BY DEF GetPatterns, Stored

LEMMA GetPatternsType ==
  ASSUME NEW o, ObjectTypeOK(o)
  PROVE  GetPatterns(o) \in SUBSET Pattern
<1>1. ASSUME NEW p \in GetPatterns(o)
      PROVE  p \in Pattern
  <2>1. CASE p \in single_wildcards[o]
    BY <2>1 DEF ObjectTypeOK
  <2>2. ASSUME NEW w, Stored(o, p, w)
        PROVE  p \in Pattern
    BY <2>2 DEF Stored, ObjectTypeOK
  <2> QED
    BY <2>1, <2>2, PatternsOfObject
<1> QED
  BY <1>1

LEMMA ParaglobInvInit == Init => ParaglobInv
<1> SUFFICES ASSUME Init
             PROVE  ParaglobInv
  OBVIOUS
<1>1. Shape /\ CallTypeOK
  BY DEF Init, Shape, CallTypeOK
<1>2. AddInv
  BY DEF Init, AddInv
<1>3. ASSUME NEW o \in Object
      PROVE  ObjectInv(o)
  <2>1. /\ meta_words[o] = << >> /\ ids[o] = << >> /\ trie_open[o] = TRUE
        /\ meta_to_node_map[o] = << >> /\ single_wildcards[o] = {} /\ accepted[o] = {}
    BY DEF Init
  <2>2. trie_open[o] \in BOOLEAN
    BY <2>1, Zenon
  <2> QED
    BY <2>1, <2>2
       DEF ObjectInv, ObjectTypeOK, Agree, NodesInv, WildcardsInv, AcceptedInv
<1>4. CompleteInv
  BY DEF Init, CompleteInv, GetPatterns
<1> QED
  BY <1>1, <1>2, <1>3, <1>4 DEF ParaglobInv

(***************************************************************************)
(* What steps leave alone                                                  *)
(***************************************************************************)

SameIndex(o) ==
  /\ meta_words'[o] = meta_words[o]
  /\ ids'[o] = ids[o]
  /\ meta_to_node_map'[o] = meta_to_node_map[o]
  /\ single_wildcards'[o] = single_wildcards[o]

Same(o) ==
  SameIndex(o) /\ accepted'[o] = accepted[o] /\ trie_open'[o] = trie_open[o]

LEMMA SameStored ==
  ASSUME NEW o, meta_to_node_map'[o] = meta_to_node_map[o]
  PROVE  /\ \A p, w : Stored(o, p, w)' <=> Stored(o, p, w)
         /\ \A p : Complete(o, p)' <=> Complete(o, p)
<1>1. ASSUME NEW p, NEW w
      PROVE  Stored(o, p, w)' <=> Stored(o, p, w)
  BY DEF Stored
<1>2. ASSUME NEW p
      PROVE  Complete(o, p)' <=> Complete(o, p)
  BY <1>1 DEF Complete, Reached
<1> QED
  BY <1>1, <1>2

LEMMA SameIndexObject ==
  ASSUME NEW o, ObjectInv(o), SameIndex(o),
         accepted'[o] = accepted[o], trie_open'[o] \in BOOLEAN
  PROVE  ObjectInv(o)' /\ GetPatterns(o)' = GetPatterns(o)
<1>1. ObjectTypeOK(o)' /\ Agree(o)' /\ NodesInv(o)' /\ WildcardsInv(o)'
  BY DEF ObjectInv, SameIndex, ObjectTypeOK, Agree, NodesInv, WildcardsInv,
         Reached, Wildcard
<1>2. AcceptedInv(o)'
  BY SameStored DEF ObjectInv, SameIndex, AcceptedInv, Wildcard
<1>3. GetPatterns(o)' = GetPatterns(o)
  BY DEF SameIndex, GetPatterns
<1> QED
  BY <1>1, <1>2, <1>3 DEF ObjectInv

LEMMA SameObject ==
  ASSUME NEW o, ObjectInv(o), Same(o)
  PROVE  ObjectInv(o)' /\ GetPatterns(o)' = GetPatterns(o)
<1>1. trie_open'[o] \in BOOLEAN
  BY DEF Same, ObjectInv, ObjectTypeOK
<1> QED
  BY <1>1, SameIndexObject DEF Same

(* A paraglob that starts empty *)
LEMMA BlankObject ==
  ASSUME Shape, NEW o \in Object, Blank(o)
  PROVE  /\ ObjectInv(o)' /\ GetPatterns(o)' = {}
         /\ \A x \in Object \ {o} : Same(x)
         /\ DOMAIN meta_words' = Object /\ DOMAIN ids' = Object
         /\ DOMAIN trie_open' = Object /\ DOMAIN meta_to_node_map' = Object
         /\ DOMAIN single_wildcards' = Object /\ DOMAIN accepted' = Object
<1>1. /\ meta_words' = [meta_words EXCEPT ![o] = << >>]
      /\ ids' = [ids EXCEPT ![o] = << >>]
      /\ trie_open' = [trie_open EXCEPT ![o] = TRUE]
      /\ meta_to_node_map' = [meta_to_node_map EXCEPT ![o] = << >>]
      /\ single_wildcards' = [single_wildcards EXCEPT ![o] = {}]
      /\ accepted' = [accepted EXCEPT ![o] = {}]
  BY DEF Blank
<1>2. /\ meta_words'[o] = << >> /\ ids'[o] = << >> /\ trie_open'[o] = TRUE
      /\ meta_to_node_map'[o] = << >> /\ single_wildcards'[o] = {} /\ accepted'[o] = {}
  BY <1>1 DEF Shape
<1>3. trie_open'[o] \in BOOLEAN
  BY <1>2, Zenon
<1>4. ObjectInv(o)'
  BY <1>2, <1>3
     DEF ObjectInv, ObjectTypeOK, Agree, NodesInv, WildcardsInv, AcceptedInv
<1>5. GetPatterns(o)' = {}
  BY <1>2 DEF GetPatterns
<1>6. ASSUME NEW x \in Object \ {o}
      PROVE  Same(x)
  BY <1>1 DEF Shape, Same, SameIndex
<1>7. /\ DOMAIN meta_words' = Object /\ DOMAIN ids' = Object
      /\ DOMAIN trie_open' = Object /\ DOMAIN meta_to_node_map' = Object
      /\ DOMAIN single_wildcards' = Object /\ DOMAIN accepted' = Object
  BY <1>1 DEF Shape
<1> QED
  BY <1>4, <1>5, <1>6, <1>7

(* Between two patterns all is complete.                                   *)
LEMMA NothingAdding ==
  ASSUME CompleteInv, pattern = None
  PROVE  \A o \in Object : \A p \in GetPatterns(o) : Complete(o, p)
BY DEF CompleteInv

(* Where all is complete in each paraglob, and it stays as it was or       *)
(* starts empty, all is complete after the step.                           *)
LEMMA CompleteStays ==
  ASSUME CompleteInv, pattern = None,
         \A o \in Object : \/ /\ meta_to_node_map'[o] = meta_to_node_map[o]
                              /\ GetPatterns(o)' = GetPatterns(o)
                           \/ GetPatterns(o)' = {}
  PROVE  CompleteInv'
<1>1. ASSUME NEW o \in Object, NEW p \in GetPatterns(o)'
      PROVE  Complete(o, p)'
  BY <1>1, NothingAdding, SameStored
<1> QED
  BY <1>1 DEF CompleteInv

(***************************************************************************)
(* One step                                                                *)
(***************************************************************************)

LEMMA CreateStep ==
  ASSUME ParaglobInv, NEW o \in Object, Create(o)
  PROVE  ParaglobInv'
<1>1. /\ call = None /\ Blank(o) /\ alive' = alive \cup {o}
      /\ answers' = [answers EXCEPT ![o] = None]
      /\ UNCHANGED <<call, obj, pattern, rest, queue>>
  BY DEF Create, Idle, callVars
<1>2. pattern = None /\ Shape
  BY <1>1 DEF ParaglobInv, CallTypeOK
<1>3. Shape'
  BY <1>1, <1>2, BlankObject DEF Shape
<1>4. CallTypeOK' /\ AddInv'
  BY <1>1, <1>2 DEF ParaglobInv, CallTypeOK, AddInv
<1>5. ASSUME NEW x \in Object
      PROVE  /\ ObjectInv(x)'
             /\ \/ /\ meta_to_node_map'[x] = meta_to_node_map[x]
                   /\ GetPatterns(x)' = GetPatterns(x)
                \/ GetPatterns(x)' = {}
  <2>1. CASE x = o
    BY <1>1, <1>2, <2>1, BlankObject
  <2>2. CASE x # o
    <3>1. Same(x)
      BY <1>1, <1>2, <2>2, BlankObject
    <3> QED
      BY <3>1, SameObject DEF ParaglobInv, Same, SameIndex
  <2> QED
    BY <2>1, <2>2
<1>6. CompleteInv'
  BY <1>2, <1>5, CompleteStays DEF ParaglobInv
<1> QED
  BY <1>3, <1>4, <1>5, <1>6 DEF ParaglobInv

LEMMA BeginStep ==
  ASSUME ParaglobInv, NEW o \in Object, NEW name \in {"construct", "load"},
         NEW patterns \in Seq(Pattern), call = None,
         Begin(o, name, patterns), DOMAIN answers' = Object
  PROVE  ParaglobInv'
<1>1. /\ Blank(o) /\ call' = name /\ obj' = o /\ queue' = patterns
      /\ UNCHANGED <<alive, pattern, rest>>
  BY DEF Begin
<1>2. pattern = None /\ Shape
  BY DEF ParaglobInv, CallTypeOK
<1>3. Shape'
  BY <1>1, <1>2, BlankObject DEF Shape
<1>4. CallTypeOK' /\ AddInv'
  BY <1>1, <1>2, ParaglobAssumption DEF ParaglobInv, CallTypeOK, AddInv
<1>5. ASSUME NEW x \in Object
      PROVE  /\ ObjectInv(x)'
             /\ \/ /\ meta_to_node_map'[x] = meta_to_node_map[x]
                   /\ GetPatterns(x)' = GetPatterns(x)
                \/ GetPatterns(x)' = {}
  <2>1. CASE x = o
    BY <1>1, <1>2, <2>1, BlankObject
  <2>2. CASE x # o
    <3>1. Same(x)
      BY <1>1, <1>2, <2>2, BlankObject
    <3> QED
      BY <3>1, SameObject DEF ParaglobInv, Same, SameIndex
  <2> QED
    BY <2>1, <2>2
<1>6. CompleteInv'
  BY <1>2, <1>5, CompleteStays DEF ParaglobInv
<1> QED
  BY <1>3, <1>4, <1>5, <1>6 DEF ParaglobInv

LEMMA ConstructStep ==
  ASSUME ParaglobInv, NEW o \in Object, NEW v \in Vectors, Construct(o, v)
  PROVE  ParaglobInv'
<1>1. v \in Seq(Pattern)
  BY ParaglobAssumption
<1>2. call = None /\ Begin(o, "construct", v) /\ DOMAIN answers' = Object
  BY DEF Construct, Idle, ParaglobInv, Shape
<1> QED
  BY <1>1, <1>2, BeginStep

LEMMA LoadStep ==
  ASSUME ParaglobInv, NEW o \in Object, NEW other \in Object, Load(o, other)
  PROVE  ParaglobInv'
<1> DEFINE read == Reread(GetPatterns(other))
<1>1. call = None
  BY DEF Load, Idle
<1>2. CASE read = None
  <2>1. UNCHANGED <<alive, meta_words, ids, trie_open, meta_to_node_map,
                    single_wildcards, call, obj, pattern, rest, queue,
                    accepted, answers>>
    BY <1>2 DEF Load, indexVars, callVars
  <2>2. ASSUME NEW x \in Object
        PROVE  /\ ObjectInv(x)'
               /\ meta_to_node_map'[x] = meta_to_node_map[x]
               /\ GetPatterns(x)' = GetPatterns(x)
    BY <2>1, SameObject DEF ParaglobInv, Same, SameIndex
  <2>3. pattern = None
    BY <1>1 DEF ParaglobInv, CallTypeOK
  <2>4. CompleteInv'
    BY <2>2, <2>3, CompleteStays DEF ParaglobInv
  <2>5. Shape' /\ CallTypeOK' /\ AddInv'
    BY <2>1, <2>3 DEF ParaglobInv, Shape, CallTypeOK, AddInv
  <2> QED
    BY <2>2, <2>4, <2>5 DEF ParaglobInv
<1>3. CASE read # None
  <2>1. Begin(o, "load", read) /\ DOMAIN answers' = Object
    BY <1>3 DEF Load, ParaglobInv, Shape
  <2>2. GetPatterns(other) \in SUBSET Pattern
    BY GetPatternsType DEF ParaglobInv, ObjectInv
  <2>3. read \in Seq(Pattern)
    BY <1>3, <2>2, ParaglobAssumption
  <2> QED
    BY <1>1, <2>1, <2>3, BeginStep
<1> QED
  BY <1>2, <1>3

(* A pattern is read, by add or by a constructor: what has no words goes   *)
(* to single_wildcards, and of any other no word is done yet.              *)
LEMMA GetMetaWordsStep ==
  ASSUME ParaglobInv, NEW o \in Object, NEW p \in Pattern,
         pattern = None, GetMetaWords(o, p),
         UNCHANGED <<alive, meta_words, ids, trie_open, meta_to_node_map,
                     accepted>>,
         DOMAIN answers' = Object,
         call' \in {"add", "construct", "load"}, obj' = o,
         queue' \in Seq(Pattern)
  PROVE  ParaglobInv'
<1>1. /\ pattern' = p /\ rest' = MetaWords[p]
      /\ single_wildcards' = IF Wildcard(p)
                             THEN [single_wildcards EXCEPT ![o] = @ \cup {p}]
                             ELSE single_wildcards
  BY DEF GetMetaWords, Wildcard
<1>2. DOMAIN single_wildcards = Object
  BY DEF ParaglobInv, Shape
<1>3. /\ DOMAIN single_wildcards' = Object
      /\ \A x \in Object \ {o} : single_wildcards'[x] = single_wildcards[x]
      /\ Wildcard(p) => single_wildcards'[o] = single_wildcards[o] \cup {p}
      /\ ~Wildcard(p) => single_wildcards'[o] = single_wildcards[o]
  <2>1. CASE Wildcard(p)
    <3>1. single_wildcards' = [single_wildcards EXCEPT ![o] = @ \cup {p}]
      BY <1>1, <2>1
    <3>2. /\ DOMAIN single_wildcards' = Object
          /\ \A x \in Object \ {o} : single_wildcards'[x] = single_wildcards[x]
          /\ single_wildcards'[o] = single_wildcards[o] \cup {p}
      BY <1>2, <3>1
    <3> QED
      BY <2>1, <3>2
  <2>2. CASE ~Wildcard(p)
    BY <1>1, <1>2, <2>2
  <2> QED
    BY <2>1, <2>2
<1>4. MetaWords[p] \in Seq(Word) /\ Len(MetaWords[p]) \in Nat
  BY MetaWordsAreWords
<1>5. p # None
  BY ParaglobAssumption
<1>6. Shape'
  BY <1>3 DEF ParaglobInv, Shape
<1>7. CallTypeOK'
  BY <1>1, <1>4, ParaglobAssumption DEF CallTypeOK
<1>8. AddInv'
  <2>1. Done' = 0
    BY <1>1, <1>4 DEF Done
  <2>2. \A j \in 1..Len(rest') : rest'[j] = MetaWords[p][0 + j]
    BY <1>1, <1>4
  <2>3. Wildcard(p) => p \in single_wildcards'[o]
    BY <1>3
  <2>4. Reached(p, 0)
    BY DEF Reached
  <2>5. 1..0 = {}
    OBVIOUS
  <2> QED
    BY <1>1, <2>1, <2>2, <2>3, <2>4, <2>5 DEF AddInv, Wildcard, Reached
<1>9. ASSUME NEW x \in Object
      PROVE  /\ ObjectInv(x)'
             /\ \A r \in GetPatterns(x)' : Complete(x, r)'
  <2>1. ObjectInv(x) /\ \A r \in GetPatterns(x) : Complete(x, r)
    BY NothingAdding DEF ParaglobInv
  <2>2. \A r : Complete(x, r)' <=> Complete(x, r)
    BY SameStored
  <2>3. CASE single_wildcards'[x] = single_wildcards[x]
    <3>1. Same(x)
      BY <2>3 DEF Same, SameIndex
    <3> QED
      BY <2>1, <2>2, <3>1, SameObject
  <2>4. CASE Wildcard(p) /\ single_wildcards'[x] = single_wildcards[x] \cup {p}
    <3>1. ObjectTypeOK(x)' /\ Agree(x)' /\ NodesInv(x)'
      BY <2>1, <2>4 DEF ObjectInv, ObjectTypeOK, Agree, NodesInv, Reached
    <3>2. WildcardsInv(x)'
      BY <2>1, <2>4 DEF ObjectInv, WildcardsInv, Wildcard
    <3>3. AcceptedInv(x)'
      BY <2>1, <2>4, SameStored DEF ObjectInv, AcceptedInv, Wildcard
    <3>4. ASSUME NEW r \in GetPatterns(x)'
          PROVE  Complete(x, r)
      <4>1. r = p \/ r \in GetPatterns(x)
        <5>1. (\E w : Stored(x, r, w)') \/ r \in single_wildcards'[x]
          BY <3>4, PatternsAfter
        <5> QED
          BY <2>4, <5>1, SameStored, PatternsOfObject
      <4>2. Complete(x, p)
        BY <2>4 DEF Complete, Wildcard
      <4> QED
        BY <2>1, <4>1, <4>2
    <3> QED
      BY <2>2, <3>1, <3>2, <3>3, <3>4 DEF ObjectInv
  <2> QED
    BY <1>3, <2>3, <2>4
<1>10. CompleteInv'
  BY <1>9 DEF CompleteInv
<1> QED
  BY <1>6, <1>7, <1>8, <1>9, <1>10 DEF ParaglobInv

(* What is expected of a paraglob when p is added to it                    *)
LEMMA ToAnswerAdds ==
  ASSUME NEW o \in Object, NEW p, DOMAIN answers = Object
  PROVE  /\ DOMAIN ToAnswer(o, p) = Object
         /\ \A x \in Object \ {o} : ToAnswer(o, p)[x] = answers[x]
         /\ ~Wildcard(p) => ToAnswer(o, p)[o] = answers[o]
         /\ answers[o] = None => ToAnswer(o, p)[o] = None
         /\ Wildcard(p) /\ answers[o] # None =>
              \A t \in Text : ToAnswer(o, p)[o][t] = answers[o][t] \cup {p}
<1>1. CASE Wildcard(p) /\ answers[o] # None
  <2>1. ToAnswer(o, p) = [answers EXCEPT ![o] =
                            [t \in Text |-> answers[o][t] \cup {p}]]
    BY <1>1 DEF ToAnswer
  <2>2. /\ DOMAIN ToAnswer(o, p) = Object
        /\ \A x \in Object \ {o} : ToAnswer(o, p)[x] = answers[x]
        /\ ToAnswer(o, p)[o] = [t \in Text |-> answers[o][t] \cup {p}]
    BY <2>1
  <2> QED
    BY <1>1, <2>2
<1>2. CASE ~(Wildcard(p) /\ answers[o] # None)
  <2>1. ToAnswer(o, p) = answers
    BY <1>2 DEF ToAnswer
  <2> QED
    BY <1>2, <2>1
<1> QED
  BY <1>1, <1>2

LEMMA AddStep ==
  ASSUME ParaglobInv, NEW o \in Object, NEW p \in Pattern, Add(o, p)
  PROVE  ParaglobInv'
<1>1. pattern = None /\ queue \in Seq(Pattern)
  BY DEF Add, Idle, ParaglobInv, CallTypeOK
<1>2. /\ GetMetaWords(o, p) /\ call' = "add" /\ obj' = o /\ queue' = queue
      /\ answers' = ToAnswer(o, p)
      /\ UNCHANGED <<alive, meta_words, ids, trie_open, meta_to_node_map,
                     accepted>>
  BY DEF Add
<1>3. DOMAIN answers' = Object
  BY <1>2, ToAnswerAdds DEF ParaglobInv, Shape
<1> QED
  BY <1>1, <1>2, <1>3, GetMetaWordsStep

LEMMA AddNextStep ==
  ASSUME ParaglobInv, AddNext
  PROVE  ParaglobInv'
<1>1. /\ call \in {"construct", "load"} /\ pattern = None /\ queue # << >>
      /\ GetMetaWords(obj, Head(queue)) /\ queue' = Tail(queue)
      /\ call' = call /\ obj' = obj
      /\ UNCHANGED <<alive, meta_words, ids, trie_open, meta_to_node_map,
                     accepted>>
      /\ DOMAIN answers' = Object
  BY DEF AddNext, ParaglobInv, Shape
<1>2. obj \in Object /\ queue \in Seq(Pattern)
  BY <1>1, ParaglobAssumption DEF ParaglobInv, CallTypeOK
<1>3. Head(queue) \in Pattern /\ Tail(queue) \in Seq(Pattern)
  BY <1>1, <1>2
<1> QED
  BY <1>1, <1>2, <1>3, GetMetaWordsStep

(* What is known when the next word of a pattern is looked at              *)
LEMMA WordFacts ==
  ASSUME ParaglobInv, Adding, rest # << >>
  PROVE  /\ obj \in Object /\ pattern \in Pattern
         /\ NextWord \in Word
         /\ Len(rest) \in Nat /\ Done \in Nat
         /\ Done + 1 \in 1..Len(MetaWords[pattern])
         /\ MetaWords[pattern][Done + 1] = NextWord
         /\ Tail(rest) \in Seq(Word)
         /\ Len(Tail(rest)) = Len(rest) - 1
         /\ \A j \in 1..Len(Tail(rest)) : Tail(rest)[j] = MetaWords[pattern][(Done + 1) + j]
<1>1. obj \in Object /\ pattern \in Pattern /\ rest \in Seq(Word) /\ pattern # None
  BY DEF ParaglobInv, CallTypeOK, Adding, Idle
<1>2. /\ Done \in Nat
      /\ \A j \in 1..Len(rest) : rest[j] = MetaWords[pattern][Done + j]
  BY <1>1 DEF ParaglobInv, AddInv
<1>3. Len(MetaWords[pattern]) \in Nat /\ Len(rest) \in Nat /\ Len(rest) > 0
  BY <1>1, MetaWordsAreWords
<1>4. NextWord = rest[1] /\ NextWord \in Word
  BY <1>1, <1>3 DEF NextWord
<1>5. Done + 1 \in 1..Len(MetaWords[pattern])
  BY <1>2, <1>3 DEF Done
<1>6. /\ Tail(rest) \in Seq(Word) /\ Len(Tail(rest)) = Len(rest) - 1
      /\ \A j \in 1..Len(Tail(rest)) : Tail(rest)[j] = rest[j + 1]
  BY <1>1, <1>3
<1>7. \A d \in Nat, j \in Nat : d + (j + 1) = (d + 1) + j
  OBVIOUS
<1>8. ASSUME NEW j \in 1..Len(Tail(rest))
      PROVE  Tail(rest)[j] = MetaWords[pattern][(Done + 1) + j]
  <2>1. j + 1 \in 1..Len(rest) /\ j \in Nat
    BY <1>3, <1>6
  <2>2. rest[j + 1] = MetaWords[pattern][Done + (j + 1)]
    BY <1>2, <2>1
  <2> QED
    BY <1>2, <1>6, <1>7, <2>1, <2>2
<1> QED
  BY <1>1, <1>2, <1>3, <1>4, <1>5, <1>6, <1>8

(* The trie has accepted the next word, and the pattern is in its node.    *)
LEMMA WordStep ==
  ASSUME ParaglobInv, Adding, rest # << >>, Accepts(obj, NextWord),
         rest' = Tail(rest),
         UNCHANGED <<alive, trie_open, single_wildcards, call, obj, pattern,
                     queue, accepted, answers>>,
         DOMAIN meta_words' = Object, DOMAIN ids' = Object,
         DOMAIN meta_to_node_map' = Object,
         \A x \in Object \ {obj} : SameIndex(x),
         ObjectTypeOK(obj)', Agree(obj)',
         \A w \in DOMAIN meta_to_node_map'[obj] : meta_to_node_map'[obj][w] # {},
         \A p, w : Stored(obj, p, w)' <=>
                     Stored(obj, p, w) \/ (p = pattern /\ w = NextWord)
  PROVE  ParaglobInv'
<1>1. obj \in Object /\ pattern \in Pattern /\ pattern # None
  BY WordFacts DEF Adding
<1>2. trie_open[obj] /\ NextWord \notin TooLong
  BY DEF Accepts
<1>3. Shape' /\ CallTypeOK'
  BY WordFacts DEF ParaglobInv, Shape, CallTypeOK
<1>4. Done' = Done + 1
  <2>1. Done' = Len(MetaWords[pattern]) - Len(Tail(rest))
    BY DEF Done
  <2>2. Len(MetaWords[pattern]) \in Nat
    BY <1>1, MetaWordsAreWords
  <2>3. Len(Tail(rest)) = Len(rest) - 1 /\ Len(rest) \in Nat
    BY WordFacts
  <2> QED
    BY <2>1, <2>2, <2>3 DEF Done
<1>5. \A d \in Nat : \A i \in 1..(d + 1) : i \in 1..d \/ i = d + 1
  OBVIOUS
<1>6. Reached(pattern, Done + 1)
  <2>1. Reached(pattern, Done)
    BY <1>1 DEF ParaglobInv, AddInv
  <2>2. ASSUME NEW j \in 1..(Done + 1)
        PROVE  MetaWords[pattern][j] \notin TooLong
    BY <1>2, <1>5, <2>1, WordFacts DEF Reached
  <2> QED
    BY <2>2 DEF Reached
<1>7. AddInv'
  <2>1. ASSUME NEW i \in 1..(Done + 1)
        PROVE  Stored(obj, pattern, MetaWords[pattern][i])'
    <3>1. i \in 1..Done => Stored(obj, pattern, MetaWords[pattern][i])
      BY <1>1 DEF ParaglobInv, AddInv
    <3>2. MetaWords[pattern][Done + 1] = NextWord /\ Done \in Nat
      BY WordFacts
    <3> QED
      BY <1>5, <3>1, <3>2
  <2>2. Wildcard(pattern) => pattern \in single_wildcards[obj]
    BY <1>1 DEF ParaglobInv, AddInv
  <2>3. Done + 1 \in Nat
    BY WordFacts
  <2>4. \A j \in 1..Len(rest') : rest'[j] = MetaWords[pattern][Done' + j]
    BY <1>4, WordFacts
  <2>5. /\ Done' \in Nat
        /\ \A i \in 1..Done' : Stored(obj, pattern, MetaWords[pattern][i])'
        /\ \A j \in 1..Done' : MetaWords[pattern][j] \notin TooLong
    BY <1>4, <1>6, <2>1, <2>3 DEF Reached, Stored
  <2> QED
    BY <1>2, <2>2, <2>4, <2>5 DEF AddInv, Wildcard, Reached, Stored
<1>8. ASSUME NEW x \in Object
      PROVE  ObjectInv(x)'
  <2>1. ObjectInv(x)
    BY DEF ParaglobInv
  <2>2. CASE x # obj
    BY <2>1, <2>2, SameObject DEF Same
  <2>3. CASE x = obj
    <3>1. NodesInv(obj)'
      <4>1. ASSUME NEW w, NEW p, Stored(obj, p, w)'
            PROVE  \E i \in 1..Len(MetaWords[p]) : MetaWords[p][i] = w /\ Reached(p, i)
        <5>1. CASE Stored(obj, p, w)
          BY <2>1, <2>3, <5>1 DEF ObjectInv, NodesInv, Stored
        <5>2. CASE p = pattern /\ w = NextWord
          BY <1>6, <5>2, WordFacts
        <5> QED
          BY <4>1, <5>1, <5>2
      <4>2. ASSUME NEW w \in DOMAIN meta_to_node_map'[obj],
                   NEW p \in meta_to_node_map'[obj][w]
            PROVE  \E i \in 1..Len(MetaWords[p]) : MetaWords[p][i] = w /\ Reached(p, i)
        <5>1. Stored(obj, p, w)'
          BY <4>2 DEF Stored
        <5> QED
          BY <4>1, <5>1
      <4> QED
        BY <4>2 DEF NodesInv, Reached
    <3>2. WildcardsInv(obj)'
      BY <2>1, <2>3 DEF ObjectInv, WildcardsInv, Wildcard
    <3>3. AcceptedInv(obj)'
      <4>1. ASSUME NEW p \in accepted[obj]
            PROVE  /\ \A i \in 1..Len(MetaWords[p]) : Stored(obj, p, MetaWords[p][i])'
                   /\ Wildcard(p) => p \in single_wildcards[obj]
        BY <2>1, <2>3, <4>1 DEF ObjectInv, AcceptedInv
      <4> QED
        BY <4>1 DEF AcceptedInv, Wildcard, Stored
    <3> QED
      BY <2>3, <3>1, <3>2, <3>3 DEF ObjectInv
  <2> QED
    BY <2>2, <2>3
<1>9. CompleteInv'
  <2> SUFFICES ASSUME NEW o \in Object, NEW p \in GetPatterns(o)'
               PROVE  Complete(o, p)' \/ (o = obj /\ p = pattern)
    BY <1>1, <1>2 DEF CompleteInv
  <2>1. CASE o # obj
    <3>1. meta_to_node_map'[o] = meta_to_node_map[o] /\ p \in GetPatterns(o)
      BY <2>1 DEF SameIndex, GetPatterns
    <3>2. Complete(o, p)
      BY <2>1, <3>1 DEF ParaglobInv, CompleteInv
    <3> QED
      BY <3>1, <3>2, SameStored
  <2>2. CASE o = obj /\ p # pattern
    <3>1. (\E w : Stored(obj, p, w)') \/ p \in single_wildcards'[obj]
      BY <2>2, PatternsAfter
    <3>2. p \in GetPatterns(obj)
      BY <2>2, <3>1, PatternsOfObject
    <3>3. Complete(obj, p)
      BY <1>1, <2>2, <3>2 DEF ParaglobInv, CompleteInv
    <3>4. \A i \in 1..Len(MetaWords[p]) : Reached(p, i) => Stored(obj, p, MetaWords[p][i])'
      BY <3>3 DEF Complete
    <3> QED
      BY <2>2, <3>4 DEF Complete, Reached
  <2> QED
    BY <2>1, <2>2
<1> QED
  BY <1>3, <1>7, <1>8, <1>9 DEF ParaglobInv

LEMMA AddNewWordStep ==
  ASSUME ParaglobInv, AddNewWord
  PROVE  ParaglobInv'
<1> DEFINE w == NextWord
           n == Len(meta_words[obj])
<1>1. /\ Adding /\ rest # << >> /\ Accepts(obj, w) /\ w \notin DOMAIN ids[obj]
      /\ rest' = Tail(rest)
      /\ UNCHANGED <<alive, trie_open, single_wildcards, call, obj, pattern,
                     queue, accepted, answers>>
  BY DEF AddNewWord
<1>2. /\ ids' = [ids EXCEPT ![obj] = [v \in DOMAIN @ \cup {w} |->
                                       IF v = w THEN n ELSE @[v]]]
      /\ meta_words' = [meta_words EXCEPT ![obj] = Append(@, w)]
      /\ meta_to_node_map' =
           [meta_to_node_map EXCEPT ![obj] = [v \in DOMAIN @ \cup {w} |->
                                              IF v = w THEN {pattern} ELSE @[v]]]
  BY DEF AddNewWord, NextId, InitPatterns
<1>3. obj \in Object /\ pattern \in Pattern /\ w \in Word
  BY <1>1, WordFacts
<1>4. /\ ObjectTypeOK(obj) /\ Agree(obj) /\ NodesInv(obj)
      /\ DOMAIN ids = Object /\ DOMAIN meta_words = Object
      /\ DOMAIN meta_to_node_map = Object
  BY <1>3 DEF ParaglobInv, Shape, ObjectInv
<1> HIDE DEF w, n
<1>5. /\ DOMAIN ids' = Object /\ DOMAIN meta_words' = Object
      /\ DOMAIN meta_to_node_map' = Object
      /\ \A x \in Object \ {obj} : SameIndex(x)
  BY <1>1, <1>2, <1>4 DEF SameIndex
<1>6. /\ ids'[obj] = [v \in DOMAIN ids[obj] \cup {w} |->
                        IF v = w THEN n ELSE ids[obj][v]]
      /\ meta_words'[obj] = Append(meta_words[obj], w)
      /\ meta_to_node_map'[obj] = [v \in DOMAIN meta_to_node_map[obj] \cup {w} |->
                        IF v = w THEN {pattern} ELSE meta_to_node_map[obj][v]]
  BY <1>2, <1>3, <1>4
<1>7. /\ DOMAIN ids'[obj] = DOMAIN ids[obj] \cup {w}
      /\ ids'[obj][w] = n
      /\ \A v \in DOMAIN ids[obj] : ids'[obj][v] = ids[obj][v]
  BY <1>1, <1>6
<1>8. /\ DOMAIN meta_to_node_map'[obj] = DOMAIN meta_to_node_map[obj] \cup {w}
      /\ meta_to_node_map'[obj][w] = {pattern}
      /\ \A v \in DOMAIN meta_to_node_map[obj] :
           v # w /\ meta_to_node_map'[obj][v] = meta_to_node_map[obj][v]
  BY <1>1, <1>4, <1>6 DEF Agree
<1>9. /\ n \in Nat /\ meta_words[obj] \in Seq(Word)
      /\ meta_words'[obj] \in Seq(Word)
      /\ Len(meta_words'[obj]) = n + 1
      /\ meta_words'[obj][n + 1] = w
      /\ \A i \in 1..n : meta_words'[obj][i] = meta_words[obj][i]
  BY <1>3, <1>4, <1>6 DEF ObjectTypeOK, n
<1>10. ObjectTypeOK(obj)'
  BY <1>1, <1>3, <1>4, <1>7, <1>8, <1>9 DEF ObjectTypeOK
<1>11. Agree(obj)'
  <2>1. DOMAIN ids'[obj] = DOMAIN meta_to_node_map'[obj]
    BY <1>4, <1>7, <1>8 DEF Agree
  <2>2. ASSUME NEW v \in DOMAIN ids[obj]
        PROVE  /\ ids[obj][v] \in Nat /\ ids[obj][v] < n
               /\ meta_words[obj][ids[obj][v] + 1] = v
    BY <1>4 DEF Agree, ObjectTypeOK, n
  <2>3. ASSUME NEW v \in DOMAIN ids'[obj]
        PROVE  ids'[obj][v] < Len(meta_words'[obj]) /\ meta_words'[obj][ids'[obj][v] + 1] = v
    <3>1. CASE v = w
      BY <1>7, <1>9, <3>1
    <3>2. CASE v \in DOMAIN ids[obj]
      <4>1. ids[obj][v] + 1 \in 1..n
        BY <1>9, <2>2, <3>2
      <4> QED
        BY <1>7, <1>9, <2>2, <3>2, <4>1
    <3> QED
      BY <1>7, <3>1, <3>2
  <2>4. ASSUME NEW i \in 1..(n + 1)
        PROVE  /\ meta_words'[obj][i] \in DOMAIN ids'[obj]
               /\ ids'[obj][meta_words'[obj][i]] = i - 1
    <3>1. CASE i = n + 1
      BY <1>7, <1>9, <3>1
    <3>2. CASE i # n + 1
      <4>1. i \in 1..n
        BY <1>9, <3>2
      <4>2. meta_words[obj][i] \in DOMAIN ids[obj] /\ ids[obj][meta_words[obj][i]] = i - 1
        BY <1>4, <4>1 DEF Agree, n
      <4> QED
        BY <1>7, <1>9, <4>1, <4>2
    <3> QED
      BY <3>1, <3>2
  <2> QED
    BY <1>1, <1>9, <2>1, <2>3, <2>4 DEF Agree
<1>12. \A v \in DOMAIN meta_to_node_map'[obj] : meta_to_node_map'[obj][v] # {}
  BY <1>4, <1>8 DEF NodesInv
<1>13. ASSUME NEW p, NEW v
       PROVE  Stored(obj, p, v)' <=> Stored(obj, p, v) \/ (p = pattern /\ v = w)
  BY <1>1, <1>8 DEF Stored
<1> QED
  BY <1>1, <1>5, <1>10, <1>11, <1>12, <1>13, WordStep DEF w

LEMMA AddKnownWordStep ==
  ASSUME ParaglobInv, AddKnownWord
  PROVE  ParaglobInv'
<1> DEFINE w == NextWord
           m == meta_to_node_map[obj]
<1>1. /\ Adding /\ rest # << >> /\ Accepts(obj, w) /\ w \in DOMAIN ids[obj]
      /\ rest' = Tail(rest)
      /\ UNCHANGED <<alive, meta_words, ids, trie_open, single_wildcards, call,
                     obj, pattern, queue, accepted, answers>>
  BY DEF AddKnownWord
<1>2. obj \in Object /\ pattern \in Pattern
  BY <1>1, WordFacts
<1>3. /\ ObjectTypeOK(obj) /\ Agree(obj) /\ NodesInv(obj)
      /\ DOMAIN ids = Object /\ DOMAIN meta_words = Object
      /\ DOMAIN meta_to_node_map = Object
  BY <1>2 DEF ParaglobInv, Shape, ObjectInv
<1>4. w \in DOMAIN m
  BY <1>1, <1>3 DEF Agree
<1>5. meta_to_node_map' = [meta_to_node_map EXCEPT ![obj] = [m EXCEPT ![w] = m[w] \cup {pattern}]]
  BY DEF AddKnownWord, AddPattern
<1> HIDE DEF w
<1>6. /\ DOMAIN meta_to_node_map' = Object
      /\ \A x \in Object \ {obj} : SameIndex(x)
      /\ meta_to_node_map'[obj] = [m EXCEPT ![w] = m[w] \cup {pattern}]
  BY <1>1, <1>2, <1>3, <1>5 DEF SameIndex
<1>7. /\ DOMAIN meta_to_node_map'[obj] = DOMAIN m
      /\ meta_to_node_map'[obj][w] = m[w] \cup {pattern}
      /\ \A v \in DOMAIN m \ {w} : meta_to_node_map'[obj][v] = m[v]
  BY <1>4, <1>6
<1>8. ObjectTypeOK(obj)' /\ Agree(obj)'
  <2>1. /\ ids'[obj] = ids[obj] /\ meta_words'[obj] = meta_words[obj]
        /\ DOMAIN meta_to_node_map'[obj] = DOMAIN meta_to_node_map[obj]
    BY <1>1, <1>7
  <2>2. \A v \in DOMAIN m : m[v] \subseteq Pattern
    BY <1>3 DEF ObjectTypeOK
  <2>3. \A v \in DOMAIN m : meta_to_node_map'[obj][v] \subseteq Pattern
    BY <1>2, <1>4, <1>7, <2>2
  <2>4. ObjectTypeOK(obj)'
    BY <1>1, <1>3, <2>1, <2>3 DEF ObjectTypeOK
  <2>5. Agree(obj)'
    BY <1>1, <1>3, <2>1 DEF Agree
  <2> QED
    BY <2>4, <2>5
<1>9. \A v \in DOMAIN meta_to_node_map'[obj] : meta_to_node_map'[obj][v] # {}
  BY <1>3, <1>7 DEF NodesInv
<1>10. ASSUME NEW p, NEW v
       PROVE  Stored(obj, p, v)' <=> Stored(obj, p, v) \/ (p = pattern /\ v = w)
  BY <1>1, <1>4, <1>7 DEF Stored
<1> QED
  BY <1>1, <1>3, <1>6, <1>8, <1>9, <1>10, WordStep DEF w

(* A step that ends the adding of a pattern, with everything complete      *)
LEMMA EndStep ==
  ASSUME Shape', CallTypeOK', pattern' = None,
         \A x \in Object : ObjectInv(x)',
         \A x \in Object : \A p \in GetPatterns(x)' : Complete(x, p)'
  PROVE  ParaglobInv'
<1>1. AddInv' /\ CompleteInv'
  BY DEF AddInv, CompleteInv
<1> QED
  BY <1>1 DEF ParaglobInv

(* A refused word, or a compiled trie, leaves no pattern half indexed that *)
(* adding it again would complete.                                         *)
LEMMA RefusedIsComplete ==
  ASSUME ParaglobInv, Adding, rest # << >>, ~Accepts(obj, NextWord),
         NEW p \in GetPatterns(obj)
  PROVE  Complete(obj, p)
<1>1. obj \in Object /\ pattern # None /\ Done \in Nat
  BY WordFacts DEF Adding
<1>2. Complete(obj, p) \/ (p = pattern /\ trie_open[obj])
  BY <1>1 DEF ParaglobInv, CompleteInv
<1>3. CASE p = pattern /\ trie_open[obj]
  <2>1. MetaWords[pattern][Done + 1] \in TooLong
    BY <1>3, WordFacts DEF Accepts
  <2>2. ASSUME NEW i \in 1..Len(MetaWords[pattern]), Reached(pattern, i)
        PROVE  Stored(obj, pattern, MetaWords[pattern][i])
    <3>1. Done + 1 \notin 1..i
      BY <2>1, <2>2 DEF Reached
    <3>2. i \in 1..Done
      BY <1>1, <3>1
    <3> QED
      BY <1>1, <3>2 DEF ParaglobInv, AddInv
  <2> QED
    BY <1>3, <2>2 DEF Complete
<1> QED
  BY <1>2, <1>3

LEMMA RefuseWordStep ==
  ASSUME ParaglobInv, RefuseWord
  PROVE  ParaglobInv'
<1>1. /\ Adding /\ rest # << >> /\ ~Accepts(obj, NextWord)
      /\ call' = None /\ obj' = None /\ pattern' = None
      /\ rest' = << >> /\ queue' = << >> /\ alive' = alive
  BY DEF RefuseWord, Return
<1>2. obj \in Object /\ Shape
  BY <1>1, WordFacts DEF ParaglobInv
<1>3. CallTypeOK'
  BY <1>1 DEF CallTypeOK
<1>4. ASSUME NEW x \in Object, NEW p \in GetPatterns(x)
      PROVE  Complete(x, p)
  <2>1. CASE x = obj
    BY <1>1, <1>4, <2>1, RefusedIsComplete
  <2>2. CASE x # obj
    BY <1>4, <2>2 DEF ParaglobInv, CompleteInv
  <2> QED
    BY <2>1, <2>2
<1>5. CASE call = "add"
  <2>1. UNCHANGED <<meta_words, ids, trie_open, meta_to_node_map,
                    single_wildcards, accepted, answers>>
    BY <1>5 DEF RefuseWord, indexVars
  <2>2. Shape'
    BY <1>1, <1>2, <2>1 DEF Shape
  <2>3. ASSUME NEW x \in Object
        PROVE  ObjectInv(x)' /\ GetPatterns(x)' = GetPatterns(x)
    BY <2>1, SameObject DEF ParaglobInv, Same, SameIndex
  <2>4. ASSUME NEW x \in Object, NEW p \in GetPatterns(x)'
        PROVE  Complete(x, p)'
    BY <1>4, <2>1, <2>3, <2>4, SameStored
  <2> QED
    BY <1>1, <1>3, <2>2, <2>3, <2>4, EndStep
<1>6. CASE call # "add"
  <2>1. Blank(obj) /\ answers' = [answers EXCEPT ![obj] = None]
    BY <1>6 DEF RefuseWord
  <2>2. Shape'
    <3>1. /\ DOMAIN meta_words' = Object /\ DOMAIN ids' = Object
          /\ DOMAIN trie_open' = Object /\ DOMAIN meta_to_node_map' = Object
          /\ DOMAIN single_wildcards' = Object /\ DOMAIN accepted' = Object
      BY <1>2, <2>1 DEF Shape, Blank
    <3> QED
      BY <1>1, <1>2, <2>1, <3>1 DEF Shape
  <2>3. PICK o \in Object : o = obj
    BY <1>2
  <2>4. Blank(o)
    BY <2>1, <2>3
  <2>5. ASSUME NEW x \in Object
        PROVE  ObjectInv(x)' /\ \A p \in GetPatterns(x)' : Complete(x, p)'
    <3>1. CASE x = o
      BY <1>2, <2>4, <3>1, BlankObject
    <3>2. CASE x # o
      <4>1. Same(x)
        BY <1>2, <2>4, <3>2, BlankObject
      <4> QED
        BY <1>4, <4>1, SameObject, SameStored DEF ParaglobInv, Same, SameIndex
    <3> QED
      BY <3>1, <3>2
  <2> QED
    BY <1>1, <1>3, <2>2, <2>5, EndStep
<1> QED
  BY <1>5, <1>6

LEMMA AddEndStep ==
  ASSUME ParaglobInv, AddEnd
  PROVE  ParaglobInv'
<1>1. /\ call # None /\ pattern # None /\ rest = << >> /\ pattern' = None
      /\ accepted' = [accepted EXCEPT ![obj] = @ \cup {pattern}]
      /\ UNCHANGED <<alive, meta_words, ids, trie_open, meta_to_node_map,
                     single_wildcards, answers>>
  BY DEF AddEnd, Adding, Idle, Return, indexVars
<1>2. obj \in Object /\ pattern \in Pattern /\ Shape
  BY <1>1 DEF ParaglobInv, CallTypeOK
<1>3. Shape'
  BY <1>1, <1>2 DEF Shape
<1>4. CallTypeOK'
  <2>1. CASE call = "add"
    BY <2>1 DEF AddEnd, Return, CallTypeOK
  <2>2. CASE call # "add"
    BY <1>1, <2>2 DEF AddEnd, ParaglobInv, CallTypeOK
  <2> QED
    BY <2>1, <2>2
<1>5. Done = Len(MetaWords[pattern])
  BY <1>1, <1>2, MetaWordsAreWords DEF Done
<1>6. /\ \A i \in 1..Len(MetaWords[pattern]) : Stored(obj, pattern, MetaWords[pattern][i])
      /\ Wildcard(pattern) => pattern \in single_wildcards[obj]
  BY <1>1, <1>5 DEF ParaglobInv, AddInv
<1>7. ASSUME NEW x \in Object
      PROVE  /\ ObjectInv(x)' /\ GetPatterns(x)' = GetPatterns(x)
             /\ \A p \in GetPatterns(x) : Complete(x, p)
  <2>1. ObjectInv(x)
    BY DEF ParaglobInv
  <2>2. ObjectTypeOK(x)'
    BY <1>1, <1>2, <2>1 DEF ObjectInv, ObjectTypeOK, Shape
  <2>3. Agree(x)' /\ NodesInv(x)' /\ WildcardsInv(x)'
    BY <1>1, <2>1 DEF ObjectInv, Agree, NodesInv, WildcardsInv, Reached, Wildcard
  <2>4. AcceptedInv(x)'
    <3>1. ASSUME NEW p \in accepted'[x]
          PROVE  /\ \A i \in 1..Len(MetaWords[p]) : Stored(x, p, MetaWords[p][i])
                 /\ Wildcard(p) => p \in single_wildcards[x]
      <4>1. p \in accepted[x] \/ (x = obj /\ p = pattern)
        BY <1>1, <1>2, <3>1 DEF Shape
      <4> QED
        BY <1>6, <2>1, <4>1 DEF ObjectInv, AcceptedInv
    <3>2. \A p, w : Stored(x, p, w)' <=> Stored(x, p, w)
      BY <1>1, SameStored
    <3> QED
      BY <1>1, <3>1, <3>2 DEF AcceptedInv, Wildcard
  <2>5. GetPatterns(x)' = GetPatterns(x)
    BY <1>1 DEF GetPatterns
  <2>6. ASSUME NEW p \in GetPatterns(x)
        PROVE  Complete(x, p)
    <3>1. Complete(x, p) \/ (x = obj /\ p = pattern)
      BY DEF ParaglobInv, CompleteInv
    <3>2. Complete(obj, pattern)
      BY <1>6 DEF Complete
    <3> QED
      BY <3>1, <3>2
  <2> QED
    BY <2>1, <2>2, <2>3, <2>4, <2>5, <2>6 DEF ObjectInv
<1>8. ASSUME NEW x \in Object, NEW p \in GetPatterns(x)'
      PROVE  Complete(x, p)'
  BY <1>1, <1>7, <1>8, SameStored
<1> QED
  BY <1>1, <1>3, <1>4, <1>7, <1>8, EndStep

(* Compiling, by compile or at the end of a constructor, loses nothing.    *)
LEMMA CompiledStep ==
  ASSUME ParaglobInv, pattern = None, NEW o \in Object,
         trie_open' = [trie_open EXCEPT ![o] = FALSE],
         alive' \subseteq Object, CallTypeOK', pattern' = None,
         UNCHANGED <<meta_words, ids, meta_to_node_map, single_wildcards,
                     accepted, answers>>
  PROVE  ParaglobInv'
<1>1. Shape'
  BY DEF ParaglobInv, Shape
<1>2. ASSUME NEW x \in Object
      PROVE  ObjectInv(x)' /\ GetPatterns(x)' = GetPatterns(x)
  <2>1. ObjectInv(x) /\ trie_open[x] \in BOOLEAN
    BY DEF ParaglobInv, ObjectInv, ObjectTypeOK
  <2>2. DOMAIN trie_open = Object
    BY DEF ParaglobInv, Shape
  <2>3. x # o => trie_open'[x] = trie_open[x]
    BY <2>2
  <2>4. x = o => trie_open'[x] = FALSE
    BY <2>2
  <2>5. trie_open'[x] \in BOOLEAN
    BY <2>1, <2>3, <2>4, Zenon
  <2> QED
    BY <2>1, <2>5, SameIndexObject DEF SameIndex
<1>3. CompleteInv'
  BY <1>2, CompleteStays DEF ParaglobInv
<1>4. AddInv'
  BY DEF AddInv
<1> QED
  BY <1>1, <1>2, <1>3, <1>4 DEF ParaglobInv

LEMMA ConstructEndStep ==
  ASSUME ParaglobInv, ConstructEnd
  PROVE  ParaglobInv'
<1>1. /\ call \in {"construct", "load"} /\ pattern = None
      /\ trie_open' = [trie_open EXCEPT ![obj] = FALSE]
      /\ alive' = alive \cup {obj}
      /\ call' = None /\ obj' = None /\ pattern' = None
      /\ rest' = << >> /\ queue' = << >>
      /\ UNCHANGED <<meta_words, ids, meta_to_node_map, single_wildcards,
                     accepted, answers>>
  BY DEF ConstructEnd, Return
<1>2. obj \in Object /\ alive \subseteq Object
  BY <1>1, ParaglobAssumption DEF ParaglobInv, CallTypeOK, Shape
<1>3. CallTypeOK'
  BY <1>1 DEF CallTypeOK
<1>4. PICK o \in Object : o = obj
  BY <1>2
<1>5. alive' \subseteq Object /\ trie_open' = [trie_open EXCEPT ![o] = FALSE]
  BY <1>1, <1>2, <1>4
<1> QED
  BY <1>1, <1>3, <1>5, CompiledStep

LEMMA CompileStep ==
  ASSUME ParaglobInv, NEW o \in Object, Compile(o)
  PROVE  ParaglobInv'
<1>1. /\ call = None /\ trie_open' = [trie_open EXCEPT ![o] = FALSE]
      /\ UNCHANGED <<alive, meta_words, ids, meta_to_node_map,
                     single_wildcards, call, obj, pattern, rest, queue,
                     accepted, answers>>
  BY DEF Compile, Idle, callVars
<1>2. pattern = None /\ alive \subseteq Object
  BY <1>1 DEF ParaglobInv, CallTypeOK, Shape
<1>3. CallTypeOK'
  BY <1>1 DEF ParaglobInv, CallTypeOK
<1> QED
  BY <1>1, <1>2, <1>3, CompiledStep

LEMMA ParaglobInvStep == ParaglobInv /\ [Next]_vars => ParaglobInv'
<1> SUFFICES ASSUME ParaglobInv, [Next]_vars
             PROVE  ParaglobInv'
  OBVIOUS
<1>1. ASSUME NEW o \in Object, Create(o)
      PROVE  ParaglobInv'
  BY <1>1, CreateStep
<1>2. ASSUME NEW o \in Object, Compile(o)
      PROVE  ParaglobInv'
  BY <1>2, CompileStep
<1>3. ASSUME NEW o \in Object, NEW v \in Vectors, Construct(o, v)
      PROVE  ParaglobInv'
  BY <1>3, ConstructStep
<1>4. ASSUME NEW o \in Object, NEW other \in Object, Load(o, other)
      PROVE  ParaglobInv'
  BY <1>4, LoadStep
<1>5. ASSUME NEW o \in Object, NEW p \in Pattern, Add(o, p)
      PROVE  ParaglobInv'
  BY <1>5, AddStep
<1>6. CASE AddNext
  BY <1>6, AddNextStep
<1>7. CASE AddNewWord
  BY <1>7, AddNewWordStep
<1>8. CASE AddKnownWord
  BY <1>8, AddKnownWordStep
<1>9. CASE RefuseWord
  BY <1>9, RefuseWordStep
<1>10. CASE AddEnd
  BY <1>10, AddEndStep
<1>11. CASE ConstructEnd
  BY <1>11, ConstructEndStep
<1>12. CASE UNCHANGED vars
  <2>1. UNCHANGED <<alive, meta_words, ids, trie_open, meta_to_node_map,
                    single_wildcards, call, obj, pattern, rest, queue,
                    accepted, answers>>
    BY <1>12 DEF vars, indexVars, callVars
  <2>2. Shape' /\ CallTypeOK'
    BY <2>1 DEF ParaglobInv, Shape, CallTypeOK
  <2>3. AddInv'
    BY <2>1 DEF ParaglobInv, AddInv, Done, Stored, Reached, Wildcard
  <2>4. ASSUME NEW x \in Object
        PROVE  ObjectInv(x)' /\ GetPatterns(x)' = GetPatterns(x)
    BY <2>1, SameObject DEF ParaglobInv, Same, SameIndex
  <2>5. \A x \in Object : \A p : Complete(x, p)' <=> Complete(x, p)
    BY <2>1, SameStored
  <2>6. CompleteInv'
    BY <2>1, <2>4, <2>5 DEF ParaglobInv, CompleteInv
  <2> QED
    BY <2>2, <2>3, <2>4, <2>6 DEF ParaglobInv
<1> QED
  BY <1>1, <1>2, <1>3, <1>4, <1>5, <1>6, <1>7, <1>8, <1>9, <1>10, <1>11,
     <1>12 DEF Next

LEMMA ParaglobInvariant == Spec => []ParaglobInv
BY ParaglobInvInit, ParaglobInvStep, PTL DEF Spec

(***************************************************************************)
(* The theorems                                                            *)
(***************************************************************************)

(* The type invariant of class Paraglob.                                   *)
THEOREM ParaglobTypesHold == Spec => []ParaglobTypeOK
<1>1. ParaglobInv => ParaglobTypeOK
  BY DEF ParaglobInv, Shape, CallTypeOK, ObjectInv, ObjectTypeOK, ParaglobTypeOK
<1> QED
  BY <1>1, ParaglobInvariant, PTL

(* At every moment of add and of the constructors the trie, meta_words and *)
(* meta_to_node_map say the same, so that no at() throws.                  *)
THEOREM IndexesStayInAgreement == Spec => []IndexesAgree
<1>1. ParaglobInv => IndexesAgree
  BY DEF ParaglobInv, ObjectInv, Agree, IndexesAgree
<1> QED
  BY <1>1, ParaglobInvariant, PTL

LEMMA InvGetFinds == ParaglobInv => GetFindsAccepted
<1> SUFFICES ASSUME ParaglobInv, NEW o \in alive, trie_open[o] = FALSE,
                    NEW t \in Text, NEW p \in accepted[o],
                    p # Empty, Necessary(p), <<p, t>> \in Matching
             PROVE  p \in Get(o, t)
  <2>1. ASSUME ParaglobInv, NEW o \in alive, ~trie_open[o]
        PROVE  trie_open[o] = FALSE
    BY <2>1, Zenon DEF ParaglobInv, Shape, ObjectInv, ObjectTypeOK
  <2> QED
    BY <2>1 DEF GetFindsAccepted
<1>1. o \in Object /\ ObjectInv(o)
  BY DEF ParaglobInv, Shape
<1>2. p \in Pattern /\ AcceptedInv(o) /\ Agree(o)
  BY <1>1 DEF ObjectInv, ObjectTypeOK
<1>3. CASE MetaWords[p] = << >>
  BY <1>2, <1>3 DEF AcceptedInv, Wildcard, Get
<1>4. CASE MetaWords[p] # << >>
  <2> DEFINE w == MetaWords[p][1]
             id == ids[o][w]
  <2>1. 1 \in 1..Len(MetaWords[p])
    BY <1>2, <1>4, MetaWordsAreWords
  <2>2. w \in DOMAIN meta_to_node_map[o] /\ p \in meta_to_node_map[o][w]
    BY <1>2, <2>1 DEF AcceptedInv, Stored
  <2>3. <<w, t>> \in Occurring
    BY <2>1 DEF Necessary
  <2>4. w \in DOMAIN ids[o] /\ meta_words[o][id + 1] = w
    BY <1>2, <2>2 DEF Agree
  <2> HIDE DEF w
  <2>5. id \in FindAll(o, t)
    BY <2>3, <2>4 DEF FindAll
  <2>6. p \in MergeMatches(o, id, t)
    BY <2>2, <2>4 DEF MergeMatches
  <2> QED
    BY <2>5, <2>6 DEF Get
<1> QED
  BY <1>3, <1>4

(* Once it is compiled, get finds every matching pattern that add accepted *)
(* and whose words are necessary.                                          *)
THEOREM GetFinds == Spec => []GetFindsAccepted
BY InvGetFinds, ParaglobInvariant, PTL

LEMMA InvSamePatterns == ParaglobInv => SamePatternsAreEqual
<1> SUFFICES ASSUME ParaglobInv, Idle, NEW o \in alive, NEW other \in alive,
                    GetPatterns(o) = GetPatterns(other)
             PROVE  DOMAIN meta_to_node_map[o] \subseteq DOMAIN meta_to_node_map[other]
  BY DEF SamePatternsAreEqual, Equal
<1>1. o \in Object /\ other \in Object /\ pattern = None
  BY DEF ParaglobInv, Shape, CallTypeOK, Idle
<1>2. ASSUME NEW w \in DOMAIN meta_to_node_map[o]
      PROVE  w \in DOMAIN meta_to_node_map[other]
  <2>1. NodesInv(o)
    BY <1>1 DEF ParaglobInv, ObjectInv
  <2>2. PICK p \in meta_to_node_map[o][w] :
          \E i \in 1..Len(MetaWords[p]) : MetaWords[p][i] = w /\ Reached(p, i)
    BY <2>1 DEF NodesInv
  <2>3. PICK i \in 1..Len(MetaWords[p]) : MetaWords[p][i] = w /\ Reached(p, i)
    BY <2>2
  <2>4. p \in GetPatterns(other)
    BY <2>2, PatternsOfObject DEF Stored
  <2>5. Complete(other, p)
    BY <1>1, <2>4, NothingAdding DEF ParaglobInv
  <2> QED
    BY <2>3, <2>5 DEF Complete, Stored
<1> QED
  BY <1>2

(* Between two calls, paraglobs with the same patterns are equal.          *)
THEOREM SamePatternsEqual == Spec => []SamePatternsAreEqual
BY InvSamePatterns, ParaglobInvariant, PTL

(***************************************************************************)
(* Copies, where unserialize reads back the patterns that were serialized  *)
(***************************************************************************)

ReadsBack ==
  \A P \in SUBSET Pattern : Reread(P) # None => ToSet(Reread(P)) = P

(* get returns p for t wherever p is stored completely.                    *)
Findable(p, t) ==
  \/ Wildcard(p)
  \/ /\ <<p, t>> \in Matching
     /\ \E i \in 1..Len(MetaWords[p]) : <<MetaWords[p][i], t>> \in Occurring

(* No word of p is refused. *)
Whole(p) == Reached(p, Len(MetaWords[p]))

(* A pattern the constructor running for o has still to index              *)
Pending(o, p) ==
  /\ call = "load" /\ o = obj
  /\ (pattern # None /\ p = pattern) \/ \E i \in 1..Len(queue) : queue[i] = p

(* A pattern that the copy o has or will have                              *)
Known(o, p) == p \in GetPatterns(o) \/ Pending(o, p)

(* What the original answered is in the copy or will be, ...               *)
AnswersAreKept(o) ==
  \A t \in Text : \A p \in answers[o][t] :
    Findable(p, t) /\ (p \in accepted[o] \/ p \in single_wildcards[o] \/ Pending(o, p))

(* ... what the copy has or will have it answers only as the original did, *)
(* and only the pattern being indexed may turn out to be refused.          *)
AnswersAreFrom(o) ==
  /\ \A t \in Text : \A p :
       Known(o, p) /\ Whole(p) /\ Findable(p, t) => p \in answers[o][t]
  /\ \A p \in GetPatterns(o) : Whole(p) \/ Pending(o, p)

AnswersInv ==
  \A o \in Object : answers[o] # None => AnswersAreKept(o) /\ AnswersAreFrom(o)

(* A constructor runs for a paraglob that is not there yet, add for one    *)
(* that is; what was made from a vector is no copy.                        *)
CopyCallInv ==
  /\ call \in {"construct", "load"} => obj \notin alive
  /\ call = "add" => obj \in alive
  /\ call = "construct" => answers[obj] = None

CopyInv ==
  /\ AnswersInv /\ CopyCallInv
  /\ \A o \in alive : answers[o] # None => trie_open[o] = FALSE

LEMMA IsClosed ==
  ASSUME ParaglobInv, NEW o \in Object, ~trie_open[o]
  PROVE  trie_open[o] = FALSE
BY Zenon DEF ParaglobInv, ObjectInv, ObjectTypeOK

LEMMA FoundIsFindable ==
  ASSUME ParaglobInv, NEW o \in Object, NEW t \in Text, NEW p \in Get(o, t)
  PROVE  Findable(p, t) /\ p \in GetPatterns(o)
<1>1. NodesInv(o) /\ WildcardsInv(o) /\ Agree(o)
  BY DEF ParaglobInv, ObjectInv
<1>2. CASE p \in single_wildcards[o]
  BY <1>1, <1>2, PatternsOfObject DEF WildcardsInv, Findable
<1>3. CASE p \notin single_wildcards[o]
  <2>1. PICK id \in FindAll(o, t) : p \in MergeMatches(o, id, t)
    BY <1>3 DEF Get
  <2>2. PICK w \in DOMAIN ids[o] : id = ids[o][w] /\ <<w, t>> \in Occurring
    BY <2>1 DEF FindAll
  <2>3. p \in meta_to_node_map[o][w] /\ <<p, t>> \in Matching
    BY <1>1, <2>1, <2>2 DEF MergeMatches, Agree
  <2>4. w \in DOMAIN meta_to_node_map[o]
    BY <1>1, <2>2 DEF Agree
  <2>5. \E i \in 1..Len(MetaWords[p]) : MetaWords[p][i] = w
    BY <1>1, <2>3, <2>4 DEF NodesInv
  <2> QED
    BY <2>2, <2>3, <2>4, <2>5, PatternsOfObject DEF Findable, Stored
<1> QED
  BY <1>2, <1>3

(* What is in the node of a word that occurs, get finds if it matches.     *)
LEMMA StoredIsFound ==
  ASSUME NEW o, Agree(o), trie_open[o] = FALSE, NEW t, NEW p, NEW w,
         Stored(o, p, w), <<w, t>> \in Occurring, <<p, t>> \in Matching
  PROVE  p \in Get(o, t)
<1> DEFINE id == ids[o][w]
<1>1. w \in DOMAIN meta_to_node_map[o] /\ p \in meta_to_node_map[o][w]
  BY DEF Stored
<1>2. w \in DOMAIN ids[o] /\ meta_words[o][id + 1] = w
  BY <1>1 DEF Agree
<1>3. id \in FindAll(o, t)
  BY <1>2 DEF FindAll
<1>4. p \in MergeMatches(o, id, t)
  BY <1>1, <1>2 DEF MergeMatches
<1> QED
  BY <1>3, <1>4 DEF Get

LEMMA AcceptedIsFound ==
  ASSUME ParaglobInv, NEW o \in Object, trie_open[o] = FALSE, NEW t \in Text,
         NEW p \in accepted[o], Findable(p, t)
  PROVE  p \in Get(o, t)
<1>1. AcceptedInv(o) /\ Agree(o)
  BY DEF ParaglobInv, ObjectInv
<1>2. CASE Wildcard(p)
  BY <1>1, <1>2 DEF AcceptedInv, Get
<1>3. CASE ~Wildcard(p)
  <2>1. <<p, t>> \in Matching
    BY <1>3 DEF Findable
  <2>2. PICK i \in 1..Len(MetaWords[p]) : <<MetaWords[p][i], t>> \in Occurring
    BY <1>3 DEF Findable
  <2>3. Stored(o, p, MetaWords[p][i])
    BY <1>1 DEF AcceptedInv
  <2> QED
    BY <1>1, <2>1, <2>2, <2>3, StoredIsFound
<1> QED
  BY <1>2, <1>3

(* ... and so it does, between two patterns, what is indexed completely.   *)
LEMMA WholeIsFound ==
  ASSUME ParaglobInv, pattern = None, NEW o \in Object, trie_open[o] = FALSE,
         NEW t \in Text, NEW p \in GetPatterns(o), Whole(p), Findable(p, t)
  PROVE  p \in Get(o, t)
<1>1. NodesInv(o) /\ Agree(o) /\ Complete(o, p)
  BY NothingAdding DEF ParaglobInv, ObjectInv
<1>2. p \in Pattern
  BY GetPatternsType DEF ParaglobInv, ObjectInv
<1>3. CASE Wildcard(p)
  <2>1. 1..Len(MetaWords[p]) = {}
    BY <1>3 DEF Wildcard
  <2>2. ASSUME NEW w
        PROVE  ~Stored(o, p, w)
    BY <1>1, <2>1 DEF NodesInv, Stored
  <2>3. p \in single_wildcards[o]
    BY <2>2, PatternsOfObject
  <2> QED
    BY <2>3 DEF Get
<1>4. CASE ~Wildcard(p)
  <2>1. <<p, t>> \in Matching
    BY <1>4 DEF Findable
  <2>2. PICK i \in 1..Len(MetaWords[p]) : <<MetaWords[p][i], t>> \in Occurring
    BY <1>4 DEF Findable
  <2>3. Len(MetaWords[p]) \in Nat
    BY <1>2, MetaWordsAreWords
  <2>4. Reached(p, i)
    BY <2>3 DEF Whole, Reached
  <2>5. Stored(o, p, MetaWords[p][i])
    BY <1>1, <2>4 DEF Complete
  <2> QED
    BY <1>1, <2>1, <2>2, <2>5, StoredIsFound
<1> QED
  BY <1>3, <1>4

(* A step that leaves what is expected of o alone: the copy loses nothing, *)
(* and nothing comes to it that was not to come.                           *)
Kept(o) ==
  /\ accepted[o] \subseteq accepted'[o]
  /\ single_wildcards[o] \subseteq single_wildcards'[o]
  /\ \A p : Pending(o, p) => Pending(o, p)' \/ p \in accepted'[o]
  /\ \A p : Known(o, p)' => Known(o, p)
  /\ \A p \in GetPatterns(o)' : Whole(p) \/ Pending(o, p)'

LEMMA AnswersStay ==
  ASSUME AnswersInv, answers' = answers,
         \A o \in Object : answers[o] # None => Kept(o)
  PROVE  AnswersInv'
<1> SUFFICES ASSUME NEW o \in Object, answers[o] # None
             PROVE  AnswersAreKept(o)' /\ AnswersAreFrom(o)'
  BY DEF AnswersInv
<1>1. Kept(o) /\ AnswersAreKept(o) /\ AnswersAreFrom(o)
  BY DEF AnswersInv
<1>2. AnswersAreKept(o)'
  <2> SUFFICES ASSUME NEW t \in Text, NEW p \in answers[o][t]
               PROVE  /\ Findable(p, t)
                      /\ p \in accepted'[o] \/ p \in single_wildcards'[o] \/ Pending(o, p)'
    BY DEF AnswersAreKept, Findable, Wildcard
  <2> QED
    BY <1>1 DEF AnswersAreKept, Kept
<1>3. AnswersAreFrom(o)'
  <2>1. ASSUME NEW t \in Text, NEW p, Known(o, p)', Whole(p), Findable(p, t)
        PROVE  p \in answers[o][t]
    BY <1>1, <2>1 DEF AnswersAreFrom, Kept
  <2>2. \A p \in GetPatterns(o)' : Whole(p) \/ Pending(o, p)'
    BY <1>1 DEF Kept
  <2> QED
    BY <2>1, <2>2 DEF AnswersAreFrom, Whole, Reached, Findable, Wildcard
<1> QED
  BY <1>2, <1>3

LEMMA CopyStays ==
  ASSUME CopyInv, CopyCallInv',
         UNCHANGED <<alive, answers>>,
         \A o \in alive : trie_open[o] = FALSE => trie_open'[o] = FALSE,
         \A o \in Object : answers[o] # None => Kept(o)
  PROVE  CopyInv'
<1>1. AnswersInv'
  BY AnswersStay DEF CopyInv
<1> QED
  BY <1>1 DEF CopyInv

(* Where nothing is pending, before the step or after it, and the indexes  *)
(* stay, nothing changes for a copy.                                       *)
LEMMA NothingPending ==
  ASSUME CopyInv, NEW o \in Object, answers[o] # None,
         \A p : ~Pending(o, p) /\ ~Pending(o, p)',
         GetPatterns(o)' = GetPatterns(o),
         accepted[o] \subseteq accepted'[o],
         single_wildcards'[o] = single_wildcards[o]
  PROVE  Kept(o)
BY DEF Kept, Known, CopyInv, AnswersInv, AnswersAreFrom

(* What holds of a copy that a step neither changes nor adds patterns to   *)
LEMMA OtherCopy ==
  ASSUME ParaglobInv, AnswersInv, NEW x \in Object, answers[x] # None, Same(x),
         answers'[x] = answers[x], \A p : ~Pending(x, p) /\ ~Pending(x, p)'
  PROVE  AnswersAreKept(x)' /\ AnswersAreFrom(x)'
<1>1. /\ AnswersAreKept(x) /\ AnswersAreFrom(x)
      /\ GetPatterns(x)' = GetPatterns(x)
      /\ accepted'[x] = accepted[x] /\ single_wildcards'[x] = single_wildcards[x]
  BY SameObject DEF ParaglobInv, AnswersInv, Same, SameIndex
<1>2. AnswersAreKept(x)'
  <2> SUFFICES ASSUME NEW t \in Text, NEW p \in answers[x][t]
               PROVE  Findable(p, t) /\ (p \in accepted'[x] \/ p \in single_wildcards'[x])
    BY DEF AnswersAreKept, Findable, Wildcard
  <2> QED
    BY <1>1 DEF AnswersAreKept
<1>3. AnswersAreFrom(x)'
  <2>1. ASSUME NEW t \in Text, NEW p, Known(x, p)', Whole(p), Findable(p, t)
        PROVE  p \in answers[x][t]
    BY <1>1, <2>1 DEF AnswersAreFrom, Known
  <2>2. \A p \in GetPatterns(x)' : Whole(p)
    BY <1>1 DEF AnswersAreFrom
  <2> QED
    BY <2>1, <2>2 DEF AnswersAreFrom, Whole, Reached, Findable, Wildcard
<1> QED
  BY <1>2, <1>3

(* A step that starts o empty *)
LEMMA CopyBlank ==
  ASSUME ParaglobInv, CopyInv, NEW o \in Object, Blank(o),
         alive' = alive \/ alive' = alive \cup {o},
         answers' = [answers EXCEPT ![o] = None], o \notin alive,
         call \in {"construct", "load"} => obj = o,
         call' \in {"construct", "load"} => obj' = o,
         CopyCallInv'
  PROVE  CopyInv'
<1>1. Shape
  BY DEF ParaglobInv
<1>2. \A x \in Object \ {o} : Same(x) /\ answers'[x] = answers[x]
  BY <1>1, BlankObject DEF Shape
<1>3. answers'[o] = None
  BY <1>1 DEF Shape
<1>4. AnswersInv'
  <2> SUFFICES ASSUME NEW x \in Object, answers'[x] # None
               PROVE  AnswersAreKept(x)' /\ AnswersAreFrom(x)'
    BY DEF AnswersInv
  <2>1. x # o /\ Same(x) /\ answers'[x] = answers[x] /\ answers[x] # None
    BY <1>2, <1>3
  <2>2. \A p : ~Pending(x, p) /\ ~Pending(x, p)'
    BY <2>1 DEF Pending
  <2> QED
    BY <2>1, <2>2, OtherCopy DEF CopyInv
<1>5. \A x \in alive' : answers'[x] # None => trie_open'[x] = FALSE
  BY <1>1, <1>2, <1>3 DEF CopyInv, Same, Shape
<1> QED
  BY <1>4, <1>5 DEF CopyInv

LEMMA CopyInvInit == Init => CopyInv
BY ParaglobAssumption DEF Init, CopyInv, CopyCallInv, AnswersInv

(* A constructor that is to read back a serialized paraglob starts: what   *)
(* is expected of the copy is what get returns from the other one.         *)
LEMMA LoadCopyStep ==
  ASSUME ReadsBack, ParaglobInv, CopyInv,
         NEW o \in Object, NEW other \in Object, Load(o, other)
  PROVE  CopyInv'
<1> DEFINE read == Reread(GetPatterns(other))
<1>1. call = None /\ o \notin alive /\ Shape /\ pattern = None
  BY DEF Load, Idle, ParaglobInv, CallTypeOK
<1>2. \A x, p : ~Pending(x, p)
  BY <1>1, ParaglobAssumption DEF Pending
<1>3. CASE read = None
  <2>1. UNCHANGED <<alive, meta_to_node_map, single_wildcards, trie_open, call,
                    obj, pattern, queue, accepted, answers>>
    BY <1>3 DEF Load, indexVars, callVars
  <2>2. \A x, p : ~Pending(x, p)'
    BY <1>2, <2>1 DEF Pending
  <2>3. \A x \in Object : answers[x] # None => Kept(x)
    BY <1>2, <2>1, <2>2, NothingPending DEF GetPatterns
  <2>4. CopyCallInv'
    BY <2>1 DEF CopyInv, CopyCallInv
  <2> QED
    BY <2>1, <2>3, <2>4, CopyStays
<1>4. CASE read # None
  <2>1. /\ Blank(o) /\ call' = "load" /\ obj' = o /\ queue' = read
        /\ alive' = alive /\ pattern' = None
        /\ answers' = [answers EXCEPT ![o] = IF trie_open[other] THEN None
                                             ELSE [t \in Text |-> Get(other, t)]]
    BY <1>1, <1>4 DEF Load, Begin
  <2>2. \A x \in Object \ {o} : Same(x) /\ answers'[x] = answers[x]
    BY <1>1, <2>1, BlankObject DEF Shape
  <2>3. GetPatterns(other) \in SUBSET Pattern
    BY GetPatternsType DEF ParaglobInv, ObjectInv
  <2>4. read \in Seq(Pattern) /\ ToSet(read) = GetPatterns(other)
    BY <1>4, <2>3, ParaglobAssumption DEF ReadsBack
  <2>5. ASSUME NEW p
        PROVE  Pending(o, p)' <=> p \in GetPatterns(other)
    <3>1. p \in ToSet(read) <=> \E i \in 1..Len(read) : read[i] = p
      BY DEF ToSet
    <3> QED
      BY <2>1, <2>4, <3>1 DEF Pending
  <2>6. GetPatterns(o)' = {}
    BY <1>1, <2>1, BlankObject
  <2>7. ASSUME answers'[o] # None
        PROVE  AnswersAreKept(o)' /\ AnswersAreFrom(o)'
    <3>1. trie_open[other] = FALSE /\ answers'[o] = [t \in Text |-> Get(other, t)]
      <4>1. ~trie_open[other] /\ answers'[o] = [t \in Text |-> Get(other, t)]
        BY <1>1, <2>1, <2>7 DEF Shape
      <4> QED
        BY <4>1, IsClosed
    <3>2. ASSUME NEW t \in Text, NEW p \in Get(other, t)
          PROVE  Findable(p, t) /\ Pending(o, p)'
      BY <2>5, <3>2, FoundIsFindable
    <3>3. ASSUME NEW t \in Text, NEW p, Known(o, p)', Whole(p), Findable(p, t)
          PROVE  p \in Get(other, t)
      <4>1. p \in GetPatterns(other)
        BY <2>5, <2>6, <3>3 DEF Known
      <4> QED
        BY <1>1, <3>1, <3>3, <4>1, WholeIsFound
    <3>4. \A t \in Text : answers'[o][t] = Get(other, t)
      BY <3>1
    <3>5. AnswersAreKept(o)'
      <4> SUFFICES ASSUME NEW t \in Text, NEW p \in answers'[o][t]
                   PROVE  Findable(p, t) /\ Pending(o, p)'
        BY DEF AnswersAreKept, Findable, Wildcard
      <4> QED
        BY <3>2, <3>4
    <3>6. AnswersAreFrom(o)'
      <4>1. ASSUME NEW t \in Text, NEW p, Known(o, p)', Whole(p), Findable(p, t)
            PROVE  p \in answers'[o][t]
        BY <3>3, <3>4, <4>1
      <4>2. \A p \in GetPatterns(o)' : Whole(p)
        BY <2>6
      <4> QED
        BY <4>1, <4>2 DEF AnswersAreFrom, Whole, Reached, Findable, Wildcard
    <3> QED
      BY <3>5, <3>6
  <2>8. AnswersInv'
    <3> SUFFICES ASSUME NEW x \in Object, answers'[x] # None
                 PROVE  AnswersAreKept(x)' /\ AnswersAreFrom(x)'
      BY DEF AnswersInv
    <3>1. CASE x = o
      BY <2>7, <3>1
    <3>2. CASE x # o
      <4>1. \A p : ~Pending(x, p) /\ ~Pending(x, p)'
        BY <1>2, <2>1, <3>2 DEF Pending
      <4>2. Same(x) /\ answers'[x] = answers[x]
        BY <2>2, <3>2
      <4>3. answers[x] # None
        BY <4>2
      <4> QED
        BY <4>1, <4>2, <4>3, OtherCopy DEF CopyInv
    <3> QED
      BY <3>1, <3>2
  <2>9. \A x \in alive' : answers'[x] # None => trie_open'[x] = FALSE
    BY <1>1, <2>1, <2>2 DEF CopyInv, Same, Shape
  <2>10. CopyCallInv'
    BY <1>1, <2>1 DEF CopyCallInv
  <2> QED
    BY <2>8, <2>9, <2>10 DEF CopyInv
<1> QED
  BY <1>3, <1>4

(* A pattern is added to a paraglob that is there: if that is a copy, it   *)
(* is answered for every text from now on when it has no words.            *)
LEMMA AddCopyStep ==
  ASSUME ParaglobInv, CopyInv, NEW o \in Object, NEW p \in Pattern, Add(o, p)
  PROVE  CopyInv'
<1>1. /\ call = None /\ o \in alive /\ call' = "add" /\ obj' = o
      /\ GetMetaWords(o, p) /\ answers' = ToAnswer(o, p)
      /\ UNCHANGED <<alive, trie_open, meta_to_node_map, accepted>>
  BY DEF Add, Idle
<1>2. /\ Shape
      /\ DOMAIN answers = Object /\ DOMAIN single_wildcards = Object
  BY DEF ParaglobInv, Shape
<1>3. \A x, q : ~Pending(x, q) /\ ~Pending(x, q)'
  BY <1>1, ParaglobAssumption DEF Pending
<1>4. \A x \in Object : answers'[x] # None => answers[x] # None
  <2>1. \A x \in Object \ {o} : answers'[x] = answers[x]
    BY <1>1, <1>2, ToAnswerAdds
  <2>2. answers[o] = None => answers'[o] = None
    BY <1>1, <1>2, ToAnswerAdds
  <2> QED
    BY <2>1, <2>2
<1>5. /\ \A x \in Object \ {o} : single_wildcards'[x] = single_wildcards[x]
      /\ Wildcard(p) => single_wildcards'[o] = single_wildcards[o] \cup {p}
      /\ ~Wildcard(p) => single_wildcards'[o] = single_wildcards[o]
  <2>1. CASE Wildcard(p)
    <3>1. single_wildcards' = [single_wildcards EXCEPT ![o] = @ \cup {p}]
      BY <1>1, <2>1 DEF GetMetaWords
    <3>2. /\ \A x \in Object \ {o} : single_wildcards'[x] = single_wildcards[x]
          /\ single_wildcards'[o] = single_wildcards[o] \cup {p}
      BY <1>2, <3>1
    <3> QED
      BY <2>1, <3>2
  <2>2. CASE ~Wildcard(p)
    BY <1>1, <2>2 DEF GetMetaWords
  <2> QED
    BY <2>1, <2>2
<1>6. ASSUME NEW x \in Object, answers'[x] # None
      PROVE  AnswersAreKept(x)' /\ AnswersAreFrom(x)'
  <2>1. AnswersAreKept(x) /\ AnswersAreFrom(x) /\ answers[x] # None
    BY <1>4, <1>6 DEF CopyInv, AnswersInv
  <2>2. CASE x # o \/ ~Wildcard(p)
    <3>1. answers'[x] = answers[x]
      <4>1. x # o => ToAnswer(o, p)[x] = answers[x]
        BY <1>2, ToAnswerAdds
      <4>2. ~Wildcard(p) => ToAnswer(o, p)[o] = answers[o]
        BY <1>2, ToAnswerAdds
      <4> QED
        BY <1>1, <2>2, <4>1, <4>2
    <3>2. single_wildcards'[x] = single_wildcards[x]
      BY <1>5, <2>2
    <3>3. GetPatterns(x)' = GetPatterns(x)
      BY <1>1, <3>2 DEF GetPatterns
    <3>4. AnswersAreKept(x)'
      <4> SUFFICES ASSUME NEW t \in Text, NEW q \in answers[x][t]
                   PROVE  Findable(q, t) /\ (q \in accepted'[x] \/ q \in single_wildcards'[x])
        BY <3>1 DEF AnswersAreKept, Findable, Wildcard
      <4> QED
        BY <1>1, <1>3, <2>1, <3>2 DEF AnswersAreKept
    <3>5. AnswersAreFrom(x)'
      <4>1. ASSUME NEW t \in Text, NEW q, Known(x, q)', Whole(q), Findable(q, t)
            PROVE  q \in answers'[x][t]
        BY <1>3, <2>1, <3>1, <3>3, <4>1 DEF AnswersAreFrom, Known
      <4>2. \A q \in GetPatterns(x)' : Whole(q)
        BY <1>3, <2>1, <3>3 DEF AnswersAreFrom
      <4> QED
        BY <4>1, <4>2 DEF AnswersAreFrom, Whole, Reached, Findable, Wildcard
    <3> QED
      BY <3>4, <3>5
  <2>3. CASE x = o /\ Wildcard(p)
    <3>1. \A t \in Text : answers'[o][t] = answers[o][t] \cup {p}
      <4>1. \A t \in Text : ToAnswer(o, p)[o][t] = answers[o][t] \cup {p}
        BY <1>2, <2>1, <2>3, ToAnswerAdds
      <4> QED
        BY <1>1, <4>1
    <3>2. single_wildcards'[o] = single_wildcards[o] \cup {p}
      BY <1>5, <2>3
    <3>3. GetPatterns(o)' = GetPatterns(o) \cup {p}
      BY <1>1, <3>2 DEF GetPatterns
    <3>4. Whole(p) /\ \A t \in Text : Findable(p, t)
      BY <2>3 DEF Wildcard, Whole, Reached, Findable
    <3>5. AnswersAreKept(o)'
      <4> SUFFICES ASSUME NEW t \in Text, NEW q \in answers'[o][t]
                   PROVE  Findable(q, t) /\ (q \in accepted'[o] \/ q \in single_wildcards'[o])
        BY DEF AnswersAreKept, Findable, Wildcard
      <4>1. q \in answers[o][t] \/ q = p
        BY <3>1
      <4> QED
        BY <1>1, <1>3, <2>1, <2>3, <3>2, <3>4, <4>1 DEF AnswersAreKept
    <3>6. AnswersAreFrom(o)'
      <4>1. ASSUME NEW t \in Text, NEW q, Known(o, q)', Whole(q), Findable(q, t)
            PROVE  q \in answers'[o][t]
        <5>1. q = p \/ Known(o, q)
          BY <1>3, <3>3, <4>1 DEF Known
        <5> QED
          BY <2>1, <2>3, <3>1, <4>1, <5>1 DEF AnswersAreFrom
      <4>2. \A q \in GetPatterns(o)' : Whole(q)
        BY <1>3, <2>1, <2>3, <3>3, <3>4 DEF AnswersAreFrom
      <4> QED
        BY <4>1, <4>2 DEF AnswersAreFrom, Whole, Reached, Findable, Wildcard
    <3> QED
      BY <2>3, <3>5, <3>6
  <2> QED
    BY <2>2, <2>3
<1>7. AnswersInv'
  BY <1>6 DEF AnswersInv
<1>8. CopyCallInv'
  BY <1>1 DEF CopyCallInv
<1>9. \A x \in alive' : answers'[x] # None => trie_open'[x] = FALSE
  BY <1>1, <1>2, <1>4 DEF CopyInv, Shape
<1> QED
  BY <1>7, <1>8, <1>9 DEF CopyInv

(* A constructor takes its next pattern: it is still pending.              *)
LEMMA AddNextCopyStep ==
  ASSUME ParaglobInv, CopyInv, AddNext
  PROVE  CopyInv'
<1>1. /\ call \in {"construct", "load"} /\ pattern = None /\ queue # << >>
      /\ pattern' = Head(queue) /\ queue' = Tail(queue)
      /\ GetMetaWords(obj, Head(queue))
      /\ UNCHANGED <<alive, trie_open, meta_to_node_map, call, obj, accepted,
                     answers>>
  BY DEF AddNext, GetMetaWords
<1>2. queue \in Seq(Pattern) /\ Head(queue) # None /\ Head(queue) = queue[1]
  BY <1>1, ParaglobAssumption DEF ParaglobInv, CallTypeOK
<1>3. /\ \A i \in 1..Len(queue) :
           queue[i] = Head(queue) \/ \E j \in 1..Len(Tail(queue)) : Tail(queue)[j] = queue[i]
      /\ \A j \in 1..Len(Tail(queue)) : \E i \in 1..Len(queue) : queue[i] = Tail(queue)[j]
      /\ \E i \in 1..Len(queue) : queue[i] = Head(queue)
  <2>1. Len(queue) \in Nat /\ Len(queue) # 0 /\ Len(Tail(queue)) = Len(queue) - 1
    BY <1>1, <1>2
  <2>2. \A j \in 1..Len(Tail(queue)) : Tail(queue)[j] = queue[j + 1]
    BY <1>1, <1>2
  <2>3. ASSUME NEW i \in 1..Len(queue), i # 1
        PROVE  \E j \in 1..Len(Tail(queue)) : Tail(queue)[j] = queue[i]
    <3>1. i - 1 \in 1..Len(Tail(queue)) /\ (i - 1) + 1 = i
      BY <2>1, <2>3
    <3> QED
      BY <2>2, <3>1
  <2>4. ASSUME NEW j \in 1..Len(Tail(queue))
        PROVE  \E i \in 1..Len(queue) : queue[i] = Tail(queue)[j]
    <3>1. j + 1 \in 1..Len(queue)
      BY <2>1
    <3> QED
      BY <2>2, <3>1
  <2>5. 1 \in 1..Len(queue)
    BY <2>1
  <2> QED
    BY <1>2, <2>3, <2>4, <2>5
<1>4. ASSUME NEW o, NEW p
      PROVE  Pending(o, p)' <=> Pending(o, p)
  BY <1>1, <1>2, <1>3 DEF Pending
<1>5. ASSUME NEW o \in Object, answers[o] # None
      PROVE  Kept(o)
  <2>1. AnswersAreFrom(o)
    BY <1>5 DEF CopyInv, AnswersInv
  <2>2. /\ single_wildcards[o] \subseteq single_wildcards'[o]
        /\ single_wildcards'[o] \subseteq
             single_wildcards[o] \cup IF o = obj THEN {Head(queue)} ELSE {}
    BY <1>1, <1>5 DEF GetMetaWords, ParaglobInv, Shape
  <2>3. \A p \in GetPatterns(o)' : p \in GetPatterns(o) \/ (o = obj /\ p = Head(queue))
    BY <1>1, <2>2 DEF GetPatterns
  <2>4. o = obj => Pending(o, Head(queue))
    <3>1. o = obj => call = "load"
      BY <1>1, <1>5 DEF CopyInv, CopyCallInv
    <3> QED
      BY <1>3, <3>1 DEF Pending
  <2> QED
    BY <1>1, <1>4, <2>1, <2>2, <2>3, <2>4 DEF Kept, Known, AnswersAreFrom
<1>6. CopyCallInv'
  BY <1>1 DEF CopyInv, CopyCallInv
<1> QED
  BY <1>1, <1>5, <1>6, CopyStays

(* What indexing a word adds to the patterns is the one being added.       *)
LEMMA WordAdds ==
  ASSUME ParaglobInv, AddNewWord \/ AddKnownWord, NEW o \in Object,
         NEW p \in GetPatterns(o)'
  PROVE  p \in GetPatterns(o) \/ (o = obj /\ p = pattern)
<1>1. /\ single_wildcards' = single_wildcards /\ DOMAIN meta_to_node_map = Object
      /\ obj \in Object
  BY WordFacts DEF AddNewWord, AddKnownWord, ParaglobInv, Shape
<1>2. CASE o # obj
  <2>1. meta_to_node_map'[o] = meta_to_node_map[o]
    BY <1>1, <1>2 DEF AddNewWord, AddKnownWord
  <2> QED
    BY <1>1, <2>1 DEF GetPatterns
<1>3. CASE o = obj
  <2> DEFINE m == meta_to_node_map[obj]
             n == meta_to_node_map'[obj]
  <2>1. ASSUME NEW w \in DOMAIN n
        PROVE  n[w] = {pattern} \/ (w \in DOMAIN m /\ n[w] \subseteq m[w] \cup {pattern})
    <3>1. CASE AddNewWord
      <4>1. n = [w_1 \in DOMAIN m \cup {NextWord} |->
                   IF w_1 = NextWord THEN {pattern} ELSE m[w_1]]
        BY <1>1, <3>1 DEF AddNewWord, InitPatterns
      <4> QED
        BY <2>1, <4>1
    <3>2. CASE AddKnownWord
      <4>1. meta_to_node_map' =
              [meta_to_node_map EXCEPT ![obj] = [m EXCEPT ![NextWord] = m[NextWord] \cup {pattern}]]
        BY <3>2 DEF AddKnownWord, AddPattern
      <4>2. n = [m EXCEPT ![NextWord] = m[NextWord] \cup {pattern}]
        BY <1>1, <4>1
      <4> QED
        BY <2>1, <4>2
    <3> QED
      BY <3>1, <3>2
  <2>2. CASE p \in single_wildcards'[o]
    BY <1>1, <2>2 DEF GetPatterns
  <2>3. ASSUME NEW w, Stored(o, p, w)'
        PROVE  p = pattern \/ Stored(o, p, w)
    BY <1>3, <2>1, <2>3 DEF Stored
  <2> QED
    BY <1>3, <2>2, <2>3, PatternsAfter, PatternsOfObject
<1> QED
  BY <1>2, <1>3

LEMMA WordCopyStep ==
  ASSUME ParaglobInv, CopyInv, AddNewWord \/ AddKnownWord
  PROVE  CopyInv'
<1>1. /\ Adding /\ Accepts(obj, NextWord) /\ rest # << >>
      /\ UNCHANGED <<alive, trie_open, single_wildcards, call, obj, pattern,
                     queue, accepted, answers>>
  BY DEF AddNewWord, AddKnownWord
<1>2. obj \in Object /\ trie_open[obj] /\ call \in {"add", "construct", "load"}
  BY <1>1, WordFacts DEF Accepts, Adding, Idle, ParaglobInv, CallTypeOK
<1>3. \A o, p : Pending(o, p)' <=> Pending(o, p)
  BY <1>1 DEF Pending
<1>4. answers[obj] # None => call = "load"
  BY <1>2 DEF CopyInv, CopyCallInv
<1>5. ASSUME NEW o \in Object, answers[o] # None
      PROVE  Kept(o)
  <2>1. AnswersAreFrom(o)
    BY <1>5 DEF CopyInv, AnswersInv
  <2>2. \A p \in GetPatterns(o)' : p \in GetPatterns(o) \/ Pending(o, p)
    BY <1>1, <1>4, <1>5, WordAdds DEF Pending, Adding
  <2> QED
    BY <1>1, <1>3, <2>1, <2>2 DEF Kept, Known, AnswersAreFrom
<1>6. CopyCallInv'
  BY <1>1 DEF CopyInv, CopyCallInv
<1> QED
  BY <1>1, <1>5, <1>6, CopyStays

LEMMA RefuseCopyStep ==
  ASSUME ParaglobInv, CopyInv, RefuseWord
  PROVE  CopyInv'
<1>1. Adding /\ call' = None /\ alive' = alive /\ Shape
  BY DEF RefuseWord, Return, ParaglobInv
<1>2. obj \in Object /\ call \in {"add", "construct", "load"}
  BY <1>1 DEF ParaglobInv, CallTypeOK, Adding, Idle
<1>3. CopyCallInv'
  BY <1>1, ParaglobAssumption DEF CopyCallInv
<1>4. CASE call = "add"
  <2>1. UNCHANGED <<meta_to_node_map, single_wildcards, trie_open, accepted,
                    answers>>
    BY <1>4 DEF RefuseWord, indexVars
  <2>2. \A o, p : ~Pending(o, p) /\ ~Pending(o, p)'
    BY <1>1, <1>4, ParaglobAssumption DEF Pending
  <2>3. \A o \in Object : answers[o] # None => Kept(o)
    BY <2>1, <2>2, NothingPending DEF GetPatterns
  <2> QED
    BY <1>1, <1>3, <2>1, <2>3, CopyStays
<1>5. CASE call # "add"
  <2>1. PICK o \in Object : o = obj
    BY <1>2
  <2>2. Blank(o) /\ answers' = [answers EXCEPT ![o] = None]
    BY <1>5, <2>1 DEF RefuseWord
  <2>3. o \notin alive
    BY <1>2, <1>5, <2>1 DEF CopyInv, CopyCallInv
  <2>4. call' \notin {"construct", "load"}
    BY <1>1, ParaglobAssumption
  <2> QED
    BY <1>1, <1>3, <2>1, <2>2, <2>3, <2>4, CopyBlank
<1> QED
  BY <1>4, <1>5

(* No word of the pattern was refused: it is whole, and accepted.          *)
LEMMA AddEndCopyStep ==
  ASSUME ParaglobInv, CopyInv, AddEnd
  PROVE  CopyInv'
<1>1. /\ Adding /\ obj \in Object /\ pattern \in Pattern /\ Shape /\ rest = << >>
      /\ accepted' = [accepted EXCEPT ![obj] = @ \cup {pattern}]
      /\ UNCHANGED <<alive, trie_open, meta_to_node_map, single_wildcards, answers>>
  BY DEF AddEnd, indexVars, Adding, Idle, ParaglobInv, CallTypeOK
<1>2. /\ \A o \in Object : accepted[o] \subseteq accepted'[o]
      /\ pattern \in accepted'[obj]
  BY <1>1 DEF Shape
<1>3. \A o : GetPatterns(o)' = GetPatterns(o)
  BY <1>1 DEF GetPatterns
<1>4. CASE call = "add"
  <2>1. call' = None
    BY <1>4 DEF AddEnd, Return
  <2>2. \A o, p : ~Pending(o, p) /\ ~Pending(o, p)'
    BY <1>4, <2>1, ParaglobAssumption DEF Pending
  <2>3. \A o \in Object : answers[o] # None => Kept(o)
    BY <1>1, <1>2, <1>3, <2>2, NothingPending
  <2>4. CopyCallInv'
    BY <2>1, ParaglobAssumption DEF CopyCallInv
  <2> QED
    BY <1>1, <2>3, <2>4, CopyStays
<1>5. CASE call # "add"
  <2>1. UNCHANGED <<call, obj, queue>> /\ pattern' = None
    BY <1>5 DEF AddEnd
  <2>2. Whole(pattern)
    <3>1. Done = Len(MetaWords[pattern])
      BY <1>1, MetaWordsAreWords DEF Done
    <3> QED
      BY <1>1, <3>1 DEF ParaglobInv, AddInv, Adding, Whole
  <2>3. ASSUME NEW o \in Object, NEW p, Pending(o, p)
        PROVE  Pending(o, p)' \/ (o = obj /\ p = pattern)
    BY <2>1, <2>3 DEF Pending
  <2>4. \A o, p : Pending(o, p)' => Pending(o, p)
    BY <2>1 DEF Pending
  <2>5. ASSUME NEW o \in Object, answers[o] # None
        PROVE  Kept(o)
    <3>1. AnswersAreFrom(o)
      BY <2>5 DEF CopyInv, AnswersInv
    <3>2. \A p \in GetPatterns(o)' : Whole(p) \/ Pending(o, p)'
      BY <1>3, <2>2, <2>3, <3>1 DEF AnswersAreFrom
    <3>3. \A p : Pending(o, p) => Pending(o, p)' \/ p \in accepted'[o]
      BY <1>2, <2>3
    <3>4. \A p : Known(o, p)' => Known(o, p)
      BY <1>3, <2>4 DEF Known
    <3> QED
      BY <1>1, <1>2, <3>2, <3>3, <3>4 DEF Kept
  <2>6. CopyCallInv'
    BY <1>1, <2>1 DEF CopyInv, CopyCallInv
  <2> QED
    BY <1>1, <2>5, <2>6, CopyStays
<1> QED
  BY <1>4, <1>5

LEMMA ConstructEndCopyStep ==
  ASSUME ParaglobInv, CopyInv, ConstructEnd
  PROVE  CopyInv'
<1>1. /\ call \in {"construct", "load"} /\ pattern = None /\ queue = << >>
      /\ trie_open' = [trie_open EXCEPT ![obj] = FALSE]
      /\ alive' = alive \cup {obj} /\ call' = None
      /\ UNCHANGED <<meta_to_node_map, single_wildcards, accepted, answers>>
  BY DEF ConstructEnd, Return
<1>2. \A o, p : ~Pending(o, p) /\ ~Pending(o, p)'
  BY <1>1, ParaglobAssumption DEF Pending
<1>3. \A o \in Object : answers[o] # None => Kept(o)
  BY <1>1, <1>2, NothingPending DEF GetPatterns
<1>4. AnswersInv'
  BY <1>1, <1>3, AnswersStay DEF CopyInv
<1>5. obj \in Object /\ DOMAIN trie_open = Object /\ alive \subseteq Object
  BY <1>1, ParaglobAssumption DEF ParaglobInv, CallTypeOK, Shape
<1>6. \A o \in alive' : answers'[o] # None => trie_open'[o] = FALSE
  BY <1>1, <1>5 DEF CopyInv
<1>7. CopyCallInv'
  BY <1>1, ParaglobAssumption DEF CopyCallInv
<1> QED
  BY <1>4, <1>6, <1>7 DEF CopyInv

LEMMA CompileCopyStep ==
  ASSUME ParaglobInv, CopyInv, NEW o \in Object, Compile(o)
  PROVE  CopyInv'
<1>1. /\ call = None /\ trie_open' = [trie_open EXCEPT ![o] = FALSE]
      /\ UNCHANGED <<alive, meta_to_node_map, single_wildcards, call, obj,
                     accepted, answers>>
  BY DEF Compile, Idle, callVars
<1>2. \A x \in alive : trie_open[x] = FALSE => trie_open'[x] = FALSE
  BY <1>1 DEF ParaglobInv, Shape
<1>3. \A x, p : ~Pending(x, p) /\ ~Pending(x, p)'
  BY <1>1, ParaglobAssumption DEF Pending
<1>4. \A x \in Object : answers[x] # None => Kept(x)
  BY <1>1, <1>3, NothingPending DEF GetPatterns
<1>5. CopyCallInv'
  BY <1>1 DEF CopyInv, CopyCallInv
<1> QED
  BY <1>1, <1>2, <1>4, <1>5, CopyStays

LEMMA CopyInvStep ==
  ASSUME ReadsBack, ParaglobInv, CopyInv, [Next]_vars
  PROVE  CopyInv'
<1>1. ASSUME NEW o \in Object, Create(o)
      PROVE  CopyInv'
  <2>1. /\ call = None /\ call' = None /\ o \notin alive /\ Blank(o)
        /\ alive' = alive \cup {o} /\ answers' = [answers EXCEPT ![o] = None]
    BY <1>1 DEF Create, Idle, callVars
  <2>2. CopyCallInv'
    BY <2>1, ParaglobAssumption DEF CopyCallInv
  <2> QED
    BY <2>1, <2>2, ParaglobAssumption, CopyBlank
<1>2. ASSUME NEW o \in Object, Compile(o)
      PROVE  CopyInv'
  BY <1>2, CompileCopyStep
<1>3. ASSUME NEW o \in Object, NEW v \in Vectors, Construct(o, v)
      PROVE  CopyInv'
  <2>1. /\ call = None /\ call' = "construct" /\ obj' = o /\ o \notin alive
        /\ Blank(o) /\ alive' = alive /\ answers' = [answers EXCEPT ![o] = None]
    BY <1>3 DEF Construct, Begin, Idle
  <2>2. CopyCallInv'
    BY <2>1 DEF CopyCallInv, ParaglobInv, Shape
  <2> QED
    BY <2>1, <2>2, ParaglobAssumption, CopyBlank
<1>4. ASSUME NEW o \in Object, NEW other \in Object, Load(o, other)
      PROVE  CopyInv'
  BY <1>4, LoadCopyStep
<1>5. ASSUME NEW o \in Object, NEW p \in Pattern, Add(o, p)
      PROVE  CopyInv'
  BY <1>5, AddCopyStep
<1>6. CASE AddNext
  BY <1>6, AddNextCopyStep
<1>7. CASE AddNewWord \/ AddKnownWord
  BY <1>7, WordCopyStep
<1>8. CASE RefuseWord
  BY <1>8, RefuseCopyStep
<1>9. CASE AddEnd
  BY <1>9, AddEndCopyStep
<1>10. CASE ConstructEnd
  BY <1>10, ConstructEndCopyStep
<1>11. CASE UNCHANGED vars
  <2>1. UNCHANGED <<alive, trie_open, meta_to_node_map, single_wildcards, call,
                    obj, pattern, queue, accepted, answers>>
    BY <1>11 DEF vars, indexVars, callVars
  <2>2. \A o, p : Pending(o, p)' <=> Pending(o, p)
    BY <2>1 DEF Pending
  <2>3. \A o : GetPatterns(o)' = GetPatterns(o)
    BY <2>1 DEF GetPatterns
  <2>4. \A o \in Object : answers[o] # None => Kept(o)
    BY <2>1, <2>2, <2>3 DEF Kept, Known, CopyInv, AnswersInv, AnswersAreFrom
  <2>5. CopyCallInv'
    BY <2>1 DEF CopyInv, CopyCallInv
  <2> QED
    BY <2>1, <2>4, <2>5, CopyStays
<1> QED
  BY <1>1, <1>2, <1>3, <1>4, <1>5, <1>6, <1>7, <1>8, <1>9, <1>10, <1>11 DEF Next

LEMMA InvCopyAnswers == ParaglobInv /\ CopyInv => CopyAnswersTheSame
<1> SUFFICES ASSUME ParaglobInv, CopyInv, NEW o \in alive, answers[o] # None,
                    NEW t \in Text
             PROVE  Get(o, t) = answers[o][t]
  BY DEF CopyAnswersTheSame
<1>1. o \in Object /\ trie_open[o] = FALSE
  BY DEF ParaglobInv, Shape, CopyInv
<1>2. \A p : ~Pending(o, p)
  BY DEF CopyInv, CopyCallInv, Pending
<1>3. AnswersAreKept(o) /\ AnswersAreFrom(o)
  BY <1>1 DEF CopyInv, AnswersInv
<1>4. ASSUME NEW p \in answers[o][t]
      PROVE  p \in Get(o, t)
  <2>1. Findable(p, t) /\ (p \in accepted[o] \/ p \in single_wildcards[o])
    BY <1>2, <1>3, <1>4 DEF AnswersAreKept
  <2>2. CASE p \in single_wildcards[o]
    BY <2>2 DEF Get
  <2>3. CASE p \in accepted[o]
    BY <1>1, <2>1, <2>3, AcceptedIsFound
  <2> QED
    BY <2>1, <2>2, <2>3
<1>5. ASSUME NEW p \in Get(o, t)
      PROVE  p \in answers[o][t]
  <2>1. Findable(p, t) /\ p \in GetPatterns(o)
    BY <1>1, <1>5, FoundIsFindable
  <2>2. Whole(p)
    BY <1>2, <1>3, <2>1 DEF AnswersAreFrom
  <2> QED
    BY <1>3, <2>1, <2>2 DEF AnswersAreFrom, Known
<1> QED
  BY <1>4, <1>5

(* Where unserialize reads back what was serialized or throws, a copy      *)
(* answers exactly as the paraglob did whose serialized form it was made   *)
(* from.                                                                   *)
THEOREM CopiesAnswer ==
  ASSUME ReadsBack
  PROVE  Spec => []CopyAnswersTheSame
<1>1. Init => ParaglobInv /\ CopyInv
  BY ParaglobInvInit, CopyInvInit
<1>2. ParaglobInv /\ CopyInv /\ [Next]_vars => (ParaglobInv /\ CopyInv)'
  BY ParaglobInvStep, CopyInvStep
<1> QED
  BY <1>1, <1>2, InvCopyAnswers, PTL DEF Spec
==============================================================================
