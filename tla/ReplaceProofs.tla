---------------------------- MODULE ReplaceProofs ----------------------------
(***************************************************************************)
(* What TLAPS proves of module Replace, for all patterns, replacements,    *)
(* chunks and buffer sizes: types, the order of the nominees, that no text *)
(* is lost between chunks, and that what is put out is the stream with its *)
(* patterns replaced.                                                      *)
(*                                                                         *)
(* The inductive invariant has two layers.  ReplaceInv relates the buffers *)
(* and the nominees to positions; StreamInv, which needs it, relates them  *)
(* and the place in the trie to what should be replaced in the stream.     *)
(***************************************************************************)
EXTENDS Replace, WordsProofs

(***************************************************************************)
(* The words the closed trie is made of                                    *)
(***************************************************************************)

LEMMA LongestIsLongest ==
  ASSUME NEW A, NEW W \in SUBSET Seq(A), W # {},
         NEW n \in Nat, \A w \in W : Len(w) <= n
  PROVE  /\ Longest(W) \in W
         /\ \A v \in W : Len(v) <= Len(Longest(W))
<1> DEFINE S == {n - Len(w) : w \in W}
<1>1. S \in SUBSET Nat /\ S # {}
  OBVIOUS
<1>2. PICK w \in W : \A v \in W : n - Len(w) <= n - Len(v)
  <2>1. Min(S) \in S /\ \A y \in S : Min(S) <= y
    BY <1>1, MinOfNaturals
  <2>2. PICK w \in W : Min(S) = n - Len(w)
    BY <2>1
  <2> QED
    BY <2>1, <2>2
<1>3. \A v \in W : Len(v) <= Len(w)
  BY <1>2
<1> QED
  BY <1>3 DEF Longest

LEMMA PatternsAreWords ==
  /\ Pattern \in SUBSET Seq(Alphabet)
  /\ \A w \in Pattern : Len(w) > 0
  /\ DOMAIN Rtext \subseteq Pattern
BY ReplaceAssumption

LEMMA NodesAreWords == Nodes \in SUBSET Seq(Alphabet) /\ Root \in Nodes
<1>1. ASSUME NEW w \in Pattern, NEW p \in Prefixes(w)
      PROVE  p \in Seq(Alphabet)
  <2>1. w \in Seq(Alphabet)
    BY PatternsAreWords
  <2>2. PICK l \in 0..Len(w) : p = SubSeq(w, 1, l)
    BY DEF Prefixes
  <2> QED
    BY <2>1, <2>2, StartOfWord
<1>2. ASSUME NEW n \in Nodes
      PROVE  n \in Seq(Alphabet)
  <2>1. n = << >> \/ n \in UNION {Prefixes(w) : w \in Pattern}
    BY DEF Nodes, Root
  <2>2. CASE n \in UNION {Prefixes(w) : w \in Pattern}
    <3>1. PICK w \in Pattern : n \in Prefixes(w)
      BY <2>2
    <3> QED
      BY <1>1, <3>1
  <2>3. << >> \in Seq(Alphabet)
    OBVIOUS
  <2> QED
    BY <2>1, <2>2, <2>3
<1> QED
  BY <1>2 DEF Nodes

LEMMA FailureIsNode ==
  ASSUME NEW n \in Nodes, HasFailure(n)
  PROVE  Failure(n) \in Nodes
<1> DEFINE W == {m \in Nodes : IsProperTail(m, n)}
<1>1. n \in Seq(Alphabet) /\ W \in SUBSET Seq(Alphabet)
  BY NodesAreWords
<1>2. Root \in W
  <2>1. Len(n) > 0
    BY <1>1 DEF HasFailure, Root
  <2> QED
    BY <1>1, <2>1, NodesAreWords, TailReflexive DEF IsProperTail, Root
<1>3. ASSUME NEW m \in W
      PROVE  Len(m) <= Len(n)
  <2>1. m \in Seq(Alphabet) /\ Len(m) < Len(n)
    BY <1>1 DEF IsProperTail
  <2> QED
    BY <1>1, <2>1
<1>4. Longest(W) \in W
  <2>1. Len(n) \in Nat
    BY <1>1
  <2> HIDE DEF W
  <2> QED
    BY <1>1, <1>2, <1>3, <2>1, LongestIsLongest
<1> QED
  BY <1>4 DEF Failure

LEMMA ReplacedIsPattern ==
  ASSUME NEW n \in Nodes, Replaceable(n) # {}
  PROVE  ToBeReplaced(n) \in DOMAIN Rtext /\ ToBeReplaced(n) \in Pattern
<1>1. n \in Seq(Alphabet) /\ Replaceable(n) \in SUBSET Seq(Alphabet)
  BY NodesAreWords, PatternsAreWords DEF Replaceable
<1>2. \A w \in Replaceable(n) : Len(w) <= Len(n)
  BY <1>1 DEF Replaceable, IsTail, EndsAt
<1>3. ToBeReplaced(n) \in Replaceable(n)
  BY <1>1, <1>2, LongestIsLongest DEF ToBeReplaced
<1> QED
  BY <1>3, PatternsAreWords DEF Replaceable

(***************************************************************************)
(* Sequences put together                                                  *)
(***************************************************************************)

LEMMA TailConcat ==
  ASSUME NEW A, NEW r \in Seq(A), NEW s \in Seq(A), NEW t \in Seq(A),
         IsTail(r, s)
  PROVE  IsTail(r \o t, s \o t)
<1>1. /\ r \o t \in Seq(A) /\ Len(r \o t) = Len(r) + Len(t)
      /\ s \o t \in Seq(A) /\ Len(s \o t) = Len(s) + Len(t)
      /\ Len(r) \in Nat /\ Len(s) \in Nat /\ Len(t) \in Nat
  OBVIOUS
<1>2. Len(r) <= Len(s) /\ \A i \in 1..Len(r) : r[i] = s[Len(s) - Len(r) + i]
  BY DEF IsTail, EndsAt
<1>3. ASSUME NEW i \in 1..Len(r \o t)
      PROVE  (r \o t)[i] = (s \o t)[Len(s \o t) - Len(r \o t) + i]
  <2>1. Len(s \o t) - Len(r \o t) + i = Len(s) - Len(r) + i
    BY <1>1
  <2>2. CASE i <= Len(r)
    <3>1. i \in 1..Len(r) /\ Len(s) - Len(r) + i \in 1..Len(s)
      BY <1>1, <1>2, <2>2
    <3>2. (r \o t)[i] = r[i] /\ (s \o t)[Len(s) - Len(r) + i] = s[Len(s) - Len(r) + i]
      BY <3>1
    <3> QED
      BY <1>2, <2>1, <3>1, <3>2
  <2>3. CASE ~(i <= Len(r))
    <3>1. /\ i \in Len(r) + 1..Len(r) + Len(t)
          /\ Len(s) - Len(r) + i \in Len(s) + 1..Len(s) + Len(t)
      BY <1>1, <1>2, <2>3
    <3>2. (r \o t)[i] = t[i - Len(r)]
      BY <1>1, <3>1
    <3>3. (s \o t)[Len(s) - Len(r) + i] = t[(Len(s) - Len(r) + i) - Len(s)]
      BY <1>1, <3>1
    <3>4. (Len(s) - Len(r) + i) - Len(s) = i - Len(r)
      BY <1>1
    <3> QED
      BY <2>1, <3>2, <3>3, <3>4
  <2> QED
    BY <2>2, <2>3
<1>4. Len(r \o t) <= Len(s \o t) /\ Len(s \o t) <= Len(s \o t)
  BY <1>1, <1>2
<1> QED
  BY <1>3, <1>4 DEF IsTail, EndsAt

LEMMA ConcatTail ==
  ASSUME NEW A, NEW r \in Seq(A), NEW s \in Seq(A)
  PROVE  IsTail(s, r \o s)
<1>1. IsTail(<< >>, r) /\ << >> \in Seq(A)
  BY TailReflexive
<1>2. << >> \o s = s
  OBVIOUS
<1> QED
  BY <1>1, <1>2, TailConcat

(* A full buffer is passed on: what remains fits.                          *)
LEMMA FlushedFits ==
  ASSUME NEW n \in Nat
  PROVE  /\ Flushed(n) \in 0..n
         /\ n - Flushed(n) < BufferSize
<1>1. BufferSize \in Nat /\ BufferSize > 0
  BY ReplaceAssumption
<1>2. n \div BufferSize \in Int /\ n % BufferSize \in 0..BufferSize - 1
  BY <1>1
<1>3. n = BufferSize * (n \div BufferSize) + (n % BufferSize)
  BY <1>1
<1>4. 0 <= n \div BufferSize
  BY <1>1
<1> QED
  BY <1>1, <1>2, <1>3, <1>4 DEF Flushed

(***************************************************************************)
(* The inductive invariant.  While no call runs there is no chunk; at a    *)
(* chunk's end all of it was read; between two streams nothing is kept.    *)
(***************************************************************************)
CallInv ==
  /\ pc \in {"ready", "flush"} => text = << >> /\ position_r = 0
  /\ pc = "replace" => position_r = Len(text)
  /\ pc # "ready" => ~ended
  /\ ended => base_position = 0 /\ backlog = << >> /\ noms = << >>

(***************************************************************************)
(* Nominees have replacements and end behind the cursor and not beyond     *)
(* what was read; the one that is being booked ends last.                  *)
(***************************************************************************)
NomineeInv ==
  /\ curser <= base_position + position_r
  /\ \A i \in 1..Len(noms) :
       /\ noms[i][1] \in DOMAIN Rtext
       /\ curser < noms[i][2]
       /\ noms[i][2] <= base_position + position_r
  /\ pc = "book" =>
       /\ nom[1] \in DOMAIN Rtext
       /\ nom[1] \in Pattern
       /\ nom[2] = base_position + position_r
       /\ curser < nom[2]
       /\ \A i \in 1..Len(noms) : noms[i][2] < nom[2]

ReplaceInv ==
  /\ ReplaceTypeOK /\ CallInv /\ NomineeInv /\ NomineesAscend /\ BacklogIsKept

LEMMA NoNomineeType == NoPattern \in (Pattern \cup {Root}) \X Nat
BY DEF NoPattern

LEMMA ReplaceInvInit == Init => ReplaceInv
<1> SUFFICES ASSUME Init
             PROVE  ReplaceInv
  OBVIOUS
<1>1. << >> \in Seq(Alphabet) /\ Len(<< >>) = 0 /\ 0 \in 0..Len(<< >>)
  OBVIOUS
<1>2. BufferSize \in Nat /\ 0 < BufferSize
  BY ReplaceAssumption
<1>3. << >> \in Seq(Pattern \X Nat)
  OBVIOUS
<1>4. ReplaceTypeOK
  BY <1>1, <1>2, <1>3, NodesAreWords, NoNomineeType DEF Init, ReplaceTypeOK, Mode
<1>5. CallInv /\ NomineeInv /\ NomineesAscend
  BY DEF Init, CallInv, NomineeInv, NomineesAscend
<1>6. BacklogIsKept
  BY DEF Init, BacklogIsKept, BacklogBase
<1> QED
  BY <1>4, <1>5, <1>6 DEF ReplaceInv

(* What a nominee is *)
LEMMA NomineeFacts ==
  ASSUME ReplaceInv, NEW i \in 1..Len(noms)
  PROVE  /\ noms[i] \in Pattern \X Nat
         /\ noms[i][2] \in Nat
         /\ noms[i][1] \in Seq(Alphabet)
         /\ Len(noms[i][1]) \in Nat /\ Len(noms[i][1]) > 0
         /\ Start(noms[i]) \in Int
         /\ Start(noms[i]) < noms[i][2]
<1>1. noms[i] \in Pattern \X Nat
  BY DEF ReplaceInv, ReplaceTypeOK
<1>2. noms[i][1] \in Pattern /\ noms[i][2] \in Nat
  BY <1>1
<1>3. noms[i][1] \in Seq(Alphabet) /\ Len(noms[i][1]) > 0 /\ Len(noms[i][1]) \in Nat
  BY <1>2, PatternsAreWords
<1> QED
  BY <1>1, <1>2, <1>3 DEF Start

(* A new chunk, of a new stream or the next one of the current one         *)
LEMMA ReplaceStep ==
  ASSUME ReplaceInv, NEW t \in Chunk, NEW mode \in Mode, Replace(t, mode)
  PROVE  ReplaceInv'
<1>1. /\ pc = "ready" /\ pc' = "scan" /\ text' = t /\ current' = last_node
      /\ position_r' = 0 /\ ended' = FALSE /\ replace_mode' = mode
      /\ ended \/ mode = replace_mode
      /\ input' = (IF ended THEN t ELSE input \o t)
      /\ output' = (IF ended THEN << >> ELSE output)
      /\ UNCHANGED <<base_position, last_node, buffer, backlog, noms, curser, nom>>
  BY DEF Replace
<1>2. t \in Seq(Alphabet) /\ Len(t) \in Nat
  BY ReplaceAssumption
<1>3. text = << >> /\ position_r = 0 /\ Len(text) = 0
  BY <1>1 DEF ReplaceInv, CallInv
<1>4. input' \in Seq(Alphabet) /\ output' \in Seq(Alphabet)
  BY <1>1, <1>2 DEF ReplaceInv, ReplaceTypeOK
<1>5. ReplaceTypeOK'
  <2>1. 0 \in 0..Len(t) /\ pc' \in {"ready", "scan", "book", "replace", "flush"}
    BY <1>1, <1>2
  <2>2. ended' \in BOOLEAN
    BY <1>1, Zenon
  <2>3. ReplaceTypeOK
    BY DEF ReplaceInv
  <2> QED
    BY <1>1, <1>2, <1>4, <2>1, <2>2, <2>3 DEF ReplaceTypeOK
<1>6. CallInv'
  BY <1>1 DEF CallInv
<1>7. NomineeInv'
  <2>1. pc' # "book" /\ base_position' + position_r' = base_position + position_r
    BY <1>1, <1>3
  <2> QED
    BY <1>1, <2>1 DEF ReplaceInv, NomineeInv
<1>8. NomineesAscend'
  <2>1. CASE ended
    BY <1>1, <2>1 DEF ReplaceInv, CallInv, NomineesAscend
  <2>2. CASE mode = replace_mode
    BY <1>1, <2>2 DEF ReplaceInv, NomineesAscend, Start
  <2> QED
    BY <1>1, <2>1, <2>2
<1>9. BacklogIsKept'
  <2>1. backlog \in Seq(Alphabet) /\ backlog \o << >> = backlog /\ input \in Seq(Alphabet)
    BY DEF ReplaceInv, ReplaceTypeOK
  <2>2. IsTail((backlog \o text)', input')
    <3>1. CASE ended
      <4>1. backlog \o t = t
        BY <1>2, <3>1 DEF ReplaceInv, CallInv
      <4> QED
        BY <1>1, <1>2, <3>1, <4>1, TailReflexive
    <3>2. CASE ~ended
      <4>1. IsTail(backlog, input)
        BY <1>3, <2>1, <3>2 DEF ReplaceInv, BacklogIsKept
      <4>2. IsTail(backlog \o t, input \o t)
        BY <1>2, <2>1, <4>1, TailConcat
      <4> QED
        BY <1>1, <3>2, <4>2
    <3> QED
      BY <3>1, <3>2
  <2>3. (base_position + Len(text) = Len(input))'
    <3>1. CASE ended
      BY <1>1, <1>2, <3>1 DEF ReplaceInv, CallInv
    <3>2. CASE ~ended
      <4>1. base_position = Len(input) /\ base_position \in Nat
        BY <1>3, <3>2 DEF ReplaceInv, BacklogIsKept, ReplaceTypeOK
      <4>2. Len(input \o t) = Len(input) + Len(t)
        BY <1>2, <2>1
      <4> QED
        BY <1>1, <3>2, <4>1, <4>2
    <3> QED
      BY <3>1, <3>2
  <2> QED
    BY <1>1, <2>2, <2>3 DEF ReplaceInv, BacklogIsKept, BacklogBase
<1> QED
  BY <1>5, <1>6, <1>7, <1>8, <1>9 DEF ReplaceInv

(* The backlog, the chunk and the stream stay as they are.                 *)
LEMMA BacklogStays ==
  ASSUME BacklogIsKept,
         UNCHANGED <<text, base_position, backlog, curser, ended, input>>
  PROVE  BacklogIsKept'
BY DEF BacklogIsKept, BacklogBase

LEMMA NomineesStay ==
  ASSUME NomineesAscend, UNCHANGED <<noms, curser, replace_mode>>
  PROVE  NomineesAscend'
BY DEF NomineesAscend, Start

LEMMA FollowStep ==
  ASSUME ReplaceInv, Follow
  PROVE  ReplaceInv'
<1>1. /\ pc = "scan" /\ position_r < Len(text) /\ Goto \in Nodes
      /\ current' = Goto /\ position_r' = position_r + 1 /\ noms' = noms
      /\ UNCHANGED <<text, base_position, last_node, buffer, backlog, curser,
                     replace_mode, ended, input, output>>
  BY DEF Follow, Scanning, repUnchanged
<1>2. /\ position_r \in Nat /\ base_position \in Nat /\ curser \in Nat
      /\ Len(text) \in Nat
  BY DEF ReplaceInv, ReplaceTypeOK
<1>3. \/ UNCHANGED <<pc, nom>>
      \/ /\ pc' = "book" /\ Replaceable(Goto) # {}
         /\ nom' = <<ToBeReplaced(Goto), base_position + position_r + 1>>
  BY DEF Follow
<1> HIDE DEF Goto
<1>4. CASE UNCHANGED <<pc, nom>>
  <2>1. ReplaceTypeOK'
    BY <1>1, <1>2, <1>4 DEF ReplaceInv, ReplaceTypeOK
  <2>2. CallInv'
    BY <1>1, <1>4 DEF ReplaceInv, CallInv
  <2>3. NomineeInv'
    <3>1. ASSUME NEW i \in 1..Len(noms)
          PROVE  /\ noms[i][1] \in DOMAIN Rtext
                 /\ curser < noms[i][2]
                 /\ noms[i][2] <= base_position + (position_r + 1)
      BY <1>2, NomineeFacts DEF ReplaceInv, NomineeInv
    <3>2. curser <= base_position + (position_r + 1)
      BY <1>2 DEF ReplaceInv, NomineeInv
    <3> QED
      BY <1>1, <1>4, <3>1, <3>2 DEF NomineeInv
  <2> QED
    BY <1>1, <2>1, <2>2, <2>3, BacklogStays, NomineesStay DEF ReplaceInv
<1>5. CASE /\ pc' = "book" /\ Replaceable(Goto) # {}
           /\ nom' = <<ToBeReplaced(Goto), base_position + position_r + 1>>
  <2>1. /\ ToBeReplaced(Goto) \in DOMAIN Rtext /\ ToBeReplaced(Goto) \in Pattern
    BY <1>1, <1>5, ReplacedIsPattern
  <2>2. nom' \in (Pattern \cup {Root}) \X Nat
    BY <1>2, <1>5, <2>1
  <2>3. ReplaceTypeOK'
    BY <1>1, <1>2, <1>5, <2>2 DEF ReplaceInv, ReplaceTypeOK
  <2>4. CallInv'
    BY <1>1, <1>5 DEF ReplaceInv, CallInv
  <2>5. NomineeInv'
    <3>1. ASSUME NEW i \in 1..Len(noms)
          PROVE  /\ noms[i][1] \in DOMAIN Rtext
                 /\ curser < noms[i][2]
                 /\ noms[i][2] <= base_position + (position_r + 1)
                 /\ noms[i][2] < base_position + position_r + 1
      BY <1>2, NomineeFacts DEF ReplaceInv, NomineeInv
    <3>2. curser <= base_position + (position_r + 1) /\ curser < base_position + position_r + 1
      BY <1>2 DEF ReplaceInv, NomineeInv
    <3>3. base_position + position_r + 1 = base_position + (position_r + 1)
      BY <1>2
    <3>4. nom'[1] = ToBeReplaced(Goto) /\ nom'[2] = base_position + position_r + 1
      BY <1>5
    <3> QED
      BY <1>1, <2>1, <3>1, <3>2, <3>3, <3>4 DEF NomineeInv
  <2> QED
    BY <1>1, <2>3, <2>4, <2>5, BacklogStays, NomineesStay DEF ReplaceInv
<1> QED
  BY <1>3, <1>4, <1>5

(* Only the place in the trie and in the chunk changes.                    *)
LEMMA FailSkipStep ==
  ASSUME ReplaceInv, Fail \/ Skip
  PROVE  ReplaceInv'
<1>1. /\ pc = "scan" /\ position_r < Len(text)
      /\ UNCHANGED <<pc, nom, noms, text, base_position, last_node, buffer,
                     backlog, curser, replace_mode, ended, input, output>>
      /\ \/ /\ HasFailure(current) /\ current' = Failure(current)
            /\ position_r' = position_r
         \/ current' = current /\ position_r' = position_r + 1
  BY DEF Fail, Skip, Scanning, repUnchanged
<1>2. /\ position_r \in Nat /\ base_position \in Nat /\ curser \in Nat
      /\ Len(text) \in Nat
  BY DEF ReplaceInv, ReplaceTypeOK
<1>3. current' \in Nodes
  <2>1. current \in Nodes
    BY DEF ReplaceInv, ReplaceTypeOK
  <2> QED
    BY <1>1, <2>1, FailureIsNode
<1>4. position_r' \in 0..Len(text) /\ position_r <= position_r'
  BY <1>1, <1>2
<1>5. ReplaceTypeOK'
  BY <1>1, <1>3, <1>4 DEF ReplaceInv, ReplaceTypeOK
<1>6. CallInv'
  BY <1>1 DEF ReplaceInv, CallInv
<1>7. NomineeInv'
  <2>1. position_r' \in Nat
    BY <1>2, <1>4
  <2>2. ASSUME NEW n \in Nat, n <= base_position + position_r
        PROVE  n <= base_position + position_r'
    <3>1. \A b, p, q \in Nat : p <= q /\ n <= b + p => n <= b + q
      OBVIOUS
    <3> QED
      BY <1>2, <1>4, <2>1, <2>2, <3>1
  <2>3. ASSUME NEW i \in 1..Len(noms)
        PROVE  /\ noms[i][1] \in DOMAIN Rtext
               /\ curser < noms[i][2]
               /\ noms[i][2] <= base_position + position_r'
    <3>1. /\ noms[i][1] \in DOMAIN Rtext
          /\ curser < noms[i][2]
          /\ noms[i][2] <= base_position + position_r
      BY DEF ReplaceInv, NomineeInv
    <3>2. noms[i][2] \in Nat
      BY NomineeFacts
    <3> QED
      BY <2>2, <3>1, <3>2
  <2>4. curser <= base_position + position_r'
    <3>1. curser <= base_position + position_r
      BY DEF ReplaceInv, NomineeInv
    <3> QED
      BY <1>2, <2>2, <3>1
  <2> QED
    BY <1>1, <2>3, <2>4 DEF NomineeInv
<1> QED
  BY <1>1, <1>5, <1>6, <1>7, BacklogStays, NomineesStay DEF ReplaceInv

LEMMA TakeBackStep ==
  ASSUME ReplaceInv, TakeBack
  PROVE  ReplaceInv'
<1>1. /\ pc = "book" /\ noms # << >> /\ noms' = Front(noms)
      /\ UNCHANGED <<pc, current, position_r, nom, text, base_position,
                     last_node, buffer, backlog, curser, replace_mode, ended,
                     input, output>>
  BY DEF TakeBack, Swollen, repUnchanged
<1>2. noms \in Seq(Pattern \X Nat)
  BY DEF ReplaceInv, ReplaceTypeOK
<1>3. /\ noms' \in Seq(Pattern \X Nat) /\ Len(noms') = Len(noms) - 1
      /\ 1..Len(noms') \subseteq 1..Len(noms)
      /\ \A i \in 1..Len(noms') : noms'[i] = noms[i]
      /\ noms' # << >> => 1 \in 1..Len(noms')
  <2>1. Len(noms) \in Nat /\ Len(noms) > 0 /\ Len(noms) - 1 \in 0..Len(noms)
    BY <1>1, <1>2
  <2>2. noms' = SubSeq(noms, 1, Len(noms) - 1)
    BY <1>1 DEF Front
  <2>3. /\ noms' \in Seq(Pattern \X Nat) /\ Len(noms') = Len(noms) - 1
        /\ \A i \in 1..(Len(noms) - 1) : noms'[i] = noms[i]
    BY <1>2, <2>1, <2>2, StartOfWord
  <2>4. noms' # << >> => Len(noms') > 0
    BY <2>3
  <2> QED
    BY <2>1, <2>3, <2>4
<1>4. ReplaceTypeOK'
  BY <1>1, <1>3 DEF ReplaceInv, ReplaceTypeOK
<1>5. CallInv'
  BY <1>1 DEF ReplaceInv, CallInv
<1>6. NomineeInv'
  BY <1>1, <1>3 DEF ReplaceInv, NomineeInv
<1>7. NomineesAscend'
  BY <1>1, <1>3 DEF ReplaceInv, NomineesAscend, Start
<1> QED
  BY <1>1, <1>4, <1>5, <1>6, <1>7, BacklogStays DEF ReplaceInv

(* The nominee being booked goes behind the others.                        *)
LEMMA PushStep ==
  ASSUME ReplaceInv, Push
  PROVE  ReplaceInv'
<1>1. /\ pc = "book" /\ pc' = "scan" /\ noms' = Append(noms, nom)
      /\ nom' = NoPattern
      /\ UNCHANGED <<current, position_r, text, base_position,
                     last_node, buffer, backlog, curser, replace_mode, ended,
                     input, output>>
  BY DEF Push, repUnchanged
<1>2. /\ noms \in Seq(Pattern \X Nat) /\ Len(noms) \in Nat
      /\ base_position \in Nat /\ position_r \in Nat /\ curser \in Nat
  BY DEF ReplaceInv, ReplaceTypeOK
<1>3. /\ nom[1] \in Pattern /\ nom[1] \in DOMAIN Rtext
      /\ nom[2] = base_position + position_r /\ curser < nom[2]
      /\ \A i \in 1..Len(noms) : noms[i][2] < nom[2]
  BY <1>1 DEF ReplaceInv, NomineeInv
<1>4. nom \in Pattern \X Nat
  <2>1. nom \in (Pattern \cup {Root}) \X Nat
    BY DEF ReplaceInv, ReplaceTypeOK
  <2> QED
    BY <1>3, <2>1
<1>5. Start(nom) \in Int /\ Start(nom) < nom[2] /\ nom[2] \in Nat
  <2>1. Len(nom[1]) \in Nat /\ Len(nom[1]) > 0
    BY <1>3, PatternsAreWords
  <2>2. nom[2] \in Nat
    BY <1>4
  <2> QED
    BY <2>1, <2>2 DEF Start
<1>6. /\ noms' \in Seq(Pattern \X Nat) /\ Len(noms') = Len(noms) + 1
      /\ \A i \in 1..Len(noms) : noms'[i] = noms[i]
      /\ noms'[Len(noms) + 1] = nom
      /\ \A i \in 1..Len(noms') : i \in 1..Len(noms) \/ i = Len(noms) + 1
  BY <1>1, <1>2, <1>4
<1>7. ReplaceTypeOK'
  BY <1>1, <1>6, NoNomineeType DEF ReplaceInv, ReplaceTypeOK
<1>8. CallInv'
  BY <1>1 DEF ReplaceInv, CallInv
<1>9. NomineeInv'
  <2>1. ASSUME NEW i \in 1..Len(noms')
        PROVE  /\ noms'[i][1] \in DOMAIN Rtext
               /\ curser < noms'[i][2]
               /\ noms'[i][2] <= base_position + position_r
    <3>1. CASE i \in 1..Len(noms)
      BY <1>6, <3>1 DEF ReplaceInv, NomineeInv
    <3>2. CASE i = Len(noms) + 1
      BY <1>2, <1>3, <1>5, <1>6, <3>2
    <3> QED
      BY <1>6, <3>1, <3>2
  <2> QED
    BY <1>1, <2>1 DEF ReplaceInv, NomineeInv
<1>10. replace_mode \in Mode /\ ~(IF replace_mode = "NORMAL" THEN Swollen ELSE Overlaps)
  BY DEF Push, ReplaceInv, ReplaceTypeOK
<1>11. noms # << >> => Last(noms) = noms[Len(noms)] /\ Len(noms) \in 1..Len(noms)
  BY <1>2 DEF Last
<1>12. noms # << >> => Start(noms[Len(noms)]) < Start(nom)
  <2> SUFFICES ASSUME noms # << >>
               PROVE  Start(noms[Len(noms)]) < Start(nom)
    OBVIOUS
  <2>1. /\ Start(noms[Len(noms)]) \in Int
        /\ Start(noms[Len(noms)]) < noms[Len(noms)][2]
        /\ noms[Len(noms)][2] \in Nat
    BY <1>11, NomineeFacts
  <2>2. CASE replace_mode = "NORMAL"
    BY <1>5, <1>10, <1>11, <2>1, <2>2 DEF Swollen
  <2>3. CASE replace_mode # "NORMAL"
    BY <1>5, <1>10, <1>11, <2>1, <2>3 DEF Overlaps
  <2> QED
    BY <2>2, <2>3
<1>13. ASSUME NEW i \in 1..Len(noms)
       PROVE  Start(noms[i]) < Start(nom)
  <2>1. noms # << >>
    BY <1>2
  <2>2. CASE i = Len(noms)
    BY <1>12, <2>1, <2>2
  <2>3. CASE i < Len(noms)
    <3>1. Start(noms[i]) < Start(noms[Len(noms)])
      BY <1>11, <2>1, <2>3 DEF ReplaceInv, NomineesAscend
    <3> QED
      BY <1>5, <1>11, <1>12, <2>1, <3>1, NomineeFacts
  <2> QED
    BY <1>2, <2>2, <2>3
<1>14. ASSUME NEW i \in 1..Len(noms'), NEW j \in 1..Len(noms'), i < j
       PROVE  i \in 1..Len(noms) /\ (j \in 1..Len(noms) \/ j = Len(noms) + 1)
  BY <1>2, <1>6, <1>14
<1>15. ASSUME NEW i \in 1..Len(noms'), NEW j \in 1..Len(noms'), i < j
       PROVE  Start(noms'[i]) < Start(noms'[j]) /\ noms'[i][2] < noms'[j][2]
  <2>1. i \in 1..Len(noms) /\ noms'[i] = noms[i]
    BY <1>6, <1>14, <1>15
  <2>2. CASE j \in 1..Len(noms)
    <3>1. noms'[j] = noms[j]
      BY <1>6, <2>2
    <3> QED
      BY <1>15, <2>1, <2>2, <3>1 DEF ReplaceInv, NomineesAscend
  <2>3. CASE j = Len(noms) + 1
    BY <1>3, <1>6, <1>13, <2>1, <2>3
  <2> QED
    BY <1>14, <1>15, <2>2, <2>3
<1>16. ASSUME replace_mode = "LAZY"
       PROVE  /\ \A i, j \in 1..Len(noms') : i < j => noms'[i][2] <= Start(noms'[j])
              /\ noms' # << >> => curser <= Start(noms'[1])
  <2>1. /\ curser <= Start(nom)
        /\ noms # << >> => noms[Len(noms)][2] <= Start(nom)
    <3>1. ~Overlaps
      BY <1>10, <1>16
    <3>2. noms # << >> => noms[Len(noms)][2] \in Nat
      BY <1>11, NomineeFacts
    <3> QED
      BY <1>2, <1>5, <1>11, <3>1, <3>2 DEF Overlaps
  <2>2. ASSUME NEW i \in 1..Len(noms)
        PROVE  noms[i][2] <= Start(nom)
    <3>1. noms # << >>
      BY <1>2
    <3>2. noms[i][2] <= noms[Len(noms)][2]
      <4>1. CASE i = Len(noms)
        BY <1>11, <3>1, <4>1, NomineeFacts
      <4>2. CASE i < Len(noms)
        <5>1. noms[i][2] < noms[Len(noms)][2]
          BY <1>11, <3>1, <4>2 DEF ReplaceInv, NomineesAscend
        <5> QED
          BY <1>11, <3>1, <5>1, NomineeFacts
      <4> QED
        BY <1>2, <4>1, <4>2
    <3> QED
      BY <1>5, <1>11, <2>1, <3>1, <3>2, NomineeFacts
  <2>3. ASSUME NEW i \in 1..Len(noms'), NEW j \in 1..Len(noms'), i < j
        PROVE  noms'[i][2] <= Start(noms'[j])
    <3>1. i \in 1..Len(noms) /\ noms'[i] = noms[i]
      BY <1>6, <1>14, <2>3
    <3>2. CASE j \in 1..Len(noms)
      <4>1. noms'[j] = noms[j]
        BY <1>6, <3>2
      <4> QED
        BY <1>16, <2>3, <3>1, <3>2, <4>1 DEF ReplaceInv, NomineesAscend
    <3>3. CASE j = Len(noms) + 1
      BY <1>6, <2>2, <3>1, <3>3
    <3> QED
      BY <1>14, <2>3, <3>2, <3>3
  <2>4. curser <= Start(noms'[1])
    <3>1. CASE noms = << >>
      BY <1>6, <2>1, <3>1
    <3>2. CASE noms # << >>
      <4>1. 1 \in 1..Len(noms)
        BY <1>2, <3>2
      <4> QED
        BY <1>6, <1>16, <3>2, <4>1 DEF ReplaceInv, NomineesAscend
    <3> QED
      BY <3>1, <3>2
  <2> QED
    BY <2>3, <2>4
<1>17. NomineesAscend'
  BY <1>1, <1>15, <1>16 DEF NomineesAscend, Start
<1> QED
  BY <1>1, <1>7, <1>8, <1>9, <1>17, BacklogStays DEF ReplaceInv

(* Steps that only go on to another part of a call, or give the call-back  *)
(* what the buffer holds                                                   *)
LEMMA GoOnStep ==
  ASSUME ReplaceInv, Nullify \/ EndOfChunk \/ Flush \/ FlushKeep
  PROVE  ReplaceInv'
<1>1. /\ UNCHANGED <<text, base_position, last_node, backlog, noms, curser,
                     replace_mode, current, position_r, ended, input>>
      /\ nom' = nom \/ nom' = NoPattern
      /\ pc' # "book"
      /\ \/ UNCHANGED <<buffer, output>>
         \/ buffer' = << >> /\ output' = output \o buffer
      /\ \/ pc = "book" /\ pc' = "scan"
         \/ pc = "scan" /\ position_r = Len(text) /\ pc' = "replace"
         \/ pc = "ready" /\ ~ended /\ pc' = "flush"
         \/ pc = "ready" /\ pc' = pc
  BY DEF Nullify, EndOfChunk, Flush, FlushKeep, repUnchanged
<1>2. /\ buffer' \in Seq(Alphabet) /\ Len(buffer') < BufferSize
      /\ output' \in Seq(Alphabet)
  <2>1. BufferSize \in Nat /\ 0 < BufferSize
    BY ReplaceAssumption
  <2>2. /\ buffer \in Seq(Alphabet) /\ Len(buffer) < BufferSize
        /\ output \in Seq(Alphabet)
    BY DEF ReplaceInv, ReplaceTypeOK
  <2>3. /\ output \o buffer \in Seq(Alphabet) /\ << >> \in Seq(Alphabet)
        /\ Len(<< >>) = 0
    BY <2>2
  <2> QED
    BY <1>1, <2>1, <2>2, <2>3
<1>3. nom' \in (Pattern \cup {Root}) \X Nat
  BY <1>1, NoNomineeType DEF ReplaceInv, ReplaceTypeOK
<1>4. ReplaceTypeOK'
  BY <1>1, <1>2, <1>3 DEF ReplaceInv, ReplaceTypeOK
<1>5. CallInv'
  BY <1>1 DEF ReplaceInv, CallInv
<1>6. NomineeInv'
  BY <1>1 DEF ReplaceInv, NomineeInv
<1> QED
  BY <1>1, <1>4, <1>5, <1>6, BacklogStays, NomineesStay DEF ReplaceInv

(***************************************************************************)
(* Output                                                                  *)
(***************************************************************************)

LEMMA AppendTextType ==
  ASSUME buffer \in Seq(Alphabet), output \in Seq(Alphabet),
         NEW t \in Seq(Alphabet), AppendText(t)
  PROVE  /\ buffer' \in Seq(Alphabet) /\ Len(buffer') < BufferSize
         /\ output' \in Seq(Alphabet)
<1> DEFINE all == buffer \o t
           n == Flushed(Len(all))
<1>1. all \in Seq(Alphabet) /\ Len(all) \in Nat
  OBVIOUS
<1>2. output' = output \o SubSeq(all, 1, n) /\ buffer' = SubSeq(all, n + 1, Len(all))
  BY DEF AppendText
<1> HIDE DEF all
<1>3. n \in 0..Len(all) /\ Len(all) - n < BufferSize
  BY <1>1, FlushedFits
<1> HIDE DEF n
<1>4. SubSeq(all, 1, n) \in Seq(Alphabet)
  BY <1>1, <1>3, StartOfWord
<1>5. buffer' \in Seq(Alphabet) /\ Len(buffer') = Len(all) - n
  BY <1>1, <1>2, <1>3, DropIsTail
<1> QED
  BY <1>2, <1>3, <1>4, <1>5

(* What is appended lies in the backlog and the chunk.                     *)
LEMMA FactorType ==
  ASSUME ReplaceInv, NEW from \in Int, NEW to \in Int,
         to <= base_position + Len(text)
  PROVE  Factor(from, to) \in Seq(Alphabet)
<1>1. /\ backlog \o text \in Seq(Alphabet)
      /\ Len(backlog \o text) = Len(backlog) + Len(text)
      /\ Len(backlog) \in Nat /\ Len(text) \in Nat /\ base_position \in Nat
  BY DEF ReplaceInv, ReplaceTypeOK
<1> DEFINE lo == from - BacklogBase + 1
           hi == to - BacklogBase
<1>2. << >> \in Seq(Alphabet)
  OBVIOUS
<1>3. CASE ~(to < from \/ from < BacklogBase)
  <2>1. lo \in Int /\ hi \in Int /\ 1 <= lo /\ hi <= Len(backlog \o text)
    BY <1>1, <1>3 DEF BacklogBase
  <2>2. \A s \in Seq(Alphabet), i, j \in Int :
          1 <= i /\ j <= Len(s) => SubSeq(s, i, j) \in Seq(Alphabet)
    OBVIOUS
  <2>3. SubSeq(backlog \o text, lo, hi) \in Seq(Alphabet)
    <3> HIDE DEF lo, hi
    <3> QED
      BY <1>1, <2>1, <2>2
  <2> QED
    BY <1>3, <2>3 DEF Factor
<1> QED
  BY <1>2, <1>3 DEF Factor

LEMMA ToPosition ==
  ASSUME ReplaceInv
  PROVE  /\ to_position \in Int /\ BacklogPos \in Int
         /\ to_position <= base_position + Len(text)
<1>1. current \in Seq(Alphabet)
  BY NodesAreWords DEF ReplaceInv, ReplaceTypeOK
<1>2. /\ Len(current) \in Nat /\ base_position \in Nat /\ Len(text) \in Nat
  BY <1>1 DEF ReplaceInv, ReplaceTypeOK
<1> QED
  BY <1>2 DEF to_position, BacklogPos

(* The first nominee is replaced; it ends before the others do.            *)
LEMMA ReplaceNomineeStep ==
  ASSUME ReplaceInv, ReplaceNominee
  PROVE  ReplaceInv'
<1> DEFINE first == Head(noms)
<1>1. /\ pc \in {"replace", "flush"} /\ noms # << >>
      /\ AppendText(Factor(curser, Start(first)) \o Rtext[first[1]])
      /\ curser' = first[2] /\ noms' = Tail(noms)
      /\ Start(first) < to_position
      /\ UNCHANGED <<text, base_position, last_node, backlog, replace_mode, pc,
                     current, position_r, nom, ended, input>>
  BY DEF ReplaceNominee, Replacing, InRange
<1>2. noms \in Seq(Pattern \X Nat) /\ Len(noms) \in Nat /\ Len(noms) > 0
  BY <1>1 DEF ReplaceInv, ReplaceTypeOK
<1>3. first = noms[1] /\ 1 \in 1..Len(noms)
  BY <1>1, <1>2
<1>4. /\ noms' \in Seq(Pattern \X Nat) /\ Len(noms') = Len(noms) - 1
      /\ \A i \in 1..Len(noms') : noms'[i] = noms[i + 1] /\ i + 1 \in 1..Len(noms)
  BY <1>1, <1>2
<1> HIDE DEF first
<1>5. /\ first[1] \in DOMAIN Rtext /\ first[2] \in Nat /\ Start(first) \in Int
      /\ Start(first) < first[2] /\ curser < first[2]
      /\ first[2] <= base_position + position_r
  BY <1>3, NomineeFacts DEF ReplaceInv, NomineeInv
<1>6. /\ base_position \in Nat /\ curser \in Nat /\ position_r \in Nat
      /\ Len(text) \in Nat
  BY DEF ReplaceInv, ReplaceTypeOK
<1>7. Factor(curser, Start(first)) \in Seq(Alphabet)
  <2>1. Start(first) <= base_position + Len(text)
    BY <1>1, <1>5, <1>6, ToPosition
  <2> QED
    BY <1>5, <1>6, <2>1, FactorType
<1>8. Rtext[first[1]] \in Seq(Alphabet)
  BY <1>5, ReplaceAssumption
<1>9. /\ buffer' \in Seq(Alphabet) /\ Len(buffer') < BufferSize
      /\ output' \in Seq(Alphabet)
  <2>1. Factor(curser, Start(first)) \o Rtext[first[1]] \in Seq(Alphabet)
    BY <1>7, <1>8
  <2> QED
    BY <1>1, <2>1, AppendTextType DEF ReplaceInv, ReplaceTypeOK
<1>10. ReplaceTypeOK'
  BY <1>1, <1>4, <1>5, <1>9 DEF ReplaceInv, ReplaceTypeOK
<1>11. CallInv'
  BY <1>1 DEF ReplaceInv, CallInv
<1>12. NomineeInv'
  <2>1. ASSUME NEW i \in 1..Len(noms')
        PROVE  /\ noms'[i][1] \in DOMAIN Rtext
               /\ first[2] < noms'[i][2]
               /\ noms'[i][2] <= base_position + position_r
    <3>1. noms'[i] = noms[i + 1] /\ i + 1 \in 1..Len(noms) /\ 1 < i + 1
      BY <1>4
    <3>2. first[2] < noms[i + 1][2]
      BY <1>3, <3>1 DEF ReplaceInv, NomineesAscend
    <3> QED
      BY <3>1, <3>2 DEF ReplaceInv, NomineeInv
  <2> QED
    BY <1>1, <1>5, <2>1 DEF NomineeInv
<1>13. NomineesAscend'
  <2>1. ASSUME NEW i \in 1..Len(noms'), NEW j \in 1..Len(noms'), i < j
        PROVE  /\ Start(noms'[i]) < Start(noms'[j])
               /\ noms'[i][2] < noms'[j][2]
               /\ replace_mode = "LAZY" => noms'[i][2] <= Start(noms'[j])
    <3>1. /\ noms'[i] = noms[i + 1] /\ i + 1 \in 1..Len(noms)
          /\ noms'[j] = noms[j + 1] /\ j + 1 \in 1..Len(noms) /\ i + 1 < j + 1
      BY <1>4, <2>1
    <3> QED
      BY <3>1 DEF ReplaceInv, NomineesAscend
  <2>2. ASSUME replace_mode = "LAZY", noms' # << >>
        PROVE  first[2] <= Start(noms'[1])
    <3>1. 1 \in 1..Len(noms')
      BY <1>4, <2>2
    <3>2. noms'[1] = noms[2] /\ 2 \in 1..Len(noms)
      BY <1>4, <3>1
    <3> QED
      BY <1>3, <2>2, <3>2 DEF ReplaceInv, NomineesAscend
  <2> QED
    BY <1>1, <2>1, <2>2 DEF NomineesAscend, Start
<1>14. BacklogIsKept'
  <2>1. base_position - Len(backlog) <= first[2]
    <3>1. base_position - Len(backlog) <= curser /\ Len(backlog) \in Nat
      BY DEF ReplaceInv, BacklogIsKept, BacklogBase, ReplaceTypeOK
    <3> QED
      BY <1>5, <1>6, <3>1
  <2> QED
    BY <1>1, <2>1 DEF ReplaceInv, BacklogIsKept, BacklogBase
<1> QED
  BY <1>10, <1>11, <1>12, <1>13, <1>14 DEF ReplaceInv

(* The end of a chunk: the backlog is either consumed or gets longer, and  *)
(* in both cases it begins where the cursor is or before.                  *)
LEMMA ReplaceEndStep ==
  ASSUME ReplaceInv, ReplaceEnd
  PROVE  ReplaceInv'
<1> DEFINE rest == SubSeq(text, SaveFrom + 1, Len(text))
<1>1. /\ pc = "replace" /\ ~(Replacing /\ InRange)
      /\ IF Replacing /\ to_position > curser
         THEN AppendText(Rest) /\ curser' = to_position
         ELSE UNCHANGED <<buffer, output, curser>>
      /\ backlog' = (IF Replacing /\ base_position <= curser' THEN << >> ELSE backlog)
                      \o rest
      /\ last_node' = current /\ base_position' = base_position + position_r
      /\ pc' = "ready" /\ text' = << >> /\ current' = Root /\ position_r' = 0
      /\ UNCHANGED <<replace_mode, nom, input, noms, ended>>
  BY DEF ReplaceEnd, Return
<1>2. /\ position_r = Len(text) /\ Len(text) \in Nat /\ base_position \in Nat
      /\ curser \in Nat /\ text \in Seq(Alphabet) /\ backlog \in Seq(Alphabet)
      /\ input \in Seq(Alphabet) /\ Len(backlog) \in Nat /\ ~ended
      /\ buffer \in Seq(Alphabet) /\ output \in Seq(Alphabet)
      /\ noms \in Seq(Pattern \X Nat) /\ current \in Nodes
      /\ base_position + position_r = base_position + Len(text)
  <2>1. position_r = Len(text) /\ ~ended
    BY <1>1 DEF ReplaceInv, CallInv
  <2>2. ReplaceTypeOK
    BY DEF ReplaceInv
  <2> QED
    BY <2>1, <2>2 DEF ReplaceTypeOK
<1>3. /\ to_position \in Int /\ to_position <= base_position + Len(text)
  BY ToPosition
<1>4. /\ Replacing <=> to_position >= base_position
      /\ SaveFrom \in 0..Len(text)
      /\ Replacing => SaveFrom = to_position - base_position
      /\ ~Replacing => SaveFrom = 0
  <2>1. Replacing <=> to_position >= base_position
    BY <1>1 DEF Replacing
  <2> HIDE DEF to_position, Replacing
  <2>2. /\ base_position < to_position => SaveFrom = to_position - base_position
        /\ ~(base_position < to_position) => SaveFrom = 0
    BY DEF SaveFrom
  <2> HIDE DEF SaveFrom
  <2> QED
    BY <1>2, <1>3, <2>1, <2>2
<1> HIDE DEF to_position, SaveFrom, Replacing, InRange
<1>5. /\ rest \in Seq(Alphabet) /\ Len(rest) = Len(text) - SaveFrom
      /\ IsTail(rest, text)
  BY <1>2, <1>4, DropIsTail
<1> HIDE DEF rest
<1>6. /\ curser' \in Nat /\ curser <= curser'
      /\ curser' <= base_position + Len(text)
      /\ Replacing => to_position <= curser'
      /\ curser' = curser \/ (Replacing /\ curser' = to_position)
  <2>1. curser <= base_position + Len(text)
    BY <1>2 DEF ReplaceInv, NomineeInv
  <2>2. CASE Replacing /\ to_position > curser
    BY <1>1, <1>2, <1>3, <2>1, <2>2
  <2>3. CASE ~(Replacing /\ to_position > curser)
    BY <1>1, <1>2, <1>3, <2>1, <2>3
  <2> QED
    BY <2>2, <2>3
<1>7. /\ buffer' \in Seq(Alphabet) /\ Len(buffer') < BufferSize
      /\ output' \in Seq(Alphabet)
  <2>1. CASE Replacing /\ to_position > curser
    <3>1. Rest \in Seq(Alphabet)
      BY <1>2, <1>3, FactorType DEF Rest
    <3> QED
      BY <1>1, <1>2, <2>1, <3>1, AppendTextType
  <2>2. CASE ~(Replacing /\ to_position > curser)
    BY <1>1, <2>2 DEF ReplaceInv, ReplaceTypeOK
  <2> QED
    BY <2>1, <2>2
<1>8. /\ backlog' \in Seq(Alphabet)
      /\ (base_position + Len(text)) - Len(backlog') <= curser'
      /\ IsTail(backlog', input)
  <2>1. IsTail(backlog \o text, input) /\ backlog \o text \in Seq(Alphabet)
    BY <1>2 DEF ReplaceInv, BacklogIsKept
  <2>2. CASE Replacing
    <3>1. base_position <= curser'
      BY <1>2, <1>3, <1>4, <1>6, <2>2
    <3>2. backlog' = << >> \o rest
      BY <1>1, <2>2, <3>1
    <3>3. backlog' = rest
      BY <1>5, <3>2
    <3>4. IsTail(text, backlog \o text)
      BY <1>2, ConcatTail
    <3>5. IsTail(rest, input)
      BY <1>2, <1>5, <2>1, <3>4, TailTransitive
    <3>6. (base_position + Len(text)) - Len(rest) = to_position
      <4>1. SaveFrom = to_position - base_position /\ Len(rest) = Len(text) - SaveFrom
        BY <1>4, <1>5, <2>2
      <4>2. \A p, n, m, f, r \in Int : f = m - p /\ r = n - f => (p + n) - r = m
        OBVIOUS
      <4>3. SaveFrom \in Int /\ Len(rest) \in Int
        BY <1>4, <1>5
      <4> QED
        BY <1>2, <1>3, <4>1, <4>2, <4>3
    <3> QED
      BY <1>5, <1>6, <2>2, <3>3, <3>5, <3>6
  <2>3. CASE ~Replacing
    <3>1. backlog' = backlog \o rest
      BY <1>1, <2>3
    <3>2. rest = text
      <4>1. SaveFrom + 1 = 1
        BY <1>4, <2>3
      <4>2. rest = SubSeq(text, 1, Len(text))
        BY <4>1 DEF rest
      <4>3. \A s \in Seq(Alphabet) : SubSeq(s, 1, Len(s)) = s
        OBVIOUS
      <4> QED
        BY <1>2, <4>2, <4>3
    <3>3. curser' = curser /\ base_position - Len(backlog) <= curser
      BY <1>1, <2>3 DEF ReplaceInv, BacklogIsKept, BacklogBase
    <3>4. Len(backlog \o text) = Len(backlog) + Len(text)
      BY <1>2
    <3> QED
      BY <1>2, <2>1, <3>1, <3>2, <3>3, <3>4
  <2> QED
    BY <2>2, <2>3
<1>9. ReplaceTypeOK'
  <2>1. << >> \in Seq(Alphabet) /\ 0 \in 0..Len(<< >>)
    OBVIOUS
  <2>2. base_position' \in Nat
    BY <1>1, <1>2
  <2> QED
    BY <1>1, <1>2, <1>6, <1>7, <1>8, <2>1, <2>2, NodesAreWords
       DEF ReplaceInv, ReplaceTypeOK
<1>10. CallInv'
  BY <1>1, <1>2 DEF CallInv
<1>11. Replacing => \A i \in 1..Len(noms) : to_position <= Start(noms[i])
  <2> SUFFICES ASSUME Replacing, NEW i \in 1..Len(noms)
               PROVE  to_position <= Start(noms[i])
    OBVIOUS
  <2>1. noms # << >> /\ 1 \in 1..Len(noms) /\ Head(noms) = noms[1]
    BY <1>2
  <2>2. Start(noms[1]) \in Int /\ Start(noms[i]) \in Int
    BY <2>1, NomineeFacts
  <2>3. to_position <= Start(noms[1])
    BY <1>1, <1>3, <2>1, <2>2 DEF InRange
  <2>4. i = 1 \/ Start(noms[1]) < Start(noms[i])
    BY <2>1 DEF ReplaceInv, NomineesAscend
  <2> QED
    BY <1>3, <2>2, <2>3, <2>4
<1>12. NomineeInv'
  <2>1. ASSUME NEW i \in 1..Len(noms)
        PROVE  /\ noms[i][1] \in DOMAIN Rtext
               /\ curser' < noms[i][2]
               /\ noms[i][2] <= base_position + Len(text)
    <3>1. /\ noms[i][1] \in DOMAIN Rtext /\ curser < noms[i][2]
          /\ noms[i][2] <= base_position + Len(text)
      BY <1>2 DEF ReplaceInv, NomineeInv
    <3>2. CASE curser' = curser
      BY <3>1, <3>2
    <3>3. CASE Replacing /\ curser' = to_position
      <4>1. to_position <= Start(noms[i])
        BY <1>11, <3>3
      <4>2. Start(noms[i]) < noms[i][2] /\ Start(noms[i]) \in Int /\ noms[i][2] \in Nat
        BY NomineeFacts
      <4>3. to_position < noms[i][2]
        BY <1>3, <4>1, <4>2
      <4> QED
        BY <3>1, <3>3, <4>3
    <3> QED
      BY <1>6, <3>2, <3>3
  <2>2. base_position' + position_r' = base_position + Len(text)
    BY <1>1, <1>2
  <2> QED
    BY <1>1, <1>6, <2>1, <2>2 DEF NomineeInv
<1>13. NomineesAscend'
  <2>1. ASSUME replace_mode = "LAZY", noms # << >>
        PROVE  curser' <= Start(noms[1])
    <3>1. CASE curser' = curser
      BY <2>1, <3>1 DEF ReplaceInv, NomineesAscend
    <3>2. CASE Replacing /\ curser' = to_position
      <4>1. 1 \in 1..Len(noms)
        BY <1>2, <2>1
      <4> QED
        BY <1>11, <3>2, <4>1
    <3> QED
      BY <1>6, <3>1, <3>2
  <2> QED
    BY <1>1, <2>1 DEF ReplaceInv, NomineesAscend, Start
<1>14. BacklogIsKept'
  <2>1. backlog' \o << >> = backlog'
    BY <1>8
  <2>2. base_position + Len(text) = Len(input)
    BY <1>2 DEF ReplaceInv, BacklogIsKept
  <2>3. (base_position + Len(text)) + 0 = Len(input) /\ Len(<< >>) = 0
    BY <1>2, <2>2
  <2>4. base_position' = base_position + Len(text) /\ ended' = ended /\ input' = input
    BY <1>1, <1>2
  <2>5. (base_position + Len(text) = Len(input))'
    BY <1>1, <2>3, <2>4
  <2>6. IsTail(backlog' \o text', input')
    BY <1>1, <1>8, <2>1, <2>4
  <2>7. (BacklogBase <= curser)'
    BY <1>8, <2>4 DEF BacklogBase
  <2>8. ~ended'
    BY <1>2, <2>4
  <2> QED
    BY <2>5, <2>6, <2>7, <2>8 DEF BacklogIsKept
<1> QED
  BY <1>9, <1>10, <1>12, <1>13, <1>14 DEF ReplaceInv

(* A flush ends the stream.                                                *)
LEMMA FlushEndStep ==
  ASSUME ReplaceInv, FlushEnd
  PROVE  ReplaceInv'
<1>1. /\ pc = "flush" /\ output' = output \o buffer \o Rest
      /\ buffer' = << >> /\ backlog' = << >> /\ noms' = << >> /\ curser' = 0
      /\ last_node' = Root /\ base_position' = 0 /\ ended' = TRUE
      /\ pc' = "ready" /\ text' = << >> /\ current' = Root /\ position_r' = 0
      /\ UNCHANGED <<replace_mode, nom, input>>
  BY DEF FlushEnd, ResetData, Return
<1>2. << >> \in Seq(Alphabet) /\ 0 \in 0..Len(<< >>) /\ Len(<< >>) = 0
      /\ << >> \in Seq(Pattern \X Nat) /\ Len(<< >>) < BufferSize
  BY ReplaceAssumption
<1>3. output' \in Seq(Alphabet)
  <2>1. curser \in Int /\ to_position \in Int /\ to_position <= base_position + Len(text)
    BY ToPosition DEF ReplaceInv, ReplaceTypeOK
  <2>2. Rest \in Seq(Alphabet)
    BY <2>1, FactorType DEF Rest
  <2>3. output \in Seq(Alphabet) /\ buffer \in Seq(Alphabet)
    BY DEF ReplaceInv, ReplaceTypeOK
  <2> QED
    BY <1>1, <2>2, <2>3
<1>4. ended' \in BOOLEAN
  BY <1>1, Zenon
<1>5. ReplaceTypeOK'
  BY <1>1, <1>2, <1>3, <1>4, NodesAreWords DEF ReplaceInv, ReplaceTypeOK
<1>6. CallInv' /\ NomineeInv' /\ NomineesAscend'
  BY <1>1, <1>2 DEF CallInv, NomineeInv, NomineesAscend
<1>7. BacklogIsKept'
  BY <1>1, <1>2 DEF BacklogIsKept, BacklogBase
<1> QED
  BY <1>5, <1>6, <1>7 DEF ReplaceInv

LEMMA ReplaceInvStep ==
  ASSUME ReplaceInv, [Next]_vars
  PROVE  ReplaceInv'
<1>1. ASSUME NEW t \in Chunk, NEW mode \in Mode, Replace(t, mode)
      PROVE  ReplaceInv'
  BY <1>1, ReplaceStep
<1>2. CASE UNCHANGED vars
  <2>1. UNCHANGED <<text, base_position, last_node, buffer, backlog, noms,
                    curser, replace_mode, pc, current, position_r, nom, ended,
                    input, output>>
    BY <1>2 DEF vars
  <2>2. ReplaceTypeOK' /\ CallInv' /\ NomineeInv'
    BY <2>1 DEF ReplaceInv, ReplaceTypeOK, CallInv, NomineeInv
  <2> QED
    BY <2>1, <2>2, BacklogStays, NomineesStay DEF ReplaceInv
<1> QED
  BY <1>1, <1>2, FollowStep, FailSkipStep, TakeBackStep, PushStep, GoOnStep,
     ReplaceNomineeStep, ReplaceEndStep, FlushEndStep DEF Next, Step

LEMMA ReplaceInvariant == Spec => []ReplaceInv
BY ReplaceInvInit, ReplaceInvStep, PTL DEF Spec

(***************************************************************************)
(* What a text becomes                                                     *)
(***************************************************************************)

(* A pattern that is to be replaced, and where it ends                     *)
Placed == {c \in (DOMAIN Rtext) \X Nat : Len(c[1]) <= c[2]}

LEMMA PlacedFacts ==
  ASSUME NEW c \in Placed
  PROVE  /\ c[2] \in Nat /\ Start(c) \in Nat /\ Start(c) < c[2]
         /\ c[1] \in DOMAIN Rtext /\ Rtext[c[1]] \in Seq(Alphabet)
<1>1. c[1] \in DOMAIN Rtext /\ c[2] \in Nat /\ Len(c[1]) <= c[2]
  BY DEF Placed
<1>2. Len(c[1]) \in Nat /\ Len(c[1]) > 0
  BY <1>1, PatternsAreWords
<1>3. Rtext[c[1]] \in Seq(Alphabet)
  BY <1>1, ReplaceAssumption
<1> QED
  BY <1>1, <1>2, <1>3 DEF Start

LEMMA PieceType ==
  ASSUME NEW s \in Seq(Alphabet), NEW C \in SUBSET Placed, NEW p \in 1..Len(s)
  PROVE  Piece(s, C, p) \in Seq(Alphabet)
<1> DEFINE B == BeginningAt(C, p)
           c == CHOOSE x \in B : TRUE
           r == IF B = {} THEN << >> ELSE Rtext[c[1]]
           t == IF Covered(C, p) THEN << >> ELSE <<s[p]>>
<1>1. r \in Seq(Alphabet)
  <2>1. CASE B = {}
    BY <2>1
  <2>2. CASE B # {}
    <3>1. c \in B
      BY <2>2
    <3>2. c \in Placed
      BY <3>1 DEF BeginningAt
    <3> HIDE DEF c
    <3>3. Rtext[c[1]] \in Seq(Alphabet)
      BY <3>2, PlacedFacts
    <3> HIDE DEF B
    <3> QED
      BY <2>2, <3>3
  <2> QED
    BY <2>1, <2>2
<1>2. t \in Seq(Alphabet)
  <2>1. s[p] \in Alphabet
    OBVIOUS
  <2> QED
    BY <2>1
<1>3. Piece(s, C, p) = r \o t
  BY DEF Piece
<1> HIDE DEF r, t
<1> QED
  BY <1>1, <1>2, <1>3

(* Position by position                                                    *)
LEMMA ReplacedNone ==
  ASSUME NEW s, NEW C
  PROVE  ReplacedIn(s, C, 0) = << >>
<1>1. [p \in 1..0 |-> Piece(s, C, p)] = << >>
  OBVIOUS
<1> QED
  BY <1>1, FlattenEmpty DEF ReplacedIn

LEMMA PiecesType ==
  ASSUME NEW s \in Seq(Alphabet), NEW C \in SUBSET Placed, NEW n \in 0..Len(s)
  PROVE  [p \in 1..n |-> Piece(s, C, p)] \in Seq(Seq(Alphabet))
<1>1. \A p \in 1..n : Piece(s, C, p) \in Seq(Alphabet)
  BY PieceType
<1>2. [p \in 1..n |-> Piece(s, C, p)] \in [1..n -> Seq(Alphabet)]
  BY <1>1
<1>3. n \in Nat /\ \A T : \A f \in [1..n -> T] : f \in Seq(T)
  OBVIOUS
<1> QED
  BY <1>2, <1>3, Zenon

LEMMA ReplacedType ==
  ASSUME NEW s \in Seq(Alphabet), NEW C \in SUBSET Placed, NEW n \in 0..Len(s)
  PROVE  ReplacedIn(s, C, n) \in Seq(Alphabet)
<1>1. << >> \in Seq(Alphabet)
  OBVIOUS
<1> QED
  BY <1>1, PiecesType, FlattenAppend DEF ReplacedIn

LEMMA ReplacedNext ==
  ASSUME NEW s \in Seq(Alphabet), NEW C \in SUBSET Placed, NEW n \in Nat,
         n + 1 <= Len(s)
  PROVE  ReplacedIn(s, C, n + 1) = ReplacedIn(s, C, n) \o Piece(s, C, n + 1)
<1> DEFINE now == [p \in 1..n |-> Piece(s, C, p)]
           next == [p \in 1..(n + 1) |-> Piece(s, C, p)]
<1>1. n \in 0..Len(s) /\ n + 1 \in 0..Len(s) /\ n + 1 \in 1..Len(s)
  OBVIOUS
<1>2. now \in Seq(Seq(Alphabet)) /\ next \in Seq(Seq(Alphabet))
  BY <1>1, PiecesType
<1>3. Piece(s, C, n + 1) \in Seq(Alphabet)
  BY <1>1, PieceType
<1>4. next = Append(now, Piece(s, C, n + 1))
  <2>1. Len(now) = n /\ Len(next) = n + 1
    OBVIOUS
  <2>2. \A i \in 1..(n + 1) : next[i] = Piece(s, C, i)
    OBVIOUS
  <2>3. \A i \in 1..n : now[i] = Piece(s, C, i)
    OBVIOUS
  <2> DEFINE app == Append(now, Piece(s, C, n + 1))
  <2>4. \A T : \A f \in Seq(T) : \A x \in T :
          /\ Append(f, x) \in Seq(T) /\ Len(Append(f, x)) = Len(f) + 1
          /\ \A i \in 1..Len(f) : Append(f, x)[i] = f[i]
          /\ Append(f, x)[Len(f) + 1] = x
    OBVIOUS
  <2>5. /\ app \in Seq(Seq(Alphabet)) /\ Len(app) = Len(now) + 1
        /\ \A i \in 1..Len(now) : app[i] = now[i]
        /\ app[Len(now) + 1] = Piece(s, C, n + 1)
    <3> HIDE DEF now
    <3> QED
      BY <1>2, <1>3, <2>4
  <2> HIDE DEF app, now, next
  <2>6. ASSUME NEW i \in 1..(n + 1)
        PROVE  app[i] = next[i]
    <3>1. CASE i \in 1..n
      BY <2>1, <2>2, <2>3, <2>5, <3>1
    <3>2. CASE i = n + 1
      BY <2>1, <2>2, <2>5, <3>2
    <3> QED
      BY <3>1, <3>2
  <2>7. Len(app) = Len(next)
    BY <2>1, <2>5
  <2>8. app = next
    BY <1>2, <2>1, <2>5, <2>6, <2>7
  <2> QED
    BY <2>8 DEF app
<1> HIDE DEF now, next
<1>5. FlattenSeq(next) = FlattenSeq(now) \o Piece(s, C, n + 1)
  BY <1>2, <1>3, <1>4, FlattenAppend
<1> QED
  BY <1>5 DEF ReplacedIn, now, next

(* The same pieces give the same text.                                     *)
LEMMA SamePieces ==
  ASSUME NEW s, NEW t, NEW C, NEW D, NEW n \in Nat,
         \A p \in 1..n : Piece(s, C, p) = Piece(t, D, p)
  PROVE  ReplacedIn(s, C, n) = ReplacedIn(t, D, n)
<1>1. [p \in 1..n |-> Piece(s, C, p)] = [p \in 1..n |-> Piece(t, D, p)]
  OBVIOUS
<1> QED
  BY <1>1 DEF ReplacedIn

(* A stretch of pieces that are empty adds nothing, ...                    *)
LEMMA EmptyPieces ==
  ASSUME NEW s \in Seq(Alphabet), NEW C \in SUBSET Placed,
         NEW j \in Nat, NEW k \in Nat, j <= k, k <= Len(s),
         \A p \in (j + 1)..k : Piece(s, C, p) = << >>
  PROVE  ReplacedIn(s, C, k) = ReplacedIn(s, C, j)
<1> DEFINE S == {d \in Nat : j + d <= k => ReplacedIn(s, C, j + d) = ReplacedIn(s, C, j)}
<1>1. 0 \in S
  OBVIOUS
<1>2. ASSUME NEW d \in Nat, d \in S, j + (d + 1) <= k
      PROVE  ReplacedIn(s, C, j + (d + 1)) = ReplacedIn(s, C, j)
  <2>1. ReplacedIn(s, C, j + d) = ReplacedIn(s, C, j)
    BY <1>2
  <2>2. j + d \in Nat /\ j + d \in 0..Len(s) /\ (j + d) + 1 <= Len(s) /\ j + (d + 1) = (j + d) + 1
        /\ (j + d) + 1 \in (j + 1)..k
    BY <1>2
  <2>3. Piece(s, C, (j + d) + 1) = << >>
    BY <2>2
  <2>4. ReplacedIn(s, C, (j + d) + 1) = ReplacedIn(s, C, j + d) \o << >>
    BY <2>2, <2>3, ReplacedNext
  <2>5. ReplacedIn(s, C, j + d) \in Seq(Alphabet)
    BY <2>2, ReplacedType
  <2> QED
    BY <2>1, <2>2, <2>4, <2>5
<1>3. Nat \subseteq S
  <2>1. \A d \in Nat : d \in S => d + 1 \in S
    BY <1>2
  <2> HIDE DEF S
  <2> QED
    BY <1>1, <2>1, Induction
<1>4. k - j \in Nat /\ j + (k - j) = k
  OBVIOUS
<1> QED
  BY <1>3, <1>4

(* ... and one where nothing is replaced is as it was.                     *)
LEMMA UnchangedPieces ==
  ASSUME NEW s \in Seq(Alphabet), NEW C \in SUBSET Placed,
         NEW j \in Nat, NEW k \in Nat, j <= k, k <= Len(s),
         \A p \in (j + 1)..k : Piece(s, C, p) = <<s[p]>>
  PROVE  ReplacedIn(s, C, k) = ReplacedIn(s, C, j) \o SubSeq(s, j + 1, k)
<1> DEFINE R == ReplacedIn(s, C, j)
           Q(d) == j + d <= k =>
                     ReplacedIn(s, C, j + d) = R \o SubSeq(s, j + 1, j + d)
           S == {d \in Nat : Q(d)}
<1>0. R \in Seq(Alphabet)
  <2>1. j \in 0..Len(s)
    OBVIOUS
  <2> QED
    BY <2>1, ReplacedType
<1> HIDE DEF R
<1>1. 0 \in S
  <2>1. SubSeq(s, j + 1, j) = << >> /\ R \o << >> = R /\ j + 0 = j
    BY <1>0
  <2>2. Q(0)
    BY <2>1 DEF R
  <2> QED
    BY <2>2
<1>2. ASSUME NEW d \in Nat, Q(d), j + (d + 1) <= k
      PROVE  ReplacedIn(s, C, j + (d + 1)) = R \o SubSeq(s, j + 1, j + (d + 1))
  <2>1. ReplacedIn(s, C, j + d) = R \o SubSeq(s, j + 1, j + d)
    <3>1. j + d <= k
      BY <1>2
    <3> QED
      BY <1>2, <3>1, Zenon
  <2> DEFINE e == j + d
             u == SubSeq(s, j + 1, e)
  <2>2. e \in Nat /\ e + 1 <= Len(s) /\ j + (d + 1) = e + 1
        /\ e + 1 \in (j + 1)..k /\ j <= e
    BY <1>2
  <2> HIDE DEF e
  <2>3. ReplacedIn(s, C, e + 1) = ReplacedIn(s, C, e) \o <<s[e + 1]>>
    BY <2>2, ReplacedNext
  <2>4. u \in Seq(Alphabet) /\ s[e + 1] \in Alphabet /\ SubSeq(s, j + 1, e + 1) = Append(u, s[e + 1])
    BY <2>2
  <2> HIDE DEF u
  <2>5. (R \o u) \o <<s[e + 1]>> = R \o Append(u, s[e + 1])
    <3>1. \A v \in Seq(Alphabet), x \in Alphabet : (R \o v) \o <<x>> = R \o Append(v, x)
      BY <1>0
    <3> QED
      BY <2>4, <3>1
  <2> QED
    BY <2>1, <2>2, <2>3, <2>4, <2>5 DEF e, u
<1>3. Nat \subseteq S
  <2>1. \A d \in Nat : Q(d) => Q(d + 1)
    BY <1>2
  <2> HIDE DEF Q
  <2>2. \A d \in Nat : d \in S => d + 1 \in S
    BY <2>1
  <2> HIDE DEF S
  <2> QED
    BY <1>1, <2>2, Induction
<1>4. k - j \in Nat /\ j + (k - j) = k /\ j + (k - j) <= k
  OBVIOUS
<1>5. Q(k - j)
  <2> HIDE DEF Q
  <2> QED
    BY <1>3, <1>4
<1> QED
  BY <1>4, <1>5, Zenon DEF R

(* What becomes of less of a text is the beginning of what becomes of it.  *)
LEMMA ReplacedGrows ==
  ASSUME NEW s \in Seq(Alphabet), NEW C \in SUBSET Placed,
         NEW j \in Nat, NEW k \in Nat, j <= k, k <= Len(s)
  PROVE  IsPrefix(ReplacedIn(s, C, j), ReplacedIn(s, C, k))
<1> DEFINE R == ReplacedIn(s, C, j)
           Q(d) == j + d <= k =>
                     \E u \in Seq(Alphabet) : ReplacedIn(s, C, j + d) = R \o u
           S == {d \in Nat : Q(d)}
<1>0. R \in Seq(Alphabet)
  <2>1. j \in 0..Len(s)
    OBVIOUS
  <2> QED
    BY <2>1, ReplacedType
<1> HIDE DEF R
<1>1. 0 \in S
  <2>1. R \o << >> = R /\ << >> \in Seq(Alphabet) /\ ReplacedIn(s, C, j + 0) = R
    BY <1>0 DEF R
  <2>2. Q(0)
    BY <2>1
  <2> QED
    BY <2>2
<1>2. ASSUME NEW d \in Nat, Q(d), j + (d + 1) <= k
      PROVE  \E u \in Seq(Alphabet) : ReplacedIn(s, C, j + (d + 1)) = R \o u
  <2>1. PICK u \in Seq(Alphabet) : ReplacedIn(s, C, j + d) = R \o u
    BY <1>2
  <2> DEFINE e == j + d
             w == Piece(s, C, e + 1)
  <2>2. e \in Nat /\ e + 1 <= Len(s) /\ j + (d + 1) = e + 1 /\ e + 1 \in 1..Len(s)
    BY <1>2
  <2> HIDE DEF e
  <2>3. w \in Seq(Alphabet)
    BY <2>2, PieceType
  <2>4. ReplacedIn(s, C, e + 1) = ReplacedIn(s, C, e) \o w
    BY <2>2, ReplacedNext
  <2> HIDE DEF w
  <2>5. (R \o u) \o w = R \o (u \o w) /\ u \o w \in Seq(Alphabet)
    BY <1>0, <2>3
  <2> QED
    BY <2>1, <2>2, <2>4, <2>5 DEF e
<1>3. Nat \subseteq S
  <2>1. \A d \in Nat : Q(d) => Q(d + 1)
    BY <1>2
  <2> HIDE DEF Q
  <2>2. \A d \in Nat : d \in S => d + 1 \in S
    BY <2>1
  <2> HIDE DEF S
  <2> QED
    BY <1>1, <2>2, Induction
<1>4. k - j \in Nat /\ j + (k - j) = k /\ j + (k - j) <= k
  OBVIOUS
<1>5. PICK u \in Seq(Alphabet) : ReplacedIn(s, C, k) = R \o u
  <2>1. Q(k - j)
    <3> HIDE DEF Q
    <3> QED
      BY <1>3, <1>4
  <2> QED
    BY <1>4, <2>1, Zenon
<1>6. Len(R) <= Len(R \o u) /\ R = SubSeq(R \o u, 1, Len(R))
  BY <1>0
<1> QED
  BY <1>5, <1>6 DEF IsPrefix, R

(***************************************************************************)
(* What should be replaced                                                 *)
(***************************************************************************)

(* The longest pattern that ends at a position                             *)
LEMMA CandidateFacts ==
  ASSUME NEW s \in Seq(Alphabet), NEW e \in 1..Len(s), EndingAt(s, e) # {}
  PROVE  /\ CandidateAt(s, e) \in Placed
         /\ CandidateAt(s, e)[2] = e
         /\ CandidateAt(s, e)[1] \in EndingAt(s, e)
         /\ \A w \in EndingAt(s, e) : Len(w) <= Len(CandidateAt(s, e)[1])
<1> DEFINE W == EndingAt(s, e)
<1>1. W \in SUBSET Seq(Alphabet) /\ \A w \in W : w \in DOMAIN Rtext /\ Len(w) <= e
  BY PatternsAreWords DEF EndingAt, EndsAt
<1>2. e \in Nat
  OBVIOUS
<1> HIDE DEF W
<1>3. Longest(W) \in W /\ \A w \in W : Len(w) <= Len(Longest(W))
  BY <1>1, <1>2, LongestIsLongest DEF W
<1>4. CandidateAt(s, e) = <<Longest(W), e>>
  BY DEF CandidateAt, W
<1> QED
  BY <1>1, <1>2, <1>3, <1>4 DEF Placed, W

LEMMA CandidatesArePlaced ==
  ASSUME NEW s \in Seq(Alphabet), NEW n \in 0..Len(s)
  PROVE  /\ Candidates(s, n) \in SUBSET Placed
         /\ \A c \in Candidates(s, n) :
              /\ c[2] \in 1..n /\ EndingAt(s, c[2]) # {}
              /\ c = CandidateAt(s, c[2])
<1> SUFFICES ASSUME NEW c \in Candidates(s, n)
             PROVE  /\ c \in Placed /\ c[2] \in 1..n
                    /\ EndingAt(s, c[2]) # {} /\ c = CandidateAt(s, c[2])
  OBVIOUS
<1>1. PICK e \in 1..n : EndingAt(s, e) # {} /\ c = CandidateAt(s, e)
  BY DEF Candidates
<1>2. e \in 1..Len(s)
  OBVIOUS
<1> QED
  BY <1>1, <1>2, CandidateFacts

(* The next position adds at most one.                                     *)
LEMMA CandidatesNext ==
  ASSUME NEW s, NEW n \in Nat
  PROVE  Candidates(s, n + 1)
           = Candidates(s, n)
               \cup IF EndingAt(s, n + 1) = {} THEN {} ELSE {CandidateAt(s, n + 1)}
<1>1. 1..(n + 1) = (1..n) \cup {n + 1}
  OBVIOUS
<1> QED
  BY <1>1 DEF Candidates

LEMMA CandidatesNone ==
  ASSUME NEW s
  PROVE  Candidates(s, 0) = {}
BY DEF Candidates

(* What follows makes no difference.                                       *)
LEMMA CandidatesSameStart ==
  ASSUME NEW s \in Seq(Alphabet), NEW t \in Seq(Alphabet), NEW n \in Nat,
         n <= Len(s), n <= Len(t), \A i \in 1..n : s[i] = t[i]
  PROVE  Candidates(s, n) = Candidates(t, n)
<1>1. ASSUME NEW e \in 1..n
      PROVE  EndingAt(s, e) = EndingAt(t, e)
  <2>1. e \in Nat /\ e <= Len(s) /\ e <= Len(t) /\ \A i \in 1..e : s[i] = t[i]
    OBVIOUS
  <2>2. \A w \in DOMAIN Rtext : EndsAt(w, s, e) <=> EndsAt(w, t, e)
    BY <2>1, EndsAtSameStart, PatternsAreWords
  <2> QED
    BY <2>2 DEF EndingAt
<1>2. \A e \in 1..n : CandidateAt(s, e) = CandidateAt(t, e)
  BY <1>1 DEF CandidateAt
<1> QED
  BY <1>1, <1>2 DEF Candidates

(* In normal mode a new candidate replaces those that are a factor of it.  *)
LEMMA NormalNext ==
  ASSUME NEW K \in SUBSET Placed, NEW k \in Placed, \A c \in K : c[2] < k[2]
  PROVE  NormalChoice(K \cup {k})
           = {c \in NormalChoice(K) : Start(c) < Start(k)} \cup {k}
<1> DEFINE N == NormalChoice(K \cup {k})
<1>1. k[2] \in Nat /\ Start(k) \in Nat
  BY PlacedFacts
<1>2. \A c \in K : c[2] \in Nat /\ Start(c) \in Nat
  BY PlacedFacts
<1>3. k \notin K
  BY <1>1
<1>4. k \in N
  BY <1>1, <1>2 DEF NormalChoice, IsFactor
<1>5. ASSUME NEW c \in K
      PROVE  c \in N <=> c \in NormalChoice(K) /\ Start(c) < Start(k)
  <2>1. IsFactor(c, k) <=> ~(Start(c) < Start(k))
    BY <1>1, <1>2 DEF IsFactor
  <2>2. c # k
    BY <1>3
  <2> QED
    BY <2>1, <2>2 DEF NormalChoice
<1>6. N \subseteq K \cup {k} /\ NormalChoice(K) \subseteq K
  BY DEF NormalChoice
<1> QED
  BY <1>4, <1>5, <1>6

(* In lazy mode there is one choice at most, ...                           *)
LEMMA LazyIsUnique ==
  ASSUME NEW K \in SUBSET Placed, NEW C, NEW D,
         IsLazyChoice(K, C), IsLazyChoice(K, D)
  PROVE  C = D
<1> DEFINE X == (C \ D) \cup (D \ C)
           S == {x[2] : x \in X}
<1>1. SUFFICES ASSUME X # {}
               PROVE  FALSE
  OBVIOUS
<1>2. X \subseteq K
  BY DEF IsLazyChoice
<1>3. \A x \in K : x[2] \in Nat
  BY PlacedFacts
<1>4. S \in SUBSET Nat /\ S # {}
  BY <1>1, <1>2, <1>3
<1>5. PICK x \in X : \A y \in X : x[2] <= y[2]
  <2>1. Min(S) \in S /\ \A y \in S : Min(S) <= y
    <3> HIDE DEF S
    <3> QED
      BY <1>4, MinOfNaturals
  <2> QED
    BY <2>1
<1>6. \A d \in K : d[2] < x[2] => (d \in C <=> d \in D)
  BY <1>2, <1>3, <1>5
<1>7. BeginsBehind(x, C) <=> BeginsBehind(x, D)
  BY <1>6 DEF BeginsBehind, IsLazyChoice
<1>8. x \in C <=> x \in D
  BY <1>2, <1>7 DEF IsLazyChoice
<1> QED
  BY <1>8

(* ... which a new candidate joins unless it overlaps.                     *)
LEMMA LazyNext ==
  ASSUME NEW K \in SUBSET Placed, NEW k \in Placed, \A c \in K : c[2] < k[2],
         NEW C, IsLazyChoice(K, C)
  PROVE  IsLazyChoice(K \cup {k}, IF BeginsBehind(k, C) THEN C \cup {k} ELSE C)
<1> DEFINE D == IF BeginsBehind(k, C) THEN C \cup {k} ELSE C
<1>1. k[2] \in Nat /\ \A c \in K : c[2] \in Nat
  BY PlacedFacts
<1>2. k \notin K /\ C \subseteq K
  BY <1>1 DEF IsLazyChoice
<1>3. ASSUME NEW c \in K
      PROVE  c \in D <=> BeginsBehind(c, D)
  <2>1. BeginsBehind(c, D) <=> BeginsBehind(c, C)
    BY <1>1 DEF BeginsBehind
  <2> QED
    BY <1>2, <2>1 DEF IsLazyChoice
<1>4. k \in D <=> BeginsBehind(k, D)
  <2>1. BeginsBehind(k, D) <=> BeginsBehind(k, C)
    BY <1>1 DEF BeginsBehind
  <2> QED
    BY <1>2, <2>1
<1>5. D \subseteq K \cup {k}
  BY <1>2
<1> QED
  BY <1>3, <1>4, <1>5 DEF IsLazyChoice

LEMMA LazyExists ==
  ASSUME NEW s \in Seq(Alphabet), NEW n \in 0..Len(s)
  PROVE  \E C : IsLazyChoice(Candidates(s, n), C)
<1> DEFINE Q(m) == m <= Len(s) => \E C : IsLazyChoice(Candidates(s, m), C)
           S == {m \in Nat : Q(m)}
<1>1. 0 \in S
  <2>1. IsLazyChoice(Candidates(s, 0), {})
    BY CandidatesNone DEF IsLazyChoice
  <2> QED
    BY <2>1
<1>2. ASSUME NEW m \in Nat, Q(m), m + 1 <= Len(s)
      PROVE  \E C : IsLazyChoice(Candidates(s, m + 1), C)
  <2> DEFINE K == Candidates(s, m)
             k == CandidateAt(s, m + 1)
  <2>1. PICK C : IsLazyChoice(K, C)
    BY <1>2
  <2>2. m \in 0..Len(s) /\ m + 1 \in 1..Len(s)
    BY <1>2
  <2>3. K \in SUBSET Placed /\ \A c \in K : c[2] \in 1..m
    BY <2>2, CandidatesArePlaced
  <2>4. CASE EndingAt(s, m + 1) = {}
    BY <2>1, <2>4, CandidatesNext
  <2>5. CASE EndingAt(s, m + 1) # {}
    <3>1. k \in Placed /\ k[2] = m + 1
      BY <2>2, <2>5, CandidateFacts
    <3>2. Candidates(s, m + 1) = K \cup {k}
      BY <2>5, CandidatesNext
    <3>3. \A c \in K : c[2] < k[2]
      BY <2>3, <3>1
    <3> HIDE DEF K, k
    <3> QED
      BY <2>1, <2>3, <3>1, <3>2, <3>3, LazyNext
  <2> QED
    BY <2>4, <2>5
<1>3. Nat \subseteq S
  <2>1. \A m \in Nat : Q(m) => Q(m + 1)
    BY <1>2
  <2> HIDE DEF Q
  <2>2. \A m \in Nat : m \in S => m + 1 \in S
    BY <2>1
  <2> HIDE DEF S
  <2> QED
    BY <1>1, <2>2, Induction
<1>4. Q(n)
  <2> HIDE DEF Q
  <2> QED
    BY <1>3
<1>5. n <= Len(s)
  OBVIOUS
<1> QED
  BY <1>4, <1>5

LEMMA LazyChoiceIs ==
  ASSUME NEW s \in Seq(Alphabet), NEW n \in 0..Len(s)
  PROVE  IsLazyChoice(Candidates(s, n), LazyChoice(Candidates(s, n)))
<1>1. PICK C : IsLazyChoice(Candidates(s, n), C)
  BY LazyExists
<1>2. C \in SUBSET Candidates(s, n)
  BY <1>1 DEF IsLazyChoice
<1> QED
  BY <1>1, <1>2 DEF LazyChoice

(* The choice of either mode, position by position                         *)

LEMMA ChoiceIsPlaced ==
  ASSUME NEW mode, NEW s \in Seq(Alphabet), NEW n \in 0..Len(s)
  PROVE  /\ Choice(mode, s, n) \in SUBSET Candidates(s, n)
         /\ Choice(mode, s, n) \in SUBSET Placed
         /\ \A c \in Choice(mode, s, n) : c[2] \in 1..n
<1>1. Choice(mode, s, n) \in SUBSET Candidates(s, n)
  BY LazyChoiceIs DEF Choice, NormalChoice, IsLazyChoice
<1> QED
  BY <1>1, CandidatesArePlaced

LEMMA ChoiceNone ==
  ASSUME NEW mode, NEW s \in Seq(Alphabet)
  PROVE  Choice(mode, s, 0) = {}
<1>1. 0 \in 0..Len(s)
  OBVIOUS
<1> QED
  BY <1>1, ChoiceIsPlaced, CandidatesNone

LEMMA ChoiceSameStart ==
  ASSUME NEW mode, NEW s \in Seq(Alphabet), NEW t \in Seq(Alphabet), NEW n \in Nat,
         n <= Len(s), n <= Len(t), \A i \in 1..n : s[i] = t[i]
  PROVE  Choice(mode, s, n) = Choice(mode, t, n)
BY CandidatesSameStart DEF Choice

(* Where no pattern ends nothing changes.                                  *)
LEMMA ChoiceStays ==
  ASSUME NEW mode, NEW s, NEW n \in Nat, EndingAt(s, n + 1) = {}
  PROVE  Choice(mode, s, n + 1) = Choice(mode, s, n)
<1>1. Candidates(s, n + 1) = Candidates(s, n)
  BY CandidatesNext
<1> QED
  BY <1>1 DEF Choice

(* Those of C that begin before k                                          *)
BeginBefore(C, k) == {c \in C : Start(c) < Start(k)}

LEMMA NormalChoiceNext ==
  ASSUME NEW s \in Seq(Alphabet), NEW n \in Nat, n + 1 <= Len(s),
         EndingAt(s, n + 1) # {}, NEW k, k = CandidateAt(s, n + 1)
  PROVE  Choice("NORMAL", s, n + 1)
           = BeginBefore(Choice("NORMAL", s, n), k) \cup {k}
<1> DEFINE K == Candidates(s, n)
<1>1. n \in 0..Len(s) /\ n + 1 \in 1..Len(s)
  OBVIOUS
<1>2. K \in SUBSET Placed /\ \A c \in K : c[2] \in 1..n
  BY <1>1, CandidatesArePlaced
<1>3. k \in Placed /\ k[2] = n + 1
  BY <1>1, CandidateFacts
<1>4. Candidates(s, n + 1) = K \cup {k}
  BY CandidatesNext
<1>5. \A c \in K : c[2] < k[2]
  BY <1>2, <1>3
<1>6. /\ Choice("NORMAL", s, n + 1) = NormalChoice(K \cup {k})
      /\ Choice("NORMAL", s, n) = NormalChoice(K)
  BY <1>4 DEF Choice
<1> HIDE DEF K
<1> QED
  BY <1>2, <1>3, <1>5, <1>6, NormalNext DEF BeginBefore

LEMMA LazyChoiceNext ==
  ASSUME NEW s \in Seq(Alphabet), NEW n \in Nat, n + 1 <= Len(s),
         EndingAt(s, n + 1) # {}, NEW k, k = CandidateAt(s, n + 1)
  PROVE  Choice("LAZY", s, n + 1)
           = IF \A d \in Choice("LAZY", s, n) : d[2] <= Start(k)
             THEN Choice("LAZY", s, n) \cup {k}
             ELSE Choice("LAZY", s, n)
<1> DEFINE K == Candidates(s, n)
           C == LazyChoice(K)
           D == IF BeginsBehind(k, C) THEN C \cup {k} ELSE C
<1>1. n \in 0..Len(s) /\ n + 1 \in 0..Len(s) /\ n + 1 \in 1..Len(s)
  OBVIOUS
<1>2. K \in SUBSET Placed /\ \A c \in K : c[2] \in 1..n
  BY <1>1, CandidatesArePlaced
<1>3. k \in Placed /\ k[2] = n + 1
  BY <1>1, CandidateFacts
<1>4. Candidates(s, n + 1) = K \cup {k} /\ K \cup {k} \in SUBSET Placed
  BY <1>2, <1>3, CandidatesNext
<1>5. \A c \in K : c[2] < k[2]
  BY <1>2, <1>3
<1>6. IsLazyChoice(K, C)
  BY <1>1, LazyChoiceIs
<1>7. IsLazyChoice(K \cup {k}, LazyChoice(K \cup {k}))
  BY <1>1, <1>4, LazyChoiceIs
<1>8. Choice("LAZY", s, n) = C /\ Choice("LAZY", s, n + 1) = LazyChoice(K \cup {k})
  BY <1>4 DEF Choice
<1> HIDE DEF K, C
<1>9. IsLazyChoice(K \cup {k}, D)
  BY <1>2, <1>3, <1>5, <1>6, LazyNext
<1>10. LazyChoice(K \cup {k}) = D
  <2> HIDE DEF D
  <2> QED
    BY <1>4, <1>7, <1>9, LazyIsUnique
<1>11. C \subseteq K
  BY <1>6 DEF IsLazyChoice
<1>12. BeginsBehind(k, C) <=> \A d \in C : d[2] <= Start(k)
  BY <1>5, <1>11 DEF BeginsBehind
<1> QED
  BY <1>8, <1>10, <1>12

(* In normal mode no one chosen is a factor of another one.                *)
LEMMA NormalNoFactor ==
  ASSUME NEW s, NEW n, NEW c \in Choice("NORMAL", s, n),
         NEW d \in Choice("NORMAL", s, n), c # d
  PROVE  ~(Start(d) <= Start(c) /\ c[2] <= d[2])
BY DEF Choice, NormalChoice, IsFactor

(* What an alphabet becomes                                                *)
LEMMA PieceOutside ==
  ASSUME NEW s \in Seq(Alphabet), NEW C, NEW p \in 1..Len(s),
         BeginningAt(C, p) = {}, ~Covered(C, p)
  PROVE  Piece(s, C, p) = <<s[p]>>
<1>1. s[p] \in Alphabet
  OBVIOUS
<1> QED
  BY <1>1 DEF Piece

LEMMA PieceInside ==
  ASSUME NEW s, NEW C, NEW p, BeginningAt(C, p) = {}, Covered(C, p)
  PROVE  Piece(s, C, p) = << >>
BY DEF Piece

LEMMA PieceAtStart ==
  ASSUME NEW s, NEW C, NEW p, NEW h \in Placed,
         BeginningAt(C, p) = {h}, Covered(C, p)
  PROVE  Piece(s, C, p) = Rtext[h[1]]
<1>1. (CHOOSE c \in BeginningAt(C, p) : TRUE) = h
  OBVIOUS
<1>2. Rtext[h[1]] \in Seq(Alphabet)
  BY PlacedFacts
<1>3. Piece(s, C, p) = Rtext[h[1]] \o << >>
  BY <1>1 DEF Piece
<1> QED
  BY <1>2, <1>3

LEMMA PieceSame ==
  ASSUME NEW s, NEW t, NEW C, NEW D, NEW p, s[p] = t[p],
         BeginningAt(C, p) = BeginningAt(D, p), Covered(C, p) <=> Covered(D, p)
  PROVE  Piece(s, C, p) = Piece(t, D, p)
<1> DEFINE first(B) == IF B = {} THEN << >>
                       ELSE Rtext[(CHOOSE c \in B : TRUE)[1]]
           second(u, E) == IF Covered(E, p) THEN << >> ELSE <<u[p]>>
<1>1. /\ Piece(s, C, p) = first(BeginningAt(C, p)) \o second(s, C)
      /\ Piece(t, D, p) = first(BeginningAt(D, p)) \o second(t, D)
  BY DEF Piece
<1>2. second(s, C) = second(t, D)
  OBVIOUS
<1> HIDE DEF first, second
<1> QED
  BY <1>1, <1>2

(* Behind the end of all that is replaced the text stays as it is.         *)
LEMMA NothingBehind ==
  ASSUME NEW s \in Seq(Alphabet), NEW K \in SUBSET Placed,
         NEW j \in Nat, NEW k \in Nat, j <= k, k <= Len(s),
         \A c \in K : c[2] <= j
  PROVE  ReplacedIn(s, K, k) = ReplacedIn(s, K, j) \o SubSeq(s, j + 1, k)
<1>1. ASSUME NEW p \in (j + 1)..k
      PROVE  Piece(s, K, p) = <<s[p]>>
  <2>1. p \in 1..Len(s) /\ p \in Nat /\ j < p
    OBVIOUS
  <2>2. \A c \in K : /\ c[2] \in Nat /\ Start(c) \in Nat
                     /\ Start(c) < c[2] /\ c[2] <= j
    BY PlacedFacts
  <2>3. BeginningAt(K, p) = {} /\ ~Covered(K, p)
    BY <2>1, <2>2 DEF BeginningAt, Covered
  <2> QED
    BY <2>1, <2>3, PieceOutside
<1> QED
  BY <1>1, UnchangedPieces

(* Two choices that differ only in what begins at k or later               *)
LEMMA SameBefore ==
  ASSUME NEW s \in Seq(Alphabet), NEW C \in SUBSET Placed, NEW D \in SUBSET Placed,
         NEW k \in Nat, k <= Len(s),
         \A c \in C \cup D : Start(c) < k => (c \in C <=> c \in D)
  PROVE  ReplacedIn(s, C, k) = ReplacedIn(s, D, k)
<1>1. ASSUME NEW p \in 1..k
      PROVE  Piece(s, C, p) = Piece(s, D, p)
  <2>1. p \in Nat /\ p - 1 < k /\ p <= k
    OBVIOUS
  <2>2. \A c \in C \cup D : Start(c) \in Nat
    BY PlacedFacts
  <2>3. BeginningAt(C, p) = BeginningAt(D, p)
    BY <2>1, <2>2 DEF BeginningAt
  <2>4. Covered(C, p) <=> Covered(D, p)
    <3>1. \A c \in C \cup D : Start(c) < p => Start(c) < k
      BY <2>1, <2>2
    <3> QED
      BY <3>1 DEF Covered
  <2> QED
    BY <2>3, <2>4, PieceSame
<1> QED
  BY <1>1, SamePieces

(* In normal mode, if h begins before the place j where the last of K ends *)
(* then b, which ends there, covers what lies between; no one of K begins  *)
(* there, as it would be a factor of b.                                    *)
LEMMA OverlapIsEmpty ==
  ASSUME NEW s \in Seq(Alphabet), NEW n \in 0..Len(s),
         NEW K \in SUBSET Choice("NORMAL", s, n), NEW b \in K,
         NEW h \in Choice("NORMAL", s, n), b[2] < h[2], Start(h) < b[2],
         \A c \in K : c[2] <= b[2]
  PROVE  ReplacedIn(s, K, b[2]) = ReplacedIn(s, K, Start(h))
<1> DEFINE C == Choice("NORMAL", s, n)
<1>1. C \in SUBSET Placed /\ \A c \in C : c[2] \in 1..n
  BY ChoiceIsPlaced
<1>2. \A c \in C : c[2] \in Nat /\ Start(c) \in Nat /\ Start(c) < c[2]
  BY <1>1, PlacedFacts
<1>3. b \in C /\ h \in C /\ b # h /\ K \in SUBSET Placed
  BY <1>1, <1>2
<1>4. Start(b) < Start(h)
  BY <1>2, <1>3, NormalNoFactor
<1>5. ASSUME NEW p \in (Start(h) + 1)..b[2]
      PROVE  Piece(s, K, p) = << >>
  <2>1. p \in Nat /\ Start(h) <= p - 1 /\ p <= b[2]
    BY <1>2, <1>3
  <2>2. Covered(K, p)
    BY <1>2, <1>3, <1>4, <2>1 DEF Covered
  <2>3. ASSUME NEW c \in K, Start(c) = p - 1
        PROVE  FALSE
    <3>1. c \in C /\ c[2] <= b[2]
      OBVIOUS
    <3>2. Start(b) <= Start(c) /\ c # b
      BY <1>2, <1>3, <1>4, <2>1, <2>3, <3>1
    <3> QED
      BY <1>3, <3>1, <3>2, NormalNoFactor
  <2>4. BeginningAt(K, p) = {}
    BY <2>3 DEF BeginningAt
  <2> QED
    BY <2>2, <2>4, PieceInside
<1>6. b[2] \in Nat /\ Start(h) \in Nat /\ Start(h) <= b[2] /\ b[2] <= Len(s)
  BY <1>1, <1>2, <1>3
<1> QED
  BY <1>3, <1>5, <1>6, EmptyPieces

(* One more is replaced, behind those of K, which end at j or before.      *)
LEMMA ReplaceOneMore ==
  ASSUME NEW mode \in Mode, NEW s \in Seq(Alphabet), NEW n \in 0..Len(s),
         NEW K \in SUBSET Choice(mode, s, n), NEW h \in Choice(mode, s, n),
         NEW j \in Nat, \A c \in K : c[2] <= j, j < h[2],
         \/ j <= Start(h)
         \/ mode = "NORMAL" /\ \E b \in K : b[2] = j
  PROVE  ReplacedIn(s, K \cup {h}, h[2])
           = (ReplacedIn(s, K, j)
                \o (IF Start(h) < j THEN << >> ELSE SubSeq(s, j + 1, Start(h))))
               \o Rtext[h[1]]
<1> DEFINE C == Choice(mode, s, n)
           D == K \cup {h}
           a == Start(h)
           e == h[2]
           gap == IF a < j THEN << >> ELSE SubSeq(s, j + 1, a)
<1>1. C \in SUBSET Placed /\ \A c \in C : c[2] \in 1..n
  BY ChoiceIsPlaced
<1>2. \A c \in C : c[2] \in Nat /\ Start(c) \in Nat /\ Start(c) < c[2]
  BY <1>1, PlacedFacts
<1>3. /\ a \in Nat /\ e \in Nat /\ a < e /\ e <= Len(s) /\ a < Len(s)
      /\ a + 1 \in Nat /\ a + 1 <= e /\ j <= Len(s) /\ a \in 0..Len(s) /\ j \in 0..Len(s)
  BY <1>1, <1>2
<1>4. K \in SUBSET Placed /\ D \in SUBSET Placed /\ h \in Placed
  BY <1>1
<1>5. ReplacedIn(s, D, a) = ReplacedIn(s, K, a)
  <2>1. \A c \in D \cup K : Start(c) < a => (c \in D <=> c \in K)
    BY <1>3
  <2>2. a <= Len(s)
    BY <1>3
  <2> HIDE DEF D, a
  <2> QED
    BY <1>3, <1>4, <2>1, <2>2, SameBefore
<1>6. ReplacedIn(s, K, a) = ReplacedIn(s, K, j) \o gap
  <2>1. CASE j <= a
    <3>1. gap = SubSeq(s, j + 1, a)
      BY <1>3, <2>1
    <3>2. a <= Len(s)
      BY <1>3
    <3> HIDE DEF a, gap
    <3> QED
      BY <1>3, <1>4, <2>1, <3>1, <3>2, NothingBehind
  <2>2. CASE ~(j <= a)
    <3>1. gap = << >> /\ a < j
      BY <1>3, <2>2
    <3>2. mode = "NORMAL"
      BY <2>2
    <3>3. PICK b \in K : b[2] = j
      BY <2>2
    <3>4. ReplacedIn(s, K, j) = ReplacedIn(s, K, a)
      BY <3>1, <3>2, <3>3, OverlapIsEmpty
    <3>5. ReplacedIn(s, K, j) \in Seq(Alphabet)
      BY <1>3, <1>4, ReplacedType
    <3> HIDE DEF gap
    <3> QED
      BY <3>1, <3>4, <3>5
  <2> QED
    BY <2>1, <2>2
<1>7. \A c \in K : c[2] \in Nat /\ Start(c) \in Nat /\ Start(c) < c[2] /\ c[2] <= j /\ c[2] < e
  BY <1>2, <1>3
<1>8. ASSUME NEW c \in K
      PROVE  ~(a <= Start(c))
  <2>1. CASE j <= a
    BY <1>3, <1>7, <2>1
  <2>2. CASE mode = "NORMAL"
    <3>1. c # h /\ c \in C
      BY <1>3, <1>7
    <3>2. ~(Start(h) <= Start(c) /\ c[2] <= h[2])
      BY <2>2, <3>1, NormalNoFactor
    <3> QED
      BY <1>3, <1>7, <3>2
  <2> QED
    BY <2>1, <2>2
<1>9. Piece(s, D, a + 1) = Rtext[h[1]]
  <2>1. BeginningAt(D, a + 1) = {h}
    BY <1>3, <1>7, <1>8 DEF BeginningAt
  <2>2. Covered(D, a + 1)
    BY <1>3 DEF Covered
  <2> HIDE DEF D, a
  <2> QED
    BY <1>4, <2>1, <2>2, PieceAtStart
<1>10. ASSUME NEW p \in ((a + 1) + 1)..e
       PROVE  Piece(s, D, p) = << >>
  <2>1. p \in Nat /\ a < p - 1 /\ p <= e
    BY <1>3
  <2>2. Covered(D, p)
    BY <1>3, <2>1 DEF Covered
  <2>3. BeginningAt(D, p) = {}
    BY <1>3, <1>7, <1>8, <2>1 DEF BeginningAt
  <2> HIDE DEF D
  <2> QED
    BY <2>2, <2>3, PieceInside
<1>11. ReplacedIn(s, D, e) = ReplacedIn(s, D, a + 1)
  <2> HIDE DEF D, a, e
  <2> QED
    BY <1>3, <1>4, <1>10, EmptyPieces
<1>12. ReplacedIn(s, D, a + 1) = ReplacedIn(s, D, a) \o Piece(s, D, a + 1)
  <2>1. a + 1 <= Len(s)
    BY <1>3
  <2> HIDE DEF D, a
  <2> QED
    BY <1>3, <1>4, <2>1, ReplacedNext
<1> QED
  BY <1>5, <1>6, <1>9, <1>11, <1>12

(***************************************************************************)
(* The second layer of the inductive invariant: how what was put out, the  *)
(* nominees and the place in the trie relate to the stream.                *)
(***************************************************************************)

(* How much of the stream was read, and of how much of it all that is to   *)
(* be replaced was booked                                                  *)
Done == base_position + position_r

Booked == IF pc = "book" THEN Done - 1 ELSE Done

(* The node for what was read                                              *)
Place == IF pc \in {"ready", "flush"} THEN last_node ELSE current

(* What should be replaced of that, which of it ends before the cursor,    *)
(* and the place from where on the stream may begin a pattern              *)
Chosen == Choice(replace_mode, input, Booked)

Consumed == {c \in Chosen : c[2] <= curser}

Undecided == Done - Len(Place)

(* Nothing is left of a stream that has ended.                             *)
EndedInv == ended => last_node = Root /\ buffer = << >> /\ curser = 0

(* The node is the longest one that ends where the stream was read to, but *)
(* for those that the next alphabet does not extend.                       *)
PlaceInv ==
  LongestBefore(Nodes, input, Done, Place,
                pc = "scan" /\ position_r < Len(text), input[Done + 1])

(* The nominees are what should be replaced and was not yet: all of it,    *)
(* but for what the nominee that is being booked has swallowed.            *)
ChosenInv ==
  /\ \A i \in 1..Len(noms) : noms[i] \in Chosen
  /\ \A c \in Chosen :
       \/ c[2] <= curser
       \/ \E i \in 1..Len(noms) : noms[i] = c
       \/ pc = "book" /\ replace_mode = "NORMAL" /\ Start(nom) <= Start(c)
  /\ pc = "book" => EndingAt(input, Done) # {} /\ nom = CandidateAt(input, Done)

(* What was replaced began before the place from where on patterns may     *)
(* still be found, so none of them swallows it.  The cursor is at the end  *)
(* of one that was replaced, or before all that will be.                   *)
CursorInv ==
  /\ pc # "flush" => \A c \in Consumed : Start(c) < Undecided
  /\ \/ \E c \in Consumed : c[2] = curser
     \/ /\ curser <= Undecided
        /\ \A i \in 1..Len(noms) : curser <= Start(noms[i])

(* The output is the stream up to the cursor, with all that ends there or  *)
(* before replaced.                                                        *)
OutputInv == ~ended => output \o buffer = ReplacedIn(input, Consumed, curser)

StreamInv ==
  /\ EndedInv /\ PlaceInv /\ ChosenInv /\ CursorInv /\ OutputInv
  /\ StreamIsReplaced

(* Positions in the stream                                                 *)

LEMMA StreamPosition ==
  ASSUME ReplaceInv
  PROVE  /\ input \in Seq(Alphabet) /\ text \in Seq(Alphabet)
         /\ base_position \in Nat /\ position_r \in Nat /\ curser \in Nat
         /\ position_r <= Len(text) /\ Len(text) \in Nat
         /\ Done = base_position + position_r /\ Done \in 0..Len(input)
         /\ curser <= Done /\ curser \in 0..Len(input)
         /\ Booked \in 0..Len(input)
         /\ ended => Done = 0 /\ Booked = 0 /\ noms = << >>
         /\ ~ended => base_position + Len(text) = Len(input)
<1>1. /\ input \in Seq(Alphabet) /\ text \in Seq(Alphabet)
      /\ base_position \in Nat /\ position_r \in Nat /\ curser \in Nat
      /\ position_r <= Len(text) /\ Len(text) \in Nat
      /\ curser <= base_position + position_r
  BY DEF ReplaceInv, ReplaceTypeOK, NomineeInv
<1>2. ended => pc = "ready" /\ base_position = 0 /\ position_r = 0 /\ noms = << >>
  BY DEF ReplaceInv, CallInv
<1>3. ~ended => base_position + Len(text) = Len(input)
  BY DEF ReplaceInv, BacklogIsKept
<1>4. Done \in 0..Len(input)
  BY <1>1, <1>2, <1>3 DEF Done
<1>5. pc = "book" => curser < Done
  BY <1>1 DEF ReplaceInv, NomineeInv, Done
<1>6. curser <= Done /\ curser \in 0..Len(input)
  BY <1>1, <1>4 DEF Done
<1>7. Booked \in 0..Len(input)
  BY <1>1, <1>4, <1>5 DEF Booked
<1>8. ended => Done = 0 /\ Booked = 0
  BY <1>2 DEF Done, Booked
<1> QED
  BY <1>1, <1>2, <1>3, <1>4, <1>6, <1>7, <1>8 DEF Done

(* The chunk is the end of the stream.                                     *)
LEMMA ChunkIsStream ==
  ASSUME ReplaceInv, ~ended, NEW i \in 1..Len(text)
  PROVE  input[base_position + i] = text[i]
<1> DEFINE u == backlog \o text
<1>1. /\ backlog \in Seq(Alphabet) /\ text \in Seq(Alphabet) /\ input \in Seq(Alphabet)
      /\ base_position \in Nat /\ base_position + Len(text) = Len(input)
      /\ IsTail(u, input)
  BY DEF ReplaceInv, ReplaceTypeOK, BacklogIsKept
<1>2. /\ Len(backlog) \in Nat /\ Len(text) \in Nat /\ Len(input) \in Nat
      /\ Len(u) = Len(backlog) + Len(text) /\ u[Len(backlog) + i] = text[i]
      /\ Len(backlog) + i \in 1..Len(u)
  BY <1>1
<1> HIDE DEF u
<1>3. u[Len(backlog) + i] = input[Len(input) - Len(u) + (Len(backlog) + i)]
  BY <1>1, <1>2 DEF IsTail, EndsAt
<1>4. Len(input) - Len(u) + (Len(backlog) + i) = base_position + i
  BY <1>1, <1>2
<1> QED
  BY <1>2, <1>3, <1>4

LEMMA DropStretch ==
  ASSUME NEW A, NEW s \in Seq(A), NEW i \in Nat, NEW j \in Nat, NEW k \in Nat,
         i <= j, j <= k, k <= Len(s)
  PROVE  SubSeq(SubSeq(s, i + 1, Len(s)), (j - i) + 1, k - i) = SubSeq(s, j + 1, k)
<1> DEFINE u == SubSeq(s, i + 1, Len(s))
           v == SubSeq(u, (j - i) + 1, k - i)
           w == SubSeq(s, j + 1, k)
<1>1. u \in Seq(A) /\ Len(u) = Len(s) - i /\ \A x \in 1..(Len(s) - i) : u[x] = s[i + x]
  OBVIOUS
<1> HIDE DEF u
<1>2. /\ v \in Seq(A) /\ Len(v) = k - j
      /\ \A x \in 1..(k - j) : v[x] = u[(j - i) + x]
  BY <1>1
<1> HIDE DEF v
<1>3. w \in Seq(A) /\ Len(w) = k - j /\ \A x \in 1..(k - j) : w[x] = s[j + x]
  OBVIOUS
<1> HIDE DEF w
<1>4. ASSUME NEW x \in 1..(k - j)
      PROVE  v[x] = w[x]
  <2>1. (j - i) + x \in 1..(Len(s) - i) /\ i + ((j - i) + x) = j + x
    OBVIOUS
  <2> QED
    BY <1>1, <1>2, <1>3, <2>1
<1>5. v = w
  BY <1>2, <1>3, <1>4
<1> QED
  BY <1>5 DEF u, v, w

(* mf_repdata_appendfactor appends what stands in the stream.              *)
LEMMA FactorIsStream ==
  ASSUME ReplaceInv, ~ended, NEW from \in Nat, NEW to \in Nat,
         curser <= from, from <= to, to <= Len(input)
  PROVE  Factor(from, to) = SubSeq(input, from + 1, to)
<1> DEFINE u == backlog \o text
<1>1. /\ backlog \in Seq(Alphabet) /\ text \in Seq(Alphabet) /\ input \in Seq(Alphabet)
      /\ base_position \in Nat /\ base_position + Len(text) = Len(input)
      /\ IsTail(u, input) /\ BacklogBase <= curser /\ curser \in Nat
  BY DEF ReplaceInv, ReplaceTypeOK, BacklogIsKept
<1>2. /\ Len(backlog) \in Nat /\ Len(text) \in Nat /\ Len(input) \in Nat
      /\ u \in Seq(Alphabet) /\ Len(u) = Len(backlog) + Len(text)
      /\ BacklogBase = base_position - Len(backlog)
  BY <1>1 DEF BacklogBase
<1> HIDE DEF u
<1>3. Len(input) - Len(u) = BacklogBase
  BY <1>1, <1>2
<1>4. BacklogBase \in 0..Len(input) /\ u = SubSeq(input, BacklogBase + 1, Len(input))
  BY <1>1, <1>2, <1>3, TailIsDrop
<1>5. BacklogBase \in Nat /\ BacklogBase <= from
  BY <1>1, <1>4
<1> HIDE DEF BacklogBase
<1>6. SubSeq(u, (from - BacklogBase) + 1, to - BacklogBase) = SubSeq(input, from + 1, to)
  BY <1>1, <1>4, <1>5, DropStretch
<1>7. ~(to < from \/ from < BacklogBase)
  BY <1>5
<1> QED
  BY <1>6, <1>7 DEF Factor, u

LEMMA ConcatAssociates ==
  ASSUME NEW A, NEW r \in Seq(A), NEW s \in Seq(A), NEW t \in Seq(A)
  PROVE  (r \o s) \o t = r \o (s \o t)
OBVIOUS

LEMMA TwoParts ==
  ASSUME NEW A, NEW s \in Seq(A), NEW n \in 0..Len(s)
  PROVE  SubSeq(s, 1, n) \o SubSeq(s, n + 1, Len(s)) = s
<1> DEFINE u == SubSeq(s, 1, n)
           v == SubSeq(s, n + 1, Len(s))
           w == u \o v
<1>1. u \in Seq(A) /\ Len(u) = n /\ \A i \in 1..n : u[i] = s[i]
  BY StartOfWord
<1>2. v \in Seq(A) /\ Len(v) = Len(s) - n /\ \A i \in 1..(Len(s) - n) : v[i] = s[n + i]
  OBVIOUS
<1> HIDE DEF u, v
<1>3. /\ w \in Seq(A) /\ Len(w) = Len(s)
      /\ \A i \in 1..n : w[i] = u[i]
      /\ \A i \in 1..(Len(s) - n) : w[n + i] = v[i]
  BY <1>1, <1>2
<1> HIDE DEF w
<1>4. ASSUME NEW i \in 1..Len(s)
      PROVE  w[i] = s[i]
  <2>1. CASE i <= n
    BY <1>1, <1>3, <2>1
  <2>2. CASE ~(i <= n)
    <3>1. i - n \in 1..(Len(s) - n) /\ n + (i - n) = i
      BY <2>2
    <3>2. w[n + (i - n)] = v[i - n] /\ v[i - n] = s[n + (i - n)]
      BY <1>2, <1>3, <3>1
    <3> QED
      BY <3>1, <3>2
  <2> QED
    BY <2>1, <2>2
<1>5. w = s
  BY <1>3, <1>4
<1> QED
  BY <1>5 DEF u, v, w

(* What was put out and what waits in the buffer                           *)
LEMMA AppendTextIs ==
  ASSUME buffer \in Seq(Alphabet), output \in Seq(Alphabet),
         NEW t \in Seq(Alphabet), AppendText(t)
  PROVE  output' \o buffer' = (output \o buffer) \o t
<1> DEFINE all == buffer \o t
           n == Flushed(Len(all))
<1>1. all \in Seq(Alphabet) /\ Len(all) \in Nat
  OBVIOUS
<1>2. output' = output \o SubSeq(all, 1, n) /\ buffer' = SubSeq(all, n + 1, Len(all))
  BY DEF AppendText
<1>3. (output \o buffer) \o t = output \o all
  OBVIOUS
<1> HIDE DEF all
<1>4. n \in 0..Len(all)
  BY <1>1, FlushedFits
<1> HIDE DEF n
<1> DEFINE u == SubSeq(all, 1, n)
           v == SubSeq(all, n + 1, Len(all))
<1>5. u \o v = all
  BY <1>1, <1>4, TwoParts
<1>6. u \in Seq(Alphabet) /\ v \in Seq(Alphabet)
  BY <1>1, <1>4
<1>7. output' = output \o u /\ buffer' = v
  BY <1>2
<1> HIDE DEF u, v
<1>8. (output \o u) \o v = output \o (u \o v)
  BY <1>6, ConcatAssociates
<1> QED
  BY <1>3, <1>5, <1>7, <1>8

LEMMA NodesHaveBeginnings ==
  /\ Pattern \subseteq Nodes
  /\ \A m \in Nodes : Len(m) # 0 => SubSeq(m, 1, Len(m) - 1) \in Nodes
<1>1. ASSUME NEW w \in Pattern
      PROVE  w \in Nodes
  <2>1. w \in Seq(Alphabet) /\ Len(w) \in 0..Len(w) /\ w = SubSeq(w, 1, Len(w))
    BY PatternsAreWords
  <2>2. w \in Prefixes(w)
    BY <2>1 DEF Prefixes
  <2> QED
    BY <2>2 DEF Nodes
<1>2. ASSUME NEW m \in Nodes, Len(m) # 0
      PROVE  SubSeq(m, 1, Len(m) - 1) \in Nodes
  <2>1. m # Root
    BY <1>2 DEF Root
  <2>2. PICK w \in Pattern : m \in Prefixes(w)
    BY <2>1 DEF Nodes
  <2>3. PICK l \in 0..Len(w) : m = SubSeq(w, 1, l)
    BY <2>2 DEF Prefixes
  <2>4. w \in Seq(Alphabet)
    BY PatternsAreWords
  <2>5. Len(m) = l /\ l - 1 \in 0..Len(w)
    BY <1>2, <2>3, <2>4
  <2>6. SubSeq(m, 1, l - 1) = SubSeq(w, 1, l - 1)
    <3>1. \A s \in Seq(Alphabet) : \A k \in 1..Len(s) :
             SubSeq(SubSeq(s, 1, k), 1, k - 1) = SubSeq(s, 1, k - 1)
      OBVIOUS
    <3> QED
      BY <1>2, <2>3, <2>4, <2>5, <3>1
  <2>7. SubSeq(w, 1, l - 1) \in Prefixes(w)
    BY <2>5 DEF Prefixes
  <2> QED
    BY <2>5, <2>6, <2>7 DEF Nodes
<1> QED
  BY <1>1, <1>2

(* The longest node knows all patterns that end where it does.             *)
LEMMA ReplaceableIsEnding ==
  ASSUME NEW s \in Seq(Alphabet), NEW e \in Nat, NEW n,
         LongestEnding(Nodes, s, e, n)
  PROVE  Replaceable(n) = EndingAt(s, e)
<1>1. n \in Seq(Alphabet) /\ EndsAt(n, s, e)
  BY NodesAreWords DEF LongestEnding
<1>2. ASSUME NEW w \in DOMAIN Rtext
      PROVE  IsTail(w, n) <=> EndsAt(w, s, e)
  <2>1. w \in Nodes /\ w \in Seq(Alphabet)
    BY PatternsAreWords, NodesHaveBeginnings
  <2>2. EndsAt(w, s, e) => Len(w) <= Len(n)
    BY <2>1 DEF LongestEnding
  <2> QED
    BY <1>1, <2>1, <2>2, EndsAtTail, EndsAtOrdered
<1> QED
  BY <1>2 DEF Replaceable, EndingAt

(* What is chosen, and the place in the trie                               *)
LEMMA ChosenFacts ==
  ASSUME ReplaceInv
  PROVE  /\ Chosen \in SUBSET Placed /\ Consumed \in SUBSET Chosen
         /\ \A c \in Chosen : /\ c[2] \in Nat /\ c[2] <= Booked
                              /\ Start(c) \in Nat /\ Start(c) < c[2]
<1>1. input \in Seq(Alphabet) /\ Booked \in 0..Len(input)
  BY StreamPosition
<1>2. Chosen \in SUBSET Placed /\ \A c \in Chosen : c[2] \in 1..Booked
  BY <1>1, ChoiceIsPlaced DEF Chosen
<1>3. Consumed \in SUBSET Chosen
  BY DEF Consumed
<1> HIDE DEF Chosen, Consumed
<1>4. \A c \in Chosen : c[2] \in Nat /\ Start(c) \in Nat /\ Start(c) < c[2]
  BY <1>2, PlacedFacts
<1> QED
  BY <1>1, <1>2, <1>3, <1>4

LEMMA PlaceFacts ==
  ASSUME ReplaceInv, PlaceInv
  PROVE  /\ Place \in Nodes /\ Place \in Seq(Alphabet)
         /\ EndsAt(Place, input, Done)
         /\ Len(Place) \in Nat /\ Len(Place) <= Done /\ Undecided \in Nat
         /\ Undecided = Done - Len(Place)
<1>1. Place \in Nodes /\ EndsAt(Place, input, Done)
  BY DEF PlaceInv, LongestBefore
<1>2. Place \in Seq(Alphabet) /\ Done \in Nat
  BY <1>1, NodesAreWords, StreamPosition
<1>3. Len(Place) <= Done
  BY <1>1 DEF EndsAt
<1> HIDE DEF Place, Done
<1> QED
  BY <1>1, <1>2, <1>3 DEF Undecided

(* Where no alphabet waits the node is the longest one.                    *)
LEMMA PlaceIsLongest ==
  ASSUME ReplaceInv, PlaceInv, ~(pc = "scan" /\ position_r < Len(text))
  PROVE  LongestEnding(Nodes, input, Done, Place)
<1>1. Place \in Nodes /\ EndsAt(Place, input, Done) /\ Len(Place) \in Nat
  BY PlaceFacts
<1>2. \A m \in Nodes : EndsAt(m, input, Done) => ~(Len(m) > Len(Place))
  BY DEF PlaceInv, LongestBefore
<1>3. \A m \in Nodes : Len(m) \in Nat
  BY NodesAreWords
<1> HIDE DEF Place, Done
<1> QED
  BY <1>1, <1>2, <1>3 DEF LongestEnding

(* The alphabet that is looked at                                          *)
LEMMA NextAlphabet ==
  ASSUME ReplaceInv, pc = "scan", position_r < Len(text)
  PROVE  /\ ~ended /\ Done \in Nat /\ Done + 1 <= Len(input)
         /\ input[Done + 1] = text[position_r + 1]
         /\ Booked = Done /\ Place = current
<1>1. ~ended
  BY DEF ReplaceInv, CallInv
<1>0. position_r \in Nat /\ Len(text) \in Nat /\ base_position \in Nat
  BY StreamPosition
<1>2. position_r + 1 \in 1..Len(text)
  BY <1>0
<1>3. base_position + (position_r + 1) = Done + 1 /\ Done + 1 <= Len(input) /\ Done \in Nat
  BY <1>0, <1>1, <1>2, StreamPosition
<1> QED
  BY <1>1, <1>2, <1>3, ChunkIsStream DEF Booked, Place

(* What a step keeps that does not replace                                 *)

LEMMA CursorStays ==
  ASSUME CursorInv, Undecided \in Nat, Undecided' \in Nat, curser \in Nat,
         Undecided <= Undecided', curser' = curser, Consumed' = Consumed,
         \A c \in Consumed : Start(c) \in Nat,
         pc = "flush" => pc' = "flush",
         \A i \in 1..Len(noms') :
            /\ Start(noms'[i]) \in Int
            /\ \/ \E j \in 1..Len(noms) : noms'[i] = noms[j]
               \/ Undecided <= Start(noms'[i])
  PROVE  CursorInv'
<1>1. ASSUME NEW c \in Consumed, pc' # "flush"
      PROVE  Start(c) < Undecided'
  <2>1. Start(c) < Undecided
    BY <1>1 DEF CursorInv
  <2> HIDE DEF Undecided, Consumed
  <2> QED
    BY <2>1
<1>2. CASE \E c \in Consumed : c[2] = curser
  BY <1>1, <1>2 DEF CursorInv, Start
<1>3. CASE curser <= Undecided /\ \A i \in 1..Len(noms) : curser <= Start(noms[i])
  <2> HIDE DEF Undecided, Consumed
  <2>1. ASSUME NEW i \in 1..Len(noms')
        PROVE  curser <= Start(noms'[i])
    BY <1>3
  <2>2. curser <= Undecided'
    BY <1>3
  <2> QED
    BY <1>1, <2>1, <2>2 DEF CursorInv, Start
<1> QED
  BY <1>2, <1>3 DEF CursorInv

LEMMA OutputStays ==
  ASSUME OutputInv, ended' = ended, input' = input, curser' = curser,
         Consumed' = Consumed, output' \o buffer' = output \o buffer
  PROVE  OutputInv'
BY DEF OutputInv

LEMMA StreamInvInit == Init => StreamInv
<1> SUFFICES ASSUME Init
             PROVE  StreamInv
  OBVIOUS
<1>1. ReplaceInv
  BY ReplaceInvInit
<1>2. /\ ended /\ last_node = Root /\ buffer = << >> /\ curser = 0 /\ noms = << >>
      /\ pc = "ready" /\ input = << >> /\ output = << >> /\ Done = 0 /\ Booked = 0
      /\ Place = Root
  BY DEF Init, Done, Booked, Place
<1>3. << >> \in Seq(Alphabet) /\ Len(<< >>) = 0
  OBVIOUS
<1>4. Chosen = {} /\ Consumed = {}
  BY <1>2, <1>3, ChoiceNone DEF Chosen, Consumed
<1>5. PlaceInv
  <2>1. LongestEnding(Nodes, input, Done, Place)
    BY <1>2, <1>3, NodesAreWords, EmptyIsLongest DEF Root
  <2> QED
    BY <2>1, NodesAreWords, LongestIsBefore DEF PlaceInv
<1>6. ChosenInv
  BY <1>2, <1>4 DEF ChosenInv
<1>7. CursorInv
  <2>1. Undecided \in Nat
    BY <1>1, <1>5, PlaceFacts
  <2> QED
    BY <1>2, <1>4, <2>1 DEF CursorInv
<1>8. StreamIsReplaced
  <2>1. Replaced(input) = << >>
    BY <1>2, <1>3, ReplacedNone DEF Replaced
  <2> QED
    BY <1>2, <2>1 DEF StreamIsReplaced
<1> QED
  BY <1>2, <1>5, <1>6, <1>7, <1>8 DEF StreamInv, EndedInv, OutputInv

(* A new chunk leaves what was read and chosen as it was; a new stream     *)
(* begins with nothing.                                                    *)
LEMMA ReplaceStream ==
  ASSUME ReplaceInv, StreamInv, ReplaceInv',
         NEW t \in Chunk, NEW mode \in Mode, Replace(t, mode)
  PROVE  StreamInv'
<1>1. /\ pc = "ready" /\ pc' = "scan" /\ text' = t /\ current' = last_node
      /\ position_r' = 0 /\ ended' = FALSE /\ replace_mode' = mode
      /\ ended \/ mode = replace_mode
      /\ input' = (IF ended THEN t ELSE input \o t)
      /\ output' = (IF ended THEN << >> ELSE output)
      /\ UNCHANGED <<base_position, last_node, buffer, backlog, noms, curser, nom>>
  BY DEF Replace
<1>2. /\ position_r = 0 /\ Done' = Done /\ Booked = Done /\ Booked' = Done
      /\ Place' = Place
  BY <1>1 DEF ReplaceInv, CallInv, Done, Booked, Place
<1>3. /\ input \in Seq(Alphabet) /\ input' \in Seq(Alphabet) /\ t \in Seq(Alphabet)
      /\ Done \in Nat /\ curser \in Nat /\ curser <= Done /\ Done <= Len(input)
      /\ Len(input) \in Nat
      /\ ended => Done = 0
  <2>1. t \in Seq(Alphabet)
    BY ReplaceAssumption
  <2>2. input' \in Seq(Alphabet)
    BY DEF ReplaceInv, ReplaceTypeOK
  <2>3. /\ input \in Seq(Alphabet) /\ curser \in Nat /\ curser <= Done
        /\ Done \in 0..Len(input)
        /\ ended => Done = 0
    BY StreamPosition
  <2> HIDE DEF Done
  <2> QED
    BY <2>1, <2>2, <2>3
<1>4. ~ended => /\ Len(input) <= Len(input')
                /\ \A i \in 1..Len(input) : input[i] = input'[i]
  BY <1>1, <1>3, Concatenated
<1>5. Done <= Len(input') /\ \A i \in 1..Done : input[i] = input'[i]
  <2>1. CASE ended
    BY <1>3, <2>1
  <2>2. CASE ~ended
    BY <1>3, <1>4, <2>2
  <2> QED
    BY <2>1, <2>2
<1>6. Chosen' = Chosen
  <2>1. CASE ended
    BY <1>2, <1>3, <2>1, ChoiceNone DEF Chosen
  <2>2. CASE ~ended
    <3>1. mode = replace_mode
      BY <1>1, <2>2
    <3>2. Choice(mode, input, Done) = Choice(mode, input', Done)
      BY <1>3, <1>5, ChoiceSameStart
    <3> QED
      BY <1>1, <1>2, <3>1, <3>2 DEF Chosen
  <2> QED
    BY <2>1, <2>2
<1>7. Consumed' = Consumed
  BY <1>1, <1>6 DEF Consumed
<1>8. PlaceInv'
  <2>1. LongestEnding(Nodes, input, Done, Place)
    BY <1>1, PlaceIsLongest DEF StreamInv
  <2>2. LongestEnding(Nodes, input', Done, Place)
    BY <1>3, <1>5, <2>1, NodesAreWords, LongestSameStart
  <2> QED
    BY <1>2, <2>2, NodesAreWords, LongestIsBefore DEF PlaceInv
<1>9. ChosenInv'
  BY <1>1, <1>6 DEF StreamInv, ChosenInv
<1>10. CursorInv'
  BY <1>1, <1>2, <1>7 DEF StreamInv, CursorInv, Undecided, Start
<1>11. OutputInv'
  <2>1. CASE ended
    <3>1. curser' = 0 /\ output' \o buffer' = << >>
      BY <1>1, <2>1 DEF StreamInv, EndedInv
    <3> QED
      BY <3>1, ReplacedNone DEF OutputInv
  <2>2. CASE ~ended
    <3>1. output' \o buffer' = ReplacedIn(input, Consumed, curser)
      BY <1>1, <2>2 DEF StreamInv, OutputInv
    <3>2. \A p \in 1..curser : Piece(input, Consumed, p) = Piece(input', Consumed, p)
      BY <1>3, <1>5, PieceSame
    <3>3. ReplacedIn(input, Consumed, curser) = ReplacedIn(input', Consumed, curser)
      BY <1>3, <3>2, SamePieces
    <3> QED
      BY <1>1, <1>7, <3>1, <3>3 DEF OutputInv
  <2> QED
    BY <2>1, <2>2
<1> QED
  BY <1>1, <1>8, <1>9, <1>10, <1>11 DEF StreamInv, EndedInv, StreamIsReplaced

(* A step that at most reads on: nothing new is chosen yet, the nominees   *)
(* and the output stay, and what may begin a pattern does not begin        *)
(* earlier.                                                                *)
LEMMA QuietStep ==
  ASSUME ReplaceInv, StreamInv, PlaceInv', Undecided' \in Nat, ~ended,
         pc \in {"ready", "scan"},
         pc' = "book" => (EndingAt(input, Done) # {} /\ nom = CandidateAt(input, Done))',
         UNCHANGED <<noms, curser, replace_mode, input, ended>>,
         output' \o buffer' = output \o buffer,
         Chosen' = Chosen, Undecided <= Undecided'
  PROVE  StreamInv'
<1>1. Consumed' = Consumed
  BY DEF Consumed
<1>2. ChosenInv'
  BY DEF StreamInv, ChosenInv
<1>3. CursorInv'
  <2>1. CursorInv /\ Undecided \in Nat /\ curser \in Nat
    BY PlaceFacts, StreamPosition DEF StreamInv
  <2>2. \A c \in Consumed : Start(c) \in Nat
    BY ChosenFacts
  <2>3. \A i \in 1..Len(noms) : Start(noms[i]) \in Int
    BY NomineeFacts
  <2>4. \A i \in 1..Len(noms') :
          /\ Start(noms'[i]) \in Int
          /\ \/ \E j \in 1..Len(noms) : noms'[i] = noms[j]
             \/ Undecided <= Start(noms'[i])
    BY <2>3
  <2> QED
    BY <1>1, <2>1, <2>2, <2>4, CursorStays
<1>4. OutputInv'
  BY <1>1, OutputStays DEF StreamInv
<1> QED
  BY <1>2, <1>3, <1>4 DEF StreamInv, EndedInv, StreamIsReplaced

(* An edge *)
LEMMA FollowStream ==
  ASSUME ReplaceInv, StreamInv, ReplaceInv', Follow
  PROVE  StreamInv'
<1>1. /\ pc = "scan" /\ position_r < Len(text) /\ Goto \in Nodes
      /\ current' = Goto /\ position_r' = position_r + 1 /\ noms' = noms
      /\ UNCHANGED <<text, base_position, last_node, buffer, backlog, curser,
                     replace_mode, ended, input, output>>
  BY DEF Follow, Scanning, repUnchanged
<1>2. /\ ~ended /\ Done \in Nat /\ Done + 1 <= Len(input)
      /\ input[Done + 1] = text[position_r + 1]
      /\ Booked = Done /\ Place = current /\ input \in Seq(Alphabet)
  BY <1>1, NextAlphabet, StreamPosition
<1>3. \/ pc' = pc /\ Replaceable(Goto) = {}
      \/ /\ pc' = "book" /\ Replaceable(Goto) # {}
         /\ nom' = <<ToBeReplaced(Goto), base_position + position_r + 1>>
  BY DEF Follow
<1>4. /\ base_position \in Nat /\ position_r \in Nat
      /\ Done' = Done + 1 /\ base_position + position_r + 1 = Done + 1
  BY <1>1, StreamPosition DEF Done
<1>5. Place' = Goto
  BY <1>1, <1>3 DEF Place
<1>6. current \in Nodes /\ Goto = Append(current, input[Done + 1])
  BY <1>2 DEF Goto, ReplaceInv, ReplaceTypeOK
<1>7. LongestBefore(Nodes, input, Done, current, TRUE, input[Done + 1])
  BY <1>1, <1>2 DEF StreamInv, PlaceInv
<1>8. LongestEnding(Nodes, input, Done + 1, Goto)
  <2>1. Done < Len(input)
    BY <1>2
  <2>2. Append(current, input[Done + 1]) \in Nodes
    BY <1>1, <1>6
  <2>3. \A m \in Nodes : Len(m) # 0 => SubSeq(m, 1, Len(m) - 1) \in Nodes
    BY NodesHaveBeginnings
  <2> HIDE DEF Done, Goto
  <2>4. LongestEnding(Nodes, input, Done + 1, Append(current, input[Done + 1]))
    BY <1>2, <1>6, <1>7, <2>1, <2>2, <2>3, NodesAreWords, EdgeKeepsLongest
  <2> QED
    BY <1>6, <2>4
<1>9. Replaceable(Goto) = EndingAt(input, Done + 1)
  <2> HIDE DEF Done, Goto
  <2> QED
    BY <1>2, <1>8, ReplaceableIsEnding
<1>10. PlaceInv'
  <2>1. LongestBefore(Nodes, input, Done + 1, Goto, pc' = "scan" /\ position_r' < Len(text'),
                      input'[(Done + 1) + 1])
    BY <1>8, NodesAreWords, LongestIsBefore
  <2> QED
    BY <1>1, <1>4, <1>5, <2>1 DEF PlaceInv
<1>11. Undecided' = Undecided /\ Undecided' \in Nat
  <2>1. Len(Goto) = Len(current) + 1 /\ Len(current) \in Nat
    <3>1. \A s \in Seq(Alphabet), x \in Alphabet :
             Len(Append(s, x)) = Len(s) + 1 /\ Len(s) \in Nat
      OBVIOUS
    <3>2. current \in Seq(Alphabet) /\ input[Done + 1] \in Alphabet
      BY <1>2, <1>6, NodesAreWords
    <3> QED
      BY <1>6, <3>1, <3>2
  <2>2. Undecided \in Nat
    BY PlaceFacts DEF StreamInv
  <2>3. Undecided = Done - Len(current) /\ Undecided' = (Done + 1) - Len(Goto)
    BY <1>2, <1>4, <1>5 DEF Undecided
  <2> HIDE DEF Undecided, Done
  <2> QED
    BY <1>2, <2>1, <2>2, <2>3
<1>12. Chosen' = Chosen
  <2>1. CASE pc' = pc /\ Replaceable(Goto) = {}
    <3>1. Booked' = Done + 1
      BY <1>1, <1>4, <2>1 DEF Booked
    <3>2. Choice(replace_mode, input, Done + 1) = Choice(replace_mode, input, Done)
      BY <1>2, <1>9, <2>1, ChoiceStays
    <3> QED
      BY <1>1, <1>2, <3>1, <3>2 DEF Chosen
  <2>2. CASE pc' = "book"
    <3>1. Booked' = Done
      BY <1>2, <1>4, <2>2 DEF Booked
    <3> QED
      BY <1>1, <1>2, <3>1 DEF Chosen
  <2> QED
    BY <1>3, <2>1, <2>2
<1>13. pc' = "book" => (EndingAt(input, Done) # {} /\ nom = CandidateAt(input, Done))'
  <2> SUFFICES ASSUME pc' = "book"
               PROVE  (EndingAt(input, Done) # {} /\ nom = CandidateAt(input, Done))'
    OBVIOUS
  <2>1. Replaceable(Goto) # {} /\ nom' = <<ToBeReplaced(Goto), Done + 1>>
    BY <1>1, <1>3, <1>4
  <2>2. nom' = CandidateAt(input, Done + 1)
    BY <1>9, <2>1 DEF ToBeReplaced, CandidateAt
  <2> QED
    BY <1>1, <1>4, <1>9, <2>1, <2>2
<1>14. output' \o buffer' = output \o buffer /\ Undecided <= Undecided'
  BY <1>1, <1>11
<1> HIDE DEF Done, Undecided, Chosen
<1> QED
  BY <1>1, <1>2, <1>10, <1>11, <1>12, <1>13, <1>14, QuietStep

(* The failure link, or the next alphabet in the root                      *)
LEMMA FailStream ==
  ASSUME ReplaceInv, StreamInv, ReplaceInv', Fail
  PROVE  StreamInv'
<1>1. /\ pc = "scan" /\ position_r < Len(text) /\ Goto \notin Nodes
      /\ HasFailure(current) /\ current' = Failure(current)
      /\ UNCHANGED <<pc, position_r, nom, noms, text, base_position, last_node,
                     buffer, backlog, curser, replace_mode, ended, input, output>>
  BY DEF Fail, Scanning, repUnchanged
<1>2. /\ ~ended /\ Done \in Nat /\ Done + 1 <= Len(input)
      /\ input[Done + 1] = text[position_r + 1]
      /\ Booked = Done /\ Place = current /\ input \in Seq(Alphabet)
  BY <1>1, NextAlphabet, StreamPosition
<1>3. Done' = Done /\ Booked' = Booked /\ Place' = Failure(current)
  BY <1>1 DEF Done, Booked, Place
<1>4. /\ current \in Nodes /\ current \in Seq(Alphabet) /\ Failure(current) \in Nodes
      /\ Failure(current) \in Seq(Alphabet)
  BY <1>1, FailureIsNode, NodesAreWords DEF ReplaceInv, ReplaceTypeOK
<1> DEFINE f == Failure(current)
<1>5. IsTail(f, current) /\ \A m \in Nodes : IsProperTail(m, current) => Len(m) <= Len(f)
  <2> DEFINE W == {m \in Nodes : IsProperTail(m, current)}
  <2>1. W \in SUBSET Seq(Alphabet) /\ Len(current) \in Nat
    BY <1>4, NodesAreWords
  <2>2. Root \in W
    <3>1. Len(current) > 0
      BY <1>1, <1>4 DEF HasFailure, Root
    <3> QED
      BY <1>4, <3>1, NodesAreWords, TailReflexive DEF IsProperTail, Root
  <2>3. \A m \in W : Len(m) <= Len(current)
    <3>1. \A m \in W : Len(m) < Len(current) /\ Len(m) \in Nat
      BY <2>1 DEF IsProperTail
    <3> QED
      BY <2>1, <3>1
  <2>4. Longest(W) \in W /\ \A v \in W : Len(v) <= Len(Longest(W))
    <3> HIDE DEF W
    <3> QED
      BY <2>1, <2>2, <2>3, LongestIsLongest
  <2> QED
    BY <2>4 DEF Failure, IsProperTail
<1>6. Append(current, input[Done + 1]) \notin Nodes
  BY <1>1, <1>2 DEF Goto
<1>7. LongestBefore(Nodes, input, Done, current, TRUE, input[Done + 1])
  BY <1>1, <1>2 DEF StreamInv, PlaceInv
<1> HIDE DEF f
<1>8. LongestBefore(Nodes, input, Done, f, TRUE, input[Done + 1])
  <2>1. f \in Nodes
    BY <1>4 DEF f
  <2> HIDE DEF Done
  <2> QED
    BY <1>2, <1>5, <1>6, <1>7, <2>1, NodesAreWords, FailureKeepsLongest
<1>9. PlaceInv'
  <2>1. (pc = "scan" /\ position_r < Len(text))' /\ Place' = f
    BY <1>1, <1>3 DEF f
  <2> QED
    BY <1>1, <1>3, <1>8, <2>1 DEF PlaceInv
<1>10. Undecided' \in Nat /\ Undecided <= Undecided'
  <2>1. Len(f) <= Len(current) /\ Len(f) \in Nat /\ Len(current) \in Nat
    BY <1>4, <1>5 DEF IsTail, EndsAt, f
  <2>2. Undecided \in Nat
    BY PlaceFacts DEF StreamInv
  <2>3. Undecided = Done - Len(current) /\ Undecided' = Done - Len(f)
    BY <1>2, <1>3 DEF Undecided, f
  <2> HIDE DEF Undecided, Done
  <2> QED
    BY <1>2, <2>1, <2>2, <2>3
<1>11. Chosen' = Chosen /\ output' \o buffer' = output \o buffer
  BY <1>1, <1>3 DEF Chosen
<1>12. pc' # "book"
  BY <1>1
<1> HIDE DEF Done, Undecided, Chosen
<1> QED
  BY <1>1, <1>2, <1>9, <1>10, <1>11, <1>12, QuietStep

LEMMA SkipStream ==
  ASSUME ReplaceInv, StreamInv, ReplaceInv', Skip
  PROVE  StreamInv'
<1>1. /\ pc = "scan" /\ position_r < Len(text) /\ Goto \notin Nodes
      /\ current = << >> /\ position_r' = position_r + 1
      /\ UNCHANGED <<pc, current, nom, noms, text, base_position, last_node,
                     buffer, backlog, curser, replace_mode, ended, input, output>>
  BY DEF Skip, Scanning, repUnchanged, HasFailure, Root
<1>2. /\ ~ended /\ Done \in Nat /\ Done + 1 <= Len(input)
      /\ input[Done + 1] = text[position_r + 1]
      /\ Booked = Done /\ Place = current /\ input \in Seq(Alphabet)
  BY <1>1, NextAlphabet, StreamPosition
<1>3. Done' = Done + 1 /\ Booked' = Done + 1 /\ Place' = << >>
  <2>1. base_position \in Nat /\ position_r \in Nat
    BY StreamPosition
  <2> QED
    BY <1>1, <2>1 DEF Done, Booked, Place
<1>4. Append(<< >>, input[Done + 1]) \notin Nodes
  BY <1>1, <1>2 DEF Goto
<1>5. LongestBefore(Nodes, input, Done, << >>, TRUE, input[Done + 1])
  BY <1>1, <1>2 DEF StreamInv, PlaceInv
<1>6. LongestEnding(Nodes, input, Done + 1, << >>)
  <2>1. << >> \in Nodes /\ Done < Len(input)
    BY <1>2, NodesAreWords DEF Root
  <2> HIDE DEF Done
  <2> QED
    BY <1>2, <1>4, <1>5, <2>1, NodesAreWords, NodesHaveBeginnings, SkipKeepsLongest
<1>7. PlaceInv'
  <2>1. LongestBefore(Nodes, input, Done + 1, << >>,
                      pc' = "scan" /\ position_r' < Len(text'), input'[(Done + 1) + 1])
    BY <1>6, NodesAreWords, LongestIsBefore
  <2> QED
    BY <1>1, <1>3, <2>1 DEF PlaceInv
<1>8. Undecided' \in Nat /\ Undecided <= Undecided'
  <2>1. Undecided = Done - Len(<< >>) /\ Undecided' = (Done + 1) - Len(<< >>)
    BY <1>1, <1>2, <1>3 DEF Undecided
  <2>2. Len(<< >>) = 0
    OBVIOUS
  <2> HIDE DEF Undecided, Done
  <2> QED
    BY <1>2, <2>1, <2>2
<1>9. EndingAt(input, Done + 1) = {}
  <2>1. Replaceable(<< >>) = EndingAt(input, Done + 1)
    <3> HIDE DEF Done
    <3> QED
      BY <1>2, <1>6, ReplaceableIsEnding
  <2>2. Replaceable(<< >>) = {}
    BY PatternsAreWords DEF Replaceable, IsTail, EndsAt
  <2> QED
    BY <2>1, <2>2
<1>10. Chosen' = Chosen /\ output' \o buffer' = output \o buffer
  <2>1. Choice(replace_mode, input, Done + 1) = Choice(replace_mode, input, Done)
    BY <1>2, <1>9, ChoiceStays
  <2> QED
    BY <1>1, <1>2, <1>3, <2>1 DEF Chosen
<1>11. pc' # "book"
  BY <1>1
<1> HIDE DEF Done, Undecided, Chosen
<1> QED
  BY <1>1, <1>2, <1>7, <1>8, <1>10, <1>11, QuietStep

(* Steps that only go on to another part of a call, or give the call-back  *)
(* what the buffer holds                                                   *)
LEMMA GoOnStream ==
  ASSUME ReplaceInv, StreamInv, ReplaceInv', EndOfChunk \/ Flush \/ FlushKeep
  PROVE  StreamInv'
<1>1. /\ UNCHANGED <<text, base_position, last_node, backlog, noms, curser,
                     replace_mode, current, position_r, nom, ended, input>>
      /\ \/ UNCHANGED <<buffer, output>>
         \/ buffer' = << >> /\ output' = output \o buffer
      /\ \/ pc = "scan" /\ position_r = Len(text) /\ pc' = "replace"
         \/ pc = "ready" /\ ~ended /\ pc' = "flush"
         \/ pc = "ready" /\ ~ended /\ pc' = pc
  BY DEF EndOfChunk, Flush, FlushKeep, repUnchanged
<1>2. ~ended
  BY <1>1 DEF ReplaceInv, CallInv
<1>3. Done' = Done /\ Booked' = Booked /\ Place' = Place
  BY <1>1 DEF Done, Booked, Place
<1>4. Undecided' = Undecided /\ Chosen' = Chosen /\ Undecided \in Nat
      /\ Undecided' \in Nat /\ Undecided <= Undecided'
  <2>1. Undecided' = Undecided /\ Chosen' = Chosen
    BY <1>1, <1>3 DEF Undecided, Chosen
  <2>2. Undecided \in Nat
    BY PlaceFacts DEF StreamInv
  <2> QED
    BY <2>1, <2>2
<1>5. PlaceInv'
  <2>1. ~(pc = "scan" /\ position_r < Len(text))
    <3>1. position_r \in Nat
      BY StreamPosition
    <3> QED
      BY <1>1, <3>1
  <2>2. LongestEnding(Nodes, input, Done, Place)
    BY <2>1, PlaceIsLongest DEF StreamInv
  <2>3. LongestBefore(Nodes, input, Done, Place,
                      pc' = "scan" /\ position_r' < Len(text'), input'[Done + 1])
    BY <2>2, NodesAreWords, LongestIsBefore
  <2> QED
    BY <1>1, <1>3, <2>3 DEF PlaceInv
<1>6. output' \o buffer' = output \o buffer
  <2>1. output \o buffer \in Seq(Alphabet)
    BY DEF ReplaceInv, ReplaceTypeOK
  <2>2. (output \o buffer) \o << >> = output \o buffer
    BY <2>1
  <2> QED
    BY <1>1, <2>2
<1>7. pc' # "book" /\ pc \in {"ready", "scan"}
  BY <1>1
<1> HIDE DEF Done, Undecided, Chosen
<1> QED
  BY <1>1, <1>2, <1>4, <1>5, <1>6, <1>7, QuietStep

(* The nominee that is taken back is a factor of the one being booked.     *)
LEMMA TakeBackStream ==
  ASSUME ReplaceInv, StreamInv, ReplaceInv', TakeBack
  PROVE  StreamInv'
<1>1. /\ pc = "book" /\ replace_mode = "NORMAL" /\ noms # << >>
      /\ Start(nom) <= Start(Last(noms)) /\ noms' = SubSeq(noms, 1, Len(noms) - 1)
      /\ UNCHANGED <<pc, current, position_r, nom, text, base_position,
                     last_node, buffer, backlog, curser, replace_mode, ended,
                     input, output>>
  BY DEF TakeBack, Swollen, repUnchanged, Front
<1>2. noms \in Seq(Pattern \X Nat) /\ Len(noms) \in Nat /\ Len(noms) > 0
      /\ Last(noms) = noms[Len(noms)]
  BY <1>1 DEF ReplaceInv, ReplaceTypeOK, Last
<1>3. /\ Len(noms') = Len(noms) - 1
      /\ \A i \in 1..Len(noms') : noms'[i] = noms[i] /\ i \in 1..Len(noms)
  <2>1. Len(noms) - 1 \in 0..Len(noms)
    BY <1>2
  <2>2. /\ Len(noms') = Len(noms) - 1
        /\ \A i \in 1..(Len(noms) - 1) : noms'[i] = noms[i]
    BY <1>1, <1>2, <2>1, StartOfWord
  <2> QED
    BY <1>2, <2>2
<1>4. Done' = Done /\ Booked' = Booked /\ Place' = Place
  BY <1>1 DEF Done, Booked, Place
<1>5. Undecided' = Undecided /\ Chosen' = Chosen /\ Consumed' = Consumed
  BY <1>1, <1>4 DEF Undecided, Chosen, Consumed
<1>6. PlaceInv'
  BY <1>1, <1>4 DEF StreamInv, PlaceInv
<1>7. ChosenInv'
  <2>1. \A i \in 1..Len(noms') : noms'[i] \in Chosen
    BY <1>3 DEF StreamInv, ChosenInv
  <2>2. ASSUME NEW c \in Chosen
        PROVE  \/ c[2] <= curser
               \/ \E i \in 1..Len(noms') : noms'[i] = c
               \/ Start(nom) <= Start(c)
    <3>1. \/ c[2] <= curser
          \/ \E i \in 1..Len(noms) : noms[i] = c
          \/ Start(nom) <= Start(c)
      BY DEF StreamInv, ChosenInv
    <3>2. ASSUME NEW i \in 1..Len(noms), noms[i] = c
          PROVE  (\E j \in 1..Len(noms') : noms'[j] = c) \/ Start(nom) <= Start(c)
      <4>1. i = Len(noms) \/ i \in 1..Len(noms')
        BY <1>2, <1>3
      <4> QED
        BY <1>1, <1>2, <1>3, <3>2, <4>1
    <3> QED
      BY <3>1, <3>2
  <2> HIDE DEF Chosen
  <2> QED
    BY <1>1, <1>4, <1>5, <2>1, <2>2 DEF StreamInv, ChosenInv, Start
<1>8. CursorInv'
  <2>1. CursorInv /\ Undecided \in Nat /\ curser \in Nat
    BY PlaceFacts, StreamPosition DEF StreamInv
  <2>2. \A c \in Consumed : Start(c) \in Nat
    BY ChosenFacts
  <2>3. \A i \in 1..Len(noms) : Start(noms[i]) \in Int
    BY NomineeFacts
  <2>4. \A i \in 1..Len(noms') :
          /\ Start(noms'[i]) \in Int
          /\ \/ \E j \in 1..Len(noms) : noms'[i] = noms[j]
             \/ Undecided <= Start(noms'[i])
    BY <1>3, <2>3
  <2>5. Undecided' \in Nat /\ Undecided <= Undecided' /\ pc = pc' /\ curser' = curser
    BY <1>1, <1>5, <2>1
  <2> HIDE DEF Undecided, Consumed, Chosen
  <2> QED
    BY <1>5, <2>1, <2>2, <2>4, <2>5, CursorStays
<1>9. OutputInv'
  BY <1>1, <1>5, OutputStays DEF StreamInv
<1> QED
  BY <1>1, <1>6, <1>7, <1>8, <1>9 DEF StreamInv, EndedInv, StreamIsReplaced, ReplaceInv, CallInv

(* The nominee that is being booked is the candidate at the end of what    *)
(* was read, and begins where a pattern may begin.                         *)
LEMMA BookingFacts ==
  ASSUME ReplaceInv, StreamInv, pc = "book"
  PROVE  /\ ~ended /\ Done \in Nat /\ Done - 1 \in Nat /\ (Done - 1) + 1 = Done
         /\ Done <= Len(input) /\ Booked = Done - 1 /\ curser < Done
         /\ EndingAt(input, Done) # {} /\ nom = CandidateAt(input, Done)
         /\ nom \in Placed /\ nom[2] = Done
         /\ Start(nom) \in Nat /\ Undecided <= Start(nom)
         /\ \A c \in Chosen : c[2] < Done
         /\ \A i \in 1..Len(noms) : noms[i][2] < Done
<1>1. /\ ~ended /\ curser < Done /\ \A i \in 1..Len(noms) : noms[i][2] < Done
  BY DEF ReplaceInv, CallInv, NomineeInv, Done
<1>2. /\ Done \in 0..Len(input) /\ curser \in Nat /\ input \in Seq(Alphabet)
      /\ Len(input) \in Nat
  BY StreamPosition
<1>3. Booked = Done - 1
  BY DEF Booked
<1>4. EndingAt(input, Done) # {} /\ nom = CandidateAt(input, Done)
  BY DEF StreamInv, ChosenInv
<1>5. LongestEnding(Nodes, input, Done, Place)
  BY PlaceIsLongest DEF StreamInv
<1>6. /\ Len(Place) \in Nat /\ Undecided = Done - Len(Place)
  BY PlaceFacts DEF StreamInv
<1>7. \A c \in Chosen : c[2] \in Nat /\ c[2] <= Booked
  BY ChosenFacts
<1> HIDE DEF Done, Booked, Chosen, Place, Undecided
<1>8. Done \in 1..Len(input) /\ Done - 1 \in Nat
  BY <1>1, <1>2
<1>9. nom \in Placed /\ nom[2] = Done /\ nom[1] \in EndingAt(input, Done)
  BY <1>2, <1>4, <1>8, CandidateFacts
<1>10. Len(nom[1]) <= Len(Place) /\ Len(nom[1]) \in Nat
  <2>1. nom[1] \in Nodes /\ nom[1] \in Seq(Alphabet) /\ EndsAt(nom[1], input, Done)
    BY <1>9, PatternsAreWords, NodesHaveBeginnings DEF EndingAt
  <2> QED
    BY <1>5, <2>1 DEF LongestEnding
<1>11. Start(nom) \in Nat /\ Undecided <= Start(nom)
  <2>1. Start(nom) \in Nat
    BY <1>9, PlacedFacts
  <2> QED
    BY <1>6, <1>8, <1>9, <1>10, <2>1 DEF Start
<1> QED
  BY <1>1, <1>2, <1>3, <1>4, <1>7, <1>8, <1>9, <1>11

(* Once it was booked nothing but what is chosen is different.             *)
LEMMA BookedAway ==
  ASSUME ReplaceInv, StreamInv, pc = "book", pc' = "scan",
         UNCHANGED <<text, current, position_r, base_position, input>>
  PROVE  /\ PlaceInv' /\ Done' = Done /\ Booked' = Done
         /\ Undecided' = Undecided /\ Undecided \in Nat
<1>1. Done' = Done /\ Booked' = Done /\ Place' = Place
  BY DEF Done, Booked, Place
<1>2. Undecided' = Undecided
  BY <1>1 DEF Undecided
<1>3. Undecided \in Nat
  BY PlaceFacts DEF StreamInv
<1>4. LongestEnding(Nodes, input, Done, Place)
  BY PlaceIsLongest DEF StreamInv
<1>5. LongestBefore(Nodes, input, Done, Place,
                    pc' = "scan" /\ position_r' < Len(text'), input'[Done + 1])
  BY <1>4, NodesAreWords, LongestIsBefore
<1> QED
  BY <1>1, <1>2, <1>3, <1>5 DEF PlaceInv

(* The nominee joins the others, and all that they should be.              *)
LEMMA PushStream ==
  ASSUME ReplaceInv, StreamInv, ReplaceInv', Push
  PROVE  StreamInv'
<1>1. /\ pc = "book" /\ pc' = "scan" /\ noms' = Append(noms, nom)
      /\ UNCHANGED <<current, position_r, text, base_position,
                     last_node, buffer, backlog, curser, replace_mode, ended,
                     input, output>>
  BY DEF Push, repUnchanged
<1>2. /\ noms \in Seq(Pattern \X Nat) /\ Len(noms) \in Nat /\ curser \in Nat
      /\ replace_mode \in Mode /\ nom \in (Pattern \cup {Root}) \X Nat
      /\ input \in Seq(Alphabet)
  BY DEF ReplaceInv, ReplaceTypeOK
<1>3. /\ Len(noms') = Len(noms) + 1
      /\ \A i \in 1..Len(noms) : noms'[i] = noms[i] /\ i \in 1..Len(noms')
      /\ noms'[Len(noms) + 1] = nom /\ Len(noms) + 1 \in 1..Len(noms')
      /\ \A i \in 1..Len(noms') : i \in 1..Len(noms) \/ i = Len(noms) + 1
  <2>1. \A S : \A f \in Seq(S) : \A x :
          /\ Len(Append(f, x)) = Len(f) + 1
          /\ \A i \in 1..Len(f) : Append(f, x)[i] = f[i]
          /\ Append(f, x)[Len(f) + 1] = x
    OBVIOUS
  <2> QED
    BY <1>1, <1>2, <2>1
<1>4. /\ ~ended /\ Done \in Nat /\ Done - 1 \in Nat /\ (Done - 1) + 1 = Done
      /\ Done <= Len(input) /\ Booked = Done - 1 /\ curser < Done
      /\ EndingAt(input, Done) # {} /\ nom = CandidateAt(input, Done)
      /\ nom[2] = Done /\ Start(nom) \in Nat /\ Undecided <= Start(nom)
      /\ \A c \in Chosen : c[2] < Done
  BY <1>1, BookingFacts
<1>5. /\ PlaceInv' /\ Done' = Done /\ Booked' = Done
      /\ Undecided' = Undecided /\ Undecided \in Nat
  BY <1>1, BookedAway
<1>6. Chosen' = Choice(replace_mode, input, Done) /\ Chosen = Choice(replace_mode, input, Done - 1)
  BY <1>1, <1>4, <1>5 DEF Chosen
<1>7. \A i \in 1..Len(noms) : /\ noms[i] \in Chosen /\ Start(noms[i]) < Start(nom)
                              /\ replace_mode = "LAZY" => noms[i][2] <= Start(nom)
  <2>1. ASSUME NEW i \in 1..Len(noms)
        PROVE  /\ Start(noms[i]) < Start(nom)
               /\ replace_mode = "LAZY" => noms[i][2] <= Start(nom)
    <3>1. i < Len(noms) + 1
      BY <1>2
    <3>2. i \in 1..Len(noms') /\ Len(noms) + 1 \in 1..Len(noms') /\ noms'[i] = noms[i]
          /\ noms'[Len(noms) + 1] = nom /\ replace_mode' = replace_mode
      BY <1>1, <1>3
    <3>3. NomineesAscend'
      BY DEF ReplaceInv
    <3> QED
      BY <3>1, <3>2, <3>3 DEF NomineesAscend, Start
  <2> QED
    BY <2>1 DEF StreamInv, ChosenInv
<1>8. \A c \in Consumed : c \in Chosen /\ c[2] <= curser /\ Start(c) \in Nat /\ Start(c) < Undecided
  BY <1>1, ChosenFacts DEF StreamInv, CursorInv, Consumed
<1>9. \A c \in Chosen : \/ c[2] <= curser
                        \/ \E i \in 1..Len(noms) : noms[i] = c
                        \/ replace_mode = "NORMAL" /\ Start(nom) <= Start(c)
  BY DEF StreamInv, ChosenInv
<1>10. \A c \in Chosen : Start(c) \in Nat /\ c[2] \in Nat
  BY ChosenFacts
<1>11. Consumed = {c \in Chosen : c[2] <= curser} /\ Consumed' = {c \in Chosen' : c[2] <= curser}
  BY <1>1 DEF Consumed
<1> HIDE DEF Chosen, Consumed, Done, Booked, Undecided
<1>12. /\ Chosen' \subseteq Chosen \cup {nom} /\ nom \in Chosen'
       /\ \A c \in Chosen : (c[2] <= curser \/ \E i \in 1..Len(noms) : noms[i] = c) <=> c \in Chosen'
  <2>1. CASE replace_mode = "NORMAL"
    <3>1. PICK last \in Nat : last = Done - 1
      BY <1>4
    <3>2. last + 1 = Done
      BY <1>4, <3>1
    <3>3. /\ last \in Nat /\ last + 1 <= Len(input) /\ input \in Seq(Alphabet)
          /\ EndingAt(input, last + 1) # {} /\ nom = CandidateAt(input, last + 1)
      BY <1>2, <1>4, <3>2
    <3>4. Choice("NORMAL", input, last + 1)
            = BeginBefore(Choice("NORMAL", input, last), nom) \cup {nom}
      BY <3>3, NormalChoiceNext
    <3>5. Chosen' = {c \in Chosen : Start(c) < Start(nom)} \cup {nom}
      BY <1>6, <2>1, <3>2, <3>4, <3>1 DEF BeginBefore
    <3>6. nom \notin Chosen
      BY <1>4
    <3>7. ASSUME NEW c \in Chosen
          PROVE  (c[2] <= curser \/ \E i \in 1..Len(noms) : noms[i] = c) <=> Start(c) < Start(nom)
      <4>1. c[2] <= curser => Start(c) < Start(nom)
        <5>1. c[2] <= curser => c \in Consumed
          BY <1>11
        <5> QED
          BY <1>4, <1>5, <1>8, <1>10, <5>1
      <4>2. Start(c) < Start(nom) => ~(Start(nom) <= Start(c))
        BY <1>4, <1>10
      <4> QED
        BY <1>7, <1>9, <4>1, <4>2
    <3> QED
      BY <3>5, <3>6, <3>7
  <2>2. CASE replace_mode = "LAZY"
    <3>1. curser <= Start(nom)
      <4>1. ~Overlaps
        BY <2>2 DEF Push
      <4> QED
        BY <1>2, <1>4, <4>1 DEF Overlaps
    <3>2. ASSUME NEW d \in Chosen
          PROVE  d[2] <= Start(nom)
      <4>1. CASE d[2] <= curser
        BY <1>2, <1>4, <1>10, <3>1, <4>1
      <4>2. CASE \E i \in 1..Len(noms) : noms[i] = d
        BY <1>7, <2>2, <4>2
      <4> QED
        BY <1>9, <2>2, <4>1, <4>2
    <3>3. Choice("LAZY", input, (Done - 1) + 1)
            = IF \A d \in Choice("LAZY", input, Done - 1) : d[2] <= Start(nom)
              THEN Choice("LAZY", input, Done - 1) \cup {nom}
              ELSE Choice("LAZY", input, Done - 1)
      BY <1>2, <1>4, LazyChoiceNext
    <3>4. Chosen' = Chosen \cup {nom}
      BY <1>4, <1>6, <2>2, <3>2, <3>3
    <3> QED
      BY <1>9, <2>2, <3>4
  <2> QED
    BY <1>2, <2>1, <2>2 DEF Mode
<1>13. Consumed' = Consumed
  <2>1. ~(nom[2] <= curser)
    BY <1>2, <1>4
  <2> QED
    BY <1>11, <1>12, <2>1
<1>14. ChosenInv'
  <2>1. ASSUME NEW i \in 1..Len(noms')
        PROVE  noms'[i] \in Chosen'
    BY <1>3, <1>7, <1>12
  <2>2. ASSUME NEW c \in Chosen'
        PROVE  c[2] <= curser \/ \E i \in 1..Len(noms') : noms'[i] = c
    <3>1. CASE c = nom
      BY <1>3, <3>1
    <3>2. CASE c \in Chosen
      BY <1>3, <1>12, <3>2
    <3> QED
      BY <1>12, <3>1, <3>2
  <2> QED
    BY <1>1, <2>1, <2>2 DEF ChosenInv
<1>15. CursorInv'
  <2>1. \A i \in 1..Len(noms') :
          /\ Start(noms'[i]) \in Int
          /\ \/ \E j \in 1..Len(noms) : noms'[i] = noms[j]
             \/ Undecided <= Start(noms'[i])
    BY <1>3, <1>4, NomineeFacts
  <2>2. CursorInv /\ curser' = curser /\ Undecided' \in Nat /\ Undecided <= Undecided'
    BY <1>1, <1>5 DEF StreamInv
  <2>3. pc # "flush"
    BY <1>1
  <2> QED
    BY <1>2, <1>5, <1>8, <1>13, <2>1, <2>2, <2>3, CursorStays
<1>16. OutputInv'
  BY <1>1, <1>13, OutputStays DEF StreamInv
<1> QED
  BY <1>1, <1>4, <1>5, <1>14, <1>15, <1>16 DEF StreamInv, EndedInv, StreamIsReplaced

(* In lazy mode one that overlaps is not what should be replaced.          *)
LEMMA NullifyStream ==
  ASSUME ReplaceInv, StreamInv, ReplaceInv', Nullify
  PROVE  StreamInv'
<1>1. /\ pc = "book" /\ pc' = "scan" /\ replace_mode = "LAZY" /\ Overlaps
      /\ UNCHANGED <<noms, current, position_r, text, base_position,
                     last_node, buffer, backlog, curser, replace_mode, ended,
                     input, output>>
  BY DEF Nullify, repUnchanged
<1>2. /\ noms \in Seq(Pattern \X Nat) /\ Len(noms) \in Nat /\ curser \in Nat
      /\ input \in Seq(Alphabet)
  BY DEF ReplaceInv, ReplaceTypeOK
<1>3. /\ ~ended /\ Done \in Nat /\ Done - 1 \in Nat /\ (Done - 1) + 1 = Done
      /\ Done <= Len(input) /\ Booked = Done - 1
      /\ EndingAt(input, Done) # {} /\ nom = CandidateAt(input, Done)
      /\ Start(nom) \in Nat /\ Undecided <= Start(nom)
  BY <1>1, BookingFacts
<1>4. /\ PlaceInv' /\ Done' = Done /\ Booked' = Done
      /\ Undecided' = Undecided /\ Undecided \in Nat
  BY <1>1, BookedAway
<1>5. Chosen' = Choice("LAZY", input, Done) /\ Chosen = Choice("LAZY", input, Done - 1)
  BY <1>1, <1>3, <1>4 DEF Chosen
<1>6. Consumed \subseteq Chosen
  BY DEF Consumed
<1> HIDE DEF Chosen, Consumed, Done, Booked, Undecided
<1>7. PICK d \in Chosen : ~(d[2] <= Start(nom))
  <2>1. CASE Start(nom) < curser
    <3>1. PICK b \in Consumed : b[2] = curser
      BY <1>2, <1>3, <1>4, <2>1 DEF StreamInv, CursorInv
    <3> QED
      BY <1>2, <1>3, <1>6, <2>1, <3>1
  <2>2. CASE noms # << >> /\ Start(nom) < Last(noms)[2]
    <3>1. Last(noms) = noms[Len(noms)] /\ Len(noms) \in 1..Len(noms)
      BY <1>2, <2>2 DEF Last
    <3>2. Last(noms) \in Chosen
      BY <3>1 DEF StreamInv, ChosenInv
    <3>3. Last(noms)[2] \in Nat
      BY <3>1, NomineeFacts
    <3> QED
      BY <1>3, <2>2, <3>2, <3>3
  <2> QED
    BY <1>1, <2>1, <2>2 DEF Overlaps
<1>8. Chosen' = Chosen
  <2>1. Choice("LAZY", input, (Done - 1) + 1)
          = IF \A c \in Choice("LAZY", input, Done - 1) : c[2] <= Start(nom)
            THEN Choice("LAZY", input, Done - 1) \cup {nom}
            ELSE Choice("LAZY", input, Done - 1)
    BY <1>2, <1>3, LazyChoiceNext
  <2> QED
    BY <1>3, <1>5, <1>7, <2>1
<1>9. Consumed' = Consumed
  BY <1>1, <1>8 DEF Consumed
<1>10. ChosenInv'
  BY <1>1, <1>8 DEF StreamInv, ChosenInv
<1>11. CursorInv'
  <2>1. \A i \in 1..Len(noms') :
          /\ Start(noms'[i]) \in Int
          /\ \/ \E j \in 1..Len(noms) : noms'[i] = noms[j]
             \/ Undecided <= Start(noms'[i])
    BY <1>1, NomineeFacts
  <2>2. CursorInv /\ curser' = curser /\ Undecided' \in Nat /\ Undecided <= Undecided'
    BY <1>1, <1>4 DEF StreamInv
  <2>3. pc # "flush" /\ \A c \in Consumed : Start(c) \in Nat
    BY <1>1, ChosenFacts
  <2> QED
    BY <1>2, <1>4, <1>9, <2>1, <2>2, <2>3, CursorStays
<1>12. OutputInv'
  BY <1>1, <1>9, OutputStays DEF StreamInv
<1> QED
  BY <1>1, <1>3, <1>4, <1>10, <1>11, <1>12 DEF StreamInv, EndedInv, StreamIsReplaced

(* Where the loop of mf_repdata_do_replace stops: where a pattern may      *)
(* begin, or, when the stream ends, at its end                             *)
LEMMA ReplacingFacts ==
  ASSUME ReplaceInv, StreamInv, pc \in {"replace", "flush"}
  PROVE  /\ ~ended /\ Booked = Done /\ Done = Len(input) /\ Done \in Nat
         /\ input \in Seq(Alphabet) /\ curser \in Nat /\ curser <= Done
         /\ Undecided \in Nat /\ Undecided <= Done
         /\ pc = "replace" => to_position = Undecided
         /\ pc = "flush" => to_position = Done
         /\ to_position \in Nat /\ to_position <= Len(input)
<1>1. pc = "flush" => position_r = 0
  BY DEF ReplaceInv, CallInv
<1>2. ~ended /\ position_r = Len(text)
  BY DEF ReplaceInv, CallInv
<1>3. /\ input \in Seq(Alphabet) /\ curser \in Nat /\ curser <= Done
      /\ base_position \in Nat /\ position_r \in Nat
      /\ base_position + Len(text) = Len(input)
  BY <1>2, StreamPosition
<1>4. Booked = Done /\ Done = Len(input) /\ Done \in Nat
  BY <1>2, <1>3 DEF Booked, Done
<1>5. Undecided \in Nat /\ Undecided = Done - Len(Place) /\ Len(Place) \in Nat
  BY PlaceFacts DEF StreamInv
<1>6. pc = "replace" => to_position = Undecided
  BY <1>2, <1>3, <1>5 DEF to_position, BacklogPos, Place, Done
<1>7. pc = "flush" => to_position = Done
  BY <1>1, <1>3 DEF to_position, Done
<1> HIDE DEF Done, Undecided, to_position, Place
<1>8. Undecided <= Done
  BY <1>4, <1>5
<1> QED
  BY <1>2, <1>3, <1>4, <1>5, <1>6, <1>7, <1>8

(* The text behind the cursor that mf_repdata_appendfactor appends         *)
LEMMA FactorIs ==
  ASSUME ReplaceInv, ~ended, NEW to \in Nat, to <= Len(input)
  PROVE  Factor(curser, to)
           = IF to < curser THEN << >> ELSE SubSeq(input, curser + 1, to)
<1>1. curser \in Nat
  BY StreamPosition
<1>2. CASE to < curser
  BY <1>2 DEF Factor
<1>3. CASE ~(to < curser)
  BY <1>1, <1>3, FactorIsStream
<1> QED
  BY <1>2, <1>3

(* The first nominee is the next that should be replaced.                  *)
LEMMA ReplaceNomineeStream ==
  ASSUME ReplaceInv, StreamInv, ReplaceInv', ReplaceNominee
  PROVE  StreamInv'
<1> DEFINE h == noms[1]
<1>1. /\ pc \in {"replace", "flush"} /\ noms # << >>
      /\ AppendText(Factor(curser, Start(Head(noms))) \o Rtext[Head(noms)[1]])
      /\ curser' = Head(noms)[2] /\ noms' = Tail(noms)
      /\ Start(Head(noms)) < to_position
      /\ UNCHANGED <<text, base_position, last_node, backlog, replace_mode, pc,
                     current, position_r, nom, ended, input>>
  BY DEF ReplaceNominee, Replacing, InRange
<1>2. noms \in Seq(Pattern \X Nat) /\ Len(noms) \in Nat /\ Len(noms) > 0
      /\ replace_mode \in Mode
      /\ buffer \in Seq(Alphabet) /\ output \in Seq(Alphabet)
  BY <1>1 DEF ReplaceInv, ReplaceTypeOK
<1>3. Head(noms) = h /\ 1 \in 1..Len(noms)
  BY <1>1, <1>2
<1>4. /\ Len(noms') = Len(noms) - 1
      /\ \A i \in 1..Len(noms') : noms'[i] = noms[i + 1] /\ i + 1 \in 1..Len(noms)
  BY <1>1, <1>2
<1>5. /\ ~ended /\ Booked = Done /\ Done = Len(input) /\ Done \in Nat
      /\ input \in Seq(Alphabet) /\ curser \in Nat /\ curser <= Done
      /\ pc = "replace" => to_position = Undecided
      /\ to_position \in Nat /\ to_position <= Len(input)
  BY <1>1, ReplacingFacts
<1>6. h \in Chosen /\ h \in Placed /\ h[2] \in Nat /\ Start(h) \in Nat /\ Start(h) < h[2]
  <2>1. h \in Chosen
    BY <1>3 DEF StreamInv, ChosenInv
  <2> QED
    BY <2>1, ChosenFacts
<1>7. curser < h[2]
  BY <1>3 DEF ReplaceInv, NomineeInv
<1>8. \A i \in 1..Len(noms) : i = 1 \/ h[2] < noms[i][2]
  BY <1>3 DEF ReplaceInv, NomineesAscend
<1>9. replace_mode = "LAZY" => curser <= Start(h)
  BY <1>1 DEF ReplaceInv, NomineesAscend
<1>10. /\ Done' = Done /\ Booked' = Booked /\ Place' = Place
  BY <1>1 DEF Done, Booked, Place
<1>11. Undecided' = Undecided /\ Chosen' = Chosen
  BY <1>1, <1>10 DEF Undecided, Chosen
<1>12. Consumed = {c \in Chosen : c[2] <= curser} /\ Consumed' = {c \in Chosen : c[2] <= h[2]}
  BY <1>1, <1>3, <1>11 DEF Consumed
<1>13. \A c \in Chosen : c[2] \in Nat /\ (c[2] <= curser \/ \E i \in 1..Len(noms) : noms[i] = c)
  BY <1>1, ChosenFacts DEF StreamInv, ChosenInv
<1>14. /\ pc # "flush" => \A c \in Consumed : Start(c) < Undecided
       /\ curser <= Start(h) \/ \E c \in Consumed : c[2] = curser
  BY <1>3 DEF StreamInv, CursorInv
<1>15. Chosen = Choice(replace_mode, input, Done)
  BY <1>5 DEF Chosen
<1>16. output \o buffer = ReplacedIn(input, Consumed, curser)
  BY <1>5 DEF StreamInv, OutputInv
<1>17. PlaceInv'
  BY <1>1, <1>10 DEF StreamInv, PlaceInv
<1> HIDE DEF h, Done, Booked, Place, Undecided, Chosen, Consumed, to_position
<1>18. Consumed' = Consumed \cup {h}
  <2>1. ASSUME NEW c \in Chosen
        PROVE  c[2] <= h[2] <=> c[2] <= curser \/ c = h
    <3>1. c[2] <= curser => c[2] <= h[2]
      BY <1>5, <1>6, <1>7, <1>13
    <3>2. c[2] <= h[2] => c[2] <= curser \/ c = h
      <4>1. \A i \in 1..Len(noms) : noms[i] = c /\ c[2] <= h[2] => c = h
        <5>1. ASSUME NEW i \in 1..Len(noms), noms[i] = c, c[2] <= h[2]
              PROVE  c = h
          <6>1. ~(h[2] < noms[i][2])
            BY <1>6, <1>13, <5>1
          <6> QED
            BY <1>8, <5>1, <6>1 DEF h
        <5> QED
          BY <5>1
      <4> QED
        BY <1>13, <4>1
    <3>3. h[2] <= h[2]
      BY <1>6
    <3> QED
      BY <3>1, <3>2, <3>3
  <2> QED
    BY <1>6, <1>12, <2>1
<1>19. ChosenInv'
  <2>1. \A i \in 1..Len(noms') : noms'[i] \in Chosen
    BY <1>4 DEF StreamInv, ChosenInv
  <2>2. ASSUME NEW c \in Chosen
        PROVE  c[2] <= h[2] \/ \E i \in 1..Len(noms') : noms'[i] = c
    <3>1. CASE c[2] <= curser
      BY <1>5, <1>6, <1>7, <1>13, <3>1
    <3>2. ASSUME NEW i \in 1..Len(noms), noms[i] = c
          PROVE  c[2] <= h[2] \/ \E j \in 1..Len(noms') : noms'[j] = c
      <4>1. CASE i = 1
        BY <1>6, <3>2, <4>1 DEF h
      <4>2. CASE i # 1
        <5>1. i - 1 \in 1..Len(noms') /\ (i - 1) + 1 = i
          BY <1>2, <1>4, <4>2
        <5>2. noms'[i - 1] = noms[(i - 1) + 1]
          BY <1>4, <5>1
        <5>3. noms'[i - 1] = c
          BY <3>2, <5>1, <5>2
        <5> QED
          BY <5>1, <5>3
      <4> QED
        BY <4>1, <4>2
    <3> QED
      BY <1>13, <3>1, <3>2
  <2> QED
    BY <1>1, <1>3, <1>11, <2>1, <2>2 DEF ChosenInv
<1>20. CursorInv'
  <2>1. h \in Consumed' /\ h[2] = curser'
    BY <1>1, <1>3, <1>18
  <2>2. ASSUME pc' # "flush", NEW c \in Consumed'
        PROVE  Start(c) < Undecided'
    <3>1. pc = "replace"
      BY <1>1, <2>2
    <3>2. Start(h) < Undecided
      BY <1>1, <1>3, <1>5, <3>1
    <3> QED
      BY <1>11, <1>14, <1>18, <2>2, <3>1, <3>2
  <2> QED
    BY <2>1, <2>2 DEF CursorInv, Start
<1>21. OutputInv'
  <2> DEFINE gap == IF Start(h) < curser THEN << >> ELSE SubSeq(input, curser + 1, Start(h))
             R == ReplacedIn(input, Consumed, curser)
             r == Rtext[h[1]]
  <2>1. Start(h) <= Len(input)
    BY <1>1, <1>3, <1>5, <1>6
  <2>2. Factor(curser, Start(h)) = gap
    BY <1>5, <1>6, <2>1, FactorIs
  <2>3. Consumed \in SUBSET Choice(replace_mode, input, Done)
        /\ h \in Choice(replace_mode, input, Done) /\ Done \in 0..Len(input)
    BY <1>5, <1>6, <1>12, <1>15
  <2>4. \A c \in Consumed : c[2] <= curser
    BY <1>12
  <2>5. \/ curser <= Start(h)
        \/ replace_mode = "NORMAL" /\ \E b \in Consumed : b[2] = curser
    BY <1>2, <1>9, <1>14 DEF Mode
  <2>6. ReplacedIn(input, Consumed \cup {h}, h[2]) = (R \o gap) \o r
    <3>1. /\ replace_mode \in Mode /\ input \in Seq(Alphabet) /\ curser \in Nat
          /\ curser < h[2]
      BY <1>2, <1>5, <1>7
    <3> HIDE DEF gap, R, r
    <3>2. ReplacedIn(input, Consumed \cup {h}, h[2])
            = (ReplacedIn(input, Consumed, curser)
                 \o (IF Start(h) < curser THEN << >>
                     ELSE SubSeq(input, curser + 1, Start(h))))
                \o Rtext[h[1]]
      BY <2>3, <2>4, <2>5, <3>1, ReplaceOneMore
    <3> QED
      BY <3>2 DEF gap, R, r
  <2>7. r \in Seq(Alphabet) /\ gap \in Seq(Alphabet) /\ R \in Seq(Alphabet)
    <3>1. r \in Seq(Alphabet)
      BY <1>6, PlacedFacts
    <3>2. gap \in Seq(Alphabet)
      BY <1>5, <1>6, <2>1
    <3>3. output \o buffer \in Seq(Alphabet)
      BY <1>2
    <3> QED
      BY <1>16, <3>1, <3>2, <3>3
  <2> HIDE DEF gap, R, r
  <2>8. output' \o buffer' = (output \o buffer) \o (gap \o r)
    <3>1. AppendText(gap \o r)
      BY <1>1, <1>3, <2>2 DEF r
    <3>2. gap \o r \in Seq(Alphabet)
      BY <2>7
    <3> QED
      BY <1>2, <3>1, <3>2, AppendTextIs
  <2>9. (R \o gap) \o r = R \o (gap \o r)
    BY <2>7, ConcatAssociates
  <2>10. curser' = h[2] /\ input' = input
    BY <1>1, <1>3
  <2> QED
    BY <1>16, <1>18, <2>6, <2>8, <2>9, <2>10 DEF OutputInv, R
<1> QED
  BY <1>1, <1>5, <1>17, <1>19, <1>20, <1>21 DEF StreamInv, EndedInv, StreamIsReplaced

(* At the end of a chunk the text up to where a pattern may begin is put   *)
(* out; what remains to be replaced begins behind it.                      *)
LEMMA ReplaceEndStream ==
  ASSUME ReplaceInv, StreamInv, ReplaceInv', ReplaceEnd
  PROVE  StreamInv'
<1>1. /\ pc = "replace" /\ ~(Replacing /\ InRange)
      /\ IF Replacing /\ to_position > curser
         THEN AppendText(Rest) /\ curser' = to_position
         ELSE UNCHANGED <<buffer, output, curser>>
      /\ last_node' = current /\ base_position' = base_position + position_r
      /\ pc' = "ready" /\ text' = << >> /\ current' = Root /\ position_r' = 0
      /\ UNCHANGED <<replace_mode, nom, input, noms, ended>>
  BY DEF ReplaceEnd, Return
<1>2. /\ noms \in Seq(Pattern \X Nat) /\ Len(noms) \in Nat
      /\ buffer \in Seq(Alphabet) /\ output \in Seq(Alphabet)
      /\ base_position \in Nat /\ position_r \in Nat
  BY DEF ReplaceInv, ReplaceTypeOK
<1>3. /\ ~ended /\ Booked = Done /\ Done = Len(input) /\ Done \in Nat
      /\ input \in Seq(Alphabet) /\ curser \in Nat /\ curser <= Done
      /\ Undecided \in Nat /\ to_position = Undecided
      /\ to_position \in Nat /\ to_position <= Len(input)
  BY <1>1, ReplacingFacts
<1>4. Done' = Done /\ Booked' = Booked /\ Place' = Place
  BY <1>1, <1>2 DEF Done, Booked, Place
<1>5. Undecided' = Undecided /\ Chosen' = Chosen
  BY <1>1, <1>4 DEF Undecided, Chosen
<1>6. PlaceInv'
  <2>1. LongestEnding(Nodes, input, Done, Place)
    BY <1>1, PlaceIsLongest DEF StreamInv
  <2>2. LongestBefore(Nodes, input, Done, Place,
                      pc' = "scan" /\ position_r' < Len(text'), input'[Done + 1])
    BY <2>1, NodesAreWords, LongestIsBefore
  <2> QED
    BY <1>1, <1>4, <2>2 DEF PlaceInv
<1>7. \A c \in Chosen : /\ c[2] \in Nat /\ Start(c) \in Nat
                        /\ c[2] <= curser \/ \E i \in 1..Len(noms) : noms[i] = c
  BY <1>1, ChosenFacts DEF StreamInv, ChosenInv
<1>8. Consumed = {c \in Chosen : c[2] <= curser} /\ Consumed' = {c \in Chosen : c[2] <= curser'}
  BY <1>1, <1>5 DEF Consumed
<1>9. \A c \in Consumed : Start(c) < Undecided
  BY <1>1 DEF StreamInv, CursorInv
<1>10. Consumed \in SUBSET Placed
  BY ChosenFacts
<1>11. output \o buffer = ReplacedIn(input, Consumed, curser)
  BY <1>3 DEF StreamInv, OutputInv
<1>12. \A i \in 1..Len(noms) : noms[i] \in Chosen
  BY DEF StreamInv, ChosenInv
<1> HIDE DEF Done, Booked, Place, Undecided, Chosen, Consumed
<1>13. /\ Consumed' = Consumed
       /\ output' \o buffer' = ReplacedIn(input, Consumed, curser')
       /\ curser <= curser' /\ curser' \in Nat
       /\ \/ curser' = curser
          \/ /\ curser' = Undecided
             /\ \A i \in 1..Len(noms) : Undecided <= Start(noms[i])
  <2>1. CASE ~(Replacing /\ to_position > curser)
    <3>1. UNCHANGED <<buffer, output, curser>>
      BY <1>1, <2>1
    <3> QED
      BY <1>3, <1>8, <1>11, <3>1
  <2>2. CASE Replacing /\ to_position > curser
    <3>1. AppendText(Rest) /\ curser' = to_position /\ ~InRange
      BY <1>1, <2>2
    <3>2. ASSUME NEW i \in 1..Len(noms)
          PROVE  to_position <= Start(noms[i]) /\ curser' < noms[i][2]
      <4>1. noms # << >> /\ 1 \in 1..Len(noms) /\ Head(noms) = noms[1]
        BY <1>2
      <4>2. /\ Start(noms[1]) \in Int /\ Start(noms[i]) \in Int
            /\ Start(noms[i]) < noms[i][2] /\ noms[i][2] \in Nat
        BY <4>1, NomineeFacts
      <4>3. to_position <= Start(noms[1])
        BY <1>3, <3>1, <4>1, <4>2 DEF InRange
      <4>4. i = 1 \/ Start(noms[1]) < Start(noms[i])
        BY <4>1 DEF ReplaceInv, NomineesAscend
      <4> QED
        BY <1>3, <3>1, <4>2, <4>3, <4>4
    <3>3. Consumed' = Consumed
      <4>1. ASSUME NEW c \in Chosen
            PROVE  c[2] <= curser' <=> c[2] <= curser
        <5>1. curser < curser' /\ curser' \in Nat
          BY <1>3, <2>2, <3>1
        <5>2. ASSUME NEW i \in 1..Len(noms), noms[i] = c
              PROVE  ~(c[2] <= curser')
          <6>1. curser' < c[2]
            BY <3>2, <5>2
          <6> QED
            BY <1>7, <5>1, <6>1
        <5> QED
          BY <1>3, <1>7, <5>1, <5>2
      <4> QED
        BY <1>8, <4>1
    <3> DEFINE gap == SubSeq(input, curser + 1, to_position)
    <3>4. Rest = gap
      BY <1>3, <2>2, FactorIs DEF Rest
    <3>5. output' \o buffer' = (output \o buffer) \o gap
      <4>1. gap \in Seq(Alphabet)
        BY <1>3
      <4> HIDE DEF gap
      <4> QED
        BY <1>2, <3>1, <3>4, <4>1, AppendTextIs
    <3>6. ReplacedIn(input, Consumed, to_position)
            = ReplacedIn(input, Consumed, curser) \o gap
      <4>1. \A c \in Consumed : c[2] <= curser
        BY <1>8
      <4>2. curser <= to_position
        BY <1>3, <2>2
      <4> HIDE DEF to_position
      <4> QED
        BY <1>3, <1>10, <4>1, <4>2, NothingBehind
    <3> HIDE DEF gap
    <3> QED
      BY <1>3, <1>11, <2>2, <3>1, <3>2, <3>3, <3>5, <3>6
  <2> QED
    BY <2>1, <2>2
<1>14. ChosenInv'
  <2>1. ASSUME NEW c \in Chosen
        PROVE  c[2] <= curser' \/ \E i \in 1..Len(noms) : noms[i] = c
    BY <1>3, <1>7, <1>13
  <2> QED
    BY <1>1, <1>5, <1>12, <2>1 DEF ChosenInv
<1>15. CursorInv'
  <2>1. CASE curser' = curser
    BY <1>1, <1>5, <1>9, <1>13, <2>1 DEF StreamInv, CursorInv, Start
  <2>2. CASE /\ curser' = Undecided
             /\ \A i \in 1..Len(noms) : Undecided <= Start(noms[i])
    BY <1>1, <1>3, <1>5, <1>9, <1>13, <2>2 DEF CursorInv, Start
  <2> QED
    BY <1>13, <2>1, <2>2
<1>16. OutputInv'
  BY <1>1, <1>13 DEF OutputInv
<1> QED
  BY <1>1, <1>3, <1>6, <1>14, <1>15, <1>16 DEF StreamInv, EndedInv, StreamIsReplaced

(* The end of a stream: nothing is left to be replaced, and the rest of    *)
(* the text is put out.                                                    *)
LEMMA FlushEndStream ==
  ASSUME ReplaceInv, StreamInv, ReplaceInv', FlushEnd
  PROVE  StreamInv'
<1>1. /\ pc = "flush" /\ ~InRange /\ output' = output \o buffer \o Rest
      /\ buffer' = << >> /\ noms' = << >> /\ curser' = 0
      /\ last_node' = Root /\ base_position' = 0 /\ ended' = TRUE
      /\ pc' = "ready" /\ text' = << >> /\ position_r' = 0
      /\ UNCHANGED <<replace_mode, nom, input>>
  BY DEF FlushEnd, ResetData, Return
<1>2. /\ noms \in Seq(Pattern \X Nat) /\ Len(noms) \in Nat
      /\ buffer \in Seq(Alphabet) /\ output \in Seq(Alphabet)
  BY DEF ReplaceInv, ReplaceTypeOK
<1>3. /\ ~ended /\ Booked = Done /\ Done = Len(input) /\ Done \in Nat
      /\ input \in Seq(Alphabet) /\ curser \in Nat /\ curser <= Done
      /\ to_position = Done
  BY <1>1, ReplacingFacts
<1>4. noms = << >>
  <2> SUFFICES ASSUME noms # << >>
               PROVE  FALSE
    OBVIOUS
  <2>1. 1 \in 1..Len(noms) /\ Head(noms) = noms[1]
    BY <1>2
  <2>2. /\ Start(noms[1]) \in Int /\ Start(noms[1]) < noms[1][2]
        /\ noms[1][2] \in Nat
    BY <2>1, NomineeFacts
  <2>3. noms[1][2] <= Done
    BY <2>1 DEF ReplaceInv, NomineeInv, Done
  <2>4. ~(Start(noms[1]) < to_position)
    BY <1>1, <2>1 DEF InRange
  <2> HIDE DEF Done, to_position
  <2> QED
    BY <1>3, <2>2, <2>3, <2>4
<1>5. Consumed = Choice(replace_mode, input, Len(input))
  <2>1. \A c \in Chosen : c[2] <= curser
    <3>1. Len(noms) = 0
      BY <1>4
    <3> QED
      BY <1>1, <3>1 DEF StreamInv, ChosenInv
  <2>2. Consumed = Chosen
    BY <2>1 DEF Consumed
  <2> QED
    BY <1>3, <2>2 DEF Chosen
<1>6. Rest = SubSeq(input, curser + 1, Len(input))
  <2> HIDE DEF Done, to_position
  <2> QED
    BY <1>3, FactorIs DEF Rest
<1>7. ReplacedIn(input, Consumed, Len(input))
        = ReplacedIn(input, Consumed, curser) \o SubSeq(input, curser + 1, Len(input))
  <2>1. \A c \in Consumed : c[2] <= curser
    BY DEF Consumed
  <2>2. Consumed \in SUBSET Placed
    BY ChosenFacts
  <2>3. Len(input) \in Nat /\ curser <= Len(input) /\ Len(input) <= Len(input)
    BY <1>3
  <2> HIDE DEF Consumed
  <2> QED
    BY <1>3, <2>1, <2>2, <2>3, NothingBehind
<1>8. output' = Replaced(input)
  <2>1. output \o buffer = ReplacedIn(input, Consumed, curser)
    BY <1>3 DEF StreamInv, OutputInv
  <2> HIDE DEF Consumed
  <2>2. output' = (output \o buffer) \o Rest
    BY <1>1
  <2> QED
    BY <1>5, <1>6, <1>7, <2>1, <2>2, Zenon DEF Replaced
<1>9. StreamIsReplaced'
  BY <1>1, <1>8 DEF StreamIsReplaced, Replaced
<1>10. Done' = 0 /\ Booked' = 0 /\ Place' = << >>
  BY <1>1 DEF Done, Booked, Place, Root
<1>11. PlaceInv'
  <2>1. LongestEnding(Nodes, input', 0, << >>)
    BY <1>1, <1>3, NodesAreWords, EmptyIsLongest DEF Root
  <2>2. LongestBefore(Nodes, input', 0, << >>,
                      pc' = "scan" /\ position_r' < Len(text'), input'[0 + 1])
    BY <2>1, NodesAreWords, LongestIsBefore
  <2> QED
    BY <1>10, <2>2 DEF PlaceInv
<1>12. Chosen' = {} /\ Consumed' = {}
  BY <1>1, <1>3, <1>10, ChoiceNone DEF Chosen, Consumed
<1>13. ChosenInv'
  BY <1>1, <1>12 DEF ChosenInv
<1>14. CursorInv'
  <2>1. Undecided' = 0
    <3>1. Undecided' = Done' - Len(Place')
      BY DEF Undecided
    <3>2. Undecided' = 0 - 0
      BY <1>10, <3>1
    <3> HIDE DEF Undecided
    <3> QED
      BY <3>2
  <2> QED
    BY <1>1, <1>12, <2>1 DEF CursorInv
<1> QED
  BY <1>1, <1>9, <1>11, <1>13, <1>14 DEF StreamInv, EndedInv, OutputInv

LEMMA StreamInvStep ==
  ASSUME ReplaceInv, StreamInv, ReplaceInv', [Next]_vars
  PROVE  StreamInv'
<1>1. ASSUME NEW t \in Chunk, NEW mode \in Mode, Replace(t, mode)
      PROVE  StreamInv'
  BY <1>1, ReplaceStream
<1>2. CASE UNCHANGED vars
  <2>1. UNCHANGED <<text, base_position, last_node, buffer, backlog, noms,
                    curser, replace_mode, pc, current, position_r, nom, ended,
                    input, output>>
    BY <1>2 DEF vars
  <2>2. Done' = Done /\ Booked' = Booked /\ Place' = Place
    BY <2>1 DEF Done, Booked, Place
  <2>3. Undecided' = Undecided /\ Chosen' = Chosen
    BY <2>1, <2>2 DEF Undecided, Chosen
  <2>4. Consumed' = Consumed
    BY <2>1, <2>3 DEF Consumed
  <2>5. EndedInv' /\ PlaceInv' /\ OutputInv'
    BY <2>1, <2>2, <2>4 DEF StreamInv, EndedInv, PlaceInv, OutputInv
  <2>6. ChosenInv'
    BY <2>1, <2>2, <2>3 DEF StreamInv, ChosenInv, Start
  <2>7. CursorInv'
    BY <2>1, <2>3, <2>4 DEF StreamInv, CursorInv, Start
  <2>8. StreamIsReplaced'
    BY <2>1 DEF StreamInv, StreamIsReplaced, Replaced
  <2> QED
    BY <2>5, <2>6, <2>7, <2>8 DEF StreamInv
<1> QED
  BY <1>1, <1>2, FollowStream, FailStream, SkipStream, TakeBackStream, PushStream,
     NullifyStream, GoOnStream, ReplaceNomineeStream, ReplaceEndStream,
     FlushEndStream DEF Next, Step

LEMMA StreamInvariant == Spec => [](ReplaceInv /\ StreamInv)
<1>1. ReplaceInv /\ StreamInv /\ [Next]_vars => ReplaceInv' /\ StreamInv'
  BY ReplaceInvStep, StreamInvStep
<1> QED
  BY <1>1, ReplaceInvInit, StreamInvInit, PTL DEF Spec

(* Nothing that was put out will be replaced differently.                  *)
LEMMA OutputDecided ==
  ASSUME ReplaceInv, StreamInv
  PROVE  OutputIsDecided
<1> SUFFICES ASSUME pc = "ready"
             PROVE  IsPrefix(output \o buffer, Replaced(input))
  BY DEF OutputIsDecided
<1>1. /\ input \in Seq(Alphabet) /\ curser \in Nat /\ curser \in 0..Len(input)
      /\ Done \in 0..Len(input) /\ Len(input) \in Nat
  BY StreamPosition
<1>2. output \in Seq(Alphabet) /\ buffer \in Seq(Alphabet) /\ replace_mode \in Mode
  BY DEF ReplaceInv, ReplaceTypeOK
<1>3. CASE ended
  <2>1. output \o buffer = Replaced(input)
    <3>1. buffer = << >> /\ output = Replaced(input)
      BY <1>3 DEF StreamInv, EndedInv, StreamIsReplaced
    <3> QED
      BY <1>2, <3>1
  <2>2. output \o buffer \in Seq(Alphabet)
    BY <1>2
  <2>3. \A s \in Seq(Alphabet) : IsPrefix(s, s)
    BY DEF IsPrefix
  <2> QED
    BY <2>1, <2>2, <2>3
<1>4. CASE ~ended
  <2> DEFINE C == Choice(replace_mode, input, Len(input))
             K == Consumed
  <2>1. Booked = Done /\ Done = Len(input)
    BY <1>4 DEF ReplaceInv, CallInv, BacklogIsKept, Booked, Done
  <2>2. Chosen = C /\ Replaced(input) = ReplacedIn(input, C, Len(input))
    BY <2>1 DEF Chosen, Replaced
  <2>3. /\ C \in SUBSET Placed /\ K \in SUBSET C /\ K \in SUBSET Placed
        /\ K = {c \in C : c[2] <= curser}
        /\ \A c \in C : c[2] \in Nat /\ Start(c) \in Nat /\ Start(c) < c[2]
    BY <2>2, ChosenFacts DEF Consumed
  <2>4. output \o buffer = ReplacedIn(input, K, curser)
    BY <1>4 DEF StreamInv, OutputInv
  <2>5. \A c \in C : c[2] <= curser \/ \E i \in 1..Len(noms) : noms[i] = c
    BY <2>2 DEF StreamInv, ChosenInv
  <2>6. (\E b \in K : b[2] = curser) \/ \A i \in 1..Len(noms) : curser <= Start(noms[i])
    BY DEF StreamInv, CursorInv
  <2> HIDE DEF C, K, Done
  <2>7. CASE \A i \in 1..Len(noms) : curser <= Start(noms[i])
    <3>1. \A c \in C \cup K : Start(c) < curser => (c \in C <=> c \in K)
      <4>1. ASSUME NEW c \in C, Start(c) < curser
            PROVE  c[2] <= curser
        BY <1>1, <2>3, <2>5, <2>7, <4>1
      <4> QED
        BY <2>3, <4>1
    <3>2. curser <= Len(input) /\ Len(input) <= Len(input)
      BY <1>1
    <3>3. ReplacedIn(input, C, curser) = ReplacedIn(input, K, curser)
      BY <1>1, <2>3, <3>1, <3>2, SameBefore
    <3>4. IsPrefix(ReplacedIn(input, C, curser), ReplacedIn(input, C, Len(input)))
      BY <1>1, <2>3, <3>2, ReplacedGrows
    <3> QED
      BY <2>2, <2>4, <3>3, <3>4
  <2>8. CASE ~(\A i \in 1..Len(noms) : curser <= Start(noms[i]))
    <3>1. PICK b \in K : b[2] = curser
      BY <2>6, <2>8
    <3> DEFINE h == noms[1]
               a == Start(h)
    <3>2. Len(noms) \in Nat /\ noms # << >> /\ 1 \in 1..Len(noms)
      BY <2>8 DEF ReplaceInv, ReplaceTypeOK
    <3>3. a < curser
      <4>1. PICK i \in 1..Len(noms) : ~(curser <= Start(noms[i]))
        BY <2>8
      <4>2. i = 1 \/ a < Start(noms[i])
        BY <3>2 DEF ReplaceInv, NomineesAscend
      <4>3. Start(noms[i]) \in Int /\ a \in Int
        BY <3>2, NomineeFacts
      <4> QED
        BY <1>1, <4>1, <4>2, <4>3
    <3>4. h \in C /\ curser < h[2]
      BY <2>2, <3>2 DEF StreamInv, ChosenInv, ReplaceInv, NomineeInv
    <3>5. a \in Nat /\ a <= Len(input)
      BY <1>1, <2>3, <3>3, <3>4
    <3>6. replace_mode = "NORMAL"
      <4>1. replace_mode = "LAZY" => curser <= a
        BY <3>2 DEF ReplaceInv, NomineesAscend
      <4> QED
        BY <1>1, <1>2, <3>3, <3>5, <4>1 DEF Mode
    <3>7. ReplacedIn(input, K, curser) = ReplacedIn(input, K, a)
      <4>1. Len(input) \in 0..Len(input) /\ \A c \in K : c[2] <= b[2]
        BY <1>1, <2>3, <3>1
      <4>2. C = Choice("NORMAL", input, Len(input))
        BY <3>6 DEF C
      <4>3. b[2] < h[2] /\ Start(h) < b[2]
        BY <3>1, <3>3, <3>4
      <4> HIDE DEF h
      <4>4. ReplacedIn(input, K, b[2]) = ReplacedIn(input, K, Start(h))
        BY <1>1, <2>3, <3>1, <3>4, <4>1, <4>2, <4>3, OverlapIsEmpty
      <4> QED
        BY <3>1, <4>4
    <3>8. \A c \in C \cup K : Start(c) < a => (c \in C <=> c \in K)
      <4>1. ASSUME NEW c \in C, Start(c) < a
            PROVE  c[2] <= curser
        <5>1. ASSUME NEW i \in 1..Len(noms), noms[i] = c
              PROVE  FALSE
          <6>1. i = 1 \/ a < Start(c)
            BY <3>2, <5>1 DEF ReplaceInv, NomineesAscend
          <6>2. Start(c) \in Nat
            BY <2>3
          <6> QED
            BY <3>5, <4>1, <5>1, <6>1, <6>2
        <5> QED
          BY <2>5, <5>1
      <4> QED
        BY <2>3, <4>1
    <3> HIDE DEF a, h
    <3>9. ReplacedIn(input, C, a) = ReplacedIn(input, K, a)
      BY <1>1, <2>3, <3>5, <3>8, SameBefore
    <3>10. IsPrefix(ReplacedIn(input, C, a), ReplacedIn(input, C, Len(input)))
      <4>1. Len(input) <= Len(input)
        BY <1>1
      <4> QED
        BY <1>1, <2>3, <3>5, <4>1, ReplacedGrows
    <3> QED
      BY <2>2, <2>4, <3>7, <3>9, <3>10
  <2> QED
    BY <2>7, <2>8
<1> QED
  BY <1>3, <1>4

------------------------------------------------------------------------------
(* The types are kept; in particular the buffer is never full when         *)
(* something is put in, whatever its size.                                 *)
THEOREM ReplaceTypesHold == Spec => []ReplaceTypeOK
<1>1. ReplaceInv => ReplaceTypeOK
  BY DEF ReplaceInv
<1> QED
  BY <1>1, ReplaceInvariant, PTL

(* In both modes, whatever the patterns are and however they overlap, the  *)
(* nominees of mf_repdata_booknominee stand in the order in which the loop *)
(* of mf_repdata_do_replace needs them, and in lazy mode none overlaps     *)
(* with another or with what was replaced.                                 *)
THEOREM NomineesStayInOrder == Spec => []NomineesAscend
<1>1. ReplaceInv => NomineesAscend
  BY DEF ReplaceInv
<1> QED
  BY <1>1, ReplaceInvariant, PTL

(* However a stream is cut into chunks, the backlog and the chunk are the  *)
(* end of the stream, and nothing of it behind the cursor is lost: what    *)
(* mf_repdata_appendfactor is asked for is there.                          *)
THEOREM NothingIsLost == Spec => []BacklogIsKept
<1>1. ReplaceInv => BacklogIsKept
  BY DEF ReplaceInv
<1> QED
  BY <1>1, ReplaceInvariant, PTL

(* In both modes, whatever the patterns, however they are nested and       *)
(* overlap, however the stream is cut into chunks, and whatever the size   *)
(* of the buffer: when a stream was flushed, multifast_replace has given   *)
(* the call-back the stream with the patterns replaced that the mode says. *)
THEOREM StreamsAreReplaced == Spec => []StreamIsReplaced
<1>1. StreamInv => StreamIsReplaced
  BY DEF StreamInv
<1> QED
  BY <1>1, StreamInvariant, PTL

(* What multifast_replace has put out between two chunks is the beginning  *)
(* of what the stream becomes that was read so far.  As it is never taken  *)
(* back, mf_repdata_do_replace neither replaces a pattern that the next    *)
(* chunk makes part of a longer one nor gives out text that it replaces.   *)
THEOREM OutputStaysDecided == Spec => []OutputIsDecided
<1>1. ReplaceInv /\ StreamInv => OutputIsDecided
  BY OutputDecided
<1> QED
  BY <1>1, StreamInvariant, PTL
==============================================================================
