----------------------------- MODULE WordsProofs -----------------------------
(***************************************************************************)
(* Facts about words that the proofs rest on: induction, tails, what ends  *)
(* at a position of a text and the longest of it, and flattening.          *)
(***************************************************************************)
EXTENDS Words, SequencesExt, WellFoundedInduction, TLAPS

(* A set of natural numbers that is not empty has a least element.         *)
LEMMA MinOfNaturals ==
  ASSUME NEW S \in SUBSET Nat, S # {}
  PROVE  Min(S) \in S /\ \A y \in S : Min(S) <= y
<1>1. PICK x \in S : \A y \in S : ~(<<y, x>> \in OpToRel(<, Nat))
  BY NatLessThanWellFounded, WFMin
<1>2. ASSUME NEW y \in S
      PROVE  x <= y
  <2>1. y < x => <<y, x>> \in OpToRel(<, Nat)
    BY DEF OpToRel
  <2>2. ~(y < x)
    BY <1>1, <2>1
  <2> QED
    BY <2>2
<1> QED
  BY <1>2 DEF Min

(* Induction: a set of natural numbers that has 0, and with every number   *)
(* the next one, has all of them.                                          *)
LEMMA Induction ==
  ASSUME NEW S, 0 \in S, \A n \in Nat : n \in S => n + 1 \in S
  PROVE  Nat \subseteq S
<1> DEFINE T == Nat \ S
<1>1. SUFFICES ASSUME T # {}
               PROVE  FALSE
  OBVIOUS
<1>2. T \in SUBSET Nat
  OBVIOUS
<1>3. Min(T) \in T /\ \A y \in T : Min(T) <= y
  <2> HIDE DEF T
  <2> QED
    BY <1>1, <1>2, MinOfNaturals
<1>4. Min(T) # 0 /\ Min(T) \in Nat
  BY <1>3
<1>5. Min(T) - 1 \in T
  BY <1>4, <1>3
<1> QED
  BY <1>3, <1>4, <1>5

(* Every word is a tail of itself, and the empty word of every word.       *)
LEMMA TailReflexive ==
  ASSUME NEW A, NEW s \in Seq(A)
  PROVE  IsTail(s, s) /\ IsTail(<< >>, s)
BY DEF IsTail, EndsAt

(* A tail of a tail is a tail.                                             *)
LEMMA TailTransitive ==
  ASSUME NEW A, NEW r \in Seq(A), NEW s \in Seq(A), NEW t \in Seq(A),
         IsTail(r, s), IsTail(s, t)
  PROVE  IsTail(r, t)
<1>1. Len(r) <= Len(t)
  BY DEF IsTail, EndsAt
<1>2. ASSUME NEW i \in 1..Len(r)
      PROVE  r[i] = t[Len(t) - Len(r) + i]
  <2>1. r[i] = s[Len(s) - Len(r) + i]
    BY DEF IsTail, EndsAt
  <2>2. Len(s) - Len(r) + i \in 1..Len(s)
    BY DEF IsTail, EndsAt
  <2>3. s[Len(s) - Len(r) + i]
          = t[Len(t) - Len(s) + (Len(s) - Len(r) + i)]
    BY <2>2 DEF IsTail, EndsAt
  <2> QED
    BY <2>1, <2>3
<1> QED
  BY <1>1, <1>2 DEF IsTail, EndsAt

(* Of two tails of one word the shorter is a tail of the longer.           *)
LEMMA TailsOrdered ==
  ASSUME NEW A, NEW r \in Seq(A), NEW s \in Seq(A), NEW t \in Seq(A),
         IsTail(r, t), IsTail(s, t), Len(r) <= Len(s)
  PROVE  IsTail(r, s)
<1>1. ASSUME NEW i \in 1..Len(r)
      PROVE  r[i] = s[Len(s) - Len(r) + i]
  <2>1. r[i] = t[Len(t) - Len(r) + i]
    BY DEF IsTail, EndsAt
  <2>2. Len(s) - Len(r) + i \in 1..Len(s)
    OBVIOUS
  <2>3. s[Len(s) - Len(r) + i]
          = t[Len(t) - Len(s) + (Len(s) - Len(r) + i)]
    BY <2>2 DEF IsTail, EndsAt
  <2> QED
    BY <2>1, <2>3
<1> QED
  BY <1>1 DEF IsTail, EndsAt

(* Two tails of one word that have the same length are the same.           *)
LEMMA TailsSameLength ==
  ASSUME NEW A, NEW r \in Seq(A), NEW s \in Seq(A), NEW t \in Seq(A),
         IsTail(r, t), IsTail(s, t), Len(r) = Len(s)
  PROVE  r = s
BY DEF IsTail, EndsAt

(* Dropping the first i elements leaves a tail.                            *)
LEMMA DropIsTail ==
  ASSUME NEW A, NEW s \in Seq(A), NEW i \in 0..Len(s)
  PROVE  /\ SubSeq(s, i + 1, Len(s)) \in Seq(A)
         /\ Len(SubSeq(s, i + 1, Len(s))) = Len(s) - i
         /\ IsTail(SubSeq(s, i + 1, Len(s)), s)
<1> DEFINE r == SubSeq(s, i + 1, Len(s))
<1>1. /\ r \in Seq(A)
      /\ Len(r) = Len(s) - i
  OBVIOUS
<1>2. \A k \in 1..Len(r) : r[k] = s[i + k]
  OBVIOUS
<1>3. Len(s) - Len(r) = i
  BY <1>1
<1>4. \A k \in 1..Len(r) : r[k] = s[Len(s) - Len(r) + k]
  BY <1>2, <1>3
<1>5. Len(r) <= Len(s)
  BY <1>1
<1> HIDE DEF r
<1>6. IsTail(r, s)
  BY <1>4, <1>5 DEF IsTail, EndsAt
<1> QED
  BY <1>1, <1>6 DEF r

(* Every tail is what dropping leaves.                                     *)
LEMMA TailIsDrop ==
  ASSUME NEW A, NEW r \in Seq(A), NEW s \in Seq(A), IsTail(r, s)
  PROVE  /\ Len(s) - Len(r) \in 0..Len(s)
         /\ r = SubSeq(s, (Len(s) - Len(r)) + 1, Len(s))
<1>1. Len(s) - Len(r) \in 0..Len(s)
  BY DEF IsTail, EndsAt
<1> DEFINE d == SubSeq(s, (Len(s) - Len(r)) + 1, Len(s))
<1>2. d \in Seq(A) /\ Len(d) = Len(s) - (Len(s) - Len(r)) /\ IsTail(d, s)
  BY <1>1, DropIsTail
<1>3. Len(d) = Len(r)
  BY <1>2
<1>4. r = d
  BY <1>2, <1>3, TailsSameLength
<1> QED
  BY <1>1, <1>4

------------------------------------------------------------------------------
(* What ends at a position of a text                                       *)

(* A tail of what ends at a position ends there.                           *)
LEMMA EndsAtTail ==
  ASSUME NEW A, NEW r \in Seq(A), NEW s \in Seq(A), NEW t \in Seq(A),
         NEW e \in Nat, IsTail(r, s), EndsAt(s, t, e)
  PROVE  EndsAt(r, t, e)
<1>1. Len(r) <= Len(s) /\ Len(s) <= e /\ e <= Len(t)
  BY DEF IsTail, EndsAt
<1>2. ASSUME NEW i \in 1..Len(r)
      PROVE  r[i] = t[e - Len(r) + i]
  <2>1. r[i] = s[Len(s) - Len(r) + i]
    BY DEF IsTail, EndsAt
  <2>2. Len(s) - Len(r) + i \in 1..Len(s)
    BY <1>1
  <2>3. s[Len(s) - Len(r) + i] = t[e - Len(s) + (Len(s) - Len(r) + i)]
    BY <2>2 DEF EndsAt
  <2> QED
    BY <2>1, <2>3
<1> QED
  BY <1>1, <1>2 DEF EndsAt

(* Of two words that end at one position the shorter is a tail of the      *)
(* longer.                                                                 *)
LEMMA EndsAtOrdered ==
  ASSUME NEW A, NEW r \in Seq(A), NEW s \in Seq(A), NEW t \in Seq(A),
         NEW e \in Nat, EndsAt(r, t, e), EndsAt(s, t, e), Len(r) <= Len(s)
  PROVE  IsTail(r, s)
<1>1. Len(s) <= e /\ e <= Len(t)
  BY DEF EndsAt
<1>2. ASSUME NEW i \in 1..Len(r)
      PROVE  r[i] = s[Len(s) - Len(r) + i]
  <2>1. r[i] = t[e - Len(r) + i]
    BY DEF EndsAt
  <2>2. Len(s) - Len(r) + i \in 1..Len(s)
    OBVIOUS
  <2>3. s[Len(s) - Len(r) + i] = t[e - Len(s) + (Len(s) - Len(r) + i)]
    BY <2>2 DEF EndsAt
  <2> QED
    BY <2>1, <2>3
<1> QED
  BY <1>2 DEF IsTail, EndsAt

(* Only the empty word ends at the beginning.                              *)
LEMMA EndsAtZero ==
  ASSUME NEW A, NEW r \in Seq(A), NEW t \in Seq(A)
  PROVE  EndsAt(r, t, 0) <=> r = << >>
BY DEF EndsAt

(* The empty word ends everywhere.                                         *)
LEMMA EmptyEndsAt ==
  ASSUME NEW A, NEW t \in Seq(A), NEW e \in 0..Len(t)
  PROVE  EndsAt(<< >>, t, e)
BY DEF EndsAt

(* A word that ends at a position, and one alphabet more                   *)
LEMMA EndsAtAppend ==
  ASSUME NEW A, NEW r \in Seq(A), NEW t \in Seq(A), NEW e \in Nat,
         e < Len(t), EndsAt(r, t, e)
  PROVE  EndsAt(Append(r, t[e + 1]), t, e + 1)
<1> DEFINE s == Append(r, t[e + 1])
<1>1. t[e + 1] \in A
  OBVIOUS
<1>2. s \in Seq(A) /\ Len(s) = Len(r) + 1
  BY <1>1
<1>3. ASSUME NEW i \in 1..Len(s)
      PROVE  s[i] = t[(e + 1) - Len(s) + i]
  <2>1. CASE i \in 1..Len(r)
    <3>1. s[i] = r[i]
      BY <2>1
    <3>2. r[i] = t[e - Len(r) + i]
      BY <2>1 DEF EndsAt
    <3>3. (e + 1) - Len(s) + i = e - Len(r) + i
      BY <1>2, <2>1
    <3> QED
      BY <3>1, <3>2, <3>3
  <2>2. CASE i = Len(r) + 1
    <3>1. s[i] = t[e + 1]
      BY <2>2
    <3>2. (e + 1) - Len(s) + i = e + 1
      BY <1>2, <2>2
    <3> QED
      BY <3>1, <3>2
  <2> QED
    BY <1>2, <2>1, <2>2
<1>4. Len(s) <= e + 1 /\ e + 1 <= Len(t)
  BY <1>2 DEF EndsAt
<1> HIDE DEF s
<1>5. EndsAt(s, t, e + 1)
  BY <1>3, <1>4 DEF EndsAt
<1> QED
  BY <1>5 DEF s

(* The first n alphabets of a word                                         *)
LEMMA StartOfWord ==
  ASSUME NEW A, NEW s \in Seq(A), NEW n \in 0..Len(s)
  PROVE  /\ SubSeq(s, 1, n) \in Seq(A)
         /\ Len(SubSeq(s, 1, n)) = n
         /\ \A i \in 1..n : SubSeq(s, 1, n)[i] = s[i]
OBVIOUS

(* A word that ends at a position, without its last alphabet               *)
LEMMA EndsAtButLast ==
  ASSUME NEW A, NEW r \in Seq(A), NEW t \in Seq(A), NEW e \in Nat,
         Len(r) # 0, EndsAt(r, t, e + 1)
  PROVE  /\ SubSeq(r, 1, Len(r) - 1) \in Seq(A)
         /\ Len(SubSeq(r, 1, Len(r) - 1)) = Len(r) - 1
         /\ EndsAt(SubSeq(r, 1, Len(r) - 1), t, e)
         /\ r = Append(SubSeq(r, 1, Len(r) - 1), t[e + 1])
<1> DEFINE s == SubSeq(r, 1, Len(r) - 1)
<1>0. Len(r) \in Nat /\ Len(r) - 1 \in 0..Len(r)
  OBVIOUS
<1>1. s \in Seq(A) /\ Len(s) = Len(r) - 1
  BY <1>0, StartOfWord
<1>2. \A i \in 1..Len(s) : s[i] = r[i]
  BY <1>0, <1>1, StartOfWord
<1>3. r[Len(r)] = t[e + 1]
  BY DEF EndsAt
<1>4. r = Append(s, t[e + 1])
  BY <1>3
<1> HIDE DEF s
<1>5. ASSUME NEW i \in 1..Len(s)
      PROVE  s[i] = t[e - Len(s) + i]
  <2>1. i \in 1..Len(r)
    BY <1>1
  <2>2. r[i] = t[(e + 1) - Len(r) + i]
    BY <2>1 DEF EndsAt
  <2>3. (e + 1) - Len(r) + i = e - Len(s) + i
    BY <1>0, <1>1, <2>1
  <2> QED
    BY <1>2, <2>2, <2>3
<1>6. Len(s) <= e /\ e <= Len(t)
  BY <1>1 DEF EndsAt
<1>7. EndsAt(s, t, e)
  BY <1>5, <1>6 DEF EndsAt
<1> QED
  BY <1>1, <1>4, <1>7 DEF s

(* What is behind a position makes no difference to what ends there.       *)
LEMMA EndsAtSameStart ==
  ASSUME NEW A, NEW r \in Seq(A), NEW s \in Seq(A), NEW t \in Seq(A),
         NEW e \in Nat, e <= Len(s), e <= Len(t),
         \A i \in 1..e : s[i] = t[i]
  PROVE  EndsAt(r, s, e) <=> EndsAt(r, t, e)
<1>1. Len(r) <= e => \A i \in 1..Len(r) : e - Len(r) + i \in 1..e
  OBVIOUS
<1> QED
  BY <1>1 DEF EndsAt

(* A word ends at a position exactly when it is a tail of the text before. *)
LEMMA EndsAtIsTail ==
  ASSUME NEW A, NEW r \in Seq(A), NEW t \in Seq(A), NEW e \in 0..Len(t)
  PROVE  IsTail(r, SubSeq(t, 1, e)) <=> EndsAt(r, t, e)
<1> DEFINE s == SubSeq(t, 1, e)
<1>1. s \in Seq(A) /\ Len(s) = e /\ \A i \in 1..e : s[i] = t[i]
  BY StartOfWord
<1> HIDE DEF s
<1>3. EndsAt(r, s, e) <=> EndsAt(r, t, e)
  BY <1>1, EndsAtSameStart
<1>4. IsTail(r, s) <=> EndsAt(r, t, e)
  BY <1>1, <1>3 DEF IsTail
<1> QED
  BY <1>4 DEF s

------------------------------------------------------------------------------
(* The longest words that end at a position                                *)

(* n is the longest word of N that ends at the e-th alphabet of s.         *)
LongestEnding(N, s, e, n) ==
  /\ n \in N
  /\ EndsAt(n, s, e)
  /\ \A m \in N : EndsAt(m, s, e) => Len(m) <= Len(n)

(* As LongestEnding, but longer ones may end there that c does not extend. *)
LongestBefore(N, s, e, n, more, c) ==
  /\ n \in N
  /\ EndsAt(n, s, e)
  /\ \A m \in N : EndsAt(m, s, e) /\ Len(m) > Len(n)
                    => more /\ Append(m, c) \notin N

(* At the beginning of a text the longest word is the empty one.           *)
LEMMA EmptyIsLongest ==
  ASSUME NEW A, NEW N \in SUBSET Seq(A), << >> \in N, NEW s \in Seq(A)
  PROVE  LongestEnding(N, s, 0, << >>)
<1>1. EndsAt(<< >>, s, 0)
  BY EmptyEndsAt
<1>2. \A m \in N : EndsAt(m, s, 0) => Len(m) <= Len(<< >>)
  BY EndsAtZero
<1> QED
  BY <1>1, <1>2 DEF LongestEnding

(* What comes later in the text makes no difference.                       *)
LEMMA LongestSameStart ==
  ASSUME NEW A, NEW N \in SUBSET Seq(A), NEW s \in Seq(A), NEW t \in Seq(A),
         NEW e \in Nat, e <= Len(s), e <= Len(t),
         \A i \in 1..e : s[i] = t[i], NEW n, LongestEnding(N, s, e, n)
  PROVE  LongestEnding(N, t, e, n)
<1>1. \A m \in N : EndsAt(m, s, e) <=> EndsAt(m, t, e)
  BY EndsAtSameStart
<1> QED
  BY <1>1 DEF LongestEnding

(* An edge for the next alphabet leads to the longest word that ends after *)
(* it: a longer one without its last alphabet would be longer than n and   *)
(* could be extended.                                                      *)
LEMMA EdgeKeepsLongest ==
  ASSUME NEW A, NEW N \in SUBSET Seq(A), NEW s \in Seq(A), NEW e \in Nat,
         e < Len(s), NEW n \in N, NEW more,
         \A m \in N : Len(m) # 0 => SubSeq(m, 1, Len(m) - 1) \in N,
         LongestBefore(N, s, e, n, more, s[e + 1]),
         Append(n, s[e + 1]) \in N
  PROVE  LongestEnding(N, s, e + 1, Append(n, s[e + 1]))
<1> DEFINE g == Append(n, s[e + 1])
<1>1. EndsAt(g, s, e + 1) /\ Len(g) = Len(n) + 1 /\ Len(n) \in Nat
  BY EndsAtAppend DEF LongestBefore
<1>2. ASSUME NEW m \in N, EndsAt(m, s, e + 1), Len(m) > Len(g)
      PROVE  FALSE
  <2> DEFINE f == SubSeq(m, 1, Len(m) - 1)
  <2>1. Len(m) # 0 /\ Len(m) \in Nat
    BY <1>1, <1>2
  <2>2. /\ f \in N /\ Len(f) = Len(m) - 1 /\ EndsAt(f, s, e)
        /\ m = Append(f, s[e + 1])
    BY <1>2, <2>1, EndsAtButLast
  <2> HIDE DEF f
  <2>3. Len(f) > Len(n)
    BY <1>1, <1>2, <2>1, <2>2
  <2>4. Append(f, s[e + 1]) \notin N
    BY <2>2, <2>3 DEF LongestBefore
  <2> QED
    BY <2>2, <2>4
<1> HIDE DEF g
<1>3. \A m \in N : EndsAt(m, s, e + 1) => Len(m) <= Len(g)
  BY <1>1, <1>2
<1>4. g \in N
  BY DEF g
<1>5. LongestEnding(N, s, e + 1, g)
  BY <1>1, <1>3, <1>4 DEF LongestEnding
<1> QED
  BY <1>5 DEF g

(* Where not even the root has an edge, no word but the empty one ends     *)
(* after the next alphabet.                                                *)
LEMMA SkipKeepsLongest ==
  ASSUME NEW A, NEW N \in SUBSET Seq(A), NEW s \in Seq(A), NEW e \in Nat,
         e < Len(s), NEW more, << >> \in N,
         \A m \in N : Len(m) # 0 => SubSeq(m, 1, Len(m) - 1) \in N,
         LongestBefore(N, s, e, << >>, more, s[e + 1]),
         Append(<< >>, s[e + 1]) \notin N
  PROVE  LongestEnding(N, s, e + 1, << >>)
<1>1. EndsAt(<< >>, s, e + 1) /\ Len(<< >>) = 0
  BY EmptyEndsAt
<1>2. ASSUME NEW m \in N, EndsAt(m, s, e + 1), Len(m) # 0
      PROVE  FALSE
  <2> DEFINE f == SubSeq(m, 1, Len(m) - 1)
  <2>1. /\ f \in N /\ Len(f) = Len(m) - 1 /\ EndsAt(f, s, e)
        /\ m = Append(f, s[e + 1])
    BY <1>2, EndsAtButLast
  <2> HIDE DEF f
  <2>2. CASE Len(f) = 0
    <3>1. f = << >>
      BY <2>1, <2>2
    <3> QED
      BY <2>1, <3>1
  <2>3. CASE Len(f) # 0
    <3>1. Len(f) > Len(<< >>)
      BY <1>1, <2>1, <2>3
    <3> QED
      BY <2>1, <3>1 DEF LongestBefore
  <2> QED
    BY <2>2, <2>3
<1>3. \A m \in N : EndsAt(m, s, e + 1) => Len(m) <= Len(<< >>)
  BY <1>1, <1>2
<1> QED
  BY <1>1, <1>3 DEF LongestEnding

(* Without an edge the search goes on in f, the longest proper tail of n:  *)
(* a longer word that ends here was ruled out before, or is n itself.      *)
LEMMA FailureKeepsLongest ==
  ASSUME NEW A, NEW N \in SUBSET Seq(A), NEW s \in Seq(A), NEW e \in Nat,
         NEW n, NEW more, more, NEW c, LongestBefore(N, s, e, n, more, c),
         Append(n, c) \notin N, NEW f \in N, IsTail(f, n),
         \A m \in N : IsProperTail(m, n) => Len(m) <= Len(f)
  PROVE  LongestBefore(N, s, e, f, more, c)
<1>1. n \in N /\ n \in Seq(A) /\ f \in Seq(A) /\ EndsAt(n, s, e)
  BY DEF LongestBefore
<1>2. EndsAt(f, s, e)
  BY <1>1, EndsAtTail
<1>3. ASSUME NEW m \in N, EndsAt(m, s, e), Len(m) > Len(f)
      PROVE  Append(m, c) \notin N
  <2>1. m \in Seq(A)
    OBVIOUS
  <2>2. CASE Len(m) > Len(n)
    BY <1>3, <2>2 DEF LongestBefore
  <2>3. CASE Len(m) <= Len(n)
    <3>1. IsTail(m, n)
      BY <1>1, <1>3, <2>1, <2>3, EndsAtOrdered
    <3>2. ~IsProperTail(m, n)
      BY <1>1, <1>3, <2>1
    <3>3. Len(m) = Len(n)
      BY <1>1, <2>1, <2>3, <3>1, <3>2 DEF IsProperTail
    <3>4. m = n
      BY <1>1, <2>1, <3>1, <3>3, TailReflexive, TailsSameLength
    <3> QED
      BY <3>4
  <2> QED
    BY <1>1, <2>1, <2>2, <2>3
<1> QED
  BY <1>2, <1>3 DEF LongestBefore

(* The longest word, before and after the next alphabet is looked at       *)
LEMMA LongestIsBefore ==
  ASSUME NEW A, NEW N \in SUBSET Seq(A), NEW s, NEW e, NEW n, NEW more, NEW c,
         LongestEnding(N, s, e, n)
  PROVE  LongestBefore(N, s, e, n, more, c)
<1>1. n \in N /\ \A m \in N : Len(m) \in Nat
  BY DEF LongestEnding
<1> QED
  BY <1>1 DEF LongestEnding, LongestBefore

------------------------------------------------------------------------------
(* Sequences put together                                                  *)

(* One sequence behind another                                             *)
LEMMA Concatenated ==
  ASSUME NEW A, NEW s \in Seq(A), NEW t \in Seq(A)
  PROVE  /\ s \o t \in Seq(A)
         /\ Len(s \o t) = Len(s) + Len(t)
         /\ \A i \in 1..Len(s) : s[i] = (s \o t)[i]
         /\ \A i \in 1..Len(t) : (s \o t)[Len(s) + i] = t[i]
OBVIOUS

(* The recursive function of FlattenSeq exists.                            *)
LEMMA FlattenExists ==
  ASSUME NEW A, NEW ss \in Seq(Seq(A))
  PROVE  \E f \in [1..Len(ss) -> Seq(A)] :
           \A i \in 1..Len(ss) : f[i] = IF i = 1 THEN ss[i] ELSE f[i - 1] \o ss[i]
<1> DEFINE Flattens(f, m) ==
             \A i \in 1..m : f[i] = IF i = 1 THEN ss[i] ELSE f[i - 1] \o ss[i]
           S == {m \in Nat : m <= Len(ss) => \E f \in [1..m -> Seq(A)] : Flattens(f, m)}
<1>1. 0 \in S
  <2>1. [i \in 1..0 |-> << >>] \in [1..0 -> Seq(A)]
    OBVIOUS
  <2>2. Flattens([i \in 1..0 |-> << >>], 0)
    OBVIOUS
  <2> QED
    BY <2>1, <2>2
<1>2. ASSUME NEW m \in Nat, m \in S, m + 1 <= Len(ss)
      PROVE  \E f \in [1..(m + 1) -> Seq(A)] : Flattens(f, m + 1)
  <2>1. PICK f \in [1..m -> Seq(A)] : Flattens(f, m)
    BY <1>2
  <2> DEFINE new == IF m = 0 THEN ss[1] ELSE f[m] \o ss[m + 1]
             g == [i \in 1..(m + 1) |-> IF i <= m THEN f[i] ELSE new]
  <2>2. new \in Seq(A)
    <3>1. ss[m + 1] \in Seq(A)
      BY <1>2
    <3>2. CASE m = 0
      BY <3>1, <3>2
    <3>3. CASE m # 0
      <4>1. f[m] \in Seq(A)
        BY <3>3
      <4> QED
        BY <3>1, <3>3, <4>1
    <3> QED
      BY <3>2, <3>3
  <2>3. g \in [1..(m + 1) -> Seq(A)]
    <3>1. \A i \in 1..(m + 1) : i <= m => f[i] \in Seq(A)
      OBVIOUS
    <3> HIDE DEF new
    <3> QED
      BY <2>2, <3>1
  <2>4. ASSUME NEW i \in 1..(m + 1)
        PROVE  g[i] = IF i = 1 THEN ss[i] ELSE g[i - 1] \o ss[i]
    <3>1. CASE i <= m
      <4>1. i \in 1..m /\ g[i] = f[i]
        BY <3>1
      <4>2. i # 1 => g[i - 1] = f[i - 1]
        BY <3>1
      <4> HIDE DEF g
      <4> QED
        BY <2>1, <4>1, <4>2
    <3>2. CASE i = m + 1
      <4>1. g[i] = new
        BY <3>2
      <4>2. m # 0 => g[m] = f[m]
        BY <3>2
      <4>3. i - 1 = m /\ (i = 1 <=> m = 0)
        BY <3>2
      <4> HIDE DEF g
      <4> QED
        BY <3>2, <4>1, <4>2, <4>3
    <3> QED
      BY <3>1, <3>2
  <2> HIDE DEF g
  <2> QED
    BY <2>3, <2>4
<1>3. Nat \subseteq S
  <2>1. \A m \in Nat : m \in S => m + 1 \in S
    <3> HIDE DEF Flattens
    <3> QED
      BY <1>2
  <2> HIDE DEF S
  <2> QED
    BY <1>1, <2>1, Induction
<1>4. Len(ss) \in Nat /\ Len(ss) <= Len(ss)
  OBVIOUS
<1> QED
  BY <1>3, <1>4

(* It gives what FlattenSeq is.                                            *)
LEMMA FlattenIs ==
  ASSUME NEW A, NEW ss \in Seq(Seq(A)), ss # << >>
  PROVE  \E f \in [1..Len(ss) -> Seq(A)] :
           /\ FlattenSeq(ss) = f[Len(ss)]
           /\ \A i \in 1..Len(ss) : f[i] = IF i = 1 THEN ss[i] ELSE f[i - 1] \o ss[i]
<1> DEFINE flatten == CHOOSE f : f = [i \in 1..Len(ss) |-> IF i = 1 THEN ss[i] ELSE f[i - 1] \o ss[i]]
<1>1. Len(ss) # 0 /\ Len(ss) \in 0..Len(ss)
  OBVIOUS
<1>2. FlattenSeq(ss) = flatten[Len(ss)]
  BY <1>1 DEF FlattenSeq
<1>3. PICK f \in [1..Len(ss) -> Seq(A)] :
         \A i \in 1..Len(ss) : f[i] = IF i = 1 THEN ss[i] ELSE f[i - 1] \o ss[i]
  <2> HIDE DEF flatten
  <2> QED
    BY FlattenExists
<1>4. f = [i \in 1..Len(ss) |-> IF i = 1 THEN ss[i] ELSE f[i - 1] \o ss[i]]
  BY <1>3
<1>5. flatten = [i \in 1..Len(ss) |-> IF i = 1 THEN ss[i] ELSE flatten[i - 1] \o ss[i]]
  BY <1>4
<1> HIDE DEF flatten
<1>6. \A i \in 1..Len(ss) : flatten[i] = IF i = 1 THEN ss[i] ELSE flatten[i - 1] \o ss[i]
  BY <1>5
<1> DEFINE S == {m \in Nat : m \in 1..Len(ss) => flatten[m] = f[m]}
<1>7. Nat \subseteq S
  <2>1. 0 \in S
    OBVIOUS
  <2>2. ASSUME NEW m \in Nat, m \in S, m + 1 \in 1..Len(ss)
        PROVE  flatten[m + 1] = f[m + 1]
    <3> DEFINE k == m + 1
    <3>3. k \in 1..Len(ss) /\ k - 1 = m
      BY <2>2
    <3>4. /\ f[k] = IF k = 1 THEN ss[k] ELSE f[k - 1] \o ss[k]
          /\ flatten[k] = IF k = 1 THEN ss[k] ELSE flatten[k - 1] \o ss[k]
      <4> HIDE DEF k
      <4> QED
        BY <1>3, <1>6, <3>3
    <3>5. m \in 1..Len(ss) => flatten[m] = f[m]
      BY <2>2
    <3> HIDE DEF S
    <3>1. CASE m = 0
      BY <3>1, <3>4
    <3>2. CASE m # 0
      <4>1. m \in 1..Len(ss) /\ k # 1
        BY <2>2, <3>2
      <4>2. flatten[k] = f[k]
        <5> HIDE DEF k
        <5> QED
          BY <3>3, <3>4, <3>5, <4>1
      <4> QED
        BY <4>2
    <3> QED
      BY <3>1, <3>2
  <2>3. \A m \in Nat : m \in S => m + 1 \in S
    BY <2>2
  <2> HIDE DEF S
  <2> QED
    BY <2>1, <2>3, Induction
<1>8. flatten[Len(ss)] = f[Len(ss)]
  BY <1>1, <1>7
<1> QED
  BY <1>2, <1>3, <1>8

(* FlattenSeq puts one sequence behind the other.                          *)
LEMMA FlattenEmpty == FlattenSeq(<< >>) = << >>
BY DEF FlattenSeq

LEMMA FlattenAppend ==
  ASSUME NEW A, NEW ss \in Seq(Seq(A)), NEW s \in Seq(A)
  PROVE  /\ FlattenSeq(ss) \in Seq(A)
         /\ FlattenSeq(Append(ss, s)) = FlattenSeq(ss) \o s
<1> DEFINE n == Len(ss)
           tt == Append(ss, s)
<1>1. /\ n \in Nat /\ tt \in Seq(Seq(A)) /\ Len(tt) = n + 1 /\ tt # << >>
      /\ tt[n + 1] = s /\ \A i \in 1..n : tt[i] = ss[i]
  <2>1. \A B : ss \in Seq(B) /\ s \in B => tt \in Seq(B)
    OBVIOUS
  <2>2. tt \in Seq(Seq(A))
    <3> HIDE DEF tt
    <3> QED
      BY <2>1
  <2>3. n \in Nat /\ Len(tt) = n + 1 /\ tt[n + 1] = s /\ \A i \in 1..n : tt[i] = ss[i]
    OBVIOUS
  <2>4. tt # << >>
    <3> HIDE DEF tt, n
    <3> QED
      BY <2>3
  <2> QED
    BY <2>2, <2>3, <2>4
<1> HIDE DEF tt, n
<1>2. PICK g \in [1..(n + 1) -> Seq(A)] :
         /\ FlattenSeq(tt) = g[n + 1]
         /\ \A i \in 1..(n + 1) : g[i] = IF i = 1 THEN tt[i] ELSE g[i - 1] \o tt[i]
  <2>1. \E g \in [1..Len(tt) -> Seq(A)] :
          /\ FlattenSeq(tt) = g[Len(tt)]
          /\ \A i \in 1..Len(tt) : g[i] = IF i = 1 THEN tt[i] ELSE g[i - 1] \o tt[i]
    BY <1>1, FlattenIs
  <2> QED
    BY <1>1, <2>1, Zenon
<1>3. CASE ss = << >>
  <2>1. n = 0 /\ FlattenSeq(ss) = << >>
    BY <1>3, FlattenEmpty DEF n
  <2>2. g[1] = s /\ FlattenSeq(tt) = g[1] /\ << >> \o s = s /\ << >> \in Seq(A)
    BY <1>1, <1>2, <2>1
  <2> QED
    BY <2>1, <2>2 DEF tt
<1>4. CASE ss # << >>
  <2>1. PICK f \in [1..n -> Seq(A)] :
           /\ FlattenSeq(ss) = f[n]
           /\ \A i \in 1..n : f[i] = IF i = 1 THEN ss[i] ELSE f[i - 1] \o ss[i]
    BY <1>4, FlattenIs DEF n
  <2>2. n \in 1..n /\ n + 1 # 1 /\ (n + 1) - 1 = n /\ n + 1 \in 1..(n + 1)
    BY <1>1, <1>4 DEF n
  <2> DEFINE S == {m \in Nat : m \in 1..n => g[m] = f[m]}
  <2>3. 0 \in S
    OBVIOUS
  <2>4. ASSUME NEW m \in Nat, m \in S, m + 1 \in 1..n
        PROVE  g[m + 1] = f[m + 1]
    <3> DEFINE k == m + 1
    <3>1. k \in 1..n /\ k \in 1..(n + 1) /\ k - 1 = m
      BY <1>1, <2>4
    <3>2. m \in 1..n => g[m] = f[m]
      BY <2>4
    <3>3. k # 1 => m \in 1..n
      BY <1>1, <2>4
    <3> HIDE DEF k, S
    <3>4. /\ f[k] = IF k = 1 THEN ss[k] ELSE f[k - 1] \o ss[k]
          /\ g[k] = IF k = 1 THEN tt[k] ELSE g[k - 1] \o tt[k]
          /\ tt[k] = ss[k]
      BY <1>1, <1>2, <2>1, <3>1
    <3>5. g[k] = f[k]
      BY <3>1, <3>2, <3>3, <3>4
    <3> QED
      BY <3>5 DEF k
  <2>5. Nat \subseteq S
    <3>1. \A m \in Nat : m \in S => m + 1 \in S
      BY <2>4
    <3> HIDE DEF S
    <3> QED
      BY <2>3, <3>1, Induction
  <2>6. g[n] = f[n]
    BY <1>1, <2>2, <2>5
  <2>7. g[n + 1] = g[n] \o s
    BY <1>1, <1>2, <2>2
  <2>8. f[n] \in Seq(A)
    BY <2>2
  <2> QED
    BY <1>2, <2>1, <2>6, <2>7, <2>8 DEF tt
<1> QED
  BY <1>3, <1>4

(* Sequences of the same elements are the same.                            *)
LEMMA SameElements ==
  ASSUME NEW A, NEW s \in Seq(A), NEW t \in Seq(A), Len(s) = Len(t),
         \A k \in 1..Len(t) : s[k] = t[k]
  PROVE  s = t
OBVIOUS

(* A function of the first m numbers is a sequence of m elements.          *)
LEMMA FunctionIsSequence ==
  ASSUME NEW A, NEW m \in Nat, NEW g \in [1..m -> A]
  PROVE  g \in Seq(A) /\ Len(g) = m
OBVIOUS

(* Where the parts of a flattened sequence are: each begins at the end of  *)
(* the one before it.                                                      *)
FlattenPlaced(ss, place) ==
  /\ place[0] = 0
  /\ place[Len(ss)] = Len(FlattenSeq(ss))
  /\ \A i \in 1..Len(ss) :
       /\ place[i] = place[i - 1] + Len(ss[i])
       /\ place[i] <= Len(FlattenSeq(ss))
       /\ \A k \in 1..Len(ss[i]) : FlattenSeq(ss)[place[i - 1] + k] = ss[i][k]

LEMMA FlattenPlaces ==
  ASSUME NEW A, NEW ss \in Seq(Seq(A))
  PROVE  /\ FlattenSeq(ss) \in Seq(A)
         /\ \E place \in [0..Len(ss) -> Nat] : FlattenPlaced(ss, place)
<1> DEFINE P(r) == /\ FlattenSeq(r) \in Seq(A)
                   /\ \E place \in [0..Len(r) -> Nat] : FlattenPlaced(r, place)
           S == {n \in Nat : \A r \in Seq(Seq(A)) : Len(r) = n => P(r)}
<1>1. 0 \in S
  <2> SUFFICES ASSUME NEW r \in Seq(Seq(A)), Len(r) = 0
               PROVE  P(r)
    OBVIOUS
  <2>1. r = << >> /\ FlattenSeq(r) = << >>
    BY FlattenEmpty
  <2> DEFINE place == [i \in 0..0 |-> 0]
  <2>2. place \in [0..Len(r) -> Nat]
    OBVIOUS
  <2>3. FlattenPlaced(r, place)
    <3>1. place[0] = 0 /\ Len(r) = 0 /\ Len(FlattenSeq(r)) = 0
      BY <2>1
    <3> HIDE DEF place
    <3> QED
      BY <3>1 DEF FlattenPlaced
  <2>4. FlattenSeq(r) \in Seq(A)
    <3>1. << >> \in Seq(A)
      OBVIOUS
    <3> QED
      BY <2>1, <3>1, Zenon
  <2> HIDE DEF place
  <2> QED
    BY <2>2, <2>3, <2>4, Zenon
<1>2. ASSUME NEW n \in Nat, n \in S, NEW r \in Seq(Seq(A)), Len(r) = n + 1
      PROVE  P(r)
  <2> DEFINE q == SubSeq(r, 1, n)
             s == r[n + 1]
  <2>1. /\ q \in Seq(Seq(A)) /\ Len(q) = n /\ s \in Seq(A)
        /\ \A i \in 1..n : q[i] = r[i]
    BY <1>2
  <2>2. r = Append(q, s)
    BY <1>2
  <2> HIDE DEF q, s
  <2>3. P(q)
    BY <1>2, <2>1
  <2>4. PICK f \in [0..n -> Nat] : FlattenPlaced(q, f)
    BY <2>1, <2>3
  <2>5. FlattenSeq(q) \in Seq(A) /\ FlattenSeq(r) = FlattenSeq(q) \o s
    BY <2>1, <2>2, FlattenAppend
  <2> DEFINE fq == FlattenSeq(q)
             fr == FlattenSeq(r)
             place == [i \in 0..(n + 1) |-> IF i <= n THEN f[i] ELSE Len(fr)]
  <2>6. /\ fr \in Seq(A) /\ Len(fr) = Len(fq) + Len(s)
        /\ \A i \in 1..Len(fq) : fq[i] = fr[i]
        /\ \A i \in 1..Len(s) : fr[Len(fq) + i] = s[i]
        /\ Len(fq) \in Nat /\ Len(s) \in Nat
    BY <2>1, <2>5, Concatenated
  <2>7. place \in [0..Len(r) -> Nat]
    <3>1. Len(fr) \in Nat
      BY <2>6
    <3> HIDE DEF fr
    <3> QED
      BY <3>1, <1>2
  <2>8. /\ \A i \in 0..n : place[i] = f[i]
        /\ place[n + 1] = Len(fr)
    OBVIOUS
  <2>9. /\ f[0] = 0 /\ f[n] = Len(fq)
        /\ \A i \in 1..n :
             /\ f[i] = f[i - 1] + Len(q[i])
             /\ f[i] <= Len(fq)
             /\ \A k \in 1..Len(q[i]) : fq[f[i - 1] + k] = q[i][k]
    BY <2>1, <2>4, Zenon DEF FlattenPlaced
  <2> HIDE DEF place, fq, fr
  <2>10. ASSUME NEW i \in 1..(n + 1)
         PROVE  /\ place[i] = place[i - 1] + Len(r[i])
                /\ place[i] <= Len(fr)
                /\ \A k \in 1..Len(r[i]) : fr[place[i - 1] + k] = r[i][k]
    <3>1. CASE i \in 1..n
      <4>1. /\ place[i] = f[i] /\ place[i - 1] = f[i - 1] /\ r[i] = q[i]
            /\ f[i - 1] \in Nat /\ f[i] \in Nat /\ q[i] \in Seq(A)
        BY <2>1, <2>8, <3>1
      <4>2. f[i] = f[i - 1] + Len(q[i]) /\ f[i] <= Len(fq)
        BY <2>9, <3>1
      <4>3. ASSUME NEW k \in 1..Len(q[i])
            PROVE  fr[f[i - 1] + k] = q[i][k]
        <5>1. fq[f[i - 1] + k] = q[i][k]
          BY <2>9, <3>1
        <5>2. f[i - 1] + k \in 1..Len(fq)
          <6>1. Len(q[i]) \in Nat /\ k \in Nat /\ 1 <= k /\ k <= Len(q[i])
            BY <4>1
          <6> DEFINE a == f[i - 1]
                     b == f[i]
                     l == Len(q[i])
                     m == Len(fq)
          <6>2. /\ a \in Nat /\ m \in Nat /\ b = a + l /\ b <= m
                /\ l \in Nat /\ k \in Nat /\ 1 <= k /\ k <= l
            BY <2>6, <4>1, <4>2, <6>1
          <6> HIDE DEF a, b, l, m
          <6>3. a + k \in 1..m
            BY <6>2
          <6> QED
            BY <6>3 DEF a, m
        <5> QED
          BY <2>6, <5>1, <5>2
      <4> QED
        BY <2>6, <4>1, <4>2, <4>3
    <3>2. CASE i = n + 1
      <4>1. place[i] = Len(fr) /\ place[i - 1] = Len(fq) /\ r[i] = s
        BY <2>8, <2>9, <3>2 DEF s
      <4> QED
        BY <2>6, <4>1
    <3> QED
      BY <3>1, <3>2
  <2>11. place[0] = 0 /\ place[Len(r)] = Len(fr)
    BY <1>2, <2>8, <2>9
  <2>12. FlattenPlaced(r, place)
    BY <1>2, <2>10, <2>11 DEF FlattenPlaced, fr
  <2> QED
    BY <2>6, <2>7, <2>12 DEF fr
<1>3. Nat \subseteq S
  <2>1. \A n \in Nat : n \in S => n + 1 \in S
    BY <1>2
  <2> HIDE DEF S
  <2> QED
    BY <1>1, <2>1, Induction
<1>4. Len(ss) \in S
  <2> HIDE DEF S
  <2> QED
    BY <1>3
<1> QED
  BY <1>4

(* Flattening begins with the first part.                                  *)
LEMMA FlattenPrepend ==
  ASSUME NEW A, NEW s \in Seq(A), NEW ss \in Seq(Seq(A))
  PROVE  FlattenSeq(<<s>> \o ss) = s \o FlattenSeq(ss)
<1> DEFINE P(r) == FlattenSeq(<<s>> \o r) = s \o FlattenSeq(r)
           S == {n \in Nat : \A r \in Seq(Seq(A)) : Len(r) = n => P(r)}
<1>1. ASSUME NEW r \in Seq(Seq(A)), Len(r) = 0
      PROVE  P(r)
  <2>1. r = << >> /\ << >> \in Seq(Seq(A)) /\ <<s>> \o r = Append(<< >>, s)
    BY <1>1
  <2>2. FlattenSeq(Append(<< >>, s)) = FlattenSeq(<< >>) \o s
    BY <2>1, FlattenAppend
  <2>3. << >> \o s = s /\ s \o << >> = s
    OBVIOUS
  <2> QED
    BY <2>1, <2>2, <2>3, FlattenEmpty
<1>2. ASSUME NEW n \in Nat, n \in S, NEW r \in Seq(Seq(A)), Len(r) = n + 1
      PROVE  P(r)
  <2> DEFINE q == SubSeq(r, 1, n)
             x == r[n + 1]
  <2>1. q \in Seq(Seq(A)) /\ Len(q) = n /\ x \in Seq(A) /\ r = Append(q, x)
    BY <1>2
  <2> HIDE DEF q, x
  <2>2. FlattenSeq(<<s>> \o q) = s \o FlattenSeq(q)
    BY <1>2, <2>1
  <2> DEFINE sq == <<s>> \o q
  <2>3. sq \in Seq(Seq(A)) /\ <<s>> \o r = Append(sq, x)
    BY <2>1
  <2> HIDE DEF sq
  <2>4. FlattenSeq(q) \in Seq(A) /\ FlattenSeq(r) = FlattenSeq(q) \o x
    BY <2>1, FlattenAppend
  <2>5. FlattenSeq(Append(sq, x)) = FlattenSeq(sq) \o x
    BY <2>1, <2>3, FlattenAppend
  <2> DEFINE fq == FlattenSeq(q)
  <2>6. fq \in Seq(A)
    BY <2>4
  <2> HIDE DEF fq
  <2>7. (s \o fq) \o x = s \o (fq \o x)
    BY <2>1, <2>6
  <2> QED
    BY <2>2, <2>3, <2>4, <2>5, <2>7 DEF sq, fq
<1>3. 0 \in S
  BY <1>1
<1>7. ASSUME NEW n \in Nat, n \in S
      PROVE  n + 1 \in S
  <2>1. \A r \in Seq(Seq(A)) : Len(r) = n + 1 => P(r)
    <3> HIDE DEF P, S
    <3> QED
      BY <1>2, <1>7
  <2> HIDE DEF P
  <2> QED
    BY <2>1
<1>6. \A n \in Nat : n \in S => n + 1 \in S
  <2> HIDE DEF S
  <2> QED
    BY <1>7
<1>4. Nat \subseteq S
  <2> HIDE DEF S
  <2> QED
    BY <1>3, <1>6, Induction
<1>5. Len(ss) \in S
  <2> HIDE DEF S
  <2> QED
    BY <1>4
<1> QED
  BY <1>5

------------------------------------------------------------------------------
(* Functions that are defined by recursion                                 *)

(* step says what a function of [D -> V] is at a place of D, when it is    *)
(* known at the places of lower rank.                                      *)
IsRecursive(D, V, N, rank, step) ==
  /\ rank \in [D -> 0..N]
  /\ \A x \in D, f \in [D -> V] : step[f][x] \in V
  /\ \A x \in D, f \in [D -> V], g \in [D -> V] :
       (\A y \in D : rank[y] < rank[x] => f[y] = g[y])
         => step[f][x] = step[g][x]

(* Such a function exists.                                                 *)
LEMMA Recursion ==
  ASSUME NEW D, NEW V, NEW e \in V, NEW N \in Nat, NEW rank, NEW step,
         IsRecursive(D, V, N, rank, step)
  PROVE  \E f \in [D -> V] : \A x \in D : f[x] = step[f][x]
<1>0. /\ rank \in [D -> 0..N]
      /\ \A x \in D, f \in [D -> V] : step[f][x] \in V
      /\ \A x \in D, f \in [D -> V], g \in [D -> V] :
           (\A y \in D : rank[y] < rank[x] => f[y] = g[y])
             => step[f][x] = step[g][x]
  BY DEF IsRecursive
<1> DEFINE Q(n) == \E f \in [D -> V] :
                     \A x \in D : rank[x] < n => f[x] = step[f][x]
           S == {n \in Nat : Q(n)}
<1>1. 0 \in S
  <2>1. [x \in D |-> e] \in [D -> V]
    OBVIOUS
  <2>2. \A x \in D : ~(rank[x] < 0)
    BY <1>0
  <2> QED
    BY <2>1, <2>2
<1>2. ASSUME NEW n \in Nat, n \in S
      PROVE  Q(n + 1)
  <2>1. PICK f \in [D -> V] : \A x \in D : rank[x] < n => f[x] = step[f][x]
    BY <1>2
  <2> DEFINE g == [x \in D |-> step[f][x]]
  <2>2. \A x \in D : step[f][x] \in V
    BY <1>0
  <2>3. g \in [D -> V] /\ \A x \in D : g[x] = step[f][x]
    BY <2>2
  <2> HIDE DEF g
  <2>4. ASSUME NEW x \in D, rank[x] < n + 1
        PROVE  g[x] = step[g][x]
    <3>1. ASSUME NEW y \in D, rank[y] < rank[x]
          PROVE  f[y] = g[y]
      <4>1. rank[y] \in Nat /\ rank[x] \in Nat
        BY <1>0
      <4>2. rank[y] < n
        BY <2>4, <3>1, <4>1
      <4> QED
        BY <2>1, <2>3, <4>2
    <3>2. step[f][x] = step[g][x]
      BY <1>0, <2>3, <3>1
    <3> QED
      BY <2>3, <3>2
  <2> QED
    BY <2>3, <2>4
<1>3. Nat \subseteq S
  <2> HIDE DEF Q
  <2>1. \A n \in Nat : n \in S => n + 1 \in S
    BY <1>2
  <2> HIDE DEF S
  <2> QED
    BY <1>1, <2>1, Induction
<1>4. Q(N + 1)
  <2>1. N + 1 \in S
    <3> HIDE DEF S
    <3> QED
      BY <1>3
  <2> QED
    BY <2>1
<1>5. \A x \in D : rank[x] < N + 1
  BY <1>0
<1> QED
  BY <1>4, <1>5

(* Induction over ranks                                                    *)
LEMMA RankInduction ==
  ASSUME NEW D, NEW N \in Nat, NEW rank \in [D -> 0..N], NEW P,
         \A x \in D : (\A y \in D : rank[y] < rank[x] => y \in P) => x \in P
  PROVE  D \subseteq P
<1> DEFINE Q(n) == \A x \in D : rank[x] < n => x \in P
           S == {n \in Nat : Q(n)}
<1>1. Q(0)
  OBVIOUS
<1>2. ASSUME NEW n \in Nat, Q(n)
      PROVE  Q(n + 1)
  <2> SUFFICES ASSUME NEW x \in D, rank[x] < n + 1
               PROVE  x \in P
    OBVIOUS
  <2>1. ASSUME NEW y \in D, rank[y] < rank[x]
        PROVE  y \in P
    <3>1. rank[y] \in Nat /\ rank[x] \in Nat
      OBVIOUS
    <3>2. rank[y] < n
      BY <2>1, <3>1
    <3> QED
      BY <1>2, <3>2
  <2> QED
    BY <2>1
<1>3. Nat \subseteq S
  <2> HIDE DEF Q
  <2>1. 0 \in S /\ \A n \in Nat : n \in S => n + 1 \in S
    BY <1>1, <1>2
  <2> HIDE DEF S
  <2> QED
    BY <2>1, Induction
<1>4. Q(N + 1)
  <2>1. N + 1 \in S
    <3> HIDE DEF S
    <3> QED
      BY <1>3
  <2> QED
    BY <2>1
<1>5. \A x \in D : rank[x] < N + 1
  BY rank \in [D -> 0..N]
<1> QED
  BY <1>4, <1>5

(* The ranks of positions: how far it is to the end                        *)
ToEnd(n) == [i \in 1..(n + 1) |-> (n + 1) - i]

LEMMA ToEndIs ==
  ASSUME NEW n \in Nat
  PROVE  /\ ToEnd(n) \in [1..(n + 1) -> 0..n]
         /\ \A i, j \in 1..(n + 1) : i < j <=> ToEnd(n)[j] < ToEnd(n)[i]
BY DEF ToEnd

(* What holds of a place when it holds of all later ones holds of each.    *)
LEMMA BackwardInduction ==
  ASSUME NEW n \in Nat, NEW P,
         \A i \in 1..(n + 1) : (\A j \in (i + 1)..(n + 1) : j \in P) => i \in P
  PROVE  \A i \in 1..(n + 1) : i \in P
<1> DEFINE D == 1..(n + 1)
           rank == ToEnd(n)
<1>1. rank \in [D -> 0..n] /\ \A i, j \in D : i < j <=> rank[j] < rank[i]
  BY ToEndIs
<1> HIDE DEF rank
<1>2. ASSUME NEW i \in D, \A j \in D : rank[j] < rank[i] => j \in P
      PROVE  i \in P
  <2>1. \A j \in (i + 1)..(n + 1) : j \in P
    BY <1>1, <1>2
  <2> QED
    BY <2>1
<1>3. \A i \in D : (\A j \in D : rank[j] < rank[i] => j \in P) => i \in P
  BY <1>2
<1>4. D \subseteq P
  <2> HIDE DEF D
  <2> QED
    BY <1>1, <1>3, RankInduction
<1> QED
  BY <1>4

(* step says what a function of [1..(n + 1) -> V] is at a place, when it   *)
(* is known at the later ones.                                             *)
IsBackward(n, V, step) ==
  /\ \A i \in 1..(n + 1), f \in [1..(n + 1) -> V] : step[f][i] \in V
  /\ \A i \in 1..(n + 1), f \in [1..(n + 1) -> V], g \in [1..(n + 1) -> V] :
       (\A j \in (i + 1)..(n + 1) : f[j] = g[j]) => step[f][i] = step[g][i]

LEMMA BackwardRecursion ==
  ASSUME NEW n \in Nat, NEW V, NEW e \in V, NEW step, IsBackward(n, V, step)
  PROVE  \E f \in [1..(n + 1) -> V] : \A i \in 1..(n + 1) : f[i] = step[f][i]
<1> DEFINE D == 1..(n + 1)
           rank == ToEnd(n)
<1>1. rank \in [D -> 0..n] /\ \A i, j \in D : i < j <=> rank[j] < rank[i]
  BY ToEndIs
<1> HIDE DEF rank
<1>2. \A i \in D, f \in [D -> V] : step[f][i] \in V
  BY DEF IsBackward
<1>3. ASSUME NEW i \in D, NEW f \in [D -> V], NEW g \in [D -> V],
             \A j \in D : rank[j] < rank[i] => f[j] = g[j]
      PROVE  step[f][i] = step[g][i]
  <2>1. \A j \in (i + 1)..(n + 1) : f[j] = g[j]
    BY <1>1, <1>3
  <2> QED
    BY <2>1 DEF IsBackward
<1>4. IsRecursive(D, V, n, rank, step)
  <2> HIDE DEF D
  <2> QED
    BY <1>1, <1>2, <1>3 DEF IsRecursive
<1> HIDE DEF D
<1>5. \E f \in [D -> V] : \A i \in D : f[i] = step[f][i]
  BY <1>4, Recursion
<1> QED
  BY <1>5 DEF D
==============================================================================
