---------------------------- MODULE StringsProofs ----------------------------
(***************************************************************************)
(* Proofs about MCStrings: for patterns, texts and vectors of any length.  *)
(*                                                                         *)
(* The model computes with recursive functions.  Each is a CHOOSE of a     *)
(* function that is its own body, so that there must be one before         *)
(* anything is known of it: the lemmas called ...Is and ...Are show it and *)
(* unfold the definition once (Recursion, BackwardRecursion of             *)
(* WordsProofs).                                                           *)
(*                                                                         *)
(* What get_meta_words makes of a pattern is compared with what fnmatch    *)
(* makes of it by way of Reads: rules that lead from the end of a pattern  *)
(* to its beginning, over a wildcard, a bracket expression or a stretch of *)
(* literal symbols at a time.  The meta-words are read by every set of     *)
(* rules (MetaWordsAreRead); the two theorems about them each give a       *)
(* meaning to Reads.                                                       *)
(***************************************************************************)
EXTENDS MCStrings, WordsProofs

(* What is left of an integer, and the byte that is taken off it           *)
LEMMA Shifted ==
  ASSUME NEW b \in Nat, b > 0, NEW n \in Nat
  PROVE  n \div b \in Nat /\ n % b \in 0..(b - 1) /\ (n < b => n % b = n)
OBVIOUS

(* The bytes of an integer that fits in one                                *)
LEMMA AddIntSmall ==
  ASSUME NEW a \in 0..(Base - 1)
  PROVE  /\ AddInt(a) \in Seq(0..(Base - 1))
         /\ Len(AddInt(a)) = Width
         /\ AddInt(a)[1] = a
<1> DEFINE D == 1..Width
           rest == CHOOSE f : f = [i \in D |-> IF i = 1 THEN a ELSE f[i - 1] \div Base]
           step == [f \in [D -> Nat] |->
                      [i \in D |-> IF i = 1 THEN a ELSE f[i - 1] \div Base]]
           rank == [i \in D |-> i]
<1>1. Base \in Nat /\ Base > 1 /\ Width \in Nat /\ Width > 0 /\ a \in Nat /\ a < Base
  BY SerializerAssumption
<1>2. AddInt(a) = [i \in D |-> rest[i] % Base]
  BY DEF AddInt
<1>3. \A i \in D, f \in [D -> Nat] : (IF i = 1 THEN a ELSE f[i - 1] \div Base) \in Nat
  <2>1. ASSUME NEW i \in D, NEW f \in [D -> Nat]
        PROVE  (IF i = 1 THEN a ELSE f[i - 1] \div Base) \in Nat
    <3>1. CASE i = 1
      BY <1>1, <3>1
    <3>2. CASE i # 1
      <4>1. f[i - 1] \in Nat
        BY <1>1, <3>2
      <4> QED
        BY <1>1, <3>2, <4>1, Shifted
    <3> QED
      BY <3>1, <3>2
  <2> HIDE DEF D
  <2> QED
    BY <2>1
<1>4. rank \in [D -> 0..Width]
  BY <1>1
<1>5. \A i \in D : i # 1 => i - 1 \in D /\ rank[i - 1] < rank[i]
  BY <1>1
<1>6. \A i \in D, f \in [D -> Nat] :
         step[f][i] = IF i = 1 THEN a ELSE f[i - 1] \div Base
  <2> HIDE DEF D
  <2> QED
    OBVIOUS
<1>7. \E f \in [D -> Nat] : \A i \in D : f[i] = step[f][i]
  <2>1. ASSUME NEW i \in D, NEW f \in [D -> Nat], NEW g \in [D -> Nat],
               \A j \in D : rank[j] < rank[i] => f[j] = g[j]
        PROVE  step[f][i] = step[g][i]
    <3> HIDE DEF step, D, rank
    <3> QED
      BY <1>5, <1>6, <2>1
  <2>2. \A i \in D : \A f, g \in [D -> Nat] :
          (\A j \in D : rank[j] < rank[i] => f[j] = g[j])
            => step[f][i] = step[g][i]
    BY <2>1
  <2> HIDE DEF step, D, rank
  <2>3. \A i \in D, f \in [D -> Nat] : step[f][i] \in Nat
    BY <1>3, <1>6
  <2>5. IsRecursive(D, Nat, Width, rank, step)
    BY <1>4, <2>2, <2>3 DEF IsRecursive
  <2>4. a \in Nat /\ Width \in Nat
    BY <1>1
  <2> QED
    BY <2>4, <2>5, Recursion
<1>8. PICK f \in [D -> Nat] :
         \A i \in D : f[i] = IF i = 1 THEN a ELSE f[i - 1] \div Base
  <2> HIDE DEF step, D
  <2> QED
    BY <1>6, <1>7
<1>9. f = [i \in D |-> IF i = 1 THEN a ELSE f[i - 1] \div Base]
  <2> HIDE DEF D
  <2> QED
    BY <1>8
<1>10. rest = [i \in D |-> IF i = 1 THEN a ELSE rest[i - 1] \div Base]
  <2> HIDE DEF D
  <2> QED
    BY <1>9
<1> HIDE DEF rest
<1>11. \A i \in D : rest[i] = IF i = 1 THEN a ELSE rest[i - 1] \div Base
  <2> HIDE DEF D
  <2> QED
    BY <1>10, Zenon
<1>12. \A i \in D : rest[i] = f[i]
  <2> DEFINE P == {i \in D : rest[i] = f[i]}
  <2>1. ASSUME NEW i \in D, \A j \in D : rank[j] < rank[i] => j \in P
        PROVE  i \in P
    <3> HIDE DEF D, rank
    <3> QED
      BY <1>5, <1>8, <1>11, <2>1
  <2>2. D \subseteq P
    <3> HIDE DEF D, P, rank
    <3> QED
      BY <1>1, <1>4, <2>1, RankInduction
  <2> QED
    BY <2>2
<1>13. \A i \in D : rest[i] % Base \in 0..(Base - 1)
  BY <1>1, <1>12, Shifted
<1>14. 1 \in D /\ rest[1] = a
  BY <1>1, <1>11
<1>15. a % Base = a
  BY <1>1, Shifted
<1>16. AddInt(a) \in [1..Width -> 0..(Base - 1)] /\ AddInt(a)[1] = a
  BY <1>2, <1>13, <1>14, <1>15
<1> QED
  BY <1>1, <1>16

(* The values of a byte                                                    *)
Bytes == 0..(Base - 1)

(* What the loop of unserialize leaves behind                              *)
Result == [strings : Seq(Seq(Bytes)), end : Nat, within : BOOLEAN]

(* Where the string that begins at an iterator ends                        *)
StringEnd(b, it) == it + Width + GetInt(b, it)

(* The body of ReadStrings, for any function in the place of read          *)
ReadBody(b, f, it) ==
  LET from == it + Width
      to == from + GetInt(b, it)
      rest == f[to]
  IN  IF it >= Len(b)
      THEN [strings |-> << >>, end |-> it, within |-> TRUE]
      ELSE IF to > Len(b)
      THEN [strings |-> << >>, end |-> to, within |-> to = from]
      ELSE [rest EXCEPT !.strings = <<SubSeq(b, from + 1, to)>> \o @]

(* The iterator moves forward.                                             *)
LEMMA StringEndIs ==
  ASSUME NEW b \in Seq(Bytes), NEW it \in Nat, it < Len(b)
  PROVE  /\ StringEnd(b, it) \in Nat
         /\ StringEnd(b, it) >= it + Width
         /\ StringEnd(b, it) > it
<1>1. Base \in Nat /\ Width \in Nat /\ Width > 0 /\ Len(b) \in Nat
  BY SerializerAssumption
<1>2. b[it + 1] \in Nat
  <2>1. it + 1 \in 1..Len(b)
    BY <1>1
  <2> QED
    BY <1>1, <2>1 DEF Bytes
<1> QED
  BY <1>1, <1>2 DEF StringEnd, GetInt

(* At the end, or beyond it                                                *)
LEMMA BodyAtEnd ==
  ASSUME NEW b \in Seq(Bytes), NEW it \in Nat, it >= Len(b), NEW f
  PROVE  ReadBody(b, f, it) = [strings |-> << >>, end |-> it, within |-> TRUE]
BY DEF ReadBody

(* Where a string is cut short                                             *)
LEMMA BodyCut ==
  ASSUME NEW b \in Seq(Bytes), NEW it \in Nat, it < Len(b), NEW f,
         StringEnd(b, it) > Len(b)
  PROVE  ReadBody(b, f, it) = [strings |-> << >>, end |-> StringEnd(b, it),
                               within |-> StringEnd(b, it) = it + Width]
<1>1. ~(it >= Len(b))
  OBVIOUS
<1> QED
  BY <1>1 DEF ReadBody, StringEnd

(* Where a string is whole                                                 *)
LEMMA BodyWhole ==
  ASSUME NEW b \in Seq(Bytes), NEW it \in Nat, it < Len(b), NEW f,
         StringEnd(b, it) <= Len(b), f[StringEnd(b, it)] \in Result
  PROVE  /\ SubSeq(b, it + Width + 1, StringEnd(b, it)) \in Seq(Bytes)
         /\ ReadBody(b, f, it) \in Result
         /\ ReadBody(b, f, it) =
              [strings |-> <<SubSeq(b, it + Width + 1, StringEnd(b, it))>>
                             \o f[StringEnd(b, it)].strings,
               end |-> f[StringEnd(b, it)].end,
               within |-> f[StringEnd(b, it)].within]
<1> DEFINE to == StringEnd(b, it)
           s == SubSeq(b, it + Width + 1, to)
           r == f[to]
<1>1. s \in Seq(Bytes)
  <2>1. Width \in Nat /\ Width > 0 /\ Len(b) \in Nat
    BY SerializerAssumption
  <2>2. to \in Nat /\ to <= Len(b) /\ it + Width + 1 \in Nat /\ it + Width + 1 >= 1
    BY <2>1, StringEndIs
  <2> HIDE DEF to
  <2> QED
    BY <2>2
<1>2. ReadBody(b, f, it) = [r EXCEPT !.strings = <<s>> \o @]
  <2>1. ~(it >= Len(b)) /\ ~(to > Len(b))
    BY StringEndIs
  <2> QED
    BY <2>1 DEF ReadBody, StringEnd
<1> HIDE DEF to, s, r
<1>3. /\ r = [strings |-> r.strings, end |-> r.end, within |-> r.within]
      /\ r.strings \in Seq(Seq(Bytes)) /\ r.end \in Nat /\ r.within \in BOOLEAN
  BY DEF Result, to, r
<1>4. <<s>> \o r.strings \in Seq(Seq(Bytes))
  <2>1. <<s>> \in Seq(Seq(Bytes))
    BY <1>1
  <2> QED
    BY <1>3, <2>1, Concatenated
<1>5. ReadBody(b, f, it) = [strings |-> <<s>> \o r.strings, end |-> r.end, within |-> r.within]
  BY <1>2, <1>3
<1>6. ReadBody(b, f, it) \in Result
  BY <1>3, <1>4, <1>5 DEF Result
<1> QED
  BY <1>1, <1>5, <1>6 DEF to, s, r

(* The rank of an iterator: how many bytes are left                        *)
Left(b) == [it \in Nat |-> IF it < Len(b) THEN Len(b) - it ELSE 0]

(* Reading a string, the loop comes nearer to the end.                     *)
LEMMA LeftIs ==
  ASSUME NEW b \in Seq(Bytes)
  PROVE  /\ Left(b) \in [Nat -> 0..Len(b)]
         /\ \A it \in Nat :
              it < Len(b) => Left(b)[StringEnd(b, it)] < Left(b)[it]
<1>1. Left(b) \in [Nat -> 0..Len(b)]
  BY DEF Left
<1>2. ASSUME NEW it \in Nat, it < Len(b)
      PROVE  Left(b)[StringEnd(b, it)] < Left(b)[it]
  BY <1>2, StringEndIs DEF Left
<1> QED
  BY <1>1, <1>2

(* The body reads read at the end of the string only.                      *)
LEMMA BodyDepends ==
  ASSUME NEW b \in Seq(Bytes), NEW it \in Nat, NEW f, NEW g,
         \A y \in Nat : Left(b)[y] < Left(b)[it] => f[y] = g[y]
  PROVE  ReadBody(b, f, it) = ReadBody(b, g, it)
<1>1. CASE it >= Len(b)
  BY <1>1 DEF ReadBody
<1>2. CASE it < Len(b)
  <2>1. f[StringEnd(b, it)] = g[StringEnd(b, it)]
    BY <1>2, LeftIs, StringEndIs
  <2> QED
    BY <2>1 DEF ReadBody, StringEnd
<1>3. it >= Len(b) \/ it < Len(b)
  OBVIOUS
<1> QED
  BY <1>1, <1>2, <1>3

(* The body gives a result when the function it goes on with does.         *)
LEMMA BodyTyped ==
  ASSUME NEW b \in Seq(Bytes), NEW it \in Nat, NEW f \in [Nat -> Result]
  PROVE  ReadBody(b, f, it) \in Result
<1>1. CASE it >= Len(b)
  <2>1. [strings |-> << >>, end |-> it, within |-> TRUE] \in Result
    BY DEF Result
  <2> QED
    BY <1>1, <2>1, BodyAtEnd
<1>2. CASE it < Len(b)
  <2>1. StringEnd(b, it) \in Nat
    BY <1>2, StringEndIs
  <2>2. CASE StringEnd(b, it) > Len(b)
    <3>1. [strings |-> << >>, end |-> StringEnd(b, it),
           within |-> StringEnd(b, it) = it + Width] \in Result
      BY <2>1 DEF Result
    <3> QED
      BY <1>2, <2>2, <3>1, BodyCut
  <2>3. CASE StringEnd(b, it) <= Len(b)
    <3>1. f[StringEnd(b, it)] \in Result
      BY <2>1
    <3> QED
      BY <1>2, <2>3, <3>1, BodyWhole
  <2> QED
    BY <2>1, <2>2, <2>3
<1>3. it >= Len(b) \/ it < Len(b)
  OBVIOUS
<1> QED
  BY <1>1, <1>2, <1>3

(* What ReadStrings returns is its body, with itself in the place of read. *)
LEMMA ReadStringsIs ==
  ASSUME NEW b \in Seq(Bytes)
  PROVE  \E f : \A it \in Nat : /\ f[it] \in Result
                              /\ f[it] = ReadStrings(b, it)
                              /\ f[it] = ReadBody(b, f, it)
<1> DEFINE D == Nat
           rank == Left(b)
           read == CHOOSE f : f = [it \in D |-> ReadBody(b, f, it)]
           step == [f \in [D -> Result] |-> [it \in D |-> ReadBody(b, f, it)]]
           none == [strings |-> << >>, end |-> 0, within |-> TRUE]
<1>1. \A it \in D : ReadStrings(b, it) = read[it]
  BY DEF ReadStrings, ReadBody
<1>2. Len(b) \in Nat /\ none \in Result
  BY DEF Result
<1>3. rank \in [D -> 0..Len(b)]
  BY LeftIs
<1>4. \A f, g : \A it \in D :
         (\A y \in D : rank[y] < rank[it] => f[y] = g[y])
           => ReadBody(b, f, it) = ReadBody(b, g, it)
  BY BodyDepends
<1>5. \A f \in [D -> Result], it \in D : ReadBody(b, f, it) \in Result
  BY BodyTyped
<1> HIDE DEF D, rank, none
<1>6. \A f \in [D -> Result], it \in D : step[f][it] = ReadBody(b, f, it)
  OBVIOUS
<1>7. PICK f \in [D -> Result] : \A it \in D : f[it] = step[f][it]
  <2> HIDE DEF step
  <2>1. IsRecursive(D, Result, Len(b), rank, step)
    BY <1>3, <1>4, <1>5, <1>6, SMTT(30) DEF IsRecursive
  <2> QED
    BY <1>2, <2>1, Recursion
<1>8. \A it \in D : f[it] = ReadBody(b, f, it)
  <2> HIDE DEF step
  <2> QED
    BY <1>6, <1>7
<1>9. f = [it \in D |-> ReadBody(b, f, it)]
  BY <1>8
<1>10. read = [it \in D |-> ReadBody(b, read, it)]
  BY <1>9
<1> HIDE DEF read, step
<1>11. \A it \in D : read[it] = ReadBody(b, read, it)
  BY <1>10, Zenon
<1>12. \A it \in D : read[it] = f[it]
  <2> DEFINE P == {it \in D : read[it] = f[it]}
  <2>1. ASSUME NEW it \in D, \A y \in D : rank[y] < rank[it] => y \in P
        PROVE  it \in P
    <3>1. ReadBody(b, read, it) = ReadBody(b, f, it)
      BY <1>4, <2>1
    <3> QED
      BY <1>8, <1>11, <3>1
  <2>2. D \subseteq P
    <3> HIDE DEF P
    <3> QED
      BY <1>2, <1>3, <2>1, RankInduction
  <2> QED
    BY <2>2
<1>13. \A it \in D : /\ f[it] \in Result
                   /\ f[it] = ReadStrings(b, it)
                   /\ f[it] = ReadBody(b, f, it)
  BY <1>1, <1>8, <1>12
<1> QED
  BY <1>13 DEF D

(* ReadStrings returns a result.                                           *)
LEMMA ReadTyped ==
  ASSUME NEW b \in Seq(Bytes), NEW it \in Nat
  PROVE  ReadStrings(b, it) \in Result
BY ReadStringsIs

(* At the end of the bytes ReadStrings reads nothing.                      *)
LEMMA ReadAtEnd ==
  ASSUME NEW b \in Seq(Bytes), NEW it \in Nat, it >= Len(b)
  PROVE  ReadStrings(b, it) = [strings |-> << >>, end |-> it, within |-> TRUE]
<1>1. PICK f : \A i \in Nat : /\ f[i] \in Result
                           /\ f[i] = ReadStrings(b, i)
                           /\ f[i] = ReadBody(b, f, i)
  BY ReadStringsIs
<1>2. ReadStrings(b, it) = ReadBody(b, f, it)
  BY <1>1
<1> QED
  BY <1>2, BodyAtEnd

(* Nor does it where a string is cut short.                                *)
LEMMA ReadCut ==
  ASSUME NEW b \in Seq(Bytes), NEW it \in Nat, it < Len(b), StringEnd(b, it) > Len(b)
  PROVE  ReadStrings(b, it) = [strings |-> << >>, end |-> StringEnd(b, it),
                               within |-> StringEnd(b, it) = it + Width]
<1>1. PICK f : \A i \in Nat : /\ f[i] \in Result
                           /\ f[i] = ReadStrings(b, i)
                           /\ f[i] = ReadBody(b, f, i)
  BY ReadStringsIs
<1>2. ReadStrings(b, it) = ReadBody(b, f, it)
  BY <1>1
<1> QED
  BY <1>2, BodyCut

(* Where a string is whole it reads that one and goes on behind it.        *)
LEMMA ReadWhole ==
  ASSUME NEW b \in Seq(Bytes), NEW it \in Nat, it < Len(b), StringEnd(b, it) <= Len(b)
  PROVE  ReadStrings(b, it) =
           [strings |-> <<SubSeq(b, it + Width + 1, StringEnd(b, it))>>
                          \o ReadStrings(b, StringEnd(b, it)).strings,
            end |-> ReadStrings(b, StringEnd(b, it)).end,
            within |-> ReadStrings(b, StringEnd(b, it)).within]
<1>1. PICK f : \A i \in Nat : /\ f[i] \in Result
                           /\ f[i] = ReadStrings(b, i)
                           /\ f[i] = ReadBody(b, f, i)
  BY ReadStringsIs
<1>2. ReadStrings(b, it) = ReadBody(b, f, it)
  BY <1>1
<1>3. StringEnd(b, it) \in Nat
  BY StringEndIs
<1>4. f[StringEnd(b, it)] \in Result
  BY <1>1, <1>3
<1>5. ReadBody(b, f, it) =
        [strings |-> <<SubSeq(b, it + Width + 1, StringEnd(b, it))>>
                       \o f[StringEnd(b, it)].strings,
         end |-> f[StringEnd(b, it)].end,
         within |-> f[StringEnd(b, it)].within]
  BY <1>4, BodyWhole
<1>6. f[StringEnd(b, it)] = ReadStrings(b, StringEnd(b, it))
  BY <1>1, <1>3
<1> QED
  BY <1>2, <1>5, <1>6, Zenon

(* Every count and length of a vector is the value of one byte.            *)
SmallVector(w) == Len(w) < Base /\ \A i \in DOMAIN w : Len(w[i]) < Base

(* Where the strings of w are in its serialized form: each behind its      *)
(* length, which is in the first of Width bytes                            *)
Laid(b, w, at) ==
  /\ b[1] = Len(w)
  /\ at[0] = Width
  /\ at[Len(w)] = Len(b)
  /\ \A i \in 1..Len(w) :
       /\ at[i] = at[i - 1] + Width + Len(w[i])
       /\ at[i] <= Len(b)
       /\ b[at[i - 1] + 1] = Len(w[i])
       /\ \A k \in 1..Len(w[i]) : b[at[i - 1] + Width + k] = w[i][k]

(* The bytes of each string, with its length before it                     *)
Items(w) == [i \in DOMAIN w |-> AddInt(Len(w[i])) \o w[i]]

(* They are the length in one byte, zeros, and the string.                 *)
LEMMA ItemsAre ==
  ASSUME NEW w \in Seq(Seq(Bytes)), SmallVector(w)
  PROVE  /\ Items(w) \in Seq(Seq(Bytes)) /\ Len(Items(w)) = Len(w)
         /\ \A i \in 1..Len(w) :
              /\ Len(Items(w)[i]) = Width + Len(w[i])
              /\ Items(w)[i][1] = Len(w[i])
              /\ \A k \in 1..Len(w[i]) : Items(w)[i][Width + k] = w[i][k]
<1>1. Width \in Nat /\ Width > 0 /\ Base \in Nat
  BY SerializerAssumption
<1>2. ASSUME NEW i \in 1..Len(w)
      PROVE  /\ Items(w)[i] \in Seq(Bytes)
             /\ Len(Items(w)[i]) = Width + Len(w[i])
             /\ Items(w)[i][1] = Len(w[i])
             /\ \A k \in 1..Len(w[i]) : Items(w)[i][Width + k] = w[i][k]
  <2> DEFINE a == AddInt(Len(w[i]))
             s == w[i]
  <2>1. Items(w)[i] = a \o s
    <3>1. i \in DOMAIN w
      OBVIOUS
    <3> QED
      BY <3>1, Zenon DEF Items
  <2>2. s \in Seq(Bytes) /\ Len(s) \in 0..(Base - 1)
    BY <1>1 DEF SmallVector
  <2>3. a \in Seq(Bytes) /\ Len(a) = Width /\ a[1] = Len(s)
    BY <2>2, AddIntSmall DEF Bytes
  <2> HIDE DEF a, s
  <2>4. /\ a \o s \in Seq(Bytes) /\ Len(a \o s) = Len(a) + Len(s)
        /\ \A k \in 1..Len(a) : a[k] = (a \o s)[k]
        /\ \A k \in 1..Len(s) : (a \o s)[Len(a) + k] = s[k]
    <3>1. a \in Seq(Bytes) /\ s \in Seq(Bytes)
      BY <2>2, <2>3
    <3> QED
      BY <3>1, Concatenated
  <2>5. (a \o s)[1] = Len(s)
    BY <1>1, <2>3, <2>4
  <2> QED
    BY <2>1, <2>3, <2>4, <2>5 DEF s
<1>3. Items(w) \in Seq(Seq(Bytes)) /\ Len(Items(w)) = Len(w)
  <2>1. Items(w) \in [1..Len(w) -> Seq(Bytes)]
    <3>1. Items(w) = [i \in 1..Len(w) |-> Items(w)[i]]
      BY DEF Items
    <3> QED
      BY <1>2, <3>1
  <2>3. Len(w) \in Nat
    OBVIOUS
  <2> HIDE DEF Items
  <2> QED
    BY <2>1, <2>3, FunctionIsSequence
<1> QED
  BY <1>2, <1>3

(* This is what serialize makes of a small vector.                         *)
LEMMA SerializedLaid ==
  ASSUME NEW w \in Seq(Seq(Bytes)), SmallVector(w)
  PROVE  /\ Serialize(w) \in Seq(Bytes)
         /\ \E at \in [0..Len(w) -> Nat] : Laid(Serialize(w), w, at)
<1> DEFINE n == Len(w)
           a == AddInt(n)
           items == Items(w)
           fl == FlattenSeq(items)
           b == Serialize(w)
<1>1. Width \in Nat /\ Width > 0 /\ Base \in Nat /\ n \in 0..(Base - 1)
  BY SerializerAssumption DEF SmallVector
<1>2. a \in Seq(Bytes) /\ Len(a) = Width /\ a[1] = n
  BY <1>1, AddIntSmall DEF Bytes
<1>3. b = a \o fl
  BY DEF Serialize, Items
<1>4. /\ items \in Seq(Seq(Bytes)) /\ Len(items) = n
      /\ \A i \in 1..n :
           /\ Len(items[i]) = Width + Len(w[i])
           /\ items[i][1] = Len(w[i])
           /\ \A k \in 1..Len(w[i]) : items[i][Width + k] = w[i][k]
  BY ItemsAre
<1> HIDE DEF a, items, b
<1>5. fl \in Seq(Bytes) /\ \E place \in [0..Len(items) -> Nat] : FlattenPlaced(items, place)
  BY <1>4, FlattenPlaces
<1>6. PICK place \in [0..n -> Nat] : FlattenPlaced(items, place)
  BY <1>4, <1>5
<1>7. /\ place[0] = 0 /\ place[n] = Len(fl)
      /\ \A i \in 1..n :
           /\ place[i] = place[i - 1] + Len(items[i])
           /\ place[i] <= Len(fl)
           /\ \A k \in 1..Len(items[i]) : fl[place[i - 1] + k] = items[i][k]
  BY <1>4, <1>6, Zenon DEF FlattenPlaced
<1> HIDE DEF fl
<1>8. /\ b \in Seq(Bytes) /\ Len(b) = Width + Len(fl)
      /\ \A i \in 1..Width : b[i] = a[i]
      /\ \A i \in 1..Len(fl) : b[Width + i] = fl[i]
  <2>1. /\ a \o fl \in Seq(Bytes) /\ Len(a \o fl) = Len(a) + Len(fl)
        /\ \A i \in 1..Len(a) : a[i] = (a \o fl)[i]
        /\ \A i \in 1..Len(fl) : (a \o fl)[Len(a) + i] = fl[i]
    <3>1. a \in Seq(Bytes) /\ fl \in Seq(Bytes)
      BY <1>2, <1>5
    <3> QED
      BY <3>1, Concatenated
  <2> QED
    BY <1>2, <1>3, <2>1
<1> DEFINE at == [i \in 0..n |-> Width + place[i]]
<1>9. at \in [0..n -> Nat] /\ \A i \in 0..n : at[i] = Width + place[i]
  BY <1>1
<1> HIDE DEF at
<1>10. ASSUME NEW i \in 1..n
       PROVE  /\ at[i] = at[i - 1] + Width + Len(w[i])
              /\ at[i] <= Len(b)
              /\ b[at[i - 1] + 1] = Len(w[i])
              /\ \A k \in 1..Len(w[i]) : b[at[i - 1] + Width + k] = w[i][k]
  <2> DEFINE p == place[i - 1]
             q == place[i]
             l == Len(w[i])
             m == Len(fl)
  <2>1. /\ p \in Nat /\ q \in Nat /\ l \in Nat /\ m \in Nat
        /\ at[i] = Width + q /\ at[i - 1] = Width + p
    <3>1. i \in 0..n /\ i - 1 \in 0..n
      BY <1>1
    <3>2. m \in Nat /\ l \in Nat
      BY <1>5
    <3> QED
      BY <1>9, <3>1, <3>2
  <2>2. /\ q = p + (Width + l) /\ q <= m
        /\ items[i][1] = l
        /\ \A k \in 1..l : items[i][Width + k] = w[i][k]
        /\ \A k \in 1..(Width + l) : fl[p + k] = items[i][k]
    BY <1>4, <1>7
  <2>3. \A k \in 1..m : b[Width + k] = fl[k]
    BY <1>8
  <2>4. Len(b) = Width + m
    BY <1>8
  <2> HIDE DEF p, q, l, m
  <2>5. p + 1 \in 1..m /\ 1 \in 1..(Width + l)
    BY <1>1, <2>1, <2>2
  <2>6. b[Width + (p + 1)] = l
    BY <2>2, <2>3, <2>5
  <2>7. at[i - 1] + 1 = Width + (p + 1)
    BY <1>1, <2>1
  <2>8. ASSUME NEW k \in 1..l
        PROVE  b[at[i - 1] + Width + k] = w[i][k]
    <3>1. k \in Nat /\ Width + k \in 1..(Width + l) /\ p + (Width + k) \in 1..m
      BY <1>1, <2>1, <2>2
    <3>2. b[Width + (p + (Width + k))] = w[i][k]
      BY <2>2, <2>3, <3>1
    <3>3. at[i - 1] + Width + k = Width + (p + (Width + k))
      BY <1>1, <2>1, <3>1
    <3> QED
      BY <3>2, <3>3
  <2>9. at[i] = at[i - 1] + Width + l /\ at[i] <= Len(b)
    BY <1>1, <2>1, <2>2, <2>4
  <2> QED
    BY <2>6, <2>7, <2>8, <2>9 DEF l
<1>11. b[1] = n /\ at[0] = Width /\ at[n] = Len(b)
  <2>1. 1 \in 1..Width /\ 0 \in 0..n /\ n \in 0..n
    BY <1>1
  <2> QED
    <3>1. at[0] = Width + 0 /\ at[n] = Width + Len(fl)
      BY <1>7, <1>9, <2>1
    <3>2. b[1] = n
      BY <1>2, <1>8, <2>1
    <3> QED
      BY <1>1, <1>8, <3>1, <3>2
<1>12. Laid(b, w, at)
  BY <1>10, <1>11 DEF Laid
<1> QED
  BY <1>8, <1>9, <1>12 DEF b

(* Facts about the i-th string of a serialized vector                      *)
LEMMA LaidString ==
  ASSUME NEW w \in Seq(Seq(Bytes)), NEW b \in Seq(Bytes),
         NEW at \in [0..Len(w) -> Nat], Laid(b, w, at), NEW i \in 0..(Len(w) - 1)
  PROVE  /\ at[i] \in Nat /\ at[i + 1] \in Nat
         /\ w[i + 1] \in Seq(Bytes)
         /\ at[i + 1] = at[i] + Width + Len(w[i + 1])
         /\ at[i + 1] <= Len(b)
         /\ at[i] < at[i + 1]
         /\ b[at[i] + 1] = Len(w[i + 1])
         /\ \A k \in 1..Len(w[i + 1]) : b[at[i] + Width + k] = w[i + 1][k]
<1>1. Width \in Nat /\ Width > 0
  BY SerializerAssumption
<1>2. i + 1 \in 1..Len(w) /\ (i + 1) - 1 = i /\ i \in 0..Len(w) /\ i + 1 \in 0..Len(w)
  OBVIOUS
<1>3. at[i] \in Nat /\ at[i + 1] \in Nat /\ w[i + 1] \in Seq(Bytes)
  <2>1. at[i] \in Nat /\ at[i + 1] \in Nat
    BY <1>2
  <2>2. w[i + 1] \in Seq(Bytes)
    BY <1>2
  <2> QED
    BY <2>1, <2>2
<1> DEFINE j == i + 1
<1>4. /\ at[j] = at[j - 1] + Width + Len(w[j])
      /\ at[j] <= Len(b)
      /\ b[at[j - 1] + 1] = Len(w[j])
      /\ \A k \in 1..Len(w[j]) : b[at[j - 1] + Width + k] = w[j][k]
  <2> HIDE DEF j
  <2>1. j \in 1..Len(w)
    BY <1>2 DEF j
  <2> QED
    BY <2>1 DEF Laid
<1>5. at[i] < at[i + 1]
  <2>1. Len(w[i + 1]) \in Nat
    BY <1>3
  <2> QED
    BY <1>1, <1>2, <1>3, <1>4, <2>1, SMTT(30)
<1> QED
  BY <1>2, <1>3, <1>4, <1>5

(* ... in bytes of which what follows is cut                               *)
LEMMA LaidEnd ==
  ASSUME NEW w \in Seq(Seq(Bytes)), NEW b \in Seq(Bytes),
         NEW at \in [0..Len(w) -> Nat], Laid(b, w, at), NEW i \in 0..(Len(w) - 1),
         NEW c \in 0..Len(b), at[i] < c
  PROVE  StringEnd(SubSeq(b, 1, c), at[i]) = at[i + 1]
<1>1. /\ at[i] \in Nat
      /\ at[i + 1] = at[i] + Width + Len(w[i + 1])
      /\ b[at[i] + 1] = Len(w[i + 1])
  BY LaidString
<1>2. at[i] + 1 \in 1..c
  BY <1>1
<1>3. SubSeq(b, 1, c)[at[i] + 1] = b[at[i] + 1]
  BY <1>2
<1> QED
  BY <1>1, <1>3 DEF StringEnd, GetInt

(* Nothing cut, the loop reads the strings that are left.                  *)
LEMMA WholeIsRead ==
  ASSUME NEW w \in Seq(Seq(Bytes)), NEW b \in Seq(Bytes),
         NEW at \in [0..Len(w) -> Nat], Laid(b, w, at), NEW i \in 0..Len(w)
  PROVE  ReadStrings(b, at[i]) =
           [strings |-> SubSeq(w, i + 1, Len(w)), end |-> Len(b), within |-> TRUE]
<1> DEFINE n == Len(w)
           P(j) == ReadStrings(b, at[j]) =
                     [strings |-> SubSeq(w, j + 1, n), end |-> Len(b), within |-> TRUE]
           S == {m \in Nat : m <= n => P(n - m)}
<1>1. n \in Nat
  OBVIOUS
<1>2. P(n)
  <2>1. at[n] = Len(b) /\ at[n] \in Nat
    BY DEF Laid
  <2>2. SubSeq(w, n + 1, n) = << >>
    OBVIOUS
  <2>3. ReadStrings(b, at[n]) = [strings |-> << >>, end |-> at[n], within |-> TRUE]
    BY <2>1, ReadAtEnd
  <2> QED
    BY <2>1, <2>2, <2>3
<1>3. ASSUME NEW j \in 0..(n - 1), P(j + 1)
      PROVE  P(j)
  <2> DEFINE it == at[j]
             to == at[j + 1]
             s == w[j + 1]
  <2>1. /\ it \in Nat /\ to \in Nat /\ s \in Seq(Bytes)
        /\ to = it + Width + Len(s) /\ to <= Len(b) /\ it < to
        /\ \A k \in 1..Len(s) : b[it + Width + k] = s[k]
    BY <1>3, LaidString
  <2>2. StringEnd(b, it) = to
    <3>1. SubSeq(b, 1, Len(b)) = b /\ Len(b) \in 0..Len(b)
      OBVIOUS
    <3>2. it < Len(b)
      BY <2>1
    <3>3. StringEnd(SubSeq(b, 1, Len(b)), it) = to
      BY <3>1, <3>2, LaidEnd
    <3> QED
      BY <3>1, <3>3, Zenon
  <2>3. SubSeq(w, j + 2, n) \in Seq(Seq(Bytes)) /\ SubSeq(w, j + 1, n) = <<s>> \o SubSeq(w, j + 2, n)
    BY <1>1
  <2>4. ReadStrings(b, to) = [strings |-> SubSeq(w, j + 2, n), end |-> Len(b), within |-> TRUE]
    <3>1. (j + 1) + 1 = j + 2
      BY <1>1
    <3> QED
      BY <1>3, <3>1
  <2> HIDE DEF it, to, s
  <2>5. SubSeq(b, it + Width + 1, to) = s
    <3>1. Width \in Nat /\ Width > 0
      BY SerializerAssumption
    <3> DEFINE q == SubSeq(b, it + Width + 1, to)
    <3>2. /\ q \in Seq(Bytes) /\ Len(q) = Len(s)
          /\ \A k \in 1..Len(s) : q[k] = b[it + Width + k]
      <4> DEFINE f == it + Width
                 l == Len(s)
      <4>1. f \in Nat /\ l \in Nat /\ to = f + l /\ f + l <= Len(b)
        BY <2>1, <3>1
      <4>2. q = SubSeq(b, f + 1, f + l)
        BY <4>1
      <4> HIDE DEF f, l, q
      <4>3. /\ q \in Seq(Bytes) /\ Len(q) = l
            /\ \A k \in 1..l : q[k] = b[f + k]
        BY <4>1, <4>2
      <4> QED
        BY <4>3 DEF f, l
    <3> HIDE DEF q
    <3>3. \A k \in 1..Len(s) : q[k] = s[k]
      BY <2>1, <3>2
    <3>4. q = s
      <4>1. s \in Seq(Bytes) /\ q \in Seq(Bytes) /\ Len(q) = Len(s)
        BY <2>1, <3>2
      <4> QED
        BY <3>3, <4>1, SameElements
    <3> QED
      BY <3>4 DEF q
  <2>6. ReadStrings(b, it) =
          [strings |-> <<SubSeq(b, it + Width + 1, to)>> \o ReadStrings(b, to).strings,
           end |-> ReadStrings(b, to).end, within |-> ReadStrings(b, to).within]
    <3>1. it < Len(b) /\ StringEnd(b, it) <= Len(b)
      BY <2>1, <2>2
    <3> QED
      BY <2>1, <2>2, <3>1, ReadWhole
  <2> DEFINE rest == SubSeq(w, j + 2, n)
  <2>7. /\ ReadStrings(b, to).strings = rest
        /\ ReadStrings(b, to).end = Len(b)
        /\ ReadStrings(b, to).within = TRUE
    <3> HIDE DEF rest
    <3> QED
      BY <2>4 DEF rest
  <2>8. ReadStrings(b, it) =
          [strings |-> <<s>> \o rest, end |-> Len(b), within |-> TRUE]
    <3> HIDE DEF rest
    <3> QED
      BY <2>5, <2>6, <2>7, Zenon
  <2>9. ReadStrings(b, it) =
          [strings |-> SubSeq(w, j + 1, n), end |-> Len(b), within |-> TRUE]
    BY <2>3, <2>8, Zenon
  <2> QED
    BY <2>9 DEF it
<1>4. Nat \subseteq S
  <2>1. 0 \in S
    <3>1. n - 0 = n
      BY <1>1
    <3> HIDE DEF P
    <3> QED
      BY <1>2, <3>1
  <2>2. ASSUME NEW m \in Nat, m \in S
        PROVE  m + 1 \in S
    <3>1. m + 1 <= n => n - (m + 1) \in 0..(n - 1) /\ (n - (m + 1)) + 1 = n - m /\ m <= n
      BY <1>1
    <3> HIDE DEF P
    <3> QED
      BY <1>3, <2>2, <3>1
  <2> HIDE DEF S
  <2> QED
    BY <2>1, <2>2, Induction
<1>5. n - i \in S /\ n - i <= n /\ n - (n - i) = i
  <2>1. n - i \in Nat
    BY <1>1
  <2> HIDE DEF S
  <2> QED
    BY <1>1, <1>4, <2>1
<1>6. P(i)
  <2> HIDE DEF P
  <2> QED
    BY <1>5
<1> QED
  BY <1>6

(* Where the strings of a vector are is where its first strings end when   *)
(* they are serialized alone.                                              *)
LEMMA LaidEnds ==
  ASSUME NEW w \in Seq(Seq(Bytes)), SmallVector(w),
         NEW at \in [0..Len(w) -> Nat], Laid(Serialize(w), w, at),
         NEW i \in 0..Len(w)
  PROVE  EndOf(w, i) = at[i]
<1> DEFINE u == SubSeq(w, 1, i)
<1>1. u \in Seq(Seq(Bytes)) /\ Len(u) = i /\ \A k \in 1..i : u[k] = w[k]
  <2>1. \A A : \A q \in Seq(A) : \A m \in 0..Len(q) :
          /\ SubSeq(q, 1, m) \in Seq(A) /\ Len(SubSeq(q, 1, m)) = m
          /\ \A k \in 1..m : SubSeq(q, 1, m)[k] = q[k]
    OBVIOUS
  <2> QED
    BY <2>1
<1>2. i \in Nat /\ Len(w) \in Nat /\ i <= Len(w)
  OBVIOUS
<1> HIDE DEF u
<1>3. SmallVector(u)
  <2>1. Len(w) < Base /\ Base \in Nat /\ \A k \in DOMAIN w : Len(w[k]) < Base
    BY SerializerAssumption DEF SmallVector
  <2>2. DOMAIN u = 1..i /\ DOMAIN w = 1..Len(w)
    <3>1. \A A : \A q \in Seq(A) : DOMAIN q = 1..Len(q)
      OBVIOUS
    <3> QED
      BY <1>1, <3>1
  <2>3. ASSUME NEW k \in DOMAIN u
        PROVE  Len(u[k]) < Base
    <3>1. k \in DOMAIN w /\ k \in 1..i
      BY <1>2, <2>2, <2>3
    <3>2. u[k] = w[k] /\ Len(w[k]) < Base
      BY <1>1, <2>1, <3>1
    <3> QED
      BY <3>2
  <2>4. Len(u) < Base
    BY <1>1, <1>2, <2>1
  <2> QED
    BY <2>3, <2>4 DEF SmallVector
<1>4. PICK to \in [0..Len(u) -> Nat] : Laid(Serialize(u), u, to)
  BY <1>1, <1>3, SerializedLaid
<1> DEFINE S == {k \in Nat : k <= i => to[k] = at[k]}
<1>5. 0 \in S
  BY <1>4 DEF Laid
<1>6. ASSUME NEW k \in Nat, k \in S
      PROVE  k + 1 \in S
  <2>1. SUFFICES ASSUME k + 1 <= i
                 PROVE  to[k + 1] = at[k + 1]
    OBVIOUS
  <2>2. /\ k + 1 \in 1..i /\ k + 1 \in 1..Len(w) /\ k + 1 \in 1..Len(u)
        /\ (k + 1) - 1 = k /\ k <= i
    BY <1>1, <1>2, <2>1
  <2>3. to[k + 1] = to[(k + 1) - 1] + Width + Len(u[k + 1])
    BY <1>4, <2>2 DEF Laid
  <2>4. at[k + 1] = at[(k + 1) - 1] + Width + Len(w[k + 1])
    BY <2>2 DEF Laid
  <2>5. to[k] = at[k] /\ u[k + 1] = w[k + 1]
    BY <1>1, <1>6, <2>2
  <2> QED
    BY <2>2, <2>3, <2>4, <2>5
<1>7. i \in S
  <2> HIDE DEF S
  <2> QED
    BY <1>2, <1>5, <1>6, Induction
<1>8. to[i] = Len(Serialize(u))
  BY <1>1, <1>4 DEF Laid
<1> QED
  BY <1>2, <1>7, <1>8 DEF EndOf, u

(* What the loop returns of cut bytes, when rest strings were still to be  *)
(* read: it has not left the bytes, and it ends beyond them or has read    *)
(* too few strings.                                                        *)
CutShort(r, c, rest) == r.within /\ (r.end > c \/ Len(r.strings) < rest)

(* The cut is not in front of the symbols of a string.                     *)
CutBeside(w, at, c) ==
  \A i \in 1..Len(w) : w[i] = << >> \/ c <= at[i - 1] \/ c >= at[i]

(* Cut there, the loop reads no symbol beyond the bytes, and it comes      *)
(* short.                                                                  *)
LEMMA CutIsRead ==
  ASSUME NEW w \in Seq(Seq(Bytes)), NEW b \in Seq(Bytes),
         NEW at \in [0..Len(w) -> Nat], Laid(b, w, at),
         NEW c \in 0..(Len(b) - 1), CutBeside(w, at, c)
  PROVE  CutShort(ReadStrings(SubSeq(b, 1, c), at[0]), c, Len(w))
<1> DEFINE n == Len(w)
           d == SubSeq(b, 1, c)
           P(j) == CutShort(ReadStrings(d, at[j]), c, n - j)
           S == {m \in Nat : m <= n => P(n - m)}
<1>1. n \in Nat /\ c \in Nat /\ c < Len(b) /\ c \in 0..Len(b)
  OBVIOUS
<1>2. d \in Seq(Bytes) /\ Len(d) = c
  BY <1>1
<1>3. P(n)
  <2>1. at[n] = Len(b) /\ at[n] \in Nat
    BY DEF Laid
  <2>2. ReadStrings(d, at[n]) = [strings |-> << >>, end |-> at[n], within |-> TRUE]
    <3>1. at[n] >= Len(d)
      BY <1>1, <1>2, <2>1
    <3> HIDE DEF d, n
    <3> QED
      BY <1>2, <2>1, <3>1, ReadAtEnd
  <2>3. at[n] > c
    BY <1>1, <2>1
  <2> HIDE DEF d, n
  <2> QED
    BY <2>2, <2>3 DEF CutShort
<1>4. ASSUME NEW j \in 0..(n - 1), P(j + 1)
      PROVE  P(j)
  <2> DEFINE it == at[j]
             to == at[j + 1]
             s == w[j + 1]
  <2>1. it \in Nat /\ to \in Nat /\ it < to
    BY <1>4, LaidString
  <2>2. it < c => StringEnd(d, it) = to
    BY <1>1, <1>4, LaidEnd
  <2>3. CutShort(ReadStrings(d, to), c, n - (j + 1))
    BY <1>4
  <2>4. n - j \in Nat /\ n - j > 0 /\ n - (j + 1) \in Nat /\ n - j = (n - (j + 1)) + 1
    BY <1>1
  <2>8. to = it + Width + Len(s) /\ (s = << >> \/ c <= it \/ c >= to)
    <3>1. j + 1 \in 1..Len(w) /\ (j + 1) - 1 = j
      BY <1>1
    <3>2. to = it + Width + Len(s)
      BY <1>4, LaidString
    <3>3. w[j + 1] = << >> \/ c <= at[(j + 1) - 1] \/ c >= at[j + 1]
      BY <3>1 DEF CutBeside
    <3> QED
      BY <3>1, <3>2, <3>3
  <2> HIDE DEF it, to, s, d, n
  <2>5. CASE it >= c
    <3>1. ReadStrings(d, it) = [strings |-> << >>, end |-> it, within |-> TRUE]
      BY <1>2, <2>1, <2>5, ReadAtEnd
    <3>2. Len(ReadStrings(d, it).strings) < n - j /\ ReadStrings(d, it).within
      BY <2>4, <3>1
    <3> QED
      BY <3>2 DEF CutShort, it
  <2>6. CASE it < c /\ to > c
    <3>1. ReadStrings(d, it) = [strings |-> << >>, end |-> to, within |-> to = it + Width]
      BY <1>2, <2>1, <2>2, <2>6, ReadCut
    <3>2. to = it + Width
      <4>1. s = << >>
        BY <1>1, <2>1, <2>6, <2>8
      <4> QED
        BY <2>1, <2>8, <4>1, SerializerAssumption
    <3>3. ReadStrings(d, it) = [strings |-> << >>, end |-> to, within |-> TRUE]
      BY <3>1, <3>2, Zenon
    <3>4. ReadStrings(d, it).end > c /\ ReadStrings(d, it).within
      BY <2>6, <3>3
    <3> QED
      BY <3>4 DEF CutShort, it
  <2>7. CASE it < c /\ to <= c
    <3> DEFINE r == ReadStrings(d, to)
               q == SubSeq(d, it + Width + 1, to)
    <3>1. r \in Result
      BY <1>2, <2>1, ReadTyped
    <3>2. r.strings \in Seq(Seq(Bytes))
      BY <3>1 DEF Result
    <3>3. ReadStrings(d, it) =
            [strings |-> <<q>> \o r.strings, end |-> r.end, within |-> r.within]
      BY <1>2, <2>1, <2>2, <2>7, ReadWhole
    <3> HIDE DEF r, q
    <3>4. Len(<<q>> \o r.strings) = Len(r.strings) + 1 /\ Len(r.strings) \in Nat
      <4>1. \A A, x : x \in A => <<x>> \in Seq(A)
        OBVIOUS
      <4>2. \A x : \A t \in Seq(Seq(Bytes)) : Len(<<x>> \o t) = Len(t) + 1 /\ Len(t) \in Nat
        OBVIOUS
      <4> QED
        BY <3>2, <4>2
    <3>5. /\ ReadStrings(d, it).strings = <<q>> \o r.strings
          /\ ReadStrings(d, it).end = r.end
          /\ ReadStrings(d, it).within = r.within
      BY <3>3
    <3>6. r.within /\ (r.end > c \/ Len(r.strings) < n - (j + 1))
      BY <2>3 DEF CutShort, r
    <3>7. Len(r.strings) < n - (j + 1) => Len(<<q>> \o r.strings) < n - j
      BY <2>4, <3>4
    <3> QED
      BY <3>5, <3>6, <3>7 DEF CutShort, it
  <2> QED
    BY <1>1, <2>1, <2>5, <2>6, <2>7
<1>5. Nat \subseteq S
  <2>1. 0 \in S
    <3>1. n - 0 = n
      BY <1>1
    <3> HIDE DEF P
    <3> QED
      BY <1>3, <3>1
  <2>2. ASSUME NEW m \in Nat, m \in S
        PROVE  m + 1 \in S
    <3>1. m + 1 <= n => n - (m + 1) \in 0..(n - 1) /\ (n - (m + 1)) + 1 = n - m /\ m <= n
      BY <1>1
    <3> HIDE DEF P
    <3> QED
      BY <1>4, <2>2, <3>1
  <2> HIDE DEF S
  <2> QED
    BY <2>1, <2>2, Induction
<1>6. P(0)
  <2>1. n \in S /\ n - n = 0 /\ n <= n
    <3> HIDE DEF S
    <3> QED
      BY <1>1, <1>5
  <2> HIDE DEF P
  <2> QED
    BY <2>1
<1>7. n - 0 = n
  BY <1>1
<1> QED
  BY <1>6, <1>7

(* A serialized vector begins with a whole integer.                        *)
LEMMA LaidHeader ==
  ASSUME NEW w \in Seq(Seq(Bytes)), NEW b \in Seq(Bytes),
         NEW at \in [0..Len(w) -> Nat], Laid(b, w, at)
  PROVE  at[0] = Width /\ Width <= Len(b) /\ Width \in Nat /\ Width > 0
<1>1. Width \in Nat /\ Width > 0
  BY SerializerAssumption
<1>2. at[0] = Width
  BY DEF Laid
<1>3. CASE Len(w) = 0
  BY <1>1, <1>2, <1>3 DEF Laid
<1>4. CASE Len(w) # 0
  <2>1. 0 \in 0..(Len(w) - 1)
    BY <1>4
  <2>2. at[0] < at[0 + 1] /\ at[0 + 1] <= Len(b) /\ at[0 + 1] \in Nat /\ at[0] \in Nat
    BY <2>1, LaidString
  <2> QED
    BY <1>1, <1>2, <2>2
<1> QED
  BY <1>1, <1>2, <1>3, <1>4

(* A vector all of whose counts and lengths fit in one byte comes back     *)
(* from its bytes as it was (serialize, unserialize).                      *)
THEOREM SmallComesBack ==
  ASSUME NEW w \in Seq(Seq(Bytes)), SmallVector(w)
  PROVE  Unserialize(Serialize(w)) = Returned(w)
<1> DEFINE b == Serialize(w)
           n == Len(w)
<1>1. b \in Seq(Bytes) /\ \E at \in [0..Len(w) -> Nat] : Laid(b, w, at)
  BY SerializedLaid
<1> HIDE DEF b
<1>2. PICK at \in [0..Len(w) -> Nat] : Laid(b, w, at)
  BY <1>1
<1>3. at[0] = Width /\ Width <= Len(b) /\ Width \in Nat /\ Width > 0
  BY <1>1, <1>2, LaidHeader
<1>4. ReadStrings(b, Width) = [strings |-> SubSeq(w, 1, n), end |-> Len(b), within |-> TRUE]
  <2>1. 0 \in 0..Len(w) /\ 0 + 1 = 1
    OBVIOUS
  <2>2. ReadStrings(b, at[0]) = [strings |-> SubSeq(w, 0 + 1, n), end |-> Len(b), within |-> TRUE]
    BY <1>1, <1>2, <2>1, WholeIsRead
  <2> QED
    BY <1>3, <2>1, <2>2
<1>5. SubSeq(w, 1, n) = w
  OBVIOUS
<1>6. b # << >> /\ ~(Width > Len(b))
  BY <1>1, <1>3
<1>7. GetInt(b, 0) = n
  BY <1>2 DEF GetInt, Laid
<1> DEFINE loop == ReadStrings(b, Width)
<1>8. loop.strings = w /\ loop.end = Len(b) /\ loop.within
  BY <1>4, <1>5
<1> HIDE DEF loop
<1>9. ~(loop.end > Len(b)) /\ ~(Len(loop.strings) > n) /\ ~(Len(loop.strings) < n)
  BY <1>1, <1>8
<1> QED
  BY <1>6, <1>7, <1>8, <1>9 DEF Unserialize, loop, b

(* Of its bytes, cut in the count, between two strings or in the length of *)
(* a string without symbols, unserialize refuses to make a vector.         *)
THEOREM CutBesideIsThrown ==
  ASSUME NEW w \in Seq(Seq(Bytes)), SmallVector(w),
         NEW c \in 1..(Len(Serialize(w)) - 1), BesideStrings(w, c)
  PROVE  Unserialize(SubSeq(Serialize(w), 1, c)).outcome = "underflow_error"
<1> DEFINE b == Serialize(w)
           n == Len(w)
           d == SubSeq(b, 1, c)
<1>1. b \in Seq(Bytes) /\ \E at \in [0..Len(w) -> Nat] : Laid(b, w, at)
  BY SerializedLaid
<1>2. PICK at \in [0..Len(w) -> Nat] : Laid(b, w, at)
  BY <1>1
<1>3. CutBeside(w, at, c)
  <2>1. ASSUME NEW i \in 1..Len(w)
        PROVE  w[i] = << >> \/ c <= at[i - 1] \/ c >= at[i]
    <3>1. i - 1 \in 0..Len(w) /\ i \in 0..Len(w)
      OBVIOUS
    <3>2. EndOf(w, i - 1) = at[i - 1] /\ EndOf(w, i) = at[i]
      BY <1>2, <3>1, LaidEnds
    <3> QED
      BY <3>2 DEF BesideStrings
  <2> QED
    BY <2>1 DEF CutBeside
<1>4. c \in 0..(Len(b) - 1) /\ c >= 1
  OBVIOUS
<1> HIDE DEF b
<1>5. at[0] = Width /\ Width <= Len(b) /\ Width \in Nat /\ Width > 0
  BY <1>1, <1>2, LaidHeader
<1>6. CutShort(ReadStrings(d, Width), c, n)
  BY <1>1, <1>2, <1>3, <1>4, <1>5, CutIsRead
<1>7. d \in Seq(Bytes) /\ Len(d) = c /\ d # << >>
  <2>1. d \in Seq(Bytes) /\ Len(d) = c
    BY <1>1, <1>4
  <2> HIDE DEF d
  <2> QED
    BY <1>4, <2>1
<1>8. Width <= c => d[1] = n
  <2>1. Width <= c => 1 \in 1..c
    BY <1>4, <1>5
  <2>2. b[1] = n
    BY <1>2 DEF Laid
  <2> QED
    BY <1>1, <1>4, <2>1, <2>2
<1> HIDE DEF d
<1> DEFINE loop == ReadStrings(d, Width)
           u == Unserialize(d)
<1>9. ASSUME Width > Len(d)
      PROVE  u.outcome = "underflow_error"
  BY <1>7, <1>9 DEF Unserialize, Thrown
<1>10. ASSUME ~(Width > Len(d))
       PROVE  u.outcome = "underflow_error"
  <2>1. GetInt(d, 0) = n
    BY <1>4, <1>5, <1>7, <1>8, <1>10 DEF GetInt
  <2>2. loop.within /\ (loop.end > Len(d) \/ Len(loop.strings) < n)
    BY <1>6, <1>7 DEF CutShort
  <2>3. u = IF ~loop.within THEN Overrun
            ELSE IF loop.end > Len(d) THEN Thrown("underflow_error")
            ELSE IF Len(loop.strings) > n THEN Thrown("overflow_error")
            ELSE IF Len(loop.strings) < n THEN Thrown("underflow_error")
            ELSE Returned(loop.strings)
    BY <1>7, <1>10, <2>1 DEF Unserialize
  <2>4. loop.strings \in Seq(Seq(Bytes))
    BY <1>5, <1>7, ReadTyped DEF Result
  <2>5. Len(loop.strings) \in Nat /\ n \in Nat
    BY <2>4
  <2>6. Thrown("underflow_error").outcome = "underflow_error"
    BY DEF Thrown
  <2> HIDE DEF loop, u, n
  <2>7. u = Thrown("underflow_error")
    BY <2>2, <2>3, <2>5
  <2> QED
    BY <2>6, <2>7
<1>11. u.outcome = "underflow_error"
  BY <1>9, <1>10
<1> QED
  BY <1>11 DEF u, d, b

------------------------------------------------------------------------------
(* Searching and splitting patterns                                        *)

(* What find_first_of finds                                                *)
LEMMA FindFirstIs ==
  ASSUME NEW A, NEW s \in Seq(A), NEW C, NEW k \in Nat, k >= 1
  PROVE  /\ FindFirstOf(C, s, k) \in Nat
         /\ FindFirstOf(C, s, k) = 0 => \A i \in k..Len(s) : s[i] \notin C
         /\ FindFirstOf(C, s, k) # 0 =>
              /\ FindFirstOf(C, s, k) \in k..Len(s)
              /\ s[FindFirstOf(C, s, k)] \in C
              /\ \A i \in k..(FindFirstOf(C, s, k) - 1) : s[i] \notin C
<1> DEFINE holds == {i \in k..Len(s) : s[i] \in C}
           m == Min(holds)
<1>1. FindFirstOf(C, s, k) = IF holds = {} THEN 0 ELSE m
  BY DEF FindFirstOf
<1>2. CASE holds = {}
  BY <1>1, <1>2
<1>3. CASE holds # {}
  <2>1. holds \in SUBSET Nat
    OBVIOUS
  <2>2. m \in holds /\ \A i \in holds : m <= i
    <3> HIDE DEF holds
    <3> QED
      BY <1>3, <2>1, MinOfNaturals
  <2> HIDE DEF m
  <2>3. m \in k..Len(s) /\ s[m] \in C /\ m \in Nat /\ m # 0
    BY <2>2
  <2>4. ASSUME NEW i \in k..(m - 1)
        PROVE  s[i] \notin C
    <3>1. i \in k..Len(s) /\ ~(m <= i)
      BY <2>3
    <3> QED
      BY <2>2, <3>1
  <2>5. FindFirstOf(C, s, k) = m
    BY <1>1, <1>3
  <2> QED
    BY <2>3, <2>4, <2>5
<1> QED
  BY <1>2, <1>3

(* The part of a string between two places                                 *)
LEMMA BetweenIs ==
  ASSUME NEW A, NEW s \in Seq(A), NEW k \in 1..(Len(s) + 1), NEW j \in k..(Len(s) + 1)
  PROVE  /\ Between(s, k, j) \in Seq(A)
         /\ Len(Between(s, k, j)) = j - k
         /\ \A i \in 1..(j - k) : Between(s, k, j)[i] = s[k + i - 1]
<1>1. k \in Nat /\ j \in Nat /\ Len(s) \in Nat /\ 1 <= k /\ k <= j /\ j <= Len(s) + 1
  OBVIOUS
<1> QED
  BY <1>1 DEF Between

(* What push_back adds is a sequence of words.                             *)
LEMMA NonEmptyTyped ==
  ASSUME NEW A, NEW w \in Seq(A)
  PROVE  NonEmpty(w) \in Seq(Seq(A))
BY DEF NonEmpty

(* The wildcards that get_meta_words looks for                             *)
Wildcards == {"*", "?"}

(* The body of WordsOfPart                                                 *)
WordsBody(word, f, prev) ==
  LET pos == FindFirstOf({"*", "?"}, word, prev)
  IN  IF pos = 0
      THEN NonEmpty(Between(word, prev, Len(word) + 1))
      ELSE NonEmpty(Between(word, prev, pos)) \o f[pos + 1]

(* Where the next wildcard is, 0 when there is none                        *)
NextWildcard(word, prev) == FindFirstOf({"*", "?"}, word, prev)

(* There is a wildcard there, and none before it.                          *)
LEMMA NextWildcardIs ==
  ASSUME NEW A, NEW word \in Seq(A), NEW prev \in 1..(Len(word) + 1)
  PROVE  /\ NextWildcard(word, prev) = 0 => \A i \in prev..Len(word) : word[i] \notin Wildcards
         /\ NextWildcard(word, prev) # 0 =>
              /\ NextWildcard(word, prev) \in prev..Len(word)
              /\ word[NextWildcard(word, prev)] \in Wildcards
              /\ \A i \in prev..(NextWildcard(word, prev) - 1) : word[i] \notin Wildcards
BY FindFirstIs DEF NextWildcard, Wildcards

(* Without a wildcard the rest is the last word.                           *)
LEMMA WordsBodyLast ==
  ASSUME NEW A, NEW word \in Seq(A), NEW prev \in 1..(Len(word) + 1), NEW f,
         NextWildcard(word, prev) = 0
  PROVE  /\ NonEmpty(Between(word, prev, Len(word) + 1)) \in Seq(Seq(A))
         /\ WordsBody(word, f, prev) = NonEmpty(Between(word, prev, Len(word) + 1))
<1>1. Len(word) + 1 \in prev..(Len(word) + 1)
  OBVIOUS
<1>2. NonEmpty(Between(word, prev, Len(word) + 1)) \in Seq(Seq(A))
  BY <1>1, BetweenIs, NonEmptyTyped
<1> QED
  BY <1>2 DEF WordsBody, NextWildcard

(* With one, what is before it is the first word.                          *)
LEMMA WordsBodyMore ==
  ASSUME NEW A, NEW word \in Seq(A), NEW prev \in 1..(Len(word) + 1), NEW f,
         NEW pos \in prev..Len(word), NextWildcard(word, prev) = pos
  PROVE  /\ NonEmpty(Between(word, prev, pos)) \in Seq(Seq(A))
         /\ WordsBody(word, f, prev) = NonEmpty(Between(word, prev, pos)) \o f[pos + 1]
<1>1. pos \in prev..(Len(word) + 1) /\ pos # 0
  OBVIOUS
<1>2. NonEmpty(Between(word, prev, pos)) \in Seq(Seq(A))
  BY <1>1, BetweenIs, NonEmptyTyped
<1> QED
  BY <1>1, <1>2 DEF WordsBody, NextWildcard

(* Both, for every place.                                                  *)
Unfolds(A, word, f) ==
  /\ \A prev \in 1..(Len(word) + 1) :
       NextWildcard(word, prev) = 0
         => WordsBody(word, f, prev) = NonEmpty(Between(word, prev, Len(word) + 1))
  /\ \A prev \in 1..(Len(word) + 1) : \A pos \in prev..Len(word) :
       NextWildcard(word, prev) = pos
         => /\ NonEmpty(Between(word, prev, pos)) \in Seq(Seq(A))
            /\ WordsBody(word, f, prev) = NonEmpty(Between(word, prev, pos)) \o f[pos + 1]

LEMMA WordsBodyUnfolds ==
  ASSUME NEW A, NEW word \in Seq(A), NEW f
  PROVE  Unfolds(A, word, f)
<1>1. ASSUME NEW prev \in 1..(Len(word) + 1), NextWildcard(word, prev) = 0
      PROVE  WordsBody(word, f, prev) = NonEmpty(Between(word, prev, Len(word) + 1))
  BY <1>1, WordsBodyLast
<1>2. ASSUME NEW prev \in 1..(Len(word) + 1), NEW pos \in prev..Len(word),
             NextWildcard(word, prev) = pos
      PROVE  /\ NonEmpty(Between(word, prev, pos)) \in Seq(Seq(A))
             /\ WordsBody(word, f, prev) = NonEmpty(Between(word, prev, pos)) \o f[pos + 1]
  BY <1>2, WordsBodyMore
<1> QED
  BY <1>1, <1>2, Zenon DEF Unfolds

(* WordsOfPart is its body, with itself in the place of rest.              *)
LEMMA WordsOfPartIs ==
  ASSUME NEW A, NEW word \in Seq(A)
  PROVE  \E f \in [1..(Len(word) + 1) -> Seq(Seq(A))] :
           /\ WordsOfPart(word) = f[1]
           /\ \A prev \in 1..(Len(word) + 1) : f[prev] = WordsBody(word, f, prev)
<1> DEFINE n == Len(word)
           D == 1..(n + 1)
           V == Seq(Seq(A))
           rest == CHOOSE f : f = [prev \in D |-> WordsBody(word, f, prev)]
           step == [f \in [D -> V] |-> [prev \in D |-> WordsBody(word, f, prev)]]
<1>1. WordsOfPart(word) = rest[1]
  BY DEF WordsOfPart, WordsBody
<1>2. n \in Nat
  OBVIOUS
<1>3. << >> \in V
  OBVIOUS
<1>4. ASSUME NEW prev \in D, NEW f, NEW g, \A j \in (prev + 1)..(n + 1) : f[j] = g[j]
      PROVE  WordsBody(word, f, prev) = WordsBody(word, g, prev)
  <2>1. CASE NextWildcard(word, prev) = 0
    BY <2>1 DEF WordsBody, NextWildcard
  <2>2. CASE NextWildcard(word, prev) # 0
    <3>1. NextWildcard(word, prev) + 1 \in (prev + 1)..(n + 1)
      BY <2>2, NextWildcardIs
    <3>2. f[NextWildcard(word, prev) + 1] = g[NextWildcard(word, prev) + 1]
      BY <1>4, <3>1
    <3> QED
      BY <2>2, <3>2 DEF WordsBody, NextWildcard
  <2> QED
    BY <2>1, <2>2
<1>5. ASSUME NEW prev \in D, NEW f, \A j \in (prev + 1)..(n + 1) : f[j] \in V
      PROVE  WordsBody(word, f, prev) \in V
  <2>1. CASE NextWildcard(word, prev) = 0
    BY <2>1, WordsBodyLast
  <2>2. CASE NextWildcard(word, prev) # 0
    <3>1. PICK pos \in prev..n : NextWildcard(word, prev) = pos
      BY <2>2, NextWildcardIs
    <3>2. f[pos + 1] \in V
      BY <1>5
    <3>3. /\ NonEmpty(Between(word, prev, pos)) \in V
          /\ WordsBody(word, f, prev) = NonEmpty(Between(word, prev, pos)) \o f[pos + 1]
      BY <3>1, WordsBodyMore
    <3> QED
      BY <3>2, <3>3, Concatenated
  <2> QED
    BY <2>1, <2>2
<1> HIDE DEF D, V, n
<1>6. \A f \in [D -> V], prev \in D : step[f][prev] = WordsBody(word, f, prev)
  OBVIOUS
<1>7. PICK f \in [D -> V] : \A prev \in D : f[prev] = step[f][prev]
  <2> HIDE DEF step
  <2>1. ASSUME NEW prev \in D, NEW f \in [D -> V]
        PROVE  step[f][prev] \in V
    <3>1. \A j \in (prev + 1)..(n + 1) : f[j] \in V
      BY <1>2 DEF D
    <3> QED
      BY <1>5, <1>6, <3>1
  <2>2. ASSUME NEW prev \in D, NEW f \in [D -> V], NEW g \in [D -> V],
               \A j \in (prev + 1)..(n + 1) : f[j] = g[j]
        PROVE  step[f][prev] = step[g][prev]
    <3>1. step[f][prev] = WordsBody(word, f, prev) /\ step[g][prev] = WordsBody(word, g, prev)
      BY <1>6
    <3>2. WordsBody(word, f, prev) = WordsBody(word, g, prev)
      BY <1>4, <2>2
    <3> QED
      BY <3>1, <3>2, Zenon
  <2>3. IsBackward(n, V, step)
    BY <2>1, <2>2 DEF IsBackward, D
  <2>4. \E f \in [1..(n + 1) -> V] : \A prev \in 1..(n + 1) : f[prev] = step[f][prev]
    BY <1>2, <1>3, <2>3, BackwardRecursion
  <2> QED
    BY <2>4 DEF D
<1>8. f = [prev \in D |-> WordsBody(word, f, prev)]
  <2> HIDE DEF step
  <2> QED
    BY <1>6, <1>7
<1>9. rest = [prev \in D |-> WordsBody(word, rest, prev)]
  BY <1>8
<1> HIDE DEF rest, step
<1>10. \A prev \in D : rest[prev] = WordsBody(word, rest, prev)
  BY <1>9, Zenon
<1>11. \A prev \in D : rest[prev] \in V
  <2> DEFINE P == {prev \in D : rest[prev] \in V}
  <2>1. ASSUME NEW prev \in D, \A j \in (prev + 1)..(n + 1) : j \in P
        PROVE  prev \in P
    BY <1>5, <1>10, <2>1
  <2>2. \A prev \in D : prev \in P
    <3> HIDE DEF P
    <3>1. \A prev \in 1..(n + 1) : (\A j \in (prev + 1)..(n + 1) : j \in P) => prev \in P
      BY <2>1 DEF D
    <3> QED
      BY <1>2, <3>1, BackwardInduction DEF D
  <2> QED
    BY <2>2
<1>12. rest \in [D -> V]
  BY <1>9, <1>11
<1> QED
  BY <1>1, <1>10, <1>12 DEF D, V, n

------------------------------------------------------------------------------
(* How fnmatch reads a pattern                                           *)

(* A bracket expression begins at the i-th symbol of p.                    *)
Opens(p, i) == p[i] = "[" /\ Bracket(p, i).close # 0

(* The i-th symbol of p is compared with one of the text.                  *)
IsLiteral(p, i) == p[i] \notin Wildcards /\ ~Opens(p, i)

(* G[i] has sequences of words for the symbols of p from the i-th on:      *)
(* none at the end, the same ones before a wildcard and before a bracket   *)
(* expression, and one word more before a stretch of literal symbols.      *)
Reads(A, p, G) ==
  /\ << >> \in G[Len(p) + 1]
  /\ \A i \in DOMAIN p, ws \in Seq(Seq(A)) :
       /\ p[i] \in Wildcards /\ ws \in G[i + 1] => ws \in G[i]
       /\ Opens(p, i) /\ ws \in G[Bracket(p, i).close + 1] => ws \in G[i]
  /\ \A a \in DOMAIN p, b \in 2..(Len(p) + 1), ws \in Seq(Seq(A)) :
       a < b /\ (\A i \in a..(b - 1) : IsLiteral(p, i)) /\ ws \in G[b]
         => <<SubSeq(p, a, b - 1)>> \o ws \in G[a]

(* A stretch of literal symbols, that may be empty, adds what push_back    *)
(* adds.                                                                   *)
LEMMA StretchReads ==
  ASSUME NEW A, NEW p \in Seq(A), NEW G, Reads(A, p, G),
         NEW a \in 1..(Len(p) + 1), NEW b \in a..(Len(p) + 1),
         \A i \in a..(b - 1) : IsLiteral(p, i),
         NEW ws \in Seq(Seq(A)), ws \in G[b], NEW w, w = SubSeq(p, a, b - 1)
  PROVE  NonEmpty(w) \o ws \in G[a]
<1>1. w \in Seq(A) /\ Len(w) = b - a
  OBVIOUS
<1>2. CASE a = b
  <2>1. w = << >>
    BY <1>1, <1>2
  <2>2. << >> \o ws = ws
    OBVIOUS
  <2> QED
    BY <1>2, <2>1, <2>2 DEF NonEmpty
<1>3. CASE a < b
  <2>1. w # << >>
    <3>1. Len(w) # 0
      BY <1>1, <1>3
    <3>2. Len(<< >>) = 0
      OBVIOUS
    <3> QED
      BY <3>1, <3>2
  <2>2. a \in DOMAIN p /\ b \in 2..(Len(p) + 1)
    BY <1>3
  <2>3. <<SubSeq(p, a, b - 1)>> \o ws \in G[a]
    BY <1>3, <2>2 DEF Reads
  <2> QED
    BY <2>1, <2>3 DEF NonEmpty
<1> QED
  BY <1>2, <1>3

(* A part of a part is a part.                                             *)
LEMMA SubSub ==
  ASSUME NEW A, NEW p \in Seq(A), NEW a \in 1..(Len(p) + 1), NEW b \in a..(Len(p) + 1),
         NEW k \in 1..(b - a + 1), NEW j \in k..(b - a + 1)
  PROVE  Between(SubSeq(p, a, b - 1), k, j) = SubSeq(p, a + k - 1, (a + j - 1) - 1)
<1> DEFINE s == SubSeq(p, a, b - 1)
           x == SubSeq(s, k, j - 1)
           y == SubSeq(p, a + k - 1, (a + j - 1) - 1)
<1>1. s \in Seq(A) /\ Len(s) = b - a /\ \A i \in 1..(b - a) : s[i] = p[a + i - 1]
  OBVIOUS
<1> HIDE DEF s
<1>2. x \in Seq(A) /\ Len(x) = j - k /\ \A i \in 1..(j - k) : x[i] = s[k + i - 1]
  BY <1>1
<1>3. y \in Seq(A) /\ Len(y) = j - k /\ \A i \in 1..(j - k) : y[i] = p[a + k - 1 + i - 1]
  OBVIOUS
<1> HIDE DEF x, y
<1>4. \A i \in 1..(j - k) : x[i] = y[i]
  <2> SUFFICES ASSUME NEW i \in 1..(j - k)
               PROVE  x[i] = y[i]
    OBVIOUS
  <2>1. k + i - 1 \in 1..(b - a) /\ a + (k + i - 1) - 1 = a + k - 1 + i - 1
    OBVIOUS
  <2>2. s[k + i - 1] = p[a + (k + i - 1) - 1]
    BY <1>1, <2>1
  <2> QED
    BY <1>2, <1>3, <2>1, <2>2
<1>5. x = y
  <2>1. Len(x) = Len(y) /\ \A i \in 1..Len(y) : x[i] = y[i]
    BY <1>2, <1>3, <1>4
  <2> QED
    BY <1>2, <1>3, <2>1, SameElements
<1> QED
  BY <1>5 DEF x, y, s, Between

(* Sequences are put together in any order.                               *)
LEMMA SequencesAssociate ==
  ASSUME NEW S, NEW x \in Seq(S), NEW y \in Seq(S), NEW z \in Seq(S)
  PROVE  (x \o y) \o z = x \o (y \o z)
<1> DEFINE l == (x \o y) \o z
           r == x \o (y \o z)
<1>1. /\ x \o y \in Seq(S)
      /\ Len(x \o y) = Len(x) + Len(y)
      /\ \A i \in 1..Len(x) : (x \o y)[i] = x[i]
      /\ \A i \in (Len(x) + 1)..(Len(x) + Len(y)) : (x \o y)[i] = y[i - Len(x)]
  OBVIOUS
<1>2. /\ y \o z \in Seq(S)
      /\ Len(y \o z) = Len(y) + Len(z)
      /\ \A i \in 1..Len(y) : (y \o z)[i] = y[i]
      /\ \A i \in (Len(y) + 1)..(Len(y) + Len(z)) : (y \o z)[i] = z[i - Len(y)]
  OBVIOUS
<1>3. /\ l \in Seq(S)
      /\ Len(l) = Len(x) + Len(y) + Len(z)
  BY <1>1
<1>4. /\ r \in Seq(S)
      /\ Len(r) = Len(x) + Len(y) + Len(z)
  BY <1>2
<1>5. ASSUME NEW i \in 1..Len(r)
      PROVE  l[i] = r[i]
  <2>1. CASE i \in 1..Len(x)
    BY <1>1, <1>2, <2>1
  <2>2. CASE i \in (Len(x) + 1)..(Len(x) + Len(y))
    BY <1>1, <1>2, <2>2
  <2>3. CASE i \in (Len(x) + Len(y) + 1)..(Len(x) + Len(y) + Len(z))
    BY <1>1, <1>2, <2>3
  <2> QED
    BY <1>4, <2>1, <2>2, <2>3
<1> HIDE DEF l, r
<1>6. Len(l) = Len(r) /\ \A i \in 1..Len(r) : l[i] = r[i]
  BY <1>3, <1>4, <1>5
<1>7. l = r
  BY <1>3, <1>4, <1>6, SameElements
<1> QED
  BY <1>7 DEF l, r

(* Sequences of words are such sequences.                                 *)
LEMMA WordsAssociate ==
  ASSUME NEW A, NEW x \in Seq(Seq(A)), NEW y \in Seq(Seq(A)), NEW z \in Seq(Seq(A))
  PROVE  (x \o y) \o z = x \o (y \o z)
BY SequencesAssociate, SMTT(30)

(* The words of a stretch come before what comes before other words.       *)
LEMMA WordBefore ==
  ASSUME NEW A, NEW x \in Seq(Seq(A)), NEW y \in Seq(Seq(A)), NEW z \in Seq(Seq(A)),
         NEW S, x \o (y \o z) \in S
  PROVE  (x \o y) \o z \in S
<1>1. (x \o y) \o z = x \o (y \o z)
  BY WordsAssociate, SMTT(30)
<1> QED
  BY <1>1

(* What is no wildcard in a part without bracket expressions is a literal. *)
LEMMA PartLiterals ==
  ASSUME NEW A, NEW p \in Seq(A),
         NEW a \in 1..(Len(p) + 1), NEW b \in a..(Len(p) + 1),
         \A i \in a..(b - 1) : ~Opens(p, i),
         NEW word, \A i \in 1..(b - a) : word[i] = p[a + i - 1],
         NEW prev \in 1..(b - a + 1), NEW pos \in prev..(b - a + 1),
         \A i \in prev..(pos - 1) : word[i] \notin Wildcards
  PROVE  \A i \in (a + prev - 1)..(a + pos - 1 - 1) : IsLiteral(p, i)
<1> SUFFICES ASSUME NEW i \in (a + prev - 1)..(a + pos - 1 - 1)
             PROVE  IsLiteral(p, i)
  OBVIOUS
<1> DEFINE k == i - a + 1
<1>1. a \in Int /\ b \in Int /\ prev \in Int /\ pos \in Int /\ i \in Int
  OBVIOUS
<1>2. /\ 1 <= a /\ 1 <= prev /\ prev <= pos /\ pos <= b - a + 1
      /\ a + prev - 1 <= i /\ i <= a + pos - 1 - 1
  BY <1>1
<1>3. k \in prev..(pos - 1) /\ k \in 1..(b - a) /\ i \in a..(b - 1)
  BY <1>1, <1>2
<1>4. a + k - 1 = i
  BY <1>1
<1> HIDE DEF k
<1>5. p[i] \notin Wildcards
  <2>1. word[k] = p[a + k - 1]
    BY <1>3
  <2>2. word[k] \notin Wildcards
    BY <1>3
  <2> QED
    BY <1>4, <2>1, <2>2
<1> QED
  BY <1>3, <1>5 DEF IsLiteral

(* The words of a part in which no bracket expression begins are read.     *)
LEMMA PartReads ==
  ASSUME NEW A, NEW p \in Seq(A), NEW G, Reads(A, p, G),
         NEW a \in 1..(Len(p) + 1), NEW b \in a..(Len(p) + 1),
         \A i \in a..(b - 1) : ~Opens(p, i),
         NEW ws \in Seq(Seq(A)), ws \in G[b]
  PROVE  /\ WordsOfPart(SubSeq(p, a, b - 1)) \in Seq(Seq(A))
         /\ WordsOfPart(SubSeq(p, a, b - 1)) \o ws \in G[a]
<1> DEFINE word == SubSeq(p, a, b - 1)
           n == b - a
           D == 1..(n + 1)
<1>1. /\ word \in Seq(A) /\ Len(word) = n /\ n \in Nat
      /\ \A i \in 1..n : word[i] = p[a + i - 1]
  OBVIOUS
<1>2. PICK f \in [D -> Seq(Seq(A))] :
         /\ WordsOfPart(word) = f[1]
         /\ \A prev \in D : f[prev] = WordsBody(word, f, prev)
  <2> HIDE DEF word, n
  <2>1. \E f \in [1..(Len(word) + 1) -> Seq(Seq(A))] :
           /\ WordsOfPart(word) = f[1]
           /\ \A prev \in 1..(Len(word) + 1) : f[prev] = WordsBody(word, f, prev)
    BY <1>1, WordsOfPartIs
  <2> QED
    BY <1>1, <2>1, Zenon
<1>3. Unfolds(A, word, f)
  <2>1. word \in Seq(A)
    BY <1>1
  <2> HIDE DEF word, D
  <2> QED
    BY <2>1, WordsBodyUnfolds, Zenon
<1> DEFINE P == {prev \in D : f[prev] \o ws \in G[a + prev - 1]}
<1>4. ASSUME NEW prev \in D, \A y \in (prev + 1)..(n + 1) : y \in P
      PROVE  prev \in P
  <2> DEFINE s == a + prev - 1
  <2>1. s \in 1..(Len(p) + 1) /\ s \in a..b /\ b \in s..(Len(p) + 1)
    OBVIOUS
  <2>2. CASE NextWildcard(word, prev) = 0
    <3>1. \A i \in prev..n : word[i] \notin Wildcards
      BY <1>1, <2>2, NextWildcardIs
    <3>2. \A i \in s..(b - 1) : IsLiteral(p, i)
      <4>1. prev \in 1..(b - a + 1) /\ n + 1 \in prev..(b - a + 1)
        OBVIOUS
      <4>2. \A i \in 1..(b - a) : word[i] = p[a + i - 1]
        BY <1>1
      <4>3. \A i \in prev..((n + 1) - 1) : word[i] \notin Wildcards
        BY <3>1
      <4>4. b - 1 = a + (n + 1) - 1 - 1
        OBVIOUS
      <4> HIDE DEF word, P
      <4>5. \A i \in (a + prev - 1)..(a + (n + 1) - 1 - 1) : IsLiteral(p, i)
        <5> HIDE DEF D, s
        <5> QED
          BY <4>1, <4>2, <4>3, PartLiterals
      <4> QED
        BY <4>4, <4>5
    <3> DEFINE w == Between(word, prev, n + 1)
    <3>3. w = SubSeq(p, s, b - 1)
      <4>1. prev \in 1..(b - a + 1) /\ n + 1 \in prev..(b - a + 1) /\ (a + (n + 1) - 1) - 1 = b - 1
        OBVIOUS
      <4>2. Between(word, prev, n + 1) = SubSeq(p, a + prev - 1, (a + (n + 1) - 1) - 1)
        BY <4>1, SubSub
      <4> QED
        BY <4>1, <4>2
    <3>4. f[prev] = NonEmpty(w)
      <4>1. word \in Seq(A) /\ prev \in 1..(Len(word) + 1) /\ Len(word) = n
        BY <1>1
      <4>2. WordsBody(word, f, prev) = NonEmpty(Between(word, prev, Len(word) + 1))
        <5> HIDE DEF word, n, D
        <5> QED
          BY <1>3, <2>2, <4>1, Zenon DEF Unfolds
      <4>3. f[prev] = WordsBody(word, f, prev)
        BY <1>2
      <4> QED
        BY <4>1, <4>2, <4>3
    <3> HIDE DEF w
    <3>5. NonEmpty(w) \o ws \in G[s]
      BY <2>1, <3>2, <3>3, StretchReads
    <3> QED
      BY <3>4, <3>5
  <2>3. CASE NextWildcard(word, prev) # 0
    <3>1. PICK pos \in prev..n :
            /\ NextWildcard(word, prev) = pos
            /\ word[pos] \in Wildcards
            /\ \A i \in prev..(pos - 1) : word[i] \notin Wildcards
      <4> HIDE DEF word, n
      <4> QED
        BY <1>1, <2>3, NextWildcardIs
    <3> DEFINE w == Between(word, prev, pos)
               e == a + pos - 1
    <3>2. f[prev] = NonEmpty(w) \o f[pos + 1] /\ NonEmpty(w) \in Seq(Seq(A))
      <4>1. NonEmpty(w) \in Seq(Seq(A)) /\ WordsBody(word, f, prev) = NonEmpty(w) \o f[pos + 1]
        <5>1. prev \in 1..(Len(word) + 1) /\ pos \in prev..Len(word)
          BY <1>1
        <5>2. word \in Seq(A) /\ NextWildcard(word, prev) = pos
          BY <1>1, <3>1
        <5> HIDE DEF word, n, D
        <5> QED
          BY <1>3, <5>1, <5>2, Zenon DEF Unfolds
      <4> QED
        BY <1>2, <4>1
    <3>3. pos + 1 \in D /\ pos + 1 \in (prev + 1)..(n + 1)
      OBVIOUS
    <3>4. f[pos + 1] \o ws \in G[e + 1]
      <4>1. a + (pos + 1) - 1 = e + 1
        OBVIOUS
      <4>2. pos + 1 \in P
        BY <1>4, <3>3
      <4> QED
        BY <4>1, <4>2
    <3>5. f[pos + 1] \in Seq(Seq(A)) /\ f[pos + 1] \o ws \in Seq(Seq(A))
      BY <1>2, <3>3, Concatenated
    <3>6. e \in DOMAIN p /\ e \in s..(Len(p) + 1) /\ p[e] \in Wildcards
      <4>1. pos \in 1..n /\ e \in DOMAIN p /\ e \in s..(Len(p) + 1)
        OBVIOUS
      <4> QED
        BY <1>1, <3>1, <4>1
    <3>7. f[pos + 1] \o ws \in G[e]
      BY <3>4, <3>5, <3>6 DEF Reads
    <3>8. \A i \in s..(e - 1) : IsLiteral(p, i)
      <4>1. prev \in 1..(b - a + 1) /\ pos \in prev..(b - a + 1)
        OBVIOUS
      <4>2. \A i \in 1..(b - a) : word[i] = p[a + i - 1]
        BY <1>1
      <4>3. \A i \in prev..(pos - 1) : word[i] \notin Wildcards
        BY <3>1
      <4> HIDE DEF word, P
      <4>4. \A i \in (a + prev - 1)..(a + pos - 1 - 1) : IsLiteral(p, i)
        <5> HIDE DEF D, s, e, n
        <5> QED
          BY <4>1, <4>2, <4>3, PartLiterals
      <4> QED
        BY <4>4
    <3>9. w = SubSeq(p, s, e - 1)
      <4>1. prev \in 1..(b - a + 1) /\ pos \in prev..(b - a + 1)
        OBVIOUS
      <4> QED
        BY <4>1, SubSub
    <3> HIDE DEF w, e
    <3>10. NonEmpty(w) \o (f[pos + 1] \o ws) \in G[s]
      BY <2>1, <3>5, <3>6, <3>7, <3>8, <3>9, StretchReads
    <3>11. (NonEmpty(w) \o f[pos + 1]) \o ws \in G[s]
      <4>1. ws \in Seq(Seq(A)) /\ f[pos + 1] \in Seq(Seq(A)) /\ NonEmpty(w) \in Seq(Seq(A))
        BY <3>2, <3>5
      <4> HIDE DEF word, n, D, P, s
      <4> QED
        BY <3>10, <4>1, WordBefore, Zenon
    <3>12. f[prev] \o ws \in G[s]
      BY <3>2, <3>11
    <3> QED
      BY <3>12
  <2> QED
    BY <2>2, <2>3
<1>5. \A prev \in D : prev \in P
  <2>1. n \in Nat
    BY <1>1
  <2>2. \A prev \in 1..(n + 1) : (\A y \in (prev + 1)..(n + 1) : y \in P) => prev \in P
    BY <1>4
  <2> HIDE DEF P, n
  <2> QED
    BY <2>1, <2>2, BackwardInduction
<1>6. 1 \in D /\ a + 1 - 1 = a
  BY <1>1
<1>7. f[1] \in Seq(Seq(A)) /\ f[1] \o ws \in G[a]
  BY <1>5, <1>6
<1> QED
  BY <1>2, <1>7

------------------------------------------------------------------------------
(* The '[' of the next pair of brackets, 0 when there is none              *)
NextOpen(in, prev) == FindFirstOf({"["}, in, prev)

(* The ']' that ends the next pair, 0 when there is no pair                *)
NextClose(in, prev) ==
  IF NextOpen(in, prev) = 0 THEN 0 ELSE FindFirstOf({"]"}, in, NextOpen(in, prev))

(* The body of SplitOnBrackets                                             *)
SplitBody(in, f, prev) ==
  IF NextClose(in, prev) = 0
  THEN <<Between(in, prev, Len(in) + 1)>>
  ELSE <<Between(in, prev, NextOpen(in, prev))>> \o f[NextClose(in, prev) + 1]

(* The pair is a '[' and a ']' with no '[' before and no ']' in it.        *)
LEMMA NextCloseIs ==
  ASSUME NEW A, NEW in \in Seq(A), NEW prev \in 1..(Len(in) + 1),
         NextClose(in, prev) # 0
  PROVE  /\ NextOpen(in, prev) \in prev..Len(in)
         /\ in[NextOpen(in, prev)] = "["
         /\ \A i \in prev..(NextOpen(in, prev) - 1) : in[i] # "["
         /\ NextClose(in, prev) \in NextOpen(in, prev)..Len(in)
         /\ in[NextClose(in, prev)] = "]"
         /\ \A i \in NextOpen(in, prev)..(NextClose(in, prev) - 1) : in[i] # "]"
<1> DEFINE o == NextOpen(in, prev)
           c == NextClose(in, prev)
<1>1. o # 0 /\ c = FindFirstOf({"]"}, in, o) /\ o = FindFirstOf({"["}, in, prev)
  BY DEF NextClose, NextOpen
<1>2. prev \in Nat /\ prev >= 1
  OBVIOUS
<1>3. o \in prev..Len(in) /\ in[o] \in {"["} /\ \A i \in prev..(o - 1) : in[i] \notin {"["}
  <2> HIDE DEF o, c
  <2> QED
    BY <1>1, <1>2, FindFirstIs
<1>4. o \in Nat /\ o >= 1
  <2> HIDE DEF o
  <2> QED
    BY <1>2, <1>3
<1>5. c \in o..Len(in) /\ in[c] \in {"]"} /\ \A i \in o..(c - 1) : in[i] \notin {"]"}
  <2> HIDE DEF o, c
  <2>1. c # 0
    BY DEF c
  <2> QED
    BY <1>1, <1>4, <2>1, FindFirstIs
<1> QED
  BY <1>3, <1>5

(* Without a pair the rest is the last part, otherwise what precedes it    *)
(* is one.                                                                 *)
LEMMA SplitBodyIs ==
  ASSUME NEW A, NEW in \in Seq(A), NEW prev \in 1..(Len(in) + 1), NEW f
  PROVE  /\ NextClose(in, prev) = 0 =>
              /\ Between(in, prev, Len(in) + 1) \in Seq(A)
              /\ SplitBody(in, f, prev) = <<Between(in, prev, Len(in) + 1)>>
         /\ NextClose(in, prev) # 0 =>
              /\ Between(in, prev, NextOpen(in, prev)) \in Seq(A)
              /\ NextClose(in, prev) + 1 \in (prev + 1)..(Len(in) + 1)
              /\ SplitBody(in, f, prev) =
                   <<Between(in, prev, NextOpen(in, prev))>> \o f[NextClose(in, prev) + 1]
<1>1. CASE NextClose(in, prev) = 0
  <2>1. Len(in) + 1 \in prev..(Len(in) + 1)
    OBVIOUS
  <2> QED
    BY <1>1, <2>1, BetweenIs DEF SplitBody
<1>2. CASE NextClose(in, prev) # 0
  <2> DEFINE o == NextOpen(in, prev)
             c == NextClose(in, prev)
  <2>1. o \in prev..Len(in) /\ c \in o..Len(in)
    BY <1>2, NextCloseIs
  <2> HIDE DEF o, c
  <2>2. o \in prev..(Len(in) + 1) /\ c + 1 \in (prev + 1)..(Len(in) + 1)
    BY <2>1
  <2>3. Between(in, prev, o) \in Seq(A)
    BY <2>2, BetweenIs
  <2> QED
    BY <1>2, <2>2, <2>3 DEF SplitBody, o, c
<1> QED
  BY <1>1, <1>2

(* m is what find_first_of finds from the k-th place of s on.              *)
IsFirst(C, s, k, m) ==
  \/ m = 0 /\ \A i \in k..Len(s) : s[i] \notin C
  \/ m \in k..Len(s) /\ s[m] \in C /\ \A i \in k..(m - 1) : s[i] \notin C

(* It is found.                                                            *)
LEMMA FoundIsFirst ==
  ASSUME NEW A, NEW s \in Seq(A), NEW C, NEW k \in Nat, k >= 1, NEW m,
         IsFirst(C, s, k, m)
  PROVE  FindFirstOf(C, s, k) = m
<1> DEFINE f == FindFirstOf(C, s, k)
<1>1. /\ f \in Nat
      /\ f = 0 => \A i \in k..Len(s) : s[i] \notin C
      /\ f # 0 => /\ f \in k..Len(s)
                  /\ s[f] \in C
                  /\ \A i \in k..(f - 1) : s[i] \notin C
  BY FindFirstIs
<1> HIDE DEF f
<1>2. CASE m = 0
  <2>1. \A i \in k..Len(s) : s[i] \notin C
    BY <1>2 DEF IsFirst
  <2>2. f = 0
    BY <1>1, <2>1
  <2> QED
    BY <1>2, <2>2 DEF f
<1>3. CASE m # 0
  <2>1. m \in k..Len(s) /\ s[m] \in C /\ \A i \in k..(m - 1) : s[i] \notin C
    BY <1>3 DEF IsFirst
  <2>2. f # 0
    BY <1>1, <2>1
  <2>3. ~(f < m) /\ ~(m < f)
    BY <1>1, <2>1, <2>2
  <2> QED
    BY <1>1, <2>1, <2>3 DEF f
<1> QED
  BY <1>2, <1>3

(* The same is found from an earlier place when there is none between.     *)
LEMMA FirstFromEarlier ==
  ASSUME NEW A, NEW s \in Seq(A), NEW C, NEW k \in Nat, NEW l \in Nat, 1 <= k, k <= l, NEW m,
         IsFirst(C, s, l, m), \A i \in k..(l - 1) : s[i] \notin C
  PROVE  IsFirst(C, s, k, m)
<1>1. CASE m = 0
  <2>1. ASSUME NEW i \in k..Len(s)
        PROVE  s[i] \notin C
    <3>1. i \in k..(l - 1) \/ i \in l..Len(s)
      OBVIOUS
    <3>2. i \in l..Len(s) => s[i] \notin C
      BY <1>1 DEF IsFirst
    <3> QED
      BY <3>1, <3>2
  <2> QED
    BY <1>1, <2>1 DEF IsFirst
<1>2. CASE m # 0
  <2>1. m \in l..Len(s) /\ s[m] \in C /\ \A i \in l..(m - 1) : s[i] \notin C
    BY <1>2 DEF IsFirst
  <2>2. ASSUME NEW i \in k..(m - 1)
        PROVE  s[i] \notin C
    <3>1. i \in k..(l - 1) \/ i \in l..(m - 1)
      BY <2>1
    <3> QED
      BY <2>1, <3>1
  <2> QED
    BY <2>1, <2>2 DEF IsFirst
<1> QED
  BY <1>1, <1>2

------------------------------------------------------------------------------
(* The first symbol that the bracket expression at i lists                 *)
FirstListed(p, i) == IF i < Len(p) /\ p[i + 1] \in {"!", "^"} THEN i + 2 ELSE i + 1

(* The body of the scan of a bracket expression                            *)
ScanBody(p, first, f, k) ==
  LET IsClass(l) == SubSeq(p, l, l + 2) = <<"[", ":alpha:", "]">>
      listing(C, l) == [f[l] EXCEPT !.lists = @ \cup C]
  IN  CASE k > Len(p) -> [close |-> 0, lists |-> {}]
        [] k <= Len(p) /\ p[k] = "]" /\ k # first -> [close |-> k, lists |-> {}]
        [] k < Len(p) /\ p[k] = "\\" -> listing(Characters(p[k + 1]), k + 2)
        [] k + 2 <= Len(p) /\ IsClass(k) -> listing(Letters, k + 3)
        [] OTHER -> listing(Characters(p[k]), k + 1)

(* One symbol more is listed.                                              *)
Listing(r, c) == [r EXCEPT !.lists = @ \cup {c}]

(* ... and what it is in a plain pattern                                   *)
PlainScan(p, first, f, k) ==
  IF k > Len(p) THEN [close |-> 0, lists |-> {}]
  ELSE IF p[k] = "]" /\ k # first THEN [close |-> k, lists |-> {}]
  ELSE Listing(f[k + 1], p[k])

(* For it has no '\' and no character class.                               *)
LEMMA ScanIsPlain ==
  ASSUME NEW A, NEW p \in Seq(A), Plain(p), NEW first, NEW f, NEW k \in 1..(Len(p) + 3)
  PROVE  ScanBody(p, first, f, k) = PlainScan(p, first, f, k)
<1>1. \A i \in 1..Len(p) : p[i] # "\\" /\ p[i] # ":alpha:"
  BY DEF Plain
<1>2. k < Len(p) => p[k] # "\\"
  BY <1>1
<1>3. ~(k + 2 <= Len(p) /\ SubSeq(p, k, k + 2) = <<"[", ":alpha:", "]">>)
  <2> SUFFICES ASSUME k + 2 <= Len(p), SubSeq(p, k, k + 2) = <<"[", ":alpha:", "]">>
               PROVE  FALSE
    OBVIOUS
  <2>1. SubSeq(p, k, k + 2)[2] = p[k + 1]
    OBVIOUS
  <2>2. <<"[", ":alpha:", "]">>[2] = ":alpha:"
    OBVIOUS
  <2>3. p[k + 1] = ":alpha:"
    BY <2>1, <2>2, Zenon
  <2>4. k + 1 \in 1..Len(p)
    OBVIOUS
  <2> QED
    BY <1>1, <2>3, <2>4, Zenon
<1>4. k <= Len(p) => Characters(p[k]) = {p[k]}
  BY <1>1 DEF Characters
<1>5. CASE k > Len(p)
  BY <1>5 DEF ScanBody, PlainScan
<1>6. CASE k <= Len(p) /\ p[k] = "]" /\ k # first
  BY <1>2, <1>3, <1>6 DEF ScanBody, PlainScan
<1>7. CASE k <= Len(p) /\ ~(p[k] = "]" /\ k # first)
  BY <1>2, <1>3, <1>4, <1>7 DEF ScanBody, PlainScan, Listing
<1> QED
  BY <1>5, <1>6, <1>7

(* What the scan of a bracket expression is when the pattern is plain      *)
LEMMA ScanIs ==
  ASSUME NEW A, NEW p \in Seq(A), Plain(p), NEW i \in DOMAIN p
  PROVE  \E f \in [1..(Len(p) + 3) -> [close : Nat, lists : SUBSET A]] :
           /\ Bracket(p, i).close = f[FirstListed(p, i)].close
           /\ \A k \in 1..(Len(p) + 3) : f[k] = PlainScan(p, FirstListed(p, i), f, k)
<1> DEFINE n == Len(p) + 2
           D == 1..(n + 1)
           V == [close : Nat, lists : SUBSET A]
           first == FirstListed(p, i)
           scan == CHOOSE f : f = [k \in 1..(Len(p) + 3) |-> ScanBody(p, first, f, k)]
           step == [f \in [D -> V] |-> [k \in D |-> PlainScan(p, first, f, k)]]
<1>1. Bracket(p, i).close = scan[first].close
  BY DEF Bracket, ScanBody, FirstListed
<1>2. n \in Nat /\ D = 1..(Len(p) + 3)
  OBVIOUS
<1>3. PICK e \in V : e = [close |-> 0, lists |-> {}]
  OBVIOUS
<1> HIDE DEF first
<1>4. ASSUME NEW k \in D, NEW f, NEW g, \A j \in (k + 1)..(n + 1) : f[j] = g[j]
      PROVE  PlainScan(p, first, f, k) = PlainScan(p, first, g, k)
  <2>1. k <= Len(p) => f[k + 1] = g[k + 1]
    BY <1>4
  <2> QED
    BY <2>1 DEF PlainScan
<1>5. ASSUME NEW k \in D, NEW f, \A j \in (k + 1)..(n + 1) : f[j] \in V
      PROVE  PlainScan(p, first, f, k) \in V
  <2>1. k <= Len(p) => f[k + 1] \in V
    BY <1>5
  <2>2. k <= Len(p) => p[k] \in A
    OBVIOUS
  <2>3. k \in Nat
    OBVIOUS
  <2>4. CASE k > Len(p) \/ (p[k] = "]" /\ k # first)
    BY <2>3, <2>4 DEF PlainScan
  <2>5. CASE k <= Len(p) /\ ~(p[k] = "]" /\ k # first)
    <3>1. PlainScan(p, first, f, k) = Listing(f[k + 1], p[k])
      BY <2>5 DEF PlainScan
    <3>2. Listing(f[k + 1], p[k]) \in V
      BY <2>1, <2>2, <2>5 DEF Listing
    <3> QED
      BY <3>1, <3>2
  <2> QED
    BY <2>3, <2>4, <2>5
<1>6. \A f : [k \in 1..(Len(p) + 3) |-> ScanBody(p, first, f, k)]
               = [k \in D |-> PlainScan(p, first, f, k)]
  BY <1>2, ScanIsPlain
<1> HIDE DEF D, V, n
<1>7. \A f \in [D -> V], k \in D : step[f][k] = PlainScan(p, first, f, k)
  OBVIOUS
<1>8. PICK f \in [D -> V] : \A k \in D : f[k] = step[f][k]
  <2> HIDE DEF step
  <2>1. \A k \in D, f \in [D -> V] : step[f][k] \in V
    <3> SUFFICES ASSUME NEW k \in D, NEW f \in [D -> V]
                 PROVE  step[f][k] \in V
      OBVIOUS
    <3>1. \A j \in (k + 1)..(n + 1) : f[j] \in V
      BY <1>2 DEF D
    <3> QED
      BY <1>5, <1>7, <3>1
  <2>2. ASSUME NEW k \in D, NEW f \in [D -> V], NEW g \in [D -> V],
               \A j \in (k + 1)..(n + 1) : f[j] = g[j]
        PROVE  step[f][k] = step[g][k]
    <3>1. step[f][k] = PlainScan(p, first, f, k) /\ step[g][k] = PlainScan(p, first, g, k)
      BY <1>7
    <3>2. PlainScan(p, first, f, k) = PlainScan(p, first, g, k)
      BY <1>4, <2>2
    <3> QED
      BY <3>1, <3>2, Zenon
  <2>3. IsBackward(n, V, step)
    BY <2>1, <2>2 DEF IsBackward, D
  <2>4. \E f \in [1..(n + 1) -> V] : \A k \in 1..(n + 1) : f[k] = step[f][k]
    <3>1. n \in Nat /\ e \in V
      BY <1>2
    <3> QED
      BY <3>1, <2>3, BackwardRecursion
  <2> QED
    BY <2>4 DEF D
<1>9. f = [k \in D |-> PlainScan(p, first, f, k)]
  <2> HIDE DEF step
  <2> QED
    BY <1>7, <1>8
<1>10. f = [k \in 1..(Len(p) + 3) |-> ScanBody(p, first, f, k)]
  BY <1>6, <1>9
<1>11. scan = [k \in 1..(Len(p) + 3) |-> ScanBody(p, first, scan, k)]
  BY <1>10
<1> HIDE DEF scan, step
<1>12. scan = [k \in D |-> PlainScan(p, first, scan, k)]
  BY <1>6, <1>11
<1>13. \A k \in D : scan[k] = PlainScan(p, first, scan, k)
  BY <1>12, Zenon
<1>14. \A k \in D : scan[k] \in V
  <2> DEFINE P == {k \in D : scan[k] \in V}
  <2>1. ASSUME NEW k \in D, \A j \in (k + 1)..(n + 1) : j \in P
        PROVE  k \in P
    BY <1>5, <1>13, <2>1
  <2>2. \A k \in D : k \in P
    <3> HIDE DEF P
    <3>1. \A k \in 1..(n + 1) : (\A j \in (k + 1)..(n + 1) : j \in P) => k \in P
      BY <2>1 DEF D
    <3> QED
      BY <1>2, <3>1, BackwardInduction DEF D
  <2> QED
    BY <2>2
<1>15. scan \in [D -> V]
  BY <1>12, <1>14
<1> QED
  BY <1>1, <1>2, <1>13, <1>15 DEF V, first

(* In a plain pattern a bracket expression ends at the first ']' after its *)
(* '[', where the splitting ends it, too.                                  *)
LEMMA PlainBracket ==
  ASSUME NEW A, NEW p \in Seq(A), Plain(p), NEW i \in DOMAIN p, p[i] = "["
  PROVE  Bracket(p, i).close = FindFirstOf({"]"}, p, i)
<1> DEFINE n == Len(p) + 2
           first == FirstListed(p, i)
           D == 1..(Len(p) + 3)
<1>1. PICK f \in [D -> [close : Nat, lists : SUBSET A]] :
         /\ Bracket(p, i).close = f[first].close
         /\ \A k \in D : f[k] = PlainScan(p, first, f, k)
  BY ScanIs
<1>2. /\ first \in {i + 1, i + 2} /\ i \in Nat /\ i >= 1 /\ i <= Len(p) /\ Len(p) \in Nat
      /\ first = i + 2 => i < Len(p) /\ p[i + 1] \in {"!", "^"}
  BY DEF FirstListed
<1> HIDE DEF first
<1>3. ASSUME first <= Len(p)
      PROVE  p[first] # "]"
  <2> SUFFICES ASSUME p[first] = "]"
               PROVE  FALSE
    OBVIOUS
  <2>1. CASE first = i + 1
    <3>1. EndsAt(<<"[", "]">>, p, i + 1)
      BY <1>2, <1>3, <2>1 DEF EndsAt
    <3>2. i + 1 \in DOMAIN p
      BY <1>2, <1>3, <2>1
    <3> QED
      BY <3>1, <3>2 DEF Plain
  <2>2. CASE first = i + 2
    <3>1. i + 2 \in DOMAIN p
      BY <1>2, <1>3, <2>2
    <3>2. CASE p[i + 1] = "!"
      <4>1. EndsAt(<<"[", "!", "]">>, p, i + 2)
        BY <1>2, <1>3, <2>2, <3>2, SMTT(30) DEF EndsAt
      <4> QED
        BY <3>1, <4>1 DEF Plain
    <3>3. CASE p[i + 1] = "^"
      <4>1. EndsAt(<<"[", "^", "]">>, p, i + 2)
        BY <1>2, <1>3, <2>2, <3>3, SMTT(30) DEF EndsAt
      <4> QED
        BY <3>1, <4>1 DEF Plain
    <3> QED
      BY <1>2, <2>2, <3>2, <3>3
  <2> QED
    BY <1>2, <2>1, <2>2
<1> DEFINE C == {"]"}
           P == {k \in D : k >= first => IsFirst(C, p, k, f[k].close)}
<1>4. ASSUME NEW k \in D, \A j \in (k + 1)..(n + 1) : j \in P, k >= first
      PROVE  IsFirst(C, p, k, f[k].close)
  <2>1. CASE k > Len(p)
    <3>1. f[k].close = 0
      BY <1>1, <2>1 DEF PlainScan
    <3> QED
      BY <2>1, <3>1 DEF IsFirst
  <2>2. CASE k <= Len(p) /\ p[k] = "]" /\ k # first
    <3>1. f[k].close = k
      BY <1>1, <2>2 DEF PlainScan
    <3> QED
      BY <2>2, <3>1 DEF IsFirst
  <2>3. CASE k <= Len(p) /\ (p[k] # "]" \/ k = first)
    <3>1. k + 1 \in D /\ k + 1 \in (k + 1)..(n + 1)
      BY <2>3
    <3>2. f[k].close = f[k + 1].close
      <4>1. f[k] = Listing(f[k + 1], p[k])
        BY <1>1, <1>3, <2>3 DEF PlainScan
      <4>2. f[k + 1] \in [close : Nat, lists : SUBSET A]
        BY <1>1, <3>1
      <4> QED
        BY <4>1, <4>2 DEF Listing
    <3>3. IsFirst(C, p, k + 1, f[k + 1].close)
      BY <1>2, <1>4, <3>1
    <3>4. p[k] # "]"
      BY <1>3, <2>3
    <3>5. k \in Nat /\ k + 1 \in Nat /\ 1 <= k /\ k <= k + 1 /\ k..((k + 1) - 1) = {k}
      OBVIOUS
    <3>6. IsFirst(C, p, k, f[k + 1].close)
      BY <3>3, <3>4, <3>5, FirstFromEarlier
    <3> QED
      BY <3>2, <3>6
  <2> QED
    BY <2>1, <2>2, <2>3
<1>5. \A k \in D : k \in P
  <2>1. n \in Nat /\ D = 1..(n + 1)
    OBVIOUS
  <2>2. \A k \in 1..(n + 1) : (\A j \in (k + 1)..(n + 1) : j \in P) => k \in P
    BY <1>4
  <2> HIDE DEF P, n, D
  <2> QED
    BY <2>1, <2>2, BackwardInduction
<1>6. first \in D /\ IsFirst(C, p, first, f[first].close)
  BY <1>2, <1>5
<1>7. \A k \in i..(first - 1) : p[k] \notin C
  BY <1>2
<1>8. IsFirst(C, p, i, f[first].close)
  <2>1. first \in Nat /\ i <= first
    BY <1>2
  <2> QED
    BY <1>2, <1>6, <1>7, <2>1, FirstFromEarlier
<1> QED
  BY <1>1, <1>2, <1>8, FoundIsFirst

(* What splitting on brackets is                                           *)
LEMMA SplitIs ==
  ASSUME NEW A, NEW in \in Seq(A)
  PROVE  \E f \in [1..(Len(in) + 1) -> Seq(Seq(A))] :
           /\ SplitOnBrackets(in) = f[1]
           /\ \A prev \in 1..(Len(in) + 1) : f[prev] = SplitBody(in, f, prev)
<1> DEFINE n == Len(in)
           D == 1..(n + 1)
           V == Seq(Seq(A))
           split == CHOOSE f : f = [prev \in D |-> SplitBody(in, f, prev)]
           step == [f \in [D -> V] |-> [prev \in D |-> SplitBody(in, f, prev)]]
<1>1. SplitOnBrackets(in) = split[1]
  BY DEF SplitOnBrackets, SplitBody, NextClose, NextOpen
<1>2. n \in Nat
  OBVIOUS
<1>3. << >> \in V
  OBVIOUS
<1>4. ASSUME NEW prev \in D, NEW f, NEW g, \A j \in (prev + 1)..(n + 1) : f[j] = g[j]
      PROVE  SplitBody(in, f, prev) = SplitBody(in, g, prev)
  <2>1. CASE NextClose(in, prev) = 0
    BY <2>1 DEF SplitBody
  <2>2. CASE NextClose(in, prev) # 0
    <3>1. f[NextClose(in, prev) + 1] = g[NextClose(in, prev) + 1]
      BY <1>4, <2>2, SplitBodyIs
    <3> QED
      BY <2>2, <3>1 DEF SplitBody
  <2> QED
    BY <2>1, <2>2
<1>5. ASSUME NEW prev \in D, NEW f, \A j \in (prev + 1)..(n + 1) : f[j] \in V
      PROVE  SplitBody(in, f, prev) \in V
  <2>1. CASE NextClose(in, prev) = 0
    <3>1. /\ Between(in, prev, Len(in) + 1) \in Seq(A)
          /\ SplitBody(in, f, prev) = <<Between(in, prev, Len(in) + 1)>>
      BY <2>1, SplitBodyIs
    <3> QED
      BY <3>1
  <2>2. CASE NextClose(in, prev) # 0
    <3> DEFINE w == Between(in, prev, NextOpen(in, prev))
               r == f[NextClose(in, prev) + 1]
    <3>1. w \in Seq(A) /\ SplitBody(in, f, prev) = <<w>> \o r
      BY <2>2, SplitBodyIs
    <3>2. r \in V
      BY <1>5, <2>2, SplitBodyIs
    <3> HIDE DEF w, r
    <3>3. <<w>> \in V
      BY <3>1
    <3>4. <<w>> \o r \in V
      BY <3>2, <3>3, Concatenated
    <3> QED
      BY <3>1, <3>4
  <2> QED
    BY <2>1, <2>2
<1> HIDE DEF D, V, n
<1>6. \A f \in [D -> V], prev \in D : step[f][prev] = SplitBody(in, f, prev)
  OBVIOUS
<1>7. PICK f \in [D -> V] : \A prev \in D : f[prev] = step[f][prev]
  <2> HIDE DEF step
  <2>1. ASSUME NEW prev \in D, NEW f \in [D -> V]
        PROVE  step[f][prev] \in V
    <3>1. \A j \in (prev + 1)..(n + 1) : f[j] \in V
      BY <1>2 DEF D
    <3> QED
      BY <1>5, <1>6, <3>1
  <2>2. ASSUME NEW prev \in D, NEW f \in [D -> V], NEW g \in [D -> V],
               \A j \in (prev + 1)..(n + 1) : f[j] = g[j]
        PROVE  step[f][prev] = step[g][prev]
    <3>1. step[f][prev] = SplitBody(in, f, prev) /\ step[g][prev] = SplitBody(in, g, prev)
      BY <1>6
    <3>2. SplitBody(in, f, prev) = SplitBody(in, g, prev)
      BY <1>4, <2>2
    <3> QED
      BY <3>1, <3>2, Zenon
  <2>3. IsBackward(n, V, step)
    BY <2>1, <2>2 DEF IsBackward, D
  <2>4. \E f \in [1..(n + 1) -> V] : \A prev \in 1..(n + 1) : f[prev] = step[f][prev]
    BY <1>2, <1>3, <2>3, BackwardRecursion
  <2> QED
    BY <2>4 DEF D
<1>8. f = [prev \in D |-> SplitBody(in, f, prev)]
  <2> HIDE DEF step
  <2> QED
    BY <1>6, <1>7
<1>9. split = [prev \in D |-> SplitBody(in, split, prev)]
  BY <1>8
<1> HIDE DEF split, step
<1>10. \A prev \in D : split[prev] = SplitBody(in, split, prev)
  BY <1>9, Zenon
<1>11. \A prev \in D : split[prev] \in V
  <2> DEFINE P == {prev \in D : split[prev] \in V}
  <2>1. ASSUME NEW prev \in D, \A j \in (prev + 1)..(n + 1) : j \in P
        PROVE  prev \in P
    BY <1>5, <1>10, <2>1
  <2>2. \A prev \in D : prev \in P
    <3> HIDE DEF P
    <3>1. \A prev \in 1..(n + 1) : (\A j \in (prev + 1)..(n + 1) : j \in P) => prev \in P
      BY <2>1 DEF D
    <3> QED
      BY <1>2, <3>1, BackwardInduction DEF D
  <2> QED
    BY <2>2
<1>12. split \in [D -> V]
  BY <1>9, <1>11
<1> QED
  BY <1>1, <1>10, <1>12 DEF D, V, n

(* Where a plain pattern is split, bracket expressions are, and nowhere    *)
(* else.                                                                   *)
LEMMA SplitsWhereBracketsAre ==
  ASSUME NEW A, NEW p \in Seq(A), Plain(p), NEW prev \in 1..(Len(p) + 1)
  PROVE  /\ NextClose(p, prev) = 0 => \A i \in prev..Len(p) : ~Opens(p, i)
         /\ NextClose(p, prev) # 0 =>
              /\ Opens(p, NextOpen(p, prev))
              /\ Bracket(p, NextOpen(p, prev)).close = NextClose(p, prev)
              /\ \A i \in prev..(NextOpen(p, prev) - 1) : ~Opens(p, i)
<1>1. prev \in Nat /\ prev >= 1
  OBVIOUS
<1>2. ASSUME NextClose(p, prev) = 0, NEW i \in prev..Len(p), p[i] = "["
      PROVE  Bracket(p, i).close = 0
  <2> DEFINE o == NextOpen(p, prev)
  <2>1. i \in DOMAIN p /\ i \in Nat /\ i >= 1
    OBVIOUS
  <2>2. /\ o \in Nat
        /\ o = 0 => \A j \in prev..Len(p) : p[j] \notin {"["}
        /\ o # 0 => o \in prev..Len(p) /\ \A j \in prev..(o - 1) : p[j] \notin {"["}
    BY <1>1, FindFirstIs DEF NextOpen
  <2>3. o # 0 /\ FindFirstOf({"]"}, p, o) = 0
    BY <1>2, <2>2 DEF NextClose
  <2> HIDE DEF o
  <2>4. o <= i
    BY <1>2, <2>2, <2>3
  <2>5. \A j \in o..Len(p) : p[j] \notin {"]"}
    BY <2>2, <2>3, FindFirstIs
  <2>6. FindFirstOf({"]"}, p, i) = 0
    <3>1. IsFirst({"]"}, p, i, 0)
      BY <2>2, <2>4, <2>5 DEF IsFirst
    <3> QED
      BY <2>1, <3>1, FoundIsFirst
  <2> QED
    BY <1>2, <2>1, <2>6, PlainBracket
<1>3. ASSUME NextClose(p, prev) # 0
      PROVE  /\ Opens(p, NextOpen(p, prev))
             /\ Bracket(p, NextOpen(p, prev)).close = NextClose(p, prev)
             /\ \A i \in prev..(NextOpen(p, prev) - 1) : p[i] # "["
  <2> DEFINE o == NextOpen(p, prev)
  <2>1. o \in prev..Len(p) /\ p[o] = "[" /\ \A i \in prev..(o - 1) : p[i] # "["
    BY <1>3, NextCloseIs
  <2>2. o # 0 /\ NextClose(p, prev) = FindFirstOf({"]"}, p, o)
    BY <1>3 DEF NextClose
  <2> HIDE DEF o
  <2>3. o \in DOMAIN p
    BY <2>1
  <2>4. Bracket(p, o).close = NextClose(p, prev)
    BY <2>1, <2>2, <2>3, PlainBracket
  <2> QED
    BY <1>3, <2>1, <2>4 DEF Opens, o
<1> QED
  BY <1>2, <1>3 DEF Opens

(* The words of each part                                                  *)
WordsOfParts(parts) == [i \in DOMAIN parts |-> WordsOfPart(parts[i])]

(* The words of a part are sequences of its symbols.                       *)
LEMMA WordsOfPartTyped ==
  ASSUME NEW A, NEW w \in Seq(A)
  PROVE  WordsOfPart(w) \in Seq(Seq(A))
<1>1. PICK f \in [1..(Len(w) + 1) -> Seq(Seq(A))] : WordsOfPart(w) = f[1]
  BY WordsOfPartIs
<1>2. 1 \in 1..(Len(w) + 1)
  OBVIOUS
<1> QED
  BY <1>1, <1>2

(* ... and so are those of each part.                                      *)
LEMMA WordsOfPartsTyped ==
  ASSUME NEW A, NEW parts \in Seq(Seq(A))
  PROVE  /\ WordsOfParts(parts) \in Seq(Seq(Seq(A)))
         /\ Len(WordsOfParts(parts)) = Len(parts)
         /\ \A i \in 1..Len(parts) : WordsOfParts(parts)[i] = WordsOfPart(parts[i])
<1> DEFINE g == [i \in 1..Len(parts) |-> WordsOfPart(parts[i])]
<1>1. \A i \in 1..Len(parts) : parts[i] \in Seq(A)
  OBVIOUS
<1>2. \A i \in 1..Len(parts) : WordsOfPart(parts[i]) \in Seq(Seq(A))
  BY <1>1, WordsOfPartTyped
<1>3. g \in [1..Len(parts) -> Seq(Seq(A))] /\ \A i \in 1..Len(parts) : g[i] = WordsOfPart(parts[i])
  BY <1>2
<1>4. WordsOfParts(parts) = g
  BY DEF WordsOfParts
<1> HIDE DEF g
<1>5. Len(parts) \in Nat
  OBVIOUS
<1>6. g \in Seq(Seq(Seq(A))) /\ Len(g) = Len(parts)
  BY <1>3, <1>5, FunctionIsSequence
<1> QED
  BY <1>3, <1>4, <1>6

(* The words of a first part come first.                                   *)
LEMMA WordsOfFirstPart ==
  ASSUME NEW A, NEW w \in Seq(A), NEW parts \in Seq(Seq(A))
  PROVE  FlattenSeq(WordsOfParts(<<w>> \o parts))
           = WordsOfPart(w) \o FlattenSeq(WordsOfParts(parts))
<1> DEFINE more == <<w>> \o parts
           s == WordsOfPart(w)
           t == WordsOfParts(parts)
           u == WordsOfParts(more)
           x == <<s>> \o t
           B == Seq(Seq(A))
<1>1. /\ more \in Seq(Seq(A)) /\ Len(more) = Len(parts) + 1 /\ more[1] = w
      /\ \A i \in 1..Len(parts) : more[i + 1] = parts[i]
  OBVIOUS
<1> HIDE DEF more
<1>2. s \in B
  BY WordsOfPartTyped
<1>3. /\ t \in Seq(B) /\ Len(t) = Len(parts)
      /\ \A i \in 1..Len(parts) : t[i] = WordsOfPart(parts[i])
  BY WordsOfPartsTyped
<1>4. /\ u \in Seq(B) /\ Len(u) = Len(more)
      /\ \A i \in 1..Len(more) : u[i] = WordsOfPart(more[i])
  BY <1>1, WordsOfPartsTyped
<1> HIDE DEF t, u, B
<1>5. /\ x \in Seq(B) /\ Len(x) = Len(parts) + 1 /\ x[1] = s
      /\ \A i \in 1..Len(parts) : x[i + 1] = t[i]
  <2> HIDE DEF s
  <2> QED
    BY <1>2, <1>3
<1> HIDE DEF x
<1>6. ASSUME NEW k \in 1..Len(x)
      PROVE  u[k] = x[k]
  <2>1. CASE k = 1
    <3>1. 1 \in 1..Len(more)
      BY <1>1
    <3> QED
      BY <1>1, <1>4, <1>5, <2>1, <3>1
  <2>2. CASE k # 1
    <3> DEFINE i == k - 1
    <3>1. i \in 1..Len(parts) /\ k = i + 1 /\ k \in 1..Len(more)
      BY <1>1, <1>5, <2>2
    <3> HIDE DEF i, s
    <3>2. u[k] = WordsOfPart(more[k]) /\ more[k] = parts[i]
      BY <1>1, <1>4, <3>1
    <3>3. x[k] = t[i] /\ t[i] = WordsOfPart(parts[i])
      BY <1>3, <1>5, <3>1
    <3> QED
      BY <3>2, <3>3
  <2> QED
    BY <2>1, <2>2
<1>7. u = x
  <2>1. Len(u) = Len(x)
    BY <1>1, <1>4, <1>5
  <2> HIDE DEF s
  <2> QED
    BY <1>4, <1>5, <1>6, <2>1, SameElements
<1>8. FlattenSeq(<<s>> \o t) = s \o FlattenSeq(t)
  <2> HIDE DEF s
  <2>1. s \in Seq(Seq(A)) /\ t \in Seq(Seq(Seq(A)))
    BY <1>2, <1>3 DEF B
  <2> QED
    BY <2>1, FlattenPrepend
<1> QED
  BY <1>7, <1>8 DEF x, u, t, more

(* The words of the last part                                              *)
LEMMA WordsOfOnePart ==
  ASSUME NEW A, NEW w \in Seq(A)
  PROVE  FlattenSeq(WordsOfParts(<<w>>)) = WordsOfPart(w) \o << >>
<1>1. << >> \in Seq(Seq(A)) /\ <<w>> = <<w>> \o << >>
  OBVIOUS
<1>2. FlattenSeq(WordsOfParts(<<w>> \o << >>))
        = WordsOfPart(w) \o FlattenSeq(WordsOfParts(<< >>))
  BY <1>1, WordsOfFirstPart
<1>3. WordsOfParts(<< >>) = << >>
  <2>1. WordsOfParts(<< >>) \in Seq(Seq(Seq(A))) /\ Len(WordsOfParts(<< >>)) = Len(<< >>)
    BY <1>1, WordsOfPartsTyped
  <2> QED
    BY <2>1
<1> QED
  BY <1>1, <1>2, <1>3, FlattenEmpty, Zenon

------------------------------------------------------------------------------
(* Every reading of a plain pattern by its wildcards, bracket expressions  *)
(* and stretches of literal symbols holds of its meta-words.               *)
LEMMA MetaWordsAreRead ==
  ASSUME NEW A, NEW p \in Seq(A), Plain(p), NEW G, Reads(A, p, G)
  PROVE  MetaWordsOf(p) \in Seq(Seq(A)) /\ MetaWordsOf(p) \in G[1]
<1> DEFINE n == Len(p)
           D == 1..(n + 1)
           V == Seq(Seq(A))
<1>1. PICK f \in [D -> V] :
         /\ SplitOnBrackets(p) = f[1]
         /\ \A prev \in D : f[prev] = SplitBody(p, f, prev)
  BY SplitIs
<1>2. n \in Nat
  OBVIOUS
<1> DEFINE ws(prev) == FlattenSeq(WordsOfParts(f[prev]))
           P == {prev \in D : ws(prev) \in V /\ ws(prev) \in G[prev]}
<1>3. MetaWordsOf(p) = ws(1)
  BY <1>1 DEF MetaWordsOf, WordsOfParts
<1>4. ASSUME NEW prev \in D, \A j \in (prev + 1)..(n + 1) : j \in P
      PROVE  ws(prev) \in V /\ ws(prev) \in G[prev]
  <2>1. CASE NextClose(p, prev) = 0
    <3> DEFINE w == SubSeq(p, prev, (n + 1) - 1)
    <3>1. f[prev] = <<w>> /\ w \in Seq(A)
      <4>1. /\ Between(p, prev, Len(p) + 1) \in Seq(A)
            /\ SplitBody(p, f, prev) = <<Between(p, prev, Len(p) + 1)>>
        BY <2>1, SplitBodyIs, ZenonT(60)
      <4> QED
        BY <1>1, <4>1 DEF Between
    <3>2. WordsOfPart(w) \in V /\ WordsOfPart(w) \o << >> \in G[prev]
      <4>1. \A i \in prev..((n + 1) - 1) : ~Opens(p, i)
        BY <2>1, SplitsWhereBracketsAre
      <4>2. << >> \in Seq(Seq(A)) /\ << >> \in G[n + 1] /\ n + 1 \in prev..(Len(p) + 1)
        BY DEF Reads
      <4> QED
        BY <4>1, <4>2, PartReads
    <3>3. ws(prev) = WordsOfPart(w) \o << >>
      <4> HIDE DEF w
      <4> QED
        BY <3>1, WordsOfOnePart
    <3>4. WordsOfPart(w) \o << >> \in V
      <4> HIDE DEF w
      <4>1. << >> \in V
        OBVIOUS
      <4> QED
        BY <3>2, <4>1, Concatenated
    <3> QED
      BY <3>2, <3>3, <3>4, Zenon
  <2>2. CASE NextClose(p, prev) # 0
    <3> DEFINE o == NextOpen(p, prev)
               c == NextClose(p, prev)
               w == SubSeq(p, prev, o - 1)
    <3>1. f[prev] = <<w>> \o f[c + 1] /\ w \in Seq(A) /\ c + 1 \in (prev + 1)..(n + 1)
      <4>1. /\ Between(p, prev, o) \in Seq(A)
            /\ c + 1 \in (prev + 1)..(Len(p) + 1)
            /\ SplitBody(p, f, prev) = <<Between(p, prev, o)>> \o f[c + 1]
        BY <2>2, SplitBodyIs
      <4> QED
        BY <1>1, <4>1 DEF Between
    <3>2. c + 1 \in D /\ f[c + 1] \in V /\ ws(c + 1) \in V /\ ws(c + 1) \in G[c + 1]
      <4> HIDE DEF ws
      <4>1. c + 1 \in P
        BY <1>4, <3>1
      <4> HIDE DEF c
      <4> QED
        BY <1>1, <4>1
    <3>3. o \in DOMAIN p /\ o \in prev..(Len(p) + 1) /\ Opens(p, o) /\ Bracket(p, o).close = c
          /\ \A i \in prev..(o - 1) : ~Opens(p, i)
      <4>1. o \in prev..Len(p)
        BY <2>2, NextCloseIs
      <4>2. Opens(p, o) /\ Bracket(p, o).close = c /\ \A i \in prev..(o - 1) : ~Opens(p, i)
        BY <2>2, SplitsWhereBracketsAre
      <4> HIDE DEF o, c
      <4> QED
        BY <4>1, <4>2
    <3> HIDE DEF ws, o, c
    <3>4. ws(c + 1) \in G[o]
      BY <3>2, <3>3 DEF Reads
    <3>5. WordsOfPart(w) \in V /\ WordsOfPart(w) \o ws(c + 1) \in G[prev]
      BY <3>2, <3>3, <3>4, PartReads
    <3> HIDE DEF w
    <3>6. ws(prev) = WordsOfPart(w) \o ws(c + 1)
      BY <3>1, <3>2, WordsOfFirstPart DEF ws
    <3>7. WordsOfPart(w) \o ws(c + 1) \in V
      BY <3>2, <3>5, Concatenated
    <3> QED
      BY <3>5, <3>6, <3>7, Zenon
  <2> QED
    BY <2>1, <2>2
<1>5. \A prev \in D : prev \in P
  <2>1. \A prev \in 1..(n + 1) : (\A j \in (prev + 1)..(n + 1) : j \in P) => prev \in P
    <3> HIDE DEF ws
    <3> QED
      BY <1>4
  <2> HIDE DEF P, n
  <2> QED
    BY <1>2, <2>1, BackwardInduction
<1>6. 1 \in D
  OBVIOUS
<1>7. 1 \in P
  <2> HIDE DEF P, D
  <2> QED
    BY <1>5, <1>6
<1> HIDE DEF ws
<1> QED
  BY <1>3, <1>7

(* Where the bracket expression of a plain pattern ends                    *)
LEMMA OpensIs ==
  ASSUME NEW A, NEW p \in Seq(A), Plain(p), NEW i \in DOMAIN p, Opens(p, i)
  PROVE  /\ Bracket(p, i).close \in i..Len(p)
         /\ Bracket(p, i).close + 1 \in (i + 1)..(Len(p) + 1)
         /\ p[i] \notin Wildcards
<1>1. p[i] = "[" /\ Bracket(p, i).close # 0 /\ i \in Nat /\ i >= 1
  BY DEF Opens
<1> DEFINE c == Bracket(p, i).close
<1>2. c = FindFirstOf({"]"}, p, i)
  BY <1>1, PlainBracket
<1> HIDE DEF c
<1>3. c \in i..Len(p)
  <2>1. c # 0
    BY <1>1 DEF c
  <2> QED
    BY <1>1, <1>2, <2>1, FindFirstIs
<1>4. c + 1 \in (i + 1)..(Len(p) + 1)
  BY <1>3
<1> QED
  BY <1>1, <1>3, <1>4 DEF c, Wildcards

(* The body of Literals                                                    *)
LiteralsBody(p, f, i) ==
  IF i > Len(p) THEN << >>
  ELSE IF p[i] \in Wildcards THEN f[i + 1]
  ELSE IF Opens(p, i) THEN f[Bracket(p, i).close + 1]
  ELSE <<p[i]>> \o f[i + 1]

(* It is the body, its cases put in order.                                 *)
LEMMA LiteralsBodyIs ==
  ASSUME NEW A, NEW p \in Seq(A), NEW i \in 1..(Len(p) + 1), NEW f
  PROVE  LiteralsBody(p, f, i) =
           CASE i > Len(p) -> << >>
             [] i <= Len(p) /\ p[i] \in {"*", "?"} -> f[i + 1]
             [] i <= Len(p) /\ p[i] = "[" /\ Bracket(p, i).close # 0
                  -> f[Bracket(p, i).close + 1]
             [] OTHER -> <<p[i]>> \o f[i + 1]
<1>1. CASE i > Len(p)
  BY <1>1 DEF LiteralsBody
<1>2. CASE i <= Len(p) /\ p[i] \in {"*", "?"}
  BY <1>2 DEF LiteralsBody, Wildcards
<1>3. CASE i <= Len(p) /\ p[i] \notin {"*", "?"} /\ Opens(p, i)
  BY <1>3 DEF LiteralsBody, Wildcards, Opens
<1>4. CASE i <= Len(p) /\ p[i] \notin {"*", "?"} /\ ~Opens(p, i)
  BY <1>4 DEF LiteralsBody, Wildcards, Opens
<1> QED
  BY <1>1, <1>2, <1>3, <1>4

(* Literals is its body, with itself in the place of from.                 *)
LEMMA LiteralsAre ==
  ASSUME NEW A, NEW p \in Seq(A), Plain(p)
  PROVE  \E f \in [1..(Len(p) + 1) -> Seq(A)] :
           /\ Literals(p) = f[1]
           /\ \A i \in 1..(Len(p) + 1) : f[i] = LiteralsBody(p, f, i)
<1> DEFINE n == Len(p)
           D == 1..(n + 1)
           V == Seq(A)
           Case(f, i) == CASE i > Len(p) -> << >>
                           [] i <= Len(p) /\ p[i] \in {"*", "?"} -> f[i + 1]
                           [] i <= Len(p) /\ p[i] = "[" /\ Bracket(p, i).close # 0
                                -> f[Bracket(p, i).close + 1]
                           [] OTHER -> <<p[i]>> \o f[i + 1]
           from == CHOOSE f : f = [i \in 1..(Len(p) + 1) |-> Case(f, i)]
           step == [f \in [D -> V] |-> [i \in D |-> LiteralsBody(p, f, i)]]
<1>1. Literals(p) = from[1]
  BY DEF Literals
<1>2. n \in Nat
  OBVIOUS
<1>3. << >> \in V
  OBVIOUS
<1>4. ASSUME NEW i \in D, NEW f, NEW g, \A j \in (i + 1)..(n + 1) : f[j] = g[j]
      PROVE  LiteralsBody(p, f, i) = LiteralsBody(p, g, i)
  <2>1. CASE i > Len(p)
    BY <2>1 DEF LiteralsBody
  <2>2. CASE i <= Len(p)
    <3>1. i \in DOMAIN p /\ f[i + 1] = g[i + 1]
      BY <1>4, <2>2
    <3>2. Opens(p, i) => f[Bracket(p, i).close + 1] = g[Bracket(p, i).close + 1]
      BY <1>4, <3>1, OpensIs
    <3> QED
      BY <3>1, <3>2 DEF LiteralsBody
  <2> QED
    BY <2>1, <2>2
<1>5. ASSUME NEW i \in D, NEW f, \A j \in (i + 1)..(n + 1) : f[j] \in V
      PROVE  LiteralsBody(p, f, i) \in V
  <2>1. CASE i > Len(p)
    BY <2>1 DEF LiteralsBody
  <2>2. CASE i <= Len(p)
    <3>1. i \in DOMAIN p /\ p[i] \in A /\ f[i + 1] \in V
      BY <1>5, <2>2
    <3>2. Opens(p, i) => f[Bracket(p, i).close + 1] \in V
      BY <1>5, <3>1, OpensIs
    <3> DEFINE r == f[i + 1]
               c == p[i]
    <3>3. <<p[i]>> \o f[i + 1] \in V
      <4>1. r \in V /\ c \in A
        BY <3>1
      <4> HIDE DEF r, c
      <4>2. <<c>> \in V
        BY <4>1
      <4>3. <<c>> \o r \in V
        BY <4>1, <4>2, Concatenated
      <4> QED
        BY <4>3 DEF r, c
    <3> HIDE DEF V
    <3> QED
      BY <2>2, <3>1, <3>2, <3>3 DEF LiteralsBody
  <2> QED
    BY <2>1, <2>2
<1>6. \A f : [i \in 1..(Len(p) + 1) |-> Case(f, i)] = [i \in D |-> LiteralsBody(p, f, i)]
  BY LiteralsBodyIs
<1> HIDE DEF D, V, n, Case
<1>7. \A f \in [D -> V], i \in D : step[f][i] = LiteralsBody(p, f, i)
  OBVIOUS
<1>8. PICK f \in [D -> V] : \A i \in D : f[i] = step[f][i]
  <2> HIDE DEF step
  <2>1. ASSUME NEW i \in D, NEW f \in [D -> V]
        PROVE  step[f][i] \in V
    <3>1. \A j \in (i + 1)..(n + 1) : f[j] \in V
      BY <1>2 DEF D
    <3> QED
      BY <1>5, <1>7, <3>1
  <2>2. ASSUME NEW i \in D, NEW f \in [D -> V], NEW g \in [D -> V],
               \A j \in (i + 1)..(n + 1) : f[j] = g[j]
        PROVE  step[f][i] = step[g][i]
    <3>1. step[f][i] = LiteralsBody(p, f, i) /\ step[g][i] = LiteralsBody(p, g, i)
      BY <1>7
    <3>2. LiteralsBody(p, f, i) = LiteralsBody(p, g, i)
      BY <1>4, <2>2
    <3> QED
      BY <3>1, <3>2, Zenon
  <2>3. IsBackward(n, V, step)
    BY <2>1, <2>2 DEF IsBackward, D
  <2>4. \E f \in [1..(n + 1) -> V] : \A i \in 1..(n + 1) : f[i] = step[f][i]
    BY <1>2, <1>3, <2>3, BackwardRecursion
  <2> QED
    BY <2>4 DEF D
<1>9. f = [i \in D |-> LiteralsBody(p, f, i)]
  <2> HIDE DEF step
  <2> QED
    BY <1>7, <1>8
<1>10. f = [i \in 1..(Len(p) + 1) |-> Case(f, i)]
  BY <1>6, <1>9
<1>11. from = [i \in 1..(Len(p) + 1) |-> Case(from, i)]
  BY <1>10
<1> HIDE DEF from, step
<1>12. from = [i \in D |-> LiteralsBody(p, from, i)]
  BY <1>6, <1>11
<1>13. \A i \in D : from[i] = LiteralsBody(p, from, i)
  BY <1>12, Zenon
<1>14. \A i \in D : from[i] \in V
  <2> DEFINE P == {i \in D : from[i] \in V}
  <2>1. ASSUME NEW i \in D, \A j \in (i + 1)..(n + 1) : j \in P
        PROVE  i \in P
    BY <1>5, <1>13, <2>1
  <2>2. \A i \in D : i \in P
    <3> HIDE DEF P
    <3>1. \A i \in 1..(n + 1) : (\A j \in (i + 1)..(n + 1) : j \in P) => i \in P
      BY <2>1 DEF D
    <3> QED
      BY <1>2, <3>1, BackwardInduction DEF D
  <2> QED
    BY <2>2
<1>15. from \in [D -> V]
  BY <1>12, <1>14
<1> QED
  BY <1>1, <1>13, <1>15 DEF D, V, n

(* A stretch is its first symbol and the rest of it.                       *)
LEMMA StretchBegins ==
  ASSUME NEW A, NEW p \in Seq(A), NEW a \in DOMAIN p, NEW b \in (a + 1)..(Len(p) + 1)
  PROVE  SubSeq(p, a, b - 1) = <<p[a]>> \o SubSeq(p, a + 1, b - 1)
<1> DEFINE s == SubSeq(p, a, b - 1)
           t == SubSeq(p, a + 1, b - 1)
           x == <<p[a]>> \o t
<1>1. s \in Seq(A) /\ Len(s) = b - a /\ \A k \in 1..(b - a) : s[k] = p[a + k - 1]
  BY SMTT(30)
<1>2. t \in Seq(A) /\ Len(t) = b - a - 1 /\ \A k \in 1..(b - a - 1) : t[k] = p[a + 1 + k - 1]
  OBVIOUS
<1> HIDE DEF s, t
<1>3. /\ x \in Seq(A) /\ Len(x) = b - a /\ x[1] = p[a]
      /\ \A k \in 1..(b - a - 1) : x[k + 1] = t[k]
  BY <1>2
<1> HIDE DEF x
<1>4. ASSUME NEW k \in 1..Len(x)
      PROVE  s[k] = x[k]
  <2>1. CASE k = 1
    <3>1. 1 \in 1..(b - a) /\ a + 1 - 1 = a
      BY <1>3
    <3> QED
      BY <1>1, <1>3, <2>1, <3>1
  <2>2. CASE k # 1
    <3> DEFINE i == k - 1
    <3>0. k \in 1..(b - a) /\ k # 1 /\ a \in Nat /\ b \in Nat
      BY <1>3, <2>2
    <3>1. i \in 1..(b - a - 1) /\ k = i + 1 /\ k \in 1..(b - a) /\ a + k - 1 = a + 1 + i - 1
      BY <3>0
    <3> HIDE DEF i
    <3>2. x[k] = t[i] /\ t[i] = p[a + 1 + i - 1] /\ s[k] = p[a + k - 1]
      BY <1>1, <1>2, <1>3, <3>1
    <3> QED
      BY <3>1, <3>2
  <2> QED
    BY <2>1, <2>2
<1>5. s = x
  BY <1>1, <1>3, <1>4, SameElements
<1> QED
  BY <1>5 DEF s, x, t

(* Put together, the meta-words that get_meta_words takes from a plain     *)
(* pattern are the symbols fnmatch compares with the text one for one.     *)
THEOREM MetaWordsAreLiterals ==
  ASSUME NEW A, NEW p \in Seq(A), Plain(p)
  PROVE  FlattenSeq(MetaWordsOf(p)) = Literals(p)
<1> DEFINE n == Len(p)
           D == 1..(n + 1)
           V == Seq(A)
           W == Seq(Seq(A))
<1>0. \A x, y, z \in V : (x \o y) \o z = x \o (y \o z)
  OBVIOUS
<1>1. PICK f \in [D -> V] :
         /\ Literals(p) = f[1]
         /\ \A i \in D : f[i] = LiteralsBody(p, f, i)
  BY LiteralsAre
<1> DEFINE G == [i \in D |-> {ws \in W : FlattenSeq(ws) = f[i]}]
<1>2. \A i \in D, ws \in W : ws \in G[i] <=> FlattenSeq(ws) = f[i]
  OBVIOUS
<1>3. ASSUME NEW a \in D, NEW b \in a..(n + 1), \A i \in a..(b - 1) : IsLiteral(p, i)
      PROVE  f[a] = SubSeq(p, a, b - 1) \o f[b]
  <2> DEFINE P == {i \in D : i \in a..b => f[i] = SubSeq(p, i, b - 1) \o f[b]}
  <2>1. ASSUME NEW i \in D, \A j \in (i + 1)..(n + 1) : j \in P, i \in a..b
        PROVE  f[i] = SubSeq(p, i, b - 1) \o f[b]
    <3>1. CASE i = b
      <4>1. SubSeq(p, i, b - 1) = << >>
        BY <3>1
      <4>2. f[b] \in Seq(A)
        BY <3>1
      <4>3. << >> \o f[b] = f[b]
        BY <4>2
      <4> QED
        BY <3>1, <4>1, <4>3
    <3>2. CASE i # b
      <4>1. /\ i \in a..(b - 1) /\ i \in DOMAIN p /\ i + 1 \in D /\ i + 1 \in a..b
            /\ i + 1 \in (i + 1)..(n + 1) /\ b \in (i + 1)..(n + 1) /\ b \in D /\ i <= n
            /\ p[i] \in A
        BY <2>1, <3>2
      <4>2. IsLiteral(p, i)
        BY <1>3, <4>1
      <4>3. f[i] = <<p[i]>> \o f[i + 1]
        <5>1. f[i] = LiteralsBody(p, f, i)
          BY <1>1
        <5> QED
          BY <4>1, <4>2, <5>1 DEF LiteralsBody, IsLiteral
      <4> DEFINE r == SubSeq(p, i + 1, b - 1)
                 c == <<p[i]>>
                 e == f[b]
      <4>4. f[i + 1] = r \o e
        BY <2>1, <4>1
      <4>5. SubSeq(p, i, b - 1) = c \o r
        BY <4>1, StretchBegins
      <4>6. r \in V
        <5>1. i + 1 \in 1..(Len(p) + 1) /\ b \in (i + 1)..(Len(p) + 1)
          BY <4>1
        <5> QED
          BY <5>1, BetweenIs DEF Between
      <4>8. c \in V
        BY <4>1
      <4>9. e \in V
        BY <4>1
      <4> HIDE DEF r, c, e, V
      <4>7. (c \o r) \o e = c \o (r \o e)
        BY <1>0, <4>6, <4>8, <4>9
      <4> QED
        BY <4>3, <4>4, <4>5, <4>7 DEF c, e
    <3> QED
      BY <3>1, <3>2
  <2>2. \A i \in 1..(n + 1) : i \in P
    <3>1. \A i \in 1..(n + 1) : (\A j \in (i + 1)..(n + 1) : j \in P) => i \in P
      BY <2>1
    <3>2. n \in Nat
      OBVIOUS
    <3> HIDE DEF P, n
    <3> QED
      BY <3>1, <3>2, BackwardInduction
  <2>3. a \in D /\ a \in a..b
    OBVIOUS
  <2> QED
    BY <2>2, <2>3
<1>4. Reads(A, p, G)
  <2>1. << >> \in G[n + 1]
    <3>1. n + 1 \in D /\ n + 1 > Len(p) /\ << >> \in W
      OBVIOUS
    <3>2. f[n + 1] = << >>
      BY <1>1, <3>1 DEF LiteralsBody
    <3> HIDE DEF G
    <3> QED
      BY <1>2, <3>1, <3>2, FlattenEmpty
  <2>2. ASSUME NEW i \in DOMAIN p, NEW ws \in W, p[i] \in Wildcards, ws \in G[i + 1]
        PROVE  ws \in G[i]
    <3>1. i \in D /\ i + 1 \in D /\ ~(i > Len(p))
      OBVIOUS
    <3>2. f[i] = f[i + 1]
      BY <1>1, <2>2, <3>1 DEF LiteralsBody
    <3> HIDE DEF G
    <3> QED
      BY <1>2, <2>2, <3>1, <3>2
  <2>3. ASSUME NEW i \in DOMAIN p, NEW ws \in W, Opens(p, i), ws \in G[Bracket(p, i).close + 1]
        PROVE  ws \in G[i]
    <3> DEFINE c == Bracket(p, i).close
    <3>1. i \in D /\ c + 1 \in D /\ ~(i > Len(p)) /\ p[i] \notin Wildcards
      BY <2>3, OpensIs
    <3>2. f[i] = f[c + 1]
      BY <1>1, <2>3, <3>1 DEF LiteralsBody
    <3> HIDE DEF G, c
    <3>3. ws \in G[c + 1]
      BY <2>3 DEF c
    <3> QED
      BY <1>2, <3>1, <3>2, <3>3
  <2>4. ASSUME NEW a \in DOMAIN p, NEW b \in 2..(Len(p) + 1), NEW ws \in W,
               a < b, \A i \in a..(b - 1) : IsLiteral(p, i), ws \in G[b]
        PROVE  <<SubSeq(p, a, b - 1)>> \o ws \in G[a]
    <3>1. a \in D /\ b \in D /\ b \in a..(n + 1)
      BY <2>4
    <3> DEFINE s == SubSeq(p, a, b - 1)
               all == <<s>> \o ws
    <3>2. s \in V
      BY <3>1
    <3>3. f[a] = s \o f[b]
      BY <1>3, <2>4, <3>1
    <3> HIDE DEF G, s
    <3>4. FlattenSeq(ws) = f[b]
      BY <1>2, <2>4, <3>1
    <3>5. FlattenSeq(all) = s \o FlattenSeq(ws)
      BY <3>2, FlattenPrepend
    <3>6. all \in W
      <4>1. <<s>> \in W
        BY <3>2
      <4> QED
        BY <4>1, Concatenated
    <3>7. FlattenSeq(all) = f[a]
      BY <3>3, <3>4, <3>5, Zenon
    <3> HIDE DEF all
    <3>8. all \in G[a]
      BY <1>2, <3>1, <3>6, <3>7
    <3> QED
      BY <3>8 DEF all, s
  <2> HIDE DEF G
  <2> QED
    BY <2>1, <2>2, <2>3, <2>4 DEF Reads
<1>5. MetaWordsOf(p) \in W /\ MetaWordsOf(p) \in G[1]
  <2> HIDE DEF G
  <2> QED
    BY <1>4, MetaWordsAreRead
<1>6. 1 \in D
  OBVIOUS
<1>7. FlattenSeq(MetaWordsOf(p)) = f[1]
  <2> HIDE DEF G
  <2> QED
    BY <1>2, <1>5, <1>6
<1> QED
  BY <1>1, <1>7

(* The body of Fnmatch, for a plain pattern                                *)
MatchBody(p, t, f, i) ==
  IF i > Len(p) THEN {Len(t) + 1}
  ELSE IF p[i] = "*" THEN {j \in 1..(Len(t) + 1) : \E k \in f[i + 1] : j <= k}
  ELSE IF p[i] = "?" THEN {j \in DOMAIN t : j + 1 \in f[i + 1]}
  ELSE IF Opens(p, i)
       THEN {j \in DOMAIN t : /\ Accepts(Bracket(p, i), t[j])
                              /\ j + 1 \in f[Bracket(p, i).close + 1]}
  ELSE {j \in DOMAIN t : t[j] = p[i] /\ j + 1 \in f[i + 1]}

(* It is the body, its cases put in order.                                 *)
LEMMA MatchBodyIs ==
  ASSUME NEW A, NEW p \in Seq(A), Plain(p), NEW t, NEW i \in 1..(Len(p) + 1), NEW f
  PROVE  MatchBody(p, t, f, i) =
           CASE i > Len(p) -> {Len(t) + 1}
             [] i <= Len(p) /\ p[i] = "*"
                  -> {j \in 1..(Len(t) + 1) : \E k \in f[i + 1] : j <= k}
             [] i <= Len(p) /\ p[i] = "?"
                  -> {j \in DOMAIN t : j + 1 \in f[i + 1]}
             [] i <= Len(p) /\ p[i] = "\\"
                  -> {j \in DOMAIN t :
                        i < Len(p) /\ t[j] = p[i + 1] /\ j + 1 \in f[i + 2]}
             [] i <= Len(p) /\ p[i] = "[" /\ Bracket(p, i).close # 0
                  -> {j \in DOMAIN t : /\ Accepts(Bracket(p, i), t[j])
                                       /\ j + 1 \in f[Bracket(p, i).close + 1]}
             [] OTHER -> {j \in DOMAIN t : t[j] = p[i] /\ j + 1 \in f[i + 1]}
<1>0. i <= Len(p) => p[i] # "\\"
  BY DEF Plain
<1>1. CASE i > Len(p)
  BY <1>1 DEF MatchBody
<1>2. CASE i <= Len(p) /\ p[i] = "*"
  BY <1>2 DEF MatchBody
<1>3. CASE i <= Len(p) /\ p[i] = "?"
  BY <1>3 DEF MatchBody
<1>4. CASE i <= Len(p) /\ p[i] \notin {"*", "?"} /\ Opens(p, i)
  BY <1>0, <1>4 DEF MatchBody, Opens
<1>5. CASE i <= Len(p) /\ p[i] \notin {"*", "?"} /\ ~Opens(p, i)
  BY <1>0, <1>5 DEF MatchBody, Opens
<1> QED
  BY <1>1, <1>2, <1>3, <1>4, <1>5

(* Fnmatch is its body, with itself in the place of match.                 *)
LEMMA FnmatchIs ==
  ASSUME NEW A, NEW p \in Seq(A), Plain(p), NEW B, NEW t \in Seq(B)
  PROVE  \E f \in [1..(Len(p) + 1) -> SUBSET (1..(Len(t) + 1))] :
           /\ Fnmatch(p, t) <=> 1 \in f[1]
           /\ \A i \in 1..(Len(p) + 1) : f[i] = MatchBody(p, t, f, i)
<1> DEFINE n == Len(p)
           D == 1..(n + 1)
           V == SUBSET (1..(Len(t) + 1))
           Case(f, i) ==
             CASE i > Len(p) -> {Len(t) + 1}
               [] i <= Len(p) /\ p[i] = "*"
                    -> {j \in 1..(Len(t) + 1) : \E k \in f[i + 1] : j <= k}
               [] i <= Len(p) /\ p[i] = "?"
                    -> {j \in DOMAIN t : j + 1 \in f[i + 1]}
               [] i <= Len(p) /\ p[i] = "\\"
                    -> {j \in DOMAIN t :
                          i < Len(p) /\ t[j] = p[i + 1] /\ j + 1 \in f[i + 2]}
               [] i <= Len(p) /\ p[i] = "[" /\ Bracket(p, i).close # 0
                    -> {j \in DOMAIN t : /\ Accepts(Bracket(p, i), t[j])
                                         /\ j + 1 \in f[Bracket(p, i).close + 1]}
               [] OTHER -> {j \in DOMAIN t : t[j] = p[i] /\ j + 1 \in f[i + 1]}
           match == CHOOSE f : f = [i \in 1..(Len(p) + 1) |-> Case(f, i)]
           step == [f \in [D -> V] |-> [i \in D |-> MatchBody(p, t, f, i)]]
<1>1. Fnmatch(p, t) <=> 1 \in match[1]
  BY DEF Fnmatch
<1>2. n \in Nat
  OBVIOUS
<1>3. PICK e \in V : e = {}
  OBVIOUS
<1>4. ASSUME NEW i \in D, NEW f, NEW g, \A j \in (i + 1)..(n + 1) : f[j] = g[j]
      PROVE  MatchBody(p, t, f, i) = MatchBody(p, t, g, i)
  <2>1. CASE i > Len(p)
    BY <2>1 DEF MatchBody
  <2>2. CASE i <= Len(p)
    <3>1. i \in DOMAIN p /\ f[i + 1] = g[i + 1]
      BY <1>4, <2>2
    <3>2. Opens(p, i) => f[Bracket(p, i).close + 1] = g[Bracket(p, i).close + 1]
      BY <1>4, <3>1, OpensIs
    <3> QED
      BY <3>1, <3>2 DEF MatchBody
  <2> QED
    BY <2>1, <2>2
<1>5. ASSUME NEW i \in D, NEW f
      PROVE  MatchBody(p, t, f, i) \in V
  <2>1. Len(t) + 1 \in 1..(Len(t) + 1) /\ DOMAIN t \subseteq 1..(Len(t) + 1)
    OBVIOUS
  <2> QED
    BY <2>1 DEF MatchBody
<1>6. \A f : [i \in 1..(Len(p) + 1) |-> Case(f, i)] = [i \in D |-> MatchBody(p, t, f, i)]
  BY MatchBodyIs
<1> HIDE DEF D, V, n, Case
<1>7. \A f \in [D -> V], i \in D : step[f][i] = MatchBody(p, t, f, i)
  OBVIOUS
<1>8. PICK f \in [D -> V] : \A i \in D : f[i] = step[f][i]
  <2> HIDE DEF step
  <2>1. ASSUME NEW i \in D, NEW f \in [D -> V]
        PROVE  step[f][i] \in V
    BY <1>5, <1>7
  <2>2. ASSUME NEW i \in D, NEW f \in [D -> V], NEW g \in [D -> V],
               \A j \in (i + 1)..(n + 1) : f[j] = g[j]
        PROVE  step[f][i] = step[g][i]
    <3>1. step[f][i] = MatchBody(p, t, f, i) /\ step[g][i] = MatchBody(p, t, g, i)
      BY <1>7
    <3>2. MatchBody(p, t, f, i) = MatchBody(p, t, g, i)
      BY <1>4, <2>2
    <3> QED
      BY <3>1, <3>2, Zenon
  <2>3. IsBackward(n, V, step)
    BY <2>1, <2>2 DEF IsBackward, D
  <2>4. \E f \in [1..(n + 1) -> V] : \A i \in 1..(n + 1) : f[i] = step[f][i]
    BY <1>2, <2>3, BackwardRecursion
  <2> QED
    BY <2>4 DEF D
<1>9. f = [i \in D |-> MatchBody(p, t, f, i)]
  <2> HIDE DEF step
  <2> QED
    BY <1>7, <1>8
<1>10. f = [i \in 1..(Len(p) + 1) |-> Case(f, i)]
  BY <1>6, <1>9
<1>11. match = [i \in 1..(Len(p) + 1) |-> Case(match, i)]
  BY <1>10
<1> HIDE DEF match, step
<1>12. match = [i \in D |-> MatchBody(p, t, match, i)]
  BY <1>6, <1>11
<1>13. \A i \in D : match[i] = MatchBody(p, t, match, i)
  BY <1>12, Zenon
<1>14. \A i \in D : match[i] \in V
  BY <1>5, <1>13
<1>15. match \in [D -> V]
  BY <1>12, <1>14
<1> QED
  BY <1>1, <1>13, <1>15 DEF D, V, n

------------------------------------------------------------------------------
(* w is somewhere in t.                                                    *)
Occurs(w, t) == \E e \in 0..Len(t) : EndsAt(w, t, e)

(* A word that agrees with the text from a place on is in it.              *)
LEMMA OccursFrom ==
  ASSUME NEW A, NEW w \in Seq(A), Len(w) >= 1, NEW B, NEW t \in Seq(B),
         NEW j \in 1..(Len(t) + 1), j + Len(w) <= Len(t) + 1,
         \A k \in 0..(Len(w) - 1) : t[j + k] = w[k + 1]
  PROVE  Occurs(w, t)
<1> DEFINE e == j + Len(w) - 1
<1>1. e \in 0..Len(t) /\ Len(w) <= e /\ e <= Len(t)
  OBVIOUS
<1>2. ASSUME NEW i \in 1..Len(w)
      PROVE  w[i] = t[e - Len(w) + i]
  <2>1. i - 1 \in 0..(Len(w) - 1) /\ j + (i - 1) = e - Len(w) + i /\ (i - 1) + 1 = i
    OBVIOUS
  <2>2. t[j + (i - 1)] = w[(i - 1) + 1]
    BY <2>1
  <2> QED
    BY <2>1, <2>2
<1> HIDE DEF e
<1> QED
  BY <1>1, <1>2 DEF Occurs, EndsAt

(* A text that fnmatch matches with a plain pattern contains all of its    *)
(* meta-words (get_meta_words).                                            *)
THEOREM PlainWordsOccur ==
  ASSUME NEW A, NEW p \in Seq(A), Plain(p), NEW B, NEW t \in Seq(B), Fnmatch(p, t)
  PROVE  ContainsWords(p, t)
<1> DEFINE n == Len(p)
           m == Len(t)
           D == 1..(n + 1)
           W == Seq(Seq(A))
<1>1. PICK f \in [D -> SUBSET (1..(m + 1))] :
         /\ Fnmatch(p, t) <=> 1 \in f[1]
         /\ \A i \in D : f[i] = MatchBody(p, t, f, i)
  BY FnmatchIs
<1>0. n \in Nat /\ m \in Nat
  OBVIOUS
<1> DEFINE All(ws) == \A k \in DOMAIN ws : Occurs(ws[k], t)
           G == [i \in D |-> {ws \in W : f[i] # {} => All(ws)}]
<1>2. \A i \in D, ws \in W : ws \in G[i] <=> (f[i] # {} => All(ws))
  <2> HIDE DEF All
  <2> QED
    OBVIOUS
<1>3. ASSUME NEW a \in D, NEW b \in a..(n + 1), \A i \in a..(b - 1) : IsLiteral(p, i),
             NEW j \in f[a]
      PROVE  j + (b - a) \in f[b] /\ \A k \in 0..((b - a) - 1) : t[j + k] = p[a + k]
  <2> DEFINE Agree(i, x) == x + (b - i) \in f[b] /\ \A k \in 0..((b - i) - 1) : t[x + k] = p[i + k]
             P == {i \in D : i \in a..b => \A x \in f[i] : Agree(i, x)}
  <2>1. ASSUME NEW i \in D, \A y \in (i + 1)..(n + 1) : y \in P, i \in a..b, NEW x \in f[i]
        PROVE  Agree(i, x)
    <3>0. x \in 1..(m + 1) /\ x \in Nat /\ i \in Nat /\ b \in Nat
      BY <1>1, SMTT(30)
    <3>1. CASE i = b
      BY <3>0, <3>1
    <3>2. CASE i # b
      <4>1. /\ i \in a..(b - 1) /\ i + 1 \in D /\ i + 1 \in a..b
            /\ i + 1 \in (i + 1)..(n + 1) /\ ~(i > n)
        BY <2>1, <3>2
      <4>2. IsLiteral(p, i)
        BY <1>3, <4>1
      <4>3. x \in DOMAIN t /\ t[x] = p[i] /\ x + 1 \in f[i + 1]
        <5>1. f[i] = MatchBody(p, t, f, i)
          BY <1>1
        <5>2. f[i] = {y \in DOMAIN t : t[y] = p[i] /\ y + 1 \in f[i + 1]}
          BY <4>1, <4>2, <5>1 DEF MatchBody, IsLiteral, Wildcards
        <5> QED
          BY <2>1, <5>2
      <4>4. Agree(i + 1, x + 1)
        <5> HIDE DEF Agree
        <5> QED
          BY <2>1, <4>1, <4>3
      <4>5. x + (b - i) \in f[b]
        <5>1. (x + 1) + (b - (i + 1)) = x + (b - i)
          BY <3>0
        <5> QED
          BY <4>4, <5>1
      <4>6. ASSUME NEW k \in 0..((b - i) - 1)
            PROVE  t[x + k] = p[i + k]
        <5>1. CASE k = 0
          BY <3>0, <4>3, <5>1
        <5>2. CASE k # 0
          <6>1. k - 1 \in 0..((b - (i + 1)) - 1) /\ (x + 1) + (k - 1) = x + k
                /\ (i + 1) + (k - 1) = i + k
            BY <3>0, <5>2
          <6>2. t[(x + 1) + (k - 1)] = p[(i + 1) + (k - 1)]
            BY <4>4, <6>1
          <6> QED
            BY <6>1, <6>2
        <5> QED
          BY <5>1, <5>2
      <4> QED
        BY <4>5, <4>6
    <3> QED
      BY <3>1, <3>2
  <2>2. \A i \in 1..(n + 1) : i \in P
    <3>1. \A i \in 1..(n + 1) : (\A y \in (i + 1)..(n + 1) : y \in P) => i \in P
      <4> HIDE DEF Agree
      <4> QED
        BY <2>1
    <3> HIDE DEF P, n
    <3> QED
      BY <1>0, <3>1, BackwardInduction
  <2>3. a \in D /\ a \in a..b
    OBVIOUS
  <2>4. a \in P
    <3> HIDE DEF P
    <3> QED
      BY <2>2, <2>3
  <2>5. Agree(a, j)
    <3> HIDE DEF Agree
    <3> QED
      BY <2>3, <2>4
  <2> QED
    BY <2>5
<1> HIDE DEF All
<1>4. Reads(A, p, G)
  <2>1. << >> \in G[n + 1]
    <3>1. n + 1 \in D /\ << >> \in W
      OBVIOUS
    <3>2. All(<< >>)
      BY DEF All
    <3> HIDE DEF G
    <3> QED
      BY <1>2, <3>1, <3>2
  <2>2. ASSUME NEW i \in DOMAIN p, NEW ws \in W, p[i] \in Wildcards, ws \in G[i + 1]
        PROVE  ws \in G[i]
    <3>1. i \in D /\ i + 1 \in D /\ ~(i > Len(p))
      OBVIOUS
    <3>2. ASSUME f[i] # {}
          PROVE  f[i + 1] # {}
      <4>1. f[i] = MatchBody(p, t, f, i)
        BY <1>1, <3>1
      <4> QED
        BY <2>2, <3>1, <3>2, <4>1 DEF MatchBody, Wildcards
    <3> HIDE DEF G
    <3> QED
      BY <1>2, <2>2, <3>1, <3>2
  <2>3. ASSUME NEW i \in DOMAIN p, NEW ws \in W, Opens(p, i), ws \in G[Bracket(p, i).close + 1]
        PROVE  ws \in G[i]
    <3> DEFINE c == Bracket(p, i).close
    <3>1. i \in D /\ c + 1 \in D /\ ~(i > Len(p)) /\ p[i] \notin Wildcards
      BY <2>3, OpensIs
    <3>2. ASSUME f[i] # {}
          PROVE  f[c + 1] # {}
      <4>1. f[i] = MatchBody(p, t, f, i)
        BY <1>1, <3>1
      <4> QED
        BY <2>3, <3>1, <3>2, <4>1 DEF MatchBody, Wildcards
    <3> HIDE DEF G, c
    <3>3. ws \in G[c + 1]
      BY <2>3 DEF c
    <3> QED
      BY <1>2, <3>1, <3>2, <3>3
  <2>4. ASSUME NEW a \in DOMAIN p, NEW b \in 2..(Len(p) + 1), NEW ws \in W,
               a < b, \A i \in a..(b - 1) : IsLiteral(p, i), ws \in G[b]
        PROVE  <<SubSeq(p, a, b - 1)>> \o ws \in G[a]
    <3> DEFINE s == SubSeq(p, a, b - 1)
               all == <<s>> \o ws
    <3>1. a \in D /\ b \in D /\ b \in a..(n + 1) /\ a \in Nat /\ b \in Nat
      BY <2>4
    <3>2. s \in Seq(A) /\ Len(s) = b - a /\ \A k \in 1..(b - a) : s[k] = p[a + k - 1]
      <4>1. a \in 1..(Len(p) + 1) /\ b \in a..(Len(p) + 1)
        BY <3>1
      <4>2. /\ Between(p, a, b) \in Seq(A) /\ Len(Between(p, a, b)) = b - a
            /\ \A k \in 1..(b - a) : Between(p, a, b)[k] = p[a + k - 1]
        BY <4>1, BetweenIs, ZenonT(60)
      <4> QED
        BY <4>2 DEF Between
    <3> HIDE DEF s
    <3>3. /\ all \in W /\ Len(all) = Len(ws) + 1 /\ all[1] = s
          /\ \A k \in 1..Len(ws) : all[k + 1] = ws[k]
      BY <3>2
    <3> HIDE DEF all
    <3>4. ASSUME NEW j \in f[a]
          PROVE  Occurs(s, t)
      <4>1. /\ j \in 1..(m + 1) /\ j + (b - a) \in 1..(m + 1)
            /\ \A k \in 0..((b - a) - 1) : t[j + k] = p[a + k]
        BY <1>1, <1>3, <2>4, <3>1
      <4>2. ASSUME NEW k \in 0..((b - a) - 1)
            PROVE  t[j + k] = s[k + 1]
        <5>1. k + 1 \in 1..(b - a) /\ a + (k + 1) - 1 = a + k
          BY <3>1
        <5>2. s[k + 1] = p[a + (k + 1) - 1]
          BY <3>2, <5>1
        <5> QED
          BY <4>1, <5>1, <5>2
      <4>3. b - a \in Nat /\ b - a >= 1
        BY <2>4, <3>1
      <4>4. Len(s) >= 1 /\ j + Len(s) <= Len(t) + 1
        BY <1>0, <3>2, <4>1, <4>3
      <4>5. \A k \in 0..(Len(s) - 1) : t[j + k] = s[k + 1]
        BY <3>2, <4>2
      <4> QED
        BY <3>2, <4>1, <4>4, <4>5, OccursFrom
    <3>5. ASSUME f[a] # {}
          PROVE  All(all)
      <4>1. Occurs(s, t)
        BY <3>4, <3>5
      <4>2. f[b] # {}
        BY <1>3, <2>4, <3>1, <3>5
      <4>3. \A k \in 1..Len(ws) : Occurs(ws[k], t)
        <5> HIDE DEF G
        <5>1. All(ws)
          BY <1>2, <2>4, <3>1, <4>2
        <5> QED
          BY <5>1 DEF All
      <4>4. ASSUME NEW k \in DOMAIN all
            PROVE  Occurs(all[k], t)
        <5>1. k = 1 \/ (k - 1 \in 1..Len(ws) /\ (k - 1) + 1 = k)
          BY <3>3, SMTT(30)
        <5> QED
          BY <3>3, <4>1, <4>3, <5>1
      <4> QED
        BY <4>4 DEF All
    <3> HIDE DEF G
    <3>6. all \in G[a]
      BY <1>2, <3>1, <3>3, <3>5
    <3> QED
      BY <3>6 DEF all, s
  <2> HIDE DEF G
  <2> QED
    BY <2>1, <2>2, <2>3, <2>4 DEF Reads
<1>5. MetaWordsOf(p) \in W /\ MetaWordsOf(p) \in G[1]
  <2> HIDE DEF G
  <2> QED
    BY <1>4, MetaWordsAreRead
<1>6. 1 \in D /\ f[1] # {}
  BY <1>1
<1>7. All(MetaWordsOf(p))
  <2> HIDE DEF G
  <2> QED
    BY <1>2, <1>5, <1>6
<1> QED
  BY <1>7 DEF All, Occurs, ContainsWords, ToSet

------------------------------------------------------------------------------
(* The pattern and the vector that are built                               *)

StringsTyped == pattern \in Seq(Symbols) /\ v \in Seq(Seq(Bytes))

(* They are sequences of symbols and of strings of bytes.                  *)
THEOREM StringsTypeCorrect == Spec => []StringsTyped
<1>1. Init => StringsTyped
  BY DEF Init, StringsTyped
<1>2. StringsTyped /\ [Next]_<<pattern, v>> => StringsTyped'
  <2> SUFFICES ASSUME StringsTyped, [Next]_<<pattern, v>>
               PROVE  StringsTyped'
    OBVIOUS
  <2> USE DEF StringsTyped
  <2>1. CASE LongerPattern
    <3>1. PICK c \in Symbols : pattern' = Append(pattern, c)
      BY <2>1 DEF LongerPattern
    <3>2. v' = v
      BY <2>1 DEF LongerPattern
    <3> QED
      BY <3>1, <3>2
  <2>2. CASE LongerVector
    <3>1. PICK s \in Strings : v' = Append(v, s)
      BY <2>2 DEF LongerVector
    <3>2. s \in Seq(Bytes)
      BY <3>1, StringsAssumption DEF Bytes
    <3>3. v' \in Seq(Seq(Bytes))
      BY <3>1, <3>2
    <3>4. pattern' = pattern
      BY <2>2 DEF LongerVector
    <3> QED
      BY <3>3, <3>4
  <2>3. CASE UNCHANGED <<pattern, v>>
    BY <2>3
  <2> QED
    BY <2>1, <2>2, <2>3 DEF Next
<1> QED
  BY <1>1, <1>2, PTL DEF Spec

(* Whatever vector is built, if its counts and lengths fit in one byte it  *)
(* comes back as it was (serialize, unserialize).                          *)
THEOREM SmallVectorsComeBack == Spec => []SmallRoundTrip
<1>1. StringsTyped => SmallRoundTrip
  BY SmallComesBack DEF StringsTyped, SmallRoundTrip, RoundTrip, Small, SmallVector
<1> QED
  BY <1>1, StringsTypeCorrect, PTL

(* ... and cut beside its strings its bytes are refused with the           *)
(* exception that is there for it.                                         *)
THEOREM CutsBesideAreThrown == Spec => []CutBesideStrings
<1>1. StringsTyped => CutBesideStrings
  <2> SUFFICES ASSUME StringsTyped, Small,
                      NEW n \in 1..(Len(Serialize(v)) - 1), BesideStrings(v, n)
               PROVE  Unserialize(Cut(n)).outcome = "underflow_error"
    BY DEF CutBesideStrings
  <2>1. v \in Seq(Seq(Bytes)) /\ SmallVector(v)
    BY DEF StringsTyped, Small, SmallVector
  <2> QED
    BY <2>1, CutBesideIsThrown DEF Cut
<1> QED
  BY <1>1, StringsTypeCorrect, PTL

(* Narrowing the patterns to those whose meta-words were found             *)
(* (get_meta_words, Paraglob::get) loses no plain pattern that matches.    *)
THEOREM NarrowingLosesNone == Spec => []PlainWordsAreNecessary
<1>1. StringsTyped => PlainWordsAreNecessary
  <2> SUFFICES ASSUME StringsTyped, Plain(pattern), NEW t \in Texts, Fnmatch(pattern, t)
               PROVE  ContainsWords(pattern, t)
    BY DEF PlainWordsAreNecessary, MetaWordsAreNecessary
  <2>1. pattern \in Seq(Symbols)
    BY DEF StringsTyped
  <2>2. PICK n \in 0..MaxText : t \in [1..n -> TextSymbols]
    BY DEF Texts
  <2>3. t \in Seq(TextSymbols)
    BY <2>2, FunctionIsSequence
  <2> QED
    BY <2>1, <2>3, PlainWordsOccur
<1> QED
  BY <1>1, StringsTypeCorrect, PTL

(* Narrowing uses every literal symbol of a plain pattern, in its order    *)
(* (get_meta_words).                                                       *)
THEOREM NarrowingUsesAllLiterals == Spec => []WordsAreTheLiterals
<1>1. StringsTyped => WordsAreTheLiterals
  BY MetaWordsAreLiterals DEF StringsTyped, WordsAreTheLiterals
<1> QED
  BY <1>1, StringsTypeCorrect, PTL
==============================================================================
