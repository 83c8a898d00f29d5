------------------------------ MODULE MCStrings ------------------------------
(***************************************************************************)
(* The functions of Paraglob on strings, for all inputs up to a bound: all *)
(* patterns of at most MaxPattern symbols, built symbol by symbol, with    *)
(* all texts of at most MaxText, and all vectors of at most MaxStrings     *)
(* strings, built string by string.                                        *)
(***************************************************************************)
EXTENDS Glob, Serializer

CONSTANTS Symbols, TextSymbols, MaxPattern, MaxText, Strings, MaxStrings

ASSUME StringsAssumption == Strings \subseteq Seq(0..(Base - 1))

MCSymbols == {"a", "b", "*", "?", "[", "]", "!", "^", "\\", ":alpha:"}

MCStringsOfBytes == { << >>, <<0>>, <<1>>, <<1, 0>>, <<0, 3>>, <<0, 2, 1>>,
                      <<1, 0, 0, 0>>, <<2, 2, 0, 0, 1>> }

VARIABLES pattern, v

Texts == UNION {[1..n -> TextSymbols] : n \in 0..MaxText}

Init == pattern = << >> /\ v = << >>

LongerPattern ==
  /\ Len(pattern) < MaxPattern
  /\ v = << >>
  /\ \E c \in Symbols : pattern' = Append(pattern, c)
  /\ v' = v

LongerVector ==
  /\ Len(v) < MaxStrings
  /\ pattern = << >>
  /\ \E s \in Strings : v' = Append(v, s)
  /\ pattern' = pattern

Next == LongerPattern \/ LongerVector

Spec == Init /\ [][Next]_<<pattern, v>>

------------------------------------------------------------------------------
(* A text that matches a pattern contains all its meta-words: narrowing    *)
(* the patterns to those whose meta-words were found loses none.           *)
MetaWordsAreNecessary ==
  \A t \in Texts : Fnmatch(pattern, t) => ContainsWords(pattern, t)

(* ... for the patterns that are split the way fnmatch reads them.         *)
PlainWordsAreNecessary == Plain(pattern) => MetaWordsAreNecessary

(* Put together, the meta-words of a pattern are the symbols fnmatch takes *)
(* literally: narrowing uses all of them, and only a pattern of nothing    *)
(* but wildcards goes to single_wildcards.                                 *)
WordsAreTheLiterals ==
  Plain(pattern) => FlattenSeq(MetaWordsOf(pattern)) = Literals(pattern)

------------------------------------------------------------------------------
(* Every count and length of v is the value of one byte. *)
Small == Len(v) < Base /\ \A i \in DOMAIN v : Len(v[i]) < Base

(* What was serialized comes back as it was.                               *)
RoundTrip == Unserialize(Serialize(v)) = Returned(v)

(* ... when every count and length fits in one byte.                       *)
SmallRoundTrip == Small => RoundTrip

(* The bytes of v without the last of them                                 *)
Cut(n) == SubSeq(Serialize(v), 1, n)

(* Data that ends too soon is refused with an exception, wherever it was   *)
(* cut: underflow_error is there for it (exceptions.h).                    *)
CutIsRefused ==
  Small => \A n \in 1..(Len(Serialize(v)) - 1) :
    Unserialize(Cut(n)).outcome \in {"underflow_error", "overflow_error"}

(* How many bytes the first i strings take, with the count                 *)
EndOf(w, i) == Len(Serialize(SubSeq(w, 1, i)))

(* The n-th byte is not followed by the rest of a string with symbols.     *)
BesideStrings(w, n) ==
  \A i \in 1..Len(w) :
    w[i] = << >> \/ n <= EndOf(w, i - 1) \/ n >= EndOf(w, i)

(* ... and so it is when the cut is in the count, between two strings, or  *)
(* in the length of a string without symbols.                              *)
CutBesideStrings ==
  Small => \A n \in 1..(Len(Serialize(v)) - 1) :
    BesideStrings(v, n) => Unserialize(Cut(n)).outcome = "underflow_error"
==============================================================================
