-------------------------------- MODULE Glob ---------------------------------
(***************************************************************************)
(* Patterns: how Paraglob splits one into its meta-words                   *)
(* (Paraglob::split_on_brackets and get_meta_words, paraglob.cpp) and what *)
(* fnmatch, which ParaglobNode::merge_matches calls with no flags, accepts *)
(* (the C library's).                                                      *)
(*                                                                         *)
(* Patterns and texts are sequences of symbols.  The symbol ":alpha:"      *)
(* stands for the seven characters of a character class; ranges, which     *)
(* need no special care from the splitting, are left out, and so are the   *)
(* equivalence classes and collating symbols a bracket may list: '-', '='  *)
(* and '.' stand for themselves here.                                      *)
(***************************************************************************)
EXTENDS Words, SequencesExt

(* The characters of the class [:alpha:] *)
Letters == {"a", "b"}

(* The characters of a symbol *)
Characters(c) == IF c = ":alpha:" THEN {c, "a"} ELSE {c}

(* string::find_first_of: the first position of s, from the k-th on, that  *)
(* holds one of C; 0 when there is none (npos)                             *)
FindFirstOf(C, s, k) ==
  LET holds == {i \in k..Len(s) : s[i] \in C}
  IN  IF holds = {} THEN 0 ELSE Min(holds)

(* The part of s from the k-th position up to, not including, the j-th     *)
Between(s, k, j) == SubSeq(s, k, j - 1)

(* Paraglob::split_on_brackets: the parts outside of pairs of brackets, a  *)
(* pair being a '[' and the first ']' after it                             *)
SplitOnBrackets(in) ==
  LET split[prev \in 1..(Len(in) + 1)] ==
        LET pos == FindFirstOf({"["}, in, prev)
            end_bracket == IF pos = 0 THEN 0 ELSE FindFirstOf({"]"}, in, pos)
        IN  IF end_bracket = 0
            THEN <<Between(in, prev, Len(in) + 1)>>
            ELSE <<Between(in, prev, pos)>> \o split[end_bracket + 1]
  IN  split[1]

(* What push_back adds: a word, unless there is nothing between two        *)
(* wildcards                                                               *)
NonEmpty(w) == IF w = << >> THEN << >> ELSE <<w>>

(* As WordsOfPart, but '?' is no wildcard.                                 *)
WordsBetweenStars(word) ==
  LET rest[prev \in 1..(Len(word) + 1)] ==
        LET pos == FindFirstOf({"*"}, word, prev)
        IN  IF pos = 0
            THEN NonEmpty(Between(word, prev, Len(word) + 1))
            ELSE NonEmpty(Between(word, prev, pos)) \o rest[pos + 1]
  IN  rest[1]

(* As WordsOfPart, but what follows the last wildcard is forgotten.        *)
WordsBeforeWildcards(word) ==
  LET rest[prev \in 1..(Len(word) + 1)] ==
        LET pos == FindFirstOf({"*", "?"}, word, prev)
        IN  IF pos = 0 THEN << >>
            ELSE NonEmpty(Between(word, prev, pos)) \o rest[pos + 1]
  IN  rest[1]

(* The loop of get_meta_words over one part: what the wildcards leave *)
WordsOfPart(word) ==
  LET rest[prev \in 1..(Len(word) + 1)] ==
        LET pos == FindFirstOf({"*", "?"}, word, prev)
        IN  IF pos = 0
            THEN NonEmpty(Between(word, prev, Len(word) + 1))
            ELSE NonEmpty(Between(word, prev, pos)) \o rest[pos + 1]
  IN  rest[1]

(* Paraglob::get_meta_words *)
MetaWordsOf(pattern) ==
  LET parts == SplitOnBrackets(pattern)
  IN  FlattenSeq([i \in DOMAIN parts |-> WordsOfPart(parts[i])])

------------------------------------------------------------------------------
(* The bracket expression of p whose '[' is at i: where its ']' is, 0 when *)
(* there is none and the '[' stands for itself, and the symbols it lists.  *)
(* A ']' that comes first is listed; a '\' quotes the symbol after it.     *)
Bracket(p, i) ==
  LET negated == i < Len(p) /\ p[i + 1] \in {"!", "^"}
      first == IF negated THEN i + 2 ELSE i + 1
      IsClass(k) == SubSeq(p, k, k + 2) = <<"[", ":alpha:", "]">>
      scan[k \in 1..(Len(p) + 3)] ==
        LET listing(C, l) == [scan[l] EXCEPT !.lists = @ \cup C]
        IN  CASE k > Len(p) -> [close |-> 0, lists |-> {}]
              [] k <= Len(p) /\ p[k] = "]" /\ k # first
                   -> [close |-> k, lists |-> {}]
              [] k < Len(p) /\ p[k] = "\\" -> listing(Characters(p[k + 1]), k + 2)
              [] k + 2 <= Len(p) /\ IsClass(k) -> listing(Letters, k + 3)
              [] OTHER -> listing(Characters(p[k]), k + 1)
  IN  [close |-> scan[first].close, lists |-> scan[first].lists,
       negated |-> negated]

Accepts(bracket, c) == (c \in bracket.lists) # bracket.negated

(* fnmatch(p, t, 0) = 0: match has the places of t from which on it        *)
(* matches the symbols of p from the i-th on.                              *)
Fnmatch(p, t) ==
  LET match[i \in 1..(Len(p) + 1)] ==
        CASE i > Len(p) -> {Len(t) + 1}
          [] i <= Len(p) /\ p[i] = "*"
               -> {j \in 1..(Len(t) + 1) : \E k \in match[i + 1] : j <= k}
          [] i <= Len(p) /\ p[i] = "?"
               -> {j \in DOMAIN t : j + 1 \in match[i + 1]}
          [] i <= Len(p) /\ p[i] = "\\"
               -> {j \in DOMAIN t :
                     i < Len(p) /\ t[j] = p[i + 1] /\ j + 1 \in match[i + 2]}
          [] i <= Len(p) /\ p[i] = "[" /\ Bracket(p, i).close # 0
               -> {j \in DOMAIN t : /\ Accepts(Bracket(p, i), t[j])
                                    /\ j + 1 \in match[Bracket(p, i).close + 1]}
          [] OTHER -> {j \in DOMAIN t : t[j] = p[i] /\ j + 1 \in match[i + 1]}
  IN  1 \in match[1]

------------------------------------------------------------------------------
(* Where p is read the way the splitting reads it: it has no '\', no       *)
(* character class and no bracket expression that lists ']' first.  Nor    *)
(* has it what Fnmatch leaves out of bracket expressions: a '-' behind a   *)
(* '[', where it may make a range, and what begins a class or a symbol.    *)
Plain(p) ==
  /\ \A i \in DOMAIN p : p[i] \notin {"\\", ":alpha:"}
  /\ ~ \E i, j \in DOMAIN p : i < j /\ p[i] = "[" /\ p[j] = "-"
  /\ ~ \E i \in 1..(Len(p) - 1) : p[i] = "[" /\ p[i + 1] \in {".", "=", ":"}
  /\ ~ \E i \in DOMAIN p :
         \E w \in {<<"[", "]">>, <<"[", "!", "]">>, <<"[", "^", "]">>} : EndsAt(w, p, i)

(* The text contains every meta-word of the pattern. *)
ContainsWords(p, t) ==
  \A w \in ToSet(MetaWordsOf(p)) : \E e \in 0..Len(t) : EndsAt(w, t, e)

(* The symbols of p that fnmatch compares with the text one for one *)
Literals(p) ==
  LET from[i \in 1..(Len(p) + 1)] ==
        CASE i > Len(p) -> << >>
          [] i <= Len(p) /\ p[i] \in {"*", "?"} -> from[i + 1]
          [] i <= Len(p) /\ p[i] = "[" /\ Bracket(p, i).close # 0
               -> from[Bracket(p, i).close + 1]
          [] OTHER -> <<p[i]>> \o from[i + 1]
  IN  from[1]
==============================================================================
