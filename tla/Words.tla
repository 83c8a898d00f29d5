-------------------------------- MODULE Words --------------------------------
(***************************************************************************)
(* Strings of alphabets (AC_TEXT_t in actypes.h) as sequences, and what it *)
(* means for one to occur in another.  The position of a match is the one  *)
(* the library reports: the number of alphabets up to the END of the       *)
(* matched word (struct ac_match, actypes.h).                              *)
(***************************************************************************)
EXTENDS Integers, Sequences

(***************************************************************************)
(* w occurs in s and its last alphabet is the e-th one of s.               *)
(***************************************************************************)
EndsAt(w, s, e) ==
  /\ Len(w) <= e
  /\ e <= Len(s)
  /\ \A i \in 1..Len(w) : w[i] = s[e - Len(w) + i]

(***************************************************************************)
(* w is a tail ("factor (tail)" in actypes.h) of s.                        *)
(***************************************************************************)
IsTail(w, s) == EndsAt(w, s, Len(s))

IsProperTail(w, s) == IsTail(w, s) /\ Len(w) < Len(s)

(***************************************************************************)
(* Every pair of a word of W and a position of s, not beyond the n-th      *)
(* alphabet, at which that word ends.                                      *)
(***************************************************************************)
OccurrencesUpTo(W, s, n) == {o \in W \X (1..n) : EndsAt(o[1], s, o[2])}

Occurrences(W, s) == OccurrencesUpTo(W, s, Len(s))
==============================================================================
