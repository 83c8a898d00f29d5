----------------------------- MODULE Serializer ------------------------------
(***************************************************************************)
(* ParaglobSerializer (paraglob_serializer.cpp): a vector of strings as    *)
(* bytes, and back.  A string is a sequence of bytes.                      *)
(***************************************************************************)
EXTENDS Integers, Sequences, SequencesExt

CONSTANTS
  Base,   \* the values of a byte are 0..Base-1 (256)
  Width   \* sizeof(uint64_t) (8)

ASSUME SerializerAssumption == Base \in Nat \ {0, 1} /\ Width \in Nat \ {0}

(* add_int: the bytes of an integer, the lowest first                      *)
AddInt(a) ==
  LET rest[i \in 1..Width] == IF i = 1 THEN a ELSE rest[i - 1] \div Base
  IN  [i \in 1..Width |-> rest[i] % Base]

Serialize(v) ==
  AddInt(Len(v)) \o FlattenSeq([i \in DOMAIN v |-> AddInt(Len(v[i])) \o v[i]])

(* As GetInt, but the last byte is read.                                   *)
GetIntLast(vsp, it) == vsp[it + Width]

(* get_int_and_move: the byte the iterator is at; it moves Width further.  *)
GetInt(vsp, it) == vsp[it + 1]

(***************************************************************************)
(* unserialize returns strings or throws.  An iterator is the number of    *)
(* bytes before it.                                                        *)
(***************************************************************************)
Returned(strings) == [outcome |-> "returned", strings |-> strings]

Thrown(what) == [outcome |-> what, strings |-> << >>]

(* Memory beyond the bytes is read, where there is none (the first byte of *)
(* empty data) or before any test (the symbols of a string that is cut     *)
(* short): undefined behaviour, which need not come to an exception.       *)
Overrun == Thrown("overrun")

(* As ReadStrings, but a string that is cut short is taken as it is.       *)
ReadStringsShort(vsp, start) ==
  LET read[it \in Nat] ==
        LET from == it + Width
            to == from + GetInt(vsp, it)
            rest == read[to]
        IN  IF it >= Len(vsp)
            THEN [strings |-> << >>, end |-> it, within |-> TRUE]
            ELSE IF to > Len(vsp)
            THEN [strings |-> <<SubSeq(vsp, from + 1, Len(vsp))>>,
                  end |-> Len(vsp), within |-> TRUE]
            ELSE [rest EXCEPT !.strings = <<SubSeq(vsp, from + 1, to)>> \o @]
  IN  read[start]

(* The loop, from an iterator on: the strings it reads, and whether each   *)
(* of them is within the bytes.  The length of a string may be cut short   *)
(* without harm to the loop: the iterator is then beyond the end.          *)
ReadStrings(vsp, start) ==
  LET read[it \in Nat] ==
        LET from == it + Width
            to == from + GetInt(vsp, it)
            rest == read[to]
        IN  IF it >= Len(vsp)
            THEN [strings |-> << >>, end |-> it, within |-> TRUE]
            ELSE IF to > Len(vsp)
            THEN [strings |-> << >>, end |-> to, within |-> to = from]
            ELSE [rest EXCEPT !.strings = <<SubSeq(vsp, from + 1, to)>> \o @]
  IN  read[start]

Unserialize(vsp) ==
  IF vsp = << >> THEN Overrun
  ELSE IF Width > Len(vsp) THEN Thrown("underflow_error")
  ELSE LET n_strings == GetInt(vsp, 0)
           loop == ReadStrings(vsp, Width)
       IN  IF ~loop.within THEN Overrun
           ELSE IF loop.end > Len(vsp) THEN Thrown("underflow_error")
           ELSE IF Len(loop.strings) > n_strings THEN Thrown("overflow_error")
           ELSE IF Len(loop.strings) < n_strings THEN Thrown("underflow_error")
           ELSE Returned(loop.strings)
==============================================================================
