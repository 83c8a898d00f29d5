----------------------------- MODULE MCParaglob ------------------------------
(***************************************************************************)
(* Paraglob with the patterns split as Glob says, matched as Glob says     *)
(* fnmatch does, and serialized as Serializer says, with integers of three *)
(* bytes (of which unserialize reads one).                                 *)
(***************************************************************************)
EXTENDS Paraglob

G == INSTANCE Glob

S == INSTANCE Serializer WITH Base <- 256, Width <- 3

CONSTANTS MaxWord, o1, o2

MCEmpty == << >>

MCPattern == { << >>, <<"?">>, <<"*", "a">>, <<"b", "*">>, <<"a", "?", "b">>,
               <<"b", "*", "a", "b">> }

MCVectors == { <<<<"a", "?", "b">>, <<"b", "*">>, <<"?">>>>,
               <<<<"*", "a">>, <<"b", "*", "a", "b">>>> }

MCText == { <<"a">>, <<"b">>, <<"a", "a", "b">>, <<"b", "a", "b">> }

MCMetaWords == [p \in MCPattern |-> G!MetaWordsOf(p)]

MCWord == UNION {ToSet(MCMetaWords[p]) : p \in MCPattern}

(* AC_PATTRN_MAX_LENGTH is MaxWord here *)
MCTooLong == {w \in MCWord : Len(w) > MaxWord}

MCOccurring ==
  {o \in MCWord \X MCText : \E e \in 0..Len(o[2]) : G!EndsAt(o[1], o[2], e)}

MCMatching == {m \in MCPattern \X MCText : G!Fnmatch(m[1], m[2])}

(* The patterns are sorted before they are written; any order will do.     *)
MCReread(P) ==
  LET read == S!Unserialize(S!Serialize(SetToSeq(P)))
  IN  IF read.outcome = "returned" THEN read.strings ELSE None
==============================================================================
