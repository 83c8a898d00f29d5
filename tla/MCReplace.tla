----------------------------- MODULE MCReplace -------------------------------
(***************************************************************************)
(* Values for the constants of Replace.  abba and aab overlap; aa begins   *)
(* aab and overlaps itself; ba is a tail of abba; b is inside of all but   *)
(* aa and has no replacement of its own.  aab is deleted, aa becomes       *)
(* longer and the others shorter.  x is in no pattern, and the search      *)
(* stays in aa while more of it is read.                                   *)
(***************************************************************************)
EXTENDS Replace

CONSTANTS a, b, x, y

MCPattern == {<<a, b, b, a>>, <<a, a, b>>, <<a, a>>, <<b, a>>, <<b>>}

MCRtext ==
  <<a, b, b, a>> :> <<x>> @@ <<a, a, b>> :> << >>
    @@ <<a, a>> :> <<y, y, y>> @@ <<b, a>> :> <<y>>

MCChunk ==
  {<< >>, <<a>>, <<b>>, <<x>>, <<a, a>>, <<a, b>>, <<b, a>>, <<a, b, b>>}
==============================================================================
