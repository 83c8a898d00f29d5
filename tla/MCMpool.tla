------------------------------- MODULE MCMpool -------------------------------
(***************************************************************************)
(* Values for the constants of Mpool.  A block is three times the          *)
(* alignment by default; sizes are none, one below and at a multiple of    *)
(* 16, between two, and above a block.                                     *)
(***************************************************************************)
EXTENDS Mpool

MCSize == {0, 15, 16, 33, 70}
==============================================================================
