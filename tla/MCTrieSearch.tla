---------------------------- MODULE MCTrieSearch -----------------------------
(***************************************************************************)
(* Values for the constants of Trie and TrieSearch.  Two alphabets; the    *)
(* words nest, share prefixes, are tails of one another, overlap and       *)
(* straddle the chunks, which are every text of at most two alphabets.     *)
(* One offered word is empty and one too long.                             *)
(***************************************************************************)
EXTENDS TrieSearch

CONSTANTS a, b

MCOffered == { <<>>, <<a>>, <<b, a>>, <<a, b, a>>, <<b, b, a>>, <<a, b, a, b>> }

MCChunk == UNION {[1..n -> {a, b}] : n \in 0..2}
==============================================================================
