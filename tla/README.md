# A specification of paraglob

paraglob answers one question fast: which of a set of glob patterns match this
text?  It cuts every pattern into *meta-words*, the literal pieces a matching
text must contain, puts these words into an Aho-Corasick trie, finds the words
that occur in the text in one pass, and asks `fnmatch` only about the patterns
that own one of them.  This directory specifies that program in TLA+: models of
its parts, TLC configurations that check them on small instances, and proofs
that TLAPS checks for every instance.

## The system

| part | code | state | operations |
|---|---|---|---|
| trie construction | `ahocorasick.c`, `node.c` | nodes with edges, `final`, `failure_node`, `matched`; `trie_open` | `ac_trie_add`, `ac_trie_finalize` |
| trie search | `ahocorasick.c` | `text`, `position`, `last_node`, `base_position`, the locals of the loop | `ac_trie_settext`, `ac_trie_findnext`, `ac_trie_search`, `ac_trie_reset` |
| edge arrays | `node.c` | `outgoing`, sorted when the trie is finalized | `node_find_next_bs`, `node_sort_edges` |
| text replacement | `replace.c` | nominees, backlog, cursor, output buffer | `multifast_replace`, `multifast_rep_flush` |
| memory pool | `mpool.c` | chain of blocks | `mpool_malloc`, `mpool_free` |
| AhoCorasickPlus | `AhoCorasickPlus.cpp` | the trie and a counter of ids | `addPattern`, `finalize`, `search`, `findAll` |
| splitting of patterns | `paraglob.cpp` | none | `split_on_brackets`, `get_meta_words` |
| Paraglob | `paraglob.cpp`, `node.h` | `meta_words`, `meta_to_node_map`, `single_wildcards` and an AhoCorasickPlus | constructors, `add`, `compile`, `get`, `serialize`, `==` |
| ParaglobSerializer | `paraglob_serializer.cpp` | none | `serialize`, `unserialize` |
| display, tools | `node_display`, `str`, `src/tools` | none | output, a driver, a benchmark |

How they interact: `Paraglob::add` calls `get_meta_words` (which as a side
effect remembers a pattern without meta-words) and then `addPattern` for each
meta-word; the trie gives the pattern's word back with the id it was first
given.  `Paraglob::get` calls `findAll`, which sets a text and then calls
`ac_trie_findnext` until there is no more; `ac_trie_findnext` runs the loop of
`ac_trie_search` with a call-back that stops it at the first match, so the
place in the text and the node are kept in the trie from one call to the next.
The ids that come back are looked up in `meta_words`, the words in
`meta_to_node_map`.  A paraglob is copied by serializing its patterns and
adding them all to a new one.

What is hard here.  Nothing runs concurrently and nothing is persisted.  The
difficulty is in long sequences of legal calls, in state one call leaves for
the next, in data gathered in an order nobody fixed, and in operations that
fail half-way:

* the matches of a node are gathered along failure links while some of the
  nodes on the way have gathered theirs and others have not;
* failure links are computed by index arithmetic on one array that every node
  of the traversal writes to, and a second time when a closed trie is finalized
  again;
* the loop of the search is left and entered between matches and between the
  chunks of a stream, with its state in four fields of the trie;
* `add` may be refused at the second word of a pattern;
* the three indexes of a paraglob are filled by different statements, for
  different outcomes of `addPattern`;
* two readings of a pattern, the splitting's and `fnmatch`'s, must agree;
* integers have eight bytes when they are written and one when they are read;
  sizes of arrays are unsigned, the indices that search them are not; a char is
  signed where it is compared and is a pattern's symbol everywhere else;
* replacement decides about a part of the stream as late as no longer pattern
  can come to include it, with nominees, a backlog, a cursor and an output buffer
  that all live from one chunk to the next.

What makes each part correct:

* trie construction: the nodes are the prefixes of the accepted words; the
  failure link of a node is its longest proper tail that is a node; a node
  matches every accepted word that ends there; a closed trie is frozen;
  finalization ends.
* trie search: the reported matches are the occurrences of the words in the
  whole stream, each once and at its place; "no more" is only said at the end;
  a text is drained.
* splitting: a text that matches contains all meta-words.
* Paraglob: the indexes agree at every moment; `get` finds each accepted
  pattern that matches and returns none that does not (this it does not keep,
  see the findings); a copy answers exactly as the original did; paraglobs with
  the same patterns are equal.
* serializer: what was written is read; what ends too soon is refused with an
  exception.  The code keeps the first for counts and lengths of one byte, the
  second where no string with symbols is cut (see the findings).
* replacement: what comes out does not depend on where the input is cut; the
  backlog does not overflow.
* edges: a sorted edge array leads every alphabet to the node that was created
  for it, and the search for it stays inside the array.
* memory pool: pieces are aligned, disjoint and inside their block; every block
  is given back once.

## The modules

| module | models | checked with | proofs |
|---|---|---|---|
| `Words` | occurrences and tails of words, positions counted at the end of a match | | `WordsProofs` |
| `Trie` | `ac_trie_create`, `ac_trie_add`, `ac_trie_finalize` | `MCTrieSearch` | `TrieProofs` |
| `Matcher` | abstract: what a multi-pattern matcher promises | `MCTrieSearch` | `SearchProofs` |
| `TrieSearch` | `ac_trie_settext`, `ac_trie_findnext`, `ac_trie_search`; extends `Trie`, implements `Matcher` | `MCTrieSearch` | `SearchProofs` |
| `EdgeArray` | `node_find_next`, `node_create_next`, `node_add_edge`, `node_sort_edges`, `node_find_next_bs` | `MCEdgeArray` | `EdgeProofs` |
| `Replace` | `multifast_replace`, `multifast_rep_flush`, `mf_repdata_*`, for a closed trie | `MCReplace` | `ReplaceProofs` |
| `Mpool` | `mpool_create`, `mpool_malloc`, `mpool_strdup`, `mpool_strndup`, `mpool_free` | `MCMpool` | `MpoolProofs` |
| `Glob` | `split_on_brackets`, `get_meta_words`; `fnmatch` as an external reference | `MCStrings` | `StringsProofs` |
| `Serializer` | `serialize`, `unserialize` with the width of integers | `MCStrings` | `StringsProofs` |
| `Paraglob` | several objects of the class | `MCParaglob` (instantiates `Glob` and `Serializer`) | `ParaglobProofs` |

How they compose.  `TrieSearch` extends `Trie`: the search runs on the trie as it
was built and finalized, and `Matcher` is what the two together implement.
`Paraglob` and `Replace` use what is shown below them instead of running it
again: the trie of a paraglob is what `Matcher` says of it (`DrainedWordsOccur`:
when `findAll` is through, the words it reported are the words that occur in the
text, which is `FindAll` of `Paraglob`), and the nodes, failure links and matches
of `Replace` are what `TrieProofs` shows they are.  `EdgeArray` shows that a
node's edges are a function from alphabets to children, as `Trie` takes them to
be; `Mpool` that nodes and patterns do not overlap in memory.

### Trie

A node is the path of alphabets that leads to it.  `node_create_next` never
makes a second edge for one alphabet, so paths and nodes are one to one; the
edge array is the set of one-alphabet extensions that are nodes.  `AddRefused`,
`AddDuplicate` and `AddNew` are the outcomes of `ac_trie_add`.
`ac_trie_finalize` is split into one step per visited node, and within
`node_collect_matches` one per failure link (`CollectBegin`, `CollectStep`,
`CollectEnd`).  `todo` holds the nodes not finished, `nod` and `walk` are the
locals of `node_collect_matches`.

`prefix` is the local array of `ac_trie_finalize` that the calls of
`ac_trie_traverse_setfailure` share: a caller writes the last alphabet of a child
at its depth (`Written`) and the call for the child reads as many entries as it
is deep (`PrefixOf`), from which it computes the failure link (`FailureOf`).
What other branches left at greater depths stays in it.  Which entries are a
node's own depends on the traversal being depth first, so this one is
(`Descends`); the children of a node come in any order, the one of the edge
array among others.  The second traversal shares nothing, and may take any order
in which a node comes after its parent.  A pattern is identified with
its text; title and id of a pattern do not influence any decision of the trie.

### TrieSearch and Matcher

Each iteration of the loop of `ac_trie_search` is one step: `Advance`,
`ReportNext`, `Report`, `ReportStop`, `Fail`, `Skip`, `EndOfText`.  `FindNext`
and `Search` enter it.  `input` and `found` are history: the stream since the
last reset and the matches reported of it.  The client of `ClientSpec` may search
the chunks of one stream in two ways, in any mixture: as
`AhoCorasickPlus::findAll` does, with `ac_trie_settext` and then
`ac_trie_findnext` until there are no more matches; or with `ac_trie_search` and
a call-back of its own, which may stop the loop.  It is careful in one way
(`CarefulSearch`): it passes a new stream to `ac_trie_search` only where
`last_node` is the root, because the code reads that node before it resets it.
It also sets a new text only
when the one before is drained: `ac_trie_settext` on a text that is read half
way is legal and abandons the rest of it, but no caller in the repository does
so, and what is then left in `last_node` for a text that goes on with the stream
is not the place the stream was read to.  A stopped search saves nothing, so the library forgets the chunk; the history
forgets it too, and `Matcher` has a `Stop` that allows a matcher to fall back to
a beginning of the stream for which it delivered everything.

### EdgeArray

One node's `outgoing`, as a sequence; alphabets are signed chars, a child is a
number in the order of creation, 0 the null pointer.  `CreateNext` is a step of
`ac_trie_add` at this node (the linear search, then `node_add_edge` with the
growth of the array), `SortEdges` is `qsort` with `node_edge_compare`, every
order it allows included, and every iteration of `node_find_next_bs` is a step
(`BsUp`, `BsDown`, `BsFound`, `BsMissing`).  `IntOf` is the conversion from the
unsigned size to the signed index, for an int of which the width is a constant:
the last index of an empty array is the greatest `size_t` and must become -1.
`child` is history: what `node_create_next` answered.

### Replace

One step per iteration of the main loop of `multifast_replace` (`Follow`,
`Fail`, `Skip`), of the booking of a nominee (`TakeBack`, `Push`, `Nullify`), and
of the loop that replaces nominees (`ReplaceNominee`); `EndOfChunk`,
`ReplaceEnd` and `FlushEnd` are what happens between and after these loops,
`FlushKeep` and `Flush` the two ways of `multifast_rep_flush`.  A nominee is a
pair of a pattern and the position of its end.  `noms` is the nominees' array
without its unused room, `backlog` the backlog buffer, `buffer` the output not
yet passed to the call-back (`Flushed` says how much of it is).  What the
call-back is given is `output`, history like `input`.  While no call runs the
chunk is empty in the model, for the library may not read the client's text
then.  The backlog can outgrow its memory (see the findings); from there on no
call is made, for nothing is defined.  `NormalChoice` and `LazyChoice` say
independently of any reading order which occurrences are to be replaced.

### Mpool

A block is its place in the order of allocation; an address is a block and an
offset.  `Carve` is `mpool_malloc` with its two branches, used by `MpoolMalloc`
for nodes and by `MpoolStrndup` for strings, which need room for their zero.
Each iteration of the loop of `mpool_free` is a step.  `pieces` is history: the
pieces handed out and how many bytes the client writes there.

### Paraglob

One step per word that `add` offers to the trie, so the state between two words
and after a refused one is visible.  The splitting, `fnmatch`, and the serialized
form are constants; `MCParaglob` gives them the values `Glob` and `Serializer`
compute.  The vectors of patterns are sets, for `get` and `get_patterns` sort
them and drop duplicates.  An object whose constructor throws is gone and its
name may be used again.

### Glob and Serializer

Pure functions, each written as a recursive function or with the operators of
the community modules, and compared with an independent definition:
`Fnmatch`, a matcher by recursion over pattern and text, and the identity.
`Fnmatch` was compared with glibc's `fnmatch(p, t, 0)` for some 37 000 patterns
over its symbols.  A pattern is `Plain` when the splitting reads it as `fnmatch`
does: it has no `\`, and in brackets no character class and no `]` as the first
member.  `Bracket` and `Accepts` know of the members of a bracket expression
single symbols and `[:alpha:]`.  Ranges, equivalence classes and collating
symbols are left out, and `Plain` excludes every pattern that could have one: a
`-` behind a `[`, or a `[` followed by a `.`, a `=` or a `:`.

`Unserialize` returns, throws one of the two exceptions, or runs over
(`Overrun`): it reads memory beyond the data, after which anything may happen.
That is an outcome of its own and counts as no refusal.

## The runs

| run | what it asks | bounds |
|---|---|---|
| `search` | the trie: types, exact nodes, failure links and matches, frozen when closed, finalization returns; its search: exact matches over chunks and over both kinds of search, longest node, drained, implements `Matcher`, every text is drained | 6 offered words of length 0 to 4, limit 3; chunks of at most 2, streams of at most 3 alphabets |
| `edge_array` | the edges are the children, the binary search is exact, stays inside and returns | 5 signed chars, depths 0, 3 and 8, an int of 8 bits |
| `mpool` | pieces apart, inside and aligned, blocks freed once, freeing returns | blocks of 48, 5 sizes from 0 to 70, at most 4 pieces |
| `replace` | the stream is replaced, output is decided, nominees in order, nothing lost, calls return | 5 patterns, 8 chunks, streams of at most 7 alphabets, buffer of 3 |
| `replace_backlog` | violated: the backlog is no longer than the longest pattern | as above |
| `strings` | meta-words are necessary and are the literals, for plain patterns; small vectors come back; cut beside their strings they are refused | 10 symbols, patterns of at most 5, texts of at most 3; a byte of 4 values, an integer of 2 bytes, at most 4 of 8 strings |
| `glob_any` | violated: meta-words are necessary, for all patterns | as above |
| `serializer_any` | violated: all vectors come back | as above |
| `cut_data` | violated: data that ends too soon is refused, wherever it was cut | as above |
| `paraglob` | indexes agree, get finds, copies answer as their originals did, same patterns are equal | 2 objects, 6 patterns, 2 vectors, 4 texts, word limit 1 |
| `get_wildcards`, `load_refused` | violated: see the findings | as above |

Why the bounds are enough.  The words offered to the trie nest in one another
(`a` in `ba` in `aba`, as a tail over two failure links), share prefixes (`ba`
and `bba`, which write different alphabets at the same depth of the prefix
array; `aba` and `abab`), are empty, too long by one (`abab`), and are each
offered again and again.  They are offered in every order, to an open and to a
closed trie, and finalization may come before, between and after them.  A stream
of three alphabets in chunks of up to two lets the longest word straddle a chunk
border and overlap a match that was reported before it.  Two alphabets suffice
for a failure link that is neither the parent nor the root.

The edges are looked at in every order of every set of five chars that include
both limits of a signed char, a negative and a positive one, and zero; the
depths are ones at which the array grows by nine, three and one.  The greatest
index the search computes is less than twice the number of edges, so 8 bits hold
it; the proof needs no more than that (`EdgeAssumption`).  The pool's sizes are
zero, below, at and between multiples of 16, and greater than a block, so that
all branches of `mpool_malloc` meet in one history of four pieces.

The patterns of `replace` are `abba`, `aab`, `aa`, `ba` and `b`: they overlap,
contain each other at the beginning, the end and in the middle, are replaced by
something shorter, longer, and nothing, and `b` has no replacement of its own.
`x` is in no pattern.  The chunks include the empty one and are shorter and
longer than the node the search may be in; seven alphabets are `abba` begun in one
overlap and ended in another, and a buffer of three is filled more than once.

The scaled byte (4 values) makes a string as long as a byte has values possible;
the interesting boundary, one past the greatest value, is in `MCStrings`.  TLC's
integers do not hold `256^4`, so `MCParaglob` takes three bytes.  In
`MCParaglob` the limit on words is one alphabet, so that the second word of
`b*ab` is refused after its first was taken; the patterns share a meta-word,
include two without any, the empty one, and one that is added twice when a copy
is made of it.  Only the first object is created empty, the second only by a
constructor from patterns: what an object does depends on no other one, except
for `Load`.

`CHECK_DEADLOCK FALSE` is set in two places.  In `MCStrings` the state is an
input that is built up to its bound.  In `MCReplace` a stream ends at its bound,
and no call is made once the backlog is longer than its memory.  No other run
stops.

## Fairness

`FairTrieSpec`, `FairClientSpec`, and `FairSpec` of `EdgeArray`, `Mpool` and
`Replace` assume weak fairness of the steps inside a call: `ac_trie_finalize`,
`node_find_next_bs`, `mpool_free`, `multifast_replace` and the loop of the search
go on once entered, and `findAll` goes on asking.  The library has one thread and
blocks on nothing, so an entered call runs.  No fairness is assumed of clients:
none need ever add, finalize, set a text, flush or free.

## What is proved

All of it holds for every value of the constants that satisfies the module's
`ASSUME`; these only type the constants, except where said.

| module | theorems | further assumption |
|---|---|---|
| `TrieProofs` | `TrieTypeCorrect`, `NodesCorrect`, `FailureCorrect`, `MatchedCorrect`, `FinalCorrect`, `FrozenCorrect` (an action property) | the null pointer is not a path |
| `SearchProofs` | `SearchTypeCorrect`, `SearchCorrect`, `DrainedCorrect`, `DrainedWordsOccur`, `CurrentCorrect`, `ClientImplements` (refinement) | |
| `EdgeProofs` | `EdgeTypesHold`, `EdgesStayTheChildren`, `BsReadsInside`, `BsKeepsSought`, `BsIsExact` (an action property) | four times the alphabets fit in an int |
| `MpoolProofs` | `MpoolTypesHold`, `PiecesStayApart`, `PiecesStayInside`, `BlocksAreFreedOnce` | the default block is a multiple of 16 |
| `ReplaceProofs` | `ReplaceTypesHold`, `NomineesStayInOrder`, `NothingIsLost`, `StreamsAreReplaced`, `OutputStaysDecided` | patterns are not empty |
| `StringsProofs` | `SmallVectorsComeBack`, `CutsBesideAreThrown`, `NarrowingLosesNone`, `NarrowingUsesAllLiterals`, and for any vector, pattern and text `SmallComesBack`, `CutBesideIsThrown`, `PlainWordsOccur`, `MetaWordsAreLiterals` | a byte has at least two values, an integer at least one byte; strings are made of bytes |
| `ParaglobProofs` | `ParaglobTypesHold`, `IndexesStayInAgreement`, `GetFinds`, `SamePatternsEqual`, `CopiesAnswer` | `CopiesAnswer`: what was serialized is read back or not at all (`ReadsBack`) |

`WordsProofs` has the lemmas several of them rest on: about tails and
occurrences, the longest of a set of words that ends at a position, sequences
that are put together, and recursion.

Recursion and induction.  The prover cannot apply the library's induction
theorems, for an operator is their parameter.  The sets are what helps:
`Induction` says that a set that has 0 and with each number the next one has all
numbers, and follows from the theorem that numbers have no infinite descent.  A
property becomes the set of the numbers that have it.  From `Induction` come
`RankInduction` and `BackwardInduction` (from the end of a sequence to its
beginning) and the theorem that makes recursive functions usable: `Recursion`
says that if a step looks only at places of lower rank there is a function that
is its own step everywhere.  A recursive function of a module is a `CHOOSE` of
one that is its own body; `Recursion` shows that there is one to choose, and the
definition can then be unfolded.

The trie.  None of the properties is inductive: they speak of closed tries
only.  `TrieInv` says what is true in each phase.  `WordsInv`: nodes are the
prefixes of the words.  `FailureInv`: a failure link is either not yet set, and
then the trie is open and the node still to be visited, or is the longest
proper tail; the latter follows from `NodesAreClosed` (prefixes of nodes are
nodes), because the loop over dropped alphabets tests paths while a tail is a
node.  It needs the shared array to hold the path of the node that is visited:
`PrefixInv` says that where a node waits whose parent was visited, the array
begins with the parent's path, and depth first keeps it so.  `MatchedInv`: a
node matches at least its own word and at most the words that end there.
`WalkInv`, the heart: while the chain of failure links of a
node is followed, every word that ends at the node and is *longer* than the
node walked to has been gathered.  The next link is the longest proper tail, so
no word lies between; the word of the same length is that node's own.  Nothing
is assumed about whether the nodes on the way were collected before, hence any
order of traversal will do.

The search.  `FoundIsExact` depends on where the loop stands.  `SearchInv` adds
two parts to `TrieInv`.  `TextInv` says which part of the stream the text is,
and that nothing but a search changes while one runs: the trie is closed, words
are added between texts only.  `NodeInv` says that the node kept in the trie is
the longest one that ends where it was read to (`Longest`), and that of the loop
is the longest one except for those the next alphabet does not extend
(`LongestBefore`).  An edge turns the second into the first one position on
(`EdgeKeepsLongest`: a longer node, less its last alphabet, would have been
extendable); a failure link keeps the second, since no node lies between a node
and its failure node; in the root, an alphabet without an edge ends no word
(`SkipKeepsLongest`).  The words that end at a position are then the tails of
the longest node, that is, what it matches (`LongestMatches`, from
`MatchedInv`), and nothing where it is not final.  A chunk continues from the
node kept, a stopped search goes back to it.

The implementation.  `sealed` is mapped to `~trie_open`, `drained` to `Resting`,
the other variables of `Matcher` to the ones of the same name.  `AddNew` is an
`Insert`, `FinalizeEnd` a `Seal`, `SetText` and `Search` a `Feed`, `ReportNext`
and `Report` a `Deliver` at the position `Read + 1`, `EndOfText` a `Drain`,
`ReportStop` a `Stop`, `FindNextOpen` an `Ignore`; all else is a stutter.  In
`DrainedWordsOccur`, what was delivered when a text is read to its end is exactly
the occurrences, so the words delivered are the words that have one.

The edges.  `EdgeInv` adds to the properties that the array has each alphabet at
most once (`AlphasDiffer`), hence no more edges than alphabets, and that the
bounds of the search stay between -1 and the size (`BoundsOK`); so no
conversion to an int changes a number.
`SoughtIsInRange` is the loop invariant: an ascending array keeps the sought
edge in the half the search goes on in.

The pool.  `MpoolInv` adds that the free area of a block begins at a multiple of
16 and behind the pieces carved from it (`FreeIsAligned`, `PiecesAreCarved`),
that each block's `next` is the one before it (`ChainOK`), and that the blocks
still to be given back are those up to `p` (`LiveOK`).

Replacement.  There are two layers.  `ReplaceInv` is about positions and
buffers: it adds to the properties `CallInv` (what the chunk, the position and
the backlog are in each phase of a call) and `NomineeInv` (nominees have
replacements and end behind the cursor and not beyond what was read; the one
being booked ends last).  `NomineesAscend` is preserved by `Push` because
`TakeBack` removed all that begin at the new one's beginning or after it, and
the new one ends last.  `BacklogIsKept` says that the backlog with the chunk is a
tail of the stream that begins no later than the cursor: this is why the two
conditions in `mf_repdata_appendfactor` that are marked as never to be reached
are not.

`StreamInv` relates this to the stream.  `Chosen` are the occurrences that
`NormalChoice` or `LazyChoice` says are to be replaced in what was booked so far,
`Consumed` those of them that end at the cursor or before, `Undecided` the place
from where on the stream may still begin a pattern: where the node `Place`
begins, which is the longest one that ends at the position (`PlaceInv`, by the
lemmas of the search).  `ChosenInv` says that nominees are chosen and that what
is chosen was consumed or is a nominee, but for what the nominee that is being
booked has swallowed.  `OutputInv` says that output and buffer are the stream up
to the cursor with what was consumed replaced.  `CursorInv` is what a later
pattern needs: what was consumed began before `Undecided`, so nothing found
later swallows it.  It is not enough that it *ended* before the position: the code
must keep a nominee back until the node has left it behind.

A position more of the stream changes the choice by the candidate that ends
there, if there is one: in normal mode it drives out the candidates that begin
at or behind its beginning (`NormalChoiceNext`), in lazy mode it is chosen or not
(`LazyChoiceNext`; that there is exactly one lazy choice is an induction).
`ReplaceOneMore` says what one more replacement adds to the output.  Two chosen
patterns may overlap in normal mode; what lies between the two is then nothing
(`OverlapIsEmpty`), as in `mf_repdata_appendfactor`.  `StreamsAreReplaced` is
`OutputInv` at the end of a flushed stream; `OutputStaysDecided` follows
between any two chunks: what is chosen and not yet consumed does not change the
text before the cursor (`SameBefore`), and a longer stretch of a stream becomes a
text that the shorter one's begins (`ReplacedGrows`).

The serializer.  `Laid` says of the bytes of a vector where each string's length
and characters lie; `SerializedLaid` shows that `serialize` writes them so, by an
induction over the strings.  Reading from a laid place gives the strings that
follow it (`WholeIsRead`), by an induction from the end; reading bytes that are
cut beside the strings gives fewer strings, all of them within the bytes, or
leaves the iterator beyond the end (`CutIsRead`).  Only the lowest byte
of an integer is read, which is the integer when it fits (`AddIntSmall`).
`SmallComesBack` is what `CopiesAnswer` takes as its hypothesis, for vectors
whose count and lengths are below 256.

The splitting.  `Reads` lists what `fnmatch` may do at a place of a pattern: go
over a wildcard, over a bracket expression, or along a stretch of literal
symbols.  Whatever satisfies these rules holds of the meta-words of a plain
pattern (`MetaWordsAreRead`): of one part because words are the stretches between
wildcards (`PartReads`), of all parts because in a plain pattern a bracket
expression ends where `split_on_brackets` ends it (`PlainBracket`), and without an
end both take the `[` literally (`SplitsWhereBracketsAre`).  With "put together they
are the literals from here on" for the rules this is `MetaWordsAreLiterals`, with
"every text that matches from here on contains them" it is `PlainWordsOccur`,
which says of plain patterns what `GetFinds` assumes: their meta-words are
necessary.

Paraglob.  `ParaglobInv` says for each object that the indexes agree *and* that
a node only has patterns whose word it is (`NodesInv`), that an accepted pattern
is in every node of its words (`AcceptedInv`), and for the call in progress how
far `add` got (`AddInv`).  `CompleteInv` is what equality and copies need: a
pattern that is stored at all is stored for every word `add` reaches before a
refusal.  Refusal depends on the word alone, so a pattern left half-way is left at
the same word in every paraglob, whatever the order it was added in.  `CopyInv`
relates a copy to its original, in two directions.  What the original answered
is findable and is accepted in the copy or still to come (`AnswersAreKept`).
Whatever the copy has or is to get, if no word of it is too long, the original
answered wherever it can be found (`AnswersAreFrom`): it was serialized, so the
original had it, completely by `CompleteInv`.  Only the pattern being added may
turn out to have a word that is refused, and then there is no copy.

The invariants were checked with TLC on the instances of the runs before they
were proved.

## Only model-checked

Every invariant and action property of the passing runs is proved.  Liveness
(`FinalizeReturns`, `TextIsDrained`, `LookupReturns`, `FreeReturns`,
`CallReturns`) is out of the prover's reach and stays with TLC.

Not proved as one theorem is the composition: that a paraglob whose splitting is
that of `Glob` and whose bytes are those of `Serializer` finds its plain patterns
and is copied.  The two halves are theorems, of `ParaglobProofs` about any
splitting and any bytes, of `StringsProofs` about these; `MCParaglob` checks them
together.

## Findings

Six runs show a property violated that the repository's own documentation or
comments state; `PROJECT.json` quotes the lines.

* `glob_any`: brackets and escapes are split differently from how `fnmatch`
  reads them, so `get` may miss a match (`\a`, `a[]a]`, `[[:alpha:]]`).
* `serializer_any`: counts and lengths of 256 and more are not read back.
* `cut_data`: bytes cut behind or within the length of a string, or within the
  string, are read beyond their end before anything is compared with it
  (`paraglob_serializer.cpp:38`); empty data are as well (`:63`).
* `get_wildcards`: patterns without meta-words are returned unchecked.
* `load_refused`: a pattern refused at its second word stays in the index and
  makes the serialized form unusable.
* `replace_backlog`: a search that stays in nodes deeper than its chunks are
  long adds chunk after chunk to the backlog (with `abba` the chunks `ab`, `ba`,
  `b`), which is meant to hold no more than the longest pattern.

Three more divergences are not runs; the models are written so that they do not
hide behind a property.

* `ac_trie_search` reads `last_node` before it resets it (`ahocorasick.c:191`): a
  new stream is searched from the node the last one ended in, not from the root.
  `CarefulSearch` is what a client must do about it; without its guard
  `FoundIsExact` is violated.
* `operator==` compares the meta-words (`paraglob.cpp:177`), so paraglobs with
  different patterns may be equal.  Checked and proved is the other direction,
  `SamePatternsAreEqual`.
* `multifast_replace` after `ac_trie_search` or `ac_trie_findnext` of the same
  trie goes on from their `last_node` and `base_position` without the backlog
  that belongs to them (`replace.c:493`).  `Replace` models a trie that is used
  for replacement only.

Two observations, for which no text of the repository says otherwise: `add`
of the empty pattern returns true and stores nothing (`GetFindsAccepted`
excludes it), and `get` before `compile` returns the patterns without
meta-words only.

## Not modelled

* `ac_trie_findnext` called again after it reported no match: no client does it
  and no comment says what it returns.  The model's client sets a text first.
* `ac_trie_settext` before the text that was set has been read to its end (see
  `TrieSearch` above): the model's clients drain a text or stop its search.
* Searching a trie between two calls of `multifast_replace` (see above);
  `multifast_rep_flush` before any `multifast_replace`, and a second
  `ac_trie_finalize`, which allocates the replacement buffers again without
  giving back the old ones: no comment says what they should do.
* The overlapping `memcpy` of `replace.c:437`, which is undefined; the model
  takes a copy from front to back.
* Ranges, equivalence classes and collating symbols in brackets, and what
  `fnmatch` makes of them.
* Zero bytes inside patterns and texts (`fnmatch` and `strlen` end there).
* Growth of the arrays of matched patterns and nominees and the deep copy of
  patterns; allocation does not fail in the model.
* `node_display`, `ac_trie_display`, `str`: output only.
* `src/tools`: a driver and a benchmark that call the library and print.
* Concurrent use: the library is not written for it.

## State of the plan

Every part of the library that keeps state or decides anything is modelled.
What could still be added: a run in which a paraglob's `get` is carried out step
by step by the `Matcher` instead of by `FindAll` (`DrainedWordsOccur` shows that
the answer is the same), and a property of `get` before `compile`, once the
documentation says what it should return.
