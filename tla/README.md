# ICMA in TLA+

ICMA is a Chinese morphological analyzer: a C++ library that cuts a text into
words and tags them with parts of speech, with a maximum entropy model, a
dictionary, or both. These modules model its core: the dictionary and how it is
stored, the search for the best segmentations, the choice of tags, the three
analyses that apply the dictionary to a text, and the calls a client makes. Paths below are relative to the repository (`src/`).

## Inventory

| Part | State | Operations | Used by |
|---|---|---|---|
| Knowledge (`source/src/me/CMA_ME_Knowledge.cc`) | the trie `trie_` (word -> int, negative when disabled), the POS vector of the tagger, the taggers, stop words, black words | loadModel, loadUserDict, loadSystemDict, disableWords, enableWords, isExistWord | all analyzers made for it, WordBound |
| VTrie, StrBasedVTrie (`source/vsynonym/VTrie.h`, `source/src/util/StrBasedVTrie.cpp`) | one block of bytes with offsets, its waste; a cursor with the path read so far | insert, search, find, optimize; firstSearch, search | Knowledge, SegTagger, Combine, FMinCover, MaxPrefix |
| SegTagger (`source/src/me/CMAPOCTagger.cc`) | per call: two arrays of rows of tags, scores, a linked list of N candidates | preProcess, tag_word, seg_sentence, seg_sentence_best, combinePOCToWord | Analyzer |
| POSTagger (`source/src/me/CMAPOSTagger.cc`) | posVec_, the tag sets of the words; default tags | tag_sentence_best, quick_tag_sentence_best, tag_sentence | Analyzer |
| Word combination (`CMA_ME_Analyzer.cc` 550-699) | the offsets of one result, the state of the search | combineRetWithTrie, toCombine, rmEmptyUnits, createStringLexicon | Analyzer |
| FMinCover (`source/src/fmincover/analysis_fmincover.cpp`) | the units found | parseFMinCoverString, divideNormalString, divideDigitLetterString | Analyzer (types 2 to 5) |
| Analyzer (`CMA_ME_Analyzer.cc`) | options, flags, the analysis function, `strBuf_` | setOption, setAnalOption, runWithSentence, runWithString, runWithStream, splitSentence, the n-gram calls | clients |
| Longest prefix analysis (`CMA_ME_Analyzer.cc` 1116-1290) | the units found, words first | analysis_maxprefix | Analyzer (type 100) |
| Sentence (`source/src/sentence.cpp`) | the text, candidates, offsets, tags | setString, getCount, getLexicon, getPOS, getOffset, ... | clients, Analyzer |
| Character types (`source/src/type/`) | tables read from XML, one object per encoding | getCharType, getWordType, getByteCount | all |
| POS table (`source/src/pos_table.cpp`) | codes of tags, a trie of two characters | addPOS, getCodeFromStr, isIndexPOS | Knowledge, Analyzer |
| WordBound (`source/src/word_bound.cc`, `source/binsrc/t_wordbound.cc`) | counts of names, the word disabled | trainModel, isPossibeWord | tools |
| Training, synonyms, corpus tools, command lines | files | | |

How they interact. Everything is a direct call; nothing in the library starts
a thread. A Knowledge is shared: it is changed by loading, by disableWords and
enableWords (which the word-bound tools call in the middle of a run) and read by
every analysis. An Analyzer is meant for one caller, although
`source/test/t_multithread.cc` shares one. A Sentence carries results from call to call.

Which behaviours are hard:

* protocols over many calls: a word loaded, disabled, loaded again; options set
  one after another; a Sentence used twice;
* state read after it went stale: two arrays that are swapped and only partly
  copied, a list threaded through an array whose places are reused, loops that
  set their own index back;
* boundaries: the last word, the last character, a space between or inside
  words, one candidate only;
* shared state without locks (the factory, the type cache, `strBuf_`, the POS table).

There is no persistence to recover, there are no messages and no timeouts.
What each part must get right, in a phrase: Knowledge, that no two words share a slot and
that it acts as a map; SegTagger, that the beam loses no better tagging and no
character; Combine, that the longest match is found and no word is lost on the way; FMinCover,
that every word is found, and with `noOverlap` a cut; WordBound, that each word
is analysed with exactly itself missing; Analyzer and Sentence, that what a
client reads belongs to the last call; VTrie, that it is a map although it moves its nodes; POSTagger, that tags
and words stay together; POSTable, that a code keeps its tag. `PROJECT.json` lists the hazards
by line, each with the properties about it or the reason why there is none.

## Modules

| Module | Models | State and actions |
|---|---|---|
| `Lexicon` | what Knowledge promises: a map from words to a status and a set of tags, which the words that came before the POS model have in common (`joint`) | abstract; actions StartTagging, AddToKnown, AddNew, Disable, Enable |
| `Knowledge` | loadStatModel, loadPOSModel, loadModel, loadSystemDict and loadUserDict with its chain of files, in any order; appendWordPOS, disableWords, enableWords, isExistWord | `trie`, `posVec`, `posT` (a POS tagger exists) and `segT` are the members of these names; one action per call, one per line of a file |
| `TopN` | what a list of candidates promises: the N best units, sorted and stable | abstract; Clear and Offer |
| `NBest` | insertCandidate | `unit` and `previous` are the array `candidates`; InsertHead, InsertLast, and the walk (StartWalk, Walk, Place) step by step |
| `SegSentence` | seg_sentence with preProcess, tag_word, the copying of rows and combinePOCToWord | `rows[1]`, `rows[2]` are `_array1`, `_array2`, `h0` says which one holds the hypotheses, `past` that preProcess wrote past a row; the candidates are an instance of NBest |
| `WordBound` | trainModel, isPossibeWord, and isPossibleWord of t_wordbound | extends Knowledge, whose variables are the shared dictionary; the steps of the training loop are actions |
| `Combine` | combineRetWithTrie, toCombine, rmEmptyUnits, createStringLexicon | `segment` holds the offsets; one action per branch of the loop |
| `POSTagger` | the rest of analysis_mmmodel: the strings of all results, tag_sentence_best, getWordType | `words`, `metas` and `pos` are `segment_`, `candMetas_` and `pos_` of the Sentence, with labels that say which result and unit an entry is for; one action per way a word gets its tag |
| `WordMap` | what the trie promises: a map from words to numbers that also tells whether a longer word is known | abstract; insert(key, number), to which each insertion of VTrie is tied by its own key and number |
| `VTrie` | insert with all it calls, optimize, search, find | `trie.nodes` maps an offset in `data_` to the node there, `end`, `wasted` and `size` are `endPtr_`, `wastedBytes_` and `curDataSize_`; one action per way an insertion ends |
| `Session` | setOption, setKnowledge, setString, runWithSentence, runWithStream and the getters of a Sentence | `sent` holds the lists of a Sentence, whose entries are labels of the run that put them there; `stream` is the state of runWithStream |
| `MaxPrefix` | analysis_maxprefix | `segs`, `dicSegNum` are `bestSegSeq`, `dic_segnum`; one action per unit or character taken |
| `POSTable` | POSTable and DCTrie: loadPOSModel, addPOS, getCodeFromStr, the flags | `table` holds the members; the loops of loadPOSModel and of the listing run one tag a step |
| `FMinCover` | setOption (analysis type), setAnalOption, parseFMinCoverString and what it calls, createWordOffset | `analOption` holds the flags; one action per character read, the division of one run is a function |
| `NBestProofs`, `POSTableProofs`, `WordBoundProofs`, `SegSentenceProofs`, `SessionProofs`, `POSTaggerProofs`, `MaxPrefixProofs`, `VTrieProofs` | theorems about the module each is named after; WordBoundProofs holds those about Knowledge too, POSTaggerProofs those about Combine, MaxPrefixProofs those about FMinCover | |

`MC...` modules hold the instances, `Mut...` operators are plausible
bugs used to see that each property can fail. The modules meet in this way:
SegSentence instantiates NBest, which implements TopN; WordBound extends
Knowledge, which implements Lexicon; VTrie implements WordMap, the map that
Knowledge takes the trie for. POSTagger extends Combine: together they are
analysis_mmmodel behind the segmentation. MaxPrefix extends FMinCover: an
option decides which of the two runs. SegSentence's results, with spaces left out or
left in, are the inputs of Combine; how many units each analysis gives is the
input of Session.

### What is abstracted

* Words and tags are model values in Knowledge and WordBound, sequences of
  characters in Combine and FMinCover. The trie is a map, and a prefix exists
  when a word (disabled or not) extends it.
* A probability is a positive integer, so products are exact and ties are real
  ties. Floating point, and the underflow of long products, are not modelled.
  The model's outcomes at a position do not depend on the tags chosen before:
  the code's context holds characters and types only.
* Character types are given with the text; that of a run's last character
  decides, as in the code. Whether a character is a space depends on it alone:
  getCharType asks isSpace before it looks at a neighbour (`cma_ctype.cpp:632`),
  and no configuration the library comes with has a rule that makes a space of another character.
* In VTrie the block is a map from offsets to nodes with sizes in bytes, so that
  overlapping nodes are seen; the bytes inside a node are not laid out.
* In POSTagger the model may find any of a word's tags best, or none of them;
  the context it was asked with is kept to be looked at.
* In FMinCover and MaxPrefix a character has a number of bytes (1 to 4), for the tests that count them.
* A Knowledge line whose word has no slot writes to memory behind `posVec_`; the model loses
  what was written, which is what the next push_back makes of it when the program goes on.
* A key of VTrie has at most 255 bytes (SizesAssumption): insert stores a path's length in one byte
  without a check (`VTrie.h:259`), and a longer key is not in the model.
* In Session an analysis is how many units each of its results has, and a list
  read behind its end gives a value that is no unit's.
* In WordBound, which names an analysis yields is the operator `Names(w, S)` of
  the word and of the enabled words. The counts and the cut-offs are the code's.
* `Names` apart, everything the modelled functions decide is decided by the model.
* Deliberate limits: `assert` is taken to be compiled in (a second loadModel
  stops); the growth of buffers is left out; of preProcess's write of
  the tag behind a word that ends the sentence, one place past the row, the model
  keeps that it happened (`past`), and not what it does to the memory there; two threads at work on one object are a
  data race and are left out.

## Runs

| Run | What it shows |
|---|---|
| knowledge | Every order of loading the models, with and without POS model, and up to three dictionaries, before or after the models, and of disabling and enabling any sets of words keeps slots in range (SlotsInRange) and distinct (SlotsDistinct), except for words loaded before the POS model, which meet in slot 1; every step is one of Lexicon (ImplementsLexicon) |
| nbest | The links of the list thread every candidate once (ChainComplete); the list is the three best units, sorted and stable (KeepsTheBest) |
| beam | With three hypotheses, results are the most probable of all taggings, with their own scores (NBestExact); overlapping, touching and final dictionary words stay whole (WordsStayWhole); no character is lost (SegmentsCover); the function used for one result finds the first of several (OneResultIsBest); the analysis ends, every walk along the list included (Terminates) |
| word_bound | During training exactly the word analysed is hidden, and while questions are asked exactly the words asked about (OnlyTheWordIsHidden); the model written is what a count over all lines gives (ModelIsExact); training ends (TrainingEnds) |
| mmmodel | The one pass with steps back gives the longest match at each place, and closing the holes loses nothing (LongestMatch); words and tags of all results stay in step (TagsInStep), tags fit their words (TagsAllowed), the model is asked with the history of the same result (HistoryOfResult); combining and tagging end (AllTagged) |
| best_tag | Of a word's tags the second is chosen, whichever the model finds best (violation) |
| maxprefix | Dictionary approach: every character but spaces is covered and no unit is given twice (Covered), every preferred dictionary word is found and nothing else (EveryWordFound), `noOverlap` gives a cut (CutWithoutOverlap), offsets follow the text (OffsetsFollowText). Longest prefix analysis: the leftmost longest entries of the trie, disabled ones included (LongestEntriesFirst), the rest, of which only a Chinese character behind one of less than three bytes may be lost (RestIsRest), in pairs of Chinese characters (ChineseToBigram), and both passes advance although one goes back (PassesAdvance) |
| fmincover_overlap | After analysis type 4, type 5 gives overlapping units (violation) |
| vtrie | Through growing, splitting, rebuilding, moving and optimize the nodes form a tree and share no byte (NodesApart), the block holds them (TypeOK), waste is never counted too high (WasteSound), the two ways to look up agree and know whether a word goes on (SearchExact), and every insertion changes the number of its own key, known or new, and of no other (ImplementsMap) |
| session | After any options and runs on one Sentence the getters of units answer for the last run (AnswersForLastRun), those of tags and their codes too, or, where the last run did not tag, getPOS answers with the code of the last run on the same string that did (TagsForLastRun); runWithStream writes the lines of its file, and the line before again for one without characters (LinesKept) |
| session_offsets | After a run of the dictionary approach, the offsets of another analysis are read from a list it did not write (violation) |
| postable | A code stays the code of its tag, and two tags have one code exactly if they share a cell (CodesKept); a tag the table had at the last reset has that value or was listed since, a later one is TRUE (FlagsSinceReset); names, flags and cells agree (TypeOK), whatever is loaded, asked for and reset |

The invariants of NBest's types are part of beam's TypeOK.

LongestMatch is to be read with its definition: a word counts when another one
extends it. At a leaf of the trie the code falls back to the last word before
it (`CMA_ME_Analyzer.cc:671`), so a word that nothing extends is joined only if
the tagger gave it whole. No document says whether that is meant.

### Bounds, and why they are enough

* knowledge: three words, two tags, `MaxLoads = 3` dictionaries, chains of up to two files of
  up to three lines. A slot is lost or shared by two words; a word gets its second slot by load,
  disable, load; words meet in slot 1 when one dictionary comes before the POS model and one after it.
  The third word and load let something else happen in between. 38720 states.
* nbest: `N = 3` is the least size at which a walk passes a middle candidate,
  and any number of units is offered; scores from 1 to 3 and two hypotheses per
  score give ties that can be told apart.
* beam: a beam of 3 for 4 characters drops prefixes from the third
  character on; the family Skipping puts a dictionary word between two swaps
  of the arrays, with swaps before and after it; the family Matched has words
  that overlap, touch and end the sentence, a number, and up to two spaces. `MinPreWordLen = 4` is the
  code's value, so words of 3, 4 and 6 characters are below, at and above it.
  The analyzer asks for one result in another way, so a beam of one does not occur.
* word_bound: all dictionaries of four lines over three words and empty lines,
  lists with empty dictionaries and files that are missing, and lines that begin with a space, whose word is empty (`Blank`). `MinCount = 2` instead of 5: two
  lines of three must not be enough and three must be.
* mmmodel: all dictionaries of at most three of six entries that are prefixes of one
  another, each with at most one hidden, and all cuts of texts up to five characters:
  a step back happens after up to three words. One text has one or two further results;
  words have no, one, two and three tags, and types that come from a digit at the end.
* maxprefix: all sequences of option calls are reached (the flags only grow,
  mergeAlphaDigit toggles), texts of five and six characters for clusters of
  words up to four long, all texts of up to three characters of ten kinds for the boundaries
  between runs, of four digits and letters for mixed runs, and of wide marks. One word is
  disabled. Texts of four and five characters that have one, two and three bytes each in every mix (`Widths`)
  are enough for a pair of narrow characters with others before and behind it.
* vtrie: six codes of 256, and a block with `MIN_REMAIN = 48`, `INCRE_SIZE = 90`
  and a tenth as the share of waste, instead of 3072, 204800 and three tenths, so that growth and optimize
  happen within five insertions. That the constants are large enough for a
  key of the greatest length is an assumption (SizesAssumption) which the
  code's values meet: 3073 is at least 4 + 5 (255 + 256). Eight words reach every action.
* session: three runs on one Sentence, so that one stands between two others; texts with
  several results, with fewer, and with none; results for one, two or all
  (0, which becomes 20: no text has as many). Files with empty lines at either end, and with lines
  that have bytes but no characters (a byte order mark alone, a leading zero byte) first, between others, twice and last.
* postable: six tags in three cells, three files, and up to five entries; room for three at
  first, so that the arrays grow.

### Fairness

The code is a loop of one thread in each of these calls, and nothing it waits
for can be withheld: a call that has begun takes its next step. Hence weak
fairness of the loop's steps and of nothing else: `WF_vars(Next)` in SegSentence and
Combine, `WF_allVars(TrainNext)` in WordBound (training; not the questions asked later), and
`WF_allVars(TagNext)` in POSTagger, whose TagNext is the loop. The other modules state safety only. Where a run says `CHECK_DEADLOCK FALSE` the call returns
and the model stops.

## Proofs

Eight modules hold theorems, each for every value of the constants: all texts,
dictionaries, files, tags and sizes the assumptions of a module allow. Each
theorem that a state is always right has its inductive invariant, with the three
facts that it holds at first, that every action keeps it (one lemma or step per
action) and that it implies the property.

| Module | Theorems | Inductive invariant, and why the property alone is not one |
|---|---|---|
| `WordBoundProofs`, the dictionary | DictionaryTypes (TypeOK), SlotsSafe (SlotsInRange), SlotsNeverShared (SlotsDistinct), KnowledgeImplementsLexicon | TypeOK, SlotsInRange, SlotsDistinct together. A word loaded before the POS model carries data 1 into a vector without a slot 1, and the first new word gets that slot; that such words all carry 1, and that every other number is the place of a push_back, is what each of the two needs of the other |
| `NBestProofs` | TypeCorrect, ChainAlwaysComplete (ChainComplete), ImplementsTopN (KeepsTheBest) | TypeOK, Threaded, Sorted, Searching. An insertion changes the links where its walk has come to, so the invariant says where that is and that scores fall along the links; only then may the walk stop at the first candidate that is not worse |
| `SegSentenceProofs` | TypeCorrect (TypeOK), ResultsCover (SegmentsCover), FoundWordsStayWhole (WordsStayWhole) | TypeOK, FoundApart, RowsAgree, ListMade, SegmentsMade. `_array1` and `_array2` are swapped and copied only up to `i`: every row of both keeps the tags of preProcess and is as preProcess left it from `i` on |
| `SegSentenceProofs`, the beam | AlwaysNBestExact (NBestExact), OneResultAlwaysBest (OneResultIsBest) | Beam and ListBest, on top of the former. NBestExact speaks of the end; Beam says at each character that the hypotheses are different, in order, scored by the product up to there, and that every tagging of the sentence begins as one of them or has N of them at least as good beside it. ListBest says that the candidates are the best of the extensions offered so far |
| `POSTableProofs` | TypeCorrect (TypeOK), CodesAlwaysKept (CodesKept), FlagsAlwaysSinceReset (FlagsSinceReset) | Fits, NamesAgree, FlagsAgree, AskedOK, GivenOK. The properties speak of tags asked for; what is kept is a fact about all cells: each in use points to an entry of its own, with the right flag |
| `WordBoundProofs` | HidesTheWordOnly (OnlyTheWordIsHidden), TrainsExactly (ModelIsExact) | Types, Hidden, Progress, Counts, Final. Hidden says at every step how the trie differs from the one loaded, Progress which lines were trained, so that Counts compares each count with the set of lines it counts |
| `SessionProofs` | AlwaysForLastRun (AnswersForLastRun), TagsStayWithUnits (TagsForLastRun), LinesStayApart (LinesKept) | TypesOK, ResultsOK, StreamOK. The lists of all candidates are one list and are read by the places of each: ResultsOK says what stands behind each place. The code of a place is that of the last run on the string to tag it (CodeOf), which holds of all morphemes ever listed and not only of those the last run shows; the Sentence of runWithStream holds the last line with characters (LineHeld) |
| `POSTaggerProofs` | TagsAlwaysInStep (TagsInStep), TagsAlwaysAllowed (TagsAllowed), AsksWithinResult (HistoryOfResult) | CombineOK, ListsOK, TagsOK, TagsAllowed. There are as many tags as words passed, each with its word's label, and the combining stays in the text, so that every word listed is the string of its unit |
| `POSTaggerProofs`, combining | AlwaysLongestMatch (LongestMatch) | UnitsOK, CombineMatch, PackMatch, LexiconMatch, one for each phase. They say that the units not yet read, chained one to the next (Links), give what is still expected. In a search, the node is the string of the cuts read since `begin`, some entry goes on after it, and `lastWordEnd` is the last cut that ended a longer word; so a step back loses no match. In packing, the units moved and those still to be moved are apart, with holes between them |
| `MaxPrefixProofs`, longest prefix | AlwaysLongestFirst (LongestEntriesFirst), AlwaysAdvance (PassesAdvance), AlwaysRestIsRest (RestIsRest), AlwaysBigrams (ChineseToBigram) | WordsOK and RestOK: up to `begin` every entry is inside a word found, and every character of the gaps inside a unit. The second pass goes back by a character at times, so what RestOK says is about the units up to there |
| `MaxPrefixProofs`, dictionary approach | AlwaysCovered (Covered), AlwaysOffsetsFollow (OffsetsFollowText), AlwaysEveryWord (EveryWordFound), AlwaysCutWithoutOverlap (CutWithoutOverlap) | ParseOK: the units so far are those of whole runs, a run is of one kind, and the offsets given are ordered as their units. FoundOK: the units of other runs are found words or single characters, none is missing where they may overlap, and they are apart where they may not |
| `VTrieProofs` | TypeCorrect (TypeOK), NodesStayApart (NodesApart), WasteAlwaysSound (WasteSound) | IInv: no block was allocated yet (Unborn), or some characters `pre` lead to each node with which the trie is Sound. Sound says that slots lead to nodes whose first character belongs there (Placed), that no two lead to one (Once), that `pre` and a path together are no longer than a word (Spells), that no smaller modulus would tell a node's children apart (Tight), and that nodes are apart and with the waste within the block (Fits). NodesApart alone bounds no node, so it cannot tell that the room ensureDataLength made is enough |

HistoryOfResult and PassesAdvance are action properties and follow from the same invariants.

A tagging is left out of the beam only when N hypotheses are at least as good.
That stays so: a weight depends on the character alone, so whatever the tagging
goes on with, its N rivals can go on with too and stay ahead. If all N of these
extensions were kept, they are the whole list (lemma Pigeons); if one was not, then
all units kept are at least as good as that one (BestOf in `NBestProofs`: the units kept
are N of those offered, or all, and none left out is better). Characters that
preProcess tagged multiply every score by one. The weights are natural numbers in
the model, so the theorem is about exact products; the code's are doubles.

Two are refinements. `KnowledgeImplementsLexicon` maps a word to its status by the
sign of its int and to its tags through its slot; AppendRefines needs SlotsDistinct,
for otherwise a line of one word would give tags to another. `ImplementsTopN`
maps the array to the sequence its links thread; the steps of a walk stutter, and the last
is an insertion in front of the first unit that is worse, which Sorted and
Searching show to be the place the walk stopped at.

An insertion into the trie replaces one node, or none, by one to three others: its
own with the data set, a leaf that grows where it is or moves, a node with one leaf
more, one built again with a larger modulus, or a path cut in two with a leaf beside
it. Each is shown to be a Graft, for which soundness is shown once (GraftSound):
all slots of the old node lead on from the new ones, what moved is redirected, and
the new nodes fit in the old node's place and behind the end. That a search for a word stops
where the insertion takes it to (WalkStops) is a tail recursion whose offsets need not grow
with the depth; what grows is the number of characters used. A node built again has at
most a slot per code and a path of a word at most, which is why
ensureDataLength's MIN_REMAIN bytes are enough for it and the leaf (SizesAssumption).
optimize moves every node: the bytes before a node, its ancestors' and its earlier
siblings', are what NewPlace gives it, so that subtrees are laid out one behind
the other (LayOut), and the size of all nodes is at most that of the smaller block.

### What the theorems rest on

* The ASSUMEs of the modules, which every run checks for its constants: that
  texts, cuts and files are sequences of what they are made of, a file has a line, that lists of
  words are sets of words, that sizes are natural numbers. What they say of
  values comes from the code: cuts are what the tagger gives, disabled words
  are not also enabled, a single text has one result in the dictionary
  approach and the longest prefix analysis (`CMA_ME_Analyzer.cc:1077`).
* VTrie's theorems have the sizes of the code: SizesAssumption relates MIN_REMAIN and INCRE_SIZE to
  the longest word and the number of codes; with 3072, 204800, 255 and 256 it holds.
* FoundWordsStayWhole has the hypothesis WordsBeginVisibly: no dictionary word has a space
  at its beginning or end; AlwaysLongestMatch has it for the beginning, since a search that
  stops at a space drops it. Lines are read in tokens cut at spaces
  (`CMA_ME_Knowledge.cc:475`); the exception would be a character added
  to the spaces by a configuration.

### How recursion is treated

What the folds and recursive functions of the models compute (FlattenSeq, the bytes up to a position, combinePOCToWord,
the words joined, what is expected from a cut on, the Pieces of a run) is needed for sequences of any length, and the library's induction
theorems cannot be used, since they take an operator. Each proof takes the
least natural number for which the claim fails instead (lemma LeastElement,
from the well-foundedness of the natural numbers), and shows that there is none. That a recursive
function exists is shown in the same way first.

### Only model-checked

* Liveness: TrainingEnds, Terminates, AllTagged. Fairness and
  ENABLED are beyond the prover.
* VTrie: SearchExact and ImplementsMap, what a look up gives for each word. They need, for all words at once,
  what the characters from the root to a node spell; the proofs bound these characters only
  (Spells) and say nothing of the data stored at their ends.

## What the violations show

* `BestTag`: `CMAPOSTagger.cc:518` stores the value of `index( ... ) >= 0` where
  the comment at line 511 says "find the best pos".
* `OffsetsForLastRun`: `CMA_ME_Analyzer.cc:1064` turns listed offsets on in a
  Sentence and nothing turns them off; `sentence.h:175` promises the offset.
* `WithoutAnyOverlap`: setOption never clears a flag, so `noOverlap` can be set
  together with `doUnigram`.

Other disagreements met on the way, which the modules follow the code in:

* `blackWords_` is filled and never read, though `CMA_ME_Knowledge.h:254` says
  its words are not added to the dictionary.
* The comment at `CMAPOCTagger.cc:325` promises to remove white spaces; only
  those tagged B are (343).
* `t_wordbound.cc:46` tests `empty() == true` where `cmac_run.cc:65` and
  `word_bound.cc:133` test the opposite: words asked about stay hidden.
* A unit in which the search stops at a space is dropped with all its characters
  (`CMA_ME_Analyzer.cc:659`), though only white space is said to be ignored.
* analysis_maxprefix takes three bytes for the sign of a second Chinese
  character ("each Chinese character length >=3", `CMA_ME_Analyzer.cc:1227`). GB2312, the default
  (`knowledge.h:98`), GB18030 and Big5 have Chinese characters of two bytes: the third of three such
  characters that stand alone is lost, and neighbours are not pairs. RestIsRest and
  ChineseToBigram say where this may happen and that it happens nowhere else.
* analysis_maxprefix takes every entry of the trie for a word, also a disabled one
  (`CMA_ME_Analyzer.cc:1173`), though `knowledge.h:151` says that disableWords disables the specific words
  in the dictionary. LongestEntriesFirst is therefore about entries.
* `analyzer.h:31` loads the dictionaries before the statistical model. With a POS model
  among what is loaded later (loadPOSModel), words of such dictionaries keep data 1: they have no tags until another word is
  added, share slot 1 with that word and its tags afterwards, and until then appendWordPOS and the tagger index
  `posVec_` behind its end (`CMA_ME_Knowledge.cc:510`, `CMAPOSTagger.cc:485`). SlotsInRange, SlotsDistinct and Lexicon
  name these words, and hold of all others.
* getPOS has "-1 for non POS available" (`sentence.h:162`), but after a run without tagging it answers with
  the code an earlier run on the same string gave, since runWithSentence adds morphemes and only setString
  clears them (`CMA_ME_Analyzer.cc:171`). TagsForLastRun says which run's code it is.
* runWithStream writes the units of the line before again for a line that has bytes but no characters: the analysis
  returns early (`CMA_ME_Analyzer.cc:721`) and leaves the candidates in the Sentence, which no line clears. LinesKept says so.
* The POS table is "from case-insensitive string to index code" (`pos_table.h:164`), but a tag is stored by its first two
  letters (`DCTrie.cpp:44`): tags that agree in them share a code. A question for the code of an unknown tag adds it,
  where `pos_table.h:63` says -1. CodesKept says exactly which tags share a code and that codes stay.
* A tag that is added after resetIndexPOSList( false ) is indexed (`pos_table.cpp:62`), though the reset is of "all the pos index
  Information" (`pos_table.h:133`, `analyzer.h:118`). FlagsSinceReset tells the two kinds of tags apart.
* preProcess writes the tag of the character behind a word without a look at the length (`CMAPOCTagger.cc:476`): one
  place past the row when the word ends the sentence. TypeOK of SegSentence says that this write happens then, and that
  no other one leaves a row.
* The words in front of a result's first one in the list are those of the result before, and the model is asked with the last of them
  as left neighbour (`CMAPOSTagger.cc:107`). HistoryOfResult is about tags and the right neighbour, which are of the same result.
* `POSTable::size` (`pos_table.cpp:89`) returns the room of an array, where
  `pos_table.h:92` says the number of tags.
* NBEST 0 becomes 20 (`CMA_ME_Analyzer.cc:714`); `analyzer.h:176` says a value
  less than 1 has no effect.
* removeDuplicatedSegment removes nothing (`CMA_ME_Analyzer.cc:94`).

## Not modelled

Third-party code (the maximum entropy library, OpenCC, TinyXML, libmicrohttpd),
which is most of the lines of the repository, the data files, the documentation,
demos and command lines; DictB, which is
compiled only without ON_DEV and selected by no analysis type. Parts that are
not modelled yet are in the plan.

Left out of modelled parts: data races (an Analyzer shared by threads writes to
one `strBuf_`, `CMA_ME_Analyzer.cc:306`; the POS table grows during analyses;
the factory makes its instance without a lock, `cma_factory.cpp:18`), since what
they yield is up to the compiler; reads of memory that was never written (a new
Sentence with a byte order mark alone, `CMA_ME_Analyzer.cc:170`; the tags asked
for after a longest prefix analysis, which never tags; find on a trie without
a block, `VTrie.h:458`; pointers to tags kept across a growth of the table,
`pos_table.cpp:83`); a second loadModel without asserts (`CMA_ME_Knowledge.cc:62`);
the tagging with N results (`CMAPOSTagger.cc` 278, 347) and tag_file
(`CMAPOCTagger.cc:646`), which no analysis calls; saving and loading a trie: loading clears before
it opens the file (`VTrie.h:769`).

## Plan

Done: the dictionary, the segmentation search, the tagging, the two dictionary
analyses, the trie, the client's calls, the POS table. What is left, the most important first.

A theorem worth proving: that VTrie implements WordMap, from the same invariant with the
data of each word added to it.

Modules:

1. `DictCodec`: encodeSystemDict and readEncryptLine as inverse functions modulo 2^8.
2. `CType`: the types given by the rules and neighbours, the splitting of bytes into characters.
3. `SegBest`: seg_sentence_best with BACK_FIX_END_TAG, against the best tagging.
4. `Paragraph`: splitSentence, splitToOneGram and getNGramResultImpl over one text: no
   character but spaces is lost, and the n-grams are exactly those of the fragments.
5. `StringArray`: one buffer of strings as a sequence, its stealing copy.
6. Training and synonyms, if the modules above leave room.

They join the present runs where their state spaces allow it (CType with
POSTagger, SegBest with SegSentence).
