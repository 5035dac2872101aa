------------------------------- MODULE Session -------------------------------
(***************************************************************************)
(* The calls a program makes on an Analyzer and on the Sentence that takes *)
(* the results: setOption, setKnowledge, setString, runWithSentence and    *)
(* runWithStream of source/src/me/CMA_ME_Analyzer.cc, and                  *)
(* source/src/sentence.cpp.                                                *)
(*                                                                         *)
(* A Sentence is a handful of parallel lists that different calls clear,   *)
(* append to and index: the units of all candidates one after the other,   *)
(* their tags, the places where each candidate begins in them, the word    *)
(* offsets, and the lists of morphemes.  What an analysis finds is left to *)
(* other modules; here it is how many units it yields.  Each entry of a    *)
(* list is a label, << run, candidate, unit >>, that tells which run put   *)
(* it there, so that a getter that answers for another run, or for none,   *)
(* is seen.  Candidates and units count from 1 here.                       *)
(***************************************************************************)
EXTENDS Integers, Sequences, FiniteSetsExt, SequencesExt

CONSTANTS
  Texts,    (* The texts: [mm, dict, prefix], the units of each candidate  *)
            (* the three analyses give; none is << >>: nothing is left of  *)
            (* such a text when its characters are extracted.  The         *)
            (* dictionary approach gives one candidate.                    *)
  Files,    (* The files: sequences of texts, a line each.                *)
  NoText,   (* An empty line, and the string of a new Sentence.            *)
  MaxRuns   (* Bound: the runs on one Sentence.                            *)

Types == { "mm", "dict", "prefix" }

(* A text without characters is a byte order mark alone or, in a file,     *)
(* begins with a zero byte.                                                *)
HasChars(t) == t.mm # << >>
ASSUME TextsAssumption ==
  \A t \in Texts : /\ t # NoText /\ t.mm \in Seq(Nat) /\ t.dict \in Seq(Nat) /\ t.prefix \in Seq(Nat)
                   /\ HasChars(t) <=> t.dict # << >>
                   /\ HasChars(t) <=> t.prefix # << >>
                   /\ Len(t.dict) <= 1
ASSUME FilesAssumption ==
  \A f \in Files : f \in Seq(Texts \cup { NoText }) /\ f # << >>

VARIABLES
  options,  (* type, nbest and pos.                                        *)
  sent,     (* The Sentence.                                               *)
  run,      (* The number of the last run on it.                           *)
  last,     (* What the getters should answer for: the last run and its    *)
            (* options, with the runs before it on the same string; or     *)
            (* None when setString came after it.                          *)
  stream    (* runWithStream: the file, the lines read, its own Sentence   *)
            (* and the lines written; or None.                             *)

vars == << options, sent, run, last, stream >>

None == [run |-> 0]
Garbage == << 0, 0, 0 >>

Sentence == [raw |-> NoText, metas |-> << >>, segment |-> << >>, pos |-> << >>, wordOffset |-> << >>,
             candidates |-> << >>, incrementedWordOffset |-> TRUE, reserved |-> FALSE]

Init ==
  /\ options = [type |-> "mm", nbest |-> 1, pos |-> TRUE]
  /\ sent = Sentence
  /\ run = 0
  /\ last = None
  /\ stream = None
-----------------------------------------------------------------------------
(* The getters.  A list that is indexed behind its end gives garbage. *)

At(list, k) == IF k \in 1 .. Len(list) THEN list[k] ELSE Garbage

getListSize(s) == Len(s.metas)

(* Also asked for candidate 1 when there is none: clear keeps the memory,  *)
(* and the first candidate of any run before began at 0.                   *)
getCount(s, i) ==
  LET end == IF i + 1 > getListSize(s) THEN Len(s.segment) ELSE s.metas[i + 1].seg
  IN end - IF s.metas = << >> THEN 0 ELSE s.metas[i].seg

getLexicon(s, i, j) == At(s.segment, s.metas[i].seg + j)
getStrPOS(s, i, j) == At(s.pos, s.metas[i].pos + j)
getPOS(s, i, j) == At(At(s.candidates, i), j)
getOffset(s, i, j) ==
  IF s.incrementedWordOffset THEN << "number", j - 1 >> ELSE At(s.wordOffset, s.metas[i].offset + j)
-----------------------------------------------------------------------------
(* What the three analyses leave in a Sentence.  The rest of what it held  *)
(* before stays.                                                           *)

Labels(r, i, count) == [j \in 1 .. count |-> << r, i, j >>]

AllLabels(r, counts) == FlattenSeq([i \in 1 .. Len(counts) |-> Labels(r, i, counts[i])])

Before(counts, i) == Len(AllLabels(0, SubSeq(counts, 1, i - 1)))

(* Every candidate's tags begin where its units begin. *)
MutMetas(counts, tagged) ==
  [i \in 1 .. Len(counts) |-> [seg |-> Before(counts, i), offset |-> 0, pos |-> 0]]

Metas(counts, tagged) ==
  [i \in 1 .. Len(counts) |-> [seg |-> Before(counts, i), offset |-> 0,
                               pos |-> IF tagged THEN Before(counts, i) ELSE 0]]

NBest(n) == IF n <= 0 THEN 20 ELSE n

analysis_mmmodel(s, t, n, tagPOS, r) ==
  LET counts == SubSeq(t.mm, 1, Min({ NBest(n), Len(t.mm) }))
  IN IF t.mm = << >> THEN s
     ELSE [s EXCEPT !.metas = Metas(counts, tagPOS), !.reserved = TRUE,
                    !.segment = AllLabels(r, counts),
                    !.pos = IF tagPOS THEN AllLabels(r, counts) ELSE @]

(* Says that offsets are listed before it looks at the text. *)
analysis_fmincover(s0, t, tagPOS, r) ==
  LET s == [s0 EXCEPT !.incrementedWordOffset = FALSE]
  IN IF t.dict = << >> THEN s
     ELSE [s EXCEPT !.metas = Metas(t.dict, tagPOS), !.reserved = TRUE,
                    !.segment = AllLabels(r, t.dict),
                    !.wordOffset = AllLabels(r, t.dict),
                    !.pos = IF tagPOS THEN AllLabels(r, t.dict) ELSE @]

(* Never tags. *)
analysis_maxprefix(s, t, r) ==
  IF t.prefix = << >> THEN s
  ELSE [s EXCEPT !.metas = Metas(t.prefix, FALSE), !.reserved = TRUE,
                 !.segment = AllLabels(r, t.prefix)]

analysis(s, t, n, r) ==
  CASE options.type = "mm"     -> analysis_mmmodel(s, t, n, options.pos, r)
    [] options.type = "dict"   -> analysis_fmincover(s, t, options.pos, r)
    [] options.type = "prefix" -> analysis_maxprefix(s, t, r)

(***************************************************************************)
(* The lists of morphemes.  For each candidate one more list is appended,  *)
(* and the list with the candidate's number, whatever is in it, gets as    *)
(* many new morphemes as the candidate has units; the first ones take the  *)
(* codes of the tags.                                                      *)
(***************************************************************************)
Untagged(count) == [j \in 1 .. count |-> << -1 >>]

AddMorphemes(s, i) ==
  LET count == getCount(s, i)
      list == Append(s.candidates, << >>)[i] \o Untagged(count)
      coded == [j \in 1 .. Len(list) |-> IF options.pos /\ j <= count THEN getStrPOS(s, i, j) ELSE list[j]]
  IN [s EXCEPT !.candidates = [Append(@, << >>) EXCEPT ![i] = coded]]

(* At least one candidate is assumed. *)
AddAllMorphemes(s) ==
  LET size == IF getListSize(s) <= 1 THEN 1 ELSE getListSize(s)
      upTo[i \in 0 .. size] == IF i = 0 THEN s ELSE AddMorphemes(upTo[i - 1], i)
  IN upTo[size]
-----------------------------------------------------------------------------
Idle == stream = None

(* The units a run on t should give; 0 asks for the 20 best results. *)
Counts(t, type, n) ==
  CASE type = "mm"     -> SubSeq(t.mm, 1, Min({ IF n = 0 THEN 20 ELSE n, Len(t.mm) }))
    [] type = "dict"   -> t.dict
    [] type = "prefix" -> t.prefix

(* Flags of the analysis types 2, 4 and 5 are in module FMinCover. *)
setOption ==
  /\ Idle
  /\ \E type \in Types, nbest \in 0 .. 2, pos \in BOOLEAN :
       options' = [type |-> type, nbest |-> nbest, pos |-> pos]
  /\ UNCHANGED << sent, run, last, stream >>

(* The knowledge may have no tags. *)
setKnowledge ==
  /\ Idle
  /\ options' = [options EXCEPT !.pos = FALSE]
  /\ UNCHANGED << sent, run, last, stream >>

(* The places of the candidates stay. *)
MutSetString(s, t) == [s EXCEPT !.raw = t, !.candidates = << >>, !.segment = << >>, !.pos = << >>,
                                !.wordOffset = << >>]
SetString(s, t) == [s EXCEPT !.raw = t, !.candidates = << >>, !.segment = << >>, !.pos = << >>,
                             !.metas = << >>, !.wordOffset = << >>]

setString(t) ==
  /\ Idle
  /\ sent' = SetString(sent, t)
  /\ last' = None
  /\ UNCHANGED << options, run, stream >>

RunsOnString ==
  IF last = None THEN << >>
  ELSE Append(last.before, [run |-> last.run, type |-> last.type, pos |-> last.pos, counts |-> last.counts])

(* Without characters the count of no candidate is asked for, which is     *)
(* defined only in a Sentence that had one before.                         *)
runWithSentence ==
  /\ Idle
  /\ run < MaxRuns
  /\ sent.raw # NoText
  /\ HasChars(sent.raw) \/ sent.reserved
  /\ sent' = AddAllMorphemes(analysis(sent, sent.raw, options.nbest, run + 1))
  /\ run' = run + 1
  /\ last' = [run |-> run + 1, type |-> options.type, pos |-> options.pos,
               counts |-> Counts(sent.raw, options.type, options.nbest), before |-> RunsOnString]
  /\ UNCHANGED << options, stream >>
-----------------------------------------------------------------------------
(* runWithStream: one Sentence for all lines, which are not set as its     *)
(* string, and one candidate.  Labels carry the line instead of the run.   *)
(* Bound: files are read before the first string is set.                   *)

OpenStream(f) ==
  /\ Idle
  /\ sent = Sentence
  /\ stream' = [run |-> -1, file |-> f, read |-> 0, sent |-> Sentence, out |-> << << >> >>]
  /\ UNCHANGED << options, sent, run, last >>

Reading == stream.run = -1

remains == stream.read + 1 < Len(stream.file)

(* A line is ended also behind the last one. *)
MutEndl(out) == Append(out, << >>)
Endl(out) == IF remains THEN Append(out, << >>) ELSE out

Units(s) ==
  [j \in 1 .. getCount(s, 1) |-> << getLexicon(s, 1, j),
                                    IF options.pos THEN getStrPOS(s, 1, j) ELSE getLexicon(s, 1, j) >>]

PrintLine(out, s) == [out EXCEPT ![Len(out)] = @ \o Units(s)]

EmptyLine ==
  /\ Reading
  /\ stream.read < Len(stream.file)
  /\ stream.file[stream.read + 1] = NoText
  /\ stream' = [stream EXCEPT !.read = @ + 1, !.out = Endl(@)]
  /\ UNCHANGED << options, sent, run, last >>

(* A line without characters leaves the Sentence as the line before did,   *)
(* and what is in it is written once more.                                 *)
AnalyzeLine ==
  /\ Reading
  /\ stream.read < Len(stream.file)
  /\ stream.file[stream.read + 1] # NoText
  /\ LET s == analysis(stream.sent, stream.file[stream.read + 1], 1, stream.read + 1)
     IN stream' = [stream EXCEPT !.read = @ + 1,
                                 !.sent = s,
                                 !.out = Endl(IF getListSize(s) > 0 THEN PrintLine(@, s) ELSE @)]
  /\ UNCHANGED << options, sent, run, last >>

CloseStream ==
  /\ Reading
  /\ stream.read = Len(stream.file)
  /\ stream' = None
  /\ UNCHANGED << options, sent, run, last >>

Next ==
  \/ setOption \/ setKnowledge \/ runWithSentence
  \/ \E t \in Texts : setString(t)
  \/ \E f \in Files : OpenStream(f)
  \/ EmptyLine \/ AnalyzeLine \/ CloseStream

Spec == Init /\ [][Next]_vars
-----------------------------------------------------------------------------
Candidates == 1 .. getListSize(sent)
UnitsOf(i) == 1 .. getCount(sent, i)

(***************************************************************************)
(* The candidates, their units and, for the dictionary approach, their     *)
(* offsets are those of the last run, whatever runs with other options     *)
(* were made on the Sentence before; setString removes them all.           *)
(***************************************************************************)
AnswersForLastRun ==
  IF last = None THEN getListSize(sent) = 0
  ELSE /\ getListSize(sent) = Len(last.counts)
       /\ \A i \in Candidates :
            /\ getCount(sent, i) = last.counts[i]
            /\ \A j \in UnitsOf(i) :
                 /\ getLexicon(sent, i, j) = << last.run, i, j >>
                 /\ last.type = "dict" => getOffset(sent, i, j) = << last.run, i, j >>

(***************************************************************************)
(* A tag, and the code of a tag, belongs to the unit it is asked for, in   *)
(* every candidate, although lists of morphemes are added to those of      *)
(* earlier runs.  After a run without tagging the code is the one that the *)
(* last tagging run on the same string gave to that place, and only where  *)
(* there was none -1 ("-1 for non POS available", sentence.h:162).  The    *)
(* longest prefix analysis never tags, and gives no code that means        *)
(* anything.                                                               *)
(***************************************************************************)
Tags(r, i, j) == r.pos /\ i \in 1 .. Len(r.counts) /\ j \in 1 .. r.counts[i]

TaggedBefore(i, j) == { k \in 1 .. Len(last.before) : Tags(last.before[k], i, j) }

TagsForLastRun ==
  (last # None /\ last.type # "prefix") =>
    \A i \in Candidates : \A j \in UnitsOf(i) :
      IF last.pos
        THEN getStrPOS(sent, i, j) = << last.run, i, j >> /\ getPOS(sent, i, j) = << last.run, i, j >>
        ELSE IF TaggedBefore(i, j) = {} THEN getPOS(sent, i, j) = << -1 >>
        ELSE LET r == last.before[Max(TaggedBefore(i, j))]
             IN r.type # "prefix" => getPOS(sent, i, j) = << r.run, i, j >>

(***************************************************************************)
(* runWithStream: the lines of the output are the lines of the file, each  *)
(* with the units of that line's one best result and their tags, although  *)
(* all lines share a Sentence that is never cleared.  A line that has      *)
(* bytes but no characters shows the last line that had some.              *)
(***************************************************************************)
LinesWithChars(k) == { m \in 1 .. k : stream.file[m] # NoText /\ HasChars(stream.file[m]) }

UnitsOfLine(m) ==
  [j \in 1 .. Counts(stream.file[m], options.type, 1)[1] |-> << << m, 1, j >>, << m, 1, j >> >>]

LineUnits(k) ==
  IF stream.file[k] = NoText \/ LinesWithChars(k) = {} THEN << >> ELSE UnitsOfLine(Max(LinesWithChars(k)))

LinesKept ==
  (Reading /\ ~(options.type = "prefix" /\ options.pos)) =>
    /\ \A k \in 1 .. stream.read : stream.out[k] = LineUnits(k)
    /\ stream.read = Len(stream.file) => Len(stream.out) = Len(stream.file)

(***************************************************************************)
(* What sentence.h says of getOffset, "offset in the sentence": the one    *)
(* the last run found, or the number of the unit if it lists none.         *)
(***************************************************************************)
OffsetsForLastRun ==
  last # None =>
    \A i \in Candidates : \A j \in UnitsOf(i) :
      getOffset(sent, i, j) = IF last.type = "dict" THEN << last.run, i, j >> ELSE << "number", j - 1 >>
=============================================================================
