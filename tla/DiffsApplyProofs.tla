------------------------- MODULE DiffsApplyProofs --------------------------
(***************************************************************************)
(* Proofs about the application of a diff, for changes of any number of    *)
(* lines (MaxLines) and any texts.                                         *)
(*                                                                         *)
(* The first parts treat parse_hunks, apply_unified_diff, per_file_diffs   *)
(* and the parser of unidiff as folds: what each returns, and with it that *)
(* every variable of Diffs keeps to its type.  Then what is written of a   *)
(* change is applied to the old file line by line: behind each line of the *)
(* change, what was read of the old file and what was written, with the    *)
(* lines still to be copied, are the beginnings of the old file and of the *)
(* new.  A diff of two files falls into its parts, and its canonical form  *)
(* is its plainest writing, so what dispatch commits is what was meant.    *)
(* Last, the numbers in the headers of hunks are those that unidiff counts *)
(* off, and so the adapter refuses none of these diffs.                    *)
(*                                                                         *)
(* The last two results are about texts that do not look like the header   *)
(* of a file; the run silent_diff shows what becomes of the others.        *)
(***************************************************************************)
EXTENDS DiffsProofs

-----------------------------------------------------------------------------
(* Types of what the applicator handles                                    *)

HunkRecs == [start : Int, body : Seq(Lines)]
ParseAccs == [hunks : Seq(HunkRecs), hunk : HunkRecs]

\* Ending a hunk adds a hunk.
LEMMA HunkReadType ==
  ASSUME NEW acc \in ParseAccs
  PROVE  HunkRead(acc) \in Seq(HunkRecs)
<1>1. acc.hunks \in Seq(HunkRecs) /\ acc.hunk \in HunkRecs
  BY DEF ParseAccs
<1> QED
  BY <1>1, AppendProperties DEF HunkRead

\* Before the first hunk there is none.
LEMMA NoHunkType == NoHunk \in HunkRecs /\ << >> \in Seq(Lines)
<1>1. << >> \in Seq(Lines)
  BY EmptySeq
<1> QED
  BY <1>1 DEF NoHunk, HunkRecs

\* A line leads from one state of parse_hunks to another.
LEMMA ParseLineType ==
  ASSUME NEW acc \in ParseAccs, NEW line \in Lines
  PROVE  ParseLine(acc, line) \in ParseAccs
<1>1. /\ acc.hunks \in Seq(HunkRecs) /\ acc.hunk \in HunkRecs
      /\ HunkRead(acc) \in Seq(HunkRecs)
  BY HunkReadType DEF ParseAccs
<1>2. CASE StartsNew(line)
  BY <1>2 DEF ParseLine
<1>3. CASE ~StartsNew(line) /\ line.kind = "@@"
  <2>1. line.start \in Int
    <3>1. line.start \in Nat
      BY <1>3, KindsOfLines
    <3> QED
      BY <3>1
  <2>2. [start |-> line.start, body |-> << >>] \in HunkRecs
    BY <2>1, NoHunkType DEF HunkRecs
  <2>3. ParseLine(acc, line)
          = [hunks |-> HunkRead(acc), hunk |-> [start |-> line.start, body |-> << >>]]
    BY <1>3 DEF ParseLine
  <2> QED
    BY <1>1, <2>2, <2>3 DEF ParseAccs
<1>4. CASE ~StartsNew(line) /\ line.kind # "@@" /\ acc.hunk = NoHunk
  BY <1>4 DEF ParseLine
<1>5. CASE /\ ~StartsNew(line) /\ line.kind # "@@" /\ acc.hunk # NoHunk
           /\ line.kind \in {"body", "blank", "---"}
  <2>1. ParseLine(acc, line) = [acc EXCEPT !.hunk.body = Append(@, line)]
    BY <1>5 DEF ParseLine
  <2>2. acc.hunk.body \in Seq(Lines) /\ acc.hunk.start \in Int
    BY <1>1 DEF HunkRecs
  <2>3. Append(acc.hunk.body, line) \in Seq(Lines)
    BY <2>2, AppendProperties
  <2>4. [acc.hunk EXCEPT !.body = Append(@, line)] \in HunkRecs
    BY <1>1, <2>3 DEF HunkRecs
  <2>5. ParseLine(acc, line)
          = [acc EXCEPT !.hunk = [acc.hunk EXCEPT !.body = Append(@, line)]]
    BY <2>1
  <2> QED
    BY <1>1, <2>4, <2>5 DEF ParseAccs
<1>6. CASE /\ ~StartsNew(line) /\ line.kind # "@@" /\ acc.hunk # NoHunk
           /\ line.kind \notin {"body", "blank", "---"}
  <2>1. ParseLine(acc, line) = [hunks |-> HunkRead(acc), hunk |-> NoHunk]
    BY <1>6 DEF ParseLine
  <2> QED
    BY <1>1, <2>1, NoHunkType DEF ParseAccs
<1> QED
  BY <1>2, <1>3, <1>4, <1>5, <1>6

ParseStep == [x \in ParseAccs \X Lines |-> ParseLine(x[1], x[2])]

\* The lines d, parsed from acc on.
ParseAll(acc, d) == Folded(ParseAccs, ParseStep, acc, d)

\* Reading a line is a step of a fold.
LEMMA ParseSteps ==
  /\ ParseStep \in Steps(ParseAccs, Lines)
  /\ \A a \in ParseAccs, x \in Lines : ParseStep[<<a, x>>] = ParseLine(a, x)
  BY ParseLineType DEF ParseStep, Steps

\* The fold of parse_hunks, from any state on.
LEMMA ParseIsFolded ==
  ASSUME NEW b \in ParseAccs, NEW d \in Seq(Lines)
  PROVE  FoldLeft(ParseLine, b, d) = ParseAll(b, d)
<1>1. PICK G : IsFoldTable(G, ParseAccs, Lines, ParseStep, b, d)
  BY ParseSteps, FoldTable
<1>2. G = [s \in SUBSET DOMAIN d |->
             IF s = {} THEN b ELSE ParseLine(G[s \ {Max(s)}], d[Max(s)])]
  BY <1>1, ParseSteps DEF IsFoldTable
<1>3. PICK H : /\ H = [s \in SUBSET DOMAIN d |->
                         IF s = {} THEN b ELSE ParseLine(H[s \ {Max(s)}], d[Max(s)])]
               /\ FoldLeft(ParseLine, b, d) = H[DOMAIN d]
  BY <1>2 DEF FoldLeft, MapThenFoldSet
<1>4. Folds(H, ParseAccs, Lines, ParseStep, b, d)
  BY <1>3, ParseSteps DEF Folds
<1> QED
  BY <1>3, <1>4, ParseSteps, FoldIsFolded DEF ParseAll

\* Its equations.
LEMMA ParseAllFacts ==
  ASSUME NEW b \in ParseAccs, NEW d \in Seq(Lines)
  PROVE  /\ ParseAll(b, << >>) = b
         /\ ParseAll(b, d) \in ParseAccs
         /\ \A x \in Lines : /\ ParseAll(b, Append(d, x)) = ParseLine(ParseAll(b, d), x)
                             /\ ParseAll(b, <<x>>) = ParseLine(b, x)
         /\ \A e \in Seq(Lines) : ParseAll(b, d \o e) = ParseAll(ParseAll(b, d), e)
<1>1. Unfolds(ParseAccs, Lines, ParseStep, b, d)
  BY ParseSteps, FoldedFacts
<1> QED
  BY <1>1, ParseSteps DEF Unfolds, ParseAll

Parse0 == [hunks |-> << >>, hunk |-> NoHunk]

\* parse_hunks returns hunks.
LEMMA ParseFromStart ==
  ASSUME NEW d \in Seq(Lines)
  PROVE  /\ Parse0 \in ParseAccs
         /\ ParseHunks(d) = HunkRead(ParseAll(Parse0, d))
         /\ ParseHunks(d) \in Seq(HunkRecs)
<1>1. Parse0 \in ParseAccs
  BY EmptySeq, NoHunkType DEF Parse0, ParseAccs
<1>2. ParseHunks(d) = HunkRead(ParseAll(Parse0, d))
  BY <1>1, ParseIsFolded DEF ParseHunks, Parse0
<1>3. ParseAll(Parse0, d) \in ParseAccs
  BY <1>1, ParseAllFacts
<1> QED
  BY <1>1, <1>2, <1>3, HunkReadType

-----------------------------------------------------------------------------
\* Where an application has got to, from the file on.
States == [ok : BOOLEAN, out : Seq(Texts), pos : Nat]

\* A failure is a state.
LEMMA FailedType == Failed \in States
<1>1. << >> \in Seq(Texts)
  BY EmptySeq
<1> QED
  BY <1>1 DEF Failed, States

\* A line of a hunk leads from state to state.
LEMMA ApplyLineType ==
  ASSUME NEW original \in Seq(Texts), NEW a \in States, NEW line \in Lines
  PROVE  ApplyLine(original, a, line) \in States
<1>1. a.ok \in BOOLEAN /\ a.out \in Seq(Texts) /\ a.pos \in Nat
  BY DEF States
<1>2. CASE ~a.ok \/ line.kind # "body"
  BY <1>2, FailedType DEF ApplyLine
<1>3. CASE ~(~a.ok \/ line.kind # "body")
  <2>1. line.text \in Texts
    BY <1>3, KindsOfLines
  <2>2. Append(a.out, line.text) \in Seq(Texts) /\ a.pos + 1 \in Nat
    BY <1>1, <2>1, AppendProperties
  <2>3. [a EXCEPT !.out = Append(@, line.text)] \in States
    BY <1>1, <2>2 DEF States
  <2>4. [a EXCEPT !.pos = @ + 1, !.out = IF line.tag = " " THEN Append(@, line.text) ELSE @]
          \in States
    BY <1>1, <2>2 DEF States
  <2> QED
    BY <1>3, <2>3, <2>4, FailedType DEF ApplyLine
<1> QED
  BY <1>2, <1>3

LineStep(original) == [x \in States \X Lines |-> ApplyLine(original, x[1], x[2])]

\* The lines of a hunk, applied from a state on.
ApplyBody(original, a, body) == Folded(States, LineStep(original), a, body)

\* Applying a line is a step of a fold.
LEMMA LineSteps ==
  ASSUME NEW original \in Seq(Texts)
  PROVE  /\ LineStep(original) \in Steps(States, Lines)
         /\ \A a \in States, x \in Lines :
              LineStep(original)[<<a, x>>] = ApplyLine(original, a, x)
  BY ApplyLineType DEF LineStep, Steps

\* The equations of the lines of a hunk.
LEMMA ApplyBodyFacts ==
  ASSUME NEW original \in Seq(Texts), NEW a \in States, NEW body \in Seq(Lines)
  PROVE  /\ ApplyBody(original, a, << >>) = a
         /\ ApplyBody(original, a, body) \in States
         /\ \A x \in Lines :
              ApplyBody(original, a, Append(body, x))
                = ApplyLine(original, ApplyBody(original, a, body), x)
<1> DEFINE F == LineStep(original)
<1>1. F \in Steps(States, Lines) /\ \A s \in States, x \in Lines : F[<<s, x>>] = ApplyLine(original, s, x)
  BY LineSteps
<1> HIDE DEF F
<1>2. Unfolds(States, Lines, F, a, body)
  BY <1>1, FoldedFacts
<1> QED
  BY <1>1, <1>2 DEF Unfolds, ApplyBody, F

\* The state at the first line of a hunk.
AtHunk(original, a, hunk) ==
  [a EXCEPT !.out = @ \o Kept(original, a.pos, FirstLine(hunk)), !.pos = FirstLine(hunk)]

\* What is kept between hunks are lines of the file.
LEMMA KeptType ==
  ASSUME NEW original \in Seq(Texts), NEW from \in Nat, NEW to \in Nat
  PROVE  Kept(original, from, to) \in Seq(Texts)
<1>1. Len(original) \in Nat
  BY LenProperties
<1>2. Smaller(to, Len(original)) \in Int /\ Smaller(to, Len(original)) <= Len(original)
  BY <1>1 DEF Smaller
<1>3. \A i \in (from + 1)..Smaller(to, Len(original)) : original[i] \in Texts
  BY <1>1, <1>2, ElementOfSeq
<1> QED
  BY <1>2, <1>3, SubSeqProperties DEF Kept

\* The state at the first line of a hunk.
LEMMA AtHunkType ==
  ASSUME NEW original \in Seq(Texts), NEW a \in States, NEW hunk \in HunkRecs
  PROVE  FirstLine(hunk) \in Nat /\ AtHunk(original, a, hunk) \in States
<1>1. hunk.start \in Int
  BY DEF HunkRecs
<1>2. FirstLine(hunk) \in Nat
  BY <1>1 DEF FirstLine, Larger
<1>3. a.ok \in BOOLEAN /\ a.out \in Seq(Texts) /\ a.pos \in Nat
  BY DEF States
<1>4. a.out \o Kept(original, a.pos, FirstLine(hunk)) \in Seq(Texts)
  BY <1>2, <1>3, KeptType, ConcatProperties
<1> QED
  BY <1>2, <1>3, <1>4 DEF AtHunk, States

\* A hunk fails at once, or its lines are applied where it begins.
LEMMA ApplyHunkIs ==
  ASSUME NEW original \in Seq(Texts), NEW a \in States, NEW hunk \in HunkRecs
  PROVE  /\ ApplyHunk(original, a, hunk) =
              IF ~a.ok \/ FirstLine(hunk) < a.pos THEN Failed
              ELSE ApplyBody(original, AtHunk(original, a, hunk), hunk.body)
         /\ ApplyHunk(original, a, hunk) \in States
<1> DEFINE b == AtHunk(original, a, hunk)
           F == LineStep(original)
           d == hunk.body
<1>1. b \in States /\ d \in Seq(Lines)
  BY AtHunkType DEF HunkRecs
<1>2. F \in Steps(States, Lines) /\ \A s \in States, x \in Lines : F[<<s, x>>] = ApplyLine(original, s, x)
  BY LineSteps
<1>3. b = [a EXCEPT !.out = @ \o Kept(original, a.pos, FirstLine(hunk)), !.pos = FirstLine(hunk)]
  BY DEF AtHunk
<1> HIDE DEF F, b
<1>4. PICK G : IsFoldTable(G, States, Lines, F, b, d)
  BY <1>1, <1>2, FoldTable
<1>5. G = [s \in SUBSET DOMAIN d |->
             IF s = {} THEN b ELSE ApplyLine(original, G[s \ {Max(s)}], d[Max(s)])]
  BY <1>2, <1>4 DEF IsFoldTable
<1> DEFINE Step(st, line) == ApplyLine(original, st, line)
<1>6. PICK H : /\ H = [s \in SUBSET DOMAIN d |->
                         IF s = {} THEN b ELSE ApplyLine(original, H[s \ {Max(s)}], d[Max(s)])]
               /\ FoldLeft(Step, b, d) = H[DOMAIN d]
  BY <1>5 DEF FoldLeft, MapThenFoldSet
<1>7. Folds(H, States, Lines, F, b, d)
  BY <1>2, <1>6 DEF Folds
<1>8. FoldLeft(Step, b, d) = ApplyBody(original, b, d)
  <2>1. FoldLeft(Step, b, d) = Folded(States, F, b, d)
    <3>1. H[DOMAIN d] = Folded(States, F, b, d)
      BY <1>1, <1>2, <1>7, FoldIsFolded
    <3> HIDE DEF Step
    <3> QED
      BY <1>6, <3>1, Zenon
  <2> QED
    BY <2>1, Zenon DEF ApplyBody, F
<1>9. ApplyHunk(original, a, hunk) =
        IF ~a.ok \/ FirstLine(hunk) < a.pos THEN Failed ELSE FoldLeft(Step, b, d)
  BY <1>3 DEF ApplyHunk
<1>10. ApplyBody(original, b, d) \in States
  BY <1>1, ApplyBodyFacts
<1> HIDE DEF Step, d
<1> QED
  BY <1>8, <1>9, <1>10, FailedType DEF b, d

-----------------------------------------------------------------------------
(* Hunks, and the parts of a diff                                          *)

HunkStep(original) == [x \in States \X HunkRecs |-> ApplyHunk(original, x[1], x[2])]

\* The hunks, applied from a state on.
ApplyAll(original, a, hunks) == Folded(States, HunkStep(original), a, hunks)

\* Applying a hunk is a step of a fold.
LEMMA HunkSteps ==
  ASSUME NEW original \in Seq(Texts)
  PROVE  /\ HunkStep(original) \in Steps(States, HunkRecs)
         /\ \A a \in States, h \in HunkRecs :
              HunkStep(original)[<<a, h>>] = ApplyHunk(original, a, h)
  BY ApplyHunkIs DEF HunkStep, Steps

\* The equations of the hunks of a file.
LEMMA ApplyAllFacts ==
  ASSUME NEW original \in Seq(Texts), NEW a \in States, NEW hunks \in Seq(HunkRecs)
  PROVE  /\ ApplyAll(original, a, << >>) = a
         /\ ApplyAll(original, a, hunks) \in States
         /\ \A h \in HunkRecs :
              ApplyAll(original, a, Append(hunks, h))
                = ApplyHunk(original, ApplyAll(original, a, hunks), h)
<1> DEFINE F == HunkStep(original)
<1>1. F \in Steps(States, HunkRecs) /\ \A s \in States, x \in HunkRecs : F[<<s, x>>] = ApplyHunk(original, s, x)
  BY HunkSteps
<1> HIDE DEF F
<1>2. Unfolds(States, HunkRecs, F, a, hunks)
  BY <1>1, FoldedFacts
<1> QED
  BY <1>1, <1>2 DEF Unfolds, ApplyAll, F

Apply0 == [ok |-> TRUE, out |-> << >>, pos |-> 0]

\* Before the first hunk, nothing is read or written.
LEMMA Apply0Type == Apply0 \in States
<1>1. << >> \in Seq(Texts)
  BY EmptySeq
<1> QED
  BY <1>1 DEF Apply0, States

\* The state at the end of a diff.
Applied(original, d) == ApplyAll(original, Apply0, ParseHunks(d))

\* apply_unified_diff fails, or returns the state at the end with the rest of the file.
LEMMA ApplyUnifiedDiffIs ==
  ASSUME NEW original \in Seq(Texts), NEW d \in Seq(Lines)
  PROVE  /\ Applied(original, d) \in States
         /\ ApplyUnifiedDiff(original, d) =
              IF ParseHunks(d) = << >> \/ ~Applied(original, d).ok THEN Failed
              ELSE [Applied(original, d) EXCEPT
                      !.out = @ \o Kept(original, Applied(original, d).pos, Len(original))]
         /\ ApplyUnifiedDiff(original, d) \in States
<1> DEFINE F == HunkStep(original)
           b == Apply0
           h == ParseHunks(d)
<1>1. b \in States /\ h \in Seq(HunkRecs)
  BY Apply0Type, ParseFromStart
<1>2. F \in Steps(States, HunkRecs) /\ \A s \in States, x \in HunkRecs : F[<<s, x>>] = ApplyHunk(original, s, x)
  BY HunkSteps
<1> HIDE DEF F, b, h
<1>4. PICK G : IsFoldTable(G, States, HunkRecs, F, b, h)
  BY <1>1, <1>2, FoldTable
<1>5. G = [s \in SUBSET DOMAIN h |->
             IF s = {} THEN b ELSE ApplyHunk(original, G[s \ {Max(s)}], h[Max(s)])]
  BY <1>2, <1>4 DEF IsFoldTable
<1> DEFINE Step(acc, hunk) == ApplyHunk(original, acc, hunk)
<1>6. PICK H : /\ H = [s \in SUBSET DOMAIN h |->
                         IF s = {} THEN b ELSE ApplyHunk(original, H[s \ {Max(s)}], h[Max(s)])]
               /\ FoldLeft(Step, b, h) = H[DOMAIN h]
  BY <1>5 DEF FoldLeft, MapThenFoldSet
<1>7. Folds(H, States, HunkRecs, F, b, h)
  BY <1>2, <1>6 DEF Folds
<1>8. FoldLeft(Step, b, h) = Applied(original, d)
  <2>1. H[DOMAIN h] = Folded(States, F, b, h)
    BY <1>1, <1>2, <1>7, FoldIsFolded
  <2> HIDE DEF Step
  <2> QED
    BY <1>6, <2>1, Zenon DEF Applied, ApplyAll, F, b, h
<1>9. Applied(original, d) \in States
  BY <1>1, ApplyAllFacts DEF Applied, b, h
<1>10. ApplyUnifiedDiff(original, d) =
         IF h = << >> \/ ~FoldLeft(Step, b, h).ok THEN Failed
         ELSE [FoldLeft(Step, b, h) EXCEPT !.out = @ \o Kept(original, FoldLeft(Step, b, h).pos, Len(original))]
  BY DEF ApplyUnifiedDiff, Apply0, b, h
<1> HIDE DEF Step
<1>11. ApplyUnifiedDiff(original, d) =
         IF h = << >> \/ ~Applied(original, d).ok THEN Failed
         ELSE [Applied(original, d) EXCEPT
                 !.out = @ \o Kept(original, Applied(original, d).pos, Len(original))]
  BY <1>8, <1>10
<1>12. [Applied(original, d) EXCEPT
          !.out = @ \o Kept(original, Applied(original, d).pos, Len(original))] \in States
  <2>1. PICK a \in States : a = Applied(original, d)
    BY <1>9
  <2>2. a.ok \in BOOLEAN /\ a.out \in Seq(Texts) /\ a.pos \in Nat /\ Len(original) \in Nat
    BY LenProperties DEF States
  <2>3. a.out \o Kept(original, a.pos, Len(original)) \in Seq(Texts)
    BY <2>2, KeptType, ConcatProperties
  <2>4. [a EXCEPT !.out = @ \o Kept(original, a.pos, Len(original))] \in States
    BY <2>3 DEF States
  <2> QED
    BY <2>1, <2>4
<1> QED
  BY <1>9, <1>11, <1>12, FailedType DEF h

-----------------------------------------------------------------------------
\* The parts of a diff by path.
PartMaps == UNION {[D -> Seq(Lines)] : D \in SUBSET PathNames}
PartAccs == [parts : PartMaps, path : PathNames \cup {Absent}, lines : Seq(Lines)]

\* A line that begins with +++ names a file.
LEMMA NewHasPath ==
  ASSUME NEW line \in Lines, StartsNew(line)
  PROVE  PathOf(line) \in PathNames
  BY KindsOfLines, PathNamesAre DEF StartsNew, PathOf

\* Ending a part stores it.
LEMMA StoredType ==
  ASSUME NEW acc \in PartAccs
  PROVE  Stored(acc) \in PartMaps
<1>1. acc.parts \in PartMaps /\ acc.path \in PathNames \cup {Absent} /\ acc.lines \in Seq(Lines)
  BY DEF PartAccs
<1>2. PICK D \in SUBSET PathNames : acc.parts \in [D -> Seq(Lines)]
  BY <1>1 DEF PartMaps
<1>3. CASE acc.path = Absent \/ acc.lines = << >>
  BY <1>1, <1>3 DEF Stored
<1>4. CASE ~(acc.path = Absent \/ acc.lines = << >>)
  <2>1. Stored(acc) = [p \in D \cup {acc.path} |-> IF p = acc.path THEN acc.lines ELSE acc.parts[p]]
    BY <1>2, <1>4 DEF Stored
  <2>2. Stored(acc) \in [D \cup {acc.path} -> Seq(Lines)]
    BY <1>1, <1>2, <2>1
  <2>3. D \cup {acc.path} \in SUBSET PathNames
    BY <1>1, <1>4
  <2> QED
    BY <2>2, <2>3 DEF PartMaps
<1> QED
  BY <1>3, <1>4

\* A line leads from one state of per_file_diffs to another.
LEMMA PartLineType ==
  ASSUME NEW acc \in PartAccs, NEW line \in Lines
  PROVE  PartLine(acc, line) \in PartAccs
<1>1. /\ acc.parts \in PartMaps /\ acc.path \in PathNames \cup {Absent}
      /\ acc.lines \in Seq(Lines) /\ Stored(acc) \in PartMaps
  BY StoredType DEF PartAccs
<1>2. Append(acc.lines, line) \in Seq(Lines) /\ <<line>> \in Seq(Lines)
  BY <1>1, AppendProperties
<1>3. CASE StartsOld(line)
  BY <1>1, <1>2, <1>3 DEF PartLine, PartAccs
<1>4. CASE ~StartsOld(line) /\ StartsNew(line)
  <2>1. PathOf(line) \in PathNames
    BY <1>4, NewHasPath
  <2> QED
    BY <1>2, <1>4, <2>1 DEF PartLine, PartAccs
<1>5. CASE ~StartsOld(line) /\ ~StartsNew(line)
  BY <1>2, <1>5 DEF PartLine, PartAccs
<1> QED
  BY <1>3, <1>4, <1>5

PartStep == [x \in PartAccs \X Lines |-> PartLine(x[1], x[2])]

\* The lines d, handed out from acc on.
PartAll(acc, d) == Folded(PartAccs, PartStep, acc, d)

\* Reading a line is a step of a fold.
LEMMA PartSteps ==
  /\ PartStep \in Steps(PartAccs, Lines)
  /\ \A a \in PartAccs, x \in Lines : PartStep[<<a, x>>] = PartLine(a, x)
  BY PartLineType DEF PartStep, Steps

\* The fold of per_file_diffs, from any state on.
LEMMA PartIsFolded ==
  ASSUME NEW b \in PartAccs, NEW d \in Seq(Lines)
  PROVE  FoldLeft(PartLine, b, d) = PartAll(b, d)
<1>1. PICK G : IsFoldTable(G, PartAccs, Lines, PartStep, b, d)
  BY PartSteps, FoldTable
<1>2. G = [s \in SUBSET DOMAIN d |->
             IF s = {} THEN b ELSE PartLine(G[s \ {Max(s)}], d[Max(s)])]
  BY <1>1, PartSteps DEF IsFoldTable
<1>3. PICK H : /\ H = [s \in SUBSET DOMAIN d |->
                         IF s = {} THEN b ELSE PartLine(H[s \ {Max(s)}], d[Max(s)])]
               /\ FoldLeft(PartLine, b, d) = H[DOMAIN d]
  BY <1>2 DEF FoldLeft, MapThenFoldSet
<1>4. Folds(H, PartAccs, Lines, PartStep, b, d)
  BY <1>3, PartSteps DEF Folds
<1> QED
  BY <1>3, <1>4, PartSteps, FoldIsFolded DEF PartAll

\* Its equations.
LEMMA PartAllFacts ==
  ASSUME NEW b \in PartAccs, NEW d \in Seq(Lines)
  PROVE  /\ PartAll(b, << >>) = b
         /\ PartAll(b, d) \in PartAccs
         /\ \A x \in Lines : /\ PartAll(b, Append(d, x)) = PartLine(PartAll(b, d), x)
                             /\ PartAll(b, <<x>>) = PartLine(b, x)
         /\ \A e \in Seq(Lines) : PartAll(b, d \o e) = PartAll(PartAll(b, d), e)
<1>1. Unfolds(PartAccs, Lines, PartStep, b, d)
  BY PartSteps, FoldedFacts
<1> QED
  BY <1>1, PartSteps DEF Unfolds, PartAll

Part0 == [parts |-> << >>, path |-> Absent, lines |-> << >>]

\* per_file_diffs returns a part for each of some paths.
LEMMA PartsFromStart ==
  ASSUME NEW d \in Seq(Lines)
  PROVE  /\ Part0 \in PartAccs
         /\ PerFileDiffs(d) = Stored(PartAll(Part0, d))
         /\ PerFileDiffs(d) \in PartMaps
<1>1. Part0 \in PartAccs
  <2>1. << >> \in Seq(Lines) /\ Len(<< >>) = 0
    BY EmptySeq
  <2>2. << >> \in [{} -> Seq(Lines)]
    BY <2>1
  <2>3. << >> \in PartMaps
    <3>1. {} \in SUBSET PathNames
      OBVIOUS
    <3> QED
      BY <2>2, <3>1 DEF PartMaps
  <2> QED
    BY <2>1, <2>3 DEF Part0, PartAccs
<1>2. PerFileDiffs(d) = Stored(PartAll(Part0, d))
  BY <1>1, PartIsFolded DEF PerFileDiffs, Part0
<1>3. PartAll(Part0, d) \in PartAccs
  BY <1>1, PartAllFacts
<1> QED
  BY <1>1, <1>2, <1>3, StoredType

-----------------------------------------------------------------------------
(* The files before and after a change                                     *)

OldTags == {"=", " ", "-"}
NewTags == {"=", " ", "+"}

\* The texts of the lines with one of the tags.
TextAdded(tags, s, out, i) == IF s[i].tag \in tags THEN Append(out, s[i].text) ELSE out
Texted(tags, s) ==
  LET Add(out, i) == TextAdded(tags, s, out, i) IN FoldLeft(Add, << >>, [i \in DOMAIN s |-> i])

\* Both files of a change are its texts with some of the tags.
LEMMA FilesAreTexted ==
  ASSUME NEW s
  PROVE  OldFile(s) = Texted(OldTags, s) /\ NewFile(s) = Texted(NewTags, s)
<1>1. OldFile(s) = Texted(OldTags, s)
  BY DEF OldFile, TextsWhere, IsOld, Texted, TextAdded, OldTags
<1>2. NewFile(s) = Texted(NewTags, s)
  BY DEF NewFile, TextsWhere, IsNew, Texted, TextAdded, NewTags
<1> QED
  BY <1>1, <1>2

\* The text of a file, line by line.
IsReading(P, T, tags, s) ==
  /\ P \in [0..Len(s) -> Seq(T)]
  /\ P[0] = << >>
  /\ \A i \in 1..Len(s) : P[i] = TextAdded(tags, s, P[i - 1], i)
  /\ Texted(tags, s) = P[Len(s)]

TextStep(T, tags, s) == [x \in Seq(T) \X (1..Len(s)) |-> TextAdded(tags, s, x[1], x[2])]

\* The fold goes through the lines of the script.
LEMMA ReadingExists ==
  ASSUME NEW T, NEW tags, NEW s \in Seq(ScriptLines(T))
  PROVE  \E P : IsReading(P, T, tags, s)
<1> DEFINE A == Seq(T)
           L == 1..Len(s)
           F == TextStep(T, tags, s)
           d == [i \in DOMAIN s |-> i]
<1>1. /\ d \in Seq(L) /\ Len(d) = Len(s) /\ DOMAIN d = L /\ Len(s) \in Nat
      /\ \A i \in 1..Len(s) : d[i] = i
  <2>1. DOMAIN s = 1..Len(s) /\ Len(s) \in Nat
    BY LenProperties
  <2> QED
    BY <2>1
<1>2. << >> \in A
  BY EmptySeq
<1>3. \A a \in A, i \in L : F[<<a, i>>] = TextAdded(tags, s, a, i)
  BY DEF TextStep
<1>4. F \in Steps(A, L)
  <2>1. ASSUME NEW a \in A, NEW i \in L PROVE TextAdded(tags, s, a, i) \in A
    <3>1. s[i] \in ScriptLines(T)
      BY ElementOfSeq
    <3>2. s[i].text \in T
      BY <3>1 DEF ScriptLines
    <3> QED
      BY <3>2, AppendProperties DEF TextAdded
  <2> QED
    BY <2>1 DEF TextStep, Steps
<1> HIDE DEF A, L, F, d
<1>5. PICK b \in A : b = << >>
  BY <1>2
<1>6. PICK G : IsFoldTable(G, A, L, F, b, d)
  BY <1>1, <1>4, FoldTable
<1>7. G = [t \in SUBSET DOMAIN d |->
             IF t = {} THEN << >> ELSE TextAdded(tags, s, G[t \ {Max(t)}], d[Max(t)])]
  BY <1>3, <1>5, <1>6 DEF IsFoldTable
<1>8. PICK H : /\ H = [t \in SUBSET DOMAIN d |->
                         IF t = {} THEN << >> ELSE TextAdded(tags, s, H[t \ {Max(t)}], d[Max(t)])]
               /\ Texted(tags, s) = H[DOMAIN d]
  <2> DEFINE Add(out, i) == TextAdded(tags, s, out, i)
  <2>1. Texted(tags, s) = FoldLeft(Add, << >>, d)
    BY DEF Texted, d
  <2>2. \E H : /\ H = [t \in SUBSET DOMAIN d |->
                         IF t = {} THEN << >> ELSE TextAdded(tags, s, H[t \ {Max(t)}], d[Max(t)])]
               /\ FoldLeft(Add, << >>, d) = H[DOMAIN d]
    BY <1>7 DEF FoldLeft, MapThenFoldSet
  <2> QED
    BY <2>1, <2>2
<1>9. Folds(H, A, L, F, << >>, d)
  <2>1. d \in Seq(L)
    BY <1>1
  <2> QED
    BY <1>3, <1>8, <2>1 DEF Folds
<1>10. Folds(H, A, L, F, b, d)
  BY <1>5, <1>9, Zenon
<1>11. H[DOMAIN d] = Folded(A, F, b, d)
  BY <1>1, <1>4, <1>10, FoldIsFolded
<1>12. PICK P : IsTrace(P, A, F, b, d)
  BY <1>1, <1>4, TraceExists
<1>13. Folded(A, F, b, d) = P[Len(d)]
  BY <1>1, <1>4, <1>12, FoldedIsEnd
<1>14. /\ P \in [0..Len(s) -> A] /\ P[0] = b
       /\ \A i \in 1..Len(s) : P[i] = F[<<P[i - 1], d[i]>>]
  BY <1>1, <1>12, Zenon DEF IsTrace
<1>15. ASSUME NEW i \in 1..Len(s)
       PROVE  P[i] = TextAdded(tags, s, P[i - 1], i)
  <2>0. i - 1 \in 0..Len(s)
    BY <1>1
  <2>1. P[i - 1] \in A /\ i \in L /\ d[i] = i
    BY <1>1, <1>14, <2>0 DEF L
  <2>2. P[i] = F[<<P[i - 1], i>>]
    BY <1>14, <2>1
  <2> QED
    BY <1>3, <2>1, <2>2
<1>16. Texted(tags, s) = P[Len(s)]
  BY <1>1, <1>8, <1>11, <1>13, Zenon
<1>17. P[0] = << >>
  BY <1>5, <1>14, Zenon
<1>18. P \in [0..Len(s) -> Seq(T)]
  BY <1>14 DEF A
<1> QED
  BY <1>15, <1>16, <1>17, <1>18, Zenon DEF IsReading

\* Both files are sequences of texts.
LEMMA FilesAreTexts ==
  ASSUME NEW T, NEW s \in Seq(ScriptLines(T))
  PROVE  OldFile(s) \in Seq(T) /\ NewFile(s) \in Seq(T)
<1>1. ASSUME NEW tags PROVE Texted(tags, s) \in Seq(T)
  <2>1. PICK P : IsReading(P, T, tags, s)
    BY ReadingExists
  <2>2. Len(s) \in 0..Len(s)
    BY LenProperties
  <2>3. P \in [0..Len(s) -> Seq(T)] /\ Texted(tags, s) = P[Len(s)]
    BY <2>1 DEF IsReading
  <2> QED
    BY <2>2, <2>3
<1> QED
  BY <1>1, FilesAreTexted, Zenon

-----------------------------------------------------------------------------
(* Types                                                                   *)

\* The canonical form is a sequence of lines.
LEMMA CanonicalDiffType ==
  ASSUME NEW d \in Seq(Lines)
  PROVE  CanonicalDiff(d) \in Seq(Lines)
<1> DEFINE ss == SplitFileSections(d)
           F == CanonStep(ss)
           A == Seq(Lines)
<1>1. ss \in Seq(Sections) /\ << >> \in A /\ Paths \in Seq(PathNames)
  BY SplitFromStart, EmptySeq, PathsAre
<1>2. F \in Steps(A, PathNames)
  BY <1>1, CanonSteps
<1>3. CanonicalDiff(d) = Folded(A, F, << >>, Paths)
  BY CanonicalIsFolded
<1> HIDE DEF ss, F, A
<1>4. PICK b \in A : b = << >>
  BY <1>1
<1>5. Unfolds(A, PathNames, F, b, Paths)
  BY <1>1, <1>2, FoldedFacts
<1>6. Folded(A, F, << >>, Paths) \in A
  BY <1>4, <1>5, Zenon DEF Unfolds
<1> QED
  BY <1>3, <1>6, Zenon DEF A

\* A file that is read has lines of files.
LEMMA ContentType ==
  ASSUME NEW p, script \in Scripts
  PROVE  ContentOf(Archive, p) \in Seq(Texts)
<1>1. /\ script \in Seq(ScriptLines(Texts)) /\ Other \in Seq(ScriptLines(Texts))
  BY ScriptsAreSequences, OtherIsScript, DiffsAssumption
<1>2. OldFile(script) \in Seq(Texts) /\ OldFile(Other) \in Seq(Texts)
  BY <1>1, FilesAreTexts
<1>3. << >> \in Seq(Texts)
  BY EmptySeq
<1> QED
  BY <1>2, <1>3 DEF ContentOf, Archive

\* Whatever is applied to the files of the archive, lines of files come out.
LEMMA PatchedType ==
  ASSUME script \in Scripts, diff \in Seq(Lines)
  PROVE  /\ DOMAIN Patched(Archive, diff) \subseteq PathNames
         /\ \A p \in DOMAIN Patched(Archive, diff) : Patched(Archive, diff)[p] \in States
<1>1. PICK D \in SUBSET PathNames : PerFileDiffs(diff) \in [D -> Seq(Lines)]
  BY PartsFromStart DEF PartMaps
<1>2. ASSUME NEW p \in D
      PROVE  ApplyUnifiedDiff(ContentOf(Archive, p), PerFileDiffs(diff)[p]) \in States
  <2>1. PICK f \in Seq(Texts) : f = ContentOf(Archive, p)
    BY ContentType
  <2>2. PICK e \in Seq(Lines) : e = PerFileDiffs(diff)[p]
    BY <1>1
  <2>3. ApplyUnifiedDiff(f, e) \in States
    BY ApplyUnifiedDiffIs
  <2> QED
    BY <2>1, <2>2, <2>3, Zenon
<1>3. Patched(Archive, diff)
        = [p \in D |-> ApplyUnifiedDiff(ContentOf(Archive, p), PerFileDiffs(diff)[p])]
  BY <1>1 DEF Patched
<1> QED
  BY <1>2, <1>3

TypesAndScript == TypeOK /\ script \in Scripts

\* Every variable keeps to its type: what the adapter stores is a sequence of
\* lines, and what dispatch commits are files of lines at paths of the diff.
THEOREM TypesAreKept == Spec => []TypeOK
<1>1. Init => TypesAndScript
  <2>1. << >> \in Seq(Lines) /\ DOMAIN << >> = {}
    BY EmptySeq
  <2> QED
    BY <2>1 DEF Init, TypesAndScript, TypeOK, Stages
<1>2. TypesAndScript /\ [Next]_vars => TypesAndScript'
  <2> SUFFICES ASSUME TypesAndScript, [Next]_vars PROVE TypesAndScript'
    OBVIOUS
  <2> USE DEF TypesAndScript, TypeOK
  <2>1. CASE Receive
    <3>1. layout \in [otherFirst : BOOLEAN, metadata : BOOLEAN, trimmed : BOOLEAN]
      BY DEF Layouts
    <3>2. RawDiff(script, layout) \in Seq(Lines)
      BY <3>1, RawDiffType
    <3>3. CanonicalDiff(RawDiff(script, layout)) \in Seq(Lines)
      BY <3>2, CanonicalDiffType
    <3>4. diff' \in Seq(Lines)
      BY <2>1, <3>2, <3>3 DEF Receive
    <3> QED
      BY <2>1, <3>4 DEF Receive, Stages
  <2>2. CASE Validate
    <3>1. stage' \in Stages
      BY <2>2 DEF Validate, Verdict, Stages
    <3> QED
      BY <2>2, <3>1 DEF Validate
  <2>3. CASE Commit
    <3> DEFINE patched == Patched(Archive, diff)
    <3>1. /\ DOMAIN patched \subseteq PathNames
          /\ \A p \in DOMAIN patched : patched[p] \in States
      BY PatchedType
    <3>2. \A p \in DOMAIN patched : patched[p].out \in Seq(Texts)
      BY <3>1 DEF States
    <3>3. /\ DOMAIN files' \subseteq PathNames
          /\ \A p \in DOMAIN files' : files'[p] \in Seq(Texts)
          /\ stage' \in Stages
      <4> HIDE DEF patched
      <4>1. CASE \A p \in DOMAIN patched : patched[p].ok
        <5>1. files' = [p \in DOMAIN patched |-> patched[p].out] /\ stage' = "committed"
          BY <2>3, <4>1 DEF Commit, patched
        <5> QED
          BY <3>1, <3>2, <5>1 DEF Stages
      <4>2. CASE ~\A p \in DOMAIN patched : patched[p].ok
        <5>1. files' = files /\ stage' = "failed"
          BY <2>3, <4>2 DEF Commit, patched
        <5> QED
          BY <5>1 DEF Stages
      <4> QED
        BY <4>1, <4>2
    <3> QED
      BY <2>3, <3>3 DEF Commit
  <2>4. CASE UNCHANGED vars
    BY <2>4 DEF vars
  <2> QED
    BY <2>1, <2>2, <2>3, <2>4 DEF Next
<1>3. TypesAndScript => TypeOK
  BY DEF TypesAndScript
<1> QED
  BY <1>1, <1>2, <1>3, PTL DEF Spec

-----------------------------------------------------------------------------
(* Application line by line                                                *)

\* What has been applied when the lines that were parsed are.
Seen(original, acc) == ApplyAll(original, Apply0, HunkRead(acc))

\* It is a state.
LEMMA SeenType ==
  ASSUME NEW original \in Seq(Texts), NEW acc \in ParseAccs
  PROVE  Seen(original, acc) \in States
<1>1. HunkRead(acc) \in Seq(HunkRecs) /\ Apply0 \in States
  BY HunkReadType, Apply0Type
<1> QED
  BY <1>1, ApplyAllFacts DEF Seen

\* The header of a hunk leads to the first line of the hunk.
LEMMA HunkBegins ==
  ASSUME NEW original \in Seq(Texts), NEW acc \in ParseAccs,
         NEW line \in Lines, line.kind = "@@",
         Seen(original, acc).ok, FirstLine(line) >= Seen(original, acc).pos
  PROVE  /\ ParseLine(acc, line) \in ParseAccs
         /\ ParseLine(acc, line).hunk # NoHunk
         /\ Seen(original, ParseLine(acc, line)) = AtHunk(original, Seen(original, acc), line)
<1> DEFINE h == [start |-> line.start, body |-> << >>]
           r == HunkRead(acc)
           v == Seen(original, acc)
           n == ParseLine(acc, line)
<1>1. line.start \in Nat /\ ~StartsNew(line)
  BY KindsOfLines DEF StartsNew
<1>2. n = [hunks |-> r, hunk |-> h]
  BY <1>1 DEF ParseLine
<1>3. h \in HunkRecs /\ r \in Seq(HunkRecs) /\ v \in States /\ Apply0 \in States
  <2>1. h \in HunkRecs
    BY <1>1, NoHunkType DEF HunkRecs
  <2>2. r \in Seq(HunkRecs) /\ v \in States /\ Apply0 \in States
    BY HunkReadType, SeenType, Apply0Type
  <2> QED
    BY <2>1, <2>2
<1>4. h # NoHunk
  BY <1>1 DEF NoHunk
<1>5. HunkRead(n) = Append(r, h)
  BY <1>2, <1>4 DEF HunkRead
<1>6. FirstLine(h) = FirstLine(line) /\ AtHunk(original, v, h) = AtHunk(original, v, line)
  BY DEF FirstLine, AtHunk
<1> HIDE DEF n, r, v
<1>7. ApplyAll(original, Apply0, Append(r, h))
        = ApplyHunk(original, ApplyAll(original, Apply0, r), h)
  BY <1>3, ApplyAllFacts
<1>8. Seen(original, n) = ApplyHunk(original, v, h)
  BY <1>5, <1>7, Zenon DEF Seen, v, r
<1>9. ~(~v.ok \/ FirstLine(h) < v.pos)
  <2>1. FirstLine(h) \in Nat /\ v.pos \in Nat
    BY <1>3, AtHunkType DEF States
  <2> QED
    BY <1>6, <2>1 DEF v
<1>10. ApplyHunk(original, v, h) = ApplyBody(original, AtHunk(original, v, h), h.body)
  BY <1>3, <1>9, ApplyHunkIs
<1>11. ApplyBody(original, AtHunk(original, v, h), h.body) = AtHunk(original, v, h)
  <2>1. AtHunk(original, v, h) \in States
    BY <1>3, AtHunkType
  <2>2. ApplyBody(original, AtHunk(original, v, h), << >>) = AtHunk(original, v, h)
    BY <2>1, NoHunkType, ApplyBodyFacts
  <2>3. h.body = << >>
    OBVIOUS
  <2> HIDE DEF h
  <2> QED
    BY <2>2, <2>3, Zenon
<1>12. n \in ParseAccs
  BY ParseLineType DEF n
<1>13. n.hunk # NoHunk
  BY <1>2, <1>4
<1> HIDE DEF h
<1>14. Seen(original, n) = AtHunk(original, v, line)
  BY <1>6, <1>8, <1>10, <1>11, Zenon
<1> QED
  BY <1>12, <1>13, <1>14 DEF n, v

\* A line of a hunk is applied to what has been.
LEMMA BodyGoesOn ==
  ASSUME NEW original \in Seq(Texts), NEW acc \in ParseAccs, acc.hunk # NoHunk,
         NEW line \in Lines, line.kind = "body", ~StartsNew(line)
  PROVE  /\ ParseLine(acc, line) \in ParseAccs
         /\ ParseLine(acc, line).hunk # NoHunk
         /\ Seen(original, ParseLine(acc, line))
              = ApplyLine(original, Seen(original, acc), line)
<1> DEFINE h == acc.hunk
           k == [h EXCEPT !.body = Append(@, line)]
           n == ParseLine(acc, line)
           v == ApplyAll(original, Apply0, acc.hunks)
<1>1. acc.hunks \in Seq(HunkRecs) /\ h \in HunkRecs /\ Apply0 \in States
  BY Apply0Type DEF ParseAccs
<1>2. h.body \in Seq(Lines) /\ h.start \in Int
  BY <1>1 DEF HunkRecs
<1>3. Append(h.body, line) \in Seq(Lines) /\ Append(h.body, line) # << >>
  BY <1>2, AppendProperties
<1>4. k \in HunkRecs /\ k.body = Append(h.body, line) /\ k.start = h.start
  BY <1>1, <1>3 DEF HunkRecs
<1>5. k # NoHunk
  BY <1>3, <1>4 DEF NoHunk
<1>6. n = [acc EXCEPT !.hunk = k]
  <2>1. n = [acc EXCEPT !.hunk.body = Append(@, line)]
    BY DEF ParseLine
  <2> QED
    BY <2>1
<1>7. n.hunks = acc.hunks /\ n.hunk = k
  BY <1>6 DEF ParseAccs
<1>8. HunkRead(n) = Append(acc.hunks, k) /\ HunkRead(acc) = Append(acc.hunks, h)
  BY <1>5, <1>7 DEF HunkRead
<1>9. n \in ParseAccs
  BY ParseLineType
<1>10. FirstLine(k) = FirstLine(h) /\ AtHunk(original, v, k) = AtHunk(original, v, h)
  BY <1>4 DEF FirstLine, AtHunk
<1>11. v \in States
  BY <1>1, ApplyAllFacts
<1> HIDE DEF n, k, v, h
<1>12. /\ Seen(original, n) = ApplyHunk(original, v, k)
       /\ Seen(original, acc) = ApplyHunk(original, v, h)
  <2>1. /\ ApplyAll(original, Apply0, Append(acc.hunks, k)) = ApplyHunk(original, v, k)
        /\ ApplyAll(original, Apply0, Append(acc.hunks, h)) = ApplyHunk(original, v, h)
    BY <1>1, <1>4, ApplyAllFacts DEF v
  <2> QED
    BY <1>8, <2>1, Zenon DEF Seen
<1>13. /\ ApplyHunk(original, v, k) =
            IF ~v.ok \/ FirstLine(k) < v.pos THEN Failed
            ELSE ApplyBody(original, AtHunk(original, v, k), k.body)
       /\ ApplyHunk(original, v, h) =
            IF ~v.ok \/ FirstLine(h) < v.pos THEN Failed
            ELSE ApplyBody(original, AtHunk(original, v, h), h.body)
  BY <1>1, <1>4, <1>11, ApplyHunkIs
<1>14. ApplyBody(original, AtHunk(original, v, h), Append(h.body, line))
         = ApplyLine(original, ApplyBody(original, AtHunk(original, v, h), h.body), line)
  <2>1. AtHunk(original, v, h) \in States
    BY <1>1, <1>11, AtHunkType
  <2> QED
    BY <1>2, <2>1, ApplyBodyFacts
<1>15. ApplyLine(original, Failed, line) = Failed
  BY DEF ApplyLine, Failed
<1>16. Seen(original, n) = ApplyLine(original, Seen(original, acc), line)
  BY <1>4, <1>10, <1>12, <1>13, <1>14, <1>15, Zenon
<1> QED
  BY <1>5, <1>7, <1>9, <1>16 DEF n

-----------------------------------------------------------------------------
(* The old file, line by line                                              *)

\* What was read at line i is where the file begins.
LEMMA ReadingGrows ==
  ASSUME NEW T, NEW tags, NEW s \in Seq(ScriptLines(T)), NEW P, IsReading(P, T, tags, s),
         NEW i \in 0..Len(s)
  PROVE  /\ Len(P[i]) <= Len(Texted(tags, s))
         /\ \A j \in 1..Len(P[i]) : Texted(tags, s)[j] = P[i][j]
<1> DEFINE Grown(k) == Len(P[i]) <= Len(P[k]) /\ \A j \in 1..Len(P[i]) : P[k][j] = P[i][j]
           N == {k \in 0..Len(s) : k >= i => Grown(k)}
<1>0. Len(s) \in Nat /\ \A k \in 0..Len(s) : P[k] \in Seq(T) /\ Len(P[k]) \in Nat
  BY LenProperties DEF IsReading
<1>1. 0 \in N
  BY <1>0
<1>2. ASSUME NEW k \in 0..Len(s), k \in N, k < Len(s) PROVE k + 1 \in N
  <2>1. k + 1 \in 1..Len(s) /\ (k + 1) - 1 = k /\ k + 1 \in 0..Len(s)
    BY <1>0, <1>2
  <2>2. P[k + 1] = TextAdded(tags, s, P[k], k + 1)
    <3>1. \A m \in 1..Len(s) : P[m] = TextAdded(tags, s, P[m - 1], m)
      BY DEF IsReading
    <3> QED
      BY <2>1, <3>1
  <2>3. s[k + 1].text \in T
    <3>1. s[k + 1] \in ScriptLines(T)
      BY <2>1, ElementOfSeq
    <3> QED
      BY <3>1 DEF ScriptLines
  <2>4. CASE i = k + 1
    BY <1>0, <2>1, <2>4
  <2>5. CASE i <= k
    <3>1. Grown(k)
      BY <1>2, <2>5
    <3>2. \/ P[k + 1] = P[k]
          \/ P[k + 1] = Append(P[k], s[k + 1].text)
      BY <2>2 DEF TextAdded
    <3>3. CASE P[k + 1] = P[k]
      BY <2>1, <3>1, <3>3
    <3>4. CASE P[k + 1] = Append(P[k], s[k + 1].text)
      <4>1. /\ Len(P[k + 1]) = Len(P[k]) + 1
            /\ \A j \in 1..Len(P[k]) : P[k + 1][j] = P[k][j]
        <5>1. PICK z \in Seq(T) : z = P[k]
          BY <1>0
        <5>2. /\ Len(Append(z, s[k + 1].text)) = Len(z) + 1
              /\ \A j \in 1..Len(z) : Append(z, s[k + 1].text)[j] = z[j]
          BY <2>3, AppendProperties
        <5> QED
          BY <3>4, <5>1, <5>2
      <4>2. Len(P[i]) \in Nat /\ Len(P[k]) \in Nat
        BY <1>0
      <4>3. Grown(k + 1)
        <5>1. Len(P[i]) <= Len(P[k]) /\ \A j \in 1..Len(P[i]) : P[k][j] = P[i][j]
          BY <3>1
        <5>2. \A j \in 1..Len(P[i]) : j \in 1..Len(P[k])
          BY <4>2, <5>1
        <5>3. \A j \in 1..Len(P[i]) : P[k + 1][j] = P[i][j]
          BY <4>1, <5>1, <5>2, Zenon
        <5>4. Len(P[i]) <= Len(P[k + 1])
          BY <4>1, <4>2, <5>1
        <5> QED
          BY <5>3, <5>4
      <4> QED
        BY <2>1, <4>3
    <3> QED
      BY <3>2, <3>3, <3>4
  <2> QED
    BY <2>1, <2>4, <2>5
<1>3. \A k \in 0..Len(s) : k \in N
  <2> HIDE DEF N
  <2> QED BY <1>0, <1>1, <1>2, PrefixesOf
<1>4. Grown(Len(s))
  BY <1>0, <1>3
<1>5. Texted(tags, s) = P[Len(s)]
  BY DEF IsReading
<1> QED
  BY <1>4, <1>5

\* As many lines were read as the script counts.
LEMMA LinesAreCounted ==
  ASSUME NEW T, NEW s \in Seq(ScriptLines(T)), NEW P, IsReading(P, T, OldTags, s)
  PROVE  \A i \in 0..Len(s) : Number(s, 1, i, IsOld) = Len(P[i])
<1> DEFINE C(i) == {h \in 1..i : IsOld(s, h)}
           N == {i \in 0..Len(s) : Cardinality(C(i)) = Len(P[i])}
<1>0. Len(s) \in Nat /\ \A k \in 0..Len(s) : P[k] \in Seq(T) /\ Len(P[k]) \in Nat
  BY LenProperties DEF IsReading
<1>1. 0 \in N
  <2>1. C(0) = {}
    OBVIOUS
  <2>2. P[0] = << >>
    BY DEF IsReading
  <2>3. Cardinality({}) = 0 /\ Len(<< >>) = 0
    BY FS_EmptySet, EmptySeq
  <2> QED
    BY <1>0, <2>1, <2>2, <2>3
<1>2. ASSUME NEW i \in 0..Len(s), i \in N, i < Len(s) PROVE i + 1 \in N
  <2>1. i + 1 \in 1..Len(s) /\ (i + 1) - 1 = i /\ i + 1 \in 0..Len(s)
    BY <1>0, <1>2
  <2>2. P[i + 1] = TextAdded(OldTags, s, P[i], i + 1)
    <3>1. \A m \in 1..Len(s) : P[m] = TextAdded(OldTags, s, P[m - 1], m)
      BY DEF IsReading
    <3> QED
      BY <2>1, <3>1
  <2>3. s[i + 1].text \in T
    <3>1. s[i + 1] \in ScriptLines(T)
      BY <2>1, ElementOfSeq
    <3> QED
      BY <3>1 DEF ScriptLines
  <2>4. CASE IsOld(s, i + 1)
    <3>1. P[i + 1] = Append(P[i], s[i + 1].text)
      BY <2>2, <2>4 DEF TextAdded, IsOld, OldTags
    <3>2. Len(P[i + 1]) = Len(P[i]) + 1
      <4>1. PICK z \in Seq(T) : z = P[i]
        BY <1>0
      <4>2. Len(Append(z, s[i + 1].text)) = Len(z) + 1
        BY <2>3, AppendProperties
      <4> QED
        BY <3>1, <4>1, <4>2
    <3>3. C(i + 1) = C(i) \cup {i + 1} /\ i + 1 \notin C(i)
      BY <2>1, <2>4
    <3>4. IsFiniteSet(C(i))
      <4>1. i \in Int /\ C(i) \in SUBSET (1..i)
        OBVIOUS
      <4>2. IsFiniteSet(1..i)
        BY <4>1, FS_Interval
      <4> QED
        BY <4>1, <4>2, FS_Subset
    <3>5. Cardinality(C(i) \cup {i + 1}) = Cardinality(C(i)) + 1
      <4> HIDE DEF C
      <4> QED BY <3>3, <3>4, FS_AddElement
    <3> QED
      BY <1>2, <2>1, <3>2, <3>3, <3>5
  <2>5. CASE ~IsOld(s, i + 1)
    <3>1. P[i + 1] = P[i]
      BY <2>2, <2>5 DEF TextAdded, IsOld, OldTags
    <3>2. C(i + 1) = C(i)
      BY <2>1, <2>5
    <3> QED
      BY <1>2, <2>1, <3>1, <3>2
  <2> QED
    BY <2>4, <2>5
<1>3. \A i \in 0..Len(s) : i \in N
  <2> HIDE DEF N
  <2> QED BY <1>0, <1>1, <1>2, PrefixesOf
<1> QED
  BY <1>3 DEF Number

-----------------------------------------------------------------------------
(* What is written of a change, applied to the old file                    *)

\* Each hunk shows something of the old file, unless there is none.
Anchored(s) ==
  \A i \in Starts(s) : OldFile(s) = << >> \/ Number(s, i, EndOf(s, i), IsOld) > 0

\* A hunk begins behind the lines of the old file that precede it.
LEMMA HunksAreInPlace ==
  ASSUME NEW T, NEW s \in Seq(ScriptLines(T)), Anchored(s),
         NEW P, IsReading(P, T, OldTags, s), NEW i \in 1..Len(s), i \in Starts(s)
  PROVE  FirstLine(HunkAt(s, i)) = Len(P[i - 1])
<1> DEFINE olds == Number(s, i, EndOf(s, i), IsOld)
           before == Number(s, 1, i - 1, IsOld)
<1>1. i - 1 \in 0..Len(s) /\ Len(s) \in Nat
  BY LenProperties
<1>2. before = Len(P[i - 1])
  BY <1>1, LinesAreCounted
<1>3. before \in Nat /\ olds \in Nat
  <2>1. Shown(s, i)
    BY DEF Starts
  <2>2. EndOf(s, i) \in Int /\ i \in Int /\ i - 1 \in Int /\ 1 \in Int
    BY <2>1, EndExists
  <2> QED
    BY <2>2, NumbersCount
<1>4. HunkAt(s, i).start = IF olds = 0 THEN before ELSE before + 1
  BY DEF HunkAt, Hunk
<1>5. olds = 0 => before = 0
  <2> SUFFICES ASSUME olds = 0 PROVE before = 0
    OBVIOUS
  <2>1. OldFile(s) = << >>
    BY DEF Anchored
  <2>2. Len(P[i - 1]) <= Len(Texted(OldTags, s))
    BY <1>1, ReadingGrows
  <2>3. Texted(OldTags, s) = << >>
    BY <2>1, FilesAreTexted
  <2> QED
    BY <1>2, <1>3, <2>2, <2>3, EmptySeq
<1> HIDE DEF olds, before
<1>6. Larger(HunkAt(s, i).start - 1, 0) = before
  BY <1>3, <1>4, <1>5 DEF Larger
<1> QED
  BY <1>2, <1>6 DEF FirstLine

\* old is where the file o begins; the state v has read it, and written new.
BeginsWith(o, old) == Len(old) <= Len(o) /\ \A j \in 1..Len(old) : o[j] = old[j]
At(v, old, new) == v.ok /\ v.pos = Len(old) /\ v.out = new
\* The state v would have written new if it had copied what follows of old.
Follows(o, v, old, new) ==
  /\ v.ok /\ v.pos <= Len(old)
  /\ v.out \o SubSeq(o, v.pos + 1, Len(old)) = new

\* A state that has read all of it has nothing to copy.
LEMMA AtFollows ==
  ASSUME NEW o \in Seq(Texts), NEW v \in States, NEW old \in Seq(Texts), NEW new \in Seq(Texts)
  PROVE  /\ At(v, old, new) => Follows(o, v, old, new)
         /\ Follows(o, v, old, new) /\ v.pos = Len(old) => At(v, old, new)
<1>1. v.ok \in BOOLEAN /\ v.out \in Seq(Texts) /\ v.pos \in Nat /\ Len(old) \in Nat
  BY LenProperties DEF States
<1>2. ASSUME v.pos = Len(old)
      PROVE  v.out \o SubSeq(o, v.pos + 1, Len(old)) = v.out
  <2>1. SubSeq(o, v.pos + 1, Len(old)) = << >>
    BY <1>1, <1>2, SubSeqEmpty
  <2>2. v.out \o << >> = v.out
    BY <1>1, ConcatEmptySeq
  <2> QED
    BY <2>1, <2>2, Zenon
<1>3. v.pos = Len(old) => v.pos <= Len(old)
  BY <1>1
<1> QED
  BY <1>2, <1>3, Zenon DEF At, Follows

\* What the next two lemmas need of numbers,
LEMMA NextNumber ==
  \A m \in Nat : /\ m + 1 \in 1..(m + 1)
                 /\ \A l \in Nat : m + 1 <= l => ~(m >= l)
                 /\ m + 1 # 1 => m > 0 /\ m \in 1..m
  OBVIOUS

\* ... and of sequences.
LEMMA TextsAppended ==
  \A a, b \in Seq(Texts), t \in Texts : Append(a \o b, t) = a \o Append(b, t)
  OBVIOUS

\* A stretch of a file and its next line.
LEMMA StretchGrows ==
  ASSUME NEW S, NEW o \in Seq(S), NEW a \in Nat, NEW n \in Nat, a <= n, n + 1 <= Len(o)
  PROVE  /\ SubSeq(o, a + 1, n) \in Seq(S)
         /\ SubSeq(o, a + 1, n + 1) = Append(SubSeq(o, a + 1, n), o[n + 1])
<1>1. /\ SubSeq(o, a + 1, n) \in Seq(S) /\ Len(SubSeq(o, a + 1, n)) = n - a
      /\ \A i \in 1..(n - a) : SubSeq(o, a + 1, n)[i] = o[a + i]
  <2>1. \A i \in (a + 1)..n : o[i] \in S
    BY ElementOfSeq
  <2>2. \A i \in 1..(n - a) : a + 1 + i - 1 = a + i
    OBVIOUS
  <2> QED
    BY <2>1, <2>2, SubSeqProperties
<1>2. /\ SubSeq(o, a + 1, n + 1) \in Seq(S) /\ Len(SubSeq(o, a + 1, n + 1)) = n + 1 - a
      /\ \A i \in 1..(n + 1 - a) : SubSeq(o, a + 1, n + 1)[i] = o[a + i]
  <2>1. \A i \in (a + 1)..(n + 1) : o[i] \in S
    BY ElementOfSeq
  <2>2. \A i \in 1..(n + 1 - a) : a + 1 + i - 1 = a + i
    OBVIOUS
  <2> QED
    BY <2>1, <2>2, SubSeqProperties
<1>3. o[n + 1] \in S
  BY ElementOfSeq
<1>4. PICK p \in Seq(S), q \in Seq(S), x \in S :
        p = SubSeq(o, a + 1, n) /\ q = SubSeq(o, a + 1, n + 1) /\ x = o[n + 1]
  BY <1>1, <1>2, <1>3
<1>5. /\ Len(p) = n - a /\ \A i \in 1..(n - a) : p[i] = o[a + i]
      /\ Len(q) = n + 1 - a /\ \A i \in 1..(n + 1 - a) : q[i] = o[a + i]
  BY <1>1, <1>2, <1>4, Zenon
<1>6. /\ Append(p, x) \in Seq(S) /\ Len(Append(p, x)) = Len(p) + 1
      /\ \A i \in 1..Len(p) : Append(p, x)[i] = p[i]
      /\ Append(p, x)[Len(p) + 1] = x
  BY AppendProperties
<1>7. q = Append(p, x)
  <2>1. a + (n + 1 - a) = n + 1
    OBVIOUS
  <2>2. q[n + 1 - a] = x
    <3>1. n + 1 - a \in 1..(n + 1 - a)
      OBVIOUS
    <3> QED
      BY <1>4, <1>5, <2>1, <3>1
  <2>3. Len(q) = Len(Append(p, x)) /\ \A i \in 1..Len(q) : q[i] = Append(p, x)[i]
    BY <1>5, <1>6, <2>2
  <2> QED
    BY <1>6, <2>3, SeqEqual
<1> QED
  BY <1>1, <1>4, <1>7, Zenon

\* A line that is not shown is copied, sooner or later.
LEMMA CopiedLater ==
  ASSUME NEW o \in Seq(Texts), NEW v \in States, NEW old \in Seq(Texts), NEW new \in Seq(Texts),
         NEW t \in Texts, BeginsWith(o, Append(old, t)), Follows(o, v, old, new)
  PROVE  Follows(o, v, Append(old, t), Append(new, t))
<1> DEFINE n == Len(old)
           q == SubSeq(o, v.pos + 1, n)
<1>1. v.ok /\ v.out \in Seq(Texts) /\ v.pos \in Nat /\ n \in Nat /\ v.pos <= n
  BY LenProperties DEF States, Follows
<1>2. Len(Append(old, t)) = n + 1 /\ Append(old, t)[n + 1] = t
  BY AppendProperties
<1>3. n + 1 <= Len(o) /\ o[n + 1] = t
  BY <1>1, <1>2 DEF BeginsWith
<1>4. SubSeq(o, v.pos + 1, n + 1) = Append(q, t) /\ q \in Seq(Texts)
  <2>1. PICK a \in Nat, m \in Nat : a = v.pos /\ m = n /\ a <= m /\ m + 1 <= Len(o)
    BY <1>1, <1>3
  <2>2. /\ SubSeq(o, a + 1, m) \in Seq(Texts)
        /\ SubSeq(o, a + 1, m + 1) = Append(SubSeq(o, a + 1, m), o[m + 1])
    BY <2>1, StretchGrows
  <2> QED
    BY <1>3, <2>1, <2>2, Zenon
<1>5. PICK y \in Seq(Texts) : y = q
  BY <1>4
<1>6. v.out \o q = new
  BY DEF Follows
<1> HIDE DEF q, n
<1>7. Append(v.out \o q, t) = v.out \o Append(q, t)
  <2>1. PICK z \in Seq(Texts) : z = v.out
    BY <1>1
  <2>2. Append(z \o y, t) = z \o Append(y, t)
    BY TextsAppended, Zenon
  <2> QED
    BY <1>5, <2>1, <2>2, Zenon
<1>8. v.out \o SubSeq(o, v.pos + 1, n + 1) = Append(new, t)
  BY <1>4, <1>6, <1>7, Zenon
<1>9. v.pos <= n + 1
  BY <1>1
<1> QED
  BY <1>1, <1>2, <1>8, <1>9, Zenon DEF Follows

\* ... at the next hunk, for instance,
LEMMA CopiedAtHunk ==
  ASSUME NEW o \in Seq(Texts), NEW v \in States, NEW old \in Seq(Texts), NEW new \in Seq(Texts),
         BeginsWith(o, old), Follows(o, v, old, new), NEW line, FirstLine(line) = Len(old)
  PROVE  At(AtHunk(o, v, line), old, new)
<1>1. v.ok /\ v.out \in Seq(Texts) /\ v.pos \in Nat /\ Len(old) \in Nat /\ Len(o) \in Nat
  BY LenProperties DEF States, Follows
<1>2. Smaller(Len(old), Len(o)) = Len(old)
  BY <1>1 DEF Smaller, BeginsWith
<1>3. Kept(o, v.pos, Len(old)) = SubSeq(o, v.pos + 1, Len(old))
  BY <1>2, Zenon DEF Kept
<1>4. v.out \o Kept(o, v.pos, Len(old)) = new
  BY <1>3, Zenon DEF Follows
<1>5. /\ AtHunk(o, v, line).ok = v.ok
      /\ AtHunk(o, v, line).pos = FirstLine(line)
      /\ AtHunk(o, v, line).out = v.out \o Kept(o, v.pos, FirstLine(line))
  BY DEF AtHunk, States
<1> QED
  BY <1>1, <1>4, <1>5, Zenon DEF At

\* ... or at the end.
LEMMA CopiedAtEnd ==
  ASSUME NEW o \in Seq(Texts), NEW v \in States, NEW new \in Seq(Texts), Follows(o, v, o, new)
  PROVE  v.ok /\ v.out \o Kept(o, v.pos, Len(o)) = new
<1>1. Smaller(Len(o), Len(o)) = Len(o)
  BY DEF Smaller
<1>2. Kept(o, v.pos, Len(o)) = SubSeq(o, v.pos + 1, Len(o))
  BY <1>1, Zenon DEF Kept
<1> QED
  BY <1>2, Zenon DEF Follows

\* A line of a hunk is found where the state is.
LEMMA LineIsFound ==
  ASSUME NEW o \in Seq(Texts), NEW v \in States, NEW old \in Seq(Texts), NEW new \in Seq(Texts),
         NEW t \in Texts, NEW tag \in {" ", "-", "+"}, At(v, old, new),
         tag # "+" => BeginsWith(o, Append(old, t))
  PROVE  At(ApplyLine(o, v, Body(tag, t)),
            IF tag = "+" THEN old ELSE Append(old, t),
            IF tag = "-" THEN new ELSE Append(new, t))
<1> DEFINE n == Len(old)
           w == ApplyLine(o, v, Body(tag, t))
<1>1. v.ok /\ v.pos = n /\ v.out = new /\ n \in Nat /\ Len(o) \in Nat
  BY LenProperties DEF At
<1>0. v.pos = n /\ n \in Nat /\ Len(o) \in Nat
  BY LenProperties DEF At
<1>2. /\ Body(tag, t).kind = "body" /\ Body(tag, t).tag = tag /\ Body(tag, t).text = t
  BY DEF Body
<1>3. CASE tag = "+"
  <2>1. w = [v EXCEPT !.out = Append(@, t)]
    BY <1>1, <1>2, <1>3 DEF ApplyLine
  <2>2. w.ok = v.ok /\ w.pos = v.pos /\ w.out = Append(v.out, t)
    BY <2>1 DEF States
  <2> HIDE DEF w, n
  <2> QED
    BY <1>1, <1>3, <2>2, Zenon DEF At, w, n
<1>4. CASE tag # "+"
  <2>1. Len(Append(old, t)) = n + 1 /\ Append(old, t)[n + 1] = t
    BY AppendProperties
  <2>2. n + 1 <= Len(o) /\ o[n + 1] = t
    <3>1. n + 1 \in 1..(n + 1)
      BY <1>0, NextNumber, Zenon
    <3>2. BeginsWith(o, Append(old, t))
      BY <1>4
    <3> QED
      BY <2>1, <3>1, <3>2, Zenon DEF BeginsWith
  <2>3. w = [v EXCEPT !.pos = @ + 1, !.out = IF tag = " " THEN Append(@, t) ELSE @]
    <3>1. ~(v.pos >= Len(o))
      BY <1>0, <2>2, NextNumber, Zenon
    <3>2. o[v.pos + 1] = t
      BY <1>0, <2>2, Zenon
    <3> QED
      BY <1>1, <1>2, <1>4, <3>1, <3>2 DEF ApplyLine
  <2>4. /\ w.ok = v.ok /\ w.pos = v.pos + 1
        /\ w.out = IF tag = " " THEN Append(v.out, t) ELSE v.out
    BY <2>3 DEF States
  <2>5. tag = " " <=> tag # "-"
    BY <1>4
  <2> HIDE DEF w, n
  <2>6. w.ok /\ w.pos = Len(Append(old, t)) /\ w.out = IF tag = "-" THEN new ELSE Append(new, t)
    BY <1>1, <2>1, <2>4, <2>5, Zenon
  <2> QED
    BY <1>4, <2>6, Zenon DEF At, w
<1> QED
  BY <1>3, <1>4

-----------------------------------------------------------------------------
(* The lines that are written, one by one                                  *)

\* What is written for a line that is shown.
LEMMA ShownLineType ==
  ASSUME NEW s \in Seq(ScriptLines(Texts)), NEW i \in 1..Len(s), Shown(s, i)
  PROVE  /\ s[i].tag \in {" ", "-", "+"} /\ s[i].text \in Texts
         /\ Body(s[i].tag, s[i].text) \in Lines /\ HunkAt(s, i) \in Lines
         /\ HunkAt(s, i).kind = "@@"
         /\ LineAt(s, FALSE, i) = Body(s[i].tag, s[i].text)
<1>1. s[i].tag \in {" ", "-", "+"} /\ s[i].text \in Texts
  <2>1. s[i] \in ScriptLines(Texts)
    BY ElementOfSeq
  <2> QED
    BY <2>1 DEF ScriptLines, Shown
<1>2. Body(s[i].tag, s[i].text) \in BodyLines(Texts) /\ HunkAt(s, i) \in HunkLines
  BY <1>1, HunkAtType DEF Body, BodyLines
<1>3. HunkAt(s, i).kind = "@@"
  BY <1>2 DEF HunkLines
<1>4. Body(s[i].tag, s[i].text) \in Lines /\ HunkAt(s, i) \in Lines
  BY <1>2, ShownAreLines DEF ShownLines
<1>5. LineAt(s, FALSE, i) = Body(s[i].tag, s[i].text)
  BY Zenon DEF LineAt
<1> QED
  BY <1>1, <1>3, <1>4, <1>5

\* A fold reads it: the header of the hunk, if one begins, and the line.
ReadsOn(A, F, b, s, lines, i, a) ==
  Folded(A, F, b, Written(s, FALSE, lines, i)) =
    F[<<IF i \in Starts(s) THEN F[<<a, HunkAt(s, i)>>] ELSE a, Body(s[i].tag, s[i].text)>>]

\* Reading what is written for a line reads the header of its hunk, if it has
\* one, and then the line.
LEMMA WrittenIsFolded ==
  ASSUME NEW A, NEW F \in Steps(A, Lines), NEW b \in A, NEW lines \in Seq(Lines),
         NEW s \in Seq(ScriptLines(Texts)), NEW i \in 1..Len(s), Shown(s, i),
         NEW a, a = Folded(A, F, b, lines)
  PROVE  a \in A /\ ReadsOn(A, F, b, s, lines, i, a)
<1>1. PICK h \in Lines, l \in Lines :
        /\ h = HunkAt(s, i) /\ l = Body(s[i].tag, s[i].text) /\ l = LineAt(s, FALSE, i)
  BY ShownLineType
<1>2. a \in A
  BY FoldedAppends
<1>3. PICK g \in Seq(Lines), k \in Seq(Lines), n \in Seq(Lines) :
        g = <<h>> /\ k = <<l>> /\ n = << >>
  <2>1. <<h>> \in Seq(Lines) /\ <<l>> \in Seq(Lines)
    OBVIOUS
  <2> QED
    BY <2>1, EmptySeq
<1>4. ASSUME NEW d \in A
      PROVE  /\ Folded(A, F, d, <<h>>) = F[<<d, h>>]
             /\ Folded(A, F, d, <<l>>) = F[<<d, l>>]
  <2>1. << >> \in Seq(Lines)
    BY EmptySeq
  <2>2. Unfolds(A, Lines, F, d, << >>)
    BY <2>1, FoldedFacts
  <2> QED
    BY <2>2 DEF Unfolds
<1>5. ASSUME NEW e \in Seq(Lines)
      PROVE  Folded(A, F, b, e \o k) = F[<<Folded(A, F, b, e), l>>]
  <2>1. Unfolds(A, Lines, F, b, e)
    BY FoldedFacts
  <2>2. Folded(A, F, b, e \o k) = Folded(A, F, Folded(A, F, b, e), k)
    BY <2>1, Zenon DEF Unfolds
  <2>3. Folded(A, F, b, e) \in A
    BY <2>1, Zenon DEF Unfolds
  <2> QED
    BY <1>3, <1>4, <2>2, <2>3, Zenon
<1>6. CASE i \in Starts(s)
  <2>1. PICK e \in Seq(Lines) : e = lines \o g
    BY ConcatProperties
  <2>2. Folded(A, F, b, lines \o g) = F[<<a, h>>]
    <3>1. Unfolds(A, Lines, F, b, lines)
      BY FoldedFacts
    <3>2. Folded(A, F, b, lines \o g) = Folded(A, F, a, g)
      BY <3>1, Zenon DEF Unfolds
    <3> QED
      BY <1>2, <1>3, <1>4, <3>2, Zenon
  <2>3. Written(s, FALSE, lines, i) = e \o k
    BY <1>1, <1>3, <1>6, <2>1, Zenon DEF Written
  <2> QED
    BY <1>1, <1>2, <1>5, <1>6, <2>1, <2>2, <2>3, Zenon DEF ReadsOn
<1>7. CASE i \notin Starts(s)
  <2>1. lines \o << >> = lines
    BY ConcatEmptySeq
  <2>2. Written(s, FALSE, lines, i) = (lines \o << >>) \o k
    BY <1>1, <1>3, <1>7, Zenon DEF Written
  <2> QED
    BY <1>1, <1>2, <1>5, <1>7, <2>1, <2>2, Zenon DEF ReadsOn
<1> QED
  BY <1>6, <1>7

\* No line looks like the header of a file.
PlainTexts(s) == \A i \in DOMAIN s : s[i].text \notin PlusTexts \cup DashTexts

\* The traces of a script: what is written, and both files.
Traces(s, P, Q, W) ==
  /\ IsRendering(P, Texts, s, FALSE)
  /\ IsReading(Q, Texts, OldTags, s)
  /\ IsReading(W, Texts, NewTags, s)

\* What has been applied after line i, and what is to be copied.
Caught(s, P, Q, W, i) ==
  LET acc == ParseAll(Parse0, P[i])
      v == Seen(OldFile(s), acc)
  IN /\ Follows(OldFile(s), v, Q[i], W[i])
     /\ (\E j \in 1..i : Shown(s, j)) => acc.hunk # NoHunk
     /\ i > 0 /\ Shown(s, i) => v.pos = Len(Q[i])

\* The types of the traces, and their next elements.
GoOn(s, P, Q, W, i, j) ==
  /\ j \in 1..Len(s) /\ j \in 0..Len(s) /\ j - 1 = i /\ i \in Nat
  /\ P[i] \in Seq(Lines) /\ P[j] = Written(s, FALSE, P[i], j)
  /\ Q[i] \in Seq(Texts) /\ Q[j] = TextAdded(OldTags, s, Q[i], j)
  /\ W[i] \in Seq(Texts) /\ W[j] = TextAdded(NewTags, s, W[i], j)
  /\ s[j].text \in Texts /\ s[j].tag \in {"=", " ", "-", "+"}
  /\ BeginsWith(OldFile(s), Q[i]) /\ BeginsWith(OldFile(s), Q[j])

\* The next line of a change, in both files and in what is written.
LEMMA TracesGoOn ==
  ASSUME NEW s \in Seq(ScriptLines(Texts)), NEW P, NEW Q, NEW W, Traces(s, P, Q, W),
         NEW i \in 0..Len(s), i < Len(s), NEW j, j = i + 1
  PROVE  GoOn(s, P, Q, W, i, j)
<1>1. j \in 1..Len(s) /\ j \in 0..Len(s) /\ j - 1 = i /\ i \in Nat
  BY LenProperties
<1>2. P[i] \in Seq(Lines) /\ P[j] = Written(s, FALSE, P[i], j)
  <2>1. /\ P \in [0..Len(s) -> Seq(ShownLines(Texts))]
        /\ \A m \in 1..Len(s) : P[m] = Written(s, FALSE, P[m - 1], m)
    BY DEF Traces, IsRendering
  <2>2. P[i] \in Seq(ShownLines(Texts))
    BY <2>1
  <2>3. P[i] \in Seq(Lines)
    BY <2>2, ShownAreLines, SeqMonotonic
  <2>4. P[j] = Written(s, FALSE, P[j - 1], j)
    BY <1>1, <2>1
  <2> QED
    BY <1>1, <2>3, <2>4, Zenon
<1>3. Q[i] \in Seq(Texts) /\ Q[j] = TextAdded(OldTags, s, Q[i], j)
  <2>1. /\ Q \in [0..Len(s) -> Seq(Texts)]
        /\ \A m \in 1..Len(s) : Q[m] = TextAdded(OldTags, s, Q[m - 1], m)
    BY DEF Traces, IsReading
  <2>2. Q[j] = TextAdded(OldTags, s, Q[j - 1], j)
    BY <1>1, <2>1
  <2> QED
    BY <1>1, <2>1, <2>2, Zenon
<1>4. W[i] \in Seq(Texts) /\ W[j] = TextAdded(NewTags, s, W[i], j)
  <2>1. /\ W \in [0..Len(s) -> Seq(Texts)]
        /\ \A m \in 1..Len(s) : W[m] = TextAdded(NewTags, s, W[m - 1], m)
    BY DEF Traces, IsReading
  <2>2. W[j] = TextAdded(NewTags, s, W[j - 1], j)
    BY <1>1, <2>1
  <2> QED
    BY <1>1, <2>1, <2>2, Zenon
<1>5. s[j].text \in Texts /\ s[j].tag \in {"=", " ", "-", "+"}
  <2>1. s[j] \in ScriptLines(Texts)
    BY <1>1, ElementOfSeq
  <2> QED
    BY <2>1 DEF ScriptLines
<1>6. ASSUME NEW k \in 0..Len(s) PROVE BeginsWith(OldFile(s), Q[k])
  <2>1. IsReading(Q, Texts, OldTags, s)
    BY DEF Traces
  <2>2. /\ Len(Q[k]) <= Len(Texted(OldTags, s))
        /\ \A m \in 1..Len(Q[k]) : Texted(OldTags, s)[m] = Q[k][m]
    BY <2>1, ReadingGrows
  <2>3. OldFile(s) = Texted(OldTags, s)
    BY FilesAreTexted
  <2> QED
    BY <2>2, <2>3, Zenon DEF BeginsWith
<1> QED
  BY <1>1, <1>2, <1>3, <1>4, <1>5, <1>6 DEF GoOn

\* What is parsed so far.
LEMMA ParsedType ==
  ASSUME NEW d \in Seq(Lines), NEW o \in Seq(Texts)
  PROVE  ParseAll(Parse0, d) \in ParseAccs /\ Seen(o, ParseAll(Parse0, d)) \in States
  BY ParseFromStart, ParseAllFacts, SeenType

\* A line that is not shown,
LEMMA CaughtUnshown ==
  ASSUME NEW s \in Seq(ScriptLines(Texts)), NEW P, NEW Q, NEW W, Traces(s, P, Q, W),
         NEW i \in 0..Len(s), i < Len(s), Caught(s, P, Q, W, i), ~Shown(s, i + 1)
  PROVE  Caught(s, P, Q, W, i + 1)
<1>1. PICK j : j = i + 1
  OBVIOUS
<1>2. /\ j \in 1..Len(s) /\ i \in Nat
      /\ P[i] \in Seq(Lines) /\ P[j] = Written(s, FALSE, P[i], j)
      /\ Q[i] \in Seq(Texts) /\ Q[j] = TextAdded(OldTags, s, Q[i], j)
      /\ W[i] \in Seq(Texts) /\ W[j] = TextAdded(NewTags, s, W[i], j)
      /\ s[j].text \in Texts /\ BeginsWith(OldFile(s), Q[j])
  <2>1. GoOn(s, P, Q, W, i, j)
    BY <1>1, TracesGoOn
  <2> QED
    BY <2>1, Zenon DEF GoOn
<1>3. s[j].tag = "=" /\ ~Shown(s, j)
  BY <1>1 DEF Shown
<1>4. P[j] = P[i]
  BY <1>2, <1>3, Zenon DEF Written
<1>5. Q[j] = Append(Q[i], s[j].text) /\ W[j] = Append(W[i], s[j].text)
  BY <1>2, <1>3 DEF TextAdded, OldTags, NewTags
<1>6. PICK o \in Seq(Texts), v \in States, acc \in ParseAccs :
        o = OldFile(s) /\ acc = ParseAll(Parse0, P[i]) /\ v = Seen(o, acc)
  BY <1>2, FilesAreTexts, ParsedType
<1>7. Follows(o, v, Q[i], W[i]) /\ ((\E k \in 1..i : Shown(s, k)) => acc.hunk # NoHunk)
  BY <1>6, Zenon DEF Caught
<1>8. Follows(o, v, Append(Q[i], s[j].text), Append(W[i], s[j].text))
  <2>1. BeginsWith(o, Append(Q[i], s[j].text))
    BY <1>2, <1>5, <1>6, Zenon
  <2>2. PICK old \in Seq(Texts), new \in Seq(Texts), t \in Texts :
          old = Q[i] /\ new = W[i] /\ t = s[j].text
    BY <1>2
  <2>3. Follows(o, v, Append(old, t), Append(new, t))
    <3>1. BeginsWith(o, Append(old, t)) /\ Follows(o, v, old, new)
      BY <1>7, <2>1, <2>2, Zenon
    <3> QED
      BY <3>1, CopiedLater
  <2> QED
    BY <2>2, <2>3, Zenon
<1>9. (\E k \in 1..j : Shown(s, k)) => \E k \in 1..i : Shown(s, k)
  <2>1. \A k \in 1..j : k \in 1..i \/ k = j
    BY <1>1, <1>2
  <2> QED
    BY <1>3, <2>1, Zenon
<1>10. Caught(s, P, Q, W, j)
  BY <1>3, <1>4, <1>5, <1>6, <1>7, <1>8, <1>9, Zenon DEF Caught
<1> QED
  BY <1>1, <1>10, Zenon

\* ... and one that is.
LEMMA CaughtShown ==
  ASSUME NEW s \in Seq(ScriptLines(Texts)), PlainTexts(s), Anchored(s),
         NEW P, NEW Q, NEW W, Traces(s, P, Q, W),
         NEW i \in 0..Len(s), i < Len(s), Caught(s, P, Q, W, i), Shown(s, i + 1)
  PROVE  Caught(s, P, Q, W, i + 1)
<1>1. PICK j : j = i + 1
  OBVIOUS
<1>2. /\ j \in 1..Len(s) /\ j - 1 = i /\ i \in Nat
      /\ P[i] \in Seq(Lines) /\ P[j] = Written(s, FALSE, P[i], j)
      /\ Q[i] \in Seq(Texts) /\ Q[j] = TextAdded(OldTags, s, Q[i], j)
      /\ W[i] \in Seq(Texts) /\ W[j] = TextAdded(NewTags, s, W[i], j)
      /\ BeginsWith(OldFile(s), Q[i]) /\ BeginsWith(OldFile(s), Q[j])
  <2>1. GoOn(s, P, Q, W, i, j)
    BY <1>1, TracesGoOn
  <2> QED
    BY <2>1, Zenon DEF GoOn
<1>3. Shown(s, j)
  BY <1>1, Zenon
<1>4. PICK h \in Lines, l \in Lines, t \in Texts, tag \in {" ", "-", "+"} :
        /\ h = HunkAt(s, j) /\ h.kind = "@@" /\ l = Body(tag, t)
        /\ t = s[j].text /\ tag = s[j].tag
  BY <1>2, <1>3, ShownLineType
<1>5. PICK o \in Seq(Texts), acc \in ParseAccs, v \in States :
        o = OldFile(s) /\ acc = ParseAll(Parse0, P[i]) /\ v = Seen(o, acc)
  BY <1>2, FilesAreTexts, ParsedType
<1>6. /\ Follows(o, v, Q[i], W[i])
      /\ (\E k \in 1..i : Shown(s, k)) => acc.hunk # NoHunk
      /\ i > 0 /\ Shown(s, i) => v.pos = Len(Q[i])
  BY <1>5, Zenon DEF Caught
<1> DEFINE mid == IF j \in Starts(s) THEN ParseLine(acc, h) ELSE acc
<1>7. ParseAll(Parse0, P[j]) = ParseLine(mid, l)
  <2>1. Folded(ParseAccs, ParseStep, Parse0, Written(s, FALSE, P[i], j)) =
              ParseStep[<<IF j \in Starts(s) THEN ParseStep[<<acc, h>>] ELSE acc, l>>]
    <3>1. ParseStep \in Steps(ParseAccs, Lines) /\ Parse0 \in ParseAccs
      BY ParseSteps, <1>2, ParseFromStart
    <3>2. acc = Folded(ParseAccs, ParseStep, Parse0, P[i])
      BY <1>5, Zenon DEF ParseAll
    <3>3. PICK lines \in Seq(Lines) : lines = P[i]
      BY <1>2
    <3>4. ReadsOn(ParseAccs, ParseStep, Parse0, s, lines, j, acc)
      <4>1. acc = Folded(ParseAccs, ParseStep, Parse0, lines)
        BY <3>2, <3>3, Zenon
      <4>2. j \in 1..Len(s)
        BY <1>2
      <4> QED
        BY <1>3, <3>1, <4>1, <4>2, WrittenIsFolded
    <3> QED
      BY <1>4, <3>3, <3>4, Zenon DEF ReadsOn
  <2>2. ParseStep[<<acc, h>>] = ParseLine(acc, h) /\ ParseLine(acc, h) \in ParseAccs
    BY ParseSteps, ParseLineType
  <2>3. mid \in ParseAccs
    BY <2>2
  <2>4. ParseStep[<<mid, l>>] = ParseLine(mid, l)
    <3> HIDE DEF mid
    <3> QED
      BY <2>3, ParseSteps
  <2> QED
    BY <1>2, <2>1, <2>2, <2>4, Zenon DEF ParseAll
<1>8. /\ mid \in ParseAccs /\ mid.hunk # NoHunk
      /\ At(Seen(o, mid), Q[i], W[i])
  <2>1. CASE j \in Starts(s)
    <3>1. FirstLine(h) = Len(Q[i])
      <4>1. IsReading(Q, Texts, OldTags, s)
        BY DEF Traces
      <4>2. FirstLine(HunkAt(s, j)) = Len(Q[j - 1])
        BY <1>2, <2>1, <4>1, HunksAreInPlace
      <4> QED
        BY <1>2, <1>4, <4>2, Zenon
    <3>2. v.ok /\ FirstLine(h) >= v.pos
      <4>1. v.pos \in Nat /\ Len(Q[i]) \in Nat
        BY <1>2, LenProperties DEF States
      <4> QED
        BY <1>6, <3>1, <4>1 DEF Follows
    <3>3. /\ ParseLine(acc, h) \in ParseAccs /\ ParseLine(acc, h).hunk # NoHunk
          /\ Seen(o, ParseLine(acc, h)) = AtHunk(o, v, h)
      <4>1. Seen(o, acc).ok /\ FirstLine(h) >= Seen(o, acc).pos
        BY <1>5, <3>2, Zenon
      <4>2. /\ ParseLine(acc, h) \in ParseAccs /\ ParseLine(acc, h).hunk # NoHunk
            /\ Seen(o, ParseLine(acc, h)) = AtHunk(o, Seen(o, acc), h)
        BY <1>4, <4>1, HunkBegins
      <4> QED
        BY <1>5, <4>2, Zenon
    <3>4. At(AtHunk(o, v, h), Q[i], W[i])
      <4>1. PICK old \in Seq(Texts), new \in Seq(Texts) : old = Q[i] /\ new = W[i]
        BY <1>2
      <4>2. BeginsWith(o, old) /\ Follows(o, v, old, new) /\ FirstLine(h) = Len(old)
        BY <1>2, <1>5, <1>6, <3>1, <4>1, Zenon
      <4>3. At(AtHunk(o, v, h), old, new)
        BY <4>2, CopiedAtHunk
      <4> QED
        BY <4>1, <4>3, Zenon
    <3> QED
      BY <2>1, <3>3, <3>4, Zenon
  <2>2. CASE j \notin Starts(s)
    <3>1. j # 1 /\ Shown(s, i)
      <4>1. j \in DOMAIN s
        BY <1>2, LenProperties
      <4>2. j # 1 /\ Shown(s, j - 1)
        BY <1>3, <2>2, <4>1, Zenon DEF Starts
      <4>3. j - 1 = i
        BY <1>2, Zenon
      <4> QED
        BY <4>2, <4>3, Zenon
    <3>2. i > 0 /\ i \in 1..i
      <4>1. i \in Nat
        BY <1>2, Zenon
      <4> QED
        BY <1>1, <3>1, <4>1, NextNumber, Zenon
    <3>3. acc.hunk # NoHunk /\ v.pos = Len(Q[i])
      BY <1>6, <3>1, <3>2
    <3>4. At(v, Q[i], W[i])
      <4>1. PICK old \in Seq(Texts), new \in Seq(Texts) : old = Q[i] /\ new = W[i]
        BY <1>2
      <4>2. Follows(o, v, old, new) /\ v.pos = Len(old)
        BY <1>6, <3>3, <4>1, Zenon
      <4>3. At(v, old, new)
        BY <4>2, AtFollows
      <4> QED
        BY <4>1, <4>3, Zenon
    <3> QED
      BY <1>5, <2>2, <3>3, <3>4, Zenon
  <2> QED
    BY <2>1, <2>2
<1> HIDE DEF mid
<1>9. /\ ParseLine(mid, l) \in ParseAccs
      /\ ParseLine(mid, l).hunk # NoHunk
      /\ Seen(o, ParseLine(mid, l)) = ApplyLine(o, Seen(o, mid), l)
  <2>1. l.kind = "body" /\ l.text = t /\ t \notin PlusTexts
    <3>1. j \in DOMAIN s
      BY <1>2, LenProperties
    <3> QED
      BY <1>4, <3>1 DEF Body, PlainTexts
  <2>2. ~StartsNew(l)
    BY <2>1 DEF StartsNew
  <2> QED
    BY <1>8, <2>1, <2>2, BodyGoesOn
<1>10. /\ Q[j] = IF tag = "+" THEN Q[i] ELSE Append(Q[i], t)
       /\ W[j] = IF tag = "-" THEN W[i] ELSE Append(W[i], t)
  BY <1>2, <1>4 DEF TextAdded, OldTags, NewTags
<1>11. At(ApplyLine(o, Seen(o, mid), l), Q[j], W[j])
  <2>1. PICK old \in Seq(Texts), new \in Seq(Texts), w \in States :
          old = Q[i] /\ new = W[i] /\ w = Seen(o, mid)
    BY <1>2, <1>8, SeenType
  <2>2. tag # "+" => BeginsWith(o, Append(old, t))
    BY <1>2, <1>5, <1>10, <2>1, Zenon
  <2>3. At(w, old, new)
    BY <1>8, <2>1, Zenon
  <2>4. At(ApplyLine(o, w, Body(tag, t)),
           IF tag = "+" THEN old ELSE Append(old, t),
           IF tag = "-" THEN new ELSE Append(new, t))
    BY <2>2, <2>3, LineIsFound
  <2> QED
    BY <1>4, <1>10, <2>1, <2>4, Zenon
<1>12. PICK n \in ParseAccs, u \in States : n = ParseLine(mid, l) /\ u = Seen(o, n)
  BY <1>9, SeenType
<1>13. At(u, Q[j], W[j]) /\ n.hunk # NoHunk /\ n = ParseAll(Parse0, P[j])
  BY <1>7, <1>9, <1>11, <1>12, Zenon
<1>14. Follows(o, u, Q[j], W[j]) /\ u.pos = Len(Q[j])
  <2>1. Q[j] \in Seq(Texts) /\ W[j] \in Seq(Texts)
    <3>1. Append(Q[i], t) \in Seq(Texts) /\ Append(W[i], t) \in Seq(Texts)
      BY <1>2, AppendProperties
    <3> QED
      BY <1>2, <1>10, <3>1, Zenon
  <2>2. PICK old \in Seq(Texts), new \in Seq(Texts) : old = Q[j] /\ new = W[j]
    BY <2>1
  <2>3. At(u, old, new)
    BY <1>13, <2>2, Zenon
  <2>4. Follows(o, u, old, new) /\ u.pos = Len(old)
    BY <2>3, AtFollows DEF At
  <2> QED
    BY <2>2, <2>4, Zenon
<1>15. Caught(s, P, Q, W, j)
  BY <1>5, <1>12, <1>13, <1>14, Zenon DEF Caught
<1> QED
  BY <1>1, <1>15, Zenon

\* All lines that are written lead from the old file to the new.
LEMMA CaughtAtEnd ==
  ASSUME NEW s \in Seq(ScriptLines(Texts)), PlainTexts(s), Anchored(s),
         NEW P, NEW Q, NEW W, Traces(s, P, Q, W)
  PROVE  Caught(s, P, Q, W, Len(s))
<1> DEFINE N == {i \in 0..Len(s) : Caught(s, P, Q, W, i)}
<1>1. Len(s) \in Nat
  BY LenProperties
<1>2. 0 \in N
  <2>1. P[0] = << >> /\ Q[0] = << >> /\ W[0] = << >>
    BY DEF Traces, IsRendering, IsReading
  <2>2. PICK o \in Seq(Texts) : o = OldFile(s)
    BY FilesAreTexts
  <2>3. << >> \in Seq(Lines) /\ << >> \in Seq(HunkRecs) /\ << >> \in Seq(Texts)
    BY EmptySeq
  <2>4. ParseAll(Parse0, << >>) = Parse0 /\ HunkRead(Parse0) = << >>
    <3>1. Parse0 \in ParseAccs
      BY <2>3, ParseFromStart
    <3>2. ParseAll(Parse0, << >>) = Parse0
      BY <2>3, <3>1, ParseAllFacts
    <3> QED
      BY <3>2 DEF Parse0, HunkRead
  <2>5. ApplyAll(o, Apply0, << >>) = Apply0
    BY <2>3, Apply0Type, ApplyAllFacts
  <2>6. Seen(o, Parse0) = Apply0
    BY <2>4, <2>5, Zenon DEF Seen
  <2>7. At(Apply0, << >>, << >>)
    BY EmptySeq DEF At, Apply0
  <2>8. Follows(o, Apply0, << >>, << >>)
    <3>1. PICK n \in Seq(Texts), v \in States : n = << >> /\ v = Apply0
      BY <2>3, Apply0Type
    <3>2. At(v, n, n)
      BY <2>7, <3>1, Zenon
    <3>3. Follows(o, v, n, n)
      BY <3>2, AtFollows
    <3> QED
      BY <3>1, <3>3, Zenon
  <2>9. ~(0 > 0) /\ ~\E j \in 1..0 : Shown(s, j)
    OBVIOUS
  <2>10. Caught(s, P, Q, W, 0)
    BY <2>1, <2>2, <2>4, <2>6, <2>8, <2>9, Zenon DEF Caught
  <2> QED
    BY <1>1, <2>10
<1>3. ASSUME NEW i \in 0..Len(s), i \in N, i < Len(s) PROVE i + 1 \in N
  <2>1. Caught(s, P, Q, W, i)
    BY <1>3
  <2>2. Caught(s, P, Q, W, i + 1)
    <3>1. CASE Shown(s, i + 1)
      BY <1>3, <2>1, <3>1, CaughtShown
    <3>2. CASE ~Shown(s, i + 1)
      BY <1>3, <2>1, <3>2, CaughtUnshown
    <3> QED
      BY <3>1, <3>2
  <2>3. i + 1 \in 0..Len(s)
    BY <1>1, <1>3
  <2> QED
    BY <2>2, <2>3
<1>4. \A i \in 0..Len(s) : i \in N
  <2> HIDE DEF N
  <2> QED BY <1>1, <1>2, <1>3, PrefixesOf
<1>5. Len(s) \in 0..Len(s)
  BY <1>1
<1> QED
  BY <1>4, <1>5

\* The hunks of what is written rebuild the new file, whatever else a diff has.
LEMMA RenderedIsApplied ==
  ASSUME NEW s \in Seq(ScriptLines(Texts)), PlainTexts(s), Anchored(s),
         \E i \in DOMAIN s : Shown(s, i),
         NEW d \in Seq(Lines), ParseHunks(d) = HunkRead(ParseAll(Parse0, Rendered(s, FALSE)))
  PROVE  /\ ApplyUnifiedDiff(OldFile(s), d).ok
         /\ ApplyUnifiedDiff(OldFile(s), d).out = NewFile(s)
<1>1. PICK P, Q, W : Traces(s, P, Q, W)
  <2>1. FALSE \in BOOLEAN
    OBVIOUS
  <2>2. \E P : IsRendering(P, Texts, s, FALSE)
    BY <2>1, RenderingExists
  <2>3. (\E Q : IsReading(Q, Texts, OldTags, s)) /\ (\E W : IsReading(W, Texts, NewTags, s))
    BY ReadingExists
  <2> QED
    BY <2>2, <2>3, Zenon DEF Traces
<1>2. Caught(s, P, Q, W, Len(s))
  BY <1>1, CaughtAtEnd
<1>3. /\ P[Len(s)] = Rendered(s, FALSE)
      /\ Q[Len(s)] = OldFile(s) /\ W[Len(s)] = NewFile(s)
  <2>1. /\ P[Len(s)] = Rendered(s, FALSE)
        /\ Q[Len(s)] = Texted(OldTags, s) /\ W[Len(s)] = Texted(NewTags, s)
    BY <1>1, Zenon DEF Traces, IsRendering, IsReading
  <2> QED
    BY <2>1, FilesAreTexted, Zenon
<1>4. PICK o \in Seq(Texts), new \in Seq(Texts) : o = OldFile(s) /\ new = NewFile(s)
  BY FilesAreTexts
<1>5. PICK lines \in Seq(Lines) : lines = Rendered(s, FALSE)
  <2>1. Rendered(s, FALSE) \in Seq(ShownLines(Texts))
    <3>1. FALSE \in BOOLEAN
      OBVIOUS
    <3> QED
      BY <3>1, RenderedType
  <2> QED
    BY <2>1, ShownAreLines, SeqMonotonic
<1>6. PICK acc \in ParseAccs, v \in States : acc = ParseAll(Parse0, lines) /\ v = Seen(o, acc)
  BY ParsedType
<1>7. Follows(o, v, o, new) /\ acc.hunk # NoHunk
  <2>1. /\ Follows(o, v, o, new)
        /\ (\E j \in 1..Len(s) : Shown(s, j)) => acc.hunk # NoHunk
    BY <1>2, <1>3, <1>4, <1>5, <1>6, Zenon DEF Caught
  <2>2. DOMAIN s = 1..Len(s)
    BY LenProperties
  <2> QED
    BY <2>1, <2>2, Zenon
<1>8. Applied(o, d) = v /\ ParseHunks(d) = HunkRead(acc)
  BY <1>5, <1>6, Zenon DEF Applied, Seen
<1>9. HunkRead(acc) # << >>
  <2>1. acc.hunks \in Seq(HunkRecs) /\ acc.hunk \in HunkRecs
    BY DEF ParseAccs
  <2>2. HunkRead(acc) = Append(acc.hunks, acc.hunk)
    BY <1>7 DEF HunkRead
  <2>3. Append(acc.hunks, acc.hunk) # << >>
    <3>1. PICK z \in Seq(HunkRecs), h \in HunkRecs : z = acc.hunks /\ h = acc.hunk
      BY <2>1
    <3>2. Append(z, h) # << >>
      BY AppendProperties
    <3> QED
      BY <3>1, <3>2, Zenon
  <2> QED
    BY <2>2, <2>3, Zenon
<1>10. v.ok /\ v.out \o Kept(o, v.pos, Len(o)) = new
  BY <1>7, CopiedAtEnd
<1>11. ApplyUnifiedDiff(o, d) =
         IF ParseHunks(d) = << >> \/ ~Applied(o, d).ok THEN Failed
         ELSE [Applied(o, d) EXCEPT !.out = @ \o Kept(o, Applied(o, d).pos, Len(o))]
  BY ApplyUnifiedDiffIs
<1>12. ApplyUnifiedDiff(o, d) = [v EXCEPT !.out = @ \o Kept(o, v.pos, Len(o))]
  BY <1>8, <1>9, <1>10, <1>11, Zenon
<1>13. ASSUME NEW x PROVE [v EXCEPT !.out = x].ok = v.ok /\ [v EXCEPT !.out = x].out = x
  BY DEF States
<1>14. /\ ApplyUnifiedDiff(o, d).ok = v.ok
       /\ ApplyUnifiedDiff(o, d).out = v.out \o Kept(o, v.pos, Len(o))
  BY <1>12, <1>13, Zenon
<1> QED
  BY <1>4, <1>10, <1>14, Zenon

\* The part of one file in a diff: its own lines, and metadata of the next file.
FilePart(p, s, stamp, last) ==
  IF stamp /\ ~last THEN Part(p, s, stamp) \o <<Metadata>> ELSE Part(p, s, stamp)

\* Neither its headers nor the metadata behind it are of a hunk.
LEMMA PartIsParsed ==
  ASSUME NEW s \in Seq(ScriptLines(Texts)), NEW p \in PathNames,
         NEW stamp \in BOOLEAN, NEW last \in BOOLEAN
  PROVE  /\ FilePart(p, s, stamp, last) \in Seq(Lines)
         /\ ParseHunks(FilePart(p, s, stamp, last))
              = HunkRead(ParseAll(Parse0, Rendered(s, FALSE)))
<1>1. PICK x \in Lines, y \in Lines, m \in Lines :
        x = Old(p, stamp) /\ y = New(p, stamp) /\ m = Metadata
  BY DEF Old, New, Lines
<1>2. PICK r \in Seq(Lines) : r = Rendered(s, FALSE)
  <2>1. Rendered(s, FALSE) \in Seq(ShownLines(Texts))
    <3>1. FALSE \in BOOLEAN
      OBVIOUS
    <3> QED
      BY <3>1, RenderedType
  <2> QED
    BY <2>1, ShownAreLines, SeqMonotonic
<1>3. PICK a \in Seq(Lines), b \in Seq(Lines), k \in Seq(Lines), n \in Seq(Lines) :
        a = <<x>> /\ b = <<y>> /\ k = <<m>> /\ n = << >>
  <2>1. <<x>> \in Seq(Lines) /\ <<y>> \in Seq(Lines) /\ <<m>> \in Seq(Lines)
    OBVIOUS
  <2> QED
    BY <2>1, EmptySeq
<1>4. /\ \A e \in ParseAccs : ParseAll(e, a) = ParseLine(e, x)
      /\ \A e \in ParseAccs : ParseAll(e, b) = ParseLine(e, y)
      /\ \A e \in ParseAccs : ParseAll(e, k) = ParseLine(e, m)
  <2>1. ASSUME NEW e \in ParseAccs
        PROVE  /\ ParseAll(e, <<x>>) = ParseLine(e, x)
               /\ ParseAll(e, <<y>>) = ParseLine(e, y)
               /\ ParseAll(e, <<m>>) = ParseLine(e, m)
    BY <1>3, ParseAllFacts
  <2> QED
    BY <1>3, <2>1, Zenon
<1>5. Parse0 \in ParseAccs
  BY <1>3, ParseFromStart
<1>6. ParseLine(Parse0, x) = Parse0 /\ ParseLine(Parse0, y) = Parse0
  BY <1>1 DEF ParseLine, Parse0, StartsNew, Old, New
<1>7. \A d, e \in Seq(Lines), c \in ParseAccs : ParseAll(c, d \o e) = ParseAll(ParseAll(c, d), e)
  BY ParseAllFacts
<1>8. PICK h \in Seq(Lines), q \in Seq(Lines) : h = a \o b /\ q = h \o r
  BY ConcatProperties
<1>9. Part(p, s, stamp) = q
  <2>1. <<x, y>> = <<x>> \o <<y>>
    BY PairIsConcat
  <2> QED
    BY <1>1, <1>2, <1>3, <1>8, <2>1, Zenon DEF Part
<1>10. PICK acc \in ParseAccs : acc = ParseAll(Parse0, r)
  BY <1>5, ParseAllFacts
<1>11. ParseAll(Parse0, q) = acc
  <2>1. ParseAll(Parse0, h) = ParseAll(ParseAll(Parse0, a), b)
    BY <1>5, <1>7, <1>8, Zenon
  <2>2. ParseAll(Parse0, a) = Parse0 /\ ParseAll(Parse0, b) = Parse0
    BY <1>4, <1>5, <1>6, Zenon
  <2>3. ParseAll(Parse0, q) = ParseAll(ParseAll(Parse0, h), r)
    BY <1>5, <1>7, <1>8, Zenon
  <2> QED
    BY <1>10, <2>1, <2>2, <2>3, Zenon
<1>12. HunkRead(ParseLine(acc, m)) = HunkRead(acc)
  BY <1>1 DEF ParseLine, HunkRead, Metadata, StartsNew
<1>13. PICK f \in Seq(Lines) : f = q \o k
  BY ConcatProperties
<1>14. ParseAll(Parse0, f) = ParseLine(acc, m)
  BY <1>4, <1>5, <1>7, <1>11, <1>13, Zenon
<1>15. /\ ParseHunks(q) = HunkRead(ParseAll(Parse0, q))
       /\ ParseHunks(f) = HunkRead(ParseAll(Parse0, f))
  BY ParseFromStart
<1>16. FilePart(p, s, stamp, last) = q \/ FilePart(p, s, stamp, last) = f
  BY <1>1, <1>3, <1>9, <1>13, Zenon DEF FilePart
<1> QED
  BY <1>2, <1>10, <1>11, <1>12, <1>14, <1>15, <1>16, Zenon

-----------------------------------------------------------------------------
(* The parts of a diff of two files                                        *)

\* Lines that no parser takes for the header of a file, and that it keeps.
Middle == {x \in Lines : /\ ~StartsOld(x) /\ ~StartsNew(x)
                         /\ ~IsHeader(x, "---") /\ ~IsHeader(x, "+++")}
KeptMiddle == {x \in Middle : KeepLine(x)}

\* What is written of a change without such texts consists of them.
LEMMA PlainIsMiddle ==
  ASSUME NEW s \in Seq(ScriptLines(Texts)), PlainTexts(s)
  PROVE  Rendered(s, FALSE) \in Seq(KeptMiddle) /\ Rendered(s, FALSE) \in Seq(Middle)
<1>1. PICK P : IsRendering(P, Texts, s, FALSE)
  <2>1. FALSE \in BOOLEAN
    OBVIOUS
  <2> QED
    BY <2>1, RenderingExists
<1> DEFINE N == {i \in 0..Len(s) : P[i] \in Seq(KeptMiddle)}
<1>2. Len(s) \in Nat /\ DOMAIN s = 1..Len(s)
  BY LenProperties
<1>3. 0 \in N
  <2>1. P[0] = << >>
    BY <1>1 DEF IsRendering
  <2>2. << >> \in Seq(KeptMiddle)
    BY EmptySeq
  <2>3. P[0] \in Seq(KeptMiddle)
    BY <2>1, <2>2, Zenon
  <2> QED
    BY <1>2, <2>3
<1>4. ASSUME NEW i \in 0..Len(s), i \in N, i < Len(s) PROVE i + 1 \in N
  <2>1. PICK j : j = i + 1
    OBVIOUS
  <2>2. j \in 1..Len(s) /\ j - 1 = i /\ j \in 0..Len(s)
    BY <1>2, <1>4, <2>1
  <2>3. P[j] = Written(s, FALSE, P[i], j)
    <3>1. \A m \in 1..Len(s) : P[m] = Written(s, FALSE, P[m - 1], m)
      BY <1>1 DEF IsRendering
    <3>2. P[j] = Written(s, FALSE, P[j - 1], j)
      BY <2>2, <3>1
    <3>3. j - 1 = i
      BY <2>2
    <3> QED
      BY <3>2, <3>3, Zenon
  <2>4. P[i] \in Seq(KeptMiddle)
    BY <1>4
  <2>5. P[j] \in Seq(KeptMiddle)
    <3>1. CASE ~Shown(s, j)
      BY <2>3, <2>4, <3>1, Zenon DEF Written
    <3>2. CASE Shown(s, j)
      <4>1. PICK h \in Lines, l \in Lines :
              /\ h = HunkAt(s, j) /\ h.kind = "@@"
              /\ l = Body(s[j].tag, s[j].text) /\ l = LineAt(s, FALSE, j)
        BY <2>2, <3>2, ShownLineType
      <4>2. s[j].text \notin PlusTexts \cup DashTexts
        BY <1>2, <2>2 DEF PlainTexts
      <4>3. h \in KeptMiddle
        BY <4>1 DEF KeptMiddle, Middle, StartsOld, StartsNew, IsHeader, KeepLine
      <4>4. l.kind = "body" /\ l.text \notin PlusTexts \cup DashTexts
        BY <4>1, <4>2 DEF Body
      <4>5. l \in KeptMiddle
        BY <4>4 DEF KeptMiddle, Middle, StartsOld, StartsNew, IsHeader, KeepLine
      <4>6. PICK a \in Seq(KeptMiddle), b \in Seq(KeptMiddle) :
              a = (IF j \in Starts(s) THEN <<h>> ELSE << >>) /\ b = <<l>>
        <5>1. \A z \in KeptMiddle : <<z>> \in Seq(KeptMiddle)
          OBVIOUS
        <5>2. << >> \in Seq(KeptMiddle)
          BY EmptySeq
        <5> QED
          BY <4>3, <4>5, <5>1, <5>2
      <4>7. PICK d \in Seq(KeptMiddle) : d = P[i]
        BY <2>4
      <4>8. d \o a \o b \in Seq(KeptMiddle)
        BY ConcatProperties
      <4>9. P[j] = d \o a \o b
        BY <2>3, <3>2, <4>1, <4>6, <4>7, Zenon DEF Written
      <4> QED
        BY <4>8, <4>9, Zenon
    <3> QED
      BY <3>1, <3>2
  <2> QED
    BY <2>1, <2>2, <2>5, Zenon
<1>5. \A i \in 0..Len(s) : i \in N
  <2> HIDE DEF N
  <2> QED BY <1>2, <1>3, <1>4, PrefixesOf
<1>6. P[Len(s)] \in Seq(KeptMiddle)
  BY <1>2, <1>5
<1>7. Rendered(s, FALSE) \in Seq(KeptMiddle)
  BY <1>1, <1>6 DEF IsRendering
<1>8. KeptMiddle \subseteq Middle
  BY DEF KeptMiddle
<1> QED
  BY <1>7, <1>8, SeqMonotonic

\* What the next lemma needs of sequences.
LEMMA LinesAppended ==
  \A a, b \in Seq(Lines), x \in Lines : Append(a \o b, x) = a \o Append(b, x)
  OBVIOUS

\* Two lines are the first and the second.
LEMMA LinesPaired ==
  \A x, y \in Lines : Append(<<x>>, y) = <<x>> \o <<y>> /\ <<x, y>> = <<x>> \o <<y>>
<1>1. \A a \in Seq(Lines), y \in Lines : Append(a, y) = a \o <<y>>
  BY AppendIsConcat
<1>2. \A x \in Lines : <<x>> \in Seq(Lines)
  OBVIOUS
<1>3. \A x, y \in Lines : Append(<<x>>, y) = <<x>> \o <<y>>
  BY <1>1, <1>2, Zenon
<1> QED
  BY <1>3, PairIsConcat

\* They are added to the part that is being read.
LEMMA PartGrows ==
  ASSUME NEW acc \in PartAccs, acc.path # Absent, NEW d \in Seq(Middle)
  PROVE  /\ PartAll(acc, d) \in PartAccs
         /\ PartAll(acc, d).parts = acc.parts
         /\ PartAll(acc, d).path = acc.path
         /\ PartAll(acc, d).lines = acc.lines \o d
<1> DEFINE Grown(r, e) == /\ r \in PartAccs /\ r.parts = acc.parts /\ r.path = acc.path
                          /\ r.lines = acc.lines \o e
           M == {e \in Seq(Middle) : Grown(PartAll(acc, e), e)}
<1>0. /\ \A e \in Seq(Middle) : e \in Seq(Lines)
      /\ acc.lines \in Seq(Lines)
  BY SeqMonotonic DEF Middle, PartAccs
<1>1. << >> \in M
  <2>1. << >> \in Seq(Lines) /\ << >> \in Seq(Middle)
    BY EmptySeq
  <2>2. PartAll(acc, << >>) = acc
    BY <2>1, PartAllFacts
  <2>3. acc.lines \o << >> = acc.lines
    BY <1>0, ConcatEmptySeq
  <2>4. Grown(acc, << >>)
    BY <2>3
  <2> HIDE DEF Grown
  <2> QED
    BY <2>1, <2>2, <2>4
<1>2. ASSUME NEW e \in Seq(Middle), NEW x \in Middle, e \in M
      PROVE  Append(e, x) \in M
  <2>1. PICK r \in PartAccs : r = PartAll(acc, e)
    BY <1>0, PartAllFacts
  <2>2. Grown(r, e)
    BY <1>2, <2>1, Zenon
  <2>3. x \in Lines /\ ~StartsOld(x) /\ ~StartsNew(x) /\ Append(e, x) \in Seq(Middle)
    BY AppendProperties DEF Middle
  <2>4. PartAll(acc, Append(e, x)) = PartLine(r, x)
    <3>1. PICK f \in Seq(Lines) : f = e
      BY <1>0
    <3>2. PartAll(acc, Append(f, x)) = PartLine(PartAll(acc, f), x)
      BY <2>3, PartAllFacts
    <3> QED
      BY <2>1, <3>1, <3>2, Zenon
  <2>5. PartLine(r, x) = [r EXCEPT !.lines = Append(@, x)]
    BY <2>2, <2>3 DEF PartLine
  <2>6. PartLine(r, x) \in PartAccs
    BY <2>3, PartLineType
  <2>7. /\ PartLine(r, x).parts = r.parts /\ PartLine(r, x).path = r.path
        /\ PartLine(r, x).lines = Append(r.lines, x)
    BY <2>5 DEF PartAccs
  <2>8. Append(acc.lines \o e, x) = acc.lines \o Append(e, x)
    <3>1. PICK z \in Seq(Lines), f \in Seq(Lines) : z = acc.lines /\ f = e
      BY <1>0
    <3>2. x \in Lines
      BY <2>3
    <3>3. Append(z \o f, x) = z \o Append(f, x)
      BY <3>2, LinesAppended, Zenon
    <3> QED
      BY <3>1, <3>3, Zenon
  <2>9. Grown(PartLine(r, x), Append(e, x))
    BY <2>2, <2>6, <2>7, <2>8, Zenon
  <2> HIDE DEF Grown
  <2> QED
    BY <2>3, <2>4, <2>9
<1>3. Seq(Middle) \subseteq M
  <2> HIDE DEF M
  <2> QED BY <1>1, <1>2, SetOfSequences
<1> QED
  BY <1>3

\* What reading a part d of a file p leads to.
IsReadAs(acc, p, d) ==
  /\ d \in Seq(Lines) /\ d # << >>
  /\ PartAll(acc, d) \in PartAccs
  /\ PartAll(acc, d).parts = Stored(acc)
  /\ PartAll(acc, d).path = p
  /\ PartAll(acc, d).lines = d

\* The part of one file is read as it is, and ends the one before.
LEMMA PartIsRead ==
  ASSUME NEW acc \in PartAccs, NEW p \in PathNames,
         NEW s \in Seq(ScriptLines(Texts)), PlainTexts(s),
         NEW stamp \in BOOLEAN, NEW last \in BOOLEAN,
         NEW d, d = FilePart(p, s, stamp, last)
  PROVE  IsReadAs(acc, p, d)
<1>1. PICK x \in Lines, y \in Lines, m \in Lines :
        x = Old(p, stamp) /\ y = New(p, stamp) /\ m = Metadata
  BY DEF Old, New, Lines
<1>2. PICK r \in Seq(Middle) : r = Rendered(s, FALSE)
  BY PlainIsMiddle
<1>3. m \in Middle
  BY <1>1 DEF Metadata, Middle, StartsOld, StartsNew, IsHeader
<1>4. PICK k \in Seq(Middle) : k = <<m>>
  <2>1. <<m>> \in Seq(Middle)
    BY <1>3
  <2> QED
    BY <2>1
<1>5. PICK t \in Seq(Middle) : t = IF stamp /\ ~last THEN r \o k ELSE r
  BY ConcatProperties
<1>6. \A e \in Seq(Middle) : e \in Seq(Lines)
  BY SeqMonotonic DEF Middle
<1>7. PICK a \in Seq(Lines), b \in Seq(Lines), h \in Seq(Lines) :
        a = <<x>> /\ b = <<y>> /\ h = <<x, y>>
  <2>1. <<x>> \in Seq(Lines) /\ <<y>> \in Seq(Lines) /\ <<x, y>> \in Seq(Lines)
    OBVIOUS
  <2> QED
    BY <2>1
<1>8. d = h \o t
  <2>1. Part(p, s, stamp) = h \o r
    BY <1>1, <1>2, <1>7, Zenon DEF Part
  <2>2. (h \o r) \o k = h \o (r \o k)
    <3>1. r \in Seq(Lines) /\ k \in Seq(Lines)
      BY <1>6
    <3> QED
      BY <3>1, ConcatAssociative
  <2> QED
    BY <1>1, <1>4, <1>5, <2>1, <2>2, Zenon DEF FilePart
<1>9. PICK o \in PartAccs : o = PartLine(acc, x)
  BY PartLineType
<1>10. /\ o.parts = Stored(acc) /\ o.path = Absent /\ o.lines = a
  <2>1. StartsOld(x)
    BY <1>1 DEF StartsOld, Old
  <2>2. o = [parts |-> Stored(acc), path |-> Absent, lines |-> <<x>>]
    BY <1>9, <2>1 DEF PartLine
  <2> QED
    BY <1>7, <2>2
<1>11. PICK n \in PartAccs : n = PartLine(o, y)
  BY PartLineType
<1>12. n.parts = Stored(acc) /\ n.path = p /\ n.lines = h
  <2>1. ~StartsOld(y) /\ StartsNew(y) /\ PathOf(y) = p
    BY <1>1 DEF StartsOld, StartsNew, New, PathOf
  <2>2. n = [o EXCEPT !.path = p, !.lines = Append(@, y)]
    BY <1>11, <2>1 DEF PartLine
  <2>3. n.parts = o.parts /\ n.path = p /\ n.lines = Append(o.lines, y)
    BY <2>2 DEF PartAccs
  <2>4. Append(<<x>>, y) = <<x, y>>
    BY LinesPaired, Zenon
  <2> QED
    BY <1>7, <1>10, <2>3, <2>4, Zenon
<1>13. PartAll(acc, h) = n
  <2>1. PartAll(acc, a) = o
    <3>1. << >> \in Seq(Lines)
      BY EmptySeq
    <3>2. PartAll(acc, <<x>>) = PartLine(acc, x)
      BY <3>1, PartAllFacts
    <3> QED
      BY <1>7, <1>9, <3>2, Zenon
  <2>2. PartAll(acc, a \o b) = PartAll(PartAll(acc, a), b)
    BY PartAllFacts
  <2>3. PartAll(o, <<y>>) = PartLine(o, y)
    <3>1. << >> \in Seq(Lines)
      BY EmptySeq
    <3> QED
      BY <3>1, PartAllFacts
  <2>4. <<x, y>> = <<x>> \o <<y>>
    BY LinesPaired, Zenon
  <2> QED
    BY <1>7, <1>11, <2>1, <2>2, <2>3, <2>4, Zenon
<1>14. PartAll(acc, d) = PartAll(n, t)
  <2>1. PICK e \in Seq(Lines) : e = t
    BY <1>6
  <2>2. PartAll(acc, h \o e) = PartAll(PartAll(acc, h), e)
    BY PartAllFacts
  <2> QED
    BY <1>8, <1>13, <2>1, <2>2, Zenon
<1>15. n.path # Absent
  BY <1>12, AbsentIsNoPath
<1>16. /\ PartAll(n, t) \in PartAccs /\ PartAll(n, t).parts = n.parts
       /\ PartAll(n, t).path = n.path /\ PartAll(n, t).lines = n.lines \o t
  BY <1>15, PartGrows
<1>17. d \in Seq(Lines) /\ d # << >>
  <2>1. PICK e \in Seq(Lines) : e = t
    BY <1>6
  <2>2. h \o e \in Seq(Lines) /\ Len(h \o e) = Len(h) + Len(e)
    BY ConcatProperties
  <2>3. Len(h) = 2 /\ Len(e) \in Nat
    BY <1>7, LenProperties
  <2>4. h \o e # << >>
    BY <2>2, <2>3, EmptySeq
  <2> QED
    BY <1>8, <2>1, <2>2, <2>4, Zenon
<1> QED
  BY <1>8, <1>12, <1>14, <1>16, <1>17, Zenon DEF IsReadAs

\* The parts of two files, by path.
TwoParts(p1, s1, p2, s2, stamp) ==
  [q \in {p1, p2} |-> IF q = p2 THEN FilePart(p2, s2, stamp, TRUE)
                      ELSE FilePart(p1, s1, stamp, FALSE)]

\* per_file_diffs returns the parts of both files, unchanged: the metadata
\* between them stays in the first.
LEMMA TwoPartsAreRead ==
  ASSUME NEW l \in Untrimmed, NEW p1 \in PathNames, NEW p2 \in PathNames, p1 # p2,
         NEW s1 \in Seq(ScriptLines(Texts)), PlainTexts(s1),
         NEW s2 \in Seq(ScriptLines(Texts)), PlainTexts(s2),
         NEW stamp, stamp = l.metadata
  PROVE  PerFileDiffs(FileDiff(p1, s1, l) \o FileDiff(p2, s2, l))
           = TwoParts(p1, s1, p2, s2, stamp)
<1>1. stamp \in BOOLEAN /\ TRUE \in BOOLEAN /\ FALSE \in BOOLEAN
  BY DEF Untrimmed
<1>2. PICK a, b : a = FilePart(p1, s1, stamp, FALSE) /\ b = FilePart(p2, s2, stamp, TRUE)
  OBVIOUS
<1>3. Part0 \in PartAccs /\ Stored(Part0) = << >>
  BY EmptySeq, PartsFromStart DEF Stored, Part0
<1>4. /\ IsReadAs(Part0, p1, a)
      /\ \A k \in PartAccs : IsReadAs(k, p2, b)
  BY <1>1, <1>2, <1>3, PartIsRead
<1>4a. a \in Seq(Lines) /\ b \in Seq(Lines) /\ a # << >> /\ b # << >>
  BY <1>3, <1>4, Zenon DEF IsReadAs
<1>5. PICK c \in PartAccs : /\ c = PartAll(Part0, a)
                            /\ c.parts = << >> /\ c.path = p1 /\ c.lines = a
  <2>1. /\ PartAll(Part0, a) \in PartAccs
        /\ PartAll(Part0, a).parts = Stored(Part0)
        /\ PartAll(Part0, a).path = p1
        /\ PartAll(Part0, a).lines = a
    BY <1>4, Zenon DEF IsReadAs
  <2> QED
    BY <1>3, <2>1
<1>6. PICK e \in PartAccs : /\ e = PartAll(c, b)
                            /\ e.parts = Stored(c) /\ e.path = p2 /\ e.lines = b
  <2>1. /\ PartAll(c, b) \in PartAccs
        /\ PartAll(c, b).parts = Stored(c)
        /\ PartAll(c, b).path = p2
        /\ PartAll(c, b).lines = b
    BY <1>4, Zenon DEF IsReadAs
  <2> QED
    BY <2>1
<1>7. p1 # Absent /\ p2 # Absent
  BY AbsentIsNoPath
<1>8. Stored(c) = [q \in {p1} |-> a]
  <2>1. DOMAIN << >> \cup {p1} = {p1}
    BY EmptySeq
  <2> QED
    BY <1>4a, <1>5, <1>7, <2>1 DEF Stored
<1>9. Stored(e) = [q \in {p1, p2} |-> IF q = p2 THEN b ELSE a]
  <2>1. /\ DOMAIN e.parts = {p1} /\ \A q \in {p1} : e.parts[q] = a
    BY <1>6, <1>8
  <2>2. Stored(e) = [q \in DOMAIN e.parts \cup {p2} |-> IF q = p2 THEN b ELSE e.parts[q]]
    BY <1>4a, <1>6, <1>7, Zenon DEF Stored
  <2>3. DOMAIN e.parts \cup {p2} = {p1, p2}
    BY <2>1
  <2>4. \A q \in {p1, p2} : q # p2 => e.parts[q] = a
    BY <2>1
  <2> QED
    BY <2>2, <2>3, <2>4
<1>10. PartAll(Part0, a \o b) = e
  <2>1. PartAll(Part0, a \o b) = PartAll(PartAll(Part0, a), b)
    BY <1>3, <1>4a, PartAllFacts
  <2> QED
    BY <1>5, <1>6, <2>1, Zenon
<1>11. PICK f \in Seq(Lines) : f = a \o b
  BY <1>4a, ConcatProperties
<1>12. PICK k \in Seq(Lines) : k = <<Metadata>>
  <2>1. Metadata \in Lines
    BY DEF Lines
  <2>2. <<Metadata>> \in Seq(Lines)
    BY <2>1
  <2> QED
    BY <2>2
<1>13. PICK g \in Seq(Lines) : g = k \o f
  BY ConcatProperties
<1>14. PartAll(Part0, g) = e
  <2>1. PartAll(Part0, g) = PartAll(PartAll(Part0, k), f)
    <3>1. PartAll(Part0, k \o f) = PartAll(PartAll(Part0, k), f)
      BY <1>3, PartAllFacts
    <3> QED
      BY <1>13, <3>1, Zenon
  <2>2. PartAll(Part0, k) = Part0
    <3>1. Metadata \in Lines /\ << >> \in Seq(Lines)
      BY EmptySeq DEF Lines
    <3>2. PartAll(Part0, <<Metadata>>) = PartLine(Part0, Metadata)
      BY <1>3, <3>1, PartAllFacts
    <3>3. PartLine(Part0, Metadata) = Part0
      BY DEF PartLine, Part0, Metadata, StartsOld, StartsNew
    <3> QED
      BY <1>12, <3>2, <3>3, Zenon
  <2> QED
    BY <1>10, <1>11, <2>1, <2>2, Zenon
<1>15. FileDiff(p1, s1, l) \o FileDiff(p2, s2, l) = IF stamp THEN g ELSE f
  <2>1. PICK u \in Seq(Lines), v \in Seq(Lines) :
          u = Part(p1, s1, stamp) /\ v = Part(p2, s2, stamp)
    BY <1>1, PartFacts
  <2>2. /\ FileDiff(p1, s1, l) = IF stamp THEN k \o u ELSE u
        /\ FileDiff(p2, s2, l) = IF stamp THEN k \o v ELSE v
    <3>1. /\ FileDiff(p1, s1, l) = IF stamp THEN <<Metadata>> \o Part(p1, s1, stamp)
                                   ELSE Part(p1, s1, stamp)
          /\ FileDiff(p2, s2, l) = IF stamp THEN <<Metadata>> \o Part(p2, s2, stamp)
                                   ELSE Part(p2, s2, stamp)
      BY <1>1, FileDiffIsPart
    <3> QED
      BY <1>12, <2>1, <3>1, Zenon
  <2>3. CASE stamp
    <3>1. a = u \o k /\ b = v
      BY <1>2, <1>12, <2>1, <2>3, Zenon DEF FilePart
    <3>2. (k \o u) \o (k \o v) = k \o ((u \o k) \o v)
      OBVIOUS
    <3> QED
      BY <1>11, <1>13, <2>2, <2>3, <3>1, <3>2, Zenon
  <2>4. CASE ~stamp
    <3>1. a = u /\ b = v
      BY <1>2, <2>1, <2>4, Zenon DEF FilePart
    <3> QED
      BY <1>11, <2>2, <2>4, <3>1, Zenon
  <2> QED
    BY <2>3, <2>4
<1>16. PICK d \in Seq(Lines) : /\ d = FileDiff(p1, s1, l) \o FileDiff(p2, s2, l)
                               /\ PartAll(Part0, d) = e
  BY <1>10, <1>11, <1>13, <1>14, <1>15, Zenon
<1>17. PerFileDiffs(d) = Stored(e)
  BY <1>16, PartsFromStart
<1>18. TwoParts(p1, s1, p2, s2, stamp) = [q \in {p1, p2} |-> IF q = p2 THEN b ELSE a]
  BY <1>2, Zenon DEF TwoParts
<1> QED
  BY <1>9, <1>16, <1>17, <1>18, Zenon

-----------------------------------------------------------------------------
(* The canonical form of ordinary diffs                                    *)

\* The equations of SplitAll, for every argument.
LEMMA SplitsOn ==
  /\ \A b \in Accs, d \in Seq(Lines), e \in Seq(Lines) :
       SplitAll(b, d \o e) = SplitAll(SplitAll(b, d), e)
  /\ \A b \in Accs, d \in Seq(Lines), x \in Lines :
       SplitAll(b, Append(d, x)) = SplitLine(SplitAll(b, d), x)
<1>1. ASSUME NEW b \in Accs, NEW d \in Seq(Lines), NEW e \in Seq(Lines)
      PROVE  SplitAll(b, d \o e) = SplitAll(SplitAll(b, d), e)
  BY SplitAllFacts
<1>2. ASSUME NEW b \in Accs, NEW d \in Seq(Lines), NEW x \in Lines
      PROVE  SplitAll(b, Append(d, x)) = SplitLine(SplitAll(b, d), x)
  BY SplitAllFacts
<1> QED
  BY <1>1, <1>2, Zenon

\* A diff of one file, with clean headers and nothing to drop, is canonical.
LEMMA WholeFile ==
  ASSUME NEW p \in PathNames, NEW e \in Seq(KeptMiddle)
  PROVE  /\ <<Old(p, FALSE), New(p, FALSE)>> \o e \in Seq(Lines)
         /\ LinesIn(p, <<Old(p, FALSE), New(p, FALSE)>> \o e)
              = <<Old(p, FALSE), New(p, FALSE)>> \o e
<1> DEFINE Clean == {z \in Lines : CleanHeader(z) = z}
<1>0. /\ \A f \in Seq(KeptMiddle) : f \in Seq(Lines) /\ f \in Seq(Clean)
      /\ \A f \in Seq(Clean) : f \in Seq(Lines)
  <2>1. KeptMiddle \subseteq Lines /\ KeptMiddle \subseteq Clean /\ Clean \subseteq Lines
    BY DEF KeptMiddle, Middle, CleanHeader
  <2> QED
    BY <2>1, SeqMonotonic
<1>1. PICK x \in Lines, y \in Lines :
        /\ x = Old(p, FALSE) /\ IsHeader(x, "---") /\ CleanHeader(x) = x
        /\ y = New(p, FALSE) /\ IsHeader(y, "+++") /\ ~IsHeader(y, "---")
        /\ CleanHeader(y) = y /\ PathOf(y) = p
  <2>1. FALSE \in BOOLEAN
    OBVIOUS
  <2>2. Old(p, FALSE) \in Lines /\ New(p, FALSE) \in Lines
    BY <2>1 DEF Old, New, Lines
  <2> QED
    BY <2>2 DEF Old, New, IsHeader, PathOf, CleanHeader
<1>2. PICK k \in Seq(Clean), h \in Seq(Lines) :
        h = k /\ k = <<x, y>> /\ h = <<x>> \o <<y>> /\ Len(h) = 2
  <2>1. x \in Clean /\ y \in Clean
    BY <1>1
  <2>2. <<x, y>> \in Seq(Clean) /\ Len(<<x, y>>) = 2
    BY <2>1
  <2>3. <<x, y>> = <<x>> \o <<y>>
    BY LinesPaired, Zenon
  <2> QED
    BY <1>0, <2>2, <2>3, Zenon
<1>3. Start0 \in Accs /\ << >> \in Seq(Lines)
  BY SplitFromStart, EmptySeq
<1>4. PICK a \in Accs : /\ a = SplitAll(Start0, h)
                        /\ a.path = p /\ a.sections = << >>
                        /\ a.pending = << >> /\ a.lines = h
  <2>1. PICK u \in Seq(Lines), v \in Seq(Lines) : u = <<x>> /\ v = <<y>>
    <3>1. <<x>> \in Seq(Lines) /\ <<y>> \in Seq(Lines)
      OBVIOUS
    <3> QED
      BY <3>1
  <2>2. PICK o \in Accs : o = SplitLine(Start0, x)
    BY <1>3, SplitLineType
  <2>3. /\ o.sections = << >> /\ o.path = Absent /\ o.lines = << >> /\ o.pending = u
    <3>1. o = [sections |-> Closed(Start0), path |-> Absent, lines |-> << >>,
               pending |-> <<x>>]
      BY <1>1, <2>2 DEF SplitLine
    <3>2. Closed(Start0) = << >>
      <4>1. << >> \o << >> = << >>
        BY <1>3, ConcatEmptySeq
      <4>2. Start0.lines = << >> /\ Start0.pending = << >> /\ Start0.sections = << >>
        BY DEF Start0
      <4> QED
        BY <4>1, <4>2, Zenon DEF Closed
    <3> QED
      BY <2>1, <3>1, <3>2
  <2>4. PICK n \in Accs : n = SplitLine(o, y)
    BY SplitLineType
  <2>5. /\ n.sections = << >> /\ n.path = p /\ n.pending = << >>
        /\ n.lines = << >> \o u \o v
    <3>1. n = [o EXCEPT !.path = PathOf(y), !.pending = << >>,
                        !.lines = @ \o o.pending \o <<y>>]
      BY <1>1, <2>4, Zenon DEF SplitLine
    <3>2. /\ n.sections = o.sections /\ n.path = PathOf(y) /\ n.pending = << >>
          /\ n.lines = o.lines \o o.pending \o <<y>>
      BY <3>1 DEF Accs
    <3> QED
      BY <1>1, <2>1, <2>3, <3>2, Zenon
  <2>6. n.lines = h
    <3>1. << >> \o u = u
      BY ConcatEmptySeq
    <3> QED
      BY <1>2, <2>1, <2>5, <3>1, Zenon
  <2>7. SplitAll(Start0, h) = n
    <3>1. SplitAll(Start0, u \o v) = SplitAll(SplitAll(Start0, u), v)
      BY <1>3, SplitsOn, Zenon
    <3>2. SplitAll(Start0, <<x>>) = SplitLine(Start0, x)
      BY <1>3, SplitAllFacts
    <3>3. SplitAll(o, <<y>>) = SplitLine(o, y)
      BY <1>3, SplitAllFacts
    <3> QED
      BY <1>2, <2>1, <2>2, <2>4, <3>1, <3>2, <3>3, Zenon
  <2> QED
    BY <2>5, <2>6, <2>7
<1> DEFINE Single(acc, f) == /\ acc \in Accs /\ acc.path = p /\ acc.sections = << >>
                             /\ acc.pending = << >> /\ acc.lines = h \o f
           M == {f \in Seq(KeptMiddle) : Single(SplitAll(a, f), f)}
<1>5. << >> \in M
  <2>1. h \o << >> = h
    BY ConcatEmptySeq
  <2>2. SplitAll(a, << >>) = a
    BY <1>3, SplitAllFacts
  <2>3. Single(a, << >>)
    BY <1>4, <2>1
  <2>4. << >> \in Seq(KeptMiddle)
    BY EmptySeq
  <2> HIDE DEF Single
  <2> QED
    BY <2>2, <2>3, <2>4
<1>6. ASSUME NEW f \in Seq(KeptMiddle), NEW z \in KeptMiddle, f \in M
      PROVE  Append(f, z) \in M
  <2>1. /\ z \in Lines /\ ~IsHeader(z, "---") /\ ~IsHeader(z, "+++") /\ KeepLine(z)
        /\ Append(f, z) \in Seq(KeptMiddle)
    BY AppendProperties DEF KeptMiddle, Middle
  <2>2. PICK g \in Seq(Lines) : g = f
    BY <1>0
  <2>3. PICK b \in Accs : b = SplitAll(a, f) /\ Single(b, f)
    BY <1>6, Zenon
  <2>4. SplitAll(a, Append(f, z)) = SplitLine(b, z)
    <3>1. SplitAll(a, Append(g, z)) = SplitLine(SplitAll(a, g), z)
      BY <2>1, SplitsOn, Zenon
    <3> QED
      BY <2>2, <2>3, <3>1, Zenon
  <2>5. PICK c \in Accs : c = SplitLine(b, z)
    BY <2>1, SplitLineType
  <2>6. /\ c.path = b.path /\ c.sections = b.sections /\ c.pending = b.pending
        /\ c.lines = Append(b.lines, z)
    <3>1. b.path # Absent
      BY <2>3, AbsentIsNoPath
    <3>2. c = [b EXCEPT !.lines = Append(@, z)]
      BY <2>1, <2>5, <3>1 DEF SplitLine
    <3> QED
      BY <3>2 DEF Accs
  <2>7. Append(h \o f, z) = h \o Append(f, z)
    <3>1. Append(h \o g, z) = h \o Append(g, z)
      BY <2>1, LinesAppended, Zenon
    <3> QED
      BY <2>2, <3>1, Zenon
  <2>8. Single(c, Append(f, z))
    BY <2>3, <2>6, <2>7, Zenon
  <2> HIDE DEF Single
  <2> QED
    BY <2>1, <2>4, <2>5, <2>8
<1>7. Seq(KeptMiddle) \subseteq M
  <2> HIDE DEF M
  <2> QED BY <1>5, <1>6, SetOfSequences
<1>8. PICK f \in Seq(Lines), g \in Seq(Clean) : f = e /\ g = e
  BY <1>0
<1>9. PICK d \in Seq(Lines) : d = h \o f /\ d # << >> /\ CleanLines(d) = d
  <2>1. h \o f \in Seq(Lines) /\ h \o f # << >>
    <3>1. Len(h \o f) = Len(h) + Len(f) /\ Len(f) \in Nat
      BY ConcatProperties, LenProperties
    <3>2. Len(h \o f) # 0
      BY <1>2, <3>1
    <3> QED
      BY <3>2, ConcatProperties, EmptySeq
  <2>2. k \o g \in Seq(Clean)
    BY ConcatProperties
  <2>3. \A w \in Seq(Clean) : CleanLines(w) = w
    <3> SUFFICES ASSUME NEW w \in Seq(Clean) PROVE CleanLines(w) = w
      OBVIOUS
    <3>1. \A i \in DOMAIN w : CleanHeader(w[i]) = w[i]
      OBVIOUS
    <3>2. w = [i \in DOMAIN w |-> w[i]]
      OBVIOUS
    <3> QED
      BY <3>1, <3>2 DEF CleanLines
  <2>4. CleanLines(k \o g) = k \o g
    BY <2>2, <2>3, Zenon
  <2> QED
    BY <1>2, <1>8, <2>1, <2>4, Zenon
<1>10. PICK b \in Accs : /\ b = SplitAll(a, e) /\ b.path = p /\ b.sections = << >>
                         /\ b.pending = << >> /\ b.lines = d
  <2>1. Single(SplitAll(a, e), e)
    BY <1>7
  <2> QED
    BY <1>8, <1>9, <2>1, Zenon
<1>11. PICK t \in Sections : t = Section(p, d) /\ t.path = p /\ t.lines = d
  <2>1. p # Absent
    BY AbsentIsNoPath
  <2>2. Section(p, d) = [path |-> p, lines |-> d]
    BY <2>1 DEF Section
  <2>3. PICK t : t = [path |-> p, lines |-> d]
    OBVIOUS
  <2>4. t \in Sections /\ t.path = p /\ t.lines = d
    BY <2>3 DEF Sections
  <2> QED
    BY <2>2, <2>3, <2>4, Zenon
<1>12. Closed(b) = <<t>>
  <2>1. d \o << >> = d
    BY ConcatEmptySeq
  <2>2. Closed(b) = Append(<< >>, t)
    BY <1>9, <1>10, <1>11, <2>1, Zenon DEF Closed
  <2>3. Append(<< >>, t) = <<t>>
    OBVIOUS
  <2> QED
    BY <2>2, <2>3, Zenon
<1>13. LinesOf(p, <<t>>) = d
  <2>1. << >> \in Seq(Sections)
    BY EmptySeq
  <2>2. LinesOf(p, <<t>>) = Added(p, << >>, t)
    BY <2>1, LinesOfFacts
  <2>3. << >> \o d = d
    BY ConcatEmptySeq
  <2> QED
    BY <1>9, <1>11, <2>2, <2>3, Zenon DEF Added
<1>14. SplitAll(Start0, d) = b
  <2>1. SplitAll(Start0, h \o f) = SplitAll(SplitAll(Start0, h), f)
    BY <1>3, SplitAllFacts
  <2> QED
    BY <1>4, <1>8, <1>9, <1>10, <2>1, Zenon
<1>15. LinesIn(p, d) = d
  <2>1. SplitFileSections(d) = Closed(b)
    BY <1>14, SplitFromStart
  <2> QED
    BY <1>12, <1>13, <2>1, Zenon DEF LinesIn
<1>16. <<Old(p, FALSE), New(p, FALSE)>> \o e = d
  BY <1>1, <1>2, <1>8, <1>9, Zenon
<1> QED
  BY <1>9, <1>15, <1>16, Zenon

\* Scripts of ordinary texts: none of their lines looks like the header of a file.
Ordinary(s) == s \in Seq(ScriptLines(Texts)) /\ PlainTexts(s)

\* Without metadata, the diff of a file is its part.
LEMMA PlainDiffs ==
  ASSUME NEW s \in Seq(ScriptLines(Texts))
  PROVE  /\ RawDiff(s, Plain) = Part("f", s, FALSE) \o Part("g", Other, FALSE)
         /\ Part("f", s, FALSE) \in Seq(Lines) /\ Part("g", Other, FALSE) \in Seq(Lines)
<1>1. /\ "f" \in PathNames /\ "g" \in PathNames /\ FALSE \in BOOLEAN
      /\ Plain \in Untrimmed /\ Plain.metadata = FALSE /\ Plain.otherFirst = FALSE
  BY PathNamesAre DEF Plain, Untrimmed
<1>2. /\ FileDiff("f", s, Plain) = Part("f", s, FALSE)
      /\ FileDiff("g", Other, Plain) = Part("g", Other, FALSE)
  <2>1. \A p \in PathNames, t \in Seq(ScriptLines(Texts)) :
          FileDiff(p, t, Plain) = Part(p, t, FALSE)
    <3> SUFFICES ASSUME NEW p \in PathNames, NEW t \in Seq(ScriptLines(Texts))
                 PROVE  FileDiff(p, t, Plain) = Part(p, t, FALSE)
      OBVIOUS
    <3>1. FileDiff(p, t, Plain)
            = IF FALSE THEN <<Metadata>> \o Part(p, t, FALSE) ELSE Part(p, t, FALSE)
      BY <1>1, FileDiffIsPart
    <3> QED
      BY <3>1, Zenon
  <2> QED
    BY <1>1, <2>1, OtherIsScript, Zenon
<1>3. Part("f", s, FALSE) \in Seq(Lines) /\ Part("g", Other, FALSE) \in Seq(Lines)
  BY <1>1, OtherIsScript, PartFacts
<1> QED
  BY <1>1, <1>2, <1>3, Zenon DEF RawDiff

\* The canonical form of what the engine writes is its plainest writing.
LEMMA CanonicalIsPlain ==
  ASSUME NEW s \in Scripts, PlainTexts(s), NEW l \in Untrimmed
  PROVE  CanonicalDiff(RawDiff(s, l)) = RawDiff(s, Plain)
<1>0. /\ s \in Seq(ScriptLines(Texts)) /\ Other \in Seq(ScriptLines(Texts))
      /\ FALSE \in BOOLEAN /\ Plain \in Untrimmed
      /\ "" \in PathNames /\ "f" \in PathNames /\ "g" \in PathNames
      /\ "i" \in PathNames /\ "p" \in PathNames
  BY PathNamesAre, ScriptsAreSequences, OtherIsScript DEF Plain, Untrimmed
<1>1. PICK a \in Seq(Lines), b \in Seq(Lines) :
        /\ a = Part("f", s, FALSE) /\ b = Part("g", Other, FALSE)
        /\ RawDiff(s, Plain) = a \o b
  BY <1>0, PlainDiffs
<1>2. PlainTexts(Other)
  <2>1. \A i \in DOMAIN Other : Other[i] \in ScriptLines({"x", "y"})
    BY OtherIsScript
  <2>2. \A i \in DOMAIN Other : Other[i].text \in {"x", "y"}
    BY <2>1 DEF ScriptLines
  <2> QED
    BY <2>2 DEF PlainTexts, PlusTexts, DashTexts
<1>3. ASSUME NEW p \in PathNames, NEW t \in Seq(ScriptLines(Texts)), PlainTexts(t)
      PROVE  /\ LinesIn(p, Part(p, t, FALSE)) = Part(p, t, FALSE)
             /\ \A q \in PathNames : q # p => LinesIn(q, Part(p, t, FALSE)) = << >>
  <2>1. PICK r : r \in Seq(KeptMiddle) /\ r \in Seq(Headerless) /\ r = Rendered(t, FALSE)
    <3>1. KeptMiddle \subseteq Headerless
      BY DEF KeptMiddle, Middle, Headerless
    <3>2. Rendered(t, FALSE) \in Seq(KeptMiddle)
      BY <1>3, PlainIsMiddle
    <3> QED
      BY <3>1, <3>2, SeqMonotonic
  <2>2. LinesIn(p, <<Old(p, FALSE), New(p, FALSE)>> \o r) = <<Old(p, FALSE), New(p, FALSE)>> \o r
    BY <2>1, WholeFile
  <2>3. \A q \in PathNames : q # p => LinesIn(q, <<Old(p, FALSE), New(p, FALSE)>> \o r) = << >>
    BY <1>0, <2>1, OneFile
  <2> QED
    BY <2>1, <2>2, <2>3, Zenon DEF Part
<1>4. /\ LinesIn("f", a) = a /\ LinesIn("g", b) = b
      /\ LinesIn("", a) = << >> /\ LinesIn("g", a) = << >>
      /\ LinesIn("i", a) = << >> /\ LinesIn("p", a) = << >>
      /\ LinesIn("", b) = << >> /\ LinesIn("f", b) = << >>
      /\ LinesIn("i", b) = << >> /\ LinesIn("p", b) = << >>
  <2>1. /\ LinesIn("f", a) = a
        /\ \A q \in PathNames : q # "f" => LinesIn(q, a) = << >>
    BY <1>0, <1>1, <1>3, Zenon
  <2>2. /\ LinesIn("g", b) = b
        /\ \A q \in PathNames : q # "g" => LinesIn(q, b) = << >>
    BY <1>0, <1>1, <1>2, <1>3, Zenon
  <2> QED
    BY <1>0, <2>1, <2>2
<1>5. ASSUME NEW q \in PathNames
      PROVE  LinesIn(q, RawDiff(s, Plain)) = LinesIn(q, a) \o LinesIn(q, b)
  <2>1. SaidTogether(q, Plain, "f", s, "g", Other)
    BY <1>0, TwoFiles
  <2>2. RawDiff(s, Plain) = FileDiff("f", s, Plain) \o FileDiff("g", Other, Plain)
    BY DEF RawDiff, Plain
  <2> QED
    BY <1>1, <2>1, <2>2, Zenon DEF SaidTogether
<1>6. << >> \o << >> = << >> /\ a \o << >> = a /\ << >> \o a = a /\ b \o << >> = b /\ << >> \o b = b
  <2>1. << >> \in Seq(Lines)
    BY EmptySeq
  <2> QED
    BY <2>1, ConcatEmptySeq
<1>7. /\ LinesIn("", RawDiff(s, Plain)) = << >> /\ LinesIn("f", RawDiff(s, Plain)) = a
      /\ LinesIn("g", RawDiff(s, Plain)) = b /\ LinesIn("i", RawDiff(s, Plain)) = << >>
      /\ LinesIn("p", RawDiff(s, Plain)) = << >>
  BY <1>0, <1>4, <1>5, <1>6, Zenon
<1>8. CanonicalDiff(RawDiff(s, Plain)) = Canon(SplitFileSections(RawDiff(s, Plain)))
  <2>1. RawDiff(s, Plain) \in Seq(Lines)
    BY <1>1, ConcatProperties
  <2> QED
    BY <2>1, FiveLines
<1>9. Canon(SplitFileSections(RawDiff(s, Plain))) = (((<< >> \o a) \o b) \o << >>) \o << >>
  BY <1>7, Zenon DEF Canon, LinesIn
<1>10. ((a \o b) \o << >>) \o << >> = a \o b
  <2>1. a \o b \in Seq(Lines)
    BY ConcatProperties
  <2>2. PICK c \in Seq(Lines) : c = a \o b
    BY <2>1
  <2>3. c \o << >> = c
    BY ConcatEmptySeq
  <2> QED
    BY <2>2, <2>3, Zenon
<1>11. CanonicalDiff(RawDiff(s, l)) = CanonicalDiff(RawDiff(s, Plain))
  BY LayoutDoesNotMatter
<1> QED
  BY <1>1, <1>6, <1>8, <1>9, <1>10, <1>11, Zenon

-----------------------------------------------------------------------------
(* The files of an ordinary diff are rebuilt                               *)

\* The change of the second file is an ordinary one.
LEMMA OtherIsPlain ==
  /\ Other \in Seq(ScriptLines(Texts)) /\ PlainTexts(Other) /\ Anchored(Other)
  /\ \E i \in DOMAIN Other : Shown(Other, i)
<1>1. \A i \in DOMAIN Other : Other[i] \in ScriptLines({"x", "y"})
  BY OtherIsScript
<1>2. PlainTexts(Other)
  <2>1. \A i \in DOMAIN Other : Other[i].text \in {"x", "y"}
    BY <1>1 DEF ScriptLines
  <2> QED
    BY <2>1 DEF PlainTexts, PlusTexts, DashTexts
<1>3. /\ Len(Other) = 3 /\ DOMAIN Other = 1..3
      /\ Shown(Other, 1) /\ Shown(Other, 2) /\ Shown(Other, 3)
      /\ IsOld(Other, 1)
  <2>1. Len(Other) = 3 /\ DOMAIN Other = 1..3
    BY DEF Other
  <2>2. Other[1].tag = " " /\ Other[2].tag = "-" /\ Other[3].tag = "+"
    BY DEF Other
  <2> QED
    BY <2>1, <2>2 DEF Shown, IsOld
<1>4. Anchored(Other)
  <2> SUFFICES ASSUME NEW i \in Starts(Other)
               PROVE  Number(Other, i, EndOf(Other, i), IsOld) > 0
    BY DEF Anchored
  <2>1. i = 1
    <3>1. i \in 1..3 /\ (i = 1 \/ ~Shown(Other, i - 1))
      BY <1>3 DEF Starts
    <3>2. i = 2 => i - 1 = 1
      OBVIOUS
    <3>3. i = 3 => i - 1 = 2
      OBVIOUS
    <3>4. i = 1 \/ i = 2 \/ i = 3
      BY <3>1
    <3> QED
      BY <1>3, <3>1, <3>2, <3>3, <3>4, Zenon
  <2>2. EndOf(Other, 1) \in 1..3
    <3>1. 1 \in 1..Len(Other)
      BY <1>3
    <3>2. EndOf(Other, 1) \in 1..Len(Other)
      BY <1>3, <3>1, OtherIsScript, EndExists
    <3> QED
      BY <1>3, <3>2
  <2>3. PICK e \in 1..3 : e = EndOf(Other, 1)
    BY <2>2
  <2> DEFINE H == {h \in 1..e : IsOld(Other, h)}
  <2>4. H \subseteq 1..e /\ IsFiniteSet(1..e) /\ 1 \in H
    BY <1>3, FS_Interval
  <2>5. IsFiniteSet(H) /\ H # {}
    BY <2>4, FS_Subset
  <2>6. Cardinality(H) > 0
    BY <2>5, FS_EmptySet, FS_CardinalityType
  <2> QED
    BY <2>1, <2>3, <2>6, Zenon DEF Number
<1> QED
  BY <1>2, <1>3, <1>4, OtherIsScript

\* A change whose diff rebuilds the file that is meant.
Sensible(s) ==
  /\ s \in Seq(ScriptLines(Texts)) /\ PlainTexts(s) /\ Anchored(s)
  /\ \E i \in DOMAIN s : Shown(s, i)

\* Applied to the old file, the part of a file gives the new one.
LEMMA PartIsApplied ==
  ASSUME NEW s, Sensible(s), NEW p \in PathNames, NEW stamp \in BOOLEAN, NEW last \in BOOLEAN
  PROVE  /\ ApplyUnifiedDiff(OldFile(s), FilePart(p, s, stamp, last)).ok
         /\ ApplyUnifiedDiff(OldFile(s), FilePart(p, s, stamp, last)).out = NewFile(s)
<1>1. s \in Seq(ScriptLines(Texts)) /\ PlainTexts(s) /\ Anchored(s)
      /\ \E i \in DOMAIN s : Shown(s, i)
  BY DEF Sensible
<1>2. PICK d \in Seq(Lines) :
        /\ d = FilePart(p, s, stamp, last)
        /\ ParseHunks(d) = HunkRead(ParseAll(Parse0, Rendered(s, FALSE)))
  BY <1>1, PartIsParsed
<1>3. ApplyUnifiedDiff(OldFile(s), d).ok /\ ApplyUnifiedDiff(OldFile(s), d).out = NewFile(s)
  BY <1>1, <1>2, RenderedIsApplied
<1> QED
  BY <1>2, <1>3, Zenon

\* What the files of a diff d are and what becomes of them.
IsApplied(s, d) ==
  /\ DOMAIN PerFileDiffs(d) = {"f", "g"}
  /\ ApplyUnifiedDiff(OldFile(s), PerFileDiffs(d)["f"]).ok
  /\ ApplyUnifiedDiff(OldFile(s), PerFileDiffs(d)["f"]).out = NewFile(s)
  /\ ApplyUnifiedDiff(OldFile(Other), PerFileDiffs(d)["g"]).ok
  /\ ApplyUnifiedDiff(OldFile(Other), PerFileDiffs(d)["g"]).out = NewFile(Other)

\* What the engine writes is split and applied as it was meant.
LEMMA RawIsApplied ==
  ASSUME NEW s, Sensible(s), NEW l \in Untrimmed
  PROVE  IsApplied(s, RawDiff(s, l))
<1>0. /\ s \in Seq(ScriptLines(Texts)) /\ PlainTexts(s)
      /\ Other \in Seq(ScriptLines(Texts)) /\ PlainTexts(Other) /\ Sensible(Other)
      /\ "f" \in PathNames /\ "g" \in PathNames /\ "f" # "g"
      /\ TRUE \in BOOLEAN /\ FALSE \in BOOLEAN
  BY OtherIsPlain, PathNamesAre DEF Sensible
<1>1. PICK m \in BOOLEAN : m = l.metadata
  BY DEF Untrimmed
<1>2. \A p \in PathNames, k \in BOOLEAN :
        /\ ApplyUnifiedDiff(OldFile(s), FilePart(p, s, m, k)).ok
        /\ ApplyUnifiedDiff(OldFile(s), FilePart(p, s, m, k)).out = NewFile(s)
        /\ ApplyUnifiedDiff(OldFile(Other), FilePart(p, Other, m, k)).ok
        /\ ApplyUnifiedDiff(OldFile(Other), FilePart(p, Other, m, k)).out = NewFile(Other)
  BY <1>0, PartIsApplied
<1>3. CASE ~l.otherFirst
  <2>1. PerFileDiffs(FileDiff("f", s, l) \o FileDiff("g", Other, l))
          = TwoParts("f", s, "g", Other, m)
    BY <1>0, <1>1, TwoPartsAreRead
  <2>2. PICK t : t = PerFileDiffs(RawDiff(s, l)) /\ t = TwoParts("f", s, "g", Other, m)
    BY <1>3, <2>1, Zenon DEF RawDiff
  <2>3. /\ DOMAIN t = {"f", "g"} /\ t["f"] = FilePart("f", s, m, FALSE)
        /\ t["g"] = FilePart("g", Other, m, TRUE)
    BY <2>2 DEF TwoParts
  <2> QED
    BY <1>0, <1>2, <2>2, <2>3, Zenon DEF IsApplied
<1>4. CASE l.otherFirst
  <2>1. PerFileDiffs(FileDiff("g", Other, l) \o FileDiff("f", s, l))
          = TwoParts("g", Other, "f", s, m)
    BY <1>0, <1>1, TwoPartsAreRead
  <2>2. PICK t : t = PerFileDiffs(RawDiff(s, l)) /\ t = TwoParts("g", Other, "f", s, m)
    BY <1>4, <2>1, Zenon DEF RawDiff
  <2>3. /\ DOMAIN t = {"f", "g"} /\ t["g"] = FilePart("g", Other, m, FALSE)
        /\ t["f"] = FilePart("f", s, m, TRUE)
    BY <2>2 DEF TwoParts
  <2> QED
    BY <1>0, <1>2, <2>2, <2>3, Zenon DEF IsApplied
<1> QED
  BY <1>3, <1>4

-----------------------------------------------------------------------------
(* What is committed is what was meant                                     *)

\* The diff of an ordinary change, as the engine may write it.
WrittenDiffs(s) == {RawDiff(s, l) : l \in Untrimmed}

\* The diff is one of these, and no other is committed.
DiffIsOrdinary ==
  /\ script \in Scripts /\ layout \in Layouts /\ stage \in Stages
  /\ stage # "engine" => diff \in WrittenDiffs(script)
  /\ stage = "committed" => files = Meant

\* The changes of the model are sensible ones, if the texts are.
LEMMA ScriptsAreSensible ==
  ASSUME Habits = {}, Texts \cap (PlusTexts \cup DashTexts) = {}, NEW s \in Scripts
  PROVE  Sensible(s)
<1>1. s \in Seq(ScriptLines(Texts))
  BY ScriptsAreSequences
<1>2. \A i \in DOMAIN s : s[i].text \in Texts
  <2>1. \A i \in DOMAIN s : s[i] \in ScriptLines(Texts)
    BY <1>1
  <2> QED
    BY <2>1 DEF ScriptLines
<1>3. PlainTexts(s)
  BY <1>2 DEF PlainTexts
<1>4. /\ \E i \in DOMAIN s : s[i].tag \in {"-", "+"}
      /\ Anchored(s)
  BY DEF Scripts, Anchored
<1>5. \E i \in DOMAIN s : Shown(s, i)
  BY <1>4 DEF Shown
<1> QED
  BY <1>1, <1>3, <1>4, <1>5 DEF Sensible

\* Dispatch rebuilds both files of such a diff.
LEMMA FilesAreMeant ==
  ASSUME Sensible(script), NEW d, IsApplied(script, d)
  PROVE  /\ DOMAIN Patched(Archive, d) = {"f", "g"}
         /\ \A p \in DOMAIN Patched(Archive, d) : Patched(Archive, d)[p].ok
         /\ [p \in DOMAIN Patched(Archive, d) |-> Patched(Archive, d)[p].out] = Meant
<1>1. /\ ContentOf(Archive, "f") = OldFile(script)
      /\ ContentOf(Archive, "g") = OldFile(Other)
  BY DEF ContentOf, Archive
<1>2. Meant["f"] = NewFile(script) /\ Meant["g"] = NewFile(Other)
  BY DEF Meant
<1>3. PICK P : P = Patched(Archive, d)
  OBVIOUS
<1>4. /\ DOMAIN P = {"f", "g"}
      /\ P["f"] = ApplyUnifiedDiff(OldFile(script), PerFileDiffs(d)["f"])
      /\ P["g"] = ApplyUnifiedDiff(OldFile(Other), PerFileDiffs(d)["g"])
  <2>1. DOMAIN PerFileDiffs(d) = {"f", "g"}
    BY DEF IsApplied
  <2>2. P = [p \in {"f", "g"} |->
               ApplyUnifiedDiff(ContentOf(Archive, p), PerFileDiffs(d)[p])]
    BY <1>3, <2>1, Zenon DEF Patched
  <2> QED
    BY <1>1, <2>2
<1>5. /\ P["f"].ok /\ P["f"].out = Meant["f"]
      /\ P["g"].ok /\ P["g"].out = Meant["g"]
  BY <1>2, <1>4, Zenon DEF IsApplied
<1>6. Meant = [p \in {"f", "g"} |-> Meant[p]]
  BY DEF Meant
<1>7. PICK M : M = Meant
  OBVIOUS
<1>8. [p \in DOMAIN P |-> P[p].out] = M
  BY <1>4, <1>5, <1>6, <1>7
<1>9. \A p \in DOMAIN P : P[p].ok
  BY <1>4, <1>5
<1> QED
  BY <1>3, <1>4, <1>7, <1>8, <1>9, Zenon

\* The invariant: what is stored is one of the ways to write the change, until
\* dispatch commits the files that were meant.
LEMMA OrdinaryDiffsAreKept ==
  ASSUME Habits = {}, Texts \cap (PlusTexts \cup DashTexts) = {}
  PROVE  Spec => []DiffIsOrdinary
<1>1. Init => DiffIsOrdinary
  BY DEF Init, DiffIsOrdinary, Stages
<1>2. DiffIsOrdinary /\ [Next]_vars => DiffIsOrdinary'
  <2> SUFFICES ASSUME DiffIsOrdinary, [Next]_vars PROVE DiffIsOrdinary'
    OBVIOUS
  <2>1. script \in Scripts /\ layout \in Layouts /\ Sensible(script)
    BY ScriptsAreSensible DEF DiffIsOrdinary
  <2>2. layout \in Untrimmed /\ Plain \in Untrimmed
    BY <2>1 DEF Layouts, Untrimmed, Plain
  <2>3. CASE Receive
    <3>1. CanonicalDiff(RawDiff(script, layout)) = RawDiff(script, Plain)
      <4>1. PlainTexts(script)
        BY <2>1 DEF Sensible
      <4> QED
        BY <2>1, <2>2, <4>1, CanonicalIsPlain
    <3>2. diff' \in WrittenDiffs(script)
      <4>1. diff' = RawDiff(script, layout) \/ diff' = CanonicalDiff(RawDiff(script, layout))
        BY <2>3 DEF Receive
      <4>2. diff' = RawDiff(script, layout) \/ diff' = RawDiff(script, Plain)
        BY <3>1, <4>1, Zenon
      <4> QED
        BY <2>2, <4>2, Zenon DEF WrittenDiffs
    <3> QED
      BY <2>1, <2>3, <3>2 DEF DiffIsOrdinary, Receive, Stages
  <2>4. CASE Validate
    <3>1. stage = "stored" /\ stage' \in {"ready", "failed"} /\ UNCHANGED <<script, layout, diff, files>>
      BY <2>4 DEF Validate, Verdict
    <3>2. diff \in WrittenDiffs(script)
      BY <3>1 DEF DiffIsOrdinary
    <3> QED
      BY <2>1, <3>1, <3>2 DEF DiffIsOrdinary, Stages
  <2>5. CASE Commit
    <3>1. stage = "ready" /\ UNCHANGED <<script, layout, diff>> /\ stage' \in {"committed", "failed"}
      BY <2>5 DEF Commit
    <3>2. diff \in WrittenDiffs(script)
      BY <3>1 DEF DiffIsOrdinary
    <3>3. PICK l \in Untrimmed : diff = RawDiff(script, l)
      BY <3>2 DEF WrittenDiffs
    <3>4. IsApplied(script, diff)
      <4>1. IsApplied(script, RawDiff(script, l))
        BY <2>1, RawIsApplied
      <4> QED
        BY <3>3, <4>1, Zenon
    <3>5. stage' = "committed" => files' = Meant
      <4>1. [p \in DOMAIN Patched(Archive, diff) |-> Patched(Archive, diff)[p].out] = Meant
        BY <2>1, <3>4, FilesAreMeant
      <4>2. stage' = "committed" =>
              files' = [p \in DOMAIN Patched(Archive, diff) |-> Patched(Archive, diff)[p].out]
        BY <2>5, Zenon DEF Commit
      <4> QED
        BY <4>1, <4>2, Zenon
    <3>6. Meant' = Meant
      BY <3>1 DEF Meant
    <3> QED
      BY <2>1, <3>1, <3>2, <3>5, <3>6 DEF DiffIsOrdinary, Stages
  <2>6. CASE UNCHANGED vars
    <3>1. Meant' = Meant
      BY <2>6 DEF Meant, vars
    <3> QED
      BY <2>6, <3>1 DEF DiffIsOrdinary, vars
  <2> QED
    BY <2>3, <2>4, <2>5, <2>6 DEF Next
<1> QED
  BY <1>1, <1>2, PTL DEF Spec

\* What dispatch commits is what the engine meant, for every file of the diff
\* and however it is written, as long as no line of a file begins like the
\* header of one and each hunk shows something of the old file: hunks are found
\* where their numbers say, whatever was inserted or removed before them, and
\* neither metadata nor the headers of the next file end up in one.
THEOREM FilesAreRebuilt ==
  ASSUME Habits = {}, Texts \cap (PlusTexts \cup DashTexts) = {}
  PROVE  Spec => []ReconstructsOrFails
<1>1. DiffIsOrdinary => ReconstructsOrFails
  BY DEF DiffIsOrdinary, ReconstructsOrFails
<1> QED
  BY <1>1, OrdinaryDiffsAreKept, PTL

-----------------------------------------------------------------------------
(* The parser of unidiff                                                   *)

\* What it holds between two lines.
Tallies == [ok : BOOLEAN, old : BOOLEAN, full : BOOLEAN, files : BOOLEAN,
            olds : Int, news : Int]

\* The arms of UnidiffLine exclude each other.
LEMMA TallyCases ==
  ASSUME NEW acc, NEW line, acc.ok
  PROVE  /\ acc.olds > 0 \/ acc.news > 0 =>
              /\ line.kind = "blank" \/ (line.kind = "body" /\ line.tag = " ") =>
                   UnidiffLine(acc, line)
                     = [acc EXCEPT !.olds = @ - 1, !.news = @ - 1,
                                   !.ok = acc.olds > 0 /\ acc.news > 0]
              /\ line.kind = "---" \/ (line.kind = "body" /\ line.tag = "-") =>
                   UnidiffLine(acc, line) = [acc EXCEPT !.olds = @ - 1, !.ok = acc.olds > 0]
              /\ line.kind = "+++" \/ (line.kind = "body" /\ line.tag = "+") =>
                   UnidiffLine(acc, line) = [acc EXCEPT !.news = @ - 1, !.ok = acc.news > 0]
              /\ line.kind \in {"@@", "metadata"} =>
                   UnidiffLine(acc, line) = [acc EXCEPT !.ok = FALSE]
  BY DEF UnidiffLine

\* A header of an old file.
LEMMA TallyOld ==
  ASSUME NEW acc, NEW line, acc.ok, ~(acc.olds > 0 \/ acc.news > 0),
         IsHeader(line, "---"), ~IsHeader(line, "+++"), line.kind # "@@"
  PROVE  UnidiffLine(acc, line) = [acc EXCEPT !.old = TRUE, !.ok = acc.full]
  BY DEF UnidiffLine

\* A header of a new file.
LEMMA TallyNew ==
  ASSUME NEW acc, NEW line, acc.ok, ~(acc.olds > 0 \/ acc.news > 0),
         IsHeader(line, "+++"), ~IsHeader(line, "---"), line.kind # "@@"
  PROVE  UnidiffLine(acc, line) = [acc EXCEPT !.old = FALSE, !.full = FALSE, !.ok = acc.old]
  BY DEF UnidiffLine

\* A header of a hunk, outside of one.
LEMMA TallyHunk ==
  ASSUME NEW acc, NEW line, acc.ok, ~(acc.olds > 0 \/ acc.news > 0),
         ~IsHeader(line, "+++"), ~IsHeader(line, "---"), line.kind = "@@"
  PROVE  UnidiffLine(acc, line)
           = [acc EXCEPT !.olds = line.olds, !.news = line.news, !.full = TRUE,
                         !.files = TRUE, !.ok = ~acc.old /\ (acc.files \/ ~acc.full)]
  BY DEF UnidiffLine

\* Any other line between hunks.
LEMMA TallyOther ==
  ASSUME NEW acc, NEW line, acc.ok, ~(acc.olds > 0 \/ acc.news > 0),
         ~IsHeader(line, "+++"), ~IsHeader(line, "---"), line.kind # "@@"
  PROVE  UnidiffLine(acc, line) = acc
  BY DEF UnidiffLine

\* A line leads from one state of the parser to another.
LEMMA UnidiffLineType ==
  ASSUME NEW acc \in Tallies, NEW line \in Lines
  PROVE  UnidiffLine(acc, line) \in Tallies
<1>1. /\ line.kind \in {"---", "+++", "@@", "body", "blank", "metadata"}
      /\ line.kind = "body" => line.tag \in {" ", "-", "+"}
      /\ line.kind = "@@" => line.olds \in Int /\ line.news \in Int
  <2>1. line.kind = "@@" => line \in HunkLines
    <3>1. /\ \A x \in [kind : {"---", "+++"}, text : PathNames, stamp : BOOLEAN] : x.kind # "@@"
          /\ \A x \in BodyLines(Texts) : x.kind # "@@"
          /\ Blank.kind # "@@" /\ Metadata.kind # "@@"
      BY DEF BodyLines, Blank, Metadata
    <3> QED
      BY <3>1, Zenon DEF Lines, BodyLines, HunkLines
  <2>2. \A h \in HunkLines : h.olds \in Int /\ h.news \in Int
    BY DEF HunkLines
  <2> QED
    BY <2>1, <2>2, KindsOfLines
<1>0. /\ ~(IsHeader(line, "---") /\ IsHeader(line, "+++"))
      /\ IsHeader(line, "---") \/ IsHeader(line, "+++") => line.kind # "@@"
  BY CleanHeaderFacts DEF IsHeader
<1>2. /\ acc.ok \in BOOLEAN /\ acc.old \in BOOLEAN /\ acc.full \in BOOLEAN
      /\ acc.files \in BOOLEAN /\ acc.olds \in Int /\ acc.news \in Int
      /\ acc.olds - 1 \in Int /\ acc.news - 1 \in Int
  BY DEF Tallies
<1>3. \A a, b \in Int : (a > 0) \in BOOLEAN /\ (a > 0 /\ b > 0) \in BOOLEAN
  OBVIOUS
<1>4. CASE ~acc.ok
  BY <1>4, Zenon DEF UnidiffLine, Tallies
<1>5. CASE acc.ok /\ (acc.olds > 0 \/ acc.news > 0)
  <2>1. CASE line.kind = "blank" \/ (line.kind = "body" /\ line.tag = " ")
    <3>1. UnidiffLine(acc, line)
            = [acc EXCEPT !.olds = @ - 1, !.news = @ - 1, !.ok = acc.olds > 0 /\ acc.news > 0]
      BY <1>5, <2>1, TallyCases, Zenon
    <3> QED
      BY <1>2, <3>1 DEF Tallies
  <2>2. CASE line.kind = "---" \/ (line.kind = "body" /\ line.tag = "-")
    <3>1. UnidiffLine(acc, line) = [acc EXCEPT !.olds = @ - 1, !.ok = acc.olds > 0]
      BY <1>5, <2>2, TallyCases, Zenon
    <3>2. PICK b \in BOOLEAN : b = (acc.olds > 0)
      BY <1>2, <1>3
    <3>3. [acc EXCEPT !.olds = @ - 1, !.ok = b] \in Tallies
      BY <1>2 DEF Tallies
    <3> QED
      BY <3>1, <3>2, <3>3, Zenon
  <2>3. CASE line.kind = "+++" \/ (line.kind = "body" /\ line.tag = "+")
    <3>1. UnidiffLine(acc, line) = [acc EXCEPT !.news = @ - 1, !.ok = acc.news > 0]
      BY <1>5, <2>3, TallyCases, Zenon
    <3>2. PICK b \in BOOLEAN : b = (acc.news > 0)
      BY <1>2, <1>3
    <3>3. [acc EXCEPT !.news = @ - 1, !.ok = b] \in Tallies
      BY <1>2 DEF Tallies
    <3> QED
      BY <3>1, <3>2, <3>3, Zenon
  <2>4. CASE line.kind \in {"@@", "metadata"}
    <3>1. UnidiffLine(acc, line) = [acc EXCEPT !.ok = FALSE]
      BY <1>5, <2>4, TallyCases
    <3> QED
      BY <1>2, <3>1 DEF Tallies
  <2> QED
    BY <1>1, <2>1, <2>2, <2>3, <2>4
<1>6. CASE acc.ok /\ ~(acc.olds > 0 \/ acc.news > 0)
  <2>1. CASE IsHeader(line, "---")
    <3>1. UnidiffLine(acc, line) = [acc EXCEPT !.old = TRUE, !.ok = acc.full]
      BY <1>0, <1>6, <2>1, TallyOld
    <3> QED
      BY <1>2, <3>1 DEF Tallies
  <2>2. CASE ~IsHeader(line, "---") /\ IsHeader(line, "+++")
    <3>1. UnidiffLine(acc, line) = [acc EXCEPT !.old = FALSE, !.full = FALSE, !.ok = acc.old]
      BY <1>0, <1>6, <2>2, TallyNew
    <3> QED
      BY <1>2, <3>1 DEF Tallies
  <2>3. CASE ~IsHeader(line, "---") /\ ~IsHeader(line, "+++") /\ line.kind = "@@"
    <3>1. UnidiffLine(acc, line)
            = [acc EXCEPT !.olds = line.olds, !.news = line.news, !.full = TRUE,
                          !.files = TRUE, !.ok = ~acc.old /\ (acc.files \/ ~acc.full)]
      BY <1>6, <2>3, TallyHunk
    <3> QED
      BY <1>1, <1>2, <2>3, <3>1 DEF Tallies
  <2>4. CASE ~IsHeader(line, "---") /\ ~IsHeader(line, "+++") /\ line.kind # "@@"
    <3>1. UnidiffLine(acc, line) = acc
      BY <1>6, <2>4, TallyOther
    <3> QED
      BY <3>1, Zenon
  <2> QED
    BY <2>1, <2>2, <2>3, <2>4, Zenon
<1> QED
  BY <1>4, <1>5, <1>6, Zenon

UnidiffStep == [x \in Tallies \X Lines |-> UnidiffLine(x[1], x[2])]

\* The lines d, read by the parser from acc on.
TallyAll(acc, d) == Folded(Tallies, UnidiffStep, acc, d)

\* Reading a line is a step of a fold.
LEMMA UnidiffSteps ==
  /\ UnidiffStep \in Steps(Tallies, Lines)
  /\ \A a \in Tallies, x \in Lines : UnidiffStep[<<a, x>>] = UnidiffLine(a, x)
  BY UnidiffLineType DEF UnidiffStep, Steps

\* The fold of the parser, from any state on.
LEMMA TallyIsFolded ==
  ASSUME NEW b \in Tallies, NEW d \in Seq(Lines)
  PROVE  FoldLeft(UnidiffLine, b, d) = TallyAll(b, d)
<1>1. PICK G : IsFoldTable(G, Tallies, Lines, UnidiffStep, b, d)
  BY UnidiffSteps, FoldTable
<1>2. G = [s \in SUBSET DOMAIN d |->
             IF s = {} THEN b ELSE UnidiffLine(G[s \ {Max(s)}], d[Max(s)])]
  BY <1>1, UnidiffSteps DEF IsFoldTable
<1>3. PICK H : /\ H = [s \in SUBSET DOMAIN d |->
                         IF s = {} THEN b ELSE UnidiffLine(H[s \ {Max(s)}], d[Max(s)])]
               /\ FoldLeft(UnidiffLine, b, d) = H[DOMAIN d]
  BY <1>2 DEF FoldLeft, MapThenFoldSet
<1>4. Folds(H, Tallies, Lines, UnidiffStep, b, d)
  BY <1>3, UnidiffSteps DEF Folds
<1> QED
  BY <1>3, <1>4, UnidiffSteps, FoldIsFolded DEF TallyAll

\* Its equations.
LEMMA TalliesOn ==
  ASSUME NEW b \in Tallies
  PROVE  /\ TallyAll(b, << >>) = b
         /\ \A d \in Seq(Lines) : TallyAll(b, d) \in Tallies
         /\ \A x \in Lines : TallyAll(b, <<x>>) = UnidiffLine(b, x)
         /\ \A d \in Seq(Lines), e \in Seq(Lines) :
              TallyAll(b, d \o e) = TallyAll(TallyAll(b, d), e)
<1>1. << >> \in Seq(Lines)
  BY EmptySeq
<1>2. ASSUME NEW d \in Seq(Lines)
      PROVE  /\ TallyAll(b, << >>) = b /\ TallyAll(b, d) \in Tallies
             /\ \A x \in Lines : TallyAll(b, <<x>>) = UnidiffLine(b, x)
             /\ \A e \in Seq(Lines) : TallyAll(b, d \o e) = TallyAll(TallyAll(b, d), e)
  <2>1. Unfolds(Tallies, Lines, UnidiffStep, b, d)
    BY UnidiffSteps, FoldedFacts
  <2> QED
    BY <2>1, UnidiffSteps DEF Unfolds, TallyAll
<1> QED
  BY <1>1, <1>2, Zenon

\* Between two files, or after the last.
Ready(acc) ==
  /\ acc \in Tallies /\ acc.ok /\ ~acc.old /\ acc.full /\ acc.olds = 0 /\ acc.news = 0
\* Behind the headers of a file, before its first hunk.
Headed(acc) ==
  /\ acc \in Tallies /\ acc.ok /\ ~acc.old /\ ~acc.full /\ acc.olds = 0 /\ acc.news = 0
\* In a file, with so many lines of the hunk still to come.
Inside(acc, olds, news) ==
  /\ acc \in Tallies /\ acc.ok /\ ~acc.old /\ acc.full /\ acc.files
  /\ acc.olds = olds /\ acc.news = news

\* The headers of a file lead to its hunks, and metadata to nothing.
LEMMA HeadersAreRead ==
  ASSUME NEW acc, Ready(acc), NEW p \in PathNames, NEW stamp \in BOOLEAN
  PROVE  /\ Headed(UnidiffLine(UnidiffLine(acc, Old(p, stamp)), New(p, stamp)))
         /\ UnidiffLine(acc, Metadata) = acc
<1>1. PICK x \in Lines, y \in Lines :
        /\ x = Old(p, stamp) /\ x.kind = "---" /\ y = New(p, stamp) /\ y.kind = "+++"
  <2>1. Old(p, stamp) \in Lines /\ New(p, stamp) \in Lines
    BY DEF Old, New, Lines
  <2>2. Old(p, stamp).kind = "---" /\ New(p, stamp).kind = "+++"
    BY DEF Old, New
  <2> QED
    BY <2>1, <2>2
<1>1a. /\ IsHeader(x, "---") /\ ~IsHeader(x, "+++") /\ x.kind # "@@"
       /\ IsHeader(y, "+++") /\ ~IsHeader(y, "---") /\ y.kind # "@@"
  BY <1>1 DEF IsHeader
<1>2. /\ acc \in Tallies /\ acc.ok /\ ~acc.old /\ acc.full
      /\ acc.olds = 0 /\ acc.news = 0 /\ ~(acc.olds > 0 \/ acc.news > 0)
  BY DEF Ready
<1>3. PICK a \in Tallies : a = UnidiffLine(acc, x)
  BY <1>2, UnidiffLineType
<1>4. a.ok /\ a.old /\ a.full /\ a.olds = 0 /\ a.news = 0 /\ ~(a.olds > 0 \/ a.news > 0)
  <2>1. a = [acc EXCEPT !.old = TRUE, !.ok = acc.full]
    BY <1>1a, <1>2, <1>3, TallyOld
  <2> QED
    BY <1>2, <2>1 DEF Tallies
<1>5. PICK b \in Tallies : b = UnidiffLine(a, y)
  BY UnidiffLineType
<1>6. b = [a EXCEPT !.old = FALSE, !.full = FALSE, !.ok = a.old]
  BY <1>1a, <1>4, <1>5, TallyNew
<1>7. b.ok /\ ~b.old /\ ~b.full /\ b.olds = 0 /\ b.news = 0
  BY <1>4, <1>6 DEF Tallies
<1>8. UnidiffLine(acc, Metadata) = acc
  <2>1. /\ Metadata.kind # "@@" /\ ~IsHeader(Metadata, "---") /\ ~IsHeader(Metadata, "+++")
    BY DEF Metadata, IsHeader
  <2> QED
    BY <1>2, <2>1, TallyOther
<1> QED
  BY <1>1, <1>3, <1>5, <1>7, <1>8, Zenon DEF Headed

\* The header of a hunk announces its lines.
LEMMA HunkIsRead ==
  ASSUME NEW acc, Headed(acc) \/ Inside(acc, 0, 0), NEW h \in Lines, h.kind = "@@"
  PROVE  Inside(UnidiffLine(acc, h), h.olds, h.news)
<1>1. /\ acc \in Tallies /\ acc.ok /\ ~acc.old /\ (acc.files \/ ~acc.full)
      /\ ~(acc.olds > 0 \/ acc.news > 0)
  BY DEF Headed, Inside
<1>2. ~IsHeader(h, "---") /\ ~IsHeader(h, "+++")
  BY DEF IsHeader
<1>3. PICK a \in Tallies : a = UnidiffLine(acc, h)
  BY <1>1, UnidiffLineType
<1>4. a = [acc EXCEPT !.olds = h.olds, !.news = h.news, !.full = TRUE,
                      !.files = TRUE, !.ok = ~acc.old /\ (acc.files \/ ~acc.full)]
  BY <1>1, <1>2, <1>3, TallyHunk
<1>5. a.ok /\ ~a.old /\ a.full /\ a.files /\ a.olds = h.olds /\ a.news = h.news
  BY <1>1, <1>4 DEF Tallies
<1> QED
  BY <1>3, <1>5, Zenon DEF Inside

\* What the next lemma needs of numbers.
LEMMA SomeLine == \A k \in Nat : k + 1 > 0 /\ (k + 1) - 1 = k
  OBVIOUS

\* A line of a hunk is one of those announced.
LEMMA BodyIsRead ==
  ASSUME NEW acc, NEW tag \in {" ", "-", "+"}, NEW t \in Texts,
         NEW m \in Nat, NEW n \in Nat,
         Inside(acc, IF tag = "+" THEN m ELSE m + 1, IF tag = "-" THEN n ELSE n + 1)
  PROVE  Inside(UnidiffLine(acc, Body(tag, t)), m, n)
<1>1. PICK l \in Lines : l = Body(tag, t) /\ l.kind = "body" /\ l.tag = tag
  <2>1. Body(tag, t) \in BodyLines(Texts)
    BY DEF Body, BodyLines
  <2>2. BodyLines(Texts) \subseteq Lines
    BY DEF BodyLines, Lines
  <2>3. Body(tag, t).kind = "body" /\ Body(tag, t).tag = tag
    BY DEF Body
  <2> QED
    BY <2>1, <2>2, <2>3
<1>2. /\ acc \in Tallies /\ acc.ok /\ ~acc.old /\ acc.full /\ acc.files
      /\ acc.olds = (IF tag = "+" THEN m ELSE m + 1)
      /\ acc.news = (IF tag = "-" THEN n ELSE n + 1)
      /\ acc.olds > 0 \/ acc.news > 0
  <2>1. /\ acc \in Tallies /\ acc.ok /\ ~acc.old /\ acc.full /\ acc.files
        /\ acc.olds = (IF tag = "+" THEN m ELSE m + 1)
        /\ acc.news = (IF tag = "-" THEN n ELSE n + 1)
    BY DEF Inside
  <2>2. m + 1 > 0 /\ n + 1 > 0
    BY SomeLine, Zenon
  <2>3. tag = "+" => tag # "-"
    BY Zenon
  <2> QED
    BY <2>1, <2>2, <2>3, Zenon
<1>3. PICK a \in Tallies : a = UnidiffLine(acc, l)
  BY <1>2, UnidiffLineType
<1>4. a.ok /\ ~a.old /\ a.full /\ a.files /\ a.olds = m /\ a.news = n
  <2>1. CASE tag = " "
    <3>1. a = [acc EXCEPT !.olds = @ - 1, !.news = @ - 1, !.ok = acc.olds > 0 /\ acc.news > 0]
      BY <1>1, <1>2, <1>3, <2>1, TallyCases, Zenon
    <3>2. acc.olds = m + 1 /\ acc.news = n + 1
      <4>1. tag # "+" /\ tag # "-"
        BY <2>1
      <4> QED
        BY <1>2, <4>1, Zenon
    <3>3. acc.olds > 0 /\ acc.news > 0
      BY <3>2, SomeLine, Zenon
    <3>4. a.ok /\ ~a.old /\ a.full /\ a.files
      BY <1>2, <3>1, <3>3 DEF Tallies
    <3>5. a.olds = acc.olds - 1 /\ a.news = acc.news - 1
      BY <1>2, <3>1 DEF Tallies
    <3> QED
      BY <3>2, <3>4, <3>5, SomeLine, Zenon
  <2>2. CASE tag = "-"
    <3>1. a = [acc EXCEPT !.olds = @ - 1, !.ok = acc.olds > 0]
      BY <1>1, <1>2, <1>3, <2>2, TallyCases, Zenon
    <3> QED
      BY <1>2, <2>2, <3>1 DEF Tallies
  <2>3. CASE tag = "+"
    <3>1. a = [acc EXCEPT !.news = @ - 1, !.ok = acc.news > 0]
      BY <1>1, <1>2, <1>3, <2>3, TallyCases, Zenon
    <3> QED
      BY <1>2, <2>3, <3>1 DEF Tallies
  <2> QED
    BY <2>1, <2>2, <2>3
<1> QED
  BY <1>1, <1>3, <1>4, Zenon DEF Inside

-----------------------------------------------------------------------------
(* The numbers of a hunk                                                   *)

\* A run of shown lines has one end.
LEMMA OneEnd ==
  ASSUME NEW S, NEW s \in Seq(S), NEW i \in 1..Len(s), NEW j \in 1..Len(s), j = i + 1,
         Shown(s, i)
  PROVE  IF Shown(s, j) THEN EndOf(s, i) = EndOf(s, j) ELSE EndOf(s, i) = i
<1>1. Len(s) \in Nat
  BY LenProperties
<1>2. PICK e \in i..Len(s) :
        /\ e = EndOf(s, i)
        /\ \A h \in i..e : Shown(s, h)
        /\ e = Len(s) \/ ~Shown(s, e + 1)
  BY EndExists
<1>3. CASE Shown(s, j)
  <2>1. PICK f \in j..Len(s) :
          /\ f = EndOf(s, j)
          /\ \A h \in j..f : Shown(s, h)
          /\ f = Len(s) \/ ~Shown(s, f + 1)
    BY <1>3, EndExists
  <2>2. e >= j
    <3> SUFFICES ASSUME e < j PROVE FALSE
      BY <1>2
    <3>1. e = i /\ e + 1 = j /\ e # Len(s)
      BY <1>1, <1>2
    <3> QED
      BY <1>2, <1>3, <3>1
  <2>3. ~(e < f)
    <3> SUFFICES ASSUME e < f PROVE FALSE
      OBVIOUS
    <3>1. e + 1 \in j..f /\ e # Len(s)
      BY <1>1, <1>2, <2>1, <2>2
    <3> QED
      BY <1>2, <2>1, <3>1
  <2>4. ~(f < e)
    <3> SUFFICES ASSUME f < e PROVE FALSE
      OBVIOUS
    <3>1. f + 1 \in i..e /\ f # Len(s)
      BY <1>1, <1>2, <2>1
    <3> QED
      BY <1>2, <2>1, <3>1
  <2>5. e = f
    BY <1>2, <2>1, <2>3, <2>4
  <2> QED
    BY <1>2, <1>3, <2>1, <2>5
<1>4. CASE ~Shown(s, j)
  <2>1. ~(e >= j)
    <3> SUFFICES ASSUME e >= j PROVE FALSE
      OBVIOUS
    <3>1. j \in i..e
      BY <1>2
    <3> QED
      BY <1>2, <1>4, <3>1
  <2>2. e = i
    BY <1>2, <2>1
  <2> QED
    BY <1>2, <1>4, <2>2
<1> QED
  BY <1>3, <1>4

\* Numbers without the first line.
LEMMA NumbersFall ==
  ASSUME NEW s, NEW a \in Nat, NEW e \in Nat, a <= e
  PROVE  /\ Number(s, a, e, IsOld)
              = Number(s, a + 1, e, IsOld) + (IF IsOld(s, a) THEN 1 ELSE 0)
         /\ Number(s, a, e, IsNew)
              = Number(s, a + 1, e, IsNew) + (IF IsNew(s, a) THEN 1 ELSE 0)
<1>1. ASSUME NEW X
      PROVE  Cardinality({h \in a..e : h \in X})
               = Cardinality({h \in (a + 1)..e : h \in X}) + (IF a \in X THEN 1 ELSE 0)
  <2> DEFINE Y == {h \in (a + 1)..e : h \in X}
  <2>1. IsFiniteSet(Y) /\ a \notin Y /\ Cardinality(Y) \in Nat
    <3>1. Y \subseteq (a + 1)..e /\ IsFiniteSet((a + 1)..e)
      BY FS_Interval
    <3> QED
      BY <3>1, FS_Subset, FS_CardinalityType
  <2>2. {h \in a..e : h \in X} = IF a \in X THEN Y \cup {a} ELSE Y
    OBVIOUS
  <2>3. Cardinality(Y \cup {a}) = Cardinality(Y) + 1
    <3> HIDE DEF Y
    <3> QED
      BY <2>1, FS_AddElement
  <2> HIDE DEF Y
  <2>4. CASE a \in X
    BY <2>2, <2>3, <2>4 DEF Y
  <2>5. CASE a \notin X
    <3>1. {h \in a..e : h \in X} = Y
      BY <2>2, <2>5, Zenon
    <3>2. Cardinality(Y) + 0 = Cardinality(Y)
      BY <2>1
    <3> QED
      BY <2>5, <3>1, <3>2 DEF Y
  <2> QED
    BY <2>4, <2>5
<1>2. ASSUME NEW X, \A h \in a..e : h \in X <=> IsOld(s, h)
      PROVE  /\ Number(s, a, e, IsOld) = Cardinality({h \in a..e : h \in X})
             /\ Number(s, a + 1, e, IsOld) = Cardinality({h \in (a + 1)..e : h \in X})
  <2>1. {h \in a..e : h \in X} = {h \in a..e : IsOld(s, h)}
    BY <1>2
  <2>2. {h \in (a + 1)..e : h \in X} = {h \in (a + 1)..e : IsOld(s, h)}
    <3>1. \A h \in (a + 1)..e : h \in a..e
      OBVIOUS
    <3> QED
      BY <1>2, <3>1
  <2> QED
    BY <2>1, <2>2 DEF Number
<1>3. ASSUME NEW X, \A h \in a..e : h \in X <=> IsNew(s, h)
      PROVE  /\ Number(s, a, e, IsNew) = Cardinality({h \in a..e : h \in X})
             /\ Number(s, a + 1, e, IsNew) = Cardinality({h \in (a + 1)..e : h \in X})
  <2>1. {h \in a..e : h \in X} = {h \in a..e : IsNew(s, h)}
    BY <1>3
  <2>2. {h \in (a + 1)..e : h \in X} = {h \in (a + 1)..e : IsNew(s, h)}
    <3>1. \A h \in (a + 1)..e : h \in a..e
      OBVIOUS
    <3> QED
      BY <1>3, <3>1
  <2> QED
    BY <2>1, <2>2 DEF Number
<1>4. a \in a..e
  OBVIOUS
<1>5. PICK X, Y : /\ \A h \in a..e : h \in X <=> IsOld(s, h)
                  /\ \A h \in a..e : h \in Y <=> IsNew(s, h)
  <2>1. \A h \in a..e : h \in {k \in a..e : IsOld(s, k)} <=> IsOld(s, h)
    OBVIOUS
  <2>2. \A h \in a..e : h \in {k \in a..e : IsNew(s, k)} <=> IsNew(s, h)
    OBVIOUS
  <2> QED
    BY <2>1, <2>2
<1> QED
  BY <1>1, <1>2, <1>3, <1>4, <1>5, Zenon

\* Nothing follows the last line.
LEMMA NumbersEnd ==
  ASSUME NEW s, NEW e \in Nat
  PROVE  Number(s, e + 1, e, IsOld) = 0 /\ Number(s, e + 1, e, IsNew) = 0
<1>1. (e + 1)..e = {}
  OBVIOUS
<1>2. {h \in (e + 1)..e : IsOld(s, h)} = {} /\ {h \in (e + 1)..e : IsNew(s, h)} = {}
  BY <1>1
<1> QED
  BY <1>2, FS_EmptySet DEF Number

\* The parser behind line i of a change: nothing was shown yet, or so many lines
\* of the hunk are still to come.
Tallied(s, P, b, i) ==
  LET acc == TallyAll(b, P[i]) IN
  IF \E k \in 1..i : Shown(s, k)
  THEN IF Shown(s, i)
       THEN Inside(acc, Number(s, i + 1, EndOf(s, i), IsOld),
                        Number(s, i + 1, EndOf(s, i), IsNew))
       ELSE Inside(acc, 0, 0)
  ELSE acc = b

\* What the lemmas on Number need of it.
LEMMA NothingAdded == \A k \in Nat : k + 0 = k
  OBVIOUS

\* Neighbouring lines of a change.
Neighbours(s, i, j) ==
  /\ j \in 1..Len(s) /\ j \in 0..Len(s) /\ j - 1 = i
  /\ i \in Nat /\ j \in Nat /\ j \in Int /\ j + 1 \in Int /\ j # 0
  /\ i # 0 => i \in 1..Len(s) /\ i \in 1..i
  /\ (j = 1 <=> i = 0) /\ j \in 1..j
  /\ \A k : k \in 1..j <=> (k \in 1..i \/ k = j)
  /\ \A k \in 1..i : i # 0
  /\ \A k \in j..Len(s) : k \in Nat /\ k \in Int /\ j <= k

\* The next line of what is written.
RendersOn(s, P, i, j) ==
  Neighbours(s, i, j) /\ P[i] \in Seq(Lines) /\ P[j] = Written(s, FALSE, P[i], j)

\* The next line of what is written.
LEMMA RenderingGoesOn ==
  ASSUME NEW s \in Seq(ScriptLines(Texts)), NEW P, IsRendering(P, Texts, s, FALSE),
         NEW i \in 0..Len(s), i < Len(s), NEW j, j = i + 1
  PROVE  RendersOn(s, P, i, j)
<1>1. Len(s) \in Nat
  BY LenProperties
<1>2. Neighbours(s, i, j)
  BY <1>1 DEF Neighbours
<1>3. P[i] \in Seq(Lines)
  <2>1. P[i] \in Seq(ShownLines(Texts))
    BY DEF IsRendering
  <2> QED
    BY <2>1, ShownAreLines, SeqMonotonic
<1>4. P[j] = Written(s, FALSE, P[i], j)
  <2>1. \A m \in 1..Len(s) : P[m] = Written(s, FALSE, P[m - 1], m)
    BY DEF IsRendering
  <2>2. P[j] = Written(s, FALSE, P[j - 1], j)
    BY <1>2, <2>1 DEF Neighbours
  <2> QED
    BY <1>2, <2>2, Zenon DEF Neighbours
<1> QED
  BY <1>2, <1>3, <1>4, Zenon DEF RendersOn

\* A line that is not shown ends the hunk, if there is one,
LEMMA TalliedUnshown ==
  ASSUME NEW s \in Seq(ScriptLines(Texts)), NEW P, IsRendering(P, Texts, s, FALSE),
         NEW b \in Tallies, Headed(b),
         NEW i \in 0..Len(s), i < Len(s), Tallied(s, P, b, i), ~Shown(s, i + 1)
  PROVE  Tallied(s, P, b, i + 1)
<1>1. PICK j : j = i + 1
  OBVIOUS
<1>2. RendersOn(s, P, i, j)
  BY <1>1, RenderingGoesOn
<1>3. ~Shown(s, j)
  BY <1>1, Zenon
<1>4. P[j] = P[i]
  BY <1>2, <1>3, Zenon DEF RendersOn, Neighbours, Written
<1>5. (\E k \in 1..j : Shown(s, k)) <=> \E k \in 1..i : Shown(s, k)
  BY <1>2, <1>3, Zenon DEF RendersOn, Neighbours
<1>6. CASE \E k \in 1..i : Shown(s, k)
  <2>1. Inside(TallyAll(b, P[i]), 0, 0)
    <3>1. CASE Shown(s, i)
      <4>1. i # 0
        BY <1>6
      <4>2. i \in 1..Len(s) /\ j \in 1..Len(s) /\ i \in Nat
        BY <1>2, <4>1, Zenon DEF RendersOn, Neighbours
      <4>3. EndOf(s, i) = i
        BY <1>1, <1>3, <3>1, <4>2, OneEnd
      <4>4. Number(s, i + 1, i, IsOld) = 0 /\ Number(s, i + 1, i, IsNew) = 0
        BY <4>2, NumbersEnd
      <4> QED
        BY <1>6, <3>1, <4>3, <4>4, Zenon DEF Tallied
    <3>2. CASE ~Shown(s, i)
      BY <1>6, <3>2, Zenon DEF Tallied
    <3> QED
      BY <3>1, <3>2
  <2> QED
    BY <1>1, <1>3, <1>4, <1>5, <1>6, <2>1, Zenon DEF Tallied
<1>7. CASE ~\E k \in 1..i : Shown(s, k)
  BY <1>1, <1>4, <1>5, <1>7, Zenon DEF Tallied
<1> QED
  BY <1>6, <1>7

\* ... and one that is belongs to it.
LEMMA TalliedShown ==
  ASSUME NEW s \in Seq(ScriptLines(Texts)), NEW P, IsRendering(P, Texts, s, FALSE),
         NEW b \in Tallies, Headed(b),
         NEW i \in 0..Len(s), i < Len(s), Tallied(s, P, b, i), Shown(s, i + 1)
  PROVE  Tallied(s, P, b, i + 1)
<1>1. PICK j : j = i + 1
  OBVIOUS
<1>2. RendersOn(s, P, i, j)
  BY <1>1, RenderingGoesOn
<1>2a. j \in 1..Len(s) /\ j \in Nat /\ i \in Nat
  BY <1>2, Zenon DEF RendersOn, Neighbours
<1>3. Shown(s, j)
  BY <1>1, Zenon
<1>4. PICK h \in Lines, l \in Lines, t \in Texts, tag \in {" ", "-", "+"} :
        /\ h = HunkAt(s, j) /\ h.kind = "@@" /\ l = Body(tag, t)
        /\ t = s[j].text /\ tag = s[j].tag
  BY <1>2a, <1>3, ShownLineType
<1>5. PICK e \in Nat : e \in Int /\ e = EndOf(s, j) /\ j <= e
  <2>1. EndOf(s, j) \in j..Len(s)
    BY <1>2a, <1>3, EndExists
  <2>2. \A x \in j..Len(s) : x \in Nat /\ x \in Int /\ j <= x
    BY <1>2, Zenon DEF RendersOn, Neighbours
  <2> QED
    BY <1>2, <2>1, <2>2, Zenon DEF RendersOn, Neighbours
<1>6. PICK m \in Nat, n \in Nat, m1 \in Nat, n1 \in Nat :
        /\ m = Number(s, j, e, IsOld) /\ n = Number(s, j, e, IsNew)
        /\ m1 = Number(s, j + 1, e, IsOld) /\ n1 = Number(s, j + 1, e, IsNew)
  <2>1. j \in Int /\ j + 1 \in Int /\ e \in Int
    BY <1>2, <1>5, Zenon DEF RendersOn, Neighbours
  <2> QED
    BY <2>1, NumbersCount
<1>7. /\ m = (IF tag = "+" THEN m1 ELSE m1 + 1)
      /\ n = (IF tag = "-" THEN n1 ELSE n1 + 1)
  <2>1. /\ m = m1 + (IF IsOld(s, j) THEN 1 ELSE 0)
        /\ n = n1 + (IF IsNew(s, j) THEN 1 ELSE 0)
    <3>1. /\ Number(s, j, e, IsOld)
               = Number(s, j + 1, e, IsOld) + (IF IsOld(s, j) THEN 1 ELSE 0)
          /\ Number(s, j, e, IsNew)
               = Number(s, j + 1, e, IsNew) + (IF IsNew(s, j) THEN 1 ELSE 0)
      BY <1>2a, <1>5, NumbersFall
    <3> QED
      BY <1>6, <3>1, Zenon
  <2>2. (IsOld(s, j) <=> tag # "+") /\ (IsNew(s, j) <=> tag # "-")
    BY <1>4 DEF IsOld, IsNew
  <2>3. m1 + 0 = m1 /\ n1 + 0 = n1
    BY NothingAdded
  <2> QED
    BY <2>1, <2>2, <2>3, Zenon
<1>8. PICK acc \in Tallies : acc = TallyAll(b, P[i])
  <2>1. P[i] \in Seq(Lines)
    BY <1>2, Zenon DEF RendersOn, Neighbours
  <2> QED
    BY <2>1, TalliesOn
<1> DEFINE mid == IF j \in Starts(s) THEN UnidiffLine(acc, h) ELSE acc
<1>9. TallyAll(b, P[j]) = UnidiffLine(mid, l)
  <2>1. Folded(Tallies, UnidiffStep, b, Written(s, FALSE, P[i], j)) =
              UnidiffStep[<<IF j \in Starts(s) THEN UnidiffStep[<<acc, h>>] ELSE acc, l>>]
    <3>1. UnidiffStep \in Steps(Tallies, Lines)
      BY UnidiffSteps
    <3>2. PICK lines \in Seq(Lines) : lines = P[i]
      BY <1>2, Zenon DEF RendersOn, Neighbours
    <3>3. acc = Folded(Tallies, UnidiffStep, b, lines)
      BY <1>8, <3>2, Zenon DEF TallyAll
    <3>4. ReadsOn(Tallies, UnidiffStep, b, s, lines, j, acc)
      BY <1>2a, <1>3, <3>1, <3>3, WrittenIsFolded
    <3> QED
      BY <1>4, <3>2, <3>4, Zenon DEF ReadsOn
  <2>2. UnidiffStep[<<acc, h>>] = UnidiffLine(acc, h) /\ UnidiffLine(acc, h) \in Tallies
    BY UnidiffSteps, UnidiffLineType
  <2>3. mid \in Tallies
    BY <2>2
  <2>4. UnidiffStep[<<mid, l>>] = UnidiffLine(mid, l)
    <3> HIDE DEF mid
    <3> QED
      BY <2>3, UnidiffSteps
  <2>5. P[j] = Written(s, FALSE, P[i], j)
    BY <1>2, Zenon DEF RendersOn, Neighbours
  <2> QED
    BY <2>1, <2>2, <2>4, <2>5, Zenon DEF TallyAll
<1>10. Inside(mid, m, n)
  <2>1. CASE j \in Starts(s)
    <3>1. i = 0 \/ ~Shown(s, i)
      <4>1. j = 1 \/ ~Shown(s, j - 1)
        BY <2>1 DEF Starts
      <4>2. j - 1 = i /\ (j = 1 => i = 0)
        BY <1>2, Zenon DEF RendersOn, Neighbours
      <4> QED
        BY <4>1, <4>2, Zenon
    <3>2. Headed(acc) \/ Inside(acc, 0, 0)
      <4>1. CASE \E k \in 1..i : Shown(s, k)
        <5>1. i # 0
          BY <1>2, <4>1, Zenon DEF RendersOn, Neighbours
        <5> QED
          BY <1>8, <3>1, <4>1, <5>1, Zenon DEF Tallied
      <4>2. CASE ~\E k \in 1..i : Shown(s, k)
        BY <1>8, <4>2, Zenon DEF Tallied
      <4> QED
        BY <4>1, <4>2
    <3>3. Inside(UnidiffLine(acc, h), h.olds, h.news)
      BY <1>4, <3>2, HunkIsRead
    <3>4. h.olds = m /\ h.news = n
      <4>1. /\ HunkAt(s, j).olds = Number(s, j, EndOf(s, j), IsOld)
            /\ HunkAt(s, j).news = Number(s, j, EndOf(s, j), IsNew)
        BY DEF HunkAt, Hunk
      <4> QED
        BY <1>4, <1>5, <1>6, <4>1, Zenon
    <3> QED
      BY <2>1, <3>3, <3>4, Zenon
  <2>2. CASE j \notin Starts(s)
    <3>1. j # 1 /\ Shown(s, i)
      <4>1. j \in DOMAIN s
        BY <1>2a, LenProperties
      <4>2. j # 1 /\ Shown(s, j - 1)
        BY <1>3, <2>2, <4>1, Zenon DEF Starts
      <4>3. j - 1 = i
        BY <1>2, Zenon DEF RendersOn, Neighbours
      <4> QED
        BY <4>2, <4>3, Zenon
    <3>2. i # 0
      BY <1>2, <3>1, Zenon DEF RendersOn, Neighbours
    <3>3. i \in 1..Len(s) /\ i \in 1..i
      BY <1>2, <3>2, Zenon DEF RendersOn, Neighbours
    <3>4. EndOf(s, i) = EndOf(s, j)
      BY <1>1, <1>2a, <1>3, <3>1, <3>3, OneEnd
    <3>5. Inside(acc, Number(s, i + 1, EndOf(s, i), IsOld),
                      Number(s, i + 1, EndOf(s, i), IsNew))
      BY <1>8, <3>1, <3>3, Zenon DEF Tallied
    <3> QED
      BY <1>1, <1>5, <1>6, <2>2, <3>4, <3>5, Zenon
  <2> QED
    BY <2>1, <2>2
<1> HIDE DEF mid
<1>11. Inside(UnidiffLine(mid, l), m1, n1)
  <2>1. Inside(mid, IF tag = "+" THEN m1 ELSE m1 + 1, IF tag = "-" THEN n1 ELSE n1 + 1)
    BY <1>7, <1>10, Zenon
  <2>2. Inside(UnidiffLine(mid, Body(tag, t)), m1, n1)
    BY <2>1, BodyIsRead
  <2> QED
    BY <1>4, <2>2, Zenon
<1>12. \E k \in 1..j : Shown(s, k)
  <2>1. j \in 1..j
    BY <1>2, Zenon DEF RendersOn, Neighbours
  <2> QED
    BY <1>3, <2>1, Zenon
<1>13. Tallied(s, P, b, j)
  BY <1>3, <1>5, <1>6, <1>9, <1>11, <1>12, Zenon DEF Tallied
<1> QED
  BY <1>1, <1>13, Zenon

\* The hunks of a file have as many lines as they announce.
LEMMA RenderedIsTallied ==
  ASSUME NEW s \in Seq(ScriptLines(Texts)), \E k \in DOMAIN s : Shown(s, k),
         NEW b \in Tallies, Headed(b)
  PROVE  Inside(TallyAll(b, Rendered(s, FALSE)), 0, 0)
<1>1. PICK P : IsRendering(P, Texts, s, FALSE)
  <2>1. FALSE \in BOOLEAN
    OBVIOUS
  <2> QED
    BY <2>1, RenderingExists
<1>2. Len(s) \in Nat /\ DOMAIN s = 1..Len(s)
  BY LenProperties
<1> DEFINE N == {i \in 0..Len(s) : Tallied(s, P, b, i)}
<1>3. 0 \in N
  <2>1. ~\E k \in 1..0 : Shown(s, k)
    OBVIOUS
  <2>2. TallyAll(b, P[0]) = b
    <3>1. P[0] = << >>
      BY <1>1 DEF IsRendering
    <3>2. TallyAll(b, << >>) = b
      BY TalliesOn
    <3> QED
      BY <3>1, <3>2, Zenon
  <2>3. Tallied(s, P, b, 0)
    BY <2>1, <2>2, Zenon DEF Tallied
  <2> QED
    BY <1>2, <2>3
<1>4. ASSUME NEW i \in 0..Len(s), i \in N, i < Len(s) PROVE i + 1 \in N
  <2>1. Tallied(s, P, b, i + 1)
    BY <1>1, <1>4, TalliedShown, TalliedUnshown
  <2>2. i + 1 \in 0..Len(s)
    BY <1>2, <1>4
  <2> QED
    BY <2>1, <2>2
<1>5. \A i \in 0..Len(s) : i \in N
  <2> HIDE DEF N
  <2> QED BY <1>2, <1>3, <1>4, PrefixesOf
<1>6. Tallied(s, P, b, Len(s))
  BY <1>2, <1>5
<1>7. \E k \in 1..Len(s) : Shown(s, k)
  BY <1>2, Zenon
<1>8. Inside(TallyAll(b, P[Len(s)]), 0, 0)
  <2>1. CASE Shown(s, Len(s))
    <3>1. Len(s) \in 1..Len(s)
      BY <1>2, <1>7
    <3>2. EndOf(s, Len(s)) = Len(s)
      <4>1. EndOf(s, Len(s)) \in Len(s)..Len(s)
        BY <2>1, <3>1, EndExists
      <4> QED
        BY <1>2, <4>1
    <3>3. /\ Number(s, Len(s) + 1, Len(s), IsOld) = 0
          /\ Number(s, Len(s) + 1, Len(s), IsNew) = 0
      BY <1>2, NumbersEnd
    <3> QED
      BY <1>6, <1>7, <2>1, <3>2, <3>3, Zenon DEF Tallied
  <2>2. CASE ~Shown(s, Len(s))
    BY <1>6, <1>7, <2>2, Zenon DEF Tallied
  <2> QED
    BY <2>1, <2>2
<1>9. Rendered(s, FALSE) = P[Len(s)]
  BY <1>1 DEF IsRendering
<1> QED
  BY <1>8, <1>9, Zenon

-----------------------------------------------------------------------------
(* No ordinary diff is refused                                             *)

\* The diff of one file, read between two files.
LEMMA FileIsTallied ==
  ASSUME NEW s \in Seq(ScriptLines(Texts)), \E k \in DOMAIN s : Shown(s, k),
         NEW p \in PathNames, NEW l \in Untrimmed, NEW acc, Ready(acc)
  PROVE  /\ FileDiff(p, s, l) \in Seq(Lines)
         /\ Inside(TallyAll(acc, FileDiff(p, s, l)), 0, 0)
<1>0. PICK m \in BOOLEAN : m = l.metadata
  BY DEF Untrimmed
<1>1. PICK x \in Lines, y \in Lines, z \in Lines :
        x = Old(p, m) /\ y = New(p, m) /\ z = Metadata
  <2>1. Old(p, m) \in Lines /\ New(p, m) \in Lines /\ Metadata \in Lines
    BY DEF Old, New, Lines
  <2> QED
    BY <2>1
<1>2. PICK u \in Seq(Lines), v \in Seq(Lines), h \in Seq(Lines), k \in Seq(Lines) :
        /\ u = <<x>> /\ v = <<y>> /\ h = u \o v /\ h = <<x, y>> /\ k = <<z>>
  <2>1. <<x>> \in Seq(Lines) /\ <<y>> \in Seq(Lines) /\ <<z>> \in Seq(Lines)
        /\ <<x, y>> \in Seq(Lines)
    OBVIOUS
  <2>2. <<x, y>> = <<x>> \o <<y>>
    BY LinesPaired, Zenon
  <2> QED
    BY <2>1, <2>2, Zenon
<1>3. PICK r \in Seq(Lines) : r = Rendered(s, FALSE)
  <2>1. FALSE \in BOOLEAN
    OBVIOUS
  <2>2. Rendered(s, FALSE) \in Seq(ShownLines(Texts))
    BY <2>1, RenderedType
  <2> QED
    BY <2>2, ShownAreLines, SeqMonotonic
<1>4. acc \in Tallies
  BY DEF Ready
<1>5. PICK a \in Tallies : a = UnidiffLine(acc, x)
  BY <1>4, UnidiffLineType
<1>6. PICK b \in Tallies : b = UnidiffLine(a, y)
  BY UnidiffLineType
<1>7. Headed(b) /\ UnidiffLine(acc, z) = acc
  BY <1>0, <1>1, <1>5, <1>6, HeadersAreRead, Zenon
<1>8. TallyAll(acc, h) = b
  <2>1. TallyAll(acc, u \o v) = TallyAll(TallyAll(acc, u), v)
    BY <1>4, TalliesOn
  <2>2. TallyAll(acc, <<x>>) = UnidiffLine(acc, x) /\ TallyAll(a, <<y>>) = UnidiffLine(a, y)
    BY <1>4, TalliesOn
  <2> QED
    BY <1>2, <1>5, <1>6, <2>1, <2>2, Zenon
<1>9. PICK d \in Seq(Lines) : d = Part(p, s, m) /\ d = h \o r
  <2>1. Part(p, s, m) = <<Old(p, m), New(p, m)>> \o Rendered(s, FALSE)
    BY DEF Part
  <2>2. h \o r \in Seq(Lines)
    BY ConcatProperties
  <2> QED
    BY <1>1, <1>2, <1>3, <2>1, <2>2, Zenon
<1>10. Inside(TallyAll(acc, d), 0, 0)
  <2>1. TallyAll(acc, h \o r) = TallyAll(TallyAll(acc, h), r)
    BY <1>4, TalliesOn
  <2>2. Inside(TallyAll(b, Rendered(s, FALSE)), 0, 0)
    BY <1>7, RenderedIsTallied
  <2> QED
    BY <1>3, <1>8, <1>9, <2>1, <2>2, Zenon
<1>11. FileDiff(p, s, l) = IF m THEN k \o d ELSE d
  <2>1. FileDiff(p, s, l) = IF m THEN <<Metadata>> \o Part(p, s, m) ELSE Part(p, s, m)
    BY <1>0, FileDiffIsPart
  <2> QED
    BY <1>1, <1>2, <1>9, <2>1, Zenon
<1>12. k \o d \in Seq(Lines) /\ TallyAll(acc, k \o d) = TallyAll(acc, d)
  <2>1. TallyAll(acc, k \o d) = TallyAll(TallyAll(acc, k), d)
    BY <1>4, TalliesOn
  <2>2. TallyAll(acc, <<z>>) = UnidiffLine(acc, z)
    BY <1>4, TalliesOn
  <2>3. k \o d \in Seq(Lines)
    BY ConcatProperties
  <2> QED
    BY <1>2, <1>7, <2>1, <2>2, <2>3, Zenon
<1> QED
  BY <1>9, <1>10, <1>11, <1>12, Zenon

\* Both files of a diff pass.
LEMMA RawIsStructured ==
  ASSUME NEW s, Sensible(s), NEW l \in Untrimmed
  PROVE  Structured(RawDiff(s, l))
<1>0. /\ s \in Seq(ScriptLines(Texts)) /\ \E k \in DOMAIN s : Shown(s, k)
      /\ Other \in Seq(ScriptLines(Texts)) /\ \E k \in DOMAIN Other : Shown(Other, k)
      /\ "f" \in PathNames /\ "g" \in PathNames
  BY OtherIsPlain, PathNamesAre DEF Sensible
<1> DEFINE start == [ok |-> TRUE, old |-> FALSE, full |-> TRUE, files |-> FALSE,
                     olds |-> 0, news |-> 0]
<1>1. Ready(start)
  BY DEF Ready, Tallies
<1>2. ASSUME NEW acc, Inside(acc, 0, 0)
      PROVE  Ready(acc)
  BY <1>2 DEF Inside, Ready
<1>3. ASSUME NEW p \in PathNames, NEW t \in Seq(ScriptLines(Texts)),
             \E k \in DOMAIN t : Shown(t, k),
             NEW q \in PathNames, NEW w \in Seq(ScriptLines(Texts)),
             \E k \in DOMAIN w : Shown(w, k)
      PROVE  Structured(FileDiff(p, t, l) \o FileDiff(q, w, l))
  <2> HIDE DEF start
  <2>1. PICK a \in Seq(Lines) : a = FileDiff(p, t, l) /\ Inside(TallyAll(start, a), 0, 0)
    BY <1>1, <1>3, FileIsTallied
  <2>2. PICK acc : acc = TallyAll(start, a) /\ Ready(acc)
    BY <1>2, <2>1
  <2>3. PICK b \in Seq(Lines) : b = FileDiff(q, w, l) /\ Inside(TallyAll(acc, b), 0, 0)
    BY <1>3, <2>2, FileIsTallied
  <2>4. start \in Tallies
    BY <1>1 DEF Ready
  <2>5. TallyAll(start, a \o b) = TallyAll(acc, b)
    BY <2>2, <2>4, TalliesOn
  <2>6. PICK d \in Seq(Lines) : d = a \o b
    BY ConcatProperties
  <2>7. PICK end : end = FoldLeft(UnidiffLine, start, d) /\ Inside(end, 0, 0)
    <3>1. FoldLeft(UnidiffLine, start, d) = TallyAll(start, d)
      BY <2>4, TallyIsFolded
    <3> QED
      BY <2>3, <2>5, <2>6, <3>1, Zenon
  <2>8. end.ok /\ end.full /\ end.files /\ ~end.old /\ end.olds = 0 /\ end.news = 0
    BY <2>7 DEF Inside
  <2>9. Structured(d)
    BY <2>7, <2>8, Zenon DEF Structured, start
  <2> QED
    BY <2>1, <2>3, <2>6, <2>9, Zenon
<1> HIDE DEF start
<1>4. /\ Structured(FileDiff("f", s, l) \o FileDiff("g", Other, l))
      /\ Structured(FileDiff("g", Other, l) \o FileDiff("f", s, l))
  BY <1>0, <1>3, Zenon
<1> QED
  BY <1>4, Zenon DEF RawDiff

\* No ordinary diff is refused.
NeverRefused == DiffIsOrdinary /\ stage # "failed"

\* The invariant: no check of the adapter refuses what the engine writes.
LEMMA NoneIsRefused ==
  ASSUME Habits = {}, Texts \cap (PlusTexts \cup DashTexts) = {}
  PROVE  Spec => []NeverRefused
<1>1. Init => stage # "failed"
  BY DEF Init
<1>2. DiffIsOrdinary /\ stage # "failed" /\ [Next]_vars => (stage # "failed")'
  <2> SUFFICES ASSUME DiffIsOrdinary, stage # "failed", [Next]_vars PROVE stage' # "failed"
    OBVIOUS
  <2>1. script \in Scripts /\ Sensible(script)
    BY ScriptsAreSensible DEF DiffIsOrdinary
  <2>2. ASSUME stage # "engine"
        PROVE  IsApplied(script, diff) /\ Structured(diff)
    <3>1. PICK l \in Untrimmed : diff = RawDiff(script, l)
      BY <2>2 DEF DiffIsOrdinary, WrittenDiffs
    <3>2. IsApplied(script, RawDiff(script, l)) /\ Structured(RawDiff(script, l))
      BY <2>1, RawIsApplied, RawIsStructured
    <3> QED
      BY <3>1, <3>2, Zenon
  <2>3. CASE Receive
    BY <2>3 DEF Receive
  <2>4. CASE Validate
    <3>1. stage = "stored" /\ stage' = Verdict
      BY <2>4 DEF Validate
    <3>2. IsApplied(script, diff) /\ Structured(diff)
      BY <2>2, <3>1
    <3>3. Rebuilt(Archive, diff)
      <4>1. DOMAIN PerFileDiffs(diff) \cap SourcePaths = {"f"}
        BY <3>2 DEF IsApplied, SourcePaths
      <4>2. ContentOf(Archive, "f") = OldFile(script)
        BY DEF ContentOf, Archive
      <4>3. ApplyUnifiedDiff(ContentOf(Archive, "f"), PerFileDiffs(diff)["f"]).ok
        BY <3>2, <4>2, Zenon DEF IsApplied
      <4> QED
        BY <4>1, <4>3 DEF Rebuilt
    <3>4. Verdict = "ready"
      BY <3>2, <3>3, Zenon DEF Verdict
    <3> QED
      BY <3>1, <3>4
  <2>5. CASE Commit
    <3>1. stage = "ready"
      BY <2>5 DEF Commit
    <3>2. \A p \in DOMAIN Patched(Archive, diff) : Patched(Archive, diff)[p].ok
      <4>1. IsApplied(script, diff)
        BY <2>2, <3>1
      <4> QED
        BY <2>1, <4>1, FilesAreMeant
    <3>3. stage' = "committed"
      BY <2>5, <3>2, Zenon DEF Commit
    <3> QED
      BY <3>3
  <2>6. CASE UNCHANGED vars
    BY <2>6 DEF vars
  <2> QED
    BY <2>3, <2>4, <2>5, <2>6 DEF Next
<1>3. Spec => []DiffIsOrdinary
  BY OrdinaryDiffsAreKept
<1> QED
  BY <1>1, <1>2, <1>3, PTL DEF Spec, NeverRefused

\* An ordinary diff passes the structure check and is applied: none of its hunks
\* announces other lines than it has, the parser of unidiff never takes a line of
\* a file for one of the diff, and every hunk fits the files it was made for,
\* whatever stands before it.
THEOREM OrdinaryDiffsPass ==
  ASSUME Habits = {}, Texts \cap (PlusTexts \cup DashTexts) = {}
  PROVE  Spec => []OrdinaryDiffsApply
<1>1. NeverRefused => OrdinaryDiffsApply
  BY DEF NeverRefused, OrdinaryDiffsApply
<1> QED
  BY <1>1, NoneIsRefused, PTL
=============================================================================
