-------------------------------- MODULE Diffs --------------------------------
(***************************************************************************)
(* What happens to the text of a diff: the engine's adapter brings it into *)
(* canonical form, generation checks it, a person approves its hash, and   *)
(* dispatch applies it to the files of the default branch.                 *)
(*                                                                         *)
(* A line is a record that says how the line begins and what follows; the  *)
(* texts of a diff matter only as far as the parsers look at them.         *)
(***************************************************************************)
EXTENDS Integers, Sequences, FiniteSets, SequencesExt

CONSTANTS
  Texts,       \* lines of files
  MaxLines,    \* bound: lines of a file with its changes
  Habits       \* of the engine: see below

\* Lines that begin with ++ or --, with and without a blank after it.
PlusTexts == {"++i", "++ p"}
DashTexts == {"--i", "-- p"}
HeaderTexts == {"++ p", "-- p"}

\* "trims": blanks at the ends of lines are gone, the one of an empty context
\* line included; "insertions": a hunk may show nothing of the old file.
ASSUME DiffsAssumption ==
  /\ {"x", "y"} \subseteq Texts  \* the lines of the second file
  /\ Texts \subseteq {"x", "y", ""} \cup PlusTexts \cup DashTexts
  /\ MaxLines \in Nat /\ Habits \subseteq {"trims", "insertions"}

Paths == <<"", "f", "g", "i", "p">>  \* in alphabetical order
Absent == "no path"

-----------------------------------------------------------------------------
(* Lines                                                                   *)

Old(path, stamp) == [kind |-> "---", text |-> path, stamp |-> stamp]
New(path, stamp) == [kind |-> "+++", text |-> path, stamp |-> stamp]
Hunk(start, olds, news) == [kind |-> "@@", start |-> start, olds |-> olds, news |-> news]
Body(tag, text) == [kind |-> "body", tag |-> tag, text |-> text]
Blank == [kind |-> "blank"]
Metadata == [kind |-> "metadata"]

PathNames == {Paths[i] : i \in DOMAIN Paths}
Lines ==
  [kind : {"---", "+++"}, text : PathNames, stamp : BOOLEAN]
    \cup [kind : {"@@"}, start : Nat, olds : Nat, news : Nat]
    \cup [kind : {"body"}, tag : {" ", "-", "+"}, text : Texts]
    \cup {Blank, Metadata}

\* What stands between the marker and the end of the line.
PathOf(line) == IF line.kind # "body" THEN line.text
                ELSE IF line.text \in {"++i", "--i"} THEN "i" ELSE "p"

\* line.startswith("+++"), and "---".
StartsNew(line) ==
  \/ line.kind = "+++"
  \/ line.kind = "body" /\ line.tag = "+" /\ line.text \in PlusTexts
StartsOld(line) ==
  \/ line.kind = "---"
  \/ line.kind = "body" /\ line.tag = "-" /\ line.text \in DashTexts

-----------------------------------------------------------------------------
(* The canonical form                                                      *)

\* _is_header asks for a blank after the marker, or nothing.
IsHeader(line, marker) ==
  \/ line.kind = marker
  \/ /\ line.kind = "body" /\ line.text \in HeaderTexts
     /\ line.tag = (IF marker = "---" THEN "-" ELSE "+")
     /\ line.text \in (IF marker = "---" THEN DashTexts ELSE PlusTexts)

\* A plausible mistake: the stamp is left to the adapter.
CleanHeaderStamped(line) ==
  IF line.kind = "body" /\ IsHeader(line, "---") THEN Old(PathOf(line), FALSE)
  ELSE IF line.kind = "body" /\ IsHeader(line, "+++") THEN New(PathOf(line), FALSE)
  ELSE line

CleanHeader(line) ==
  IF IsHeader(line, "---") THEN Old(PathOf(line), FALSE)
  ELSE IF IsHeader(line, "+++") THEN New(PathOf(line), FALSE)
  ELSE line

KeepLine(line) == line.kind \notin {"metadata", "blank"}

\* The sections found so far, and the one that is being read.
Section(path, lines) == [path |-> IF path = Absent THEN "" ELSE path, lines |-> lines]
Closed(acc) ==
  LET lines == acc.lines \o acc.pending IN
  IF lines = << >> THEN acc.sections
  ELSE Append(acc.sections, Section(acc.path, lines))

SplitLine(acc, line) ==
  IF IsHeader(line, "---")
  THEN [sections |-> Closed(acc), path |-> Absent, lines |-> << >>, pending |-> <<line>>]
  ELSE IF IsHeader(line, "+++")
  THEN [acc EXCEPT !.path = PathOf(line), !.pending = << >>,
                   !.lines = @ \o acc.pending \o <<line>>]
  ELSE IF acc.path # Absent /\ KeepLine(line)
  THEN [acc EXCEPT !.lines = Append(@, line)]
  ELSE acc

SplitFileSections(diff) ==
  Closed(FoldLeft(SplitLine,
           [sections |-> << >>, path |-> Absent, lines |-> << >>, pending |-> << >>],
           diff))

\* The lines of the sections of one path, in their order and with clean headers.
LinesOf(path, sections) ==
  LET cleaned(section) == [i \in DOMAIN section.lines |-> CleanHeader(section.lines[i])]
      Add(lines, section) ==
        IF section.path = path THEN lines \o cleaned(section) ELSE lines
  IN FoldLeft(Add, << >>, sections)

\* The files by path.
CanonicalDiff(diff) ==
  LET Add(lines, path) == lines \o LinesOf(path, SplitFileSections(diff))
  IN FoldLeft(Add, << >>, Paths)

-----------------------------------------------------------------------------
(* Application                                                             *)

NoHunk == [start |-> -1, body |-> << >>]
HunkRead(acc) == IF acc.hunk = NoHunk THEN acc.hunks ELSE Append(acc.hunks, acc.hunk)

\* parse_hunks.  A line that begins like the header of a file is one.
ParseLine(acc, line) ==
  IF StartsNew(line) THEN acc
  ELSE IF line.kind = "@@"
  THEN [hunks |-> HunkRead(acc), hunk |-> [start |-> line.start, body |-> << >>]]
  ELSE IF acc.hunk = NoHunk THEN acc
  ELSE IF line.kind \in {"body", "blank", "---"}
  THEN [acc EXCEPT !.hunk.body = Append(@, line)]
  ELSE [hunks |-> HunkRead(acc), hunk |-> NoHunk]

ParseHunks(diff) == HunkRead(FoldLeft(ParseLine, [hunks |-> << >>, hunk |-> NoHunk], diff))

Failed == [ok |-> FALSE, out |-> << >>, pos |-> 0]
Larger(a, b) == IF a > b THEN a ELSE b
Smaller(a, b) == IF a > b THEN b ELSE a

\* A plausible mistake: hunks count lines from zero.
FirstLineFromZero(hunk) == hunk.start

\* Hunks count lines from one.
FirstLine(hunk) == Larger(hunk.start - 1, 0)

\* A plausible mistake: the line at the cursor is skipped.
KeptAfter(original, from, to) == SubSeq(original, from + 2, Smaller(to, Len(original)))

\* Lines between two hunks, or after the last.
Kept(original, from, to) == SubSeq(original, from + 1, Smaller(to, Len(original)))

\* One line of a hunk, at original line pos + 1.
ApplyLine(original, acc, line) ==
  IF ~acc.ok \/ line.kind # "body" THEN Failed
  ELSE IF line.tag = "+" THEN [acc EXCEPT !.out = Append(@, line.text)]
  ELSE IF acc.pos >= Len(original) \/ original[acc.pos + 1] # line.text THEN Failed
  ELSE [acc EXCEPT !.pos = @ + 1,
                   !.out = IF line.tag = " " THEN Append(@, line.text) ELSE @]

ApplyHunk(original, acc, hunk) ==
  LET start == FirstLine(hunk)
      Step(a, line) == ApplyLine(original, a, line)
  IN IF ~acc.ok \/ start < acc.pos THEN Failed
     ELSE FoldLeft(Step,
            [acc EXCEPT !.out = @ \o Kept(original, acc.pos, start), !.pos = start],
            hunk.body)

ApplyUnifiedDiff(original, diff) ==
  LET Step(acc, hunk) == ApplyHunk(original, acc, hunk)
      done == FoldLeft(Step, [ok |-> TRUE, out |-> << >>, pos |-> 0], ParseHunks(diff))
  IN IF ParseHunks(diff) = << >> \/ ~done.ok THEN Failed
     ELSE [done EXCEPT !.out = @ \o Kept(original, done.pos, Len(original))]

\* per_file_diffs: the parts by path, a later one over an earlier one.
Stored(acc) ==
  IF acc.path = Absent \/ acc.lines = << >> THEN acc.parts
  ELSE [p \in DOMAIN acc.parts \cup {acc.path} |->
          IF p = acc.path THEN acc.lines ELSE acc.parts[p]]

PartLine(acc, line) ==
  IF StartsOld(line)
  THEN [parts |-> Stored(acc), path |-> Absent, lines |-> <<line>>]
  ELSE IF StartsNew(line)
  THEN [acc EXCEPT !.path = PathOf(line), !.lines = Append(@, line)]
  ELSE IF acc.path = Absent THEN acc
  ELSE [acc EXCEPT !.lines = Append(@, line)]

PerFileDiffs(diff) ==
  Stored(FoldLeft(PartLine, [parts |-> << >>, path |-> Absent, lines |-> << >>], diff))

\* _patched_file_contents: a path that the archive does not have is empty.
ContentOf(files, path) == IF path \in DOMAIN files THEN files[path] ELSE << >>
Patched(files, diff) ==
  [p \in DOMAIN PerFileDiffs(diff) |->
     ApplyUnifiedDiff(ContentOf(files, p), PerFileDiffs(diff)[p])]

-----------------------------------------------------------------------------
(* Validation                                                              *)

\* The parser of unidiff: files of two headers, each with hunks of as many
\* lines as they announce.
UnidiffLine(acc, line) ==
  IF ~acc.ok THEN acc
  ELSE IF acc.olds > 0 \/ acc.news > 0
  THEN CASE line.kind = "blank" \/ (line.kind = "body" /\ line.tag = " ") ->
              [acc EXCEPT !.olds = @ - 1, !.news = @ - 1,
                          !.ok = acc.olds > 0 /\ acc.news > 0]
         [] line.kind = "---" \/ (line.kind = "body" /\ line.tag = "-") ->
              [acc EXCEPT !.olds = @ - 1, !.ok = acc.olds > 0]
         [] line.kind = "+++" \/ (line.kind = "body" /\ line.tag = "+") ->
              [acc EXCEPT !.news = @ - 1, !.ok = acc.news > 0]
         [] line.kind \in {"@@", "metadata"} -> [acc EXCEPT !.ok = FALSE]
  ELSE CASE IsHeader(line, "---") -> [acc EXCEPT !.old = TRUE, !.ok = acc.full]
         [] IsHeader(line, "+++") -> [acc EXCEPT !.old = FALSE, !.full = FALSE, !.ok = acc.old]
         [] line.kind = "@@" ->
              [acc EXCEPT !.olds = line.olds, !.news = line.news, !.full = TRUE,
                          !.files = TRUE, !.ok = ~acc.old /\ (acc.files \/ ~acc.full)]
         [] OTHER -> acc

Structured(diff) ==
  LET end == FoldLeft(UnidiffLine,
               [ok |-> TRUE, old |-> FALSE, full |-> TRUE, files |-> FALSE,
                olds |-> 0, news |-> 0], diff)
  IN end.ok /\ end.full /\ end.files /\ ~end.old /\ end.olds = 0 /\ end.news = 0

\* The files the language pack knows are rebuilt; that what comes out parses
\* is the engine's business here.
SourcePaths == {"f"}
Rebuilt(files, diff) ==
  \A p \in DOMAIN PerFileDiffs(diff) \cap SourcePaths :
    ApplyUnifiedDiff(ContentOf(files, p), PerFileDiffs(diff)[p]).ok

-----------------------------------------------------------------------------
(* What an engine returns: the reference                                   *)

\* A changed file is one sequence of lines: "=" is not shown, " " is context.
\* The hunks are the longest runs of lines that are shown.
Shown(script, i) == script[i].tag # "="
IsOld(script, i) == script[i].tag \in {"=", " ", "-"}
IsNew(script, i) == script[i].tag \in {"=", " ", "+"}
TextsWhere(script, Test(_, _)) ==
  LET Add(out, i) == IF Test(script, i) THEN Append(out, script[i].text) ELSE out
  IN FoldLeft(Add, << >>, [i \in DOMAIN script |-> i])
OldFile(script) == TextsWhere(script, IsOld)
NewFile(script) == TextsWhere(script, IsNew)

Starts(script) == {i \in DOMAIN script : Shown(script, i) /\ (i = 1 \/ ~Shown(script, i - 1))}
EndOf(script, i) ==
  CHOOSE j \in i..Len(script) :
    /\ \A h \in i..j : Shown(script, h)
    /\ j = Len(script) \/ ~Shown(script, j + 1)
Number(script, from, to, Test(_, _)) == Cardinality({h \in from..to : Test(script, h)})

\* A hunk without lines of the old file begins after the line it names.
HunkAt(script, i) ==
  LET end == EndOf(script, i)
      olds == Number(script, i, end, IsOld)
      before == Number(script, 1, i - 1, IsOld)
  IN Hunk(IF olds = 0 THEN before ELSE before + 1, olds, Number(script, i, end, IsNew))

\* `trimmed': blanks at the ends of lines are gone, those of empty context lines.
Rendered(script, trimmed) ==
  LET Line(i) == IF trimmed /\ script[i].tag = " " /\ script[i].text = ""
                 THEN Blank ELSE Body(script[i].tag, script[i].text)
      Add(lines, i) ==
        IF ~Shown(script, i) THEN lines
        ELSE lines \o (IF i \in Starts(script) THEN <<HunkAt(script, i)>> ELSE << >>)
                   \o <<Line(i)>>
  IN FoldLeft(Add, << >>, [i \in DOMAIN script |-> i])

FileDiff(path, script, layout) ==
  (IF layout.metadata THEN <<Metadata>> ELSE << >>)
    \o <<Old(path, layout.metadata), New(path, layout.metadata)>>
    \o Rendered(script, layout.trimmed)

\* A second file, whose diff is always the same.
Other == <<[tag |-> " ", text |-> "x"], [tag |-> "-", text |-> "x"], [tag |-> "+", text |-> "y"]>>

RawDiff(script, layout) ==
  IF layout.otherFirst
  THEN FileDiff("g", Other, layout) \o FileDiff("f", script, layout)
  ELSE FileDiff("f", script, layout) \o FileDiff("g", Other, layout)

Layouts == [otherFirst : BOOLEAN, metadata : BOOLEAN,
            trimmed : IF "trims" \in Habits THEN BOOLEAN ELSE {FALSE}]
Plain == [otherFirst |-> FALSE, metadata |-> FALSE, trimmed |-> FALSE]

\* Scripts that change something, each hunk anchored in the old file unless the
\* file is new or the engine has other habits.
Scripts ==
  {s \in BoundedSeq([tag : {"=", " ", "-", "+"}, text : Texts], MaxLines) :
     /\ \E i \in DOMAIN s : s[i].tag \in {"-", "+"}
     /\ \A i \in Starts(s) :
          \/ "insertions" \in Habits \/ OldFile(s) = << >>
          \/ Number(s, i, EndOf(s, i), IsOld) > 0}

-----------------------------------------------------------------------------
(* The way of a diff                                                       *)

VARIABLES
  script,  \* what the engine means to do to a file
  layout,  \* how it writes it
  stage,   \* of the remediation and its dispatch
  diff,    \* diff_content, << >> before
  files    \* what is committed: [path -> lines], or none

vars == <<script, layout, stage, diff, files>>

Stages == {"engine", "stored", "ready", "failed", "committed"}

\* The archive of the scan and the head of the default branch agree here.
Archive == [p \in {"f", "g"} |-> OldFile(IF p = "f" THEN script ELSE Other)]
Meant == [p \in {"f", "g"} |-> NewFile(IF p = "f" THEN script ELSE Other)]

Init ==
  /\ script \in Scripts /\ layout \in Layouts
  /\ stage = "engine" /\ diff = << >> /\ files = << >>

\* The adapter of the engine strips what is not of a diff; that of the demo
\* hands its fixture on as it is.
Receive ==
  /\ stage = "engine"
  /\ diff' \in {RawDiff(script, layout), CanonicalDiff(RawDiff(script, layout))}
  /\ stage' = "stored"
  /\ UNCHANGED <<script, layout, files>>

\* A plausible mistake: the word of the validator is taken for the status.
VerdictInWords ==
  IF Structured(diff) /\ Rebuilt(Archive, diff) THEN "valid" ELSE "failed"

Verdict ==
  IF Structured(diff) /\ Rebuilt(Archive, diff) THEN "ready" ELSE "failed"

\* generate_remediation: validate_diff_structure, syntax_validate_remediation.
Validate ==
  /\ stage = "stored"
  /\ stage' = Verdict
  /\ UNCHANGED <<script, layout, diff, files>>

\* dispatch_remediation: all files of the diff are rebuilt, or nothing is
\* committed.
Commit ==
  /\ stage = "ready"
  /\ LET patched == Patched(Archive, diff) IN
       IF \A p \in DOMAIN patched : patched[p].ok
       THEN /\ files' = [p \in DOMAIN patched |-> patched[p].out]
            /\ stage' = "committed"
       ELSE stage' = "failed" /\ UNCHANGED files
  /\ UNCHANGED <<script, layout, diff>>

Next == Receive \/ Validate \/ Commit

Spec == Init /\ [][Next]_vars

-----------------------------------------------------------------------------
(* Properties                                                              *)

\* Every variable holds a value of its type.
TypeOK ==
  /\ layout \in Layouts
  /\ stage \in Stages
  /\ diff \in Seq(Lines)
  /\ DOMAIN files \subseteq PathNames
  /\ \A p \in DOMAIN files : files[p] \in Seq(Texts)

\* What is committed is what the engine meant, for every file of the diff:
\* whatever the order of the files, the metadata between them and the hunks,
\* the result is right or the dispatch fails (diffapply.py:10).
ReconstructsOrFails == stage = "committed" => files = Meant

\* A diff that shows something of the old file in every hunk and is not
\* trimmed passes both the structure check and the applicator, stripped or not.
OrdinaryDiffsApply == stage # "failed"

\* The hash a person confirms does not depend on how the engine writes the
\* diff, or on whether its adapter has stripped it before: all ways to write
\* a change have one canonical form.
HashIgnoresLayout ==
  stage = "stored" => CanonicalDiff(diff) = CanonicalDiff(RawDiff(script, Plain))
=============================================================================
