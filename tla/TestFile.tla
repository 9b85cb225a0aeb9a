------------------------------ MODULE TestFile ------------------------------
(***************************************************************************)
(* One test file in the autotest runner, OTestFile::Process: the markers   *)
(* are parsed, the run variant compiles and runs the file and compares its *)
(* output, the error variant compiles it and compares the diagnostics.     *)
(*                                                                         *)
(* An action is a marker, a call of the process runner, or a line that is  *)
(* read.  What the file holds and what the programs print is not fixed:    *)
(* any marker and any line may come next.                                  *)
(*                                                                         *)
(* A text is a member of Texts; all that matters is which one another one  *)
(* starts with.  A line of output with an = and something before it is a   *)
(* key and the rest; other lines are plain.  Left out: formatting, blank   *)
(* lines, which nothing looks at, a marker's text with an = in it, and the *)
(* name of the file a diagnostic is in, which is read and not compared.    *)
(*                                                                         *)
(* A check and an ignore for the output are not told apart, as in the      *)
(* program, which forgets the word.                                        *)
(*                                                                         *)
(* The variables compared, seen, again, sorted, lastline and stray are not *)
(* in the program: they record what was done and what the programs said.   *)
(***************************************************************************)
EXTENDS TestResults, Sequences

CONSTANTS Texts,        \* keys, values and lines
          Empty,        \* the empty text
          Longer,       \* pairs of texts, the first starts with the second
          Ids,          \* names of diagnostics
          MaxLine,      \* bound on line numbers
          MaxMarkers,   \* bound on the markers of a file
          MaxErrors     \* bound on the counted errors of a variant

ASSUME EmptyAssumption == Empty \in Texts
ASSUME LongerAssumption == Longer \subseteq Texts \X Texts
ASSUME MaxLineAssumption == MaxLine \in Nat \ {0}
ASSUME MaxMarkersAssumption == MaxMarkers \in Nat
ASSUME MaxErrorsAssumption == MaxErrors \in Nat

VARIABLES
  phase,         \* the next step of Process
  line,          \* of the text, while it is parsed
  err_captures,  \* expected diagnostics
  run_captures,  \* expected output
  out,           \* the counters, a TestResults!Outcome
  compared,      \* the variants whose output was compared to its end
  seen,          \* the lines read in this variant
  again,         \* the keys printed more than once
  sorted,        \* the line numbers of the diagnostics never went down
  lastline,      \* that of the last diagnostic
  stray          \* a line of the compiler was not a diagnostic

vars == <<phase, line, err_captures, run_captures, out, compared,
          seen, again, sorted, lastline, stray>>
readvars == <<seen, again, sorted, lastline, stray>>
markvars == <<line, err_captures, run_captures>>

Lines    == 1..MaxLine
MsgTypes == {"ERROR", "WARNING", "HINT"}
Diag     == [line : Lines, msgtype : MsgTypes, errid : Ids]
OErrCapture == [diag : Diag, captured : BOOLEAN, missing_printed : BOOLEAN]
Check       == [strid : Texts, checkvalue : Texts]
ORunCapture == [check : Check, captured : BOOLEAN]
OutLine     == [key : Texts, rest : Texts]
KeyedLine(l) == l.key # Empty

Init == /\ phase = "load"
        /\ line = 1
        /\ err_captures = <<>>
        /\ run_captures = <<>>
        /\ out = NoOutcome
        /\ compared = {}
        /\ seen = {}
        /\ again = {}
        /\ sorted = TRUE
        /\ lastline = 1
        /\ stray = FALSE

(* TStrParseObj::CheckSymbol: the text at the reading position begins with *)
(* what is looked for; nothing is said of what follows it.                 *)
CheckSymbol(text, symbol) == symbol = Empty \/ text = symbol \/ <<text, symbol>> \in Longer

AddTfError(n)  == out' = [out EXCEPT !.errorcnt_tf = @ + n]
AddRunError(n) == out' = [out EXCEPT !.errorcnt_run = @ + n, !.exec_run = TRUE]
AddEtError(n)  == out' = [out EXCEPT !.errorcnt_err = @ + n, !.exec_err = TRUE]

-----------------------------------------------------------------------------
(* The text of the file                                                    *)

LoadText == /\ phase = "load"
            /\ \/ phase' = "search" /\ UNCHANGED out
               \/ phase' = "processed" /\ AddTfError(1)
            /\ UNCHANGED <<markvars, compared, readvars>>

MoreMarkers == Len(err_captures) + Len(run_captures) + out.errorcnt_tf < MaxMarkers

(* SearchPattern finds the next introducer, on this line or further on.    *)
SearchPattern == /\ phase = "search"
                 /\ MoreMarkers
                 /\ line' \in line..MaxLine
                 /\ phase' = "list"
                 /\ UNCHANGED <<err_captures, run_captures, out, compared, readvars>>

(* After a marker: a comma goes on with the list, all else ends it.        *)
AfterMarker == phase' \in {"list", "search"}

(* GetLineNum: the line of the marker's name.                              *)
(* Mutant: the line after it                                               *)
LineAfter == line + 1

GetLineNum == line

ParseMarkerError == \E msgtype \in MsgTypes, errid \in Ids :
  /\ phase = "list"
  /\ MoreMarkers
  /\ err_captures' = Append(err_captures,
       [diag |-> [line |-> GetLineNum, msgtype |-> msgtype, errid |-> errid],
        captured |-> FALSE, missing_printed |-> FALSE])
  /\ AfterMarker
  /\ UNCHANGED <<line, run_captures, out, compared, readvars>>

AddCheck(c) == run_captures' = Append(run_captures, [check |-> c, captured |-> FALSE])

(* check(Text) and ignore(Text); quotes around an argument are dropped,    *)
(* and what is between them may go on in further lines.                    *)
ParseMarkerText == \E text \in Texts :
  /\ phase = "list"
  /\ MoreMarkers
  /\ AddCheck([strid |-> text, checkvalue |-> Empty])
  /\ line' \in line..MaxLine
  /\ AfterMarker
  /\ UNCHANGED <<err_captures, out, compared, readvars>>

(* check(Key, Value), and ignore(Key, Value), which is treated like it.    *)
(* The closing parenthesis is not consumed, so that the list ends here     *)
(* whatever follows: markers after a comma are lost.  Behind a value in    *)
(* quotes it may be missing; for any other it is looked for beyond the end *)
(* of the line, too.                                                       *)
ParseMarkerCheck == \E c \in Check :
  /\ phase = "list"
  /\ MoreMarkers
  /\ AddCheck(c)
  /\ line' \in line..MaxLine
  /\ phase' = "search"
  /\ UNCHANGED <<err_captures, out, compared, readvars>>

(* A parenthesis or a name is missing, or the marker is unknown.           *)
FaultyMarker ==
  /\ phase = "list"
  /\ MoreMarkers
  /\ AddTfError(1)
  /\ AfterMarker
  /\ UNCHANGED <<markvars, compared, readvars>>

(* No name follows the introducer or the comma.                            *)
EndOfList == /\ phase = "list"
             /\ phase' = "search"
             /\ UNCHANGED <<markvars, out, compared, readvars>>

(* No introducer is left: which variants are there?                        *)
HasRun == run_captures # <<>>
HasErr == err_captures # <<>>

EndOfMarkers ==
  /\ phase = "search"
  /\ AddTfError(IF ~HasRun /\ ~HasErr /\ out.errorcnt_tf = 0 THEN 1 ELSE 0)
  /\ phase' = IF out.errorcnt_tf > 0 \/ (~HasRun /\ ~HasErr) THEN "processed"
              ELSE IF HasRun THEN "runtest" ELSE "errtest"
  /\ UNCHANGED <<markvars, compared, readvars>>

-----------------------------------------------------------------------------
(* The run variant                                                         *)

(* AddRunTestCompileErrors: one for each line, at least one.               *)
(* Mutant: a compiler that fails and says nothing is not counted           *)
EachLine(n) == n

CompileErrors(n) == IF n = 0 THEN 1 ELSE n

(* The compiler cannot be run, the file does not compile, its program      *)
(* cannot be run or exceeds its time, or there is output to compare.       *)
ExecRunTest ==
  /\ phase = "runtest"
  /\ \/ /\ \/ AddRunError(1)
           \/ \E n \in 0..MaxErrors : AddRunError(CompileErrors(n))
        /\ phase' = "runend"
     \/ /\ AddRunError(0)
        /\ phase' = "runlines"
  /\ UNCHANGED <<markvars, compared, readvars>>

(* The expected output a line is compared with: the first that fits.       *)
Fits(cap, l) == IF KeyedLine(l) THEN cap.check.strid = l.key
                ELSE cap.check.checkvalue = Empty /\ CheckSymbol(l.rest, cap.check.strid)

Fitting(l) == {i \in DOMAIN run_captures : Fits(run_captures[i], l)}

(* Mutant: a second line for a key is compared like the first              *)
ComparedAgain(cap, l) == KeyedLine(l) /\ ~CheckSymbol(l.rest, cap.check.checkvalue)

(* "already captured" or another value                                     *)
LineFails(cap, l) ==
  KeyedLine(l) /\ (cap.captured \/ ~CheckSymbol(l.rest, cap.check.checkvalue))

RunLine == \E l \in OutLine :
  /\ phase = "runlines"
  /\ out.errorcnt_run < MaxErrors
  /\ IF Fitting(l) = {}
     THEN AddRunError(1) /\ UNCHANGED run_captures
     ELSE LET i == Min(Fitting(l))
          IN /\ AddRunError(IF LineFails(run_captures[i], l) THEN 1 ELSE 0)
             /\ run_captures' = [run_captures EXCEPT ![i].captured = @ \/ KeyedLine(l)]
  /\ seen' = seen \cup {l}
  /\ again' = again \cup {k \in {l.key} \ {Empty} : \E m \in seen : m.key = k}
  /\ UNCHANGED <<phase, line, err_captures, compared, sorted, lastline, stray>>

Missing == {i \in DOMAIN run_captures : /\ ~run_captures[i].captured
                                        /\ run_captures[i].check.checkvalue # Empty}

EndOfOutput ==
  /\ phase = "runlines"
  /\ AddRunError(Cardinality(Missing))
  /\ phase' = "runend"
  /\ compared' = compared \cup {"run"}
  /\ UNCHANGED <<markvars, readvars>>

(* Process goes on with the error variant or is done.                      *)
RunTestReturns ==
  /\ phase = "runend"
  /\ phase' = IF HasErr THEN "errtest" ELSE "processed"
  /\ seen' = {}
  /\ again' = {}
  /\ UNCHANGED <<markvars, out, compared, sorted, lastline, stray>>

-----------------------------------------------------------------------------
(* The error variant                                                       *)

(* Mutant: a compiler that cannot be run is not counted                    *)
NotCounted == AddEtError(0)

CompilerNotRun == AddEtError(1)

(* Only a compiler that cannot be run ends the variant; its status is not  *)
(* looked at.                                                              *)
ExecErrorTest ==
  /\ phase = "errtest"
  /\ \/ CompilerNotRun /\ phase' = "errend"
     \/ AddEtError(0) /\ phase' = "errlines"
  /\ UNCHANGED <<markvars, compared, readvars>>

(* PrintMissingErrors: what is expected before line l and was not met.     *)
Overdue(l) == {i \in DOMAIN err_captures :
                 /\ ~err_captures[i].captured /\ ~err_captures[i].missing_printed
                 /\ err_captures[i].diag.line < l}

Expecting(d) == {i \in DOMAIN err_captures : err_captures[i].diag = d}

(* Mutant: an expected diagnostic on the line that is read is overdue, too *)
OverdueHere(l) == Overdue(l + 1)

OverdueAt(l) == Overdue(l)

ErrLine == \E d \in Diag :
  /\ phase = "errlines"
  /\ out.errorcnt_err < MaxErrors
  /\ LET overdue == OverdueAt(d.line)
         match == Expecting(d)
     IN /\ AddEtError(Cardinality(overdue) + (IF match = {} THEN 1 ELSE 0))
        /\ err_captures' = [i \in DOMAIN err_captures |->
             [err_captures[i] EXCEPT
                !.missing_printed = @ \/ i \in overdue,
                !.captured = @ \/ (match # {} /\ i = Min(match))]]
  /\ seen' = seen \cup {d}
  /\ sorted' = (sorted /\ lastline <= d.line)
  /\ lastline' = d.line
  /\ UNCHANGED <<phase, line, run_captures, compared, again, stray>>

(* A line of the compiler that does not have the form of a diagnostic.     *)
InvalidLine ==
  /\ phase = "errlines"
  /\ out.errorcnt_err < MaxErrors
  /\ AddEtError(1)
  /\ stray' = TRUE
  /\ UNCHANGED <<phase, markvars, compared, seen, again, sorted, lastline>>

EndOfDiags ==
  /\ phase = "errlines"
  /\ AddEtError(Cardinality(Overdue(MaxLine + 1)))
  /\ phase' = "errend"
  /\ compared' = compared \cup {"err"}
  /\ UNCHANGED <<markvars, readvars>>

ErrTestReturns == /\ phase = "errend"
                  /\ phase' = "processed"
                  /\ UNCHANGED <<markvars, out, compared, readvars>>

Next == \/ LoadText \/ SearchPattern \/ ParseMarkerError \/ ParseMarkerText
        \/ ParseMarkerCheck \/ FaultyMarker \/ EndOfList \/ EndOfMarkers
        \/ ExecRunTest \/ RunLine \/ EndOfOutput \/ RunTestReturns
        \/ ExecErrorTest \/ ErrLine \/ InvalidLine \/ EndOfDiags \/ ErrTestReturns

Spec == Init /\ [][Next]_vars

-----------------------------------------------------------------------------
(* Properties                                                              *)

(* Types; a diagnostic is expected on a line that was parsed.              *)
TypeOK == /\ phase \in {"load", "search", "list", "runtest", "runlines", "runend",
                        "errtest", "errlines", "errend", "processed"}
          /\ line \in Lines
          /\ err_captures \in Seq(OErrCapture)
          /\ \A i \in DOMAIN err_captures : err_captures[i].diag.line <= line
          /\ run_captures \in Seq(ORunCapture)
          /\ out \in Outcome
          /\ compared \subseteq {"run", "err"}
          /\ seen \subseteq OutLine \cup Diag
          /\ again \subseteq Texts
          /\ sorted \in BOOLEAN
          /\ lastline \in Lines
          /\ stray \in BOOLEAN

(* A marker for the output matches a line (dq-autotest-req-spec.md:272-310 *)
(* but for the = that may be left out there); to the code it is enough     *)
(* that the value, or the text, is what the line starts with.              *)
Markers    == DOMAIN run_captures
WithValue  == {i \in Markers : run_captures[i].check.checkvalue # Empty}
Equals(i, l) == LET c == run_captures[i].check
                IN  IF i \in WithValue
                    THEN KeyedLine(l) /\ l.key = c.strid /\ l.rest = c.checkvalue
                    ELSE ~KeyedLine(l) /\ l.rest = c.strid
Begins(i, l) == LET c == run_captures[i].check
                IN  IF KeyedLine(l)
                    THEN l.key = c.strid /\ CheckSymbol(l.rest, c.checkvalue)
                    ELSE i \notin WithValue /\ CheckSymbol(l.rest, c.strid)

(* The markers name different keys and texts, and no key is printed twice. *)
Distinct(I) == \A i, j \in I :
                 i # j => run_captures[i].check.strid # run_captures[j].check.strid
Unambiguous == Distinct(Markers) /\ again = {}

LooselyMet == /\ \A l \in seen : \E i \in Markers : Begins(i, l)
              /\ \A i \in WithValue : \E l \in seen : Begins(i, l)
              /\ Distinct(WithValue)
              /\ again = {}

ExactlyMet == /\ \A l \in seen : \E i \in Markers : Equals(i, l)
              /\ \A i \in WithValue : \E l \in seen : Equals(i, l)
              /\ Unambiguous

RunDone == phase = "runend" /\ "run" \in compared

(* A run variant without a counted error printed nothing that does not     *)
(* begin like a marker asks, no key twice, and a line for each marker with *)
(* a key and a value, which all have keys of their own.  If no two markers *)
(* have a name in common, a run that printed exactly what they say has no  *)
(* counted error.  Neither direction depends on the order of the lines,    *)
(* which the capturing goes by.                                            *)
(* That is not what dq-autotest-req-spec.md asks for.  A value is to equal *)
(* the rest of its line (294), here it may begin it.  Each check is to     *)
(* match a line (256), here only those with a value.  Lines no marker is   *)
(* for do not fail a test (336), nor ignored ones that are missing (230);  *)
(* here both do.  A check that is there twice is to be refused before the  *)
(* run (330); here the run starts, and two with one key and a value fail.  *)
RunVerdict == RunDone => /\ out.errorcnt_run = 0 => LooselyMet
                         /\ ExactlyMet => out.errorcnt_run = 0

(* What the markers ask of the compiler: it reports all they name and      *)
(* nothing else, and no marker is there twice.                             *)
ErrMet == /\ ~stray
          /\ \A d \in seen : Expecting(d) # {}
          /\ \A i \in DOMAIN err_captures : /\ err_captures[i].diag \in seen
                                            /\ Min(Expecting(err_captures[i].diag)) = i

(* The error variant never passes otherwise, and it passes then, if the    *)
(* compiler reports in the order of the lines: what is overdue is counted  *)
(* as missing before it comes.                                             *)
ErrVerdict == phase = "errend" /\ "err" \in compared =>
                /\ out.errorcnt_err = 0 => ErrMet
                /\ ErrMet /\ sorted => out.errorcnt_err = 0

(* A processed file passes only by comparison: without an error in its     *)
(* text it has markers, and each variant it has markers for either counted *)
(* an error or got to the end of the output of its program, or of the      *)
(* compiler, and compared it; no early return passes.  The summary, which  *)
(* asks for the executed variants, leaves no error out.                    *)
NoSilentPass == phase = "processed" =>
  /\ out.errorcnt_tf = 0 => /\ HasRun \/ HasErr
                            /\ HasRun => out.errorcnt_run > 0 \/ "run" \in compared
                            /\ HasErr => out.errorcnt_err > 0 \/ "err" \in compared
  /\ out.errorcnt_run > 0 => out.exec_run
  /\ out.errorcnt_err > 0 => out.exec_err

=============================================================================
