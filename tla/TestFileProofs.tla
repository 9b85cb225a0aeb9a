--------------------------- MODULE TestFileProofs ---------------------------
(***************************************************************************)
(* The verdicts on a test file, for any texts, diagnostics and bounds: the *)
(* counters of the two variants, which the code keeps by marking what it   *)
(* has met on the way, say at the end what the markers ask of all lines.   *)
(***************************************************************************)
EXTENDS TestFile, FoldTheorems, SequenceTheorems

Parsing  == {"load", "search", "list"}
RunSteps == {"runlines", "runend"}
ErrSteps == {"errtest", "errlines", "errend"}

(* Nothing is counted for a variant, and nothing marked as met, before it  *)
(* is executed.                                                            *)
FreshRun == /\ "run" \notin compared /\ seen = {} /\ again = {}
            /\ out.errorcnt_run = 0 /\ ~out.exec_run
            /\ \A i \in DOMAIN run_captures : ~run_captures[i].captured

FreshErr == /\ "err" \notin compared
            /\ sorted /\ lastline = 1 /\ ~stray
            /\ out.errorcnt_err = 0 /\ ~out.exec_err
            /\ \A i \in DOMAIN err_captures :
                 ~err_captures[i].captured /\ ~err_captures[i].missing_printed

VariantInv ==
  /\ phase \in Parsing \cup {"runtest"} => FreshRun
  /\ phase \in Parsing \cup {"runtest", "errtest"} \cup RunSteps => FreshErr
  /\ phase \in {"runtest"} \cup RunSteps \cup ErrSteps => out.errorcnt_tf = 0
  /\ phase \in {"runtest"} \cup RunSteps => HasRun
  /\ phase \in ErrSteps => HasErr
  /\ phase = "errtest" => seen = {}
  /\ phase = "runend" \/ (phase \in ErrSteps /\ HasRun) =>
       out.errorcnt_run > 0 \/ "run" \in compared
  /\ phase = "errend" => out.errorcnt_err > 0 \/ "err" \in compared
  /\ out.errorcnt_run > 0 => out.exec_run
  /\ out.errorcnt_err > 0 => out.exec_err

(* What was compared at the end of the output: each line is accepted by    *)
(* the first expectation that fits it, no key came twice, and each         *)
(* expected value was compared with a line of its own.                     *)
Accepted(l) ==
  /\ Fitting(l) # {}
  /\ KeyedLine(l) => CheckSymbol(l.rest, run_captures[Min(Fitting(l))].check.checkvalue)

Reached(i) == \E l \in seen : KeyedLine(l) /\ Fitting(l) # {} /\ Min(Fitting(l)) = i

RunMet == /\ \A l \in seen : Accepted(l)
          /\ again = {}
          /\ \A i \in DOMAIN run_captures :
               run_captures[i].check.checkvalue # Empty => Reached(i)

RunCounted == RunDone => (out.errorcnt_run = 0 <=> RunMet)

(* While the output is read an expectation is captured exactly when it is  *)
(* the first that fits a line with a key, and no error is counted exactly  *)
(* when all lines are accepted and no key came twice.                      *)
RunLinesInv == phase = "runlines" =>
  /\ seen \subseteq OutLine
  /\ \A i \in DOMAIN run_captures : run_captures[i].captured <=> Reached(i)
  /\ out.errorcnt_run = 0 <=> again = {} /\ \A l \in seen : Accepted(l)

(* While the diagnostics are read an expectation is captured exactly when  *)
(* it is the first of those for a diagnostic that was seen.  An error is   *)
(* counted only for a reason that stays: a line nobody expects, a marker   *)
(* that is there twice, or an expectation that was passed by, unless a     *)
(* later diagnostic names an earlier line.                                 *)
FirstFor(i) == Min(Expecting(err_captures[i].diag)) = i

PassedBy(i) == err_captures[i].diag.line < lastline /\ err_captures[i].diag \notin seen

Unmet == \/ stray
         \/ \E d \in seen : Expecting(d) = {}
         \/ \E i \in DOMAIN err_captures : ~FirstFor(i) \/ PassedBy(i)

ErrLinesInv == phase = "errlines" =>
  /\ seen \subseteq Diag
  /\ \A i \in DOMAIN err_captures :
       err_captures[i].captured <=> err_captures[i].diag \in seen /\ FirstFor(i)
  /\ \A i \in DOMAIN err_captures :
       err_captures[i].missing_printed => out.errorcnt_err > 0
  /\ out.errorcnt_err = 0 => ~stray /\ \A d \in seen : Expecting(d) # {}
  /\ out.errorcnt_err > 0 => Unmet \/ ~sorted

IInv == /\ TypeOK /\ VariantInv /\ RunLinesInv /\ ErrLinesInv
        /\ RunCounted /\ ErrVerdict /\ NoSilentPass

-----------------------------------------------------------------------------
(* Helpers                                                                 *)

(* What is counted, and what is not changed by that.                       *)
LEMMA CountErrors ==
  ASSUME out \in Outcome, NEW n \in Nat
  PROVE  /\ AddTfError(n) => /\ out' \in Outcome
                             /\ out'.errorcnt_tf = out.errorcnt_tf + n
                             /\ out'.errorcnt_run = out.errorcnt_run
                             /\ out'.errorcnt_err = out.errorcnt_err
                             /\ out'.exec_run = out.exec_run
                             /\ out'.exec_err = out.exec_err
         /\ AddRunError(n) => /\ out' \in Outcome
                              /\ out'.errorcnt_tf = out.errorcnt_tf
                              /\ out'.errorcnt_run = out.errorcnt_run + n
                              /\ out'.errorcnt_err = out.errorcnt_err
                              /\ out'.exec_run
                              /\ out'.exec_err = out.exec_err
         /\ AddEtError(n) => /\ out' \in Outcome
                             /\ out'.errorcnt_tf = out.errorcnt_tf
                             /\ out'.errorcnt_run = out.errorcnt_run
                             /\ out'.errorcnt_err = out.errorcnt_err + n
                             /\ out'.exec_run = out.exec_run
                             /\ out'.exec_err
<1>1. /\ out.errorcnt_tf + n \in Nat
      /\ out.errorcnt_run + n \in Nat
      /\ out.errorcnt_err + n \in Nat
  BY DEF Outcome
<1>2. /\ AddTfError(n) => out' \in Outcome
      /\ AddRunError(n) => out' \in Outcome
      /\ AddEtError(n) => out' \in Outcome
  BY <1>1 DEF Outcome, AddTfError, AddRunError, AddEtError
<1> QED
  BY <1>2 DEF Outcome, AddTfError, AddRunError, AddEtError

LEMMA OutcomeFields ==
  ASSUME out \in Outcome
  PROVE  /\ out.errorcnt_tf \in Nat /\ out.errorcnt_run \in Nat /\ out.errorcnt_err \in Nat
         /\ out.exec_run \in BOOLEAN /\ out.exec_err \in BOOLEAN
BY DEF Outcome

(* The indices of the expectations: finite sets of natural numbers.        *)
LEMMA Indices ==
  ASSUME NEW C, NEW s \in Seq(C), NEW I \in SUBSET DOMAIN s
  PROVE  /\ I \in SUBSET Nat
         /\ Cardinality(I) \in Nat
         /\ Cardinality(I) = 0 <=> I = {}
<1>1. Len(s) \in Nat /\ DOMAIN s = 1..Len(s)
  BY LenProperties
<1>2. I \in SUBSET Nat
  BY <1>1
<1>3. IsFiniteSet(I)
  BY <1>1, <1>2, FS_BoundedSetOfNaturals
<1> QED
  BY <1>2, <1>3, FS_CardinalityType, FS_EmptySet

LEMMA Captures ==
  ASSUME TypeOK
  PROVE  /\ \A i \in DOMAIN err_captures : /\ err_captures[i] \in OErrCapture
                                           /\ err_captures[i].diag \in Diag
                                           /\ err_captures[i].diag.line \in Lines
         /\ \A i \in DOMAIN run_captures : /\ run_captures[i] \in ORunCapture
                                           /\ run_captures[i].check \in Check
         /\ DOMAIN err_captures \in SUBSET Nat
         /\ DOMAIN run_captures \in SUBSET Nat
<1>1. /\ DOMAIN err_captures = 1..Len(err_captures) /\ Len(err_captures) \in Nat
      /\ DOMAIN run_captures = 1..Len(run_captures) /\ Len(run_captures) \in Nat
  BY LenProperties DEF TypeOK
<1>2. \A i \in DOMAIN err_captures : err_captures[i] \in OErrCapture
  BY <1>1, ElementOfSeq DEF TypeOK
<1>3. \A i \in DOMAIN run_captures : run_captures[i] \in ORunCapture
  BY <1>1, ElementOfSeq DEF TypeOK
<1> QED
  BY <1>1, <1>2, <1>3 DEF OErrCapture, Diag, ORunCapture

-----------------------------------------------------------------------------
(* The initial state and the parsing of the text                           *)

LEMMA InitIInv == Init => IInv
<1> SUFFICES ASSUME Init
             PROVE  IInv
  OBVIOUS
<1>1. NoOutcome \in Outcome
  BY DEF NoOutcome, Outcome
<1>2. TypeOK
  <2>1. <<>> \in Seq(OErrCapture) /\ <<>> \in Seq(ORunCapture) /\ DOMAIN <<>> = {}
    OBVIOUS
  <2>2. 1 \in Lines
    BY MaxLineAssumption DEF Lines
  <2> QED
    BY <1>1, <2>1, <2>2 DEF Init, TypeOK
<1>3. VariantInv
  BY DEF Init, VariantInv, FreshRun, FreshErr, NoOutcome, Parsing, RunSteps, ErrSteps
<1> QED
  BY <1>2, <1>3 DEF IInv, Init, RunLinesInv, ErrLinesInv, RunCounted, RunDone, ErrVerdict, NoSilentPass

(* A marker adds one expectation, which is not met yet.                    *)
LEMMA AppendCapture ==
  ASSUME NEW C, NEW s \in Seq(C), NEW c \in C
  PROVE  /\ Append(s, c) \in Seq(C)
         /\ DOMAIN Append(s, c) = DOMAIN s \cup {Len(s) + 1}
         /\ \A i \in DOMAIN s : Append(s, c)[i] = s[i]
         /\ Append(s, c)[Len(s) + 1] = c
OBVIOUS

(* The steps of the parser leave everything but their markers alone.       *)
LEMMA ParsingStep ==
  ASSUME IInv,
         \/ LoadText \/ SearchPattern \/ ParseMarkerError \/ ParseMarkerText
         \/ ParseMarkerCheck \/ FaultyMarker \/ EndOfList
  PROVE  IInv'
<1>1. /\ phase \in Parsing
      /\ phase' \in Parsing \/ (phase' = "processed" /\ LoadText /\ AddTfError(1))
      /\ UNCHANGED <<compared, readvars>>
  BY DEF LoadText, SearchPattern, ParseMarkerError, ParseMarkerText, ParseMarkerCheck,
         FaultyMarker, EndOfList, AfterMarker, Parsing
<1>2. TypeOK /\ FreshRun /\ FreshErr /\ out \in Outcome
  BY <1>1 DEF IInv, VariantInv, TypeOK
<1>3. /\ out' \in Outcome
      /\ out'.errorcnt_run = 0 /\ out'.errorcnt_err = 0 /\ ~out'.exec_run /\ ~out'.exec_err
      /\ phase' = "processed" => out'.errorcnt_tf # 0
  <2>1. AddTfError(1) \/ UNCHANGED out
    BY DEF LoadText, SearchPattern, ParseMarkerError, ParseMarkerText, ParseMarkerCheck,
           FaultyMarker, EndOfList
  <2>2. AddTfError(1) => out'.errorcnt_tf # 0
    BY <1>2, CountErrors, OutcomeFields
  <2>3. phase' = "processed" => AddTfError(1)
    BY <1>1 DEF Parsing
  <2> QED
    BY <1>2, <2>1, <2>2, <2>3, CountErrors DEF FreshRun, FreshErr
<1>4. line' \in Lines /\ line <= line'
  <2>1. line \in Nat
    BY <1>2 DEF TypeOK, Lines
  <2>2. line' = line \/ line' \in line..MaxLine
    BY DEF LoadText, SearchPattern, ParseMarkerError, ParseMarkerText, ParseMarkerCheck,
           FaultyMarker, EndOfList, markvars
  <2> QED
    BY <1>2, <2>1, <2>2, MaxLineAssumption DEF TypeOK, Lines
<1>5. /\ err_captures' \in Seq(OErrCapture)
      /\ \A i \in DOMAIN err_captures' : /\ err_captures'[i].diag.line <= line'
                                         /\ ~err_captures'[i].captured
                                         /\ ~err_captures'[i].missing_printed
  <2>0. \A i \in DOMAIN err_captures : err_captures[i].diag.line <= line'
    BY <1>2, <1>4, Captures DEF TypeOK, Lines
  <2>1. CASE UNCHANGED err_captures
    BY <1>2, <2>0, <2>1 DEF TypeOK, FreshErr
  <2>2. CASE ParseMarkerError
    <3>1. PICK msgtype \in MsgTypes, errid \in Ids :
            err_captures' = Append(err_captures,
              [diag |-> [line |-> line, msgtype |-> msgtype, errid |-> errid],
               captured |-> FALSE, missing_printed |-> FALSE])
      BY <2>2 DEF ParseMarkerError, GetLineNum
    <3> DEFINE c == [diag |-> [line |-> line, msgtype |-> msgtype, errid |-> errid],
                     captured |-> FALSE, missing_printed |-> FALSE]
    <3>2. c \in OErrCapture /\ c.diag.line = line /\ ~c.captured /\ ~c.missing_printed
      BY <1>2 DEF TypeOK, OErrCapture, Diag
    <3>3. err_captures' = Append(err_captures, c) /\ line' = line
      BY <2>2, <3>1 DEF ParseMarkerError
    <3>4. c.diag.line <= line'
      BY <1>2, <3>2, <3>3 DEF TypeOK, Lines
    <3> HIDE DEF c
    <3> QED
      BY <1>2, <2>0, <3>2, <3>3, <3>4, AppendCapture DEF TypeOK, FreshErr
  <2> QED
    BY <2>1, <2>2
    DEF LoadText, SearchPattern, ParseMarkerText, ParseMarkerCheck, FaultyMarker, EndOfList,
        markvars
<1>6. /\ run_captures' \in Seq(ORunCapture)
      /\ \A i \in DOMAIN run_captures' : ~run_captures'[i].captured
  <2>1. CASE UNCHANGED run_captures
    BY <1>2, <2>1 DEF TypeOK, FreshRun
  <2>2. ASSUME NEW c \in Check, AddCheck(c)
        PROVE  <1>6!1 /\ <1>6!2
    <3>1. [check |-> c, captured |-> FALSE] \in ORunCapture
      BY DEF ORunCapture
    <3> QED
      BY <1>2, <2>2, <3>1, AppendCapture DEF AddCheck, TypeOK, FreshRun
  <2>3. ASSUME NEW text \in Texts
        PROVE  [strid |-> text, checkvalue |-> Empty] \in Check
    BY EmptyAssumption DEF Check
  <2> QED
    BY <2>1, <2>2, <2>3
    DEF LoadText, SearchPattern, ParseMarkerError, ParseMarkerText, ParseMarkerCheck,
        FaultyMarker, EndOfList, markvars
<1>7. TypeOK'
  BY <1>1, <1>2, <1>3, <1>4, <1>5, <1>6 DEF TypeOK, Parsing, readvars
<1>8. FreshRun' /\ FreshErr'
  BY <1>1, <1>2, <1>3, <1>5, <1>6 DEF FreshRun, FreshErr, readvars
<1>9. VariantInv' /\ NoSilentPass'
  BY <1>1, <1>3, <1>8 DEF VariantInv, NoSilentPass, Parsing, RunSteps, ErrSteps
<1> QED
  BY <1>1, <1>7, <1>9
  DEF IInv, RunLinesInv, ErrLinesInv, RunCounted, RunDone, ErrVerdict, Parsing

LEMMA EndOfMarkersStep ==
  ASSUME IInv, EndOfMarkers
  PROVE  IInv'
<1>1. TypeOK /\ FreshRun /\ FreshErr /\ out \in Outcome
  BY DEF IInv, VariantInv, TypeOK, EndOfMarkers, Parsing
<1>2. /\ out' \in Outcome
      /\ out'.errorcnt_run = 0 /\ out'.errorcnt_err = 0 /\ ~out'.exec_run /\ ~out'.exec_err
      /\ phase' = "processed" <=> out'.errorcnt_tf # 0
      /\ phase' \in {"processed", "runtest", "errtest"}
      /\ phase' = "runtest" => HasRun
      /\ phase' = "errtest" => ~HasRun /\ HasErr
  <2>1. CASE ~HasRun /\ ~HasErr /\ out.errorcnt_tf = 0
    <3>1. AddTfError(1) /\ phase' = "processed"
      BY <2>1 DEF EndOfMarkers
    <3> QED
      BY <1>1, <3>1, CountErrors, OutcomeFields DEF FreshRun, FreshErr
  <2>2. CASE HasRun \/ HasErr \/ out.errorcnt_tf # 0
    <3>1. AddTfError(0)
      BY <2>2 DEF EndOfMarkers
    <3> QED
      BY <1>1, <2>2, <3>1, CountErrors, OutcomeFields DEF FreshRun, FreshErr, EndOfMarkers
  <2> QED
    BY <2>1, <2>2
<1>3. UNCHANGED <<line, err_captures, run_captures, compared, seen, again, sorted, lastline, stray>>
  BY DEF EndOfMarkers, markvars, readvars
<1>4. HasRun' = HasRun /\ HasErr' = HasErr
  BY <1>3 DEF HasRun, HasErr
<1>5. TypeOK'
  BY <1>1, <1>2, <1>3 DEF TypeOK
<1>6. FreshRun' /\ FreshErr'
  BY <1>1, <1>2, <1>3 DEF FreshRun, FreshErr
<1>7. VariantInv' /\ NoSilentPass'
  BY <1>2, <1>3, <1>4, <1>6 DEF VariantInv, NoSilentPass, FreshRun, Parsing, RunSteps, ErrSteps
<1> QED
  BY <1>2, <1>5, <1>7 DEF IInv, RunLinesInv, ErrLinesInv, RunCounted, RunDone, ErrVerdict

-----------------------------------------------------------------------------
(* The run variant                                                         *)

LEMMA ExecRunTestStep ==
  ASSUME IInv, ExecRunTest
  PROVE  IInv'
<1>1. TypeOK /\ FreshRun /\ FreshErr /\ out \in Outcome /\ HasRun /\ out.errorcnt_tf = 0
  BY DEF IInv, VariantInv, TypeOK, ExecRunTest, Parsing, RunSteps
<1>2. UNCHANGED <<line, err_captures, run_captures, compared,
                  seen, again, sorted, lastline, stray>>
  BY DEF ExecRunTest, markvars, readvars
<1>3. HasRun'
  BY <1>1, <1>2 DEF HasRun
<1>4. /\ out' \in Outcome /\ out'.exec_run /\ out'.exec_err = out.exec_err
      /\ out'.errorcnt_tf = 0 /\ out'.errorcnt_err = 0
      /\ \/ phase' = "runend" /\ out'.errorcnt_run > 0
         \/ phase' = "runlines" /\ out'.errorcnt_run = 0
  <2>1. ASSUME NEW n \in Nat, AddRunError(n)
        PROVE  /\ out' \in Outcome /\ out'.exec_run /\ out'.exec_err = out.exec_err
               /\ out'.errorcnt_tf = 0 /\ out'.errorcnt_err = 0
               /\ out'.errorcnt_run = n
    BY <1>1, <2>1, CountErrors, OutcomeFields DEF FreshRun, FreshErr
  <2>2. \A n \in 0..MaxErrors : CompileErrors(n) \in Nat /\ CompileErrors(n) > 0
    BY MaxErrorsAssumption DEF CompileErrors
  <2>3. CASE AddRunError(1) /\ phase' = "runend"
    BY <2>1, <2>3
  <2>4. CASE /\ \E n \in 0..MaxErrors : AddRunError(CompileErrors(n))
             /\ phase' = "runend"
    BY <2>1, <2>2, <2>4
  <2>5. CASE AddRunError(0) /\ phase' = "runlines"
    BY <2>1, <2>5
  <2> QED
    BY <2>3, <2>4, <2>5 DEF ExecRunTest
<1>5. TypeOK'
  BY <1>1, <1>2, <1>4 DEF TypeOK
<1>6. VariantInv'
  <2>1. FreshErr'
    BY <1>1, <1>2, <1>4 DEF FreshErr
  <2> QED
    BY <1>3, <1>4, <2>1 DEF VariantInv, Parsing, RunSteps, ErrSteps
<1>7. RunLinesInv'
  <2>1. seen' = {} /\ again' = {} /\ \A i \in DOMAIN run_captures' : ~run_captures'[i].captured
    BY <1>1, <1>2 DEF FreshRun
  <2> QED
    BY <1>4, <2>1 DEF RunLinesInv, Reached
<1> QED
  BY <1>1, <1>2, <1>4, <1>5, <1>6, <1>7
  DEF IInv, ErrLinesInv, FreshRun, RunCounted, RunDone, ErrVerdict, NoSilentPass

(* What fits a line depends on what is expected, not on what was captured. *)
LEMMA SameExpectations ==
  ASSUME DOMAIN run_captures' = DOMAIN run_captures,
         \A i \in DOMAIN run_captures : run_captures'[i].check = run_captures[i].check
  PROVE  /\ \A l : Fitting(l)' = Fitting(l)
         /\ \A l : Fitting(l) \in SUBSET Nat => (Accepted(l)' <=> Accepted(l))
<1>1. ASSUME NEW l
      PROVE  Fitting(l)' = Fitting(l)
  BY DEF Fitting, Fits, CheckSymbol
<1>2. ASSUME NEW l, Fitting(l) \in SUBSET Nat
      PROVE  Accepted(l)' <=> Accepted(l)
  <2>1. Fitting(l) # {} => Min(Fitting(l)) \in DOMAIN run_captures
    BY <1>2, MinOf DEF Fitting
  <2> QED
    BY <1>1, <2>1 DEF Accepted, CheckSymbol
<1> QED
  BY <1>1, <1>2

(* Two lines with the same key fit the same expectations.                  *)
LEMMA SameKey ==
  ASSUME NEW l, NEW m, KeyedLine(l), m.key = l.key
  PROVE  Fitting(m) = Fitting(l)
BY DEF Fitting, Fits, KeyedLine

LEMMA RunLineStep ==
  ASSUME IInv, RunLine
  PROVE  IInv'
<1>1. PICK l \in OutLine : RunLine!(l)
  BY DEF RunLine
<1>2. /\ TypeOK /\ RunLinesInv /\ phase = "runlines" /\ phase' = phase
      /\ HasRun /\ FreshErr /\ out \in Outcome /\ out.errorcnt_tf = 0
      /\ out.errorcnt_run \in Nat
      /\ UNCHANGED <<line, err_captures, compared, sorted, lastline, stray>>
  BY <1>1, OutcomeFields DEF IInv, TypeOK, VariantInv, RunSteps
<1>3. \A m : Fitting(m) \in SUBSET DOMAIN run_captures /\ Fitting(m) \in SUBSET Nat
  BY <1>2, Captures DEF Fitting
<1> DEFINE i == Min(Fitting(l))
           fails == Fitting(l) = {} \/ LineFails(run_captures[i], l)
           came  == {k \in {l.key} \ {Empty} : \E m \in seen : m.key = k}
<1>4. Fitting(l) # {} => i \in Fitting(l) /\ i \in DOMAIN run_captures
  BY <1>3, MinOf
<1>5. /\ DOMAIN run_captures' = DOMAIN run_captures
      /\ run_captures' \in Seq(ORunCapture)
      /\ \A j \in DOMAIN run_captures :
           /\ run_captures'[j].check = run_captures[j].check
           /\ run_captures'[j].captured <=>
                \/ run_captures[j].captured
                \/ Fitting(l) # {} /\ j = i /\ KeyedLine(l)
  <2>1. CASE Fitting(l) = {}
    BY <1>1, <1>2, <2>1 DEF TypeOK
  <2>2. CASE Fitting(l) # {}
    <3>1. run_captures' = [run_captures EXCEPT ![i].captured = @ \/ KeyedLine(l)]
      BY <1>1, <2>2
    <3>2. i \in 1..Len(run_captures) /\ run_captures[i] \in ORunCapture
      BY <1>2, <1>4, <2>2, Captures, LenProperties DEF TypeOK
    <3> DEFINE e == [run_captures[i] EXCEPT !.captured = @ \/ KeyedLine(l)]
    <3>3. /\ e \in ORunCapture /\ e.check = run_captures[i].check
          /\ e.captured <=> run_captures[i].captured \/ KeyedLine(l)
      BY <3>2 DEF ORunCapture, KeyedLine
    <3>4. run_captures' = [run_captures EXCEPT ![i] = e]
      BY <3>1
    <3> HIDE DEF e, i
    <3> QED
      BY <1>2, <2>2, <3>2, <3>3, <3>4, ExceptSeq, LenProperties DEF TypeOK
  <2> QED
    BY <2>1, <2>2
<1>6. /\ out' \in Outcome /\ out'.exec_run /\ out'.exec_err = out.exec_err
      /\ out'.errorcnt_tf = 0 /\ out'.errorcnt_err = out.errorcnt_err
      /\ out'.errorcnt_run = 0 <=> out.errorcnt_run = 0 /\ ~fails
  <2>1. CASE fails
    <3>1. AddRunError(1)
      BY <1>1, <2>1
    <3> QED
      BY <1>2, <2>1, <3>1, CountErrors
  <2>2. CASE ~fails
    <3>1. AddRunError(0)
      BY <1>1, <2>2
    <3> QED
      BY <1>2, <2>2, <3>1, CountErrors
  <2> QED
    BY <2>1, <2>2
<1>7. seen' = seen \cup {l} /\ again' = again \cup came
  BY <1>1
<1>8. \A m : Fitting(m)' = Fitting(m) /\ (Accepted(m)' <=> Accepted(m))
  BY <1>3, <1>5, SameExpectations
(* A key that comes again is one whose expectation was captured. *)
<1>9. Fitting(l) # {} /\ KeyedLine(l) => (run_captures[i].captured <=> came # {})
  <2> SUFFICES ASSUME Fitting(l) # {}, KeyedLine(l)
               PROVE  run_captures[i].captured <=> came # {}
    OBVIOUS
  <2>1. ASSUME run_captures[i].captured
        PROVE  came # {}
    <3>1. PICK m \in seen : KeyedLine(m) /\ Fitting(m) # {} /\ Min(Fitting(m)) = i
      BY <1>2, <1>4, <2>1 DEF RunLinesInv, Reached
    <3>2. i \in Fitting(m)
      BY <1>3, <3>1, MinOf
    <3>3. run_captures[i].check.strid = m.key /\ run_captures[i].check.strid = l.key
      BY <1>4, <3>1, <3>2 DEF Fitting, Fits
    <3> QED
      BY <3>1, <3>3 DEF KeyedLine
  <2>2. ASSUME came # {}
        PROVE  run_captures[i].captured
    <3>1. PICK m \in seen : m.key = l.key
      BY <2>2
    <3>2. KeyedLine(m) /\ Fitting(m) = Fitting(l)
      BY <3>1, SameKey DEF KeyedLine
    <3> QED
      BY <1>2, <1>4, <3>2 DEF RunLinesInv, Reached
  <2> QED
    BY <2>1, <2>2
<1>10. ~fails <=> Accepted(l) /\ came = {}
  <2>1. CASE ~KeyedLine(l)
    BY <2>1 DEF LineFails, Accepted, KeyedLine
  <2>2. CASE KeyedLine(l)
    BY <1>9, <2>2 DEF LineFails, Accepted
  <2> QED
    BY <2>1, <2>2
<1>11. TypeOK'
  <2>1. came \subseteq Texts
    BY DEF OutLine
  <2>2. \A j \in DOMAIN err_captures : err_captures[j].diag.line <= line
    BY <1>2 DEF TypeOK
  <2> QED
    BY <1>2, <1>5, <1>6, <1>7, <2>1, <2>2 DEF TypeOK
<1>12. HasRun'
  <2>1. DOMAIN run_captures # {}
    <3>1. Len(run_captures) \in Nat \ {0} /\ DOMAIN run_captures = 1..Len(run_captures)
      BY <1>2, LenProperties, EmptySeq DEF HasRun, TypeOK
    <3>2. 1 \in DOMAIN run_captures
      BY <3>1
    <3> QED
      BY <3>2
  <2> QED
    BY <1>5, <2>1 DEF HasRun
<1>13. VariantInv'
  <2>1. FreshErr'
    BY <1>2, <1>6 DEF FreshErr
  <2> QED
    BY <1>2, <1>6, <1>12, <2>1 DEF VariantInv, Parsing, RunSteps, ErrSteps, FreshErr
<1>14. RunLinesInv'
  <2>1. seen' \subseteq OutLine
    BY <1>2, <1>7 DEF RunLinesInv
  <2>2. ASSUME NEW j \in DOMAIN run_captures
        PROVE  run_captures'[j].captured <=> Reached(j)'
    <3>1. Reached(j)' <=> Reached(j) \/ (KeyedLine(l) /\ Fitting(l) # {} /\ j = i)
      BY <1>7, <1>8 DEF Reached, KeyedLine
    <3> QED
      BY <1>2, <1>5, <3>1 DEF RunLinesInv
  <2>3. out'.errorcnt_run = 0 <=> again' = {} /\ \A m \in seen' : Accepted(m)'
    BY <1>2, <1>6, <1>7, <1>8, <1>10 DEF RunLinesInv
  <2> QED
    BY <1>5, <2>1, <2>2, <2>3 DEF RunLinesInv
<1> QED
  BY <1>2, <1>11, <1>13, <1>14
  DEF IInv, ErrLinesInv, RunCounted, RunDone, ErrVerdict, NoSilentPass

LEMMA EndOfOutputStep ==
  ASSUME IInv, EndOfOutput
  PROVE  IInv'
<1>1. /\ TypeOK /\ VariantInv /\ RunLinesInv /\ phase = "runlines" /\ phase' = "runend"
      /\ out \in Outcome /\ out.errorcnt_run \in Nat
      /\ compared' = compared \cup {"run"}
      /\ UNCHANGED <<line, err_captures, run_captures,
                     seen, again, sorted, lastline, stray>>
  BY OutcomeFields DEF IInv, TypeOK, EndOfOutput, markvars, readvars
<1>2. Cardinality(Missing) \in Nat /\ (Cardinality(Missing) = 0 <=> Missing = {})
  BY <1>1, Indices DEF TypeOK, Missing
<1>3. /\ out' \in Outcome /\ out'.exec_run /\ out'.exec_err = out.exec_err
      /\ out'.errorcnt_tf = out.errorcnt_tf /\ out'.errorcnt_err = out.errorcnt_err
      /\ out'.errorcnt_run = 0 <=> out.errorcnt_run = 0 /\ Missing = {}
  <2>1. AddRunError(Cardinality(Missing))
    BY DEF EndOfOutput
  <2> QED
    BY <1>1, <1>2, <2>1, CountErrors
<1>4. out'.errorcnt_run = 0 <=> RunMet
  <2>1. Missing = {} <=> \A i \in DOMAIN run_captures :
                           run_captures[i].check.checkvalue # Empty => Reached(i)
    BY <1>1 DEF Missing, RunLinesInv
  <2> QED
    BY <1>1, <1>3, <2>1 DEF RunLinesInv, RunMet
<1>5. RunMet' = RunMet /\ HasRun' = HasRun /\ FreshErr' = FreshErr
  <2>1. UNCHANGED <<run_captures, seen, again>>
    BY <1>1
  <2>2. RunMet' = RunMet
    BY <2>1 DEF RunMet, Reached, Accepted, Fitting, Fits, KeyedLine, CheckSymbol
  <2> QED
    BY <1>1, <1>3, <2>2 DEF HasRun, FreshErr
<1>6. TypeOK'
  BY <1>1, <1>3 DEF TypeOK
<1>7. VariantInv' /\ RunCounted'
  BY <1>1, <1>3, <1>4, <1>5 DEF VariantInv, RunCounted, RunDone, Parsing, RunSteps, ErrSteps
<1> QED
  BY <1>1, <1>6, <1>7 DEF IInv, RunLinesInv, ErrLinesInv, ErrVerdict, NoSilentPass

LEMMA RunTestReturnsStep ==
  ASSUME IInv, RunTestReturns
  PROVE  IInv'
<1>1. /\ TypeOK /\ VariantInv /\ phase = "runend"
      /\ phase' = IF HasErr THEN "errtest" ELSE "processed"
      /\ seen' = {} /\ again' = {}
      /\ UNCHANGED <<line, err_captures, run_captures, out, compared,
                     sorted, lastline, stray>>
  BY DEF IInv, RunTestReturns, markvars
<1>2. HasRun' = HasRun /\ HasErr' = HasErr /\ FreshErr' = FreshErr
  BY <1>1 DEF HasRun, HasErr, FreshErr
<1>3. TypeOK'
  BY <1>1 DEF TypeOK
<1>4. VariantInv' /\ NoSilentPass'
  BY <1>1, <1>2
  DEF VariantInv, NoSilentPass, Parsing, RunSteps, ErrSteps, FreshErr, TypeOK, Outcome
<1> QED
  BY <1>1, <1>3, <1>4 DEF IInv, RunLinesInv, ErrLinesInv, RunCounted, RunDone, ErrVerdict

-----------------------------------------------------------------------------
(* The error variant                                                       *)

LEMMA ExecErrorTestStep ==
  ASSUME IInv, ExecErrorTest
  PROVE  IInv'
<1>1. /\ TypeOK /\ VariantInv /\ FreshErr /\ out \in Outcome /\ HasErr
      /\ phase = "errtest" /\ seen = {} /\ out.errorcnt_tf = 0
      /\ UNCHANGED <<line, err_captures, run_captures, compared,
                     seen, again, sorted, lastline, stray>>
  BY DEF IInv, VariantInv, TypeOK, ExecErrorTest, ErrSteps, markvars, readvars
<1>2. HasRun' = HasRun /\ HasErr' = HasErr
  BY <1>1 DEF HasRun, HasErr
<1>3. /\ out' \in Outcome /\ out'.exec_err /\ out'.exec_run = out.exec_run
      /\ out'.errorcnt_tf = 0 /\ out'.errorcnt_run = out.errorcnt_run
      /\ \/ phase' = "errend" /\ out'.errorcnt_err > 0
         \/ phase' = "errlines" /\ out'.errorcnt_err = 0
  BY <1>1, CountErrors DEF ExecErrorTest, CompilerNotRun, FreshErr
<1>4. TypeOK'
  BY <1>1, <1>3 DEF TypeOK
<1>5. VariantInv'
  BY <1>1, <1>2, <1>3 DEF VariantInv, Parsing, RunSteps, ErrSteps
<1>6. ErrLinesInv'
  BY <1>1, <1>3 DEF ErrLinesInv, FreshErr
<1> QED
  BY <1>1, <1>3, <1>4, <1>5, <1>6
  DEF IInv, FreshErr, RunLinesInv, RunCounted, RunDone, ErrVerdict, NoSilentPass

(* What is expected depends on the diagnostics, not on what was captured.  *)
LEMMA SameDiagnostics ==
  ASSUME DOMAIN err_captures' = DOMAIN err_captures,
         \A i \in DOMAIN err_captures : err_captures'[i].diag = err_captures[i].diag
  PROVE  /\ \A d : Expecting(d)' = Expecting(d)
         /\ \A i \in DOMAIN err_captures : FirstFor(i)' <=> FirstFor(i)
<1>1. ASSUME NEW d
      PROVE  Expecting(d)' = Expecting(d)
  BY DEF Expecting
<1>2. ASSUME NEW i \in DOMAIN err_captures
      PROVE  FirstFor(i)' <=> FirstFor(i)
  BY <1>1 DEF FirstFor
<1> QED
  BY <1>1, <1>2

(* The expectation a diagnostic captures, if there is one.                 *)
LEMMA FirstExpecting ==
  ASSUME TypeOK, NEW d, NEW i \in DOMAIN err_captures
  PROVE  /\ Expecting(d) \in SUBSET Nat /\ Expecting(d) \in SUBSET DOMAIN err_captures
         /\ Expecting(d) # {} /\ i = Min(Expecting(d))
              <=> err_captures[i].diag = d /\ FirstFor(i)
<1>1. Expecting(d) \in SUBSET Nat /\ Expecting(d) \in SUBSET DOMAIN err_captures
  BY Captures DEF Expecting
<1>2. Expecting(d) # {} => Min(Expecting(d)) \in Expecting(d)
  BY <1>1, MinOf
<1> QED
  BY <1>1, <1>2 DEF Expecting, FirstFor

LEMMA ErrLineStep ==
  ASSUME IInv, ErrLine
  PROVE  IInv'
<1>1. PICK d \in Diag : ErrLine!(d)
  BY DEF ErrLine
<1> DEFINE overdue == Overdue(d.line)
           match   == Expecting(d)
           n       == Cardinality(overdue) + (IF match = {} THEN 1 ELSE 0)
<1>2. /\ TypeOK /\ VariantInv /\ ErrLinesInv /\ phase = "errlines" /\ phase' = phase
      /\ out \in Outcome /\ out.errorcnt_err \in Nat
      /\ out.errorcnt_tf = 0 /\ HasErr
      /\ UNCHANGED <<line, run_captures, compared, again, stray>>
      /\ seen' = seen \cup {d}
      /\ sorted' = (sorted /\ lastline <= d.line) /\ lastline' = d.line
  BY <1>1, OutcomeFields DEF IInv, TypeOK, VariantInv, ErrSteps
<1>3. /\ Cardinality(overdue) \in Nat
      /\ Cardinality(overdue) = 0 <=> overdue = {}
      /\ overdue \in SUBSET DOMAIN err_captures
  <2>1. overdue \in SUBSET DOMAIN err_captures /\ err_captures \in Seq(OErrCapture)
    BY <1>2 DEF Overdue, TypeOK
  <2> HIDE DEF overdue
  <2> QED
    BY <2>1, Indices
<1>4. n \in Nat /\ (n = 0 <=> overdue = {} /\ match # {})
  BY <1>3
<1>5. /\ out' \in Outcome /\ out'.exec_err /\ out'.exec_run = out.exec_run
      /\ out'.errorcnt_tf = 0 /\ out'.errorcnt_run = out.errorcnt_run
      /\ out'.errorcnt_err = out.errorcnt_err + n
  <2>1. AddEtError(n)
    BY <1>1 DEF OverdueAt
  <2> HIDE DEF n
  <2> QED
    BY <1>2, <1>4, <2>1, CountErrors
<1>6. err_captures' = [i \in DOMAIN err_captures |->
                         [err_captures[i] EXCEPT
                            !.missing_printed = @ \/ i \in overdue,
                            !.captured = @ \/ (match # {} /\ i = Min(match))]]
  BY <1>1 DEF OverdueAt
<1>7. ASSUME NEW i \in DOMAIN err_captures
      PROVE  /\ err_captures'[i] \in OErrCapture
             /\ err_captures'[i].diag = err_captures[i].diag
             /\ err_captures'[i].missing_printed <=>
                  err_captures[i].missing_printed \/ i \in overdue
             /\ err_captures'[i].captured <=>
                  \/ err_captures[i].captured
                  \/ err_captures[i].diag = d /\ FirstFor(i)
  <2> DEFINE b == i \in overdue
             c == match # {} /\ i = Min(match)
  <2>1. err_captures'[i] = [err_captures[i] EXCEPT !.missing_printed = @ \/ b,
                                                   !.captured = @ \/ c]
    BY <1>6
  <2>2. c <=> err_captures[i].diag = d /\ FirstFor(i)
    BY <1>2, FirstExpecting
  <2>3. err_captures[i] \in OErrCapture
    BY <1>2, Captures
  <2> HIDE DEF b, c
  <2>4. /\ err_captures'[i] \in OErrCapture
        /\ err_captures'[i].diag = err_captures[i].diag
        /\ err_captures'[i].missing_printed <=> err_captures[i].missing_printed \/ b
        /\ err_captures'[i].captured <=> err_captures[i].captured \/ c
    BY <2>1, <2>3 DEF OErrCapture
  <2> QED
    BY <2>2, <2>4 DEF b
<1>8. /\ DOMAIN err_captures' = DOMAIN err_captures
      /\ err_captures' \in Seq(OErrCapture)
  <2>1. DOMAIN err_captures = 1..Len(err_captures) /\ Len(err_captures) \in Nat
    BY <1>2, LenProperties DEF TypeOK
  <2>2. DOMAIN err_captures' = DOMAIN err_captures
    BY <1>6
  <2>3. err_captures' \in [1..Len(err_captures) -> OErrCapture]
    BY <1>6, <1>7, <2>1
  <2> QED
    BY <2>1, <2>2, <2>3
<1> HIDE DEF n
<1>9. /\ \A e : Expecting(e)' = Expecting(e)
      /\ \A i \in DOMAIN err_captures : FirstFor(i)' <=> FirstFor(i)
  BY <1>7, <1>8, SameDiagnostics
<1>10. TypeOK'
  <2>1. \A i \in DOMAIN err_captures' : err_captures'[i].diag.line <= line'
    BY <1>2, <1>7, <1>8 DEF TypeOK
  <2>2. lastline' \in Lines /\ sorted' \in BOOLEAN
    BY <1>2 DEF Diag, TypeOK
  <2> QED
    BY <1>2, <1>5, <1>8, <2>1, <2>2 DEF TypeOK
<1>11. VariantInv'
  <2>1. HasRun' = HasRun
    BY <1>2 DEF HasRun
  <2>2. HasErr'
    <3>1. Len(err_captures) \in Nat \ {0} /\ DOMAIN err_captures = 1..Len(err_captures)
      BY <1>2, LenProperties, EmptySeq DEF HasErr, TypeOK
    <3>2. 1 \in DOMAIN err_captures'
      BY <1>8, <3>1
    <3> QED
      BY <3>2 DEF HasErr
  <2> QED
    BY <1>2, <1>5, <2>1, <2>2 DEF VariantInv, Parsing, RunSteps, ErrSteps
<1>12. ErrLinesInv'
  <2>1. seen' \subseteq Diag
    BY <1>2 DEF ErrLinesInv
  <2>2. ASSUME NEW i \in DOMAIN err_captures
        PROVE  err_captures'[i].captured <=> err_captures'[i].diag \in seen' /\ FirstFor(i)'
    BY <1>2, <1>7, <1>9 DEF ErrLinesInv
  <2>3. ASSUME NEW i \in DOMAIN err_captures, err_captures'[i].missing_printed
        PROVE  out'.errorcnt_err > 0
    <3>1. err_captures[i].missing_printed \/ overdue # {}
      BY <1>7, <2>3
    <3>2. out.errorcnt_err > 0 \/ n > 0
      BY <1>2, <1>4, <3>1 DEF ErrLinesInv
    <3> QED
      BY <1>2, <1>4, <1>5, <3>2
  <2>4. ASSUME out'.errorcnt_err = 0
        PROVE  ~stray' /\ \A e \in seen' : Expecting(e)' # {}
    <3>1. out.errorcnt_err = 0 /\ match # {}
      BY <1>2, <1>4, <1>5, <2>4
    <3> QED
      BY <1>2, <1>9, <3>1 DEF ErrLinesInv
  <2>5. ASSUME out'.errorcnt_err > 0, sorted'
        PROVE  Unmet'
    <3>1. sorted /\ lastline <= d.line
      BY <1>2, <2>5
    <3>2. /\ \A i \in DOMAIN err_captures : ~FirstFor(i) => ~FirstFor(i)'
          /\ \A e \in seen : Expecting(e) = {} => e \in seen' /\ Expecting(e)' = {}
      BY <1>2, <1>9
    <3>3. ASSUME NEW i \in DOMAIN err_captures, PassedBy(i)
          PROVE  PassedBy(i)'
      <4>1. err_captures[i].diag.line \in Nat /\ lastline \in Nat /\ d.line \in Nat
        BY <1>2, Captures DEF TypeOK, Lines, Diag
      <4>2. err_captures[i].diag.line < d.line
        BY <3>1, <3>3, <4>1 DEF PassedBy
      <4>3. err_captures[i].diag # d
        BY <4>1, <4>2
      <4> QED
        BY <1>2, <1>7, <3>3, <4>2, <4>3 DEF PassedBy
    <3>4. CASE out.errorcnt_err > 0
      <4>1. Unmet
        BY <1>2, <3>1, <3>4 DEF ErrLinesInv
      <4> QED
        BY <1>2, <1>8, <3>2, <3>3, <4>1 DEF Unmet
    <3>5. CASE match = {}
      <4>1. d \in seen' /\ Expecting(d)' = {}
        BY <1>2, <1>9, <3>5
      <4> QED
        BY <4>1 DEF Unmet
    <3>6. ASSUME NEW i \in overdue
          PROVE  Unmet'
      <4>1. /\ i \in DOMAIN err_captures /\ ~err_captures[i].captured
            /\ err_captures[i].diag.line < d.line
        BY <3>6 DEF Overdue
      <4>2. ~FirstFor(i) \/ err_captures[i].diag \notin seen
        BY <1>2, <4>1 DEF ErrLinesInv
      <4>3. err_captures[i].diag # d
        <5>1. d.line \in Nat
          BY DEF Diag, Lines
        <5> QED
          BY <4>1, <5>1
      <4>4. ~FirstFor(i)' \/ PassedBy(i)'
        BY <1>2, <1>7, <1>9, <4>1, <4>2, <4>3 DEF PassedBy
      <4> QED
        BY <1>8, <4>1, <4>4 DEF Unmet
    <3>7. out.errorcnt_err > 0 \/ match = {} \/ overdue # {}
      BY <1>2, <1>4, <1>5, <2>5
    <3> HIDE DEF match, overdue
    <3> QED
      BY <3>4, <3>5, <3>6, <3>7
  <2> QED
    BY <1>8, <2>1, <2>2, <2>3, <2>4, <2>5 DEF ErrLinesInv
<1> QED
  BY <1>2, <1>10, <1>11, <1>12 DEF IInv, RunLinesInv, RunCounted, RunDone, ErrVerdict, NoSilentPass

LEMMA InvalidLineStep ==
  ASSUME IInv, InvalidLine
  PROVE  IInv'
<1>1. /\ TypeOK /\ VariantInv /\ ErrLinesInv /\ phase = "errlines" /\ phase' = phase
      /\ out \in Outcome /\ out.errorcnt_err \in Nat
      /\ stray' = TRUE
      /\ UNCHANGED <<line, err_captures, run_captures, compared,
                     seen, again, sorted, lastline>>
  BY OutcomeFields DEF IInv, TypeOK, InvalidLine, markvars
<1>2. /\ out' \in Outcome /\ out'.exec_err /\ out'.exec_run = out.exec_run
      /\ out'.errorcnt_tf = out.errorcnt_tf /\ out'.errorcnt_run = out.errorcnt_run
      /\ out'.errorcnt_err > 0
  BY <1>1, CountErrors DEF InvalidLine
<1>3. TypeOK'
  BY <1>1, <1>2 DEF TypeOK
<1>4. VariantInv'
  <2>1. HasRun' = HasRun /\ HasErr' = HasErr
    BY <1>1 DEF HasRun, HasErr
  <2> QED
    BY <1>1, <1>2, <2>1 DEF VariantInv, Parsing, RunSteps, ErrSteps
<1>5. ErrLinesInv'
  <2>1. \A i : FirstFor(i)' <=> FirstFor(i)
    BY <1>1 DEF FirstFor, Expecting
  <2>2. Unmet' /\ out'.errorcnt_err # 0
    BY <1>1, <1>2 DEF Unmet
  <2> QED
    BY <1>1, <1>2, <2>1, <2>2 DEF ErrLinesInv
<1> QED
  BY <1>1, <1>3, <1>4, <1>5 DEF IInv, RunLinesInv, RunCounted, RunDone, ErrVerdict, NoSilentPass

LEMMA EndOfDiagsStep ==
  ASSUME IInv, EndOfDiags
  PROVE  IInv'
<1> DEFINE overdue == Overdue(MaxLine + 1)
<1>1. /\ TypeOK /\ VariantInv /\ ErrLinesInv /\ phase = "errlines" /\ phase' = "errend"
      /\ out \in Outcome /\ out.errorcnt_err \in Nat
      /\ compared' = compared \cup {"err"}
      /\ UNCHANGED <<line, err_captures, run_captures,
                     seen, again, sorted, lastline, stray>>
  BY OutcomeFields DEF IInv, TypeOK, EndOfDiags, markvars, readvars
<1>2. Cardinality(overdue) \in Nat /\ (Cardinality(overdue) = 0 <=> overdue = {})
  <2>1. overdue \in SUBSET DOMAIN err_captures /\ err_captures \in Seq(OErrCapture)
    BY <1>1 DEF Overdue, TypeOK
  <2> HIDE DEF overdue
  <2> QED
    BY <2>1, Indices
<1>3. /\ out' \in Outcome /\ out'.exec_err /\ out'.exec_run = out.exec_run
      /\ out'.errorcnt_tf = out.errorcnt_tf /\ out'.errorcnt_run = out.errorcnt_run
      /\ out'.errorcnt_err = 0 <=> out.errorcnt_err = 0 /\ overdue = {}
  <2>1. AddEtError(Cardinality(overdue))
    BY DEF EndOfDiags
  <2> HIDE DEF overdue
  <2> QED
    BY <1>1, <1>2, <2>1, CountErrors
<1>4. \A i \in DOMAIN err_captures :
        i \in overdue <=> ~err_captures[i].captured /\ ~err_captures[i].missing_printed
  <2>1. \A i \in DOMAIN err_captures : err_captures[i].diag.line < MaxLine + 1
    BY <1>1, Captures, MaxLineAssumption DEF Lines
  <2> QED
    BY <2>1 DEF Overdue
<1>5. overdue \subseteq DOMAIN err_captures
  BY DEF Overdue
<1>6. ErrMet <=> /\ ~stray
                 /\ \A d \in seen : Expecting(d) # {}
                 /\ \A i \in DOMAIN err_captures : err_captures[i].captured
  BY <1>1 DEF ErrMet, ErrLinesInv, FirstFor
<1>7. out'.errorcnt_err = 0 => ErrMet
  BY <1>1, <1>3, <1>4, <1>6 DEF ErrLinesInv
<1>8. ErrMet /\ sorted => out'.errorcnt_err = 0
  <2> SUFFICES ASSUME ErrMet, sorted
               PROVE  out'.errorcnt_err = 0
    OBVIOUS
  <2>1. overdue = {}
    BY <1>4, <1>5, <1>6
  <2>2. ~Unmet
    BY DEF Unmet, ErrMet, FirstFor, PassedBy
  <2> QED
    BY <1>1, <1>3, <2>1, <2>2 DEF ErrLinesInv
<1>9. ErrVerdict'
  <2>1. ErrMet' = ErrMet /\ sorted' = sorted
    BY <1>1 DEF ErrMet, Expecting
  <2> QED
    BY <1>7, <1>8, <2>1 DEF ErrVerdict
<1>10. TypeOK'
  BY <1>1, <1>3 DEF TypeOK
<1>11. VariantInv'
  <2>1. HasRun' = HasRun /\ HasErr' = HasErr
    BY <1>1 DEF HasRun, HasErr
  <2> QED
    BY <1>1, <1>3, <2>1 DEF VariantInv, Parsing, RunSteps, ErrSteps
<1> QED
  BY <1>1, <1>9, <1>10, <1>11 DEF IInv, RunLinesInv, ErrLinesInv, RunCounted, RunDone, NoSilentPass

LEMMA ErrTestReturnsStep ==
  ASSUME IInv, ErrTestReturns
  PROVE  IInv'
<1>1. /\ TypeOK /\ VariantInv /\ phase = "errend" /\ phase' = "processed"
      /\ UNCHANGED <<line, err_captures, run_captures, out, compared,
                     seen, again, sorted, lastline, stray>>
  BY DEF IInv, ErrTestReturns, markvars, readvars
<1>2. HasRun' = HasRun /\ HasErr' = HasErr
  BY <1>1 DEF HasRun, HasErr
<1>3. TypeOK'
  BY <1>1 DEF TypeOK
<1>4. VariantInv' /\ NoSilentPass'
  BY <1>1, <1>2 DEF VariantInv, NoSilentPass, Parsing, RunSteps, ErrSteps
<1> QED
  BY <1>1, <1>3, <1>4 DEF IInv, RunLinesInv, ErrLinesInv, RunCounted, RunDone, ErrVerdict

-----------------------------------------------------------------------------
(* The theorems                                                            *)

LEMMA NextIInv == IInv /\ [Next]_vars => IInv'
<1>1. ASSUME IInv, UNCHANGED vars
      PROVE  IInv'
  <2>1. /\ TypeOK' = TypeOK /\ HasRun' = HasRun /\ HasErr' = HasErr
        /\ FreshRun' = FreshRun /\ FreshErr' = FreshErr
    BY <1>1 DEF vars, TypeOK, HasRun, HasErr, FreshRun, FreshErr
  <2>2. /\ \A l : Fitting(l)' = Fitting(l) /\ (Accepted(l)' <=> Accepted(l))
        /\ \A d : Expecting(d)' = Expecting(d)
    BY <1>1 DEF vars, Fitting, Accepted, Fits, Expecting
  <2>3. /\ \A i : Reached(i)' <=> Reached(i)
        /\ \A i : FirstFor(i)' <=> FirstFor(i)
        /\ \A i : PassedBy(i)' <=> PassedBy(i)
    BY <1>1, <2>2 DEF vars, Reached, FirstFor, PassedBy
  <2>4. VariantInv' /\ NoSilentPass'
    BY <1>1, <2>1 DEF vars, IInv, VariantInv, NoSilentPass
  <2>5. RunLinesInv'
    BY <1>1, <2>2, <2>3 DEF vars, IInv, RunLinesInv
  <2>6. ErrLinesInv'
    BY <1>1, <2>2, <2>3 DEF vars, IInv, ErrLinesInv, Unmet
  <2>7. RunCounted'
    BY <1>1, <2>2, <2>3 DEF vars, IInv, RunCounted, RunDone, RunMet
  <2>8. ErrVerdict'
    BY <1>1, <2>2 DEF vars, IInv, ErrVerdict, ErrMet
  <2> QED
    BY <1>1, <2>1, <2>4, <2>5, <2>6, <2>7, <2>8 DEF IInv
<1> QED
  BY <1>1, ParsingStep, EndOfMarkersStep, ExecRunTestStep, RunLineStep, EndOfOutputStep,
     RunTestReturnsStep, ExecErrorTestStep, ErrLineStep, InvalidLineStep, EndOfDiagsStep,
     ErrTestReturnsStep
  DEF Next

(* Counting by the first expectation that fits is as good as the verdict   *)
(* says: expectations with a value that were all reached have keys of      *)
(* their own, and of different keys and texts only one fits a line.        *)
LEMMA CountedVerdict ==
  ASSUME TypeOK, RunCounted
  PROVE  RunVerdict
<1> SUFFICES ASSUME RunDone
             PROVE  /\ RunMet => LooselyMet
                    /\ ExactlyMet => RunMet
  BY DEF RunVerdict, RunCounted
<1>1. \A l : Fitting(l) \in SUBSET Nat /\ Fitting(l) \subseteq Markers
  BY Captures DEF Fitting, Markers
<1>2. \A l : Fitting(l) # {} => Min(Fitting(l)) \in Fitting(l) /\ Min(Fitting(l)) \in Markers
  BY <1>1, MinOf
<1>3. ASSUME NEW l, Accepted(l)
      PROVE  Begins(Min(Fitting(l)), l)
  BY <1>2, <1>3 DEF Accepted, Fitting, Fits, Begins, WithValue
<1>4. ASSUME RunMet
      PROVE  LooselyMet
  <2>1. \A l \in seen : \E i \in Markers : Begins(i, l)
    BY <1>2, <1>3, <1>4 DEF RunMet, Accepted
  <2>2. ASSUME NEW i \in WithValue
        PROVE  \E l \in seen : /\ KeyedLine(l) /\ Fitting(l) # {} /\ Min(Fitting(l)) = i
                               /\ Begins(i, l) /\ l.key = run_captures[i].check.strid
    BY <1>2, <1>3, <1>4 DEF RunMet, Reached, WithValue, Markers, Fitting, Fits
  <2>3. ASSUME NEW i \in WithValue, NEW j \in WithValue,
               run_captures[i].check.strid = run_captures[j].check.strid
        PROVE  i = j
    <3>1. PICK l \in seen : /\ KeyedLine(l) /\ Min(Fitting(l)) = i
                            /\ l.key = run_captures[i].check.strid
      BY <2>2
    <3>2. PICK m \in seen : /\ Min(Fitting(m)) = j
                            /\ m.key = run_captures[j].check.strid
      BY <2>2
    <3> QED
      BY <2>3, <3>1, <3>2, SameKey
  <2> QED
    BY <1>4, <2>1, <2>2, <2>3 DEF RunMet, Distinct, LooselyMet
<1>5. ASSUME ExactlyMet
      PROVE  RunMet
  <2>1. ASSUME NEW l, NEW i \in Markers, Equals(i, l)
        PROVE  Accepted(l) /\ (i \in WithValue => Min(Fitting(l)) = i)
    <3>1. i \in Fitting(l)
      BY <2>1 DEF Equals, Fitting, Fits, WithValue, Markers, CheckSymbol
    <3>2. CASE i \in WithValue
      <4>1. KeyedLine(l) /\ l.key = run_captures[i].check.strid
        BY <2>1, <3>2 DEF Equals
      <4>2. run_captures[Min(Fitting(l))].check.strid = l.key
        BY <1>2, <3>1, <4>1 DEF Fitting, Fits
      <4>3. Min(Fitting(l)) = i
        BY <1>2, <1>5, <3>1, <4>1, <4>2 DEF ExactlyMet, Unambiguous, Distinct
      <4> QED
        BY <2>1, <3>1, <3>2, <4>3 DEF Accepted, Equals, CheckSymbol
    <3>3. CASE i \notin WithValue
      BY <2>1, <3>1, <3>3 DEF Accepted, Equals
    <3> QED
      BY <3>2, <3>3
  <2>2. ASSUME NEW i \in WithValue
        PROVE  Reached(i)
    <3>1. PICK l \in seen : Equals(i, l)
      BY <1>5 DEF ExactlyMet
    <3> QED
      BY <2>1, <3>1 DEF Reached, Accepted, Equals, WithValue
  <2> QED
    BY <1>5, <2>1, <2>2 DEF RunMet, ExactlyMet, Unambiguous, WithValue, Markers
<1> QED
  BY <1>4, <1>5

(* IInv holds in every state.                                              *)
THEOREM Inductive == Spec => []IInv
BY InitIInv, NextIInv, PTL DEF Spec

(* The variables have their types, and a diagnostic is expected on a line  *)
(* that was parsed.                                                        *)
THEOREM TypeCorrect == Spec => []TypeOK
<1>1. IInv => TypeOK
  BY DEF IInv
<1> QED
  BY <1>1, Inductive, PTL

(* The counter of the run variant against what the markers say: without a  *)
(* counted error each line begins like a marker, no key came twice and     *)
(* each marker with a value has a key and a line of its own; and if the    *)
(* markers are unambiguous and the program printed exactly what they say,  *)
(* nothing is counted.  Expectations are captured one after the other, by  *)
(* the first that fits; the order of the lines has no influence.           *)
THEOREM RunVerdictRight == Spec => []RunVerdict
<1>1. IInv => RunVerdict
  BY CountedVerdict DEF IInv
<1> QED
  BY <1>1, Inductive, PTL

(* The error variant passes only if the compiler reported what the markers *)
(* name and nothing else, and always then if it went by the lines.         *)
THEOREM ErrVerdictRight == Spec => []ErrVerdict
<1>1. IInv => ErrVerdict
  BY DEF IInv
<1> QED
  BY <1>1, Inductive, PTL

(* A file that passes has markers, and of each variant it has markers for  *)
(* the output was compared to its end.                                     *)
THEOREM PassMeansExecuted == Spec => []NoSilentPass
<1>1. IInv => NoSilentPass
  BY DEF IInv
<1> QED
  BY <1>1, Inductive, PTL
=============================================================================
