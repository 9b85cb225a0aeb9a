------------------------------ MODULE Preproc ------------------------------
(***************************************************************************)
(* The source feeder's preprocessor: conditional branches, includes and    *)
(* defines, as OScFeederDq::SkipWhite meets them in the text.              *)
(*                                                                         *)
(* One action per directive.  What a file holds is not fixed in advance:   *)
(* any directive may come next, so that a file read twice may differ; all  *)
(* texts are among the behaviours.  The chain of curcond is cond[1..n],    *)
(* the innermost last; the files being read are reading[1..level].         *)
(*                                                                         *)
(* The fields sel and seen of a condition, the field body of a reading and *)
(* the variable stray are not in the program: sel and seen are the meaning *)
(* of the conditional, computed from the truth of every condition whether  *)
(* the feeder evaluates it or not.                                         *)
(*                                                                         *)
(* Left out: tokens, comments and positions.  After an error in a brace    *)
(* directive the feeder skips to the next opening brace, which is a text   *)
(* with less in it and needs no action.                                    *)
(***************************************************************************)
EXTENDS Naturals

CONSTANTS Files,      \* names of source files
          MainFile,   \* the one the compiler is started with
          Names,      \* names of defines
          MaxConds,   \* bound on the nesting of conditionals
          MaxLevel    \* bound on the nesting of includes

ASSUME MainFileAssumption == MainFile \in Files
ASSUME MaxCondsAssumption == MaxConds \in Nat
ASSUME MaxLevelAssumption == MaxLevel \in Nat \ {0}

VARIABLES
  cond,      \* the open conditionals
  n,         \* how many there are
  inactive,  \* inactive_code
  reading,   \* the files on the include stack
  level,     \* how many there are; none at the end of the text
  usage,     \* usagecount: 0 not loaded, 1 included once, 2 more often
  defined,   \* the names in g_defines
  accepted,  \* no error was reported
  blamed,    \* an error was reported for a directive in skipped text
  stray      \* skipped text had an effect

vars == <<cond, n, inactive, reading, level, usage, defined, accepted, blamed, stray>>

Cond == [state : {"if", "elif", "else"}, parent_inactive : BOOLEAN,
         branch_taken : BOOLEAN, file : Files, sel : BOOLEAN, seen : BOOLEAN]
Reading == [file : Files, first : BOOLEAN, body : BOOLEAN]

NoCond == [state |-> "if", parent_inactive |-> FALSE, branch_taken |-> FALSE,
           file |-> MainFile, sel |-> TRUE, seen |-> FALSE]
NoReading == [file |-> MainFile, first |-> FALSE, body |-> FALSE]

curcond == cond[n]
curfile == reading[level].file

(* The text is selected by the conditionals that are open.                 *)
Selected == \A i \in 1..n : cond[i].sel

Init == /\ cond = [i \in 1..MaxConds |-> NoCond]
        /\ n = 0
        /\ inactive = FALSE
        /\ reading = [l \in 1..MaxLevel |->
                        IF l = 1 THEN [NoReading EXCEPT !.first = TRUE] ELSE NoReading]
        /\ level = 1
        /\ usage = [f \in Files |-> IF f = MainFile THEN 1 ELSE 0]
        /\ defined = {}
        /\ accepted = TRUE
        /\ blamed = FALSE
        /\ stray = FALSE

ErrorIf(b) == accepted' = (accepted /\ ~b)

(* FindDirectiveEnd in the brace form, with the directive's operand unread *)
(* before the closer: an error, in text that is skipped.                   *)
CloserMissing(b) == /\ ErrorIf(b)
                    /\ blamed' = (blamed \/ b)

(* The directive does something (it defines, includes, evaluates) if b.    *)
Effect(b) == stray' = (stray \/ (b /\ ~Selected))

-----------------------------------------------------------------------------
(* Conditionals                                                            *)

(* StartConditionalBranch, then what the starter leaves in the new         *)
(* condition: t is the truth of its condition.                             *)
(* Mutant: the parent is taken to be active                                *)
ActiveParent == FALSE

ParentInactive == inactive

NewCond(taken, t) ==
  [state |-> "if", parent_inactive |-> ParentInactive, branch_taken |-> taken,
   file |-> curfile, sel |-> t, seen |-> t]

Start(taken, t) ==
  /\ n < MaxConds
  /\ n' = n + 1
  /\ cond' = [cond EXCEPT ![n + 1] = NewCond(taken, t)]
  /\ UNCHANGED <<reading, level, usage, defined>>

(* #ifdef and #ifndef; without an identifier an error.                     *)
IfDef(name, negated) ==
  LET t == (name \in defined) # negated
  IN /\ Start(~inactive /\ t, t)
     /\ inactive' = (inactive \/ ~t)
     /\ Effect(~inactive)
     /\ UNCHANGED <<accepted, blamed>>

IfDefNoName ==
  /\ Start(FALSE, FALSE)
  /\ inactive' = TRUE
  /\ ErrorIf(TRUE)
  /\ UNCHANGED <<blamed, stray>>

(* #if: the expression is parsed in active text only; it may be faulty.    *)
If(t, faulty, brace) ==
  /\ Start(~inactive /\ t /\ ~faulty, t)
  /\ inactive' = (inactive \/ ~t \/ faulty)
  /\ Effect(~inactive)
  /\ IF inactive THEN CloserMissing(brace) ELSE ErrorIf(faulty) /\ UNCHANGED blamed

(* #endif                                                                  *)
(* Mutant: the files are not compared                                      *)
AnyFile == FALSE

OtherFile == curcond.file # curfile

EndIf ==
  /\ n > 0
  /\ inactive' = curcond.parent_inactive
  /\ n' = n - 1
  /\ cond' = [cond EXCEPT ![n] = NoCond]
  /\ ErrorIf(OtherFile)
  /\ UNCHANGED <<reading, level, usage, defined, blamed, stray>>

(* A conditional is open and its #else has not been met.                   *)
BranchOpen == n > 0 /\ curcond.state # "else"

(* #else.  In another file than its #if it is an error, and a condition of *)
(* its own is put on the chain.                                            *)
Else ==
  /\ BranchOpen
  /\ IF OtherFile
     THEN /\ n < MaxConds
          /\ n' = n + 1
          /\ cond' = [cond EXCEPT ![n + 1] =
               [NewCond(FALSE, FALSE) EXCEPT
                  !.parent_inactive = curcond.parent_inactive, !.state = "else"]]
          /\ inactive' = TRUE
     ELSE /\ cond' = [cond EXCEPT ![n] = [curcond EXCEPT
               !.state = "else", !.sel = ~curcond.seen, !.seen = TRUE]]
          /\ inactive' = (curcond.parent_inactive \/ curcond.branch_taken)
          /\ UNCHANGED n
  /\ ErrorIf(OtherFile)
  /\ UNCHANGED <<reading, level, usage, defined, blamed, stray>>

(* A second #else, or an #else or #endif outside of all conditionals.      *)
MisplacedEnd ==
  /\ ~BranchOpen
  /\ ErrorIf(TRUE)
  /\ UNCHANGED <<cond, n, inactive, reading, level, usage, defined, blamed, stray>>

(* ContinueConditionalBranch when the continuation is out of place: the    *)
(* text that follows is inactive.                                          *)
MisplacedElif ==
  /\ ~BranchOpen
  /\ inactive' = TRUE
  /\ ErrorIf(TRUE)
  /\ UNCHANGED <<cond, n, reading, level, usage, defined, blamed, stray>>

ElifOtherFile ==
  /\ BranchOpen
  /\ n < MaxConds
  /\ OtherFile
  /\ n' = n + 1
  /\ cond' = [cond EXCEPT ![n + 1] =
       [NewCond(FALSE, FALSE) EXCEPT !.state = "elif",
          !.parent_inactive = curcond.parent_inactive \/ curcond.branch_taken]]
  /\ inactive' = TRUE
  /\ ErrorIf(TRUE)
  /\ UNCHANGED <<reading, level, usage, defined, blamed, stray>>

(* Mutant: a branch already taken is forgotten                             *)
SkippedByParent == curcond.parent_inactive

Skipped == curcond.parent_inactive \/ curcond.branch_taken

(* #elif, #elifdef and #elifndef in place.  The condition is looked at     *)
(* only if no branch was taken; t is its truth.                            *)
Continue(t, faulty) ==
  /\ BranchOpen
  /\ ~OtherFile
  /\ cond' = [cond EXCEPT ![n] = [curcond EXCEPT
       !.state = "elif",
       !.branch_taken = @ \/ (~Skipped /\ t /\ ~faulty),
       !.sel = t /\ ~curcond.seen, !.seen = @ \/ t]]
  /\ inactive' = (Skipped \/ ~t \/ faulty)
  /\ stray' = (stray \/ (~Skipped /\ (curcond.seen \/ \E i \in 1..(n - 1) : ~cond[i].sel)))
  /\ UNCHANGED <<n, reading, level, usage, defined>>

ElifDef(name, negated) ==
  /\ Continue((name \in defined) # negated, FALSE)
  /\ UNCHANGED <<accepted, blamed>>

Elif(t, faulty, brace) ==
  /\ Continue(t, faulty)
  /\ IF Skipped THEN CloserMissing(brace) ELSE ErrorIf(faulty) /\ UNCHANGED blamed

(* #elifdef without an identifier: an error, and the name is empty.        *)
ElifDefNoName(negated) ==
  /\ Continue(negated, FALSE)
  /\ ErrorIf(TRUE)
  /\ UNCHANGED blamed

-----------------------------------------------------------------------------
(* Other directives                                                        *)

(* In inactive text a directive is not carried out; an operand it has is   *)
(* taken for a missing closer in the brace form.                           *)
Ignore(operand, brace) ==
  /\ inactive
  /\ CloserMissing(operand /\ brace)
  /\ UNCHANGED <<cond, n, inactive, reading, level, usage, defined, stray>>

(* Mutant: the order of the two tests is changed                           *)
Always == TRUE

CarriedOut == ~inactive

(* #define; a name that is defined already is an error.                    *)
ParseDirectiveDefine(name) ==
  /\ CarriedOut
  /\ defined' = defined \cup {name}
  /\ ErrorIf(name \in defined)
  /\ Effect(TRUE)
  /\ UNCHANGED <<cond, n, inactive, reading, level, usage, blamed>>

(* A directive that is unknown, or whose operand is wrong; a # without a   *)
(* keyword is an error in skipped text, too.                               *)
FaultyDirective == \E keyword \in BOOLEAN :
  /\ keyword => CarriedOut
  /\ ErrorIf(TRUE)
  /\ UNCHANGED <<cond, n, inactive, reading, level, usage, defined, blamed, stray>>

(* LoadFile counts the uses of a file that was loaded before.              *)
(* Mutant: they are not counted                                            *)
LoadOnce(f) == [usage EXCEPT ![f] = 1]

LoadFile(f) == [usage EXCEPT ![f] = IF @ < 2 THEN @ + 1 ELSE 2]

ParseDirectiveInclude(f) ==
  /\ CarriedOut
  /\ level < MaxLevel
  /\ usage' = LoadFile(f)
  /\ reading' = [reading EXCEPT ![level + 1] =
                   [file |-> f, first |-> usage[f] = 0, body |-> FALSE]]
  /\ level' = level + 1
  /\ Effect(TRUE)
  /\ UNCHANGED <<cond, n, inactive, defined, accepted, blamed>>

(* SkipWhite at the end of an included file goes on in the including one.  *)
(* Mutant: two return positions are taken off the stack                    *)
LeaveTwo == /\ reading' = [reading EXCEPT ![level] = NoReading]
            /\ level' = level - 2

LeaveFile == /\ reading' = [reading EXCEPT ![level] = NoReading]
             /\ level' = level - 1

EndOfFile ==
  /\ LeaveFile
  /\ UNCHANGED <<cond, n, inactive, usage, defined, accepted, blamed, stray>>

(* #include_once skips to the end of a file that was used before.          *)
IncludeOnce ==
  /\ CarriedOut
  /\ IF usage[curfile] > 1
     THEN LeaveFile
     ELSE /\ reading' = [reading EXCEPT ![level].body = TRUE]
          /\ UNCHANGED level
  /\ UNCHANGED <<cond, n, inactive, usage, defined, accepted, blamed, stray>>

Conditional ==
  \/ \E name \in Names, negated \in BOOLEAN : IfDef(name, negated) \/ ElifDef(name, negated)
  \/ \E t, faulty, brace \in BOOLEAN : If(t, faulty, brace) \/ Elif(t, faulty, brace)
  \/ IfDefNoName
  \/ \E negated \in BOOLEAN : ElifDefNoName(negated)
  \/ EndIf \/ Else
  \/ MisplacedEnd \/ MisplacedElif \/ ElifOtherFile

Next == /\ level > 0
        /\ \/ Conditional
           \/ \E operand, brace \in BOOLEAN : Ignore(operand, brace)
           \/ \E name \in Names : ParseDirectiveDefine(name)
           \/ FaultyDirective
           \/ \E f \in Files : ParseDirectiveInclude(f)
           \/ EndOfFile
           \/ IncludeOnce

Spec == Init /\ [][Next]_vars

-----------------------------------------------------------------------------
(* Properties                                                              *)

(* Types; the main file stays at the bottom of the include stack.          *)
TypeOK == /\ n \in 0..MaxConds
          /\ cond \in [1..MaxConds -> Cond]
          /\ inactive \in BOOLEAN
          /\ level \in 0..MaxLevel
          /\ reading \in [1..MaxLevel -> Reading]
          /\ reading[1].file = MainFile
          /\ usage \in [Files -> 0..2]
          /\ \A l \in 1..level : usage[reading[l].file] > 0
          /\ defined \subseteq Names
          /\ accepted \in BOOLEAN
          /\ blamed \in BOOLEAN
          /\ stray \in BOOLEAN

(* In a text without errors the three flags the feeder keeps amount to the *)
(* meaning of the conditionals: text is compiled exactly when each open    *)
(* conditional is in its first branch whose condition holds.               *)
ActiveIsSelected == accepted => (inactive <=> ~Selected)

(* In a text without errors, skipped text defines nothing, includes        *)
(* nothing and has no condition evaluated, so that it may name things that *)
(* do not exist.                                                           *)
SkippedHasNoEffect == accepted => ~stray

(* A file cannot close or continue a conditional that another file opened, *)
(* without an error being reported.                                        *)
OtherFilesUntouched ==
  [][accepted' => \A i \in 1..n :
       level > 0 /\ cond[i].file # curfile => i <= n' /\ cond'[i] = cond[i]]_vars

(* Of all the times a file is read, only the first gets beyond its         *)
(* #include_once.                                                          *)
BodyReadOnce == \A l \in 1..level : reading[l].body => reading[l].first

(* scf_dq.cpp:307 "ignore the directives in the inactive code": no error   *)
(* is reported for a directive of skipped text.                            *)
SkippedIsIgnored == ~blamed

=============================================================================
