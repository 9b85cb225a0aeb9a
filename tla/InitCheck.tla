----------------------------- MODULE InitCheck -----------------------------
(***************************************************************************)
(* The definite-assignment check of the DQ compiler.  There is no data     *)
(* flow pass: while the statements of a function are parsed, each variable *)
(* carries one flag, `initialized', and each block scope a list,           *)
(* `firstassign', of the variables whose flag was raised there; leaving a  *)
(* branch or a loop body lowers the flags of its list, and an if with an   *)
(* else raises again those that are in the lists of all its branches.      *)
(*                                                                         *)
(* The behaviours are the texts of functions, one parsed construct per     *)
(* step.  frame[0] is the body of the function, frame[depth] the block     *)
(* being read (curblock, curscope).  The ghosts and the fields before,     *)
(* joined and returned of a frame are not in the program: they follow the  *)
(* executions of the text, in which a return leaves the function, so that  *)
(* the flags can be compared with what an execution has really assigned.   *)
(*                                                                         *)
(* Left out: types, names and where a diagnostic is placed; a component or *)
(* an element of a variable counts as the variable, as in the parser.      *)
(***************************************************************************)
EXTENDS Naturals

CONSTANTS Vars,       \* the variables and parameters of a function
          Result,     \* its implicit result variable
          Never,      \* in the set of what is assigned where no execution gets
          MaxDepth    \* bound on the nesting of if and while

ASSUME ResultAssumption == Result \in Vars
ASSUME NeverAssumption == Never \notin Vars
ASSUME MaxDepthAssumption == MaxDepth \in Nat

VARIABLES
  depth,        \* the nesting of the block being read
  frame,        \* the enclosing blocks
  initialized,  \* the variables whose flag is raised
  accepted,     \* no error was reported for this function
  phase,        \* "body", "eof" (no text is left) or "ended"
  sure,         \* assigned by every execution that gets here
  leaked,       \* raised by a step that not every execution takes
  missed,       \* assigned by all branches of an if but those that return
  rejoined      \* an else in brace mode was read into the branch before it

vars == <<depth, frame, initialized, accepted, phase,
          sure, leaked, missed, rejoined>>
ghosts == <<sure, leaked, missed, rejoined>>

(* What is assigned behind a return: anything, as no execution gets there. *)
All == Vars \cup {Never}

(* kind: the statement the block belongs to; brace: the block of an if     *)
(* that ends with a brace.                                                 *)
(* firstassign: the list of the block's scope, as a set.  common: the      *)
(* variables in the lists of all finished branches; else_present: an else  *)
(* was seen.  before: sure at the start of the statement; joined: assigned *)
(* at the end of all finished branches; returned: a return left one of     *)
(* them.                                                                   *)
Frame == [kind : {"func", "while", "if"}, brace : BOOLEAN,
          firstassign : SUBSET Vars, common : SUBSET Vars,
          else_present : BOOLEAN, before : SUBSET All, joined : SUBSET All,
          returned : BOOLEAN]

NewFrame(kind, brace, entry) ==
  [kind |-> kind, brace |-> brace, firstassign |-> {}, common |-> Vars,
   else_present |-> FALSE, before |-> entry, joined |-> All, returned |-> FALSE]

Unused == NewFrame("func", FALSE, {})

top == frame[depth]

(* A function starts with its parameters and the variables that have an    *)
(* initializer; its result is never one of them.                           *)
Start(args) == /\ depth = 0
               /\ frame = [i \in 0..MaxDepth |-> Unused]
               /\ initialized = args
               /\ accepted = TRUE
               /\ phase = "body"
               /\ sure = args
               /\ leaked = {}
               /\ missed = {}
               /\ rejoined = FALSE

Init == \E args \in SUBSET (Vars \ {Result}) : Start(args)

(* An error is reported if b.                                              *)
ErrorIf(b) == accepted' = (accepted /\ ~b)

-----------------------------------------------------------------------------
(* Statements and expressions                                              *)

(* OScope::SetVarInitialized in the scope of the block being read.         *)
AddFirst(f, vs) == [f EXCEPT !.firstassign = @ \cup vs]

(* Mutant: a variable is listed whether its flag is raised or not          *)
ListAll(v) ==
  /\ frame' = [frame EXCEPT ![depth] = AddFirst(top, {v})]
  /\ initialized' = initialized \cup {v}

SetVarInitialized(v) ==
  /\ frame' = [frame EXCEPT ![depth] = AddFirst(top, {v} \ initialized)]
  /\ initialized' = initialized \cup {v}

(* A variable is read: by an expression, by a compound assignment, or as   *)
(* an argument for a ref, refin or refnull parameter.                      *)
ReadVar(v) ==
  /\ phase = "body"
  /\ ErrorIf(v \notin initialized)
  /\ UNCHANGED <<depth, frame, initialized, phase, ghosts>>

(* A plain assignment.                                                     *)
FinalizeStmtAssign(v) ==
  /\ phase = "body"
  /\ SetVarInitialized(v)
  /\ sure' = sure \cup {v}
  /\ UNCHANGED <<depth, accepted, phase, leaked, missed, rejoined>>

(* A return with a value assigns the result; one without returns what the  *)
(* result holds, and the parser does not look whether it is set.           *)
ParseStmtReturn(value) ==
  /\ phase = "body"
  /\ IF value THEN SetVarInitialized(Result) ELSE UNCHANGED <<frame, initialized>>
  /\ sure' = All
  /\ UNCHANGED <<depth, accepted, phase, leaked, missed, rejoined>>

(* Any other statement that is reported, as an if without a condition.     *)
FaultyStatement ==
  /\ phase = "body"
  /\ ErrorIf(TRUE)
  /\ UNCHANGED <<depth, frame, initialized, phase, ghosts>>

(* A call that passes v to a refout parameter.  In the second or the third *)
(* argument of iif the call is made on some executions only; `and' and     *)
(* `or' evaluate both their operands.                                      *)
PassRefout(v, always) ==
  /\ phase = "body"
  /\ SetVarInitialized(v)
  /\ sure' = IF always THEN sure \cup {v} ELSE sure
  /\ leaked' = IF always \/ v \in sure THEN leaked ELSE leaked \cup {v}
  /\ UNCHANGED <<depth, accepted, phase, missed, rejoined>>

-----------------------------------------------------------------------------
(* Blocks                                                                  *)

(* A block opens with a brace or a colon; without either it is an error    *)
(* and it is read as after a colon.                                        *)
Openers == {"brace", "colon", "missing"}

OpenBlock(kind) ==
  /\ phase = "body"
  /\ depth < MaxDepth
  /\ \E opener \in Openers :
       /\ frame' = [frame EXCEPT ![depth + 1] =
            NewFrame(kind, kind = "if" /\ opener = "brace", sure)]
       /\ ErrorIf(opener = "missing")
  /\ depth' = depth + 1
  /\ UNCHANGED <<initialized, phase, ghosts>>

(* The text ends inside the function; every open block is then closed.  An *)
(* error is reported if blank text is left after the last statement; else  *)
(* the loop over the statements ends by itself.                            *)
EndOfText ==
  /\ phase = "body"
  /\ phase' = "eof"
  /\ \E blank \in BOOLEAN : ErrorIf(blank)
  /\ UNCHANGED <<depth, frame, initialized, ghosts>>

(* OScope::RevertFirstAssignments of the block just closed.                *)
(* Mutant: the flags are left as they are                                  *)
NothingReverted == initialized

Reverted == initialized \ top.firstassign

(* ReadStatementBlock restores curblock and curscope when it returns.      *)
(* Mutant: the statement restores them once more                           *)
ParentOfParent(d) == d - 2

ParentBlock(d) == d - 1

CloseBlock == /\ depth' = ParentBlock(depth)
              /\ frame' = [frame EXCEPT ![depth] = Unused]

EndWhile ==
  /\ phase # "ended"
  /\ top.kind = "while"
  /\ initialized' = Reverted
  /\ sure' = top.before
  /\ CloseBlock
  /\ UNCHANGED <<accepted, phase, leaked, missed, rejoined>>

(* OScope::FirstAssigned for the branch just closed and all before it.     *)
InAllBranches == top.common \cap top.firstassign

SureInAll == top.joined \cap sure

(* A return leaves the branch just closed, or left one before it.          *)
Returned == top.returned \/ (Never \in sure /\ Never \notin top.before)

(* OStmtIf::AddBranch: the frame goes on with the next branch.             *)
NextBranch(opener) ==
  [top EXCEPT !.common = InAllBranches, !.joined = SureInAll,
              !.returned = Returned, !.firstassign = {}, !.brace = (opener = "brace")]

(* `elif': the branch is done, the condition of the next one is parsed in  *)
(* the enclosing block.  It reads the variables rd and passes those in out *)
(* to refout parameters.  (Next takes none or all for rd: one error is     *)
(* like several.)                                                          *)
ParseElif(rd, out) ==
  /\ phase = "body"
  /\ top.kind = "if" /\ ~top.brace
  /\ \E opener \in Openers :
       /\ frame' = [frame EXCEPT
            ![depth] = NextBranch(opener),
            ![depth - 1] = AddFirst(frame[depth - 1], out \ Reverted)]
       /\ ErrorIf(opener = "missing" \/ ~(rd \subseteq Reverted))
  /\ initialized' = Reverted \cup out
  /\ leaked' = leaked \cup (out \ top.before)
  /\ sure' = top.before
  /\ UNCHANGED <<depth, phase, missed, rejoined>>

(* The first `else'.                                                       *)
ParseElse ==
  /\ phase = "body"
  /\ top.kind = "if" /\ ~top.brace /\ ~top.else_present
  /\ \E opener \in Openers :
       /\ frame' = [frame EXCEPT ![depth] =
                      [NextBranch(opener) EXCEPT !.else_present = TRUE]]
       /\ ErrorIf(opener = "missing")
  /\ initialized' = Reverted
  /\ sure' = top.before
  /\ UNCHANGED <<depth, phase, leaked, missed, rejoined>>

(* After `}' the words endif, elif and else are consumed, but the loop     *)
(* then reads the next block into the body of the same branch: no branch   *)
(* is added and no condition is parsed, so that a condition is taken for   *)
(* a missing opener.                                                       *)
RejoinBranch ==
  /\ phase = "body"
  /\ top.kind = "if" /\ top.brace
  /\ \E opener \in Openers :
       /\ frame' = [frame EXCEPT ![depth].brace = (opener = "brace")]
       /\ ErrorIf(opener = "missing")
  /\ initialized' = Reverted
  /\ rejoined' = TRUE
  /\ UNCHANGED <<depth, phase, sure, leaked, missed>>

(* The if statement is over: endif, a brace with no such word after it,    *)
(* the end of the text, or, which is an error, an elif without a condition *)
(* or a second else.  What all its branches assigned first is raised       *)
(* again, in no scope's list.  The branches that a return left are asked   *)
(* like the others, so that what only the others assign is missed.         *)
Merged == IF top.else_present THEN InAllBranches ELSE {}

Missed == IF top.else_present /\ Returned /\ Never \notin SureInAll
          THEN SureInAll \ (top.before \cup Merged) ELSE {}

EndIf ==
  /\ phase # "ended"
  /\ top.kind = "if"
  /\ \E faulty \in {b \in BOOLEAN : b => phase = "body" /\ ~top.brace} :
       ErrorIf(faulty)
  /\ initialized' = Reverted \cup Merged
  /\ sure' = IF top.else_present THEN SureInAll ELSE top.before
  /\ leaked' = IF depth > 1 THEN leaked \cup Merged ELSE leaked
  /\ missed' = missed \cup Missed
  /\ CloseBlock
  /\ UNCHANGED <<phase, rejoined>>

(* FinishFunctionDecl: the body is read; the result has to be set.         *)
(* Mutant: the result is not looked at                                     *)
NotChecked == FALSE

ResultNotSet == Result \notin initialized

EndFunc ==
  /\ phase # "ended"
  /\ depth = 0
  /\ phase' = "ended"
  /\ ErrorIf(ResultNotSet)
  /\ UNCHANGED <<depth, frame, initialized, ghosts>>

(* The next function of the module, with variables of its own.             *)
NextFunc == \E args \in SUBSET (Vars \ {Result}) :
  /\ phase = "ended"
  /\ phase' = "body"
  /\ frame' = [i \in 0..MaxDepth |-> Unused]
  /\ initialized' = args
  /\ sure' = args
  /\ leaked' = {}
  /\ missed' = {}
  /\ rejoined' = FALSE
  /\ accepted' = TRUE
  /\ depth' = 0

Statement == \E v \in Vars : \/ ReadVar(v)
                             \/ FinalizeStmtAssign(v)
                             \/ \E always \in BOOLEAN : PassRefout(v, always)

Next == \/ Statement
        \/ \E value \in BOOLEAN : ParseStmtReturn(value)
        \/ FaultyStatement
        \/ \E kind \in {"while", "if"} : OpenBlock(kind)
        \/ EndOfText
        \/ EndWhile
        \/ \E rd \in {{}, Vars}, out \in SUBSET Vars : ParseElif(rd, out)
        \/ ParseElse
        \/ RejoinBranch
        \/ EndIf
        \/ EndFunc
        \/ NextFunc

Spec == Init /\ [][Next]_vars

-----------------------------------------------------------------------------
(* Properties                                                              *)

(* Types, and the shape of the stack: the function's body is at its bottom *)
(* and nowhere else among the open blocks.                                 *)
TypeOK == /\ depth \in 0..MaxDepth
          /\ frame \in [0..MaxDepth -> Frame]
          /\ \A i \in 0..depth : frame[i].kind = "func" <=> i = 0
          /\ initialized \subseteq Vars
          /\ accepted \in BOOLEAN
          /\ phase \in {"body", "eof", "ended"}
          /\ sure \subseteq All
          /\ leaked \subseteq Vars
          /\ missed \subseteq Vars
          /\ rejoined \in BOOLEAN

(* Where an execution can get, a variable that every execution which gets  *)
(* there has assigned has its flag raised, so that a read of it is not     *)
(* reported, after any nesting of loops, ifs and returns.  A correct       *)
(* program is refused in these cases only: an else in brace mode; a read   *)
(* that no execution gets to, as one right behind a return; and a variable *)
(* that the branches of an if with an else assign which go on, but not one *)
(* that returns, which the merge asks as well (dqc_parser.cpp:2175).       *)
NoFalseAlarm == ~rejoined /\ Never \notin sure => sure \subseteq initialized \cup missed

(* The flags are raised for unassigned variables in two cases only: an if  *)
(* with an else inside another statement raised them, where the enclosing  *)
(* scope has no record of it, or a refout argument in an elif condition or *)
(* in an arm of iif did.  All that a branch or a loop assigned is lowered. *)
LeaksAreKnown == initialized \subseteq sure \cup leaked

(* A function the parser accepts does not fall off its end without a       *)
(* result, those two cases apart.  (A return without a value in the middle *)
(* of it hands out what the result holds, and nothing looks at the flag.)  *)
ResultIsSet == phase = "ended" /\ accepted => Result \in sure \cup leaked

(* symbols.h:463 "reading of uninitialized results to an error": in a      *)
(* function without a reported error, a variable whose reads are allowed   *)
(* has been assigned.                                                      *)
ReadsAreSafe == accepted => initialized \subseteq sure

=============================================================================
