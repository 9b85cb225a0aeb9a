-------------------------------- MODULE Body --------------------------------
(***************************************************************************)
(* The code generated for the body of a function: basic blocks and their   *)
(* terminators for return, while, if, elif, else and iif.                  *)
(*                                                                         *)
(* A behaviour has three stages.  The text of a body is read; the code is  *)
(* generated for it, a construct per step; then the code and the text are  *)
(* executed side by side, conditions having any value.  The execution of   *)
(* the text is not in the program: it says what the text means.            *)
(*                                                                         *)
(* A construct of the text has an op, the flag iif (its expression has an  *)
(* iif in it), next, the next branch or end of its statement, and end, the *)
(* end of the statement.  An instruction has an op ("do", "choose" for the *)
(* condition of an iif, "cond", "br" or "ret"), the construct it is for    *)
(* and the blocks it goes to.                                              *)
(*                                                                         *)
(* Left out: texts with an error, for which nothing is generated; blocks   *)
(* in braces; what a statement or an expression does.                      *)
(***************************************************************************)
EXTENDS Naturals, Sequences, SequencesExt

CONSTANTS MaxText,  \* bound on the constructs of a body
          MaxIifs   \* bound on those with an iif

ASSUME MaxTextAssumption == MaxText \in Nat

VARIABLES
  stage,    \* "text", "code", "run" or "done"
  body,     \* the body
  open,     \* the statements that are still open
  at,       \* the construct that is generated next
  skipped,  \* the nesting of statements that are passed over
  code,     \* the blocks and the insert point
  frames,   \* the blocks of the statements being generated
  flow,     \* the execution of the body: a construct, and how it was reached
  pc        \* the execution of the code: a block and an instruction

bodyVars == <<stage, body, open, at, skipped, code, frames, flow, pc>>

Entry == [blocks |-> <<<<>>>>, insert |-> 1]

BodyInit == /\ stage = "text" /\ body = <<>> /\ open = <<>>
            /\ at = 1 /\ skipped = 0 /\ code = Entry /\ frames = <<>>
            /\ flow = [at |-> 1, how |-> "flow"] /\ pc = [block |-> 1, instr |-> 1]

ReadingBody == stage = "text" /\ UNCHANGED <<stage, at, skipped, code, frames, flow, pc>>
Generating  == stage = "code" /\ UNCHANGED <<body, open, flow, pc>>
Running     == stage = "run" /\ UNCHANGED <<body, open, at, skipped, code, frames>>

-----------------------------------------------------------------------------
(* The body: ReadStatementBlock, ParseStmtReturn, ParseStmtWhile,          *)
(* ParseStmtIf                                                             *)

here == Len(body) + 1

Construct(op, iif) == [op |-> op, iif |-> iif, next |-> 0, end |-> 0]

HasRoom(iif) == /\ Len(body) + Len(open) < MaxText
                /\ iif => Len(SelectSeq(body, LAMBDA c : c.iif)) < MaxIifs

ReadSimple(op, iif) ==
  /\ ReadingBody /\ HasRoom(iif)
  /\ body' = Append(body, Construct(op, iif))
  /\ UNCHANGED open

OpenStatement(op, iif) ==
  /\ ReadingBody /\ HasRoom(iif) /\ Len(body) + Len(open) + 1 < MaxText
  /\ body' = Append(body, Construct(op, iif))
  /\ open' = Append(open, [op |-> op, parts |-> <<here>>, else_present |-> FALSE])

(* A second else is an error; an elif after an else is not.                *)
ReadBranch(op, iif) ==
  LET s == Last(open)
  IN  /\ ReadingBody /\ HasRoom(iif) /\ open # <<>>
      /\ s.op = "if"
      /\ op = "else" => ~s.else_present /\ ~iif
      /\ body' = Append([body EXCEPT ![Last(s.parts)].next = here], Construct(op, iif))
      /\ open' = [open EXCEPT ![Len(open)] =
           [s EXCEPT !.parts = Append(@, here), !.else_present = @ \/ (op = "else")]]

CloseStatement ==
  LET s    == Last(open)
      Linked(i) == [body[i] EXCEPT !.next = IF @ = 0 THEN here ELSE @, !.end = here]
      last == [Construct("end", FALSE) EXCEPT !.next = IF s.op = "while" THEN s.parts[1] ELSE here + 1]
  IN  /\ ReadingBody /\ open # <<>>
      /\ body' = Append([i \in 1..Len(body) |-> IF i \in ToSet(s.parts) THEN Linked(i) ELSE body[i]], last)
      /\ open' = Front(open)

EndBodyText ==
  /\ stage = "text" /\ open = <<>>
  /\ stage' = "code"
  /\ UNCHANGED <<body, open, at, skipped, code, frames, flow, pc>>

-----------------------------------------------------------------------------
(* Generate                                                                *)

Instr(op, to) == [op |-> op, at |-> at, to |-> to]

Terminators == {"cond", "choose", "br", "ret"}

Emit(g, instr) == [g EXCEPT !.blocks[g.insert] = Append(@, instr)]
NewBlocks(g, n) == [g EXCEPT !.blocks = @ \o [i \in 1..n |-> <<>>]]
PointTo(g, b)  == [g EXCEPT !.insert = b]

Terminated(g) == LET b == g.blocks[g.insert] IN b # <<>> /\ Last(b).op \in Terminators

BranchTo(g, b) == Emit(g, Instr("br", <<b>>))

(* Mutant: without looking at what is there                                *)
BranchAlways(g, b) == BranchTo(g, b)

BranchUnlessTerminated(g, b) == IF Terminated(g) THEN g ELSE BranchTo(g, b)

(* OIifExpr: two blocks for its arms and one after them.                   *)
GenerateExpr(g) ==
  LET n == Len(g.blocks)
      c == Emit(NewBlocks(g, 3), Instr("choose", <<n + 1, n + 2>>))
      t == BranchTo(PointTo(c, n + 1), n + 3)
      f == BranchTo(PointTo(t, n + 2), n + 3)
  IN  IF body[at].iif THEN PointTo(f, n + 3) ELSE g

Upcoming(op) == /\ Generating /\ skipped = 0
                /\ at <= Len(body) /\ body[at].op = op
                /\ at' = at + 1
                /\ UNCHANGED <<stage, skipped>>

(* OStmtBlock: the statements after a terminator are not generated.        *)
Live == ~Terminated(code)

GenerateSimple(op, instr) ==
  /\ Upcoming(op) /\ Live
  /\ code' = Emit(GenerateExpr(code), Instr(instr, <<>>))
  /\ UNCHANGED frames

Openers == {"while", "if"}

SkipDead ==
  /\ Generating /\ at <= Len(body)
  /\ LET op == body[at].op IN
     IF skipped > 0 THEN skipped' = CASE op \in Openers -> skipped + 1
                                       [] op = "end"     -> skipped - 1
                                       [] OTHER          -> skipped
     ELSE /\ ~Live /\ op \in Openers \cup {"do", "return"}
          /\ skipped' = IF op \in Openers THEN 1 ELSE 0
  /\ at' = at + 1
  /\ UNCHANGED <<stage, code, frames>>

(* OStmtWhile: the condition is tested in a block of its own.              *)
(* Mutant: the loop goes back behind the test                              *)
LoopBackToBody(n) == n + 2

LoopBack(n) == n + 1

GenerateWhile ==
  /\ Upcoming("while") /\ Live
  /\ LET n    == Len(code.blocks)
         cond == PointTo(BranchTo(NewBlocks(code, 3), n + 1), n + 1)
         test == Emit(GenerateExpr(cond), Instr("cond", <<n + 2, n + 3>>))
     IN  /\ code' = PointTo(test, n + 2)
         /\ frames' = Append(frames, [op |-> "while", back |-> LoopBack(n), after |-> n + 3])

EndWhileCode ==
  /\ Upcoming("end") /\ frames # <<>> /\ Last(frames).op = "while"
  /\ code' = PointTo(BranchUnlessTerminated(code, Last(frames).back), Last(frames).after)
  /\ frames' = Front(frames)

(* OStmtIf: the condition of a branch; the last one fails to the end.      *)
Tested(g, merge) ==
  LET e == GenerateExpr(g)
      n == Len(e.blocks)
      more == body[body[at].next].op # "end"
      b == NewBlocks(e, IF more THEN 2 ELSE 1)
      otherwise == IF more THEN n + 2 ELSE merge
  IN  [code |-> PointTo(Emit(b, Instr("cond", <<n + 1, otherwise>>)), n + 1),
       frame |-> [op |-> "if", merge |-> merge, otherwise |-> otherwise]]

(* A branch is over: go on where its condition fails; after an else, which *)
(* has none, go on where it ended.                                         *)
BranchDone ==
  LET f == Last(frames)
      g == BranchUnlessTerminated(code, f.merge)
  IN  IF f.otherwise \in {0, f.merge} THEN g ELSE PointTo(g, f.otherwise)

InIf == frames # <<>> /\ Last(frames).op = "if"

GenerateIf ==
  /\ Upcoming("if") /\ Live
  /\ LET t == Tested(NewBlocks(code, 1), Len(code.blocks) + 1)
     IN  code' = t.code /\ frames' = Append(frames, t.frame)

GenerateElif ==
  /\ Upcoming("elif") /\ InIf
  /\ LET t == Tested(BranchDone, Last(frames).merge)
     IN  code' = t.code /\ frames' = Append(Front(frames), t.frame)

GenerateElse ==
  /\ Upcoming("else") /\ InIf
  /\ code' = BranchDone
  /\ frames' = [frames EXCEPT ![Len(frames)].otherwise = 0]

EndIfCode ==
  /\ Upcoming("end") /\ InIf
  /\ code' = PointTo(BranchDone, Last(frames).merge)
  /\ frames' = Front(frames)

(* GenerateFuncBody: the implicit return.                                  *)
ImplicitReturn(g) == IF Terminated(g) THEN g ELSE Emit(g, Instr("ret", <<>>))

EndBodyCode ==
  /\ Generating /\ at = Len(body) + 1
  /\ code' = ImplicitReturn(code)
  /\ stage' = "run"
  /\ UNCHANGED <<at, skipped, frames>>

-----------------------------------------------------------------------------
(* The body and the code side by side                                      *)

To(i)   == [at |-> i, how |-> "flow"]
Test(i) == [at |-> i, how |-> "test"]

(* From the end of a branch to the end of its if, from the end of a loop   *)
(* to its condition.                                                       *)
TextJumps == /\ flow.at <= Len(body) /\ flow.how = "flow"
             /\ body[flow.at].op \in {"elif", "else", "end"}

FollowText == /\ Running /\ TextJumps
              /\ flow' = To(LET c == body[flow.at] IN IF c.op = "end" THEN c.next ELSE c.end + 1)
              /\ UNCHANGED <<stage, pc>>

block == code.blocks[pc.block]
FellOff == pc.instr > Len(block)
instruction == block[pc.instr]
CodeJumps == ~FellOff /\ instruction.op = "br"

Goto(b) == [block |-> b, instr |-> 1]

FollowCode == /\ Running /\ ~TextJumps /\ CodeJumps
              /\ pc' = Goto(instruction.to[1])
              /\ UNCHANGED <<stage, flow>>

(* What the body does next: an iif of a construct is chosen first.         *)
TextEvent ==
  IF flow.at > Len(body) THEN [op |-> "ret", at |-> flow.at]
  ELSE LET c == body[flow.at]
       IN  [op |-> IF c.iif /\ flow.how # "chosen" THEN "choose"
                   ELSE CASE c.op = "do"     -> "do"
                          [] c.op = "return" -> "ret"
                          [] OTHER           -> "cond",
            at |-> flow.at]

CodeEvent == IF FellOff THEN [op |-> "none", at |-> 0]
                        ELSE [op |-> instruction.op, at |-> instruction.at]

(* Where a condition that does not hold leads: the next condition, or into *)
(* the else, or behind the statement.                                      *)
Otherwise(i) == IF body[body[i].next].op = "elif" THEN Test(body[i].next) ELSE To(body[i].next + 1)

Execute ==
  /\ Running /\ ~TextJumps /\ ~CodeJumps /\ TextEvent = CodeEvent
  /\ CASE CodeEvent.op = "ret" -> stage' = "done" /\ UNCHANGED <<flow, pc>>
       [] CodeEvent.op = "do"  -> /\ flow' = To(flow.at + 1)
                                  /\ pc' = [pc EXCEPT !.instr = @ + 1]
                                  /\ UNCHANGED stage
       [] CodeEvent.op = "choose" -> /\ flow' = [flow EXCEPT !.how = "chosen"]
                                     /\ pc' \in {Goto(b) : b \in ToSet(instruction.to)}
                                     /\ UNCHANGED stage
       [] CodeEvent.op = "cond" -> /\ \E holds \in BOOLEAN :
                                        /\ flow' = IF holds THEN To(flow.at + 1) ELSE Otherwise(flow.at)
                                        /\ pc' = Goto(instruction.to[IF holds THEN 1 ELSE 2])
                                   /\ UNCHANGED stage

BodyNext == \/ \E iif \in BOOLEAN :
                 \/ \E op \in {"do", "return"} : ReadSimple(op, iif)
                 \/ \E op \in Openers : OpenStatement(op, iif)
                 \/ \E op \in {"elif", "else"} : ReadBranch(op, iif)
            \/ CloseStatement
            \/ EndBodyText
            \/ GenerateSimple("do", "do")
            \/ GenerateSimple("return", "ret")
            \/ SkipDead
            \/ GenerateWhile
            \/ EndWhileCode
            \/ GenerateIf
            \/ GenerateElif
            \/ GenerateElse
            \/ EndIfCode
            \/ EndBodyCode
            \/ FollowText
            \/ FollowCode
            \/ Execute

BodySpec == BodyInit /\ [][BodyNext]_bodyVars

-----------------------------------------------------------------------------
(* Properties                                                              *)

BodyTypeOK ==
  /\ stage \in {"text", "code", "run", "done"}
  /\ Len(body) <= MaxText
  /\ at \in 1..(Len(body) + 1) /\ skipped \in 0..MaxText
  /\ code.insert \in 1..Len(code.blocks)
  /\ pc.block \in 1..Len(code.blocks)
  /\ stage # "text" => open = <<>>
  /\ stage \in {"run", "done"} => frames = <<>> /\ skipped = 0

(* The generated code does what the body says: for every nesting of loops, *)
(* branches, returns and iifs and every outcome of the conditions it comes *)
(* to the same statements, conditions and returns in the same order, and   *)
(* never to a block with nothing in it.                                    *)
RunsAsWritten == stage = "run" /\ ~TextJumps /\ ~CodeJumps => CodeEvent = TextEvent

(* Every block, also one that nothing leads to, ends with a terminator and *)
(* has no other, which LLVM needs and the ignored verifyFunction would     *)
(* tell: but for an elif that follows an else, whose condition is put      *)
(* behind the end of the else.                                             *)
ElifAfterElse == \E i, j \in 1..Len(body) : /\ i < j /\ body[i].end = body[j].end
                                            /\ body[i].op = "else" /\ body[j].op = "elif"

OneTerminator ==
  stage \in {"run", "done"} /\ ~ElifAfterElse =>
    \A b \in ToSet(code.blocks) :
      /\ b # <<>>
      /\ \A i \in 1..Len(b) : b[i].op \in Terminators <=> i = Len(b)
=============================================================================
