-------------------------- MODULE InitCheckProofs --------------------------
(***************************************************************************)
(* The definite-assignment check for any set of variables and any nesting. *)
(* The two halves of the invariant are inductive each on its own: Precise  *)
(* bounds the flags from below, Sound from above.                          *)
(***************************************************************************)
EXTENDS InitCheck, TLAPS

Open == 0..depth

(* What the statement of block i may count on once the block is closed: it *)
(* was assigned before the statement, or, as long as no branch returned,   *)
(* by every finished branch while not in the list of every one of them, so *)
(* that no merge restores it.  Behind a return nothing is counted on.      *)
Joined(i) == IF frame[i].returned THEN {}
             ELSE (frame[i].joined \ frame[i].common) \ {Never}
Keep(i) == IF Never \in frame[i].before THEN {} ELSE frame[i].before \cup Joined(i)

Flagged == initialized \cup missed

Precise ==
  ~rejoined =>
    /\ Never \notin sure => sure \subseteq Flagged
    /\ \A i \in Open : Keep(i) \subseteq Flagged
    /\ \A i, j \in Open : i <= j => Keep(i) \cap frame[j].firstassign \subseteq missed

(* What an open statement found assigned stays so inside it.               *)
Grows == /\ \A i \in Open : /\ frame[i].before \subseteq sure
                            /\ frame[i].before \subseteq frame[i].joined
         /\ \A i, j \in Open : i <= j => frame[i].before \subseteq frame[j].before

(* A listed variable was assigned, in the block or before the inner ones.  *)
Listed == /\ \A i \in Open : frame[i].firstassign \subseteq sure \cup leaked
          /\ \A i, j \in Open :
               i < j => frame[i].firstassign \subseteq frame[j].before \cup leaked
          /\ \A i \in Open : frame[i].common \subseteq frame[i].joined \cup leaked

(* A raised flag was up before block i, or an open block from i on has it  *)
(* in its list: closing them lowers it.                                    *)
Lowered == \A i \in Open : i > 0 =>
             \A v \in initialized :
               \/ v \in frame[i].before \cup leaked
               \/ \E j \in Open : i <= j /\ v \in frame[j].firstassign

Sound == Grows /\ Listed /\ Lowered /\ LeaksAreKnown

-----------------------------------------------------------------------------
(* Types                                                                   *)

(* A block just opened, or unused, is a frame.                             *)
LEMMA FrameTypes ==
  /\ Unused \in Frame
  /\ \A kind \in {"func", "while", "if"}, brace \in BOOLEAN, entry \in SUBSET All :
       NewFrame(kind, brace, entry) \in Frame
BY DEF Frame, NewFrame, Unused, All

(* The next branch of an if is a frame of the same kind.                   *)
LEMMA BranchTypes ==
  ASSUME top \in Frame, sure \subseteq All
  PROVE  \A opener \in Openers : /\ NextBranch(opener) \in Frame
                                 /\ NextBranch(opener).kind = top.kind
<1>1. /\ InAllBranches \subseteq Vars /\ SureInAll \subseteq All
      /\ Returned \in BOOLEAN
  BY DEF InAllBranches, SureInAll, Returned, Frame
<1>2. \A opener \in Openers : (opener = "brace") \in BOOLEAN
  OBVIOUS
<1>3. QED  BY <1>1, <1>2 DEF NextBranch, Frame

(* The initial states of a function are well typed.                        *)
LEMMA InitTypes == Init => TypeOK
<1>1. SUFFICES ASSUME NEW args \in SUBSET (Vars \ {Result}), Start(args)
               PROVE  TypeOK
  BY DEF Init
<1>2. frame = [i \in 0..MaxDepth |-> Unused] /\ depth = 0
  BY <1>1 DEF Start
<1>3. frame \in [0..MaxDepth -> Frame]
  BY <1>2, FrameTypes
<1>4. \A i \in 0..depth : frame[i].kind = "func" <=> i = 0
  <2>1. Unused.kind = "func"
    BY DEF Unused, NewFrame
  <2>2. QED  BY <1>2, <2>1, MaxDepthAssumption
<1>5. /\ depth \in 0..MaxDepth /\ initialized \subseteq Vars /\ sure \subseteq Vars
      /\ accepted = TRUE /\ rejoined = FALSE /\ phase = "body" /\ leaked = {}
      /\ missed = {}
  BY <1>1, MaxDepthAssumption DEF Start
<1>6. QED  BY <1>3, <1>4, <1>5 DEF TypeOK, All

(* Every step of the parser keeps the types and the shape of the stack.    *)
LEMMA StepTypes == TypeOK /\ [Next]_vars => TypeOK'
<1>1. SUFFICES ASSUME TypeOK, [Next]_vars PROVE TypeOK'
  OBVIOUS
<1>a. /\ depth \in Nat /\ depth <= MaxDepth /\ MaxDepth \in Nat
      /\ frame \in [0..MaxDepth -> Frame] /\ top \in Frame
      /\ initialized \subseteq Vars /\ sure \subseteq All /\ leaked \subseteq Vars
      /\ missed \subseteq Vars /\ Vars \subseteq All
      /\ accepted \in BOOLEAN /\ rejoined \in BOOLEAN
      /\ phase \in {"body", "eof", "ended"}
      /\ \A i \in 0..depth : frame[i].kind = "func" <=> i = 0
  BY <1>1, MaxDepthAssumption DEF TypeOK, top, All
<1>b. /\ Reverted \subseteq Vars /\ InAllBranches \subseteq Vars
      /\ SureInAll \subseteq All /\ Merged \subseteq Vars
      /\ top.before \subseteq All /\ Missed \subseteq Vars
  BY <1>a DEF Reverted, InAllBranches, SureInAll, Merged, Missed, Frame, All
<1>c. \A b : ErrorIf(b) => accepted' \in BOOLEAN
  BY DEF ErrorIf
<1>d. ASSUME CloseBlock, depth # 0
      PROVE  /\ depth' \in 0..MaxDepth
             /\ frame' \in [0..MaxDepth -> Frame]
             /\ \A i \in 0..depth' : frame'[i].kind = "func" <=> i = 0
  <2>1. depth' = depth - 1 /\ frame' = [frame EXCEPT ![depth] = Unused]
    BY <1>d DEF CloseBlock, ParentBlock
  <2>2. \A i \in 0..depth' : i \in 0..depth /\ frame'[i] = frame[i]
    BY <2>1, <1>a
  <2>3. QED  BY <2>1, <2>2, <1>a, <1>d, FrameTypes
<1>2. ASSUME NEW v \in Vars, ReadVar(v) PROVE TypeOK'
  BY <1>2, <1>a, <1>c DEF ReadVar, TypeOK, ghosts
<1>e. ASSUME NEW v \in Vars, SetVarInitialized(v), UNCHANGED depth
      PROVE  /\ frame' \in [0..MaxDepth -> Frame] /\ initialized' \subseteq Vars
             /\ \A i \in 0..depth' : frame'[i].kind = "func" <=> i = 0
  <2>1. /\ AddFirst(top, {v} \ initialized) \in Frame
        /\ AddFirst(top, {v} \ initialized).kind = top.kind
    BY <1>a DEF Frame, AddFirst
  <2>2. frame' = [frame EXCEPT ![depth] = AddFirst(top, {v} \ initialized)]
    BY <1>e DEF SetVarInitialized
  <2>a. frame' \in [0..MaxDepth -> Frame]
    BY <2>1, <2>2, <1>a
  <2>3. \A i \in 0..depth : frame'[i].kind = frame[i].kind
    <3>1. \A i \in 0..depth : i # depth => frame'[i] = frame[i]
      BY <2>2, <1>a
    <3>2. frame'[depth] = AddFirst(top, {v} \ initialized)
      BY <2>2, <1>a
    <3>3. QED  BY <3>1, <3>2, <2>1 DEF top
  <2>4. depth' = depth /\ initialized' \subseteq Vars
    BY <1>e, <1>a DEF SetVarInitialized
  <2>5. QED  BY <2>a, <2>3, <2>4, <1>a
<1>3. ASSUME NEW v \in Vars, FinalizeStmtAssign(v) PROVE TypeOK'
  BY <1>3, <1>a, <1>e DEF FinalizeStmtAssign, TypeOK
<1>f. ASSUME NEW value \in BOOLEAN, ParseStmtReturn(value) PROVE TypeOK'
  <2>1. CASE value
    BY <1>f, <1>a, <1>e, <2>1, ResultAssumption DEF ParseStmtReturn, TypeOK
  <2>2. CASE ~value
    BY <1>f, <1>a, <2>2 DEF ParseStmtReturn, TypeOK
  <2>3. QED  BY <2>1, <2>2
<1>g. ASSUME FaultyStatement PROVE TypeOK'
  <2>1. accepted' \in BOOLEAN
    BY <1>g, <1>c DEF FaultyStatement
  <2>2. QED  BY <1>g, <1>a, <2>1 DEF FaultyStatement, TypeOK, ghosts
<1>4. ASSUME NEW v \in Vars, NEW always \in BOOLEAN, PassRefout(v, always)
      PROVE  TypeOK'
  BY <1>4, <1>a, <1>e DEF PassRefout, TypeOK
<1>5. ASSUME NEW kind \in {"while", "if"}, OpenBlock(kind) PROVE TypeOK'
  <2>1. PICK opener \in Openers :
          frame' = [frame EXCEPT ![depth + 1] =
                      NewFrame(kind, kind = "if" /\ opener = "brace", sure)]
    BY <1>5 DEF OpenBlock
  <2>2. NewFrame(kind, kind = "if" /\ opener = "brace", sure) \in Frame
    BY <1>a, FrameTypes
  <2>3. depth' = depth + 1 /\ depth' \in 0..MaxDepth
    BY <1>5, <1>a DEF OpenBlock
  <2>4. frame' \in [0..MaxDepth -> Frame]
    BY <2>1, <2>2, <1>a
  <2>5. \A i \in 0..depth' : frame'[i].kind = "func" <=> i = 0
    BY <2>1, <2>3, <1>a DEF NewFrame
  <2>6. QED  BY <1>5, <1>a, <1>c, <2>3, <2>4, <2>5 DEF OpenBlock, TypeOK, ghosts
<1>6. ASSUME EndOfText PROVE TypeOK'
  <2>1. accepted' \in BOOLEAN
    BY <1>6, <1>c DEF EndOfText
  <2>2. QED  BY <1>6, <1>a, <2>1 DEF EndOfText, TypeOK, ghosts
<1>7. ASSUME EndWhile PROVE TypeOK'
  BY <1>7, <1>a, <1>b, <1>d DEF EndWhile, TypeOK, top
<1>8. ASSUME NEW rd \in SUBSET Vars, NEW out \in SUBSET Vars, ParseElif(rd, out)
      PROVE  TypeOK'
  <2>1. PICK opener \in Openers :
          frame' = [frame EXCEPT
            ![depth] = NextBranch(opener),
            ![depth - 1] = AddFirst(frame[depth - 1], out \ Reverted)]
    BY <1>8 DEF ParseElif
  <2>2. depth - 1 \in 0..MaxDepth /\ depth # 0 /\ frame[depth - 1] \in Frame
    BY <1>8, <1>a DEF ParseElif, top
  <2>3. AddFirst(frame[depth - 1], out \ Reverted) \in Frame
    BY <2>2 DEF Frame, AddFirst
  <2>4. AddFirst(frame[depth - 1], out \ Reverted).kind = frame[depth - 1].kind
    BY <2>2 DEF Frame, AddFirst
  <2>6. frame' \in [0..MaxDepth -> Frame]
    BY <2>1, <2>2, <2>3, <1>a, BranchTypes
  <2>7. \A i \in 0..depth : frame'[i].kind = frame[i].kind
    BY <2>1, <2>2, <2>4, <1>a, BranchTypes DEF top
  <2>8. depth' = depth
    BY <1>8 DEF ParseElif
  <2>9. \A i \in 0..depth' : frame'[i].kind = "func" <=> i = 0
    BY <2>7, <2>8, <1>a
  <2>10. accepted' \in BOOLEAN
    BY <1>8, <1>c DEF ParseElif
  <2>11. /\ initialized' \subseteq Vars /\ sure' \subseteq All /\ leaked' \subseteq Vars
         /\ missed' = missed /\ phase' = phase /\ rejoined' = rejoined
    BY <1>8, <1>a, <1>b DEF ParseElif
  <2>12. QED  BY <1>a, <2>6, <2>8, <2>9, <2>10, <2>11 DEF TypeOK
<1>9. ASSUME ParseElse PROVE TypeOK'
  <2>1. PICK opener \in Openers :
          frame' = [frame EXCEPT ![depth] =
                      [NextBranch(opener) EXCEPT !.else_present = TRUE]]
    BY <1>9 DEF ParseElse
  <2>2. [NextBranch(opener) EXCEPT !.else_present = TRUE] \in Frame
    BY <1>a, BranchTypes DEF Frame
  <2>3. [NextBranch(opener) EXCEPT !.else_present = TRUE].kind = top.kind
    BY <1>a, BranchTypes DEF Frame
  <2>5. frame' \in [0..MaxDepth -> Frame]
    BY <2>1, <2>2, <1>a
  <2>6. \A i \in 0..depth : frame'[i].kind = frame[i].kind
    BY <2>1, <2>3, <1>a DEF top
  <2>7. QED  BY <1>9, <1>a, <1>b, <1>c, <2>5, <2>6 DEF ParseElse, TypeOK
<1>10. ASSUME RejoinBranch PROVE TypeOK'
  <2>1. PICK opener \in Openers :
          frame' = [frame EXCEPT ![depth].brace = (opener = "brace")]
    BY <1>10 DEF RejoinBranch
  <2>2. DEFINE f == [frame[depth] EXCEPT !.brace = (opener = "brace")]
  <2>3. f \in Frame /\ f.kind = frame[depth].kind
    BY <1>a DEF Frame, top
  <2>5. frame' = [frame EXCEPT ![depth] = f]
    BY <2>1
  <2>6. /\ frame' \in [0..MaxDepth -> Frame]
        /\ \A i \in 0..depth : frame'[i].kind = frame[i].kind
    <3> HIDE DEF f
    <3>1. QED  BY <2>3, <2>5, <1>a
  <2>7. QED  BY <1>10, <1>a, <1>b, <1>c, <2>6 DEF RejoinBranch, TypeOK
<1>11. ASSUME EndIf PROVE TypeOK'
  <2>1. depth # 0 /\ CloseBlock
    BY <1>11, <1>a DEF EndIf, top
  <2>2. accepted' \in BOOLEAN
    BY <1>11, <1>c DEF EndIf
  <2>3. sure' \subseteq All /\ leaked' \subseteq Vars /\ missed' \subseteq Vars
    BY <1>11, <1>a, <1>b DEF EndIf
  <2>4. QED  BY <1>11, <1>a, <1>b, <1>d, <2>1, <2>2, <2>3 DEF EndIf, TypeOK
<1>12. ASSUME EndFunc PROVE TypeOK'
  BY <1>12, <1>a, <1>c DEF EndFunc, TypeOK, ghosts
<1>13. ASSUME NextFunc PROVE TypeOK'
  <2>1. /\ frame' = [i \in 0..MaxDepth |-> Unused] /\ depth' = 0
        /\ Unused.kind = "func"
    BY <1>13 DEF NextFunc, Unused, NewFrame
  <2>2. frame' \in [0..MaxDepth -> Frame]
    BY <2>1, FrameTypes
  <2>3. \A i \in 0..depth' : frame'[i].kind = "func" <=> i = 0
    BY <2>1, <1>a
  <2>4. /\ depth' \in 0..MaxDepth /\ initialized' \subseteq Vars /\ sure' \subseteq All
        /\ accepted' = TRUE /\ rejoined' = FALSE /\ phase' = "body" /\ leaked' = {}
        /\ missed' = {}
    BY <1>13, <1>a DEF NextFunc
  <2>5. QED  BY <2>2, <2>3, <2>4 DEF TypeOK
<1>14. ASSUME UNCHANGED vars PROVE TypeOK'
  BY <1>14, <1>a DEF vars, TypeOK
<1>15. QED
  BY <1>1, <1>2, <1>3, <1>f, <1>g, <1>4, <1>5, <1>6, <1>7, <1>8, <1>9, <1>10, <1>11, <1>12,
     <1>13, <1>14 DEF Next, Statement

(* Types, for every set of variables and every nesting.                    *)
THEOREM TypeCorrect == Spec => []TypeOK
<1>1. QED  BY InitTypes, StepTypes, PTL DEF Spec

-----------------------------------------------------------------------------
(* What each operation does to the open blocks, field by field.            *)

(* A function starts with one open block, that lists nothing.              *)
LEMMA StartFrames ==
  ASSUME depth' = 0, frame' = [i \in 0..MaxDepth |-> Unused]
  PROVE  /\ \A i \in Open' : i = 0
         /\ frame'[0].firstassign = {} /\ frame'[0].before = {}
         /\ frame'[0].common = Vars /\ frame'[0].joined = All
<1>1. \A i \in Open' : i = 0
  BY DEF Open
<1>2. frame'[0] = Unused
  BY MaxDepthAssumption
<1>3. /\ Unused.firstassign = {} /\ Unused.before = {}
      /\ Unused.common = Vars /\ Unused.joined = All
  BY DEF Unused, NewFrame
<1>4. QED  BY <1>1, <1>2, <1>3

(* SetVarInitialized changes the list of the innermost block.              *)
LEMMA AddFirstFrames ==
  ASSUME TypeOK, NEW v \in Vars, SetVarInitialized(v), depth' = depth
  PROVE  /\ depth \in Open /\ Open' = Open
         /\ \A i \in Open : /\ frame'[i].before = frame[i].before
                            /\ frame'[i].common = frame[i].common
                            /\ frame'[i].joined = frame[i].joined
                            /\ frame'[i].returned = frame[i].returned
                            /\ i # depth => frame'[i].firstassign = frame[i].firstassign
         /\ frame'[depth].firstassign = frame[depth].firstassign \cup ({v} \ initialized)
<1>1. /\ depth \in Open /\ Open' = Open /\ Open \subseteq 0..MaxDepth
      /\ frame \in [0..MaxDepth -> Frame] /\ top \in Frame
  BY MaxDepthAssumption DEF TypeOK, Open, top
<1>2. \A i \in Open : i # depth => frame'[i] = frame[i]
  BY <1>1 DEF SetVarInitialized
<1>3. frame'[depth] = AddFirst(top, {v} \ initialized)
  BY <1>1 DEF SetVarInitialized
<1>4. /\ frame'[depth].before = top.before /\ frame'[depth].common = top.common
      /\ frame'[depth].joined = top.joined /\ frame'[depth].returned = top.returned
      /\ frame'[depth].firstassign = top.firstassign \cup ({v} \ initialized)
  BY <1>1, <1>3 DEF AddFirst, Frame
<1>5. QED  BY <1>1, <1>2, <1>4 DEF top

(* A new block lists nothing and starts with what is assigned.             *)
LEMMA OpenFrames ==
  ASSUME TypeOK, NEW kind \in {"while", "if"}, OpenBlock(kind)
  PROVE  /\ depth \in Nat /\ depth' = depth + 1
         /\ \A i \in Open' : i \in Open \/ i = depth'
         /\ \A i \in Open : i < depth' /\ i \in Nat /\ frame'[i] = frame[i]
         /\ frame'[depth'].firstassign = {} /\ frame'[depth'].before = sure
         /\ frame'[depth'].common = Vars /\ frame'[depth'].joined = All
         /\ ~frame'[depth'].returned
<1>1. /\ depth \in Nat /\ depth' = depth + 1 /\ depth' \in 0..MaxDepth
      /\ frame \in [0..MaxDepth -> Frame]
  BY MaxDepthAssumption DEF TypeOK, OpenBlock
<1>2. PICK opener \in Openers :
        frame' = [frame EXCEPT ![depth + 1] =
                    NewFrame(kind, kind = "if" /\ opener = "brace", sure)]
  BY DEF OpenBlock
<1>3. \A i \in Open : i < depth' /\ i \in Nat /\ frame'[i] = frame[i]
  BY <1>1, <1>2, MaxDepthAssumption DEF Open
<1>4. \A i \in Open' : i \in Open \/ i = depth'
  BY <1>1 DEF Open
<1>5. frame'[depth'] = NewFrame(kind, kind = "if" /\ opener = "brace", sure)
  BY <1>1, <1>2
<1>6. QED  BY <1>1, <1>3, <1>4, <1>5 DEF NewFrame

(* Closing a block leaves the others as they are.                          *)
LEMMA CloseFrames ==
  ASSUME TypeOK, CloseBlock, depth # 0
  PROVE  /\ depth \in Open
         /\ \A i \in Open' : i \in Open /\ i < depth /\ frame'[i] = frame[i]
         /\ \A i \in Open : i # depth => i \in Open'
<1>1. /\ depth \in Nat /\ depth' = depth - 1 /\ depth \in 0..MaxDepth
      /\ frame' = [frame EXCEPT ![depth] = Unused]
      /\ frame \in [0..MaxDepth -> Frame]
  BY MaxDepthAssumption DEF TypeOK, CloseBlock, ParentBlock
<1>2. \A i \in Open' : i \in Open /\ i < depth /\ i \in 0..MaxDepth
  BY <1>1, MaxDepthAssumption DEF Open
<1>3. \A i \in Open : i # depth => i \in Open'
  BY <1>1 DEF Open
<1>4. QED  BY <1>1, <1>2, <1>3 DEF Open

(* The next branch of an if lists nothing; the lists of the finished ones  *)
(* are in common.  An elif condition adds to the enclosing block's list.   *)
LEMMA BranchFrames ==
  ASSUME TypeOK, NEW out \in SUBSET Vars,
         (\E rd \in SUBSET Vars : ParseElif(rd, out)) \/ (ParseElse /\ out = {})
  PROVE  /\ depth \in Open /\ Open' = Open /\ depth \in Nat \ {0}
         /\ \A i \in Open :
              /\ i \in Nat /\ i <= depth
              /\ frame'[i].before = frame[i].before
              /\ i # depth => /\ frame'[i].common = frame[i].common
                              /\ frame'[i].joined = frame[i].joined
                              /\ frame'[i].returned = frame[i].returned
                              /\ frame'[i].firstassign \subseteq
                                   frame[i].firstassign \cup (out \ Reverted)
                              /\ frame[i].firstassign \subseteq frame'[i].firstassign
              /\ i < depth - 1 => frame'[i].firstassign = frame[i].firstassign
         /\ depth - 1 \in Open /\ out \ Reverted \subseteq frame'[depth - 1].firstassign
         /\ frame'[depth].firstassign = {}
         /\ frame'[depth].common = top.common \cap top.firstassign
         /\ frame'[depth].joined = top.joined \cap sure
         /\ frame'[depth].returned = Returned
         /\ initialized' = (initialized \ top.firstassign) \cup out
         /\ leaked' = leaked \cup (out \ top.before)
         /\ sure' = top.before /\ rejoined' = rejoined /\ missed' = missed
<1>1. /\ depth \in Nat \ {0} /\ depth \in Open /\ Open' = Open
      /\ depth - 1 \in 0..MaxDepth /\ Open \subseteq 0..MaxDepth
      /\ frame \in [0..MaxDepth -> Frame] /\ top \in Frame
      /\ \A i \in Open : i \in Nat /\ i <= depth
  BY MaxDepthAssumption DEF TypeOK, Open, top, ParseElif, ParseElse
<1>2. PICK opener \in Openers :
        \/ frame' = [frame EXCEPT
              ![depth] = NextBranch(opener),
              ![depth - 1] = AddFirst(frame[depth - 1], out \ Reverted)]
        \/ frame' = [frame EXCEPT ![depth] =
                        [NextBranch(opener) EXCEPT !.else_present = TRUE]]
  BY DEF ParseElif, ParseElse
<1>3. /\ NextBranch(opener).firstassign = {}
      /\ NextBranch(opener).common = InAllBranches
      /\ NextBranch(opener).joined = SureInAll
      /\ NextBranch(opener).before = top.before
      /\ NextBranch(opener).returned = Returned
      /\ [NextBranch(opener) EXCEPT !.else_present = TRUE].firstassign = {}
      /\ [NextBranch(opener) EXCEPT !.else_present = TRUE].common = InAllBranches
      /\ [NextBranch(opener) EXCEPT !.else_present = TRUE].joined = SureInAll
      /\ [NextBranch(opener) EXCEPT !.else_present = TRUE].before = top.before
      /\ [NextBranch(opener) EXCEPT !.else_present = TRUE].returned = Returned
  BY <1>1 DEF NextBranch, Frame
<1>4. frame'[depth] \in {NextBranch(opener),
                        [NextBranch(opener) EXCEPT !.else_present = TRUE]}
  <2>1. CASE frame' = [frame EXCEPT
              ![depth] = NextBranch(opener),
              ![depth - 1] = AddFirst(frame[depth - 1], out \ Reverted)]
    BY <1>1, <2>1
  <2>2. CASE frame' = [frame EXCEPT ![depth] =
                        [NextBranch(opener) EXCEPT !.else_present = TRUE]]
    BY <1>1, <2>2
  <2>3. QED  BY <1>2, <2>1, <2>2
<1>5. \A i \in Open : i # depth =>
        frame'[i] = frame[i] \/ frame'[i] = AddFirst(frame[i], out \ Reverted)
  BY <1>1, <1>2
<1>6. \A i \in Open : LET f == AddFirst(frame[i], out \ Reverted)
                      IN /\ f.before = frame[i].before
                         /\ f.common = frame[i].common
                         /\ f.joined = frame[i].joined
                         /\ f.returned = frame[i].returned
                         /\ f.firstassign = frame[i].firstassign \cup (out \ Reverted)
  BY <1>1 DEF AddFirst, Frame
<1>7. \A i \in Open : i # depth =>
        /\ frame'[i].before = frame[i].before
        /\ frame'[i].common = frame[i].common
        /\ frame'[i].joined = frame[i].joined
        /\ frame'[i].returned = frame[i].returned
        /\ frame'[i].firstassign \subseteq frame[i].firstassign \cup (out \ Reverted)
        /\ frame[i].firstassign \subseteq frame'[i].firstassign
  BY <1>5, <1>6
<1>8. /\ initialized' = (initialized \ top.firstassign) \cup out
      /\ leaked' = leaked \cup (out \ top.before)
      /\ sure' = top.before /\ rejoined' = rejoined /\ missed' = missed
  BY DEF ParseElif, ParseElse, Reverted
<1>9. \A i \in Open : i < depth - 1 => frame'[i].firstassign = frame[i].firstassign
  <2>1. ASSUME NEW i \in Open, i < depth - 1 PROVE frame'[i] = frame[i]
    <3>1. i # depth /\ i # depth - 1 /\ i \in 0..MaxDepth
      BY <1>1, <2>1
    <3>2. QED  BY <1>1, <1>2, <3>1
  <2>2. QED  BY <2>1
<1>10. depth - 1 \in Open /\ out \ Reverted \subseteq frame'[depth - 1].firstassign
  <2>1. depth - 1 \in Open /\ depth - 1 # depth
    BY <1>1 DEF Open
  <2>2. CASE ParseElse /\ out = {}
    BY <2>1, <2>2
  <2>3. CASE \E rd \in SUBSET Vars : ParseElif(rd, out)
    <3>1. frame'[depth - 1] = AddFirst(frame[depth - 1], out \ Reverted)
      BY <1>1, <2>3 DEF ParseElif
    <3>2. QED  BY <1>6, <2>1, <3>1
  <2>4. QED  BY <2>2, <2>3
<1>11. QED  BY <1>1, <1>3, <1>4, <1>7, <1>8, <1>9, <1>10
         DEF InAllBranches, SureInAll, top

(* Reading a further block into the same branch changes no set of it.      *)
LEMMA RejoinFrames ==
  ASSUME TypeOK, RejoinBranch
  PROVE  /\ depth \in Open /\ Open' = Open
         /\ \A i \in Open : /\ frame'[i].before = frame[i].before
                            /\ frame'[i].common = frame[i].common
                            /\ frame'[i].joined = frame[i].joined
                            /\ frame'[i].firstassign = frame[i].firstassign
<1>1. /\ depth \in Open /\ Open' = Open /\ Open \subseteq 0..MaxDepth
      /\ frame \in [0..MaxDepth -> Frame]
  BY MaxDepthAssumption DEF TypeOK, Open, RejoinBranch
<1>2. PICK opener \in Openers :
        frame' = [frame EXCEPT ![depth] = [frame[depth] EXCEPT !.brace = (opener = "brace")]]
  BY DEF RejoinBranch
<1>3. \A i \in Open : \/ frame'[i] = frame[i]
                      \/ frame'[i] = [frame[i] EXCEPT !.brace = (opener = "brace")]
  BY <1>1, <1>2
<1>4. QED  BY <1>1, <1>3 DEF Frame

-----------------------------------------------------------------------------
(* No false alarms                                                         *)

(* A function starts precise.                                              *)
LEMMA StartPrecise ==
  ASSUME depth' = 0, frame' = [i \in 0..MaxDepth |-> Unused], sure' = initialized'
  PROVE  Precise'
<1>1. \A i \in Open' : i = 0
  BY StartFrames
<1>2. \A i \in Open' : Keep(i)' = {} /\ frame'[i].firstassign = {}
  <2>1. (All \ Vars) \ {Never} = {}
    BY DEF All
  <2>2. QED  BY <1>1, <2>1, StartFrames DEF Keep, Joined
<1>3. QED  BY <1>2 DEF Precise, Flagged

(* A first assignment lists no variable an open block counts on.           *)
LEMMA SetPrecise ==
  ASSUME TypeOK, Precise, NEW v \in Vars, SetVarInitialized(v), depth' = depth,
         Never \notin sure' => Never \notin sure /\ sure' \subseteq sure \cup {v},
         rejoined' = rejoined, missed' = missed
  PROVE  Precise'
<1>1. SUFFICES ASSUME ~rejoined'
               PROVE  /\ Never \notin sure' => sure' \subseteq Flagged'
                      /\ \A i \in Open : Keep(i)' \subseteq Flagged'
                      /\ \A i, j \in Open :
                           i <= j => Keep(i)' \cap frame'[j].firstassign \subseteq missed
  BY AddFirstFrames DEF Precise
<1>2. initialized' = initialized \cup {v}
  BY DEF SetVarInitialized
<1>3. \A i \in Open : Keep(i)' = Keep(i)
  BY AddFirstFrames DEF Keep, Joined
<1>4. \A j \in Open : frame'[j].firstassign \subseteq
                        frame[j].firstassign \cup ({v} \ initialized)
  BY AddFirstFrames
<1>5. /\ Never \notin sure => sure \subseteq Flagged
      /\ \A i \in Open : Keep(i) \subseteq Flagged
      /\ \A i, j \in Open : i <= j => Keep(i) \cap frame[j].firstassign \subseteq missed
  BY <1>1 DEF Precise
<1>6. Flagged' = Flagged \cup {v}
  BY <1>2 DEF Flagged
<1>7. ASSUME NEW i \in Open, NEW j \in Open, i <= j
      PROVE  Keep(i)' \cap frame'[j].firstassign \subseteq missed
  BY <1>3, <1>4, <1>5, <1>7 DEF Flagged
<1>8. QED  BY <1>3, <1>5, <1>6, <1>7

(* Leaving a block lowers no flag that an enclosing one counts on.         *)
LEMMA ClosePrecise ==
  ASSUME TypeOK, Precise, CloseBlock, depth # 0, rejoined' = rejoined,
         Reverted \subseteq initialized', missed \subseteq missed',
         Never \notin sure' => sure' \subseteq Flagged'
  PROVE  Precise'
<1>1. SUFFICES ASSUME ~rejoined'
               PROVE  /\ \A i \in Open' : Keep(i)' \subseteq Flagged'
                      /\ \A i, j \in Open' :
                           i <= j => Keep(i)' \cap frame'[j].firstassign \subseteq missed'
  BY DEF Precise
<1>2. /\ \A i \in Open : Keep(i) \subseteq Flagged
      /\ \A i, j \in Open : i <= j => Keep(i) \cap frame[j].firstassign \subseteq missed
  BY <1>1 DEF Precise
<1>3. /\ depth \in Open
      /\ \A i \in Open' : /\ i \in Open /\ i <= depth
                          /\ frame'[i] = frame[i] /\ Keep(i)' = Keep(i)
  <2>1. /\ depth \in Open
        /\ \A i \in Open' : i \in Open /\ i <= depth /\ frame'[i] = frame[i]
    BY CloseFrames DEF TypeOK, Open
  <2>2. ASSUME NEW i \in Open' PROVE Keep(i)' = Keep(i)
    BY <2>1 DEF Keep, Joined
  <2>3. QED  BY <2>1, <2>2
<1>4. \A i \in Open' : Keep(i) \subseteq Reverted \cup missed
  <2>1. SUFFICES ASSUME NEW i \in Open' PROVE Keep(i) \subseteq Reverted \cup missed
    OBVIOUS
  <2>2. Keep(i) \subseteq Flagged /\ Keep(i) \cap frame[depth].firstassign \subseteq missed
    BY <1>2, <1>3
  <2>3. QED  BY <2>2 DEF Reverted, Flagged, top
<1>5. Reverted \cup missed \subseteq Flagged'
  BY DEF Flagged
<1>6. QED  BY <1>2, <1>3, <1>4, <1>5

(* What was assigned before the branches stays raised, and what all of     *)
(* them assigned is raised when they are closed, by the merge or because   *)
(* it was raised already.                                                  *)
LEMMA BranchPrecise ==
  ASSUME Precise, ~rejoined, depth \in Open, depth <= depth, Never \notin top.before
  PROVE  /\ top.before \subseteq Reverted \cup missed
         /\ ~Returned => SureInAll \ InAllBranches \subseteq Reverted \cup missed
<1>1. /\ Never \notin sure => sure \subseteq Flagged
      /\ Keep(depth) \subseteq Flagged
      /\ Keep(depth) \cap top.firstassign \subseteq missed
      /\ Keep(depth) = top.before \cup Joined(depth)
  BY DEF Precise, top, Keep
<1>2. top.before \subseteq Reverted \cup missed
  BY <1>1 DEF Reverted, Flagged
<1>3. ASSUME ~Returned, NEW u \in SureInAll \ InAllBranches
      PROVE  u \in Reverted \cup missed
  <2>1. Never \notin sure /\ ~top.returned
    BY <1>3 DEF Returned
  <2>2. u \in sure /\ u \in top.joined /\ u # Never /\ u \in Flagged
    BY <1>1, <1>3, <2>1 DEF SureInAll
  <2>3. CASE u \in top.common
    BY <1>3, <2>2, <2>3 DEF InAllBranches, Reverted, Flagged
  <2>4. CASE u \notin top.common
    BY <1>1, <2>1, <2>2, <2>4 DEF Joined, Reverted, Flagged, top
  <2>5. QED  BY <2>3, <2>4
<1>4. QED  BY <1>2, <1>3

(* Going on with another branch is precise.                                *)
LEMMA NextBranchPrecise ==
  ASSUME TypeOK, Precise, NEW out \in SUBSET Vars,
         (\E rd \in SUBSET Vars : ParseElif(rd, out)) \/ (ParseElse /\ out = {})
  PROVE  Precise'
<1>1. SUFFICES ASSUME ~rejoined
               PROVE  /\ Never \notin sure' => sure' \subseteq Flagged'
                      /\ \A i \in Open : Keep(i)' \subseteq Flagged'
                      /\ \A i, j \in Open :
                           i <= j => Keep(i)' \cap frame'[j].firstassign \subseteq missed
  BY BranchFrames DEF Precise
<1>2. /\ \A i \in Open : Keep(i) \subseteq Flagged
      /\ \A i, j \in Open : i <= j => Keep(i) \cap frame[j].firstassign \subseteq missed
  BY <1>1 DEF Precise
<1>3. /\ depth \in Open /\ depth \in Nat
      /\ \A i \in Open : i \in Nat /\ i <= depth
  BY BranchFrames
<1>4. Never \notin top.before =>
        /\ top.before \subseteq Reverted \cup missed
        /\ ~Returned => SureInAll \ InAllBranches \subseteq Reverted \cup missed
  BY <1>1, <1>3, BranchPrecise
<1>5. initialized' = Reverted \cup out /\ sure' = top.before /\ missed' = missed
  BY BranchFrames DEF Reverted
<1>6. \A i \in Open : i # depth => Keep(i)' = Keep(i)
  BY BranchFrames DEF Keep, Joined
<1>7. \A i \in Open : i = depth =>
        Keep(i)' = IF Never \in top.before THEN {}
                   ELSE top.before \cup (IF Returned THEN {}
                                         ELSE (SureInAll \ InAllBranches) \ {Never})
  <2>1. /\ frame'[depth].before = top.before /\ frame'[depth].returned = Returned
        /\ frame'[depth].common = InAllBranches /\ frame'[depth].joined = SureInAll
    BY BranchFrames DEF SureInAll, InAllBranches, top
  <2>2. SUFFICES ASSUME NEW i \in Open, i = depth
                 PROVE  Keep(i)' = IF Never \in top.before THEN {}
                          ELSE top.before \cup
                                 (IF Returned THEN {}
                                  ELSE (SureInAll \ InAllBranches) \ {Never})
    OBVIOUS
  <2>3. Joined(i)' = IF Returned THEN {}
                     ELSE (SureInAll \ InAllBranches) \ {Never}
    BY <2>1, <2>2 DEF Joined
  <2>4. QED  BY <2>1, <2>2, <2>3 DEF Keep
<1>8. \A i \in Open : Keep(i)' \subseteq Reverted \cup missed
  <2>1. \A i \in Open : Keep(i) \subseteq Reverted \cup missed
    <3>1. SUFFICES ASSUME NEW i \in Open PROVE Keep(i) \subseteq Reverted \cup missed
      OBVIOUS
    <3>2. /\ Keep(i) \subseteq Flagged
          /\ Keep(i) \cap frame[depth].firstassign \subseteq missed
      BY <1>2, <1>3
    <3>3. QED  BY <3>2 DEF Reverted, Flagged, top
  <2>2. QED  BY <2>1, <1>4, <1>6, <1>7
<1>9. ASSUME NEW i \in Open, NEW j \in Open, i <= j
      PROVE  Keep(i)' \cap frame'[j].firstassign \subseteq missed
  <2>1. CASE j = depth
    BY <2>1, BranchFrames
  <2>2. CASE j # depth
    <3>1. i # depth
      BY <1>3, <1>9, <2>2
    <3>2. frame'[j].firstassign \subseteq frame[j].firstassign \cup (out \ Reverted)
      BY <2>2, BranchFrames
    <3>3. QED  BY <1>2, <1>6, <1>8, <1>9, <3>1, <3>2
  <2>3. QED  BY <2>1, <2>2
<1>10. Reverted \cup missed \subseteq Flagged'
  BY <1>5 DEF Flagged
<1>11. QED  BY <1>4, <1>5, <1>8, <1>9, <1>10

(* After an if with an else all that its branches assigned is raised, or   *)
(* missed for a branch that returned.                                      *)
LEMMA MergePrecise ==
  ASSUME Precise, Grows, ~rejoined, EndIf, depth \in Open, depth <= depth
  PROVE  Never \notin sure' => sure' \subseteq Flagged'
<1>1. SUFFICES ASSUME Never \notin sure' PROVE sure' \subseteq Flagged'
  OBVIOUS
<1>2. /\ sure' = IF top.else_present THEN SureInAll ELSE top.before
      /\ Flagged' = Reverted \cup Merged \cup missed \cup Missed
  BY DEF EndIf, Flagged
<1>3. top.before \subseteq SureInAll
  BY DEF Grows, SureInAll, top
<1>4. /\ top.before \subseteq Reverted \cup missed
      /\ ~Returned => SureInAll \ InAllBranches \subseteq Reverted \cup missed
  BY <1>1, <1>2, <1>3, BranchPrecise
<1>5. CASE top.else_present /\ ~Returned
  BY <1>2, <1>4, <1>5 DEF Merged
<1>6. CASE top.else_present /\ Returned
  BY <1>1, <1>2, <1>4, <1>6 DEF Missed
<1>7. CASE ~top.else_present
  BY <1>2, <1>4, <1>7
<1>8. QED  BY <1>5, <1>6, <1>7

(* Every step keeps the flags high enough.                                 *)
LEMMA StepPrecise == TypeOK /\ Grows /\ Precise /\ [Next]_vars => Precise'
<1>1. SUFFICES ASSUME TypeOK, Grows, Precise, [Next]_vars PROVE Precise'
  OBVIOUS
<1>2. ASSUME UNCHANGED <<depth, frame, initialized, sure, missed, rejoined>>
      PROVE  Precise'
  BY <1>1, <1>2 DEF Precise, Keep, Joined, Flagged, Open
<1>3. ASSUME NEW v \in Vars, ReadVar(v) PROVE Precise'
  BY <1>2, <1>3 DEF ReadVar, ghosts
<1>4. ASSUME NEW v \in Vars, FinalizeStmtAssign(v) PROVE Precise'
  <2>1. Never \notin sure' => Never \notin sure /\ sure' \subseteq sure \cup {v}
    BY <1>4 DEF FinalizeStmtAssign
  <2>2. QED  BY <1>1, <1>4, <2>1, SetPrecise DEF FinalizeStmtAssign
<1>a. ASSUME NEW value \in BOOLEAN, ParseStmtReturn(value) PROVE Precise'
  <2>1. Never \in sure'
    BY <1>a DEF ParseStmtReturn, All
  <2>2. CASE value
    BY <1>1, <1>a, <2>1, <2>2, ResultAssumption, SetPrecise DEF ParseStmtReturn
  <2>3. CASE ~value
    BY <1>1, <1>a, <2>1, <2>3 DEF ParseStmtReturn, Precise, Keep, Joined, Flagged, Open
  <2>4. QED  BY <2>2, <2>3
<1>b. ASSUME FaultyStatement PROVE Precise'
  BY <1>2, <1>b DEF FaultyStatement, ghosts
<1>5. ASSUME NEW v \in Vars, NEW always \in BOOLEAN, PassRefout(v, always)
      PROVE  Precise'
  <2>1. Never \notin sure' => Never \notin sure /\ sure' \subseteq sure \cup {v}
    BY <1>5 DEF PassRefout
  <2>2. QED  BY <1>1, <1>5, <2>1, SetPrecise DEF PassRefout
<1>6. ASSUME NEW kind \in {"while", "if"}, OpenBlock(kind) PROVE Precise'
  <2>1. UNCHANGED <<initialized, sure, missed, rejoined>> /\ Flagged' = Flagged
    BY <1>6 DEF OpenBlock, ghosts, Flagged
  <2>2. \A i \in Open : frame'[i] = frame[i] /\ Keep(i)' = Keep(i)
    BY <1>1, <1>6, OpenFrames DEF Keep, Joined
  <2>a. (All \ Vars) \ {Never} = {}
    BY DEF All
  <2>3. \A i \in Open' : i = depth' =>
          /\ Keep(i)' = IF Never \in sure THEN {} ELSE sure
          /\ frame'[i].firstassign = {}
    BY <1>1, <1>6, <2>a, OpenFrames DEF Keep, Joined
  <2>4. \A i \in Open' : i \in Open \/ i = depth'
    BY <1>1, <1>6, OpenFrames
  <2>5. \A i \in Open : ~(depth' <= i)
    BY <1>1, <1>6, OpenFrames
  <2>6. QED  BY <1>1, <2>1, <2>2, <2>3, <2>4, <2>5 DEF Precise
<1>7. ASSUME EndOfText PROVE Precise'
  BY <1>2, <1>7 DEF EndOfText, ghosts
<1>8. ASSUME EndWhile PROVE Precise'
  <2>1. depth # 0 /\ depth \in Open /\ depth <= depth
    BY <1>1, <1>8, MaxDepthAssumption DEF EndWhile, TypeOK, Open, top
  <2>2. ~rejoined /\ Never \notin sure' => sure' \subseteq Flagged'
    BY <1>1, <1>8, <2>1, BranchPrecise DEF EndWhile, Flagged
  <2>3. CASE rejoined
    BY <1>8, <2>3 DEF EndWhile, Precise
  <2>4. CASE ~rejoined
    BY <1>1, <1>8, <2>1, <2>2, <2>4, ClosePrecise DEF EndWhile
  <2>5. QED  BY <2>3, <2>4
<1>9. ASSUME NEW rd \in SUBSET Vars, NEW out \in SUBSET Vars, ParseElif(rd, out)
      PROVE  Precise'
  BY <1>1, <1>9, NextBranchPrecise
<1>10. ASSUME ParseElse PROVE Precise'
  <2>1. {} \in SUBSET Vars
    OBVIOUS
  <2>2. QED  BY <1>1, <1>10, <2>1, NextBranchPrecise
<1>11. ASSUME RejoinBranch PROVE Precise'
  BY <1>11 DEF RejoinBranch, Precise
<1>12. ASSUME EndIf PROVE Precise'
  <2>1. depth # 0 /\ depth \in Open /\ depth <= depth
    BY <1>1, <1>12, MaxDepthAssumption DEF EndIf, TypeOK, Open, top
  <2>2. ~rejoined /\ Never \notin sure' => sure' \subseteq Flagged'
    BY <1>1, <1>12, <2>1, MergePrecise
  <2>3. CASE rejoined
    BY <1>12, <2>3 DEF EndIf, Precise
  <2>4. CASE ~rejoined
    <3>1. /\ Reverted \subseteq initialized' /\ missed \subseteq missed'
          /\ CloseBlock /\ rejoined' = rejoined
      BY <1>12 DEF EndIf
    <3>2. QED  BY <1>1, <2>1, <2>2, <2>4, <3>1, ClosePrecise
  <2>5. QED  BY <2>3, <2>4
<1>13. ASSUME EndFunc PROVE Precise'
  BY <1>2, <1>13 DEF EndFunc, ghosts
<1>14. ASSUME NextFunc PROVE Precise'
  BY <1>14, StartPrecise DEF NextFunc
<1>15. ASSUME UNCHANGED vars PROVE Precise'
  BY <1>2, <1>15 DEF vars
<1>16. QED
  BY <1>1, <1>3, <1>4, <1>a, <1>b, <1>5, <1>6, <1>7, <1>8, <1>9, <1>10, <1>11, <1>12, <1>13,
     <1>14, <1>15 DEF Next, Statement

(* A function starts precise.                                              *)
LEMMA InitPrecise == Init => Precise
<1>1. SUFFICES ASSUME NEW args \in SUBSET (Vars \ {Result}), Start(args)
               PROVE  Precise
  BY DEF Init
<1>2. /\ \A i \in Open : i = 0
      /\ frame[0] = Unused /\ sure = initialized
  BY <1>1, MaxDepthAssumption DEF Start, Open
<1>3. Unused.firstassign = {} /\ Keep(0) = {}
  <2>1. (All \ Vars) \ {Never} = {}
    BY DEF All
  <2>2. QED  BY <1>2, <2>1 DEF Unused, NewFrame, Keep, Joined
<1>4. QED  BY <1>2, <1>3 DEF Precise, Flagged

-----------------------------------------------------------------------------
(* No unknown leaks                                                        *)

(* A function starts sound.                                                *)
LEMMA StartSound ==
  ASSUME depth' = 0, frame' = [i \in 0..MaxDepth |-> Unused],
         NEW args \in SUBSET Vars, sure' = args, initialized' = args
  PROVE  Sound'
<1>1. \A i \in Open' : /\ i = 0
                      /\ frame'[i].firstassign = {} /\ frame'[i].before = {}
                      /\ frame'[i].common = Vars /\ frame'[i].joined = All
  BY StartFrames
<1>2. Grows' /\ Listed'
  BY <1>1 DEF Grows, Listed, All
<1>3. Lowered' /\ LeaksAreKnown'
  BY <1>1 DEF Lowered, LeaksAreKnown
<1>4. QED  BY <1>2, <1>3 DEF Sound

(* A variable that gets its flag is assigned, or leaks.                    *)
LEMMA SetSound ==
  ASSUME TypeOK, Sound, NEW v \in Vars, SetVarInitialized(v), depth' = depth,
         sure \subseteq sure', leaked \subseteq leaked',
         v \in sure' \cup leaked'
  PROVE  Sound'
<1>1. /\ depth \in Open /\ Open' = Open
      /\ \A i \in Open : /\ frame'[i].before = frame[i].before
                         /\ frame'[i].common = frame[i].common
                         /\ frame'[i].joined = frame[i].joined
                         /\ i # depth => frame'[i].firstassign = frame[i].firstassign
                         /\ i \in Nat /\ i <= depth
      /\ frame'[depth].firstassign = frame[depth].firstassign \cup ({v} \ initialized)
  BY AddFirstFrames DEF TypeOK, Open
<1>2. initialized' = initialized \cup {v}
  BY DEF SetVarInitialized
<1>3. Grows'
  BY <1>1 DEF Grows, Sound
<1>4. Listed'
  <2>1. ASSUME NEW i \in Open
        PROVE  /\ frame'[i].firstassign \subseteq sure' \cup leaked'
               /\ frame'[i].common \subseteq frame'[i].joined \cup leaked'
    BY <1>1 DEF Sound, Listed
  <2>2. ASSUME NEW i \in Open, NEW j \in Open, i < j
        PROVE  frame'[i].firstassign \subseteq frame'[j].before \cup leaked'
    <3>1. i # depth
      BY <1>1, <2>2
    <3>2. QED  BY <1>1, <2>2, <3>1 DEF Sound, Listed
  <2>3. QED  BY <1>1, <2>1, <2>2 DEF Listed
<1>5. Lowered'
  <2>1. SUFFICES ASSUME NEW i \in Open, i > 0, NEW u \in initialized'
                 PROVE  \/ u \in frame[i].before \cup leaked'
                        \/ \E j \in Open : i <= j /\ u \in frame'[j].firstassign
    BY <1>1 DEF Lowered
  <2>2. CASE u \in initialized
    <3>1. \A j \in Open : frame[j].firstassign \subseteq frame'[j].firstassign
      BY <1>1
    <3>2. \/ u \in frame[i].before \cup leaked
          \/ \E j \in Open : i <= j /\ u \in frame[j].firstassign
      BY <2>1, <2>2 DEF Sound, Lowered
    <3>3. QED  BY <3>1, <3>2
  <2>3. CASE u \notin initialized
    <3>1. u \in frame'[depth].firstassign
      BY <1>1, <1>2, <2>1, <2>3
    <3>2. QED  BY <1>1, <3>1
  <2>4. QED  BY <2>2, <2>3
<1>6. LeaksAreKnown'
  BY <1>2 DEF Sound, LeaksAreKnown
<1>7. QED  BY <1>3, <1>4, <1>5, <1>6 DEF Sound

(* Closing a block lowers what it listed; what stays raised was raised     *)
(* before the statement, leaked, or is raised by the merge.                *)
LEMMA CloseSound ==
  ASSUME TypeOK, Sound, CloseBlock, depth # 0,
         NEW merged \in SUBSET (top.common \cap top.firstassign),
         initialized' = Reverted \cup merged,
         \/ sure' = top.before /\ merged = {}
         \/ sure' = top.joined \cap sure,
         leaked' = IF depth > 1 THEN leaked \cup merged ELSE leaked
  PROVE  Sound'
<1>1. /\ depth \in Open /\ depth \in Nat
      /\ \A i \in Open' : /\ i \in Open /\ i \in Nat /\ i < depth /\ i <= depth
                          /\ frame'[i] = frame[i]
      /\ \A i \in Open : i # depth => i \in Open'
  BY CloseFrames DEF TypeOK, Open
<1>2. Grows /\ Listed /\ Lowered /\ LeaksAreKnown
  BY DEF Sound
<1>3. leaked \subseteq leaked'
  OBVIOUS
<1>4. top.before \subseteq sure'
  BY <1>1, <1>2 DEF Grows, top
<1>5. Grows'
  <2>1. \A i \in Open' : frame'[i].before \subseteq sure'
    BY <1>1, <1>2, <1>4 DEF Grows, top
  <2>2. QED  BY <1>1, <1>2, <2>1 DEF Grows
<1>6. Listed'
  <2>1. \A i \in Open' : frame'[i].firstassign \subseteq sure' \cup leaked'
    BY <1>1, <1>2, <1>3, <1>4 DEF Listed, top
  <2>2. QED  BY <1>1, <1>2, <1>3, <2>1 DEF Listed
<1>7. \A u \in Reverted : u \in top.before \cup leaked
  <2>1. SUFFICES ASSUME NEW u \in Reverted PROVE u \in top.before \cup leaked
    OBVIOUS
  <2>2. \/ u \in frame[depth].before \cup leaked
        \/ \E j \in Open : depth <= j /\ u \in frame[j].firstassign
    BY <1>1, <1>2, <2>1 DEF Lowered, Reverted
  <2>3. \A j \in Open : depth <= j => j = depth
    BY <1>1 DEF Open
  <2>4. QED  BY <2>1, <2>2, <2>3 DEF Reverted, top
<1>8. Lowered'
  <2>1. SUFFICES ASSUME NEW i \in Open', i > 0, NEW u \in initialized'
                 PROVE  \/ u \in frame[i].before \cup leaked'
                        \/ \E j \in Open' : i <= j /\ u \in frame'[j].firstassign
    BY <1>1 DEF Lowered
  <2>2. CASE u \in merged
    BY <1>1, <2>1, <2>2
  <2>3. CASE u \in Reverted
    <3>1. \/ u \in frame[i].before \cup leaked
          \/ \E j \in Open : i <= j /\ u \in frame[j].firstassign
      BY <1>1, <1>2, <2>1, <2>3 DEF Lowered, Reverted
    <3>2. u \notin frame[depth].firstassign
      BY <2>3 DEF Reverted, top
    <3>3. QED  BY <1>1, <1>3, <3>1, <3>2
  <2>4. QED  BY <2>1, <2>2, <2>3
<1>9. LeaksAreKnown'
  <2>1. \A u \in Reverted : u \in sure' \cup leaked'
    BY <1>3, <1>4, <1>7
  <2>2. \A u \in merged : u \in sure' \cup leaked'
    BY <1>1, <1>2 DEF Listed, top
  <2>3. QED  BY <2>1, <2>2 DEF LeaksAreKnown
<1>10. QED  BY <1>5, <1>6, <1>8, <1>9 DEF Sound

(* Going on with another branch is sound.                                  *)
LEMMA NextBranchSound ==
  ASSUME TypeOK, Sound, NEW out \in SUBSET Vars,
         (\E rd \in SUBSET Vars : ParseElif(rd, out)) \/ (ParseElse /\ out = {})
  PROVE  Sound'
<1>1. /\ depth \in Open /\ Open' = Open /\ depth \in Nat \ {0}
      /\ \A i \in Open :
           /\ i \in Nat /\ i <= depth
           /\ frame'[i].before = frame[i].before
           /\ i # depth => /\ frame'[i].common = frame[i].common
                           /\ frame'[i].joined = frame[i].joined
                           /\ frame'[i].firstassign \subseteq
                                frame[i].firstassign \cup (out \ Reverted)
                           /\ frame[i].firstassign \subseteq frame'[i].firstassign
      /\ frame'[depth].firstassign = {}
      /\ frame'[depth].common = frame[depth].common \cap frame[depth].firstassign
      /\ frame'[depth].joined = frame[depth].joined \cap sure
      /\ initialized' = (initialized \ frame[depth].firstassign) \cup out
      /\ leaked' = leaked \cup (out \ frame[depth].before)
      /\ sure' = frame[depth].before
  BY BranchFrames DEF top
<1>2. Grows /\ Listed /\ Lowered /\ LeaksAreKnown
  BY DEF Sound
<1>3. Grows'
  <2>1. \A i \in Open : frame[i].before \subseteq frame[depth].before
    BY <1>1, <1>2 DEF Grows
  <2>2. \A i \in Open : frame[i].before \subseteq frame'[i].joined
    BY <1>1, <1>2 DEF Grows
  <2>3. QED  BY <1>1, <1>2, <2>1, <2>2 DEF Grows
<1>4. ASSUME NEW i \in Open, NEW j \in Open, i < j
      PROVE  frame'[i].firstassign \subseteq frame[j].before \cup leaked'
  <2>1. i # depth
    BY <1>1, <1>4
  <2>2. frame[i].firstassign \subseteq frame[j].before \cup leaked
    BY <1>2, <1>4 DEF Listed
  <2>3. ASSUME j = depth
        PROVE  frame'[i].firstassign \subseteq frame[j].before \cup leaked'
    BY <1>1, <2>1, <2>2, <2>3
  <2>4. ASSUME j # depth
        PROVE  frame'[i].firstassign \subseteq frame[j].before \cup leaked'
    <3>1. i < depth - 1
      BY <1>1, <1>4, <2>4
    <3>2. frame'[i].firstassign = frame[i].firstassign
      BY <1>4, <3>1, BranchFrames
    <3>3. QED  BY <1>1, <2>2, <3>2
  <2>5. QED  BY <2>3, <2>4
<1>5. Listed'
  <2>1. \A i \in Open : frame'[i].firstassign \subseteq sure' \cup leaked'
    <3>1. \A i \in Open : i # depth => i < depth
      BY <1>1
    <3>2. QED  BY <1>1, <1>4, <3>1
  <2>2. \A i \in Open : frame'[i].common \subseteq frame'[i].joined \cup leaked'
    BY <1>1, <1>2 DEF Listed
  <2>3. QED  BY <1>1, <1>4, <2>1, <2>2 DEF Listed
<1>6. \A u \in initialized \ frame[depth].firstassign :
        u \in frame[depth].before \cup leaked
  <2>1. \A j \in Open : depth <= j => j = depth
    BY <1>1 DEF Open
  <2>2. QED  BY <1>1, <1>2, <2>1 DEF Lowered
<1>7. Lowered'
  <2>1. SUFFICES ASSUME NEW i \in Open, i > 0, NEW u \in initialized'
                 PROVE  \/ u \in frame[i].before \cup leaked'
                        \/ \E j \in Open : i <= j /\ u \in frame'[j].firstassign
    BY <1>1 DEF Lowered
  <2>2. CASE u \in initialized /\ u \notin frame[depth].firstassign
    <3>1. \/ u \in frame[i].before \cup leaked
          \/ \E j \in Open : i <= j /\ u \in frame[j].firstassign
      BY <1>2, <2>1, <2>2 DEF Lowered
    <3>2. QED  BY <1>1, <2>2, <3>1
  <2>3. CASE u \in out /\ u \notin Reverted
    <3>1. depth - 1 \in Open /\ u \in frame'[depth - 1].firstassign
      BY <2>3, BranchFrames
    <3>2. CASE i = depth
      BY <1>1, <2>3, <3>2
    <3>3. CASE i # depth
      BY <1>1, <3>1, <3>3
    <3>4. QED  BY <3>2, <3>3
  <2>4. QED  BY <1>1, <2>1, <2>2, <2>3 DEF Reverted, top
<1>8. LeaksAreKnown'
  BY <1>1, <1>6 DEF LeaksAreKnown
<1>9. QED  BY <1>3, <1>5, <1>7, <1>8 DEF Sound

(* Every step keeps the flags low enough.                                  *)
LEMMA StepSound == TypeOK /\ Sound /\ [Next]_vars => Sound'
<1>1. SUFFICES ASSUME TypeOK, Sound, [Next]_vars PROVE Sound'
  OBVIOUS
<1>2. ASSUME UNCHANGED <<depth, frame, initialized, sure, leaked>> PROVE Sound'
  BY <1>1, <1>2 DEF Sound, Grows, Listed, Lowered, LeaksAreKnown, Open
<1>3. ASSUME NEW v \in Vars, ReadVar(v) PROVE Sound'
  BY <1>2, <1>3 DEF ReadVar, ghosts
<1>4. ASSUME NEW v \in Vars, FinalizeStmtAssign(v) PROVE Sound'
  BY <1>1, <1>4, SetSound DEF FinalizeStmtAssign
<1>a. ASSUME NEW value \in BOOLEAN, ParseStmtReturn(value) PROVE Sound'
  <2>1. sure' = All /\ sure \subseteq sure' /\ Result \in sure' /\ leaked' = leaked
    BY <1>1, <1>a, ResultAssumption DEF ParseStmtReturn, TypeOK, All
  <2>2. CASE value
    BY <1>1, <1>a, <2>1, <2>2, ResultAssumption, SetSound DEF ParseStmtReturn
  <2>3. CASE ~value
    BY <1>1, <1>a, <2>1, <2>3
    DEF ParseStmtReturn, Sound, Grows, Listed, Lowered, LeaksAreKnown, Open
  <2>4. QED  BY <2>2, <2>3
<1>b. ASSUME FaultyStatement PROVE Sound'
  BY <1>2, <1>b DEF FaultyStatement, ghosts
<1>5. ASSUME NEW v \in Vars, NEW always \in BOOLEAN, PassRefout(v, always)
      PROVE  Sound'
  <2>1. /\ sure \subseteq sure' /\ leaked \subseteq leaked'
        /\ v \in sure' \cup leaked'
    BY <1>5 DEF PassRefout
  <2>2. QED  BY <1>1, <1>5, <2>1, SetSound DEF PassRefout
<1>6. ASSUME NEW kind \in {"while", "if"}, OpenBlock(kind) PROVE Sound'
  <2>1. UNCHANGED <<initialized, sure, leaked>>
    BY <1>6 DEF OpenBlock, ghosts
  <2>2. /\ \A i \in Open' : i \in Open \/ i = depth'
        /\ \A i \in Open : /\ frame'[i] = frame[i]
                           /\ ~(depth' <= i) /\ ~(depth' < i)
        /\ frame'[depth'].firstassign = {} /\ frame'[depth'].before = sure
        /\ frame'[depth'].common = Vars /\ frame'[depth'].joined = All
    BY <1>1, <1>6, OpenFrames
  <2>3. sure \subseteq All /\ Vars \subseteq All /\ ~(depth' < depth')
    BY <1>1, <1>6, OpenFrames DEF TypeOK, All
  <2>4. Grows'
    BY <1>1, <2>1, <2>2, <2>3 DEF Grows, Sound
  <2>5. Listed'
    BY <1>1, <2>1, <2>2, <2>3 DEF Listed, Sound
  <2>6. \A i \in Open : i \in Open'
    BY <1>1, <1>6, OpenFrames DEF Open
  <2>7. Lowered'
    BY <1>1, <2>1, <2>2, <2>6 DEF Lowered, LeaksAreKnown, Sound
  <2>8. QED  BY <1>1, <2>1, <2>4, <2>5, <2>7 DEF Sound, LeaksAreKnown
<1>7. ASSUME EndOfText PROVE Sound'
  BY <1>2, <1>7 DEF EndOfText, ghosts
<1>8. ASSUME EndWhile PROVE Sound'
  <2>1. depth # 0 /\ {} \in SUBSET (top.common \cap top.firstassign)
    BY <1>1, <1>8, MaxDepthAssumption DEF EndWhile, TypeOK, top
  <2>2. /\ CloseBlock /\ initialized' = Reverted \cup {} /\ sure' = top.before
        /\ leaked' = IF depth > 1 THEN leaked \cup {} ELSE leaked
    BY <1>8 DEF EndWhile
  <2>3. QED  BY <1>1, <2>1, <2>2, CloseSound
<1>9. ASSUME NEW rd \in SUBSET Vars, NEW out \in SUBSET Vars, ParseElif(rd, out)
      PROVE  Sound'
  BY <1>1, <1>9, NextBranchSound
<1>10. ASSUME ParseElse PROVE Sound'
  <2>1. {} \in SUBSET Vars
    OBVIOUS
  <2>2. QED  BY <1>1, <1>10, <2>1, NextBranchSound
<1>11. ASSUME RejoinBranch PROVE Sound'
  <2>1. /\ initialized' = Reverted /\ sure' = sure /\ leaked' = leaked
    BY <1>11 DEF RejoinBranch
  <2>2. QED
    BY <1>1, <1>11, <2>1, RejoinFrames
    DEF Sound, Grows, Listed, Lowered, LeaksAreKnown, Reverted
<1>12. ASSUME EndIf PROVE Sound'
  <2>1. depth # 0
    BY <1>1, <1>12, MaxDepthAssumption DEF EndIf, TypeOK, top
  <2>2. /\ Merged \in SUBSET (top.common \cap top.firstassign)
        /\ \/ sure' = top.before /\ Merged = {}
           \/ sure' = top.joined \cap sure
    BY <1>12 DEF EndIf, Merged, InAllBranches, SureInAll
  <2>3. /\ CloseBlock /\ initialized' = Reverted \cup Merged
        /\ leaked' = IF depth > 1 THEN leaked \cup Merged ELSE leaked
    BY <1>12 DEF EndIf
  <2>4. QED  BY <1>1, <2>1, <2>2, <2>3, CloseSound
<1>13. ASSUME EndFunc PROVE Sound'
  BY <1>2, <1>13 DEF EndFunc, ghosts
<1>14. ASSUME NextFunc PROVE Sound'
  <2>1. PICK args \in SUBSET (Vars \ {Result}) :
          /\ depth' = 0 /\ frame' = [i \in 0..MaxDepth |-> Unused]
          /\ sure' = args /\ initialized' = args
    BY <1>14 DEF NextFunc
  <2>2. args \in SUBSET Vars
    OBVIOUS
  <2>3. QED  BY <2>1, <2>2, StartSound
<1>15. ASSUME UNCHANGED vars PROVE Sound'
  BY <1>2, <1>15 DEF vars
<1>16. QED
  BY <1>1, <1>3, <1>4, <1>a, <1>b, <1>5, <1>6, <1>7, <1>8, <1>9, <1>10, <1>11, <1>12, <1>13,
     <1>14, <1>15 DEF Next, Statement

(* A function starts sound.                                                *)
LEMMA InitSound == Init => Sound
<1>1. SUFFICES ASSUME NEW args \in SUBSET (Vars \ {Result}), Start(args)
               PROVE  Sound
  BY DEF Init
<1>2. /\ \A i \in Open : i = 0
      /\ frame[0] = Unused /\ sure = initialized
  BY <1>1, MaxDepthAssumption DEF Start, Open
<1>3. /\ Unused.firstassign = {} /\ Unused.before = {}
      /\ Unused.common = Vars /\ Unused.joined = All
  BY DEF Unused, NewFrame
<1>4. QED  BY <1>2, <1>3 DEF Sound, Grows, Listed, Lowered, LeaksAreKnown, All

(* Where an execution gets, every assigned variable can be read, however   *)
(* deep its assignments are nested, unless an else in brace mode was read  *)
(* or a branch of an if returned without assigning it.                     *)
THEOREM AssignedIsReadable == Spec => []NoFalseAlarm
<1>1. Precise => NoFalseAlarm
  BY DEF Precise, NoFalseAlarm, Flagged
<1>2. Sound => Grows
  BY DEF Sound
<1>3. QED
  BY <1>1, <1>2, InitTypes, StepTypes, InitSound, StepSound, InitPrecise, StepPrecise,
     PTL DEF Spec

(* A flag is raised for an unassigned variable only by the merge of a      *)
(* nested if or by a refout argument that is not always passed.            *)
THEOREM NoOtherLeaks == Spec => []LeaksAreKnown
<1>1. Sound => LeaksAreKnown
  BY DEF Sound
<1>2. QED  BY <1>1, InitTypes, StepTypes, InitSound, StepSound, PTL DEF Spec

-----------------------------------------------------------------------------
(* The result of a function                                                *)

(* What EndFunc looked at still holds when the function is accepted.       *)
Checked == phase = "ended" /\ accepted => Result \in initialized

LEMMA StepChecked == TypeOK /\ Checked /\ [Next]_vars => Checked'
<1>1. SUFFICES ASSUME TypeOK, Checked, [Next]_vars, phase' = "ended", accepted'
               PROVE  Result \in initialized'
  BY DEF Checked
<1>2. CASE EndFunc
  BY <1>1, <1>2 DEF EndFunc, ErrorIf, ResultNotSet
<1>3. CASE UNCHANGED vars
  BY <1>1, <1>3 DEF vars, Checked
<1>4. ASSUME NEW v \in Vars, ReadVar(v) \/ FinalizeStmtAssign(v) PROVE FALSE
  BY <1>1, <1>4 DEF ReadVar, FinalizeStmtAssign
<1>a. ASSUME NEW value \in BOOLEAN, FaultyStatement \/ ParseStmtReturn(value) PROVE FALSE
  BY <1>1, <1>a DEF FaultyStatement, ParseStmtReturn
<1>5. ASSUME NEW v \in Vars, NEW always \in BOOLEAN, PassRefout(v, always)
      PROVE  FALSE
  BY <1>1, <1>5 DEF PassRefout
<1>6. ASSUME NEW kind \in {"while", "if"}, OpenBlock(kind) PROVE FALSE
  BY <1>1, <1>6 DEF OpenBlock
<1>7. ASSUME NEW rd \in SUBSET Vars, NEW out \in SUBSET Vars, ParseElif(rd, out)
      PROVE  FALSE
  BY <1>1, <1>7 DEF ParseElif
<1>8. ASSUME EndOfText \/ EndWhile \/ ParseElse \/ RejoinBranch \/ EndIf \/ NextFunc
      PROVE  FALSE
  BY <1>1, <1>8 DEF EndOfText, EndWhile, ParseElse, RejoinBranch, EndIf, NextFunc
<1>9. QED
  BY <1>1, <1>2, <1>3, <1>4, <1>a, <1>5, <1>6, <1>7, <1>8 DEF Next, Statement

(* An accepted function has a result when it falls off its end, the known  *)
(* leaks apart.                                                            *)
THEOREM AcceptedHasResult == Spec => []ResultIsSet
<1>1. Init => Checked
  BY DEF Init, Start, Checked
<1>2. Sound /\ Checked => ResultIsSet
  BY DEF Sound, LeaksAreKnown, Checked, ResultIsSet
<1>3. QED
  BY <1>1, <1>2, InitTypes, StepTypes, InitSound, StepSound, StepChecked, PTL
  DEF Spec

=============================================================================
