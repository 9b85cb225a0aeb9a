--------------------------- MODULE PreprocProofs ---------------------------
(***************************************************************************)
(* The preprocessor for any files, any names and any depth of conditionals *)
(* and of includes.                                                        *)
(***************************************************************************)
EXTENDS Preproc, TLAPS

(* What the flags say of the conditionals around and of the branches past. *)
ParentsKnown ==
  \A i \in 1..n : cond[i].parent_inactive <=> \E j \in 1..(i - 1) : ~cond[j].sel
BranchesKnown ==
  \A i \in 1..n : /\ cond[i].sel => cond[i].seen
                  /\ ~cond[i].parent_inactive /\ cond[i].state # "else"
                       => (cond[i].branch_taken <=> cond[i].seen)
Chain == /\ inactive <=> ~Selected
         /\ ParentsKnown
         /\ BranchesKnown

Meaning == accepted => Chain /\ ~stray

(* A file that is not being read for the first time has been counted twice *)
(* or more, so that its #include_once leaves it.                           *)
Counted == \A l \in 1..level :
             reading[l].first \/ (usage[reading[l].file] > 1 /\ ~reading[l].body)

-----------------------------------------------------------------------------
(* Types                                                                   *)

(* The values an action puts into the chain are conditions.                *)
LEMMA CondTypes ==
  /\ NoCond \in Cond
  /\ NoReading \in Reading
  /\ TypeOK /\ level > 0 =>
       /\ curfile \in Files
       /\ \A taken, t \in BOOLEAN : NewCond(taken, t) \in Cond
       /\ n > 0 => curcond \in Cond
BY MainFileAssumption, MaxLevelAssumption, MaxCondsAssumption
DEF TypeOK, Cond, Reading, NoCond, NoReading, curfile, curcond, NewCond, ParentInactive

(* The preprocessor starts well typed.                                     *)
LEMMA InitTypes == Init => TypeOK
<1>1. SUFFICES ASSUME Init PROVE TypeOK
  OBVIOUS
<1>2. ASSUME NEW r \in Reading
      PROVE  [r EXCEPT !.first = TRUE] \in Reading /\ [r EXCEPT !.first = TRUE].file = r.file
  BY DEF Reading
<1>3. NoReading.file = MainFile
  BY DEF NoReading
<1>4. reading \in [1..MaxLevel -> Reading] /\ reading[1].file = MainFile
  BY <1>1, <1>2, <1>3, CondTypes, MaxLevelAssumption DEF Init
<1>5. cond \in [1..MaxConds -> Cond] /\ usage \in [Files -> 0..2] /\ usage[MainFile] > 0
  BY <1>1, CondTypes, MainFileAssumption DEF Init
<1>6. \A l \in 1..level : usage[reading[l].file] > 0
  BY <1>1, <1>4, <1>5 DEF Init
<1>7. level \in 0..MaxLevel /\ n \in 0..MaxConds
  BY <1>1, MaxLevelAssumption, MaxCondsAssumption DEF Init
<1>8. QED
  BY <1>1, <1>4, <1>5, <1>6, <1>7 DEF Init, TypeOK

(* Opening a conditional keeps the types.                                  *)
LEMMA StartTypes ==
  ASSUME TypeOK, level > 0, NEW taken \in BOOLEAN, NEW t \in BOOLEAN, Start(taken, t),
         inactive' \in BOOLEAN, accepted' \in BOOLEAN, blamed' \in BOOLEAN,
         stray' \in BOOLEAN
  PROVE  TypeOK'
<1>1. cond' \in [1..MaxConds -> Cond] /\ n' \in 0..MaxConds
  BY CondTypes, MaxCondsAssumption DEF Start, TypeOK
<1>2. QED
  BY <1>1 DEF Start, TypeOK

(* And so does continuing one.                                             *)
LEMMA ContinueTypes ==
  ASSUME TypeOK, level > 0, NEW t \in BOOLEAN, NEW faulty \in BOOLEAN,
         Continue(t, faulty), accepted' \in BOOLEAN, blamed' \in BOOLEAN
  PROVE  TypeOK'
<1>1. n \in 1..MaxConds /\ curcond \in Cond
  BY CondTypes DEF TypeOK, Continue, BranchOpen
<1>2. cond' \in [1..MaxConds -> Cond]
  <2>1. [curcond EXCEPT !.state = "elif",
           !.branch_taken = @ \/ (~Skipped /\ t /\ ~faulty),
           !.sel = t /\ ~curcond.seen, !.seen = @ \/ t] \in Cond
    BY <1>1 DEF Cond, Skipped
  <2>2. QED
    BY <2>1, <1>1 DEF Continue, TypeOK
<1>3. inactive' \in BOOLEAN /\ stray' \in BOOLEAN
  BY <1>1 DEF Continue, Skipped, Cond, TypeOK
<1>4. QED
  BY <1>2, <1>3 DEF Continue, TypeOK

(* Every conditional directive keeps the types.                            *)
LEMMA ConditionalTypes ==
  ASSUME TypeOK, level > 0, Conditional
  PROVE  TypeOK'
<1>1. ASSUME NEW name \in Names, NEW negated \in BOOLEAN, IfDef(name, negated)
      PROVE  TypeOK'
  <2>1. /\ inactive' \in BOOLEAN
        /\ accepted' \in BOOLEAN
        /\ blamed' \in BOOLEAN
        /\ stray' \in BOOLEAN
    BY <1>1 DEF IfDef, Effect, TypeOK
  <2>2. QED
    BY <1>1, <2>1, StartTypes DEF IfDef
<1>2. ASSUME NEW t \in BOOLEAN, NEW faulty \in BOOLEAN, NEW brace \in BOOLEAN,
             If(t, faulty, brace)
      PROVE  TypeOK'
  <2>1. /\ inactive' \in BOOLEAN
        /\ accepted' \in BOOLEAN
        /\ blamed' \in BOOLEAN
        /\ stray' \in BOOLEAN
    BY <1>2 DEF If, Effect, CloserMissing, ErrorIf, TypeOK
  <2>2. QED
    BY <1>2, <2>1, StartTypes DEF If
<1>3. CASE IfDefNoName
  BY <1>3, StartTypes DEF IfDefNoName, ErrorIf, TypeOK
<1>4. ASSUME NEW name \in Names, NEW negated \in BOOLEAN, ElifDef(name, negated)
      PROVE  TypeOK'
  BY <1>4, ContinueTypes DEF ElifDef, TypeOK
<1>5. ASSUME NEW t \in BOOLEAN, NEW faulty \in BOOLEAN, NEW brace \in BOOLEAN,
             Elif(t, faulty, brace)
      PROVE  TypeOK'
  BY <1>5, ContinueTypes DEF Elif, CloserMissing, ErrorIf, TypeOK
<1>6. ASSUME NEW negated \in BOOLEAN, ElifDefNoName(negated) PROVE TypeOK'
  BY <1>6, ContinueTypes DEF ElifDefNoName, ErrorIf, TypeOK
<1>7. CASE EndIf
  <2>1. cond' \in [1..MaxConds -> Cond] /\ inactive' \in BOOLEAN /\ n' \in 0..MaxConds
    BY <1>7, CondTypes, MaxCondsAssumption DEF EndIf, TypeOK, Cond, curcond
  <2>2. QED
    BY <1>7, <2>1 DEF EndIf, ErrorIf, OtherFile, TypeOK
<1>8. CASE Else
  <2>1. n > 0 /\ curcond \in Cond
    BY <1>8, CondTypes DEF Else, BranchOpen
  <2>2. CASE OtherFile
    <3>1. [NewCond(FALSE, FALSE) EXCEPT !.parent_inactive = curcond.parent_inactive,
                                        !.state = "else"] \in Cond
      BY <2>1, CondTypes DEF Cond, NewCond
    <3>2. QED
      BY <1>8, <2>2, <3>1, MaxCondsAssumption DEF Else, ErrorIf, TypeOK
  <2>3. CASE ~OtherFile
    <3>1. [curcond EXCEPT !.state = "else", !.sel = ~curcond.seen, !.seen = TRUE] \in Cond
      BY <2>1 DEF Cond
    <3>2. cond' \in [1..MaxConds -> Cond] /\ inactive' \in BOOLEAN /\ n' = n
      BY <1>8, <2>1, <2>3, <3>1 DEF Else, TypeOK, Cond
    <3>3. QED
      BY <1>8, <2>3, <3>2 DEF Else, ErrorIf, TypeOK
  <2>4. QED
    BY <2>2, <2>3
<1>9. CASE MisplacedEnd \/ MisplacedElif
  BY <1>9 DEF MisplacedEnd, MisplacedElif, ErrorIf, TypeOK
<1>10. CASE ElifOtherFile
  <2>1. n > 0 /\ curcond \in Cond
    BY <1>10, CondTypes DEF ElifOtherFile, BranchOpen
  <2>2. [NewCond(FALSE, FALSE) EXCEPT !.state = "elif",
           !.parent_inactive = curcond.parent_inactive \/ curcond.branch_taken] \in Cond
    BY <2>1, CondTypes DEF Cond, NewCond
  <2>3. QED
    BY <1>10, <2>2, MaxCondsAssumption DEF ElifOtherFile, ErrorIf, TypeOK
<1>11. QED
  BY <1>1, <1>2, <1>3, <1>4, <1>5, <1>6, <1>7, <1>8, <1>9, <1>10 DEF Conditional

(* Every step keeps the types.                                             *)
LEMMA StepTypes == TypeOK /\ [Next]_vars => TypeOK'
<1>1. SUFFICES ASSUME TypeOK, [Next]_vars PROVE TypeOK'
  OBVIOUS
<1>2. CASE UNCHANGED vars
  BY <1>1, <1>2 DEF vars, TypeOK
<1>3. CASE level > 0 /\ Conditional
  BY <1>1, <1>3, ConditionalTypes
<1>4. ASSUME NEW operand \in BOOLEAN, NEW brace \in BOOLEAN, Ignore(operand, brace)
      PROVE  TypeOK'
  BY <1>1, <1>4 DEF Ignore, CloserMissing, ErrorIf, TypeOK
<1>5. ASSUME NEW name \in Names, ParseDirectiveDefine(name) PROVE TypeOK'
  BY <1>1, <1>5 DEF ParseDirectiveDefine, ErrorIf, Effect, TypeOK
<1>6. CASE FaultyDirective
  BY <1>1, <1>6 DEF FaultyDirective, ErrorIf, TypeOK
<1>7. ASSUME level > 0, NEW f \in Files, ParseDirectiveInclude(f) PROVE TypeOK'
  <2>1. usage' \in [Files -> 0..2] /\ \A g \in Files : usage[g] > 0 => usage'[g] > 0
    BY <1>1, <1>7 DEF ParseDirectiveInclude, LoadFile, TypeOK
  <2>2. usage'[f] > 0
    BY <1>1, <1>7 DEF ParseDirectiveInclude, LoadFile, TypeOK
  <2>3. reading' \in [1..MaxLevel -> Reading] /\ level' \in 0..MaxLevel
    <3>1. [file |-> f, first |-> usage[f] = 0, body |-> FALSE] \in Reading
      BY DEF Reading
    <3>2. QED
      BY <1>1, <1>7, <3>1, MaxLevelAssumption DEF ParseDirectiveInclude, TypeOK
  <2>4. \A l \in 1..level : reading'[l] = reading[l]
    BY <1>1, <1>7, MaxLevelAssumption DEF ParseDirectiveInclude, TypeOK
  <2>5. reading'[level + 1].file = f
    BY <1>1, <1>7, MaxLevelAssumption DEF ParseDirectiveInclude, TypeOK
  <2>6. reading'[1].file = MainFile
    BY <1>1, <1>7, <2>4 DEF TypeOK
  <2>7. \A l \in 1..level' : usage'[reading'[l].file] > 0
    <3>1. TAKE l \in 1..level'
    <3>2. CASE l \in 1..level
      BY <1>1, <2>1, <2>4, <3>2, MaxLevelAssumption DEF TypeOK, Reading
    <3>3. CASE l = level + 1
      BY <2>2, <2>5, <3>3
    <3>4. QED
      BY <1>1, <1>7, <3>2, <3>3 DEF ParseDirectiveInclude, TypeOK
  <2>8. stray' \in BOOLEAN
    BY <1>1, <1>7 DEF ParseDirectiveInclude, Effect, TypeOK
  <2>9. QED
    BY <1>1, <1>7, <2>1, <2>3, <2>6, <2>7, <2>8 DEF ParseDirectiveInclude, TypeOK
<1>8. ASSUME level > 0, LeaveFile,
             UNCHANGED <<cond, n, inactive, usage, defined, accepted, blamed, stray>>
      PROVE  TypeOK'
  <2>1. reading' \in [1..MaxLevel -> Reading] /\ level' \in 0..MaxLevel
    BY <1>1, <1>8, CondTypes, MaxLevelAssumption DEF LeaveFile, TypeOK
  <2>2. /\ reading'[1].file = MainFile
        /\ \A l \in 1..level' : reading'[l] = reading[l]
    BY <1>1, <1>8, MaxLevelAssumption DEF LeaveFile, TypeOK, NoReading
  <2>3. QED
    BY <1>1, <1>8, <2>1, <2>2 DEF LeaveFile, TypeOK
<1>9. ASSUME level > 0, IncludeOnce, ~(usage[curfile] > 1) PROVE TypeOK'
  <2>1. /\ reading' \in [1..MaxLevel -> Reading]
        /\ \A l \in 1..MaxLevel : reading'[l].file = reading[l].file
    <3>1. reading' = [reading EXCEPT ![level] = [reading[level] EXCEPT !.body = TRUE]]
      BY <1>9 DEF IncludeOnce
    <3>2. ASSUME NEW r \in Reading
          PROVE  /\ [r EXCEPT !.body = TRUE] \in Reading
                 /\ [r EXCEPT !.body = TRUE].file = r.file
      BY DEF Reading
    <3>3. reading[level] \in Reading
      BY <1>1, <1>9 DEF TypeOK
    <3>4. QED
      BY <1>1, <3>1, <3>2, <3>3 DEF TypeOK
  <2>2. QED
    BY <1>1, <1>9, <2>1, MaxLevelAssumption DEF IncludeOnce, TypeOK
<1>10. QED
  BY <1>1, <1>2, <1>3, <1>4, <1>5, <1>6, <1>7, <1>8, <1>9
  DEF Next, EndOfFile, IncludeOnce

(* The chain, the include stack and the use counts stay well formed: each  *)
(* end of a file goes back to the file that included it, down to the main  *)
(* file.                                                                   *)
THEOREM TypeCorrect == Spec => []TypeOK
BY InitTypes, StepTypes, PTL DEF Spec

-----------------------------------------------------------------------------
(* The meaning of the conditionals                                         *)

(* A conditional opened in known surroundings is known itself.             *)
LEMMA StartChain ==
  ASSUME TypeOK, Chain, NEW taken \in BOOLEAN, NEW t \in BOOLEAN, Start(taken, t),
         inactive' = (inactive \/ ~t),
         ~inactive => (taken <=> t)
  PROVE  Chain'
<1>1. /\ n \in 0..MaxConds /\ n < MaxConds /\ n' = n + 1
      /\ \A i \in 1..n : cond'[i] = cond[i]
      /\ cond'[n + 1] = NewCond(taken, t)
  BY MaxCondsAssumption DEF Start, TypeOK
<1>2. /\ cond'[n + 1].sel = t /\ cond'[n + 1].seen = t
      /\ cond'[n + 1].parent_inactive = inactive
      /\ cond'[n + 1].branch_taken = taken
  BY <1>1 DEF NewCond, ParentInactive
<1>3. Selected' <=> Selected /\ t
  BY <1>1, <1>2 DEF Selected
<1>4. ParentsKnown'
  <2>1. SUFFICES ASSUME NEW i \in 1..(n + 1)
                 PROVE  cond'[i].parent_inactive <=> \E j \in 1..(i - 1) : ~cond'[j].sel
    BY <1>1 DEF ParentsKnown
  <2>2. \A j \in 1..(i - 1) : cond'[j].sel = cond[j].sel
    BY <1>1
  <2>3. CASE i \in 1..n
    BY <1>1, <2>2, <2>3 DEF Chain, ParentsKnown
  <2>4. CASE i = n + 1
    BY <1>1, <1>2, <2>2, <2>4 DEF Chain, Selected
  <2>5. QED
    BY <1>1, <2>3, <2>4
<1>5. BranchesKnown'
  <2>1. SUFFICES ASSUME NEW i \in 1..(n + 1)
                 PROVE  /\ cond'[i].sel => cond'[i].seen
                        /\ ~cond'[i].parent_inactive /\ cond'[i].state # "else"
                             => (cond'[i].branch_taken <=> cond'[i].seen)
    BY <1>1 DEF BranchesKnown
  <2>2. CASE i \in 1..n
    BY <1>1, <2>2 DEF Chain, BranchesKnown
  <2>3. CASE i = n + 1
    BY <1>2, <2>3
  <2>4. QED
    BY <1>1, <2>2, <2>3
<1>6. QED
  BY <1>3, <1>4, <1>5 DEF Chain, TypeOK

(* The innermost conditional goes on with another branch c.                *)
LEMMA BranchChain ==
  ASSUME TypeOK, Chain, n > 0, n' = n, NEW STATE c, c \in Cond,
         cond' = [cond EXCEPT ![n] = c],
         c.parent_inactive = curcond.parent_inactive,
         c.sel => c.seen,
         ~c.parent_inactive /\ c.state # "else" => (c.branch_taken <=> c.seen),
         inactive' <=> c.parent_inactive \/ ~c.sel
  PROVE  Chain'
<1>1. /\ n \in 1..MaxConds
      /\ \A i \in 1..(n - 1) : cond'[i] = cond[i]
      /\ cond'[n] = c
  BY DEF TypeOK
<1>2. curcond.parent_inactive <=> \E j \in 1..(n - 1) : ~cond[j].sel
  BY <1>1 DEF Chain, ParentsKnown, curcond
<1>3. Selected' <=> c.sel /\ \A j \in 1..(n - 1) : cond[j].sel
  BY <1>1 DEF Selected
<1>4. ParentsKnown'
  <2>1. SUFFICES ASSUME NEW i \in 1..n
                 PROVE  cond'[i].parent_inactive <=> \E j \in 1..(i - 1) : ~cond'[j].sel
    BY DEF ParentsKnown
  <2>2. \A j \in 1..(i - 1) : cond'[j].sel = cond[j].sel
    BY <1>1
  <2>3. cond'[i].parent_inactive = cond[i].parent_inactive
    BY <1>1 DEF curcond
  <2>4. QED
    BY <2>2, <2>3 DEF Chain, ParentsKnown
<1>5. BranchesKnown'
  BY <1>1 DEF Chain, BranchesKnown
<1>6. QED
  BY <1>2, <1>3, <1>4, <1>5 DEF Chain

(* An #elif of any kind without an error.                                  *)
LEMMA ContinueChain ==
  ASSUME TypeOK, level > 0, Chain, ~stray, NEW t \in BOOLEAN, NEW faulty \in BOOLEAN,
         Continue(t, faulty), Skipped \/ ~faulty
  PROVE  Chain' /\ ~stray'
<1> DEFINE c == [curcond EXCEPT !.state = "elif",
                   !.branch_taken = @ \/ (~Skipped /\ t /\ ~faulty),
                   !.sel = t /\ ~curcond.seen, !.seen = @ \/ t]
<1>1. n \in 1..MaxConds /\ curcond \in Cond /\ curcond.state # "else"
  BY CondTypes DEF Continue, BranchOpen, TypeOK
<1>2. /\ c \in Cond
      /\ c.parent_inactive = curcond.parent_inactive
      /\ c.branch_taken = (curcond.branch_taken \/ (~Skipped /\ t /\ ~faulty))
      /\ c.sel = (t /\ ~curcond.seen)
      /\ c.seen = (curcond.seen \/ t)
  BY <1>1 DEF Cond, Skipped
<1>3. /\ curcond.parent_inactive <=> \E j \in 1..(n - 1) : ~cond[j].sel
      /\ ~curcond.parent_inactive => (curcond.branch_taken <=> curcond.seen)
  BY <1>1 DEF Chain, ParentsKnown, BranchesKnown, curcond
<1>4. n' = n /\ cond' = [cond EXCEPT ![n] = c] /\ inactive' = (Skipped \/ ~t \/ faulty)
  BY DEF Continue
<1> HIDE DEF c
<1>5. Chain'
  <2>1. ~c.parent_inactive => (c.branch_taken <=> c.seen)
    BY <1>2, <1>3 DEF Skipped
  <2>2. inactive' <=> c.parent_inactive \/ ~c.sel
    BY <1>2, <1>3, <1>4 DEF Skipped
  <2>3. c.sel => c.seen
    BY <1>2
  <2>4. /\ n > 0 /\ n' = n /\ c \in Cond /\ cond' = [cond EXCEPT ![n] = c]
        /\ c.parent_inactive = curcond.parent_inactive
        /\ c.sel => c.seen
        /\ inactive' <=> c.parent_inactive \/ ~c.sel
        /\ ~c.parent_inactive /\ c.state # "else" => (c.branch_taken <=> c.seen)
    BY <1>1, <1>2, <1>4, <2>1, <2>2, <2>3
  <2>5. QED
    BY <2>4, BranchChain
<1>6. ~stray'
  BY <1>3 DEF Continue, Skipped
<1>7. QED
  BY <1>5, <1>6

(* An #else of the file that opened the conditional.                       *)
LEMMA ElseChain ==
  ASSUME TypeOK, level > 0, Chain, Else, ~OtherFile
  PROVE  Chain'
<1> DEFINE c == [curcond EXCEPT !.state = "else", !.sel = ~curcond.seen, !.seen = TRUE]
<1>1. n \in 1..MaxConds /\ curcond \in Cond /\ curcond.state # "else"
  BY CondTypes DEF Else, BranchOpen, TypeOK
<1>2. /\ c \in Cond
      /\ c.parent_inactive = curcond.parent_inactive
      /\ c.state = "else"
      /\ c.sel = ~curcond.seen
      /\ c.seen = TRUE
  BY <1>1 DEF Cond
<1>3. ~curcond.parent_inactive => (curcond.branch_taken <=> curcond.seen)
  BY <1>1 DEF Chain, BranchesKnown, curcond
<1>4. /\ n' = n /\ cond' = [cond EXCEPT ![n] = c]
      /\ inactive' = (curcond.parent_inactive \/ curcond.branch_taken)
  BY DEF Else
<1> HIDE DEF c
<1>5. inactive' <=> c.parent_inactive \/ ~c.sel
  BY <1>2, <1>3, <1>4
<1>6. /\ n > 0 /\ n' = n /\ c \in Cond /\ cond' = [cond EXCEPT ![n] = c]
      /\ c.parent_inactive = curcond.parent_inactive
      /\ c.sel => c.seen
      /\ ~c.parent_inactive /\ c.state # "else" => (c.branch_taken <=> c.seen)
  BY <1>1, <1>2, <1>4
<1>7. QED
  BY <1>5, <1>6, BranchChain

(* Closing a conditional gives the text around it its own state back.      *)
LEMMA EndIfChain ==
  ASSUME TypeOK, Chain, EndIf
  PROVE  Chain'
<1>1. /\ n \in 1..MaxConds /\ n' = n - 1
      /\ \A i \in 1..(n - 1) : cond'[i] = cond[i]
      /\ inactive' = cond[n].parent_inactive
  BY DEF EndIf, TypeOK, curcond
<1>2. Selected' <=> \A j \in 1..(n - 1) : cond[j].sel
  BY <1>1 DEF Selected
<1>3. inactive' <=> ~Selected'
  BY <1>1, <1>2 DEF Chain, ParentsKnown
<1>4. ParentsKnown'
  <2>1. SUFFICES ASSUME NEW i \in 1..(n - 1)
                 PROVE  cond'[i].parent_inactive <=> \E j \in 1..(i - 1) : ~cond'[j].sel
    BY <1>1 DEF ParentsKnown
  <2>2. \A j \in 1..(i - 1) : cond'[j].sel = cond[j].sel
    BY <1>1
  <2>3. QED
    BY <1>1, <2>2 DEF Chain, ParentsKnown
<1>5. BranchesKnown'
  BY <1>1 DEF Chain, BranchesKnown
<1>6. QED
  BY <1>3, <1>4, <1>5 DEF Chain

(* An accepted conditional directive leaves a known chain, and has no      *)
(* effect in skipped text.                                                 *)
LEMMA ConditionalMeaning ==
  ASSUME TypeOK, level > 0, Chain, ~stray, accepted', Conditional
  PROVE  Chain' /\ ~stray'
<1>1. ASSUME NEW name \in Names, NEW negated \in BOOLEAN, IfDef(name, negated)
      PROVE  Chain' /\ ~stray'
  BY <1>1, StartChain DEF IfDef, Effect, Chain, TypeOK
<1>2. ASSUME NEW t \in BOOLEAN, NEW faulty \in BOOLEAN, NEW brace \in BOOLEAN,
             If(t, faulty, brace)
      PROVE  Chain' /\ ~stray'
  <2>1. inactive \/ ~faulty
    BY <1>2 DEF If, ErrorIf
  <2>2. ~stray'
    BY <1>2 DEF If, Effect, Chain
  <2>3. CASE inactive
    <3>1. Start(FALSE, t) /\ inactive' = (inactive \/ ~t)
      BY <1>2, <2>3 DEF If
    <3>2. QED
      BY <2>2, <2>3, <3>1, StartChain
  <2>4. CASE ~inactive
    <3>1. Start(t, t) /\ inactive' = (inactive \/ ~t)
      BY <1>2, <2>1, <2>4 DEF If
    <3>2. QED
      BY <2>2, <2>4, <3>1, StartChain
  <2>5. QED
    BY <2>3, <2>4
<1>3. ASSUME IfDefNoName \/ MisplacedEnd \/ MisplacedElif \/ ElifOtherFile
      PROVE  FALSE
  BY <1>3 DEF IfDefNoName, MisplacedEnd, MisplacedElif, ElifOtherFile, ErrorIf
<1>4. ASSUME NEW name \in Names, NEW negated \in BOOLEAN, ElifDef(name, negated)
      PROVE  Chain' /\ ~stray'
  BY <1>4, ContinueChain DEF ElifDef
<1>5. ASSUME NEW t \in BOOLEAN, NEW faulty \in BOOLEAN, NEW brace \in BOOLEAN,
             Elif(t, faulty, brace)
      PROVE  Chain' /\ ~stray'
  <2>1. Continue(t, faulty) /\ (Skipped \/ ~faulty)
    BY <1>5 DEF Elif, ErrorIf
  <2>2. QED
    BY <2>1, ContinueChain
<1>6. ASSUME NEW negated \in BOOLEAN, ElifDefNoName(negated) PROVE FALSE
  BY <1>6 DEF ElifDefNoName, ErrorIf
<1>7. CASE EndIf
  BY <1>7, EndIfChain DEF EndIf
<1>8. CASE Else
  <2>1. ~OtherFile /\ ~stray'
    BY <1>8 DEF Else, ErrorIf
  <2>2. QED
    BY <1>8, <2>1, ElseChain
<1>9. QED
  BY <1>1, <1>2, <1>3, <1>4, <1>5, <1>6, <1>7, <1>8 DEF Conditional

(* A step that leaves the conditionals alone, and takes effect in active   *)
(* text only, keeps their meaning.                                         *)
LEMMA SameChain ==
  ASSUME Chain, UNCHANGED <<cond, n, inactive>>
  PROVE  Chain'
BY DEF Chain, Selected, ParentsKnown, BranchesKnown

(* A reported error is not taken back.                                     *)
LEMMA ErrorsStay == TypeOK /\ [Next]_vars => (accepted' => accepted)
BY DEF TypeOK, Next, vars, Conditional, IfDef, If, IfDefNoName, EndIf, Else,
       MisplacedEnd, MisplacedElif, ElifOtherFile, ElifDef, Elif, ElifDefNoName,
       Ignore, ParseDirectiveDefine, FaultyDirective, ParseDirectiveInclude,
       EndOfFile, IncludeOnce, ErrorIf, CloserMissing

LEMMA StepMeaning == TypeOK /\ Meaning /\ [Next]_vars => Meaning'
<1>1. SUFFICES ASSUME TypeOK, Meaning, [Next]_vars, accepted'
               PROVE  Chain' /\ ~stray'
  BY DEF Meaning
<1>2. Chain /\ ~stray
  BY <1>1, ErrorsStay DEF Meaning
<1>3. CASE level > 0 /\ Conditional
  BY <1>1, <1>2, <1>3, ConditionalMeaning
<1>4. ASSUME UNCHANGED <<cond, n, inactive, stray>> PROVE Chain' /\ ~stray'
  BY <1>2, <1>4, SameChain
<1>5. ASSUME CarriedOut, Effect(TRUE), UNCHANGED <<cond, n, inactive>>
      PROVE  Chain' /\ ~stray'
  BY <1>2, <1>5, SameChain DEF CarriedOut, Effect, Chain
<1>6. QED
  BY <1>1, <1>3, <1>4, <1>5
  DEF Next, vars, Ignore, ParseDirectiveDefine, FaultyDirective,
      ParseDirectiveInclude, EndOfFile, IncludeOnce

(* The first text is active and outside of all conditionals.               *)
LEMMA InitMeaning == Init => Meaning
BY DEF Init, Meaning, Chain, Selected, ParentsKnown, BranchesKnown

(* For every nesting of conditionals in any files, text is compiled if and *)
(* only if the conditionals select it, as long as no error was reported.   *)
THEOREM ActiveMeansSelected == Spec => []ActiveIsSelected
<1>1. Meaning => ActiveIsSelected
  BY DEF Meaning, Chain, ActiveIsSelected
<1>2. QED
  BY <1>1, InitTypes, StepTypes, InitMeaning, StepMeaning, PTL DEF Spec

(* Skipped text defines nothing, includes nothing and has no condition     *)
(* evaluated.                                                              *)
THEOREM SkippedIsInert == Spec => []SkippedHasNoEffect
<1>1. Meaning => SkippedHasNoEffect
  BY DEF Meaning, SkippedHasNoEffect
<1>2. QED
  BY <1>1, InitTypes, StepTypes, InitMeaning, StepMeaning, PTL DEF Spec

-----------------------------------------------------------------------------
(* Files                                                                   *)

(* A file closes and continues its own conditionals only: a conditional    *)
(* of another file that is open when a file is read is not touched by it.  *)
THEOREM OthersUntouched == Spec => OtherFilesUntouched
<1>1. ASSUME TypeOK, [Next]_vars, accepted', NEW i \in 1..n, level > 0,
             cond[i].file # curfile
      PROVE  i <= n' /\ cond'[i] = cond[i]
  <2>1. n \in 1..MaxConds /\ i \in 1..MaxConds
    BY <1>1, MaxCondsAssumption DEF TypeOK
  <2>2. ASSUME NEW taken, NEW t, Start(taken, t) PROVE i <= n' /\ cond'[i] = cond[i]
    BY <1>1, <2>1, <2>2 DEF Start, TypeOK
  <2>3. ASSUME NEW t, NEW faulty, Continue(t, faulty)
        PROVE  i <= n' /\ cond'[i] = cond[i]
    <3>1. i # n
      BY <1>1, <2>3 DEF Continue, OtherFile, curcond
    <3>2. QED
      BY <1>1, <2>1, <2>3, <3>1 DEF Continue, TypeOK
  <2>4. CASE EndIf
    <3>1. i # n
      BY <1>1, <2>4 DEF EndIf, ErrorIf, OtherFile, curcond
    <3>2. QED
      BY <1>1, <2>1, <2>4, <3>1 DEF EndIf, TypeOK
  <2>5. CASE Else
    <3>1. i # n /\ ~OtherFile
      BY <1>1, <2>5 DEF Else, ErrorIf, OtherFile, curcond
    <3>2. n' = n /\ \E c : cond' = [cond EXCEPT ![n] = c]
      BY <2>5, <3>1 DEF Else
    <3>3. QED
      BY <1>1, <2>1, <3>1, <3>2 DEF TypeOK
  <2>6. ASSUME MisplacedEnd \/ MisplacedElif \/ ElifOtherFile PROVE FALSE
    BY <1>1, <2>6 DEF MisplacedEnd, MisplacedElif, ElifOtherFile, ErrorIf
  <2>7. CASE UNCHANGED <<cond, n>>
    BY <2>1, <2>7
  <2>8. QED
    BY <1>1, <2>2, <2>3, <2>4, <2>5, <2>6, <2>7
    DEF Next, vars, Conditional, IfDef, If, IfDefNoName, ElifDef, Elif,
        ElifDefNoName, Ignore, ParseDirectiveDefine, FaultyDirective,
        ParseDirectiveInclude, EndOfFile, IncludeOnce
<1>2. TypeOK /\ [Next]_vars =>
        [accepted' => \A i \in 1..n :
           level > 0 /\ cond[i].file # curfile => i <= n' /\ cond'[i] = cond[i]]_vars
  BY <1>1
<1>3. QED
  BY <1>2, InitTypes, StepTypes, PTL DEF Spec, OtherFilesUntouched

(* A reading that is not its file's first finds the file counted.          *)
LEMMA StepCounted == TypeOK /\ Counted /\ [Next]_vars => Counted'
<1>1. SUFFICES ASSUME TypeOK, Counted, [Next]_vars PROVE Counted'
  OBVIOUS
<1>2. CASE UNCHANGED <<reading, level, usage>>
  BY <1>1, <1>2 DEF Counted
<1>3. ASSUME level > 0, NEW f \in Files, ParseDirectiveInclude(f) PROVE Counted'
  <2>1. /\ usage'[f] = (IF usage[f] < 2 THEN usage[f] + 1 ELSE 2)
        /\ \A g \in Files : usage[g] > 1 => usage'[g] > 1
    BY <1>1, <1>3 DEF ParseDirectiveInclude, LoadFile, TypeOK
  <2>2. /\ level' = level + 1
        /\ \A l \in 1..level : reading'[l] = reading[l] /\ reading[l].file \in Files
        /\ reading'[level + 1] = [file |-> f, first |-> usage[f] = 0, body |-> FALSE]
    BY <1>1, <1>3, MaxLevelAssumption DEF ParseDirectiveInclude, TypeOK, Reading
  <2>3. SUFFICES ASSUME NEW l \in 1..(level + 1)
                 PROVE  \/ reading'[l].first
                        \/ usage'[reading'[l].file] > 1 /\ ~reading'[l].body
    BY <2>2 DEF Counted
  <2>4. CASE l \in 1..level
    BY <1>1, <2>1, <2>2, <2>4 DEF Counted
  <2>5. CASE l = level + 1
    <3>1. usage[f] \in 0..2
      BY <1>1 DEF TypeOK
    <3>2. /\ reading'[l].first = (usage[f] = 0)
          /\ reading'[l].file = f
          /\ reading'[l].body = FALSE
      BY <2>2, <2>5
    <3>3. usage[f] = 0 \/ usage'[f] > 1
      BY <2>1, <3>1
    <3>4. QED
      BY <3>2, <3>3
  <2>6. QED
    BY <1>1, <2>3, <2>4, <2>5 DEF TypeOK
<1>4. ASSUME level > 0, LeaveFile, UNCHANGED usage PROVE Counted'
  <2>1. \A l \in 1..(level - 1) : reading'[l] = reading[l]
    BY <1>1, <1>4, MaxLevelAssumption DEF LeaveFile, TypeOK
  <2>2. QED
    BY <1>1, <1>4, <2>1 DEF LeaveFile, Counted, TypeOK
<1>5. ASSUME level > 0, IncludeOnce, ~(usage[curfile] > 1) PROVE Counted'
  <2>1. reading[level].first
    BY <1>1, <1>5 DEF Counted, TypeOK, curfile
  <2>2. reading' = [reading EXCEPT ![level] = [reading[level] EXCEPT !.body = TRUE]]
    BY <1>5 DEF IncludeOnce
  <2>3. ASSUME NEW r \in Reading PROVE [r EXCEPT !.body = TRUE].first = r.first
    BY DEF Reading
  <2>4. /\ reading'[level].first
        /\ \A l \in 1..(level - 1) : reading'[l] = reading[l]
    BY <1>1, <1>5, <2>1, <2>2, <2>3 DEF TypeOK
  <2>5. QED
    BY <1>1, <1>5, <2>4 DEF IncludeOnce, Counted, TypeOK
<1>6. QED
  BY <1>1, <1>2, <1>3, <1>4, <1>5
  DEF Next, vars, Conditional, IfDef, If, IfDefNoName, EndIf, Else, MisplacedEnd,
      MisplacedElif, ElifOtherFile, ElifDef, Elif, ElifDefNoName, Start, Continue,
      Ignore, ParseDirectiveDefine, FaultyDirective, EndOfFile, IncludeOnce

(* However files include each other, what follows the #include_once of a   *)
(* file is read at its first inclusion only.                               *)
THEOREM BodiesReadOnce == Spec => []BodyReadOnce
<1>1. Init => Counted
  BY MaxLevelAssumption DEF Init, Counted, NoReading
<1>2. Counted => BodyReadOnce
  BY DEF Counted, BodyReadOnce
<1>3. QED
  BY <1>1, <1>2, InitTypes, StepTypes, StepCounted, PTL DEF Spec

=============================================================================
