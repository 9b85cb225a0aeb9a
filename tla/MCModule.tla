------------------------------ MODULE MCModule ------------------------------
(* The parts of a module's compilation on their small instances: its       *)
(* declarations and calls, its expressions and the bodies of its           *)
(* functions.  The parts share no variable, so in a behaviour one of them  *)
(* moves and the others stay where they start: their product would show    *)
(* nothing more of any of them.                                            *)
EXTENDS MCCalls, MCExpr, MCBody

MCInit == Init /\ ExprInit /\ BodyInit

CallsMove == ExprInit /\ BodyInit /\ UNCHANGED <<exprVars, bodyVars>> /\ Next
ExprMoves == Init /\ BodyInit /\ UNCHANGED <<vars, bodyVars>> /\ ExprNext
BodyMoves == Init /\ ExprInit /\ UNCHANGED <<vars, exprVars>> /\ BodyNext

MCNext == CallsMove \/ ExprMoves \/ BodyMoves

MCSpec == MCInit /\ [][MCNext]_<<vars, exprVars, bodyVars>>

ModuleTypeOK == TypeOK /\ ExprTypeOK /\ BodyTypeOK
=============================================================================
