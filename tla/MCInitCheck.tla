---------------------------- MODULE MCInitCheck ----------------------------
(* Two variables under one level of nesting, and under two levels as long  *)
(* as the program touches the result only.  The second, a variable with an  *)
(* initializer or one without, shows that a flag depends on the statements  *)
(* for its own variable only, and differs from the result in that a return  *)
(* with a value does not assign it.                                         *)
EXTENDS InitCheck

Touched(v) == \/ v \in initialized \cup leaked \cup missed
              \/ \E i \in 0..depth : v \in frame[i].firstassign

Bound == depth < 2 \/ ~\E v \in Vars \ {Result} : Touched(v)
=============================================================================
