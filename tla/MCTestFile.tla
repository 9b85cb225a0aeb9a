----------------------------- MODULE MCTestFile -----------------------------
(* Two texts besides the empty one, one of which starts with the other, and *)
(* a few markers, of one kind or of both, on one line or on two.            *)
EXTENDS TestFile
CONSTANTS t, tx
MCLonger == {<<tx, t>>, <<t, Empty>>, <<tx, Empty>>}
=============================================================================
