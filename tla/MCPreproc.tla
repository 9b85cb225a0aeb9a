----------------------------- MODULE MCPreproc -----------------------------
(* The main file, a file to include and a third inclusion level for a file  *)
(* that is read again or includes itself; conditionals three deep, so that  *)
(* one of them can be wrapped in and can wrap others across files.          *)
EXTENDS Preproc
=============================================================================
