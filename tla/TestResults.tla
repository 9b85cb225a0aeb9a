---------------------------- MODULE TestResults ----------------------------
(***************************************************************************)
(* The outcome of one test file and the summary of a batch of them, shared *)
(* by the abstract batch (Batch) and by the threaded runner (AtRunner).    *)
(* An outcome keeps the counters of OTestFile that the summary reads; the  *)
(* messages and the captured program output are left out.                  *)
(***************************************************************************)
EXTENDS Naturals, FiniteSets, FiniteSetsExt

Outcome == [exec_run : BOOLEAN, exec_err : BOOLEAN,
            errorcnt_tf : Nat, errorcnt_run : Nat, errorcnt_err : Nat]

NoOutcome == [exec_run |-> FALSE, exec_err |-> FALSE,
              errorcnt_tf |-> 0, errorcnt_run |-> 0, errorcnt_err |-> 0]

(***************************************************************************)
(* What OAtRunner::ProcessResults adds up over the files: an error counter *)
(* counts only for a file whose variant was executed, and an unusable test *)
(* file counts once however many errors its text has.                      *)
(***************************************************************************)
Summary(out) ==
  LET RunFiles == {f \in DOMAIN out : out[f].exec_run}
      ErrFiles == {f \in DOMAIN out : out[f].exec_err}
  IN  [testcnt_run        |-> Cardinality(RunFiles),
       testcnt_err        |-> Cardinality(ErrFiles),
       errorcnt_run       |-> MapThenSumSet(LAMBDA f : out[f].errorcnt_run, RunFiles),
       errorcnt_err       |-> MapThenSumSet(LAMBDA f : out[f].errorcnt_err, ErrFiles),
       errorcnt_run_files |-> Cardinality({f \in RunFiles : out[f].errorcnt_run > 0}),
       errorcnt_err_files |-> Cardinality({f \in ErrFiles : out[f].errorcnt_err > 0}),
       invalid_tf_cnt     |-> Cardinality({f \in DOMAIN out : out[f].errorcnt_tf > 0})]
=============================================================================
