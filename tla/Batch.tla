------------------------------- MODULE Batch -------------------------------
(***************************************************************************)
(* What a batch run of the autotest runner promises, with no threads in    *)
(* sight: every file is taken once, at most as many at a time as there are *)
(* workers, each taken file gets one outcome, and one summary of all the   *)
(* outcomes is reported once every file has one.                           *)
(***************************************************************************)
EXTENDS TestResults

CONSTANTS Files,        \* the collected test files
          Outcomes,     \* the outcomes a test file can have
          MaxParallel   \* bound on capacity

VARIABLES capacity,     \* how many files may be in work at the same time
          status,       \* per file: "todo", "taken" or "done"
          outcome,      \* per file: its counters
          report        \* the summaries printed so far: a set, at most one

vars == <<capacity, status, outcome, report>>

Taken == {f \in Files : status[f] = "taken"}

Init == /\ capacity \in 1..MaxParallel
        /\ status = [f \in Files |-> "todo"]
        /\ outcome = [f \in Files |-> NoOutcome]
        /\ report = {}

Take(f) == /\ status[f] = "todo"
           /\ Cardinality(Taken) < capacity
           /\ status' = [status EXCEPT ![f] = "taken"]
           /\ UNCHANGED <<capacity, outcome, report>>

Finish(f) == /\ status[f] = "taken"
             /\ \E o \in Outcomes : outcome' = [outcome EXCEPT ![f] = o]
             /\ status' = [status EXCEPT ![f] = "done"]
             /\ UNCHANGED <<capacity, report>>

Report == /\ \A f \in Files : status[f] = "done"
          /\ report = {}
          /\ report' = {Summary(outcome)}
          /\ UNCHANGED <<capacity, status, outcome>>

Next == Report \/ \E f \in Files : Take(f) \/ Finish(f)

Spec == Init /\ [][Next]_vars

(* The summary is printed in the end. *)
Reported == <>(report # {})
=============================================================================
