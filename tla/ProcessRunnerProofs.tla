------------------------ MODULE ProcessRunnerProofs ------------------------
(***************************************************************************)
(* Safety of OProcessRunner::Run for any number of threads that call it at *)
(* the same time, and any programs.  The invariant says, for each thread   *)
(* by the place it is at, which ends of its own pipes may be open in this  *)
(* process and what has become of its child.                               *)
(***************************************************************************)
EXTENDS ProcessRunner, TLAPS

(* Which of its pipes a thread may hold ends of: none before it opened     *)
(* them and after it is done, only the output pipes until the third one is *)
(* open, no write end once the child has its own, and at last only the     *)
(* read end of the exec error pipe.                                        *)
WriteEnds(r) == wr[Parent] \cap PipesOf(r)
ReadEnds(r)  == rd \cap PipesOf(r)

EndsInv == \A r \in Runners :
  /\ pc[r] \in {"call", "poll", "wait", "waitsetup", "readerror", "done"} => WriteEnds(r) = {}
  /\ pc[r] \in {"call", "waitsetup", "done"} => ReadEnds(r) = {}
  /\ pc[r] = "openexec" => ExecPipe(r) \notin wr[Parent] \cup rd
  /\ pc[r] = "readerror" => ReadEnds(r) \subseteq {ExecPipe(r)}

(* There is no child before the fork, there is one while the thread reads  *)
(* its output and waits for it, and none is left to be waited for after.   *)
ChildInv == \A r \in Runners :
  /\ pc[r] \in {"call", "openexec", "mark", "fork"} => prog[Child(r)] = "none"
  /\ pc[r] \in {"closewrite", "poll", "wait", "waitsetup"} =>
       prog[Child(r)] \in {"setup", "running", "zombie"}
  /\ pc[r] = "readerror" => prog[Child(r)] = "reaped"
  /\ pc[r] = "done" => prog[Child(r)] \in {"none", "reaped"}

(* A child that has ended, and neither wrote to the exec error pipe nor    *)
(* was killed by its thread, was executed and ended on its own.            *)
StatusInv == \A r \in Runners :
  /\ Ended(Child(r)) /\ errinfo[r] = 0 /\ ~timed_out[r] /\ ~poll_failed[r] =>
       status[r] \in ProgramEnds
  /\ returned[r] = "true" =>
       /\ pc[r] = "done" /\ Ended(Child(r))
       /\ Succeeded(r) /\ exit_code[r] = status[r]

IInv == TypeOK /\ EndsInv /\ ChildInv /\ StatusInv

-----------------------------------------------------------------------------
(* The programs of the runners, and this process, are all different.       *)
LEMMA ProcessesDiffer ==
  /\ Parent \in Processes /\ Programs \subseteq Processes /\ Parent \notin Programs
  /\ \A r \in Runners : Child(r) \in Programs /\ Grandchild(r) \in Programs
  /\ \A r, s \in Runners : /\ Child(r) # Grandchild(s)
                           /\ r # s => Child(r) # Child(s)
BY DEF Parent, Processes, Programs, Child, Grandchild

(* Pipes have one owner, and the exec error pipe is not an output pipe.    *)
LEMMA PipesDiffer ==
  /\ \A r \in Runners : /\ IoPipes(r) \subseteq Pipes /\ ExecPipe(r) \in Pipes
                        /\ ExecPipe(r) \notin IoPipes(r)
                        /\ PipesOf(r) \subseteq Pipes
  /\ \A r, s \in Runners : r # s => PipesOf(r) \cap PipesOf(s) = {}
BY DEF IoPipes, ExecPipe, PipesOf, Pipes, Streams

(* The statuses and codes the types name.                                  *)
LEMMA Codes ==
  /\ {INVALID_ARGS, PIPE_CREATE, FORK, SETUP, TIMEOUT, POLL} \subseteq ErrorCodes
  /\ 0 \in Statuses /\ 127 \in Statuses /\ -SIGKILL \in Statuses
  /\ ProgramEnds \subseteq Statuses
  /\ CHDIR # 0 /\ EXEC # 0
BY ProgramEndsAssumption
DEF INVALID_ARGS, PIPE_CREATE, FORK, SETUP, TIMEOUT, POLL, ErrorCodes, Statuses, CHDIR, EXEC

-----------------------------------------------------------------------------
(* Types                                                                   *)

LEMMA InitTypes == Init => TypeOK
BY Codes DEF Init, TypeOK

LEMMA StepTypes == TypeOK /\ [Next]_vars => TypeOK'
<1> SUFFICES ASSUME TypeOK, [Next]_vars
             PROVE  TypeOK'
  OBVIOUS
<1> USE DEF TypeOK, Return, Goto, Open, CloseWrite, CloseRead, DropAll, KillChild, WaitPid,
            fixed, fds, loc
<1>1. ASSUME NEW r \in Runners, RunStep(r)
      PROVE  TypeOK'
  <2>1. CASE OpenStreams(r)
    BY <2>1, PipesDiffer, ProcessesDiffer DEF OpenStreams
  <2>2. CASE OpenExecError(r)
    BY <2>2, PipesDiffer, ProcessesDiffer DEF OpenExecError
  <2>3. CASE SetCloseOnExec(r)
    BY <2>3, PipesDiffer, ProcessesDiffer DEF SetCloseOnExec, MarkCloseOnExec
  <2>4. CASE Fork(r)
    BY <2>4, PipesDiffer, ProcessesDiffer DEF Fork
  <2>5. CASE CloseWriteEnds(r)
    BY <2>5, PipesDiffer, ProcessesDiffer DEF CloseWriteEnds
  <2>6. CASE ReadToEof(r)
    BY <2>6 DEF ReadToEof
  <2>7. CASE DeadlinePasses(r)
    BY <2>7, ProcessesDiffer, Codes DEF DeadlinePasses
  <2>8. CASE WaitChild(r)
    BY <2>8, ProcessesDiffer DEF WaitChild
  <2>9. CASE FinishRun(r)
    <3>1. FinalCode(r) \in ErrorCodes \cup Statuses
      BY Codes DEF FinalCode
    <3> QED
      BY <2>9, <3>1 DEF FinishRun
  <2>10. CASE WaitAfterSetup(r)
    BY <2>10, ProcessesDiffer, Codes DEF WaitAfterSetup
  <2> QED
    BY <1>1, <2>1, <2>2, <2>3, <2>4, <2>5, <2>6, <2>7, <2>8, <2>9, <2>10 DEF RunStep
<1>2. ASSUME NEW r \in Runners, RunFailure(r)
      PROVE  TypeOK'
  <2>1. CASE NoArgs(r)
    BY <2>1, Codes DEF NoArgs
  <2>2. CASE OpenFails(r)
    BY <2>2, Codes, ProcessesDiffer DEF OpenFails
  <2>3. CASE SetupFails(r)
    BY <2>3, Codes, ProcessesDiffer DEF SetupFails
  <2>4. CASE NonBlockingFails(r)
    BY <2>4, ProcessesDiffer DEF NonBlockingFails
  <2>5. CASE PollFails(r)
    BY <2>5, ProcessesDiffer, Codes DEF PollFails
  <2> QED
    BY <1>2, <2>1, <2>2, <2>3, <2>4, <2>5 DEF RunFailure
<1>3. ASSUME NEW r \in Runners, SetupChildFails(r) \/ ExecChild(r)
      PROVE  TypeOK'
  BY <1>3, ProcessesDiffer, Codes DEF SetupChildFails, ExecChild
<1>4. ASSUME NEW r \in Runners, ProgramStep(r)
      PROVE  TypeOK'
  BY <1>4, ProcessesDiffer, Codes
  DEF ProgramStep, StartGrandchild, CloseOutput, ChildExits, GrandchildExits
<1>5. CASE UNCHANGED vars
  BY <1>5 DEF vars
<1> QED
  BY <1>1, <1>2, <1>3, <1>4, <1>5 DEF Next, AllDone

-----------------------------------------------------------------------------
(* Pipe ends.  A thread touches no pipe of another one, and what programs  *)
(* do to theirs leaves this process's ends alone.                          *)

OthersKept(r) ==
  \A s \in Runners \ {r} :
    pc'[s] = pc[s] /\ WriteEnds(s)' = WriteEnds(s) /\ ReadEnds(s)' = ReadEnds(s)

OwnEnds(r) ==
  /\ pc'[r] \in {"call", "poll", "wait", "waitsetup", "readerror", "done"} => WriteEnds(r)' = {}
  /\ pc'[r] \in {"call", "waitsetup", "done"} => ReadEnds(r)' = {}
  /\ pc'[r] = "openexec" => ExecPipe(r) \notin wr'[Parent] \cup rd'
  /\ pc'[r] = "readerror" => ReadEnds(r)' \subseteq {ExecPipe(r)}

LEMMA RunEnds ==
  ASSUME TypeOK, EndsInv, NEW r \in Runners, RunStep(r) \/ RunFailure(r)
  PROVE  OthersKept(r) /\ OwnEnds(r)
<1> USE ProcessesDiffer, PipesDiffer
    DEF TypeOK, Return, Goto, Open, CloseWrite, CloseRead, OthersKept, OwnEnds, WriteEnds, ReadEnds,
        fixed, fds, loc, UnusedEnds
<1>1. CASE OpenStreams(r)
  BY <1>1 DEF OpenStreams, EndsInv, PipesOf
<1>2. CASE OpenExecError(r)
  BY <1>2 DEF OpenExecError, PipesOf
<1>3. CASE SetCloseOnExec(r)
  BY <1>3 DEF SetCloseOnExec
<1>4. CASE Fork(r)
  BY <1>4 DEF Fork
<1>5. CASE CloseWriteEnds(r)
  BY <1>5 DEF CloseWriteEnds
<1>6. CASE ReadToEof(r)
  BY <1>6 DEF ReadToEof, EndsInv
<1>7. CASE DeadlinePasses(r)
  BY <1>7 DEF DeadlinePasses, KillChild, DropAll, EndsInv
<1>8. CASE WaitChild(r)
  BY <1>8 DEF WaitChild, WaitPid, EndsInv, PipesOf
<1>9. CASE FinishRun(r)
  BY <1>9 DEF FinishRun, EndsInv, PipesOf
<1>10. CASE WaitAfterSetup(r)
  BY <1>10 DEF WaitAfterSetup, WaitPid, EndsInv
<1>11. CASE NoArgs(r)
  BY <1>11 DEF NoArgs, EndsInv
<1>12. CASE OpenFails(r)
  BY <1>12 DEF OpenFails, EndsInv, PipesOf
<1>13. CASE SetupFails(r)
  BY <1>13 DEF SetupFails
<1>14. CASE NonBlockingFails(r)
  BY <1>14 DEF NonBlockingFails
<1>15. CASE PollFails(r)
  BY <1>15 DEF PollFails, KillChild, DropAll, EndsInv
<1> QED
  BY <1>1, <1>2, <1>3, <1>4, <1>5, <1>6, <1>7, <1>8, <1>9, <1>10, <1>11, <1>12, <1>13,
     <1>14, <1>15 DEF RunStep, RunFailure

LEMMA ProgramsKeepEnds ==
  ASSUME TypeOK, NEW r \in Runners, SetupChildFails(r) \/ ExecChild(r) \/ ProgramStep(r)
  PROVE  pc' = pc /\ wr'[Parent] = wr[Parent] /\ rd' = rd
BY ProcessesDiffer
DEF TypeOK, SetupChildFails, ExecChild, ProgramStep, StartGrandchild, CloseOutput, ChildExits,
    GrandchildExits, DropAll

LEMMA StepEnds == TypeOK /\ EndsInv /\ [Next]_vars => EndsInv'
<1> SUFFICES ASSUME TypeOK, EndsInv, [Next]_vars
             PROVE  EndsInv'
  OBVIOUS
<1>1. ASSUME NEW r \in Runners, RunStep(r) \/ RunFailure(r)
      PROVE  EndsInv'
  <2>1. OthersKept(r) /\ OwnEnds(r)
    BY <1>1, RunEnds
  <2>2. ASSUME NEW s \in Runners, s # r
        PROVE  pc'[s] = "openexec" => ExecPipe(s) \notin wr'[Parent] \cup rd'
    BY <2>1, <2>2 DEF EndsInv, OthersKept, WriteEnds, ReadEnds, PipesOf
  <2> QED
    BY <2>1, <2>2 DEF EndsInv, OthersKept, OwnEnds
<1>2. ASSUME NEW r \in Runners, SetupChildFails(r) \/ ExecChild(r) \/ ProgramStep(r)
      PROVE  EndsInv'
  BY <1>2, ProgramsKeepEnds DEF EndsInv, WriteEnds, ReadEnds
<1>3. CASE UNCHANGED vars
  BY <1>3 DEF vars, fds, EndsInv, WriteEnds, ReadEnds
<1> QED
  BY <1>1, <1>2, <1>3 DEF Next, AllDone

-----------------------------------------------------------------------------
(* Children.  Only its own thread and its own steps change what became of  *)
(* a child.                                                                *)

(* What a step of thread r, or of its programs, leaves of another thread.  *)
ChildrenKept(r) ==
  \A s \in Runners \ {r} :
    /\ pc'[s] = pc[s] /\ prog'[Child(s)] = prog[Child(s)]
    /\ status'[s] = status[s] /\ errinfo'[s] = errinfo[s]
    /\ timed_out'[s] = timed_out[s] /\ poll_failed'[s] = poll_failed[s]
    /\ exit_code'[s] = exit_code[s] /\ returned'[s] = returned[s]

(* ChildInv and StatusInv of one thread.                                   *)
ChildOk(r) ==
  /\ pc[r] \in {"call", "openexec", "mark", "fork"} => prog[Child(r)] = "none"
  /\ pc[r] \in {"closewrite", "poll", "wait", "waitsetup"} =>
       prog[Child(r)] \in {"setup", "running", "zombie"}
  /\ pc[r] = "readerror" => prog[Child(r)] = "reaped"
  /\ pc[r] = "done" => prog[Child(r)] \in {"none", "reaped"}

StatusOk(r) ==
  /\ Ended(Child(r)) /\ errinfo[r] = 0 /\ ~timed_out[r] /\ ~poll_failed[r] =>
       status[r] \in ProgramEnds
  /\ returned[r] = "true" =>
       /\ pc[r] = "done" /\ Ended(Child(r))
       /\ Succeeded(r) /\ exit_code[r] = status[r]

LEMMA RunChild ==
  ASSUME TypeOK, NEW r \in Runners, ChildOk(r), StatusOk(r), RunStep(r) \/ RunFailure(r)
  PROVE  ChildrenKept(r) /\ ChildOk(r)' /\ StatusOk(r)'
<1> USE ProcessesDiffer
    DEF TypeOK, Return, Goto, ChildrenKept, ChildOk, StatusOk, Ended, Succeeded, fixed, fds, loc
<1>1. CASE OpenStreams(r)
  BY <1>1 DEF OpenStreams
<1>2. CASE OpenExecError(r)
  BY <1>2 DEF OpenExecError
<1>3. CASE SetCloseOnExec(r)
  BY <1>3 DEF SetCloseOnExec
<1>4. CASE Fork(r)
  BY <1>4 DEF Fork
<1>5. CASE CloseWriteEnds(r)
  BY <1>5 DEF CloseWriteEnds
<1>6. CASE ReadToEof(r)
  BY <1>6 DEF ReadToEof
<1>7. CASE DeadlinePasses(r)
  BY <1>7 DEF DeadlinePasses, KillChild
<1>8. CASE WaitChild(r)
  BY <1>8 DEF WaitChild, WaitPid
<1>9. CASE FinishRun(r)
  BY <1>9 DEF FinishRun, FinalCode
<1>10. CASE WaitAfterSetup(r)
  BY <1>10 DEF WaitAfterSetup, WaitPid
<1>11. CASE NoArgs(r)
  BY <1>11 DEF NoArgs
<1>12. CASE OpenFails(r)
  BY <1>12 DEF OpenFails
<1>13. CASE SetupFails(r)
  BY <1>13 DEF SetupFails
<1>14. CASE NonBlockingFails(r)
  BY <1>14 DEF NonBlockingFails
<1>15. CASE PollFails(r)
  BY <1>15 DEF PollFails, KillChild
<1> QED
  BY <1>1, <1>2, <1>3, <1>4, <1>5, <1>6, <1>7, <1>8, <1>9, <1>10, <1>11, <1>12, <1>13,
     <1>14, <1>15 DEF RunStep, RunFailure

LEMMA ProgramChild ==
  ASSUME TypeOK, NEW r \in Runners, ChildOk(r), StatusOk(r),
         SetupChildFails(r) \/ ExecChild(r) \/ ProgramStep(r)
  PROVE  ChildrenKept(r) /\ ChildOk(r)' /\ StatusOk(r)'
<1> USE ProcessesDiffer, Codes
    DEF TypeOK, ChildrenKept, ChildOk, StatusOk, Ended, Succeeded, fixed, fds, loc
<1>1. CASE SetupChildFails(r)
  BY <1>1 DEF SetupChildFails
<1>2. CASE ExecChild(r)
  BY <1>2 DEF ExecChild
<1>3. CASE StartGrandchild(r)
  BY <1>3 DEF StartGrandchild
<1>4. CASE CloseOutput(r)
  BY <1>4 DEF CloseOutput
<1>5. CASE ChildExits(r)
  BY <1>5 DEF ChildExits
<1>6. CASE GrandchildExits(r)
  BY <1>6 DEF GrandchildExits
<1> QED
  BY <1>1, <1>2, <1>3, <1>4, <1>5, <1>6 DEF ProgramStep

LEMMA StepChildren ==
  TypeOK /\ ChildInv /\ StatusInv /\ [Next]_vars => ChildInv' /\ StatusInv'
<1> SUFFICES ASSUME TypeOK, ChildInv, StatusInv, [Next]_vars
             PROVE  \A s \in Runners : ChildOk(s)' /\ StatusOk(s)'
  BY DEF ChildInv, StatusInv, ChildOk, StatusOk
<1>1. \A s \in Runners : ChildOk(s) /\ StatusOk(s)
  BY DEF ChildInv, StatusInv, ChildOk, StatusOk
<1>2. ASSUME NEW r \in Runners, RunStep(r) \/ RunFailure(r) \/ SetupChildFails(r)
                                 \/ ExecChild(r) \/ ProgramStep(r)
      PROVE  \A s \in Runners : ChildOk(s)' /\ StatusOk(s)'
  <2>1. ChildrenKept(r) /\ ChildOk(r)' /\ StatusOk(r)'
    BY <1>1, <1>2, RunChild, ProgramChild
  <2>2. ASSUME NEW s \in Runners, s # r
        PROVE  ChildOk(s)' /\ StatusOk(s)'
    BY <1>1, <2>1, <2>2 DEF ChildrenKept, ChildOk, StatusOk, Ended, Succeeded
  <2> QED
    BY <2>1, <2>2
<1>3. CASE UNCHANGED vars
  BY <1>1, <1>3 DEF vars, loc, ChildOk, StatusOk, Ended, Succeeded
<1> QED
  BY <1>2, <1>3 DEF Next, AllDone

-----------------------------------------------------------------------------
(* The theorems                                                            *)

(* The inductive invariant holds in every reachable state.                 *)
THEOREM Inductive == Spec => []IInv
<1>1. Init => IInv
  <2>1. Init => EndsInv /\ ChildInv /\ StatusInv
    BY ProcessesDiffer
    DEF Init, EndsInv, ChildInv, StatusInv, WriteEnds, ReadEnds, Ended
  <2> QED
    BY <2>1, InitTypes DEF IInv
<1>2. IInv /\ [Next]_vars => IInv'
  BY StepTypes, StepEnds, StepChildren DEF IInv
<1> QED
  BY <1>1, <1>2, PTL DEF Spec

(* The state is well typed for any number of threads and any programs.     *)
THEOREM TypeCorrect == Spec => []TypeOK
<1>1. IInv => TypeOK
  BY DEF IInv
<1> QED
  BY <1>1, Inductive, PTL

(* On every way out of Run, the failures of every system call included,    *)
(* all ends of the call's pipes are closed in this process.                *)
THEOREM EndsAreClosed == Spec => []NoLeak
<1>1. IInv => NoLeak
  BY DEF IInv, EndsInv, NoLeak, WriteEnds, ReadEnds
<1> QED
  BY <1>1, Inductive, PTL

(* On every way out of Run there was no child yet or it was waited for.    *)
THEOREM ChildIsReaped == Spec => []NoZombie
<1>1. IInv => NoZombie
  BY DEF IInv, ChildInv, NoZombie
<1> QED
  BY <1>1, Inductive, PTL

(* True is returned only for a program that was executed, was not killed   *)
(* by its thread and whose own status is what exit_code says.              *)
THEOREM TrueIsHonest == Spec => []TrueMeansRan
<1>1. IInv => TrueMeansRan
  BY DEF IInv, StatusInv, TrueMeansRan, Succeeded
<1> QED
  BY <1>1, Inductive, PTL
=============================================================================
