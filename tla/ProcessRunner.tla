--------------------------- MODULE ProcessRunner ---------------------------
(***************************************************************************)
(* OProcessRunner::Run, called by several threads of one process at a time *)
(* (the workers of the autotest runner; dq-run has one thread), with the   *)
(* programs it starts.                                                     *)
(*                                                                         *)
(* What the code depends on is who holds which end of which pipe: the      *)
(* descriptor table is shared by the threads, fork copies it whole, exec   *)
(* closes what is marked close-on-exec, and a read end is at end of file   *)
(* when no process holds a write end.  A started program may start another *)
(* one that outlives it, or close its own output, unless `quiet'; whether  *)
(* it ever ends is its own affair.                                         *)
(*                                                                         *)
(* Left out: the bytes that go through the pipes (only end of file is),    *)
(* the clock (a deadline may pass at any time, and passes in the end), the *)
(* texts put into stderr_text, and EINTR, on which the loop goes round.    *)
(* waitpid does not fail: the child is this process's own and not yet      *)
(* waited for.  System calls that follow each other without a fork of      *)
(* their own in between (the two output pipes; the three closes; the       *)
(* closing of the output and waitpid) are one step.                        *)
(***************************************************************************)
EXTENDS Integers

CONSTANTS Runners,     \* the threads that call Run, once each
          ProgramEnds  \* how a program ends on its own: an exit status, or
                       \* the negated number of the signal that killed it

(* A program can end well.                                                 *)
ASSUME ProgramEndsAssumption == 0 \in ProgramEnds

Streams == {"out", "err"}
Pipes   == Runners \X (Streams \cup {"exec"})
IoPipes(r) == {r} \X Streams
ExecPipe(r) == <<r, "exec">>
PipesOf(r) == IoPipes(r) \cup {ExecPipe(r)}

Parent == <<"parent">>
Child(r) == <<"child", r>>          \* the program that runner r starts
Grandchild(r) == <<"grandchild", r>> \* a program started by that one
Programs == {"child", "grandchild"} \X Runners
Processes == {Parent} \cup Programs

INVALID_ARGS == -1000
PIPE_CREATE  == -1001
FORK         == -1002
SETUP        == -1003
CHDIR        == -1004
EXEC         == -1005
TIMEOUT      == -1006
POLL         == -1008
ErrorCodes   == POLL .. INVALID_ARGS
SIGKILL      == 9
Statuses     == ProgramEnds \cup {127, -SIGKILL}

VARIABLES
  timed,      \* per runner: exec_timeout_ms >= 0
  quiet,      \* whether programs neither start others nor close their output
  pc,         \* per runner: the next step of its Run
  wr,         \* per process: the pipes it holds a write end of
  clo,        \* per process: those of them marked close-on-exec
  rd,         \* the pipes this process holds a read end of
  prog,       \* per program: its life
  status,     \* per runner: how its child ended
  errinfo,    \* per runner: what its child wrote to the exec error pipe
  eof,        \* per runner: the streams at end of file (out_eof, err_eof)
  timed_out, poll_failed, exit_code,
  returned    \* per runner: what Run has returned

fds  == <<wr, clo, rd>>
loc  == <<eof, timed_out, poll_failed, exit_code, returned>>
fixed == <<timed, quiet>>
vars == <<fixed, fds, loc, pc, prog, status, errinfo>>

Init == /\ timed \in [Runners -> BOOLEAN]
        /\ quiet \in BOOLEAN
        /\ pc = [r \in Runners |-> "call"]
        /\ wr = [p \in Processes |-> {}]
        /\ clo = [p \in Processes |-> {}]
        /\ rd = {}
        /\ prog = [p \in Programs |-> "none"]
        /\ status = [r \in Runners |-> 0]
        /\ errinfo = [r \in Runners |-> 0]
        /\ eof = [r \in Runners |-> {}]
        /\ timed_out = [r \in Runners |-> FALSE]
        /\ poll_failed = [r \in Runners |-> FALSE]
        /\ exit_code = [r \in Runners |-> -1]
        /\ returned = [r \in Runners |-> "no"]

Goto(r, l) == pc' = [pc EXCEPT ![r] = l]

Return(r, code, what) ==
  /\ Goto(r, "done")
  /\ exit_code' = [exit_code EXCEPT ![r] = code]
  /\ returned' = [returned EXCEPT ![r] = what]

(* Opening and closing in this process; fcntl marks the write end.         *)
Open(ps) == /\ rd' = rd \cup ps
            /\ wr' = [wr EXCEPT ![Parent] = @ \cup ps]
            /\ UNCHANGED clo
CloseWrite(ps) == /\ wr' = [wr EXCEPT ![Parent] = @ \ ps]
                  /\ clo' = [clo EXCEPT ![Parent] = @ \ ps]

(* Mutant: the read end of the exec error pipe is forgotten                *)
CloseReadIo(ps) == rd' = rd \ (ps \cap (Runners \X Streams))

CloseRead(ps) == rd' = rd \ ps
MarkCloseOnExec(p) == clo' = [clo EXCEPT ![Parent] = @ \cup {p}]

AtEof(p) == \A q \in Processes : p \notin wr[q]
Ended(p) == prog[p] \in {"zombie", "reaped"}

(* What the end of a program does to its descriptors.                      *)
DropAll(p) == /\ wr' = [wr EXCEPT ![p] = {}]
              /\ clo' = [clo EXCEPT ![p] = {}]

(* kill(pid, SIGKILL) reaches the child only, and no more once it ended.   *)
(* Mutant: a signal that the program can ignore                            *)
IgnoredKill(r) == UNCHANGED <<fds, prog, status>>

KillChild(r) ==
  IF Ended(Child(r))
  THEN UNCHANGED <<fds, prog, status>>
  ELSE /\ DropAll(Child(r))
       /\ prog' = [prog EXCEPT ![Child(r)] = "zombie"]
       /\ status' = [status EXCEPT ![r] = -SIGKILL]
       /\ UNCHANGED rd

-----------------------------------------------------------------------------
(* Run: the pipes                                                          *)

NoArgs(r) ==
  /\ pc[r] = "call"
  /\ Return(r, INVALID_ARGS, "false")
  /\ UNCHANGED <<fixed, fds, eof, timed_out, poll_failed, prog, status, errinfo>>

(* pipe() for both output streams.                                         *)
OpenStreams(r) ==
  /\ pc[r] = "call"
  /\ Open(IoPipes(r))
  /\ Goto(r, "openexec")
  /\ UNCHANGED <<fixed, loc, prog, status, errinfo>>

(* pipe() fails: what was opened before is closed.                         *)
OpenFails(r) ==
  /\ pc[r] \in {"call", "openexec"}
  /\ CloseRead(IoPipes(r)) /\ CloseWrite(IoPipes(r))
  /\ Return(r, IF pc[r] = "openexec" THEN SETUP ELSE PIPE_CREATE, "false")
  /\ UNCHANGED <<fixed, eof, timed_out, poll_failed, prog, status, errinfo>>

(* PrepareExecErrorPipe: the pipe exists before its mark does.             *)
OpenExecError(r) ==
  /\ pc[r] = "openexec"
  /\ Open({ExecPipe(r)})
  /\ Goto(r, "mark")
  /\ UNCHANGED <<fixed, loc, prog, status, errinfo>>

SetCloseOnExec(r) ==
  /\ pc[r] = "mark"
  /\ MarkCloseOnExec(ExecPipe(r))
  /\ Goto(r, "fork")
  /\ UNCHANGED <<fixed, loc, wr, rd, prog, status, errinfo>>

(* fcntl or fork fails: all six ends are closed.                           *)
SetupFails(r) ==
  /\ pc[r] \in {"mark", "fork"}
  /\ CloseRead(PipesOf(r)) /\ CloseWrite(PipesOf(r))
  /\ Return(r, IF pc[r] = "mark" THEN SETUP ELSE FORK, "false")
  /\ UNCHANGED <<fixed, eof, timed_out, poll_failed, prog, status, errinfo>>

(* fork copies every descriptor there is, the other runners' ones too.     *)
Fork(r) ==
  /\ pc[r] = "fork"
  /\ prog' = [prog EXCEPT ![Child(r)] = "setup"]
  /\ wr' = [wr EXCEPT ![Child(r)] = wr[Parent]]
  /\ clo' = [clo EXCEPT ![Child(r)] = clo[Parent]]
  /\ Goto(r, "closewrite")
  /\ UNCHANGED <<fixed, loc, rd, status, errinfo>>

(* Mutant: the output ends stay open in this process                       *)
OnlyExecPipe(r) == {ExecPipe(r)}

UnusedEnds(r) == PipesOf(r)

CloseWriteEnds(r) ==
  /\ pc[r] = "closewrite"
  /\ CloseWrite(UnusedEnds(r))
  /\ Goto(r, "poll")
  /\ UNCHANGED <<fixed, loc, rd, prog, status, errinfo>>

(* fcntl throws in SetNonBlocking: the other ends are closed too.          *)
NonBlockingFails(r) ==
  /\ pc[r] = "closewrite"
  /\ CloseWrite(UnusedEnds(r)) /\ CloseRead(PipesOf(r))
  /\ Goto(r, "waitsetup")
  /\ UNCHANGED <<fixed, loc, prog, status, errinfo>>

(* waitpid blocks until the child has ended, and takes its status.         *)
(* Mutant: waitpid(WNOHANG)                                                *)
WaitNoHang(r) == prog' = IF prog[Child(r)] = "zombie"
                         THEN [prog EXCEPT ![Child(r)] = "reaped"] ELSE prog

WaitPid(r) == /\ prog[Child(r)] = "zombie"
              /\ prog' = [prog EXCEPT ![Child(r)] = "reaped"]

WaitAfterSetup(r) ==
  /\ pc[r] = "waitsetup"
  /\ WaitPid(r)
  /\ Return(r, SETUP, "false")
  /\ UNCHANGED <<fixed, fds, eof, timed_out, poll_failed, status, errinfo>>

-----------------------------------------------------------------------------
(* Run: the poll loop and what follows it                                  *)

ReadToEof(r) == \E s \in Streams \ eof[r] :
  /\ pc[r] = "poll"
  /\ AtEof(<<r, s>>)
  /\ eof' = [eof EXCEPT ![r] = @ \cup {s}]
  /\ Goto(r, IF eof'[r] = Streams THEN "wait" ELSE "poll")
  /\ UNCHANGED <<fixed, fds, timed_out, poll_failed, exit_code, returned,
                 prog, status, errinfo>>

(* The time is up: the child is killed once, and the loop goes on, now     *)
(* without a time limit, until both streams are at end of file.            *)
DeadlinePasses(r) ==
  /\ pc[r] = "poll"
  /\ timed[r] /\ ~timed_out[r]
  /\ KillChild(r)
  /\ timed_out' = [timed_out EXCEPT ![r] = TRUE]
  /\ UNCHANGED <<fixed, pc, eof, poll_failed, exit_code, returned, errinfo>>

PollFails(r) ==
  /\ pc[r] = "poll"
  /\ KillChild(r)
  /\ poll_failed' = [poll_failed EXCEPT ![r] = TRUE]
  /\ Goto(r, "wait")
  /\ UNCHANGED <<fixed, eof, timed_out, exit_code, returned, errinfo>>

(* The output ends are closed and waitpid returns once the child ended.    *)
WaitChild(r) ==
  /\ pc[r] = "wait"
  /\ CloseRead(IoPipes(r))
  /\ WaitPid(r)
  /\ Goto(r, "readerror")
  /\ UNCHANGED <<fixed, wr, clo, loc, status, errinfo>>

(* ReadExecError blocks until something was written or the pipe is at end  *)
(* of file.                                                                *)
ExecErrorReadable(r) == errinfo[r] # 0 \/ AtEof(ExecPipe(r))

(* The status replaces what ReadExecError put into exit_code, and the      *)
(* results of the loop replace the status.                                 *)
(* Mutant: death by a signal is reported as a shell does it                *)
ShellCode(r) == IF errinfo[r] # 0 THEN status[r]
                ELSE IF timed_out[r] THEN TIMEOUT
                ELSE IF poll_failed[r] THEN POLL
                ELSE IF status[r] < 0 THEN 128 - status[r] ELSE status[r]

FinalCode(r) == IF errinfo[r] # 0 THEN status[r]
                ELSE IF timed_out[r] THEN TIMEOUT
                ELSE IF poll_failed[r] THEN POLL ELSE status[r]

(* Mutant: the time limit is not an error                                  *)
SucceededLate(r) == errinfo[r] = 0 /\ ~poll_failed[r]

Succeeded(r) == errinfo[r] = 0 /\ ~timed_out[r] /\ ~poll_failed[r]

FinishRun(r) ==
  /\ pc[r] = "readerror"
  /\ ExecErrorReadable(r)
  /\ CloseRead({ExecPipe(r)})
  /\ Return(r, FinalCode(r), IF Succeeded(r) THEN "true" ELSE "false")
  /\ UNCHANGED <<fixed, wr, clo, eof, timed_out, poll_failed, prog, status, errinfo>>

RunStep(r) ==
  \/ OpenStreams(r) \/ OpenExecError(r) \/ SetCloseOnExec(r)
  \/ Fork(r) \/ CloseWriteEnds(r)
  \/ ReadToEof(r) \/ DeadlinePasses(r) \/ WaitChild(r) \/ FinishRun(r)
  \/ WaitAfterSetup(r)

RunFailure(r) == \/ NoArgs(r) \/ OpenFails(r) \/ SetupFails(r)
                 \/ NonBlockingFails(r) \/ PollFails(r)

-----------------------------------------------------------------------------
(* The child between fork and exec, and the programs                       *)

(* chdir or execvp fails: the reason is written to the exec error pipe and *)
(* the child exits.                                                        *)
SetupChildFails(r) == \E code \in {CHDIR, EXEC} :
  /\ prog[Child(r)] = "setup"
  /\ errinfo' = [errinfo EXCEPT ![r] = code]
  /\ DropAll(Child(r))
  /\ prog' = [prog EXCEPT ![Child(r)] = "zombie"]
  /\ status' = [status EXCEPT ![r] = 127]
  /\ UNCHANGED <<fixed, rd, loc, pc>>

(* dup2 leaves the output streams open; exec closes the marked ends.       *)
ExecChild(r) ==
  /\ prog[Child(r)] = "setup"
  /\ prog' = [prog EXCEPT ![Child(r)] = "running"]
  /\ wr' = [wr EXCEPT ![Child(r)] = @ \ clo[Child(r)]]
  /\ clo' = [clo EXCEPT ![Child(r)] = {}]
  /\ UNCHANGED <<fixed, rd, loc, pc, status, errinfo>>

StartGrandchild(r) ==
  /\ ~quiet
  /\ prog[Child(r)] = "running" /\ prog[Grandchild(r)] = "none"
  /\ prog' = [prog EXCEPT ![Grandchild(r)] = "running"]
  /\ wr' = [wr EXCEPT ![Grandchild(r)] = wr[Child(r)]]
  /\ UNCHANGED <<fixed, clo, rd, loc, pc, status, errinfo>>

CloseOutput(r) ==
  /\ ~quiet
  /\ prog[Child(r)] = "running"
  /\ wr' = [wr EXCEPT ![Child(r)] = @ \ IoPipes(r)]
  /\ UNCHANGED <<fixed, clo, rd, loc, pc, prog, status, errinfo>>

ChildExits(r) == \E code \in ProgramEnds :
  /\ prog[Child(r)] = "running"
  /\ DropAll(Child(r))
  /\ prog' = [prog EXCEPT ![Child(r)] = "zombie"]
  /\ status' = [status EXCEPT ![r] = code]
  /\ UNCHANGED <<fixed, rd, loc, pc, errinfo>>

GrandchildExits(r) ==
  /\ prog[Grandchild(r)] = "running"
  /\ DropAll(Grandchild(r))
  /\ prog' = [prog EXCEPT ![Grandchild(r)] = "reaped"]
  /\ UNCHANGED <<fixed, rd, loc, pc, status, errinfo>>

ProgramStep(r) == \/ StartGrandchild(r) \/ CloseOutput(r)
                  \/ ChildExits(r) \/ GrandchildExits(r)

AllDone == (\A r \in Runners : pc[r] = "done") /\ UNCHANGED vars

Next == \/ \E r \in Runners : \/ RunStep(r) \/ RunFailure(r)
                              \/ SetupChildFails(r) \/ ExecChild(r)
                              \/ ProgramStep(r)
        \/ AllDone

(* A thread goes on when it can, a deadline passes, and a forked child     *)
(* gets to its exec; no system call is owed a failure, and nothing is      *)
(* assumed of the programs.                                                *)
Fairness == \A r \in Runners : WF_vars(RunStep(r)) /\ WF_vars(ExecChild(r))

Spec == Init /\ [][Next]_vars /\ Fairness

-----------------------------------------------------------------------------
(* Properties                                                              *)

TypeOK ==
  /\ timed \in [Runners -> BOOLEAN] /\ quiet \in BOOLEAN
  /\ pc \in [Runners -> {"call", "openexec", "mark", "fork", "closewrite", "poll",
                         "wait", "readerror", "waitsetup", "done"}]
  /\ wr \in [Processes -> SUBSET Pipes] /\ clo \in [Processes -> SUBSET Pipes]
  /\ rd \subseteq Pipes
  /\ prog \in [Programs -> {"none", "setup", "running", "zombie", "reaped"}]
  /\ status \in [Runners -> Statuses]
  /\ errinfo \in [Runners -> {0, CHDIR, EXEC}]
  /\ eof \in [Runners -> SUBSET Streams]
  /\ timed_out \in [Runners -> BOOLEAN] /\ poll_failed \in [Runners -> BOOLEAN]
  /\ exit_code \in [Runners -> ErrorCodes \cup Statuses \cup {-1}]
  /\ returned \in [Runners -> {"no", "true", "false"}]

(* However Run ends, it leaves no descriptor of its own open in this       *)
(* process: a leaked write end would keep a later reader waiting.          *)
NoLeak == \A r \in Runners : pc[r] = "done" =>
  rd \cap PipesOf(r) = {} /\ wr[Parent] \cap PipesOf(r) = {}

(* However Run ends, the child it forked has ended and was waited for.     *)
NoZombie == \A r \in Runners :
  pc[r] = "done" => prog[Child(r)] \in {"none", "reaped"}

(* Run returns true only for a program that was executed, ended on its own *)
(* before its time was up and whose status exit_code is.                   *)
TrueMeansRan == \A r \in Runners : returned[r] = "true" =>
  /\ errinfo[r] = 0
  /\ exit_code[r] \in ProgramEnds /\ exit_code[r] = status[r]

(* If every started program ends, every call returns: the threads cannot   *)
(* make each other wait for ever through the pipe ends their children      *)
(* inherit from each other.                                                *)
AllReturned == \A r \in Runners : pc[r] = "done"
ProgramsEnd == <>[](\A p \in Programs : prog[p] # "running")
Returns == ProgramsEnd => <>AllReturned

(* With a time limit on every call, and programs that start no others and  *)
(* keep their output open, every call returns even if no program ever ends *)
(* on its own.  Not so when fcntl fails after the fork: that path waits    *)
(* for the child without a time limit and without killing it.              *)
NoFcntlFailure == [](\A r \in Runners : pc[r] # "waitsetup")
QuietTimeLimit ==
  (quiet /\ (\A r \in Runners : timed[r]) /\ NoFcntlFailure) => <>AllReturned

(* The same of any program: what the time limit of the autotest runner     *)
(* says (testfile.cpp:39, "compile or run should finish in 5s").           *)
TimeLimit ==
  ((\A r \in Runners : timed[r]) /\ NoFcntlFailure) => <>AllReturned

(* A child that could not be executed is reported with the code it wrote   *)
(* to the exec error pipe (processrunner.h names the codes).               *)
ExecErrorReported == \A r \in Runners :
  pc[r] = "done" /\ errinfo[r] # 0 /\ exit_code[r] # SETUP => exit_code[r] = errinfo[r]
=============================================================================
