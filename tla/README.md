# A TLA+ verification of dq-comp

dq-comp is a compiler for the DQ language, with a runner for its test suite.
This directory holds TLA+ models of the parts of it where order, interleaving,
failure and nesting matter, TLC configurations that check them on small
instances, and proofs, checked by TLAPS, that the most important properties
hold for every instance. Paths below are relative to `src/` of the repository.

## 1. The system and its parts

| Component | State it keeps | Operations | Hard because | Correct when |
|---|---|---|---|---|
| **Autotest batch mode** (`autotest/atrunner/at_runner.cpp`, `testfileworker.cpp`) | the collected files, a worker object per thread (`busy`, `run_requested`, `terminate_requested`, `testfile`), the counters | StartWorkers, ProcessBatchFilesParallel / Sequential, StopWorkers, ProcessResults; per worker Start, Stop, ProcessFile, IsIdle, ThreadFunc | one distributor and up to as many threads as cores; a mutex and a condition variable per worker; polling | each file is processed once, completely, before the summary; no thread outlives its object; the batch ends |
| **Autotest test file** (`testfile.cpp`, `strparse.cpp`) | expected errors and outputs of one file, error counters | ParseText, ExecRunTest, ExecErrorTest, AnalyzeRunOutput, AnalyzeErrOutput | matching two ordered streams, duplicates, lines out of order, early returns | a test passes only by comparison, and exactly when what its markers ask for was printed |
| **Process runner** (`compiler/utils/processrunner.cpp`) | pipes, the child, collected output, exit code | Run, RunInteractiveProcess | runs in many threads at once, fork inherits everything, every call can fail, time limit | returns; leaks nothing; reports what happened |
| **Source feeder: preprocessor** (`compiler/parser/scf_dq.cpp`) | chain of open conditions, `inactive_code`, include stack, use counts, defines | SkipWhite, ParseDirective, CheckConditionals, LoadFile | three flags stand for a nested meaning; conditionals and includes nest independently | text is compiled exactly when selected |
| **Source feeder: scanner** (`scf_base.cpp`) | a position | reading of symbols, numbers, strings | – | – |
| **Definite-assignment check** (`dqc_parser.cpp`, `ast/symbols.cpp`) | an `initialized` flag per variable, a `firstassign` list per scope | SetVarInitialized, RevertFirstAssignments, FirstAssigned, called from the statement parser | done while parsing, by undoing; no data-flow pass | no use before assignment accepted, no correct program refused |
| **Parser: declarations and expressions** (`dqc_parser.cpp`) | the module's declarations, current scope, block, function | ParseModule, FinishFunctionDecl, ParseFunctionSignature, ParseExpression, BindCallArguments | forward declarations, overloads, methods and error recovery in any order | every function is declared once and defined; a call means one function |
| **AST, types, built-ins** (`ast/`, `types/`, `builtins/`) | symbols, types, constants, LLVM's insert point | folding, conversion, overload ranking, code generation of statements and expressions | costs, conversions, folding and generated code are separate code for one meaning; the insert point moves in nested constructs | folded and generated arithmetic agree; the code does what the text says |
| **Driver** (`compiler/src/dqc.cpp`, `dqc_clargs.cpp`, `main_dq_comp.cpp`) | options, error count, output files | Run | several steps, each can fail and leaves files | an exit status of zero means a new executable |
| **dq-run** (`compiler/tools/main_dq_run.cpp`) | – | compile, then run | runs what the compiler left behind | runs the program just compiled |
| **LLVM code generation** (`codegen/`), examples, editor support | – | – | – | – |

How they interact. `run-all.sh` starts the test runner; its distributor thread
hands each test file to a worker thread (shared `OTestFile` and
`OTestFileWorker` objects, one mutex and condition variable per worker). A
worker calls `OTestFile::Process`, which calls `OProcessRunner::Run` for the
compiler and then for the compiled program, in as many threads at a time as
there are workers; the compiler in turn starts `gcc` to link. Inside the
compiler one thread does everything: the parser pulls tokens from the feeder,
whose `SkipWhite` processes directives on the way and calls back into the
parser to evaluate `#if` conditions; the parser maintains the symbol flags while
it builds the statements. Each expression is folded as soon as it is
parsed; when the text is over and has no error, the driver has the code
generated, writes the object file and links it. `dq-run` and the test runner
start the compiler as a process and then the program it is said to have left:
the file system is what these processes share.

## 2. Modules

| Module | Models | Kind |
|---|---|---|
| `TestResults` | the counters of a test file and their summary (`ProcessResults`) | operators |
| `Batch` | what a batch promises: files are taken, each finishes once with an outcome, one report | abstract specification |
| `AtRunner` | distributor, worker threads, mutexes, condition variables | detailed specification, implements `Batch` |
| `AtRunnerProofs` | – | proofs about `AtRunner`, and that it implements `Batch` |
| `TestFile` | one test file: markers, the run and the error variant, matching of output | specification |
| `TestFileProofs` | – | proofs about `TestFile` |
| `ProcessRunner` | `OProcessRunner::Run` in several threads, the children, what they start, every pipe end | specification |
| `ProcessRunnerProofs` | – | proofs about `ProcessRunner` |
| `Driver` | `dq-comp` from its command line to the linked program, `dq-run` and the test runner's compile-and-run, on common files | specification |
| `DriverProofs` | – | proofs about `Driver` |
| `InitCheck` | the definite-assignment check with the statement blocks | specification |
| `InitCheckProofs` | – | proofs about `InitCheck` |
| `Preproc` | conditionals, includes, defines | specification |
| `PreprocProofs` | – | proofs about `Preproc` |
| `Convert` | types, conversions and their costs, numeric harmonization, comparison of signatures | operators |
| `Calls` | declarations of functions in every form, overload sets, methods, calls | specification |
| `Expr` | what is built for an operator, what is folded of it, what the generated code computes | specification |
| `Body` | the blocks generated for a body, executed beside its text | specification |
| `ModuleProofs` | – | proofs about `Calls`, the conversions of `Convert`, `Body` and `Expr`, and about `MCModule`, the three together |
| `FoldTheorems` | – | least elements, folds of the community modules, functions defined by recursion, remainders, for the proofs |
| `MC…` | the instances that TLC checks | – |

`Calls` and `Expr` extend `Convert`; `AtRunner` and `TestFile` share
`TestResults`; `MCModule` puts `Calls`, `Expr` and `Body` into one run.

In each module the definition that follows a comment beginning with "Mutant"
is a plausible mistake in the definition after it. The specifications do not
use it; replacing the definition by it makes a named property fail
(`PROJECT.json`, `mutants`), which shows that the property depends on that code.

### AtRunner

`pc[0]` is the distributor and `pc[w]` worker `w`. A critical section under
`wait_mtx` is one action, and so is each step outside of it: `PollWorker` is the
IsIdle call and `OfferFile` the ProcessFile call that follows with the mutex
released in between; `TestWakeup` is the predicate of `cond.wait` with what the
thread does before it unlocks; `RequestStop`, `NotifyStop` and `JoinWorker` are
the three parts of Stop. `notify_all` moves a sleeping thread to the test of its
predicate; a spurious wakeup may do so any time. With `nworkers = 1` the
distributor processes the files itself, as the code does.
`OTestFile::Process` is cut at its two variants, because `processed` is visible
to other threads.

Refinement: a file is "taken" while a thread is in one of the labels of
`Process` for it, "done" when `processed` is set; the outcome is visible from
then on. `RefinesBatch` states `Batch!Spec` under this mapping.

Fairness: weak for the distributor and for each worker – the threads are
ordinary OS threads that nobody suspends, a mutex is held for a few
assignments only, and the programs a worker runs are assumed to end (the
process runner's own model says when they do). Spurious wakeups have none.

### ProcessRunner

Each thread `r` calls Run once. The model keeps, for every process, which write
ends of which pipes it holds (`wr`) and which of them are close-on-exec (`clo`),
and the read ends of the parent (`rd`). `fork` copies all descriptors of the
process, those of the other threads included; exec closes the marked ones; a
program may start another, which inherits, and may close its output. End of
file on a pipe is: no process holds its write end. Every call that can fail
has its failure action. Left out: what is written to the pipes (a read that is
not at end of file changes nothing the properties see), EINTR, and a failing
`waitpid`, which needs a second waiter that the program does not have.

Fairness: weak for each thread's own steps, which include the passing of its
deadline, and for the exec of a forked child; none for failures or programs.
`Returns` says what follows from that: once all programs have ended, Run
returns. `QuietTimeLimit` needs more: no grandchildren, no closed output, no
failing fcntl; then the limit does bound Run.

### TestFile

`phase` is where `Process` is; `line`, `err_captures`, `run_captures` and the
counters of `out` are the object's fields. The file is arbitrary: in phase
`search` any marker may come next, on this line or a later one, and the
programs may print any line. A text is one of a few values that may start with
one another, which is all the matching looks at. `seen`, `again`, `sorted`,
`lastline` and `stray` record what was printed, `compared` which variants got
to the end of their output (`exec_run` and `exec_err` are set on entry of a
variant and say nothing of what was executed). The verdict of the code, reached
line by line, is compared with statements about all lines in any order.

The requirements (`dq-autotest-req-spec.md`, section 6) and the code differ in
what a run has to print, so `RunVerdict` does not claim that "the markers are
met". It says what a run without a counted error implies, in the code's own
comparison (`Begins`, `LooselyMet`), and what is enough for it, in the
comparison of the requirements (`Equals`, `ExactlyMet`). A passing run of the
model therefore does not show that the runner meets its requirements; section 5
lists where it does not. `ErrVerdict` compares diagnostics, which are equal or
not.

### Driver

An invocation has a tool, its arguments and a step; `fs` is the file system,
shared by all. Arguments are parsed as `ParseCmdLineArgs` and dq-run's and the
test runner's own parsers do, with the names of the output they derive. Each
step of `Run` that writes a file or may fail is an action; between any two of
them another invocation may take a step, a source may be edited (`Edit`), and
the invocation may be killed (`Kill`), after which it never goes on. A program
in `fs` remembers the text, the version and the defines it was made from; that
is what `OwnProgram` and `OutputIsThere` compare. `NotLinked` names the known
cases in which a compile ends with status 0 without a new program (an exit
status that wraps around, no main, a rename that failed unseen, `--version`):
the properties say that there is no other.

### InitCheck

A behaviour is the text of a function: a step is a statement, or the start, the
continuation or the end of a block, as the parser meets it. `initialized`,
`firstassign` and the block stack are the parser's. `sure` is what an execution
of the generated code has certainly assigned at this point, computed by the
standard rules: the intersection over branches, the state before a loop after
it, and everything (`All`, with `Never` in it) behind a return, so that a branch
that returns takes nothing away from the intersection. The parser knows nothing
of that: to it a return with a value is an assignment of the result after which
the text goes on. `leaked` collects the variables that the two known defects
raise, so that the properties can say "and nothing else". `missed` collects
what the branches of an if assign that go on, but not one that returns
(`if c: return 0; else: x = 1; endif; y = x` is refused, because the merge at
`dqc_parser.cpp:2175` asks the first branch, too), and `rejoined` marks texts
with an else in brace form, which the parser reads into the wrong branch.
`NoFalseAlarm` names these two cases, and text no execution gets to, in which
the parser may report anything; in all others no correct read is refused.

### Preproc

A step is a directive. Texts are arbitrary: which directive comes next, whether
its condition holds, whether it is faulty and whether it is written with braces
is chosen at each step. `cond`, `n`, `inactive`, `reading`, `level`, `usage` and
`defined` are the feeder's; `sel` and `seen` are the meaning of the
conditionals, computed from all conditions, also those the feeder does not
look at. After `EndOfFile` at level 1 the text is over: the system stops, and
this run does not check for deadlock.

### Convert and Calls

A step of `Calls` is the start of a declaration, one entry of its parameter
list, its end (`FinishDecl`, the whole of FinishFunctionDecl: attributes,
symbol lookup, match with an earlier declaration, merge, overload set, module
list), a call in a body, the end of the body, or the end of the module with its
last checks. `funcs` are the function symbols, `scope` what a name means to
`FindValSym`, `declarations` the module's list, `signature` what ReadParam has
collected. A call goes from the raw arguments over the candidates to the
binding of the arguments; `Consider` is one pass of the loop with its tie flag,
`Binds` the conversions of the chosen function's arguments, which are other
code than the costs.

### Expr

The text of an expression is read in postfix order; the parser's recursive
descent calls the same constructors in that order. Every operand carries the
type the parser remembers, the node left after folding, and beside it the same
node built without folding, which is not in the program: it says what the
generated instructions compute. `FoldEqualsRun` compares the two where both are
`exact`; what is not exact is undefined at run time (a division by zero, a
shift that is too wide), has operands of unfit types (mixed widths of bit
operators, mixed-width division), or is one of the differences that the code
does have: folding is done in signed 64 bits, so that division, remainder,
right shift, comparison and the conversion to float of 64-bit unsigned values
differ, as do comparisons of mixed signs and the type of an `iif` that is
replaced by one arm. Each exclusion is needed: without it TLC finds a
difference. `Bitwise` writes the three bit operators as a sum over the bits of
both patterns, which is what the prover can use; a float is an exact fraction. A division by a constant zero stops the compiler itself
(`crashed`), also in an arm that is discarded.

### Body

In stage "text" the constructs of a body are read, in stage "code" the blocks
are generated, in stage "run" text and code are executed side by side with any
outcome of the conditions: `FollowText` and `FollowCode` pass the jumps of
each, `Execute` the statement, condition or return both have come to.
`code.insert` is LLVM's insert point; the blocks, their terminators and the
execution of instructions are external, as the generator uses them.

## 3. Runs

| Run | Instance | Shows |
|---|---|---|
| `batch` | 3 files, up to 3 workers, counts 0 or 1 | types, `OneOwner`, `AllProcessed`, `NoUseAfterDelete`, `ResultsFrozen`, `Terminates`, `RefinesBatch` |
| `process` | 2 threads | types, `NoLeak`, `NoZombie`, `TrueMeansRan`, `Returns`, `QuietTimeLimit` |
| `limit` (violated) | 1 thread | the five second limit of `testfile.cpp:39` does not hold in general |
| `exec_error` (violated) | 1 thread | the codes for a failed chdir or exec are never reported |
| `testfile` | 3 markers, 2 lines, 2 texts one of which starts with the other | types, `RunVerdict`, `ErrVerdict`, `NoSilentPass` |
| `driver` | 2 invocations, 18 command lines, 2 versions, an exit status of 2 values | types, `OwnProgram`, `OutputIsThere`, `ZeroMeansRan`, `SourceKept` |
| `module` | 3 functions of 2 names and 1 object; 3 operators; 6 constructs | types, `BestOverload`, `AllDefined`, `SetsAreDistinct`, `SignaturesKept`; `FoldEqualsRun`, `OperandsAgree`; `RunsAsWritten`, `OneTerminator` |
| `division` (violated) | 3 operators | a division of integers of two widths is generated on integers |
| `initcheck` | 2 variables, one of them the result, at depth 1; the result alone at depth 2 | types, `NoFalseAlarm`, `LeaksAreKnown`, `ResultIsSet` |
| `init_reads` (violated) | 2 variables, depth 2 | a variable can be read unassigned without an error |
| `preproc` | 2 files, 1 name, 3 conditionals, 3 levels | types, `ActiveIsSelected`, `SkippedHasNoEffect`, `BodyReadOnce`, `OtherFilesUntouched` |
| `skipped` (violated) | the same | a directive in skipped text is reported as an error |

Why the bounds are enough to mean something. *batch*: with three workers there
is one before, one at and one after any position of a polling loop, with three
files a worker gets a second file while another has its first, and `Init`
covers all smaller worker counts. *process*: the interference is pairwise, a
fork of one thread in a window of another. *initcheck*: an if inside an if, a
loop in a branch and a branch in a loop are depth 2, for one variable; a
second one tells "this variable" from "any variable", and the result from a
variable that a return does not assign, for which depth 1 is enough, since the
flags of two variables meet in no step. The constraint `Bound` keeps both
together small. *preproc*: three conditionals give one
that encloses, one that is continued and one inside it, and three levels give a
file that includes itself or another twice. *testfile*: three markers are
two of one key with another between or behind them; two lines are "before" and
"after". *driver*: interference is pairwise, two versions tell a stale program
from a new one, and a status of two values wraps around as one of 256 does.
*module*: three functions give an overload set of two and one more, or a
forward declaration, its definition and a rival; the texts (`MCCalls`) take
each way through the declaration and the call. The host's 64 bits are 4 here
and narrow integers 2, so that every pattern of both is small enough for
arithmetic to wrap; the expressions are all of up to three operators whose
stack fits `MaxSize`, over operands of each form. Six constructs hold an if
with two branches around or inside a loop. The three parts of `module` share
no variable; a behaviour moves one and leaves the others at their start.
`MaxFuncs`, `MaxOperators`, `MaxSize`, `MaxFloat`, `MaxText`, `MaxIifs`,
`MaxMarkers`, `MaxErrors` and `MaxVersion` stand in guards as well.
The bounds `MaxDepth`, `MaxConds`
and `MaxLevel` stand in guards; the code has no such limits. Use counts above
two are one value, since the code asks for "more than one" only.

## 4. What is proved

The proofs hold for every value of the constants. They use named assumptions
only, which TLC evaluates on every instance:

* sizes: the number of files is a natural number, there is at least one worker,
  bounds are natural numbers, at least one file level, one line of a test file
  and one error are possible; an exit status has more than one value;
* counts are natural numbers with 0 among them, the result is a variable and
  `Never` is none, the main file is a file, a program may end with 0, the empty
  text is a text;
* `CommandsAssumption`: the arguments are texts, the file system has the names
  a command line leads to, and the test runner passes one argument that is no
  switch, as `OTestFile` does;
* `ExprAssumption` and `LeavesAssumption`: integer types have from one bit to the
  width of the compiler's int64, which is one of them, and an operand has a
  value of its type;
* `DeclarationsAssumption` and `CallTextsAssumption`: what the parser can have
  read – a parameter has a mode and a type that can be written, a declaration
  ends in `;` or has a body, a receiver is of an object type.

* **AtRunnerProofs** – `TypeCorrect`, `FileHasOneOwner` (`OneOwner`),
  `ResultsComplete` (`AllProcessed`), `DeleteAfterJoin` (`NoUseAfterDelete`),
  `ProcessedOnce` (`ResultsFrozen`). None of the properties is inductive. The
  invariant `IInv` says for each thread what its label implies for its object
  (a worker between load and release is busy and holds `cur`; a sleeping or
  testing worker is idle or requested), that a file in the hands of a worker
  is below `fileidx` and unprocessed until its last step, that every file below
  `fileidx` is in somebody's hands or processed, and what a half-done pass of
  the waiting loop has established: workers before `widx` found idle stay idle,
  because only the distributor can give them work.
  `Refinement` (`RefinesBatch`): every step of the threads is a step of `Batch`
  or a stutter. It needs `OutcomesComplete`: the outcome of a file is written in
  two parts, and only a file that is between them has a part of one, so that
  what becomes visible with `processed` is whole.
* **InitCheckProofs** – `TypeCorrect`, `AssignedIsReadable` (`NoFalseAlarm`),
  `NoOtherLeaks` (`LeaksAreKnown`), `AcceptedHasResult` (`ResultIsSet`). Two
  invariants: `Precise` (what each open block may still count on, `Keep`, has its
  flag raised or is `missed`, and is in no inner list, so that no closing block
  lowers it; a block that no execution gets to counts on nothing, and a branch
  that has returned is remembered, so that what the merge then leaves out is
  exactly `missed`) and `Sound` (a raised flag was assigned, or an open block has
  it in its list and will lower it). `Sound` is inductive by itself; `Precise`
  needs the part `Grows` of it, that inside a block at least what was assigned
  before it is assigned. `Checked` carries the check at the end of the body.
* **PreprocProofs** – `TypeCorrect`, `ActiveMeansSelected` (`ActiveIsSelected`),
  `SkippedIsInert` (`SkippedHasNoEffect`), `OthersUntouched`
  (`OtherFilesUntouched`), `BodiesReadOnce` (`BodyReadOnce`). The invariant
  `Chain` says of every open condition, not only of the innermost, that
  `parent_inactive` is "some outer condition is not selected" and that, unless
  skipped from outside, `branch_taken` is "a condition has held"; without the
  outer ones an endif could not give the surrounding text its state back.
  `BodyReadOnce` rests on `Counted`: a reading that is not its file's first finds
  a use count above one.
* **ProcessRunnerProofs** – `TypeCorrect`, `EndsAreClosed` (`NoLeak`),
  `ChildIsReaped` (`NoZombie`), `TrueIsHonest` (`TrueMeansRan`), for any number
  of threads, whichever call fails. `EndsInv` says at each label which ends of
  its own pipes a thread holds (that no other thread holds them in this process
  is the allocation of pipes; that children do is what the interference is),
  `ChildInv` which state its child can be in, `StatusInv` that without a
  reported error the status is a program's own end.
* **TestFileProofs** – `TypeCorrect`, `RunVerdictRight` (`RunVerdict`),
  `ErrVerdictRight` (`ErrVerdict`), `PassMeansExecuted` (`NoSilentPass`), for any
  file and output. `RunLinesInv` and `ErrLinesInv` hold between two lines: a
  marker is captured exactly if it is the first of those for a line that was
  printed, and an error has been counted only for a reason that stays (a line
  that nobody expects, a repeated one, a marker that was passed by, or lines out
  of order), so that the verdict at the end is one about all lines. For the run
  the proof goes through the exact condition of the code (`RunCounted`: no error
  is counted if and only if each line is accepted by the first marker that fits
  it, no key comes twice, and each marker with a value is the first for a line);
  `CountedVerdict` compares that, whose "first" depends on the order of the
  markers, with `LooselyMet` and `ExactlyMet`, which do not. `PassMeansExecuted`
  rests on `VariantInv`: at the end of a variant an error was counted or the
  output was compared to its end.
* **DriverProofs** – `TypeCorrect`, `NoEmptySuccess` (`ZeroMeansRan`),
  `OutputLeft` (`OutputIsThere`), `OwnProgramRuns` (`OwnProgram`), `SourcesKept`
  (`SourceKept`), for any number of invocations and any command lines. `ProcInv`
  says at each step what the files of an invocation that shares them with nobody
  hold; the steps of others leave it alone because they write other files.
  `OwnProgramRuns` needs that `dq-run`'s own reading of the command line agrees
  with the compiler's: both are folds over the arguments, and `AgreeAlways` goes
  through all prefixes.
* **ModuleProofs**, about `Calls` – `TypeCorrect` (the part of `ModuleTypeOK` about functions),
  `BestIsChosen` (`BestOverload`), `EverythingDefined` (`AllDefined`),
  `OverloadsDistinct` (`SetsAreDistinct`), `SignaturesStay` (`SignaturesKept`).
  The invariant `CInv`: every function is in the scope of its owner under its
  name, once, and nowhere else (`ScopeInv`); every name with a function is
  listed, once (`ListInv`), without which the check at the end of the module
  would miss one; one thing is read at a time (`TextInv`). `BestOverload` is a
  statement about a loop: `ConsiderKeeps` says that one pass keeps "the best so
  far is better than or equal to all, and the flag tells whether another is
  equal", which needs that the score is a total order (`BetterIsOrder`) and that
  no function is considered twice; `RankingIsBest` follows for the whole set.
  `CostMeansConversion` shows of the two pieces of code for conversions that
  what has a cost can be converted.
* **ModuleProofs**, about `Body` – `BodyTypeCorrect` (the part of
  `ModuleTypeOK` about bodies), `BlocksTerminated` (`OneTerminator`),
  `CodeRunsAsWritten` (`RunsAsWritten`), for bodies of any length and nesting.
  The invariant `BodyInv` has a part for each stage:
  - the text (`Structured`): there is a depth for every construct; each part of
    a statement links to the next branch or end of the same depth and to the
    end of its statement, or belongs to a statement that is open. From it
    follows that the jumps of a text come to an end (`ResolvesExists`: they go
    forward, or back to the condition of a loop), so that `R[i]`, the construct
    the text comes to from `i` without doing anything, exists.
  - the code (`Written`): `M[b]` is the point of the text that block `b` stands
    for. Every instruction does what the text does at its point (`Performs`), and
    every block is terminated, is the insert point, or is empty and owed by
    exactly one open frame (`CodeInv`, `FramesInv`); the frames are those of the
    statements around `at` (`NestInv`), so that an elif, else or end always
    finds the frame of its own statement; and where the insert point is not
    terminated it stands for `at` (`Reached`).
  - the execution (`RunInv`): `flow` and `pc` stand for the same point.

  Each action keeps it by a lemma of its own. An elif behind an else is in the
  proof as in the code: its condition is put behind the terminator of the else,
  where it is never executed, so that `RunsAsWritten` holds of such a body too
  and only `OneTerminator` excludes it.
* **ModuleProofs**, about `Expr` – `ExprTypeCorrect` (the part of `ModuleTypeOK`
  about expressions), `FoldingIsExact` (`FoldEqualsRun`), `OperatorsAgree`
  (`OperandsAgree`), for integers of any widths, any operands and expressions of
  any size. `FoldEqualsRun` is not inductive: equal bits in types of two signs
  would go two ways at the next conversion. The invariant `ExprInv` says of each
  operand that it is a `Pair`: both nodes have values in the range of their
  types, the type the parser remembers has the kind and the width of the folded
  node and the kind of the unfolded one, and if both are exact they agree in
  bits *and* type, the sign included, and that is the type the parser remembers.
  Each constructor then has two lemmas: what it builds (`…NodeOf`, above all on
  what its exactness implies) and that it makes a `Pair` of `Pair`s (`…Pair`).
  They rest on the arithmetic of patterns for any width: a power of two is a
  multiple of every lower one (`Power2Multiple`), a pattern does not see
  multiples of it (`PatternOf`), so that conversion of the compiler's int64 and
  of the program's value give one pattern (`ConvertedPattern`) and operators on
  numbers that differ by such a multiple give the same result
  (`IntResultAlike`); division, remainder and right shift are not among those and
  need the operands to be the same numbers (`IntNodesAgree`).
* **ModuleProofs**, about `MCModule` – `PartsAreFree`: a behaviour of the three
  together is one of each, so that all of the above holds of the run's
  specification too; with it `ModuleTypeCorrect` (`ModuleTypeOK`).
* **FoldTheorems** – lemmas of the other proofs: `MinOf` (a least element, from
  the well-foundedness of finite sets), `FoldByExists` and `FoldExists` (the
  function that a fold of the community modules chooses exists and has the values
  it should),
  `RecursionExists` (the same of a function defined by a step from each number to
  the next, such as the powers of two), `Remainder`. The library's
  induction theorems take an operator, which the provers cannot instantiate; so
  an induction is done on the least counterexample, and what a fold computes is
  shown for each prefix. The prover refuses a module with a RECURSIVE operator
  in it; the specifications it is used on have none.

The first match in an overload set (`FindMatchingOverloadDecl`) is written as the
one with the least index, because the prover cannot compute a `SelectSeq`.

Only model-checked: the liveness properties (`Terminates`, `Returns`,
`QuietTimeLimit`), which are out of the prover's reach, as is ENABLED. Every
invariant and action property of a passing run is proved.

## 5. What the checks found

1. `limit`: the time limit kills one process and then waits for its pipes and
   for it without a limit (`processrunner.cpp:274-279, 339`).
2. `exec_error`: `exit_code` set from the exec error pipe is overwritten
   (`processrunner.cpp:342, 358-361`).
3. `init_reads`: an if with else inside another statement, a refout argument in
   an elif condition or in an arm of iif, make an unassigned variable readable
   (`dqc_parser.cpp:2194, 3214`).
4. `skipped`: a braced directive with an operand in skipped text is an error
   (`scf_dq.cpp:307-311, 741-752`).
5. `division`: `CreateBinExpr` converts the operands of an integer division to
   float only if they had one width before they were harmonized; `x32 / 2` is
   generated as a float division of integers (`dqc_ast.cpp:503-509`).

Met while modelling, and named in the properties or in `PROJECT.json` as
hazards: dq-run and the test runner start an older program after a compile that
linked nothing (`main_dq_run.cpp:219`) or had 256 errors
(`main_dq_comp.cpp:155`); a source whose name does not end in `.dq` is
overwritten by its own program (`dqc_clargs.cpp:308`); a marker that follows a
check with two arguments on one line is lost (`testfile.cpp:725`); the merge
after an if refuses correct programs with a branch that returns
(`dqc_parser.cpp:2175`); a return without a value in the middle of a function
returns the result without a look at its flag (`dqc_parser.cpp:2041`), which is
checked at the end of the body only (943); a parameter list whose
first parameter cannot be read and that goes on is reported for ever
(`dqc_parser.cpp:1724-1761`); an elif after an else is generated behind the
else's terminator (`dqc_parser.cpp:2122`); a constant division by zero ends the
compiler with a signal (`otype_int.cpp:191`); a comparison with a bool is
refused by an exception of the generator only (`expressions.cpp:523-572`).

Where the test runner does not do what `dq-autotest-req-spec.md` says:

| Line | The requirements | The code |
|---|---|---|
| 294, 270 | the value equals the remainder of the line, a text the line | it is enough that the line begins so (`testfile.cpp:272, 282`) |
| 256 | each check matches a line | one without a value need not (`testfile.cpp:308-319`) |
| 336 | unchecked output does not fail the test | it is counted as an error (`testfile.cpp:289-305`) |
| 230 | an ignore creates no required expectation | one with a value does, like a check (`testfile.cpp:747`) |
| 330 | duplicates are refused before the run | they are appended; two with one key and a value fail the run (`testfile.cpp:747`) |
| 232 | quotes are part of the text | they are dropped (`testfile.cpp:720`) |
| 292 | the `=` between key and value may be left out | a line without it is no key and value (`testfile.cpp:240`) |
| 171, 16 | checkerr, ignoreerr and exit markers | unknown; neither the standard error output nor the exit status of a run is looked at |

The first five are in the model: `RunVerdict` is stated so that it holds of the
code, and its comment names them.

## 6. Not modelled, and the plan

A marker's text with an `=` in it is not modelled, nor what is in quotes.

Not modelled: scanning of characters and literals (`scf_base.cpp`,
`strparse.cpp`: one buffer and a position), formatting of messages, LLVM's and
gcc's own work, the `#linklib` list, values of defines, the command line of the
test runner and its single-file mode (one sequential call of
`OTestFile::Process`), the system calls of `RunInteractiveProcess`, object and
enum types and their layout, addresses, slices and strings in expressions,
rounding of floats, variables with initializers, attributes other than those
of functions, examples and editor support. break and continue have statement
classes and no syntax.

What is left: a second look at the properties that are stated with known
exceptions (`NotLinked`, `leaked`, the nodes that are not `exact`), whether each
exception is still the code's.
