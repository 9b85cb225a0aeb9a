------------------------------ MODULE AtRunner ------------------------------
(***************************************************************************)
(* The batch mode of the autotest runner: the distributor (the main        *)
(* thread, id 0) in OAtRunner and the worker threads of OTestFileWorker.   *)
(*                                                                         *)
(* Each critical section under a worker's wait_mtx is one action; what is  *)
(* done outside the mutex is an action of its own.  cond.wait gives up the *)
(* mutex and falls asleep in one step; notify_all only moves a sleeping    *)
(* thread back to the test of its predicate, and so does a spurious        *)
(* wakeup, which can come at any time and is never owed.                   *)
(*                                                                         *)
(* Left out: the printing, the 2 ms sleeps of the two polling loops (they  *)
(* change no state) and what OTestFile::Process does with a file beyond    *)
(* the counters it leaves behind.                                          *)
(***************************************************************************)
EXTENDS TestResults

CONSTANTS NFiles,       \* number of collected test files
          MaxWorkers,   \* bound on used_worker_count
          Counts        \* error counts one executed variant can end with

ASSUME NFilesAssumption == NFiles \in Nat
ASSUME MaxWorkersAssumption == MaxWorkers \in Nat \ {0}
ASSUME CountsAssumption == Counts \subseteq Nat /\ 0 \in Counts

Files   == 1..NFiles
Workers == 1..MaxWorkers
Main    == 0
Threads == {Main} \cup Workers
NoFile  == 0

VARIABLES
  nworkers,   \* used_worker_count, fixed when the run starts
  pc,         \* per thread: its next step
  cur,        \* per thread: the file it is processing (ltestfile / tf)
  widx,       \* the distributor's position in its loop over the workers
  fileidx,    \* the next file to assign, from 1 (the code counts from 0)
  allidle,    \* the local of the final waiting loop
  worker,     \* per worker: the fields of its OTestFileWorker
  file,       \* per file: the fields of its OTestFile
  report      \* the summaries ProcessResults has printed: none or one

vars == <<nworkers, pc, cur, widx, fileidx, allidle, worker, file, report>>

(* A worker object is absent before StartWorkers and after its delete.     *)
NewWorker == [live |-> FALSE, testfile |-> NoFile, busy |-> FALSE,
              run_requested |-> FALSE, terminate_requested |-> FALSE]
WorkerType == [live : BOOLEAN, testfile : Files \cup {NoFile}, busy : BOOLEAN,
               run_requested : BOOLEAN, terminate_requested : BOOLEAN]

(* has_run / has_err: the markers ParseText found; out: the counters.      *)
NewFile == [processed |-> FALSE, has_err |-> FALSE, out |-> NoOutcome]
FileType == [processed : BOOLEAN, has_err : BOOLEAN, out : Outcome]

MainLabels   == {"start", "assign", "offer", "drain", "stop", "notifystop",
                 "join", "nextfile", "results", "exited"}
WorkLabels   == {"process", "runtest", "errtest"}
WorkerLabels == {"absent", "test", "asleep", "loaded", "release", "notify", "gone"}

Init == /\ nworkers \in Workers
        /\ pc = [t \in Threads |->
                   IF t # Main THEN "absent"
                   ELSE IF nworkers > 1 THEN "start" ELSE "nextfile"]
        /\ cur = [t \in Threads |-> NoFile]
        /\ widx = 1
        /\ fileidx = 1
        /\ allidle = TRUE
        /\ worker = [w \in Workers |-> NewWorker]
        /\ file = [f \in Files |-> NewFile]
        /\ report = {}

Goto(t, l) == pc' = [pc EXCEPT ![t] = l]

(* Mutant: the tests of run_requested and of testfile are missing          *)
NotBusy(w) == ~worker[w].busy
IsIdle(w) == /\ ~worker[w].busy
             /\ ~worker[w].run_requested
             /\ worker[w].testfile = NoFile

(* notify_all on worker w's condition variable.                            *)
(* Mutant: the notification is missing                                     *)
NotWoken(w, l) == [pc EXCEPT ![Main] = l]

Woken(w, l) == [pc EXCEPT ![Main] = l,
                          ![w] = IF pc[w] = "asleep" THEN "test" ELSE pc[w]]

-----------------------------------------------------------------------------
(* OTestFile::Process, run by thread t on its file.                        *)

AfterProcess(t) == IF t = Main THEN "nextfile" ELSE "release"

(* A file that cannot be loaded or parsed, or has no markers, is done.     *)
RejectFile(t) == \E n \in Counts \ {0} :
  /\ file' = [file EXCEPT ![cur[t]].processed = TRUE,
                          ![cur[t]].out.errorcnt_tf = n]
  /\ Goto(t, AfterProcess(t))

(* Its markers say which variants it has: at least one.                    *)
FindMarkers(t) == \E has_run, has_err \in BOOLEAN :
  /\ has_run \/ has_err
  /\ file' = [file EXCEPT ![cur[t]].has_err = has_err]
  /\ Goto(t, IF has_run THEN "runtest" ELSE "errtest")

ParseFile(t) ==
  /\ pc[t] = "process"
  /\ RejectFile(t) \/ FindMarkers(t)
  /\ UNCHANGED <<nworkers, cur, widx, fileidx, allidle, worker, report>>

(* `processed' is set when the last variant of the file has run.           *)
(* Mutant: it is set when the run variant has run                          *)
NoMoreAfterAny(t) == TRUE

NoMoreAfterRun(t) == ~file[cur[t]].has_err

ExecRunTest(t) ==
  /\ pc[t] = "runtest"
  /\ \E n \in Counts :
       file' = [file EXCEPT ![cur[t]].processed = NoMoreAfterRun(t),
                            ![cur[t]].out.exec_run = TRUE,
                            ![cur[t]].out.errorcnt_run = n]
  /\ Goto(t, IF file[cur[t]].has_err THEN "errtest" ELSE AfterProcess(t))
  /\ UNCHANGED <<nworkers, cur, widx, fileidx, allidle, worker, report>>

ExecErrorTest(t) ==
  /\ pc[t] = "errtest"
  /\ \E n \in Counts :
       file' = [file EXCEPT ![cur[t]].processed = TRUE,
                            ![cur[t]].out.exec_err = TRUE,
                            ![cur[t]].out.errorcnt_err = n]
  /\ Goto(t, AfterProcess(t))
  /\ UNCHANGED <<nworkers, cur, widx, fileidx, allidle, worker, report>>

Process(t) == ParseFile(t) \/ ExecRunTest(t) \/ ExecErrorTest(t)

-----------------------------------------------------------------------------
(* OTestFileWorker::ThreadFunc                                             *)

(* Under the mutex: the predicate of cond.wait and what follows it.        *)
TestWakeup(w) ==
  /\ pc[w] = "test"
  /\ IF worker[w].run_requested
     THEN /\ worker' = [worker EXCEPT ![w].busy = TRUE,
                                      ![w].run_requested = FALSE]
          /\ cur' = [cur EXCEPT ![w] = worker[w].testfile]
          /\ Goto(w, "loaded")
     ELSE /\ Goto(w, IF worker[w].terminate_requested THEN "gone" ELSE "asleep")
          /\ UNCHANGED <<worker, cur>>
  /\ UNCHANGED <<nworkers, widx, fileidx, allidle, file, report>>

SpuriousWakeup(w) ==
  /\ pc[w] = "asleep"
  /\ Goto(w, "test")
  /\ UNCHANGED <<nworkers, cur, widx, fileidx, allidle, worker, file, report>>

(* Outside the mutex: a file that was processed before is not run again.   *)
StartProcess(w) ==
  /\ pc[w] = "loaded"
  /\ Goto(w, IF cur[w] # NoFile /\ ~file[cur[w]].processed
             THEN "process" ELSE "release")
  /\ UNCHANGED <<nworkers, cur, widx, fileidx, allidle, worker, file, report>>

(* Under the mutex: the worker becomes idle again.                         *)
Release(w) ==
  /\ pc[w] = "release"
  /\ worker' = [worker EXCEPT ![w].testfile = NoFile, ![w].busy = FALSE]
  /\ cur' = [cur EXCEPT ![w] = NoFile]
  /\ Goto(w, "notify")
  /\ UNCHANGED <<nworkers, widx, fileidx, allidle, file, report>>

(* notify_all after the unlock: only the worker itself waits on its cond.  *)
NotifyIdle(w) ==
  /\ pc[w] = "notify"
  /\ Goto(w, "test")
  /\ UNCHANGED <<nworkers, cur, widx, fileidx, allidle, worker, file, report>>

WorkerStep(w) == \/ TestWakeup(w) \/ StartProcess(w) \/ Process(w)
                 \/ Release(w) \/ NotifyIdle(w)

-----------------------------------------------------------------------------
(* OAtRunner, the distributor                                              *)

LastWorker == widx = nworkers

(* Mutant: the index runs past the end of the vector                       *)
NextWorkerNoWrap == widx' = widx + 1

NextWorker == widx' = IF LastWorker THEN 1 ELSE widx + 1

(* One round of StartWorkers: a new worker object and its thread.          *)
StartWorker ==
  /\ pc[Main] = "start"
  /\ worker' = [worker EXCEPT ![widx] = [NewWorker EXCEPT !.live = TRUE]]
  /\ pc' = [pc EXCEPT ![widx] = "test",
                      ![Main] = IF ~LastWorker THEN "start"
                                ELSE IF NFiles = 0 THEN "drain" ELSE "assign"]
  /\ NextWorker
  /\ UNCHANGED <<nworkers, cur, fileidx, allidle, file, report>>

(* The IsIdle call of the assignment loop.                                 *)
PollWorker ==
  /\ pc[Main] = "assign"
  /\ IF IsIdle(widx)
     THEN Goto(Main, "offer") /\ UNCHANGED widx
     ELSE NextWorker /\ UNCHANGED pc
  /\ UNCHANGED <<nworkers, cur, fileidx, allidle, worker, file, report>>

(* Mutant: the index advances once per pass over the workers               *)
AdvancePerPass == fileidx' = IF LastWorker THEN fileidx + 1 ELSE fileidx

Advance == fileidx' = fileidx + 1

(* The ProcessFile call that follows it: the mutex was free in between.    *)
OfferFile ==
  /\ pc[Main] = "offer"
  /\ IF IsIdle(widx)
     THEN /\ worker' = [worker EXCEPT ![widx].testfile = fileidx,
                                      ![widx].run_requested = TRUE]
          /\ Advance
          /\ pc' = Woken(widx, IF fileidx = NFiles THEN "drain" ELSE "assign")
          /\ IF fileidx = NFiles THEN widx' = 1 ELSE NextWorker
     ELSE /\ Goto(Main, "assign")
          /\ NextWorker
          /\ UNCHANGED <<worker, fileidx>>
  /\ UNCHANGED <<nworkers, cur, allidle, file, report>>

(* Mutant: `allidle' is set again by a later idle worker                   *)
LastSeenIdle == IsIdle(widx)

SeenIdle == allidle /\ IsIdle(widx)

(* One IsIdle call of the final waiting loop; a pass that met a busy       *)
(* worker is repeated from the first worker on.                            *)
PollIdle ==
  /\ pc[Main] = "drain"
  /\ NextWorker
  /\ allidle' = (LastWorker \/ SeenIdle)
  /\ Goto(Main, IF LastWorker /\ SeenIdle THEN "stop" ELSE "drain")
  /\ UNCHANGED <<nworkers, cur, fileidx, worker, file, report>>

(* StopWorkers, worker after worker: OTestFileWorker::Stop sets the flag   *)
(* under the mutex, notifies after the unlock and joins; then the delete.  *)
RequestStop ==
  /\ pc[Main] = "stop"
  /\ worker' = [worker EXCEPT ![widx].terminate_requested = TRUE]
  /\ Goto(Main, "notifystop")
  /\ UNCHANGED <<nworkers, cur, widx, fileidx, allidle, file, report>>

NotifyStop ==
  /\ pc[Main] = "notifystop"
  /\ pc' = Woken(widx, "join")
  /\ UNCHANGED <<nworkers, cur, widx, fileidx, allidle, worker, file, report>>

(* Mutant: the thread is detached instead of joined                        *)
Detached(w) == TRUE

Joined(w) == pc[w] = "gone"

JoinWorker ==
  /\ pc[Main] = "join"
  /\ Joined(widx)
  /\ worker' = [worker EXCEPT ![widx].live = FALSE]
  /\ Goto(Main, IF LastWorker THEN "results" ELSE "stop")
  /\ NextWorker
  /\ UNCHANGED <<nworkers, cur, fileidx, allidle, file, report>>

(* ProcessBatchFilesSequential, when there would be one worker only.       *)
NextFile ==
  /\ pc[Main] = "nextfile"
  /\ IF fileidx <= NFiles
     THEN /\ cur' = [cur EXCEPT ![Main] = fileidx]
          /\ Advance
          /\ Goto(Main, "process")
     ELSE /\ cur' = [cur EXCEPT ![Main] = NoFile]
          /\ Goto(Main, "results")
          /\ UNCHANGED fileidx
  /\ UNCHANGED <<nworkers, widx, allidle, worker, file, report>>

ProcessResults ==
  /\ pc[Main] = "results"
  /\ report' = {Summary([f \in Files |-> file[f].out])}
  /\ Goto(Main, "exited")
  /\ UNCHANGED <<nworkers, cur, widx, fileidx, allidle, worker, file>>

MainStep == \/ StartWorker \/ PollWorker \/ OfferFile \/ PollIdle
            \/ RequestStop \/ NotifyStop \/ JoinWorker
            \/ NextFile \/ Process(Main) \/ ProcessResults

Exited == pc[Main] = "exited" /\ UNCHANGED vars

Next == \/ MainStep
        \/ \E w \in Workers : WorkerStep(w) \/ SpuriousWakeup(w)
        \/ Exited

(* Every thread that can run is scheduled in the end, and a thread that    *)
(* keeps finding a mutex free between two polls of the distributor gets    *)
(* it; no spurious wakeup is owed.                                         *)
Fairness == /\ WF_vars(MainStep)
            /\ \A w \in Workers : WF_vars(WorkerStep(w))

Spec == Init /\ [][Next]_vars /\ Fairness

-----------------------------------------------------------------------------
(* Properties                                                              *)

TypeOK == /\ nworkers \in Workers
          /\ pc \in [Threads -> MainLabels \cup WorkLabels \cup WorkerLabels]
          /\ pc[Main] \in MainLabels \cup WorkLabels
          /\ \A w \in Workers : pc[w] \in WorkLabels \cup WorkerLabels
          /\ cur \in [Threads -> Files \cup {NoFile}]
          /\ widx \in 1..nworkers
          /\ fileidx \in 1..(NFiles + 1)
          /\ allidle \in BOOLEAN
          /\ worker \in [Workers -> WorkerType]
          /\ file \in [Files -> FileType]
          /\ (report = {}) = (pc[Main] # "exited")

Working(t) == pc[t] \in WorkLabels

(* A test file is never in the hands of two threads: the distributor gives *)
(* a file to one worker only, and a worker works on the file it was given, *)
(* which no thread has processed before.                                   *)
OneOwner ==
  /\ \A v, w \in Workers : worker[v].testfile = worker[w].testfile
                            => v = w \/ worker[v].testfile = NoFile
  /\ \A w \in Workers : Working(w) => cur[w] = worker[w].testfile
  /\ \A t \in Threads : Working(t) => cur[t] # NoFile /\ ~file[cur[t]].processed

(* The distributor leaves the waiting loop after one pass in which it found *)
(* every worker idle, one mutex at a time: from then on every file has been *)
(* processed to its end and no worker is at work, so that ProcessResults    *)
(* reads complete counters that nobody writes.                              *)
AllProcessed ==
  pc[Main] \in {"stop", "notifystop", "join", "results", "exited"} =>
    /\ \A f \in Files : file[f].processed
    /\ \A w \in Workers : ~Working(w)

(* StopWorkers deletes a worker only when its thread has returned: no      *)
(* thread runs on an object that is not there.                             *)
NoUseAfterDelete ==
  \A w \in Workers : ~worker[w].live => pc[w] \in {"absent", "gone"}

(* Once a file is marked as processed nothing of it changes any more: it   *)
(* is not run a second time and no late result arrives.                    *)
ResultsFrozen ==
  [][\A f \in Files : file[f].processed => file'[f] = file[f]]_vars

(* No wakeup is lost and no thread waits for another forever: the batch    *)
(* ends with its report, whatever the workers' pace.                       *)
Terminates == <>(pc[Main] = "exited")

(* The runner, with any number of workers or without threads, implements   *)
(* the abstract batch: each file is taken once, finishes with one complete *)
(* outcome, and the summary counts them all.                               *)
B == INSTANCE Batch WITH
       Outcomes <- {o \in [exec_run : BOOLEAN, exec_err : BOOLEAN,
                           errorcnt_tf : Counts, errorcnt_run : Counts,
                           errorcnt_err : Counts] :
                      /\ o.errorcnt_tf > 0 <=> ~(o.exec_run \/ o.exec_err)
                      /\ o.exec_run \/ o.errorcnt_run = 0
                      /\ o.exec_err \/ o.errorcnt_err = 0},
       MaxParallel <- MaxWorkers,
       capacity <- nworkers,
       status <- [f \in Files |->
                    IF file[f].processed THEN "done"
                    ELSE IF \E t \in Threads : Working(t) /\ cur[t] = f
                    THEN "taken" ELSE "todo"],
       outcome <- [f \in Files |->
                     IF file[f].processed THEN file[f].out ELSE NoOutcome]

RefinesBatch == B!Spec
=============================================================================
