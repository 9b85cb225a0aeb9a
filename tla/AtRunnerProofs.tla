--------------------------- MODULE AtRunnerProofs ---------------------------
(***************************************************************************)
(* Safety of the batch runner for any number of files and workers.         *)
(* The inductive invariant IInv ties the three flags of a worker to the    *)
(* place its thread is at, the files to the worker that holds them, and    *)
(* the distributor's phase to both.                                        *)
(***************************************************************************)
EXTENDS AtRunner, FiniteSetTheorems, TLAPS

StopLabels == {"stop", "notifystop", "join", "results", "exited"}
SeqLabels  == WorkLabels \cup {"nextfile"}

(* A waiting worker has a file only when its run is requested; a worker at *)
(* work has cleared the request, is busy and works on that file; a thread  *)
(* that has not started or has returned left nothing behind.               *)
WorkerInv == \A w \in Workers :
  /\ pc[w] \in {"test", "asleep", "notify"} =>
       /\ ~worker[w].busy
       /\ worker[w].run_requested = (worker[w].testfile # NoFile)
  /\ pc[w] \in {"loaded", "release"} \cup WorkLabels =>
       /\ worker[w].busy /\ ~worker[w].run_requested
       /\ worker[w].testfile # NoFile
       /\ cur[w] = worker[w].testfile
  /\ pc[w] \in {"absent", "gone"} =>
       /\ ~worker[w].busy /\ ~worker[w].run_requested
       /\ worker[w].testfile = NoFile

(* A file is not processed before it is assigned, while a worker holds it  *)
(* it is processed only when the worker is about to let go of it, and an   *)
(* assigned file that is not processed yet has a holder.                   *)
HeldBy(f) == \/ \E w \in Workers : worker[w].testfile = f
             \/ Working(Main) /\ cur[Main] = f

HolderInv ==
  /\ \A w \in Workers : worker[w].testfile < fileidx
  /\ \A w \in Workers : worker[w].testfile # NoFile
                        => file[worker[w].testfile].processed = (pc[w] = "release")
  /\ \A v, w \in Workers : worker[v].testfile = worker[w].testfile
                           => v = w \/ worker[v].testfile = NoFile

FileInv ==
  /\ \A f \in Files : f >= fileidx => ~file[f].processed
  /\ \A f \in Files : f < fileidx /\ ~file[f].processed => HeldBy(f)

(* The distributor without threads works on the last file it took.         *)
SeqInv == /\ pc[Main] \in SeqLabels => \A w \in Workers : pc[w] = "absent"
          /\ Working(Main) => /\ cur[Main] \in Files
                              /\ cur[Main] + 1 = fileidx
                              /\ ~file[cur[Main]].processed

(* The phases of the distributor.                                          *)
PhaseInv ==
  /\ pc[Main] = "start" =>
       fileidx = 1 /\ \A w \in Workers : w >= widx => pc[w] = "absent"
  /\ pc[Main] = "start" => \A w \in Workers : w < widx => pc[w] # "absent"
  /\ pc[Main] \in {"assign", "offer", "drain"} =>
       \A w \in 1..nworkers : pc[w] # "absent"
  /\ pc[Main] \in {"assign", "offer"} => fileidx =< NFiles
  /\ pc[Main] = "offer" => IsIdle(widx)
  /\ pc[Main] \in StopLabels \cup {"drain"} => fileidx = NFiles + 1
  /\ pc[Main] = "drain" /\ allidle => \A w \in 1..(widx - 1) : IsIdle(w)
  /\ pc[Main] \in StopLabels => \A w \in Workers : IsIdle(w)
  /\ \A w \in Workers : w > nworkers => pc[w] = "absent"
  /\ \A w \in Workers : worker[w].terminate_requested \/ pc[w] = "gone"
                        => pc[Main] \in StopLabels

IInv == /\ TypeOK /\ WorkerInv /\ HolderInv /\ FileInv /\ SeqInv /\ PhaseInv
        /\ NoUseAfterDelete

-----------------------------------------------------------------------------
(* What the three parts of OTestFile::Process have in common: the thread's *)
(* own file changes and no other, and it is marked as processed exactly    *)
(* when the thread leaves Process.                                         *)
ProcessEffect(t) ==
  /\ pc[t] \in WorkLabels
  /\ \E l \in {"runtest", "errtest", AfterProcess(t)} :
        /\ pc' = [pc EXCEPT ![t] = l]
        /\ cur[t] \in Files => (file'[cur[t]].processed <=> l = AfterProcess(t))
  /\ file' \in [Files -> FileType]
  /\ \A f \in Files : f # cur[t] => file'[f] = file[f]
  /\ UNCHANGED <<nworkers, cur, widx, fileidx, allidle, worker, report>>

(* A file record stays one when its variants fill in their counters.       *)
LEMMA FileTypeClosed ==
  ASSUME NEW r \in FileType, NEW n \in Nat, NEW b \in BOOLEAN
  PROVE  /\ [r EXCEPT !.processed = b, !.out.errorcnt_tf = n] \in FileType
         /\ [r EXCEPT !.processed = b, !.out.exec_run = TRUE,
                      !.out.errorcnt_run = n] \in FileType
         /\ [r EXCEPT !.processed = b, !.out.exec_err = TRUE,
                      !.out.errorcnt_err = n] \in FileType
         /\ [r EXCEPT !.has_err = b] \in FileType
<1>1. r.out \in Outcome
  BY DEF FileType
<1>2. [r.out EXCEPT !.errorcnt_tf = n] \in Outcome
  BY <1>1 DEF Outcome
<1>3. [r.out EXCEPT !.exec_run = TRUE, !.errorcnt_run = n] \in Outcome
  BY <1>1 DEF Outcome
<1>4. [r.out EXCEPT !.exec_err = TRUE, !.errorcnt_err = n] \in Outcome
  BY <1>1 DEF Outcome
<1> QED
  BY <1>2, <1>3, <1>4 DEF FileType

LEMMA ParseFileEffect ==
  ASSUME TypeOK, NEW t \in Threads, cur[t] \in Files, ~file[cur[t]].processed,
         ParseFile(t)
  PROVE  ProcessEffect(t)
<1>1. /\ pc[t] \in WorkLabels
      /\ UNCHANGED <<nworkers, cur, widx, fileidx, allidle, worker, report>>
  BY DEF ParseFile, WorkLabels
<1>2. file \in [Files -> FileType]
  BY DEF TypeOK
<1>3. CASE RejectFile(t)
  <2>0. PICK n \in Counts \ {0} :
          /\ file' = [file EXCEPT ![cur[t]].processed = TRUE,
                                  ![cur[t]].out.errorcnt_tf = n]
          /\ Goto(t, AfterProcess(t))
    BY <1>3 DEF RejectFile
  <2>1. file' = [file EXCEPT ![cur[t]] =
                   [file[cur[t]] EXCEPT !.processed = TRUE, !.out.errorcnt_tf = n]]
    BY <2>0
  <2>2. file' \in [Files -> FileType]
    BY <1>2, <2>1, FileTypeClosed, CountsAssumption
  <2>3. file'[cur[t]].processed /\ \A f \in Files : f # cur[t] => file'[f] = file[f]
    BY <1>2, <2>1 DEF FileType
  <2>4. pc' = [pc EXCEPT ![t] = AfterProcess(t)]
    BY <2>0 DEF Goto
  <2>5. \E l \in {"runtest", "errtest", AfterProcess(t)} :
           /\ pc' = [pc EXCEPT ![t] = l]
           /\ cur[t] \in Files => (file'[cur[t]].processed <=> l = AfterProcess(t))
    BY <2>3, <2>4
  <2> QED
    BY <1>1, <2>2, <2>3, <2>5 DEF ProcessEffect
<1>4. CASE FindMarkers(t)
  <2>0. PICK has_run \in BOOLEAN, has_err \in BOOLEAN :
          /\ file' = [file EXCEPT ![cur[t]].has_err = has_err]
          /\ Goto(t, IF has_run THEN "runtest" ELSE "errtest")
    BY <1>4 DEF FindMarkers
  <2>1. file' = [file EXCEPT ![cur[t]] = [file[cur[t]] EXCEPT !.has_err = has_err]]
    BY <2>0
  <2>2. file' \in [Files -> FileType]
    BY <1>2, <2>1, FileTypeClosed
  <2>3. ~file'[cur[t]].processed /\ \A f \in Files : f # cur[t] => file'[f] = file[f]
    BY <1>2, <2>1 DEF FileType
  <2>4. AfterProcess(t) \notin {"runtest", "errtest"}
    BY DEF AfterProcess
  <2>5. PICK l \in {"runtest", "errtest"} : pc' = [pc EXCEPT ![t] = l]
    BY <2>0 DEF Goto
  <2>6. \E m \in {"runtest", "errtest", AfterProcess(t)} :
           /\ pc' = [pc EXCEPT ![t] = m]
           /\ cur[t] \in Files => (file'[cur[t]].processed <=> m = AfterProcess(t))
    BY <2>3, <2>4, <2>5
  <2> QED
    BY <1>1, <2>2, <2>3, <2>6 DEF ProcessEffect
<1> QED
  BY <1>3, <1>4 DEF ParseFile

LEMMA ExecRunTestEffect ==
  ASSUME TypeOK, NEW t \in Threads, cur[t] \in Files, ExecRunTest(t)
  PROVE  ProcessEffect(t)
<1>1. /\ pc[t] \in WorkLabels
      /\ UNCHANGED <<nworkers, cur, widx, fileidx, allidle, worker, report>>
  BY DEF ExecRunTest, WorkLabels
<1>2. file \in [Files -> FileType] /\ file[cur[t]].has_err \in BOOLEAN
  BY DEF TypeOK, FileType
<1>3. PICK n \in Counts :
        file' = [file EXCEPT ![cur[t]].processed = NoMoreAfterRun(t),
                             ![cur[t]].out.exec_run = TRUE,
                             ![cur[t]].out.errorcnt_run = n]
  BY DEF ExecRunTest
<1> DEFINE b == ~file[cur[t]].has_err
<1>4. file' = [file EXCEPT ![cur[t]] =
                 [file[cur[t]] EXCEPT !.processed = b, !.out.exec_run = TRUE,
                                      !.out.errorcnt_run = n]]
  BY <1>3 DEF NoMoreAfterRun
<1>5. file' \in [Files -> FileType]
  BY <1>2, <1>4, FileTypeClosed, CountsAssumption
<1>6. file'[cur[t]].processed = b /\ \A f \in Files : f # cur[t] => file'[f] = file[f]
  BY <1>2, <1>4 DEF FileType
<1>7. CASE b
  <2>1. pc' = [pc EXCEPT ![t] = AfterProcess(t)]
    BY <1>7 DEF ExecRunTest, Goto
  <2> QED
    BY <1>1, <1>5, <1>6, <1>7, <2>1 DEF ProcessEffect
<1>8. CASE ~b
  <2>1. pc' = [pc EXCEPT ![t] = "errtest"] /\ AfterProcess(t) # "errtest"
    BY <1>8 DEF ExecRunTest, Goto, AfterProcess
  <2> QED
    BY <1>1, <1>5, <1>6, <1>8, <2>1 DEF ProcessEffect
<1> QED
  BY <1>7, <1>8

LEMMA ExecErrorTestEffect ==
  ASSUME TypeOK, NEW t \in Threads, cur[t] \in Files, ExecErrorTest(t)
  PROVE  ProcessEffect(t)
<1>1. /\ pc[t] \in WorkLabels
      /\ pc' = [pc EXCEPT ![t] = AfterProcess(t)]
      /\ UNCHANGED <<nworkers, cur, widx, fileidx, allidle, worker, report>>
  BY DEF ExecErrorTest, WorkLabels, Goto
<1>2. file \in [Files -> FileType]
  BY DEF TypeOK
<1>3. PICK n \in Counts :
        file' = [file EXCEPT ![cur[t]].processed = TRUE,
                             ![cur[t]].out.exec_err = TRUE,
                             ![cur[t]].out.errorcnt_err = n]
  BY DEF ExecErrorTest
<1>4. file' = [file EXCEPT ![cur[t]] =
                 [file[cur[t]] EXCEPT !.processed = TRUE, !.out.exec_err = TRUE,
                                      !.out.errorcnt_err = n]]
  BY <1>3
<1>5. file' \in [Files -> FileType]
  BY <1>2, <1>4, FileTypeClosed, CountsAssumption
<1>6. file'[cur[t]].processed /\ \A f \in Files : f # cur[t] => file'[f] = file[f]
  BY <1>2, <1>4 DEF FileType
<1> QED
  BY <1>1, <1>5, <1>6 DEF ProcessEffect

-----------------------------------------------------------------------------
(* One lemma for each action: it preserves every part of the invariant.    *)

USE DEF Files, Workers, Threads, Main, NoFile, MainLabels, WorkLabels,
        WorkerLabels, WorkerType

LEMMA ProcessEffectStep ==
  ASSUME IInv, NEW t \in Threads, ProcessEffect(t)
  PROVE  IInv'
<1>1. TypeOK /\ WorkerInv /\ HolderInv /\ FileInv /\ SeqInv /\ PhaseInv /\ NoUseAfterDelete
  BY DEF IInv
<1>2. TypeOK'
  BY <1>1, NFilesAssumption, MaxWorkersAssumption
  DEF TypeOK, FileType, ProcessEffect, AfterProcess
<1>3. WorkerInv'
  BY <1>1, <1>2 DEF WorkerInv, TypeOK, ProcessEffect, AfterProcess
<1>4. HolderInv'
  <2>1. ASSUME NEW v \in Workers, worker[v].testfile # NoFile
        PROVE  file'[worker[v].testfile].processed = (pc'[v] = "release")
    <3>1. CASE v = t
      BY <1>1, <2>1, <3>1
      DEF TypeOK, WorkerInv, HolderInv, ProcessEffect, AfterProcess, FileType
    <3>2. CASE v # t
      <4>1. worker[v].testfile # cur[t]
        BY <1>1, <2>1, <3>2
        DEF TypeOK, WorkerInv, HolderInv, SeqInv, SeqLabels, Working, ProcessEffect
      <4> QED
        BY <1>1, <2>1, <3>2, <4>1 DEF TypeOK, HolderInv, ProcessEffect
    <3> QED
      BY <3>1, <3>2
  <2> QED
    BY <1>1, <2>1 DEF HolderInv, ProcessEffect
<1>5. FileInv'
  BY <1>1, <1>2, NFilesAssumption, MaxWorkersAssumption
  DEF TypeOK, ProcessEffect, AfterProcess, WorkerInv, HolderInv, FileInv, HeldBy,
      Working, SeqInv, SeqLabels, PhaseInv, StopLabels, IsIdle, NoUseAfterDelete
<1>6. SeqInv'
  BY <1>1, <1>2
  DEF SeqInv, SeqLabels, Working, WorkerInv, TypeOK, ProcessEffect, AfterProcess
<1>7. PhaseInv'
  BY <1>1, <1>2
  DEF PhaseInv, StopLabels, IsIdle, TypeOK, ProcessEffect, AfterProcess
<1>8. NoUseAfterDelete'
  BY <1>1, <1>2 DEF NoUseAfterDelete, TypeOK, ProcessEffect, AfterProcess
<1> QED
  BY <1>2, <1>3, <1>4, <1>5, <1>6, <1>7, <1>8 DEF IInv

LEMMA TestWakeupStep ==
  ASSUME IInv, NEW w \in Workers, TestWakeup(w)
  PROVE  IInv'
<1>1. TypeOK /\ WorkerInv /\ HolderInv /\ FileInv /\ SeqInv /\ PhaseInv /\ NoUseAfterDelete
  BY DEF IInv
<1>2. TypeOK'
  <2>1. worker' \in [Workers -> WorkerType]
    BY <1>1 DEF TypeOK, TestWakeup
  <2>2. cur' \in [Threads -> Files \cup {NoFile}]
    BY <1>1 DEF TypeOK, TestWakeup
  <2>3. \E l \in WorkerLabels : pc' = [pc EXCEPT ![w] = l]
    BY DEF TestWakeup, Goto
  <2> QED
    BY <1>1, <2>1, <2>2, <2>3 DEF TypeOK, TestWakeup
<1>3. WorkerInv'
  BY <1>1, <1>2 DEF WorkerInv, TypeOK, TestWakeup, Goto
<1>4. HolderInv'
  BY <1>1, <1>2 DEF HolderInv, TypeOK, TestWakeup, Goto
<1>5. FileInv'
  BY <1>1, <1>2 DEF FileInv, HeldBy, Working, TypeOK, TestWakeup, Goto
<1>6. SeqInv'
  BY <1>1, <1>2 DEF SeqInv, SeqLabels, Working, TypeOK, TestWakeup, Goto
<1>7. PhaseInv'
  BY <1>1, <1>2, NFilesAssumption, MaxWorkersAssumption
  DEF TypeOK, TestWakeup, Goto, WorkerInv, HolderInv, FileInv, HeldBy, Working,
      SeqInv, SeqLabels, PhaseInv, StopLabels, IsIdle, NoUseAfterDelete
<1>8. NoUseAfterDelete'
  BY <1>1, <1>2 DEF NoUseAfterDelete, TypeOK, TestWakeup, Goto
<1> QED
  BY <1>2, <1>3, <1>4, <1>5, <1>6, <1>7, <1>8 DEF IInv

LEMMA StartProcessStep ==
  ASSUME IInv, NEW w \in Workers, StartProcess(w)
  PROVE  IInv'
<1>1. TypeOK /\ WorkerInv /\ HolderInv /\ FileInv /\ SeqInv /\ PhaseInv /\ NoUseAfterDelete
  BY DEF IInv
<1>2. TypeOK'
  BY <1>1, NFilesAssumption, MaxWorkersAssumption
  DEF TypeOK, FileType, StartProcess, Goto
<1>3. WorkerInv'
  BY <1>1, <1>2 DEF WorkerInv, TypeOK, StartProcess, Goto
<1>4. HolderInv'
  BY <1>1, <1>2 DEF HolderInv, WorkerInv, TypeOK, StartProcess, Goto
<1>5. FileInv'
  BY <1>1, <1>2 DEF FileInv, HeldBy, Working, TypeOK, StartProcess, Goto
<1>6. SeqInv'
  BY <1>1, <1>2 DEF SeqInv, SeqLabels, Working, TypeOK, StartProcess, Goto
<1>7. PhaseInv'
  BY <1>1, <1>2 DEF PhaseInv, StopLabels, IsIdle, TypeOK, StartProcess, Goto
<1>8. NoUseAfterDelete'
  BY <1>1, <1>2 DEF NoUseAfterDelete, TypeOK, StartProcess, Goto
<1> QED
  BY <1>2, <1>3, <1>4, <1>5, <1>6, <1>7, <1>8 DEF IInv

LEMMA ReleaseStep ==
  ASSUME IInv, NEW w \in Workers, Release(w)
  PROVE  IInv'
<1>1. TypeOK /\ WorkerInv /\ HolderInv /\ FileInv /\ SeqInv /\ PhaseInv /\ NoUseAfterDelete
  BY DEF IInv
<1>2. TypeOK'
  <2>1. worker' \in [Workers -> WorkerType]
    <3>0. worker[w] \in WorkerType
      BY <1>1 DEF TypeOK
    <3>1. [worker[w] EXCEPT !.testfile = NoFile, !.busy = FALSE] \in WorkerType
      BY <3>0
    <3>2. worker' = [worker EXCEPT ![w] = [worker[w] EXCEPT !.testfile = NoFile,
                                                            !.busy = FALSE]]
      BY DEF Release
    <3> QED
      BY <1>1, <3>1, <3>2 DEF TypeOK
  <2>2. cur' \in [Threads -> Files \cup {NoFile}]
    BY <1>1 DEF TypeOK, Release
  <2>3. pc' = [pc EXCEPT ![w] = "notify"]
    BY DEF Release, Goto
  <2> QED
    BY <1>1, <2>1, <2>2, <2>3 DEF TypeOK, Release
<1>3. WorkerInv'
  BY <1>1, <1>2 DEF WorkerInv, TypeOK, Release, Goto
<1>4. HolderInv'
  BY <1>1, <1>2 DEF HolderInv, TypeOK, Release, Goto
<1>5. FileInv'
  BY <1>1, <1>2 DEF FileInv, HeldBy, Working, WorkerInv, TypeOK, Release, Goto
<1>6. SeqInv'
  BY <1>1, <1>2 DEF SeqInv, SeqLabels, Working, TypeOK, Release, Goto
<1>7. PhaseInv'
  BY <1>1, <1>2 DEF PhaseInv, StopLabels, IsIdle, WorkerInv, TypeOK, Release, Goto
<1>8. NoUseAfterDelete'
  BY <1>1, <1>2 DEF NoUseAfterDelete, TypeOK, Release, Goto
<1> QED
  BY <1>2, <1>3, <1>4, <1>5, <1>6, <1>7, <1>8 DEF IInv

LEMMA NotifyIdleStep ==
  ASSUME IInv, NEW w \in Workers, NotifyIdle(w)
  PROVE  IInv'
<1>1. TypeOK /\ WorkerInv /\ HolderInv /\ FileInv /\ SeqInv /\ PhaseInv /\ NoUseAfterDelete
  BY DEF IInv
<1>2. TypeOK'
  BY <1>1, NFilesAssumption, MaxWorkersAssumption
  DEF TypeOK, FileType, NotifyIdle, Goto
<1>3. WorkerInv'
  BY <1>1, <1>2 DEF WorkerInv, TypeOK, NotifyIdle, Goto
<1>4. HolderInv'
  BY <1>1, <1>2 DEF HolderInv, TypeOK, NotifyIdle, Goto
<1>5. FileInv'
  BY <1>1, <1>2 DEF FileInv, HeldBy, Working, TypeOK, NotifyIdle, Goto
<1>6. SeqInv'
  BY <1>1, <1>2 DEF SeqInv, SeqLabels, Working, TypeOK, NotifyIdle, Goto
<1>7. PhaseInv'
  BY <1>1, <1>2 DEF PhaseInv, StopLabels, IsIdle, TypeOK, NotifyIdle, Goto
<1>8. NoUseAfterDelete'
  BY <1>1, <1>2 DEF NoUseAfterDelete, TypeOK, NotifyIdle, Goto
<1> QED
  BY <1>2, <1>3, <1>4, <1>5, <1>6, <1>7, <1>8 DEF IInv

LEMMA SpuriousWakeupStep ==
  ASSUME IInv, NEW w \in Workers, SpuriousWakeup(w)
  PROVE  IInv'
<1>1. TypeOK /\ WorkerInv /\ HolderInv /\ FileInv /\ SeqInv /\ PhaseInv /\ NoUseAfterDelete
  BY DEF IInv
<1>2. TypeOK'
  BY <1>1, NFilesAssumption, MaxWorkersAssumption
  DEF TypeOK, FileType, SpuriousWakeup, Goto
<1>3. WorkerInv'
  BY <1>1, <1>2 DEF WorkerInv, TypeOK, SpuriousWakeup, Goto
<1>4. HolderInv'
  BY <1>1, <1>2 DEF HolderInv, TypeOK, SpuriousWakeup, Goto
<1>5. FileInv'
  BY <1>1, <1>2 DEF FileInv, HeldBy, Working, TypeOK, SpuriousWakeup, Goto
<1>6. SeqInv'
  BY <1>1, <1>2 DEF SeqInv, SeqLabels, Working, TypeOK, SpuriousWakeup, Goto
<1>7. PhaseInv'
  BY <1>1, <1>2 DEF PhaseInv, StopLabels, IsIdle, TypeOK, SpuriousWakeup, Goto
<1>8. NoUseAfterDelete'
  BY <1>1, <1>2 DEF NoUseAfterDelete, TypeOK, SpuriousWakeup, Goto
<1> QED
  BY <1>2, <1>3, <1>4, <1>5, <1>6, <1>7, <1>8 DEF IInv

LEMMA StartWorkerStep ==
  ASSUME IInv, StartWorker
  PROVE  IInv'
<1>1. TypeOK /\ WorkerInv /\ HolderInv /\ FileInv /\ SeqInv /\ PhaseInv /\ NoUseAfterDelete
  BY DEF IInv
<1>2. TypeOK'
  <2>1. widx \in Workers /\ widx' \in 1..nworkers
    BY <1>1, MaxWorkersAssumption DEF TypeOK, StartWorker, NextWorker, LastWorker
  <2>2. worker' \in [Workers -> WorkerType]
    BY <1>1, <2>1 DEF TypeOK, StartWorker, NewWorker
  <2>3. \E l \in MainLabels \ {"exited"} : pc' = [pc EXCEPT ![widx] = "test", ![Main] = l]
    BY DEF StartWorker
  <2> QED
    BY <1>1, <2>1, <2>2, <2>3, MaxWorkersAssumption DEF TypeOK, StartWorker
<1>3. WorkerInv'
  <2>1. widx \in Workers
    BY <1>1, MaxWorkersAssumption DEF TypeOK
  <2>2. pc'[widx] = "test" /\ worker'[widx] = [NewWorker EXCEPT !.live = TRUE]
    BY <1>1, <2>1 DEF TypeOK, StartWorker
  <2>3. \A v \in Workers \ {widx} : pc'[v] = pc[v] /\ worker'[v] = worker[v]
    BY <1>1 DEF TypeOK, StartWorker
  <2>4. cur' = cur
    BY DEF StartWorker
  <2> QED
    BY <1>1, <2>2, <2>3, <2>4 DEF WorkerInv, NewWorker
<1>4. HolderInv'
  BY <1>1, <1>2
  DEF HolderInv, TypeOK, StartWorker, LastWorker, NextWorker, NewWorker
<1>5. FileInv'
  BY <1>1, <1>2
  DEF FileInv, HeldBy, Working, PhaseInv, IsIdle, StopLabels, WorkerInv, TypeOK,
      StartWorker, LastWorker, NextWorker, NewWorker
<1>6. SeqInv'
  BY <1>1, <1>2
  DEF SeqInv, SeqLabels, Working, TypeOK, StartWorker, LastWorker, NextWorker,
      NewWorker
<1>7. PhaseInv'
  <2>1. widx \in Workers /\ nworkers \in Workers
    BY <1>1, MaxWorkersAssumption DEF TypeOK
  <2>2. pc'[widx] = "test" /\ worker'[widx] = [NewWorker EXCEPT !.live = TRUE]
    BY <1>1, <2>1 DEF TypeOK, StartWorker
  <2>3. \A v \in Workers \ {widx} : pc'[v] = pc[v] /\ worker'[v] = worker[v]
    BY <1>1 DEF TypeOK, StartWorker
  <2>4. pc'[Main] = IF widx # nworkers THEN "start"
                    ELSE IF NFiles = 0 THEN "drain" ELSE "assign"
    BY <1>1, <2>1 DEF TypeOK, StartWorker, LastWorker
  <2>5. widx' = IF widx = nworkers THEN 1 ELSE widx + 1
    BY DEF StartWorker, NextWorker, LastWorker
  <2>6. fileidx' = 1 /\ nworkers' = nworkers
    BY <1>1 DEF PhaseInv, StartWorker
  <2>7. \A v \in Workers : v < widx => pc[v] # "absent"
    BY <1>1 DEF PhaseInv, StartWorker
  <2>8. \A v \in Workers : v >= widx => pc[v] = "absent"
    BY <1>1 DEF PhaseInv, StartWorker
  <2>9. \A v \in Workers : ~worker[v].terminate_requested /\ pc[v] # "gone"
    BY <1>1 DEF PhaseInv, StartWorker, StopLabels
  <2>10. \A v \in Workers : v > nworkers => pc'[v] = "absent"
    BY <1>1, <2>1, <2>3 DEF PhaseInv, TypeOK
  <2>11. pc'[Main] = "start" => /\ \A v \in Workers : v >= widx' => pc'[v] = "absent"
                                /\ \A v \in Workers : v < widx' => pc'[v] # "absent"
    BY <2>1, <2>2, <2>3, <2>4, <2>5, <2>7, <2>8, MaxWorkersAssumption
  <2>12. pc'[Main] # "start" => \A v \in 1..nworkers : pc'[v] # "absent"
    BY <2>1, <2>2, <2>3, <2>4, <2>7, MaxWorkersAssumption
  <2>13. pc'[Main] = "drain" => widx' = 1 /\ NFiles = 0
    BY <2>4, <2>5
  <2>14. pc'[Main] = "assign" => 1 =< NFiles
    BY <2>4, NFilesAssumption
  <2>15. \A v \in Workers : ~worker'[v].terminate_requested /\ pc'[v] # "gone"
    BY <2>2, <2>3, <2>9 DEF NewWorker
  <2>16. pc'[Main] \in {"start", "assign", "drain"}
    BY <2>4
  <2> QED
    BY <2>6, <2>10, <2>11, <2>12, <2>13, <2>14, <2>15, <2>16
    DEF PhaseInv, StopLabels
<1>8. NoUseAfterDelete'
  BY <1>1, <1>2
  DEF NoUseAfterDelete, TypeOK, StartWorker, LastWorker, NextWorker, NewWorker
<1> QED
  BY <1>2, <1>3, <1>4, <1>5, <1>6, <1>7, <1>8 DEF IInv

LEMMA PollWorkerStep ==
  ASSUME IInv, PollWorker
  PROVE  IInv'
<1>1. TypeOK /\ WorkerInv /\ HolderInv /\ FileInv /\ SeqInv /\ PhaseInv /\ NoUseAfterDelete
  BY DEF IInv
<1>2. TypeOK'
  <2>1. widx' \in 1..nworkers
    BY <1>1, MaxWorkersAssumption DEF TypeOK, PollWorker, NextWorker, LastWorker
  <2>2. \E l \in {"assign", "offer"} : pc' = [pc EXCEPT ![Main] = l]
    BY <1>1 DEF TypeOK, PollWorker, Goto
  <2> QED
    BY <1>1, <2>1, <2>2, MaxWorkersAssumption DEF TypeOK, PollWorker
<1>3. WorkerInv'
  BY <1>1, <1>2 DEF WorkerInv, TypeOK, PollWorker, Goto, NextWorker, LastWorker
<1>4. HolderInv'
  BY <1>1, <1>2 DEF HolderInv, TypeOK, PollWorker, Goto, NextWorker, LastWorker
<1>5. FileInv'
  BY <1>1, <1>2
  DEF FileInv, HeldBy, Working, TypeOK, PollWorker, Goto, NextWorker, LastWorker
<1>6. SeqInv'
  BY <1>1, <1>2
  DEF SeqInv, SeqLabels, Working, TypeOK, PollWorker, Goto, NextWorker, LastWorker
<1>7. PhaseInv'
  <2>1. CASE IsIdle(widx)
    <3>1. /\ pc'[Main] = "offer" /\ pc[Main] = "assign"
          /\ \A v \in Workers : pc'[v] = pc[v]
          /\ UNCHANGED <<nworkers, widx, fileidx, allidle, worker>>
      BY <1>1, <2>1 DEF TypeOK, PollWorker, Goto
    <3>2. IsIdle(widx)' /\ 1..nworkers \subseteq Workers
      BY <1>1, <2>1, <3>1, MaxWorkersAssumption DEF TypeOK, IsIdle
    <3> QED
      BY <1>1, <3>1, <3>2 DEF PhaseInv, StopLabels
  <2>2. CASE ~IsIdle(widx)
    BY <1>1, <2>2 DEF TypeOK, PhaseInv, StopLabels, IsIdle, PollWorker
  <2> QED
    BY <2>1, <2>2
<1>8. NoUseAfterDelete'
  BY <1>1, <1>2
  DEF NoUseAfterDelete, TypeOK, PollWorker, Goto, NextWorker, LastWorker
<1> QED
  BY <1>2, <1>3, <1>4, <1>5, <1>6, <1>7, <1>8 DEF IInv

(* The worker that was idle at the IsIdle call still is at the ProcessFile *)
(* call, so the offer is always taken.                                     *)
LEMMA OfferTaken ==
  ASSUME IInv, OfferFile
  PROVE  /\ widx \in Workers /\ nworkers \in Workers /\ widx =< nworkers
         /\ widx' \in 1..nworkers
         /\ fileidx \in Files /\ fileidx' = fileidx + 1
         /\ IsIdle(widx)
         /\ pc[Main] = "offer"
         /\ pc[widx] \in {"test", "asleep", "notify"}
         /\ pc'[widx] \in {"test", "notify"}
         /\ pc'[Main] = IF fileidx = NFiles THEN "drain" ELSE "assign"
         /\ fileidx = NFiles => widx' = 1
         /\ \A v \in Workers \ {widx} : pc'[v] = pc[v] /\ worker'[v] = worker[v]
         /\ worker'[widx].testfile = fileidx /\ worker'[widx].run_requested
         /\ worker'[widx].live = worker[widx].live /\ ~worker'[widx].busy
         /\ worker'[widx].terminate_requested = worker[widx].terminate_requested
         /\ pc' \in [Threads -> MainLabels \cup WorkLabels \cup WorkerLabels]
         /\ worker' \in [Workers -> WorkerType]
         /\ UNCHANGED <<nworkers, cur, allidle, file, report>>
<1>1. TypeOK /\ WorkerInv /\ HolderInv /\ FileInv /\ SeqInv /\ PhaseInv /\ NoUseAfterDelete
  BY DEF IInv
<1>2. /\ widx \in Workers /\ nworkers \in Workers /\ widx =< nworkers
      /\ widx' \in 1..nworkers
  BY <1>1, MaxWorkersAssumption DEF TypeOK, OfferFile, NextWorker, LastWorker
<1>3. pc[Main] = "offer" /\ IsIdle(widx)
  BY <1>1 DEF PhaseInv, OfferFile
<1>4. /\ worker' = [worker EXCEPT ![widx].testfile = fileidx,
                                  ![widx].run_requested = TRUE]
      /\ fileidx' = fileidx + 1
      /\ pc' = Woken(widx, IF fileidx = NFiles THEN "drain" ELSE "assign")
      /\ fileidx = NFiles => widx' = 1
      /\ UNCHANGED <<nworkers, cur, allidle, file, report>>
  BY <1>3 DEF OfferFile, Advance
<1>5. fileidx \in Files
  BY <1>1, <1>3, NFilesAssumption DEF TypeOK, PhaseInv
<1>6. pc[widx] \in {"test", "asleep", "notify"}
  BY <1>1, <1>2, <1>3 DEF TypeOK, WorkerInv, PhaseInv, StopLabels, IsIdle
<1>7. /\ pc'[widx] \in {"test", "notify"}
      /\ pc'[Main] = IF fileidx = NFiles THEN "drain" ELSE "assign"
      /\ \A v \in Workers \ {widx} : pc'[v] = pc[v]
      /\ pc' \in [Threads -> MainLabels \cup WorkLabels \cup WorkerLabels]
  BY <1>1, <1>2, <1>4, <1>6 DEF TypeOK, Woken
<1>8. /\ worker' \in [Workers -> WorkerType]
      /\ \A v \in Workers \ {widx} : worker'[v] = worker[v]
      /\ worker'[widx].testfile = fileidx /\ worker'[widx].run_requested
      /\ worker'[widx].live = worker[widx].live /\ ~worker'[widx].busy
      /\ worker'[widx].terminate_requested = worker[widx].terminate_requested
  <2>1. worker \in [Workers -> WorkerType] /\ worker[widx] \in WorkerType
    BY <1>1, <1>2 DEF TypeOK
  <2> DEFINE r == [worker[widx] EXCEPT !.testfile = fileidx, !.run_requested = TRUE]
  <2>2. /\ r \in WorkerType /\ r.testfile = fileidx /\ r.run_requested
        /\ r.live = worker[widx].live /\ ~r.busy
        /\ r.terminate_requested = worker[widx].terminate_requested
    BY <1>3, <1>5, <2>1 DEF IsIdle
  <2>3. worker' = [worker EXCEPT ![widx] = r]
    BY <1>4
  <2> HIDE DEF r
  <2> QED
    BY <1>2, <2>1, <2>2, <2>3
<1> QED
  BY <1>2, <1>3, <1>4, <1>5, <1>6, <1>7, <1>8

LEMMA OfferFileStep ==
  ASSUME IInv, OfferFile
  PROVE  IInv'
<1>1. TypeOK /\ WorkerInv /\ HolderInv /\ FileInv /\ SeqInv /\ PhaseInv /\ NoUseAfterDelete
  BY DEF IInv
<1>2. TypeOK'
  <2>1. pc'[Main] \in {"assign", "drain"} /\ pc[Main] = "offer"
    BY OfferTaken
  <2>2. \A v \in Workers : pc'[v] \in WorkLabels \cup WorkerLabels
    BY <1>1, OfferTaken DEF TypeOK
  <2>3. fileidx' \in 1..(NFiles + 1)
    BY OfferTaken, NFilesAssumption
  <2> QED
    BY <1>1, <2>1, <2>2, <2>3, OfferTaken DEF TypeOK
<1>3. WorkerInv'
  <2>1. worker'[widx].testfile # NoFile
    BY OfferTaken
  <2>2. ASSUME NEW v \in Workers, v # widx
        PROVE  pc'[v] = pc[v] /\ worker'[v] = worker[v] /\ cur'[v] = cur[v]
    BY <2>2, OfferTaken
  <2> QED
    BY <1>1, <2>1, <2>2, OfferTaken DEF WorkerInv
<1>4. HolderInv'
  <2>1. \A v \in Workers : worker'[v].testfile < fileidx'
    BY <1>1, OfferTaken DEF TypeOK, HolderInv
  <2>2. ~file[fileidx].processed /\ file[fileidx].processed \in BOOLEAN
    BY <1>1, OfferTaken DEF TypeOK, FileInv, FileType
  <2>3. ASSUME NEW v \in Workers, worker'[v].testfile # NoFile
        PROVE  file'[worker'[v].testfile].processed = (pc'[v] = "release")
    <3>1. CASE v = widx
      BY <2>2, <3>1, OfferTaken
    <3>2. CASE v # widx
      BY <1>1, <2>3, <3>2, OfferTaken DEF HolderInv
    <3> QED
      BY <3>1, <3>2
  <2>4. ASSUME NEW u \in Workers, NEW v \in Workers, u # v,
               worker'[u].testfile = worker'[v].testfile
        PROVE  worker'[u].testfile = NoFile
    <3>1. \A x \in Workers : worker[x].testfile # fileidx
      BY <1>1, OfferTaken DEF TypeOK, HolderInv
    <3>2. u # widx /\ v # widx
      BY <2>4, <3>1, OfferTaken
    <3> QED
      BY <1>1, <2>4, <3>2, OfferTaken DEF HolderInv
  <2> QED
    BY <2>1, <2>3, <2>4 DEF HolderInv
<1>5. FileInv'
  <2>1. \A f \in Files : f >= fileidx' => ~file'[f].processed
    BY <1>1, OfferTaken DEF TypeOK, FileInv
  <2>2. ASSUME NEW f \in Files, f < fileidx', ~file'[f].processed
        PROVE  HeldBy(f)'
    <3>1. CASE f = fileidx
      BY <1>1, <3>1, OfferTaken DEF TypeOK, HeldBy
    <3>2. CASE f # fileidx
      <4>1. f < fileidx /\ ~file[f].processed
        BY <1>1, <2>2, <3>2, OfferTaken DEF TypeOK
      <4>2. PICK v \in Workers : worker[v].testfile = f
        BY <1>1, <4>1, OfferTaken DEF FileInv, HeldBy, Working
      <4>3. v # widx
        BY <4>2, OfferTaken DEF IsIdle
      <4> QED
        BY <4>2, <4>3, OfferTaken DEF HeldBy
    <3> QED
      BY <3>1, <3>2
  <2> QED
    BY <2>1, <2>2 DEF FileInv
<1>6. SeqInv'
  BY <1>1, OfferTaken DEF SeqInv, SeqLabels, Working
<1>7. PhaseInv'
  <2>1. \A v \in 1..nworkers : v \in Workers /\ pc[v] # "absent"
    BY <1>1, OfferTaken, MaxWorkersAssumption DEF PhaseInv
  <2>2. \A v \in 1..nworkers : pc'[v] # "absent"
    BY <2>1, OfferTaken
  <2>3. pc'[Main] = "assign" => fileidx' =< NFiles
    BY OfferTaken, NFilesAssumption
  <2>4. pc'[Main] = "drain" => fileidx' = NFiles + 1 /\ widx' = 1
    BY OfferTaken
  <2>5. \A v \in Workers : v > nworkers => pc'[v] = "absent"
    BY <1>1, OfferTaken DEF PhaseInv
  <2>6. \A v \in Workers : ~worker'[v].terminate_requested /\ pc'[v] # "gone"
    BY <1>1, OfferTaken DEF TypeOK, PhaseInv, StopLabels
  <2> QED
    BY <2>2, <2>3, <2>4, <2>5, <2>6, OfferTaken DEF PhaseInv, StopLabels
<1>8. NoUseAfterDelete'
  BY <1>1, OfferTaken DEF TypeOK, NoUseAfterDelete
<1> QED
  BY <1>2, <1>3, <1>4, <1>5, <1>6, <1>7, <1>8 DEF IInv

LEMMA PollIdleStep ==
  ASSUME IInv, PollIdle
  PROVE  IInv'
<1>1. TypeOK /\ WorkerInv /\ HolderInv /\ FileInv /\ SeqInv /\ PhaseInv /\ NoUseAfterDelete
  BY DEF IInv
<1>2. TypeOK'
  BY <1>1, NFilesAssumption, MaxWorkersAssumption
  DEF TypeOK, FileType, PollIdle, Goto, NextWorker, LastWorker, SeenIdle
<1>3. WorkerInv'
  BY <1>1, <1>2
  DEF WorkerInv, TypeOK, PollIdle, Goto, NextWorker, LastWorker, SeenIdle
<1>4. HolderInv'
  BY <1>1, <1>2
  DEF HolderInv, TypeOK, PollIdle, Goto, NextWorker, LastWorker, SeenIdle
<1>5. FileInv'
  BY <1>1, <1>2
  DEF FileInv, HeldBy, Working, TypeOK, PollIdle, Goto, NextWorker, LastWorker,
      SeenIdle
<1>6. SeqInv'
  BY <1>1, <1>2
  DEF SeqInv, SeqLabels, Working, TypeOK, PollIdle, Goto, NextWorker, LastWorker,
      SeenIdle
<1>7. PhaseInv'
  BY <1>1, <1>2
  DEF PhaseInv, StopLabels, IsIdle, WorkerInv, TypeOK, PollIdle, Goto, NextWorker,
      LastWorker, SeenIdle
<1>8. NoUseAfterDelete'
  BY <1>1, <1>2
  DEF NoUseAfterDelete, TypeOK, PollIdle, Goto, NextWorker, LastWorker, SeenIdle
<1> QED
  BY <1>2, <1>3, <1>4, <1>5, <1>6, <1>7, <1>8 DEF IInv

LEMMA RequestStopStep ==
  ASSUME IInv, RequestStop
  PROVE  IInv'
<1>1. TypeOK /\ WorkerInv /\ HolderInv /\ FileInv /\ SeqInv /\ PhaseInv /\ NoUseAfterDelete
  BY DEF IInv
<1>2. TypeOK'
  BY <1>1, NFilesAssumption, MaxWorkersAssumption
  DEF TypeOK, FileType, RequestStop, Goto
<1>3. WorkerInv'
  BY <1>1, <1>2 DEF WorkerInv, TypeOK, RequestStop, Goto
<1>4. HolderInv'
  BY <1>1, <1>2 DEF HolderInv, TypeOK, RequestStop, Goto
<1>5. FileInv'
  BY <1>1, <1>2 DEF FileInv, HeldBy, Working, TypeOK, RequestStop, Goto
<1>6. SeqInv'
  BY <1>1, <1>2 DEF SeqInv, SeqLabels, Working, TypeOK, RequestStop, Goto
<1>7. PhaseInv'
  BY <1>1, <1>2 DEF PhaseInv, StopLabels, IsIdle, TypeOK, RequestStop, Goto
<1>8. NoUseAfterDelete'
  BY <1>1, <1>2 DEF NoUseAfterDelete, TypeOK, RequestStop, Goto
<1> QED
  BY <1>2, <1>3, <1>4, <1>5, <1>6, <1>7, <1>8 DEF IInv

LEMMA NotifyStopStep ==
  ASSUME IInv, NotifyStop
  PROVE  IInv'
<1>1. TypeOK /\ WorkerInv /\ HolderInv /\ FileInv /\ SeqInv /\ PhaseInv /\ NoUseAfterDelete
  BY DEF IInv
<1>2. TypeOK'
  BY <1>1, NFilesAssumption, MaxWorkersAssumption
  DEF TypeOK, FileType, NotifyStop, Woken
<1>3. WorkerInv'
  BY <1>1, <1>2 DEF WorkerInv, TypeOK, NotifyStop, Woken
<1>4. HolderInv'
  BY <1>1, <1>2 DEF HolderInv, TypeOK, NotifyStop, Woken
<1>5. FileInv'
  BY <1>1, <1>2 DEF FileInv, HeldBy, Working, TypeOK, NotifyStop, Woken
<1>6. SeqInv'
  BY <1>1, <1>2 DEF SeqInv, SeqLabels, Working, TypeOK, NotifyStop, Woken
<1>7. PhaseInv'
  BY <1>1, <1>2 DEF PhaseInv, StopLabels, IsIdle, TypeOK, NotifyStop, Woken
<1>8. NoUseAfterDelete'
  BY <1>1, <1>2 DEF NoUseAfterDelete, TypeOK, NotifyStop, Woken
<1> QED
  BY <1>2, <1>3, <1>4, <1>5, <1>6, <1>7, <1>8 DEF IInv

LEMMA JoinWorkerStep ==
  ASSUME IInv, JoinWorker
  PROVE  IInv'
<1>1. TypeOK /\ WorkerInv /\ HolderInv /\ FileInv /\ SeqInv /\ PhaseInv /\ NoUseAfterDelete
  BY DEF IInv
<1>2. TypeOK'
  <2>1. widx' \in 1..nworkers
    BY <1>1, MaxWorkersAssumption DEF TypeOK, JoinWorker, NextWorker, LastWorker
  <2>2. worker' \in [Workers -> WorkerType]
    BY <1>1 DEF TypeOK, JoinWorker
  <2>3. \E l \in {"stop", "results"} : pc' = [pc EXCEPT ![Main] = l]
    BY DEF JoinWorker, Goto
  <2> QED
    BY <1>1, <2>1, <2>2, <2>3 DEF TypeOK, JoinWorker
<1>3. WorkerInv'
  BY <1>1, <1>2
  DEF WorkerInv, TypeOK, JoinWorker, Joined, Goto, NextWorker, LastWorker
<1>4. HolderInv'
  BY <1>1, <1>2
  DEF HolderInv, TypeOK, JoinWorker, Joined, Goto, NextWorker, LastWorker
<1>5. FileInv'
  BY <1>1, <1>2
  DEF FileInv, HeldBy, Working, TypeOK, JoinWorker, Joined, Goto, NextWorker,
      LastWorker
<1>6. SeqInv'
  BY <1>1, <1>2
  DEF SeqInv, SeqLabels, Working, TypeOK, JoinWorker, Joined, Goto, NextWorker,
      LastWorker
<1>7. PhaseInv'
  BY <1>1, <1>2
  DEF PhaseInv, StopLabels, IsIdle, TypeOK, JoinWorker, Joined, Goto, NextWorker,
      LastWorker
<1>8. NoUseAfterDelete'
  BY <1>1, <1>2
  DEF NoUseAfterDelete, TypeOK, JoinWorker, Joined, Goto, NextWorker, LastWorker
<1> QED
  BY <1>2, <1>3, <1>4, <1>5, <1>6, <1>7, <1>8 DEF IInv

LEMMA NextFileStep ==
  ASSUME IInv, NextFile
  PROVE  IInv'
<1>1. TypeOK /\ WorkerInv /\ HolderInv /\ FileInv /\ SeqInv /\ PhaseInv /\ NoUseAfterDelete
  BY DEF IInv
<1>2. TypeOK'
  <2>1. fileidx' \in 1..(NFiles + 1)
    BY <1>1, NFilesAssumption DEF TypeOK, NextFile, Advance
  <2>2. cur' \in [Threads -> Files \cup {NoFile}]
    BY <1>1, NFilesAssumption DEF TypeOK, NextFile
  <2>3. \E l \in {"process", "results"} : pc' = [pc EXCEPT ![Main] = l]
    BY DEF NextFile, Goto
  <2> QED
    BY <1>1, <2>1, <2>2, <2>3 DEF TypeOK, NextFile
<1>3. WorkerInv'
  BY <1>1, <1>2 DEF WorkerInv, TypeOK, NextFile, Advance, Goto
<1>4. HolderInv'
  BY <1>1, <1>2 DEF HolderInv, TypeOK, NextFile, Advance, Goto
<1>5. FileInv'
  BY <1>1, <1>2 DEF FileInv, HeldBy, Working, TypeOK, NextFile, Advance, Goto
<1>6. SeqInv'
  BY <1>1, <1>2, NFilesAssumption, MaxWorkersAssumption
  DEF TypeOK, NextFile, Advance, Goto, WorkerInv, HolderInv, FileInv, HeldBy,
      Working, SeqInv, SeqLabels, PhaseInv, StopLabels, IsIdle, NoUseAfterDelete
<1>7. PhaseInv'
  BY <1>1, <1>2, NFilesAssumption, MaxWorkersAssumption
  DEF TypeOK, NextFile, Advance, Goto, WorkerInv, HolderInv, FileInv, HeldBy,
      Working, SeqInv, SeqLabels, PhaseInv, StopLabels, IsIdle, NoUseAfterDelete
<1>8. NoUseAfterDelete'
  BY <1>1, <1>2 DEF NoUseAfterDelete, TypeOK, NextFile, Advance, Goto
<1> QED
  BY <1>2, <1>3, <1>4, <1>5, <1>6, <1>7, <1>8 DEF IInv

LEMMA ProcessResultsStep ==
  ASSUME IInv, ProcessResults
  PROVE  IInv'
<1>1. TypeOK /\ WorkerInv /\ HolderInv /\ FileInv /\ SeqInv /\ PhaseInv /\ NoUseAfterDelete
  BY DEF IInv
<1>2. TypeOK'
  BY <1>1, NFilesAssumption, MaxWorkersAssumption
  DEF TypeOK, FileType, ProcessResults, Goto
<1>3. WorkerInv'
  BY <1>1, <1>2 DEF WorkerInv, TypeOK, ProcessResults, Goto
<1>4. HolderInv'
  BY <1>1, <1>2 DEF HolderInv, TypeOK, ProcessResults, Goto
<1>5. FileInv'
  BY <1>1, <1>2 DEF FileInv, HeldBy, Working, TypeOK, ProcessResults, Goto
<1>6. SeqInv'
  BY <1>1, <1>2 DEF SeqInv, SeqLabels, Working, TypeOK, ProcessResults, Goto
<1>7. PhaseInv'
  BY <1>1, <1>2 DEF PhaseInv, StopLabels, IsIdle, TypeOK, ProcessResults, Goto
<1>8. NoUseAfterDelete'
  BY <1>1, <1>2 DEF NoUseAfterDelete, TypeOK, ProcessResults, Goto
<1> QED
  BY <1>2, <1>3, <1>4, <1>5, <1>6, <1>7, <1>8 DEF IInv

-----------------------------------------------------------------------------
(* A thread inside Process works on a file that is not processed yet.      *)
LEMMA OwnFile ==
  ASSUME IInv, NEW t \in Threads, Working(t)
  PROVE  cur[t] \in Files /\ ~file[cur[t]].processed
<1>1. CASE t = Main
  BY <1>1 DEF IInv, SeqInv
<1>2. CASE t # Main
  <2>1. t \in Workers /\ pc[t] \in WorkLabels
    BY <1>2 DEF Working
  <2>2. cur[t] = worker[t].testfile /\ worker[t].testfile \in Files
    BY <2>1 DEF IInv, TypeOK, WorkerInv
  <2>3. pc[t] # "release" /\ file[cur[t]].processed \in BOOLEAN
    BY <2>1, <2>2 DEF IInv, TypeOK, FileType
  <2> QED
    BY <2>1, <2>2, <2>3 DEF IInv, HolderInv
<1> QED
  BY <1>1, <1>2

LEMMA ProcessHasEffect ==
  ASSUME IInv, NEW t \in Threads, Process(t)
  PROVE  ProcessEffect(t) /\ cur[t] \in Files /\ ~file[cur[t]].processed
<1>1. Working(t)
  BY DEF Process, ParseFile, ExecRunTest, ExecErrorTest, Working
<1>2. cur[t] \in Files /\ ~file[cur[t]].processed
  BY <1>1, OwnFile
<1> QED
  BY <1>2, ParseFileEffect, ExecRunTestEffect, ExecErrorTestEffect DEF Process, IInv

LEMMA InitIInv ==
  ASSUME Init
  PROVE  IInv
<1>1. /\ nworkers \in Workers /\ widx = 1 /\ fileidx = 1
      /\ pc[Main] = IF nworkers > 1 THEN "start" ELSE "nextfile"
      /\ \A w \in Workers : pc[w] = "absent"
      /\ worker = [w \in Workers |-> NewWorker]
      /\ file = [f \in Files |-> NewFile]
      /\ report = {}
  BY MaxWorkersAssumption DEF Init
<1>2. NewFile \in FileType /\ NewWorker \in WorkerType /\ ~NewFile.processed
  BY DEF NewFile, FileType, NewWorker, Outcome, NoOutcome
<1>3. TypeOK
  <2>1. pc \in [Threads -> MainLabels \cup WorkLabels \cup WorkerLabels]
    BY DEF Init
  <2>2. /\ cur \in [Threads -> Files \cup {NoFile}]
        /\ allidle \in BOOLEAN
    BY DEF Init
  <2>3. worker \in [Workers -> WorkerType] /\ file \in [Files -> FileType]
    BY <1>1, <1>2
  <2>4. fileidx \in 1..(NFiles + 1) /\ widx \in 1..nworkers
    BY <1>1, NFilesAssumption, MaxWorkersAssumption
  <2> QED
    BY <1>1, <2>1, <2>2, <2>3, <2>4 DEF TypeOK
<1>4. WorkerInv /\ HolderInv /\ NoUseAfterDelete
  BY <1>1 DEF WorkerInv, HolderInv, NoUseAfterDelete, NewWorker
<1>5. FileInv
  BY <1>1, <1>2 DEF FileInv
<1>6. SeqInv
  BY <1>1 DEF SeqInv, Working
<1>7. PhaseInv
  BY <1>1, MaxWorkersAssumption DEF PhaseInv, StopLabels, NewWorker
<1> QED
  BY <1>3, <1>4, <1>5, <1>6, <1>7 DEF IInv

LEMMA NextIInv ==
  ASSUME IInv, [Next]_vars
  PROVE  IInv'
<1>1. CASE MainStep
  BY <1>1, StartWorkerStep, PollWorkerStep, OfferFileStep, PollIdleStep,
     RequestStopStep, NotifyStopStep, JoinWorkerStep, NextFileStep,
     ProcessHasEffect, ProcessEffectStep, ProcessResultsStep
  DEF MainStep
<1>2. ASSUME NEW w \in Workers, WorkerStep(w)
      PROVE  IInv'
  BY <1>2, TestWakeupStep, StartProcessStep, ProcessHasEffect, ProcessEffectStep,
     ReleaseStep, NotifyIdleStep
  DEF WorkerStep
<1>3. ASSUME NEW w \in Workers, SpuriousWakeup(w)
      PROVE  IInv'
  BY <1>3, SpuriousWakeupStep
<1>4. CASE UNCHANGED vars
  BY <1>4
  DEF vars, IInv, TypeOK, WorkerInv, HolderInv, FileInv, HeldBy, SeqInv, PhaseInv,
      IsIdle, Working, NoUseAfterDelete
<1> QED
  BY <1>1, <1>2, <1>3, <1>4 DEF Next, Exited

(* The inductive invariant holds in every reachable state.                 *)
THEOREM Inductive == Spec => []IInv
<1>1. Init => IInv
  BY InitIInv
<1>2. IInv /\ [Next]_vars => IInv'
  BY NextIInv
<1> QED
  BY <1>1, <1>2, PTL DEF Spec

(* The state of the runner is well typed for any number of files, workers  *)
(* and error counts.                                                       *)
THEOREM TypeCorrect == Spec => []TypeOK
<1>1. IInv => TypeOK
  BY DEF IInv
<1> QED
  BY <1>1, Inductive, PTL

(* No test file is ever in the hands of two threads, nor taken again.      *)
THEOREM FileHasOneOwner == Spec => []OneOwner
<1>1. ASSUME IInv
      PROVE  OneOwner
  <2>1. \A t \in Threads : Working(t) => cur[t] # NoFile /\ ~file[cur[t]].processed
    BY <1>1, OwnFile
  <2> QED
    BY <1>1, <2>1 DEF OneOwner, IInv, WorkerInv, HolderInv, Working
<1> QED
  BY <1>1, Inductive, PTL

(* When the waiting loop of the distributor ends, every file is processed  *)
(* and every worker is at rest: the pass over the workers that looks at    *)
(* one mutex at a time is enough.                                          *)
LEMMA DrainedMeansProcessed == IInv => AllProcessed
<1>1. ASSUME IInv, pc[Main] \in StopLabels
      PROVE  AllProcessed
  <2>1. \A w \in Workers : IsIdle(w) /\ fileidx = NFiles + 1 /\ ~Working(Main)
    BY <1>1 DEF IInv, PhaseInv, Working, StopLabels
  <2>2. \A w \in Workers : ~Working(w) /\ worker[w].testfile = NoFile
    BY <1>1, <2>1 DEF IInv, WorkerInv, IsIdle, Working
  <2>3. ASSUME NEW f \in Files
        PROVE  file[f].processed
    <3>1. ~HeldBy(f) /\ f < fileidx
      BY <1>1, <2>1, <2>2, NFilesAssumption, MaxWorkersAssumption
      DEF HeldBy, IInv, PhaseInv, StopLabels, Working
    <3> QED
      BY <1>1, <3>1 DEF IInv, FileInv
  <2> QED
    BY <2>2, <2>3 DEF AllProcessed
<1> QED
  BY <1>1 DEF AllProcessed, StopLabels

(* The summary is made of complete results that nobody writes any more.    *)
THEOREM ResultsComplete == Spec => []AllProcessed
BY DrainedMeansProcessed, Inductive, PTL

(* A worker object is deleted only after its thread has returned.          *)
THEOREM DeleteAfterJoin == Spec => []NoUseAfterDelete
<1>1. IInv => NoUseAfterDelete
  BY DEF IInv
<1> QED
  BY <1>1, Inductive, PTL

(* What is known of a processed file never changes again.                  *)
THEOREM ProcessedOnce == Spec => ResultsFrozen
<1>1. ASSUME IInv, [Next]_vars, NEW f \in Files, file[f].processed
      PROVE  file'[f] = file[f]
  <2>1. ASSUME NEW t \in Threads, Process(t)
        PROVE  file'[f] = file[f]
    BY <1>1, <2>1, ProcessHasEffect DEF ProcessEffect
  <2>2. CASE file' = file
    BY <2>2
  <2>3. file' = file \/ \E t \in Threads : Process(t)
    BY <1>1
    DEF Next, Exited, vars, MainStep, WorkerStep, StartWorker, PollWorker,
        OfferFile, PollIdle, RequestStop, NotifyStop, JoinWorker, NextFile,
        ProcessResults, TestWakeup, StartProcess, Release, NotifyIdle,
        SpuriousWakeup
  <2> QED
    BY <2>1, <2>2, <2>3
<1>2. IInv /\ [Next]_vars =>
        [\A f \in Files : file[f].processed => file'[f] = file[f]]_vars
  BY <1>1
<1> QED
  BY <1>2, Inductive, PTL DEF ResultsFrozen, Spec

-----------------------------------------------------------------------------
(* The threaded runner implements the batch it promises to be (Batch): the *)
(* initial states are initial states of the batch, a thread that begins    *)
(* with a file takes it, the thread that marks it as processed finishes it *)
(* with one complete outcome, the summary is the report, and nothing else  *)
(* of what the threads do can be seen.                                     *)

(* The outcomes a file can end with, as the refinement mapping has them.   *)
Outcomes == {o \in [exec_run : BOOLEAN, exec_err : BOOLEAN,
                    errorcnt_tf : Counts, errorcnt_run : Counts, errorcnt_err : Counts] :
               /\ o.errorcnt_tf > 0 <=> ~(o.exec_run \/ o.exec_err)
               /\ o.exec_run \/ o.errorcnt_run = 0
               /\ o.exec_err \/ o.errorcnt_err = 0}

(* What a file has before its error variant.                               *)
BeforeErr(o) ==
  /\ o \in [exec_run : BOOLEAN, exec_err : {FALSE},
            errorcnt_tf : {0}, errorcnt_run : Counts, errorcnt_err : {0}]
  /\ o.exec_run \/ o.errorcnt_run = 0

(* A processed file has a complete outcome; any other has none yet, unless *)
(* its run variant has run and a thread is about to run the error variant. *)
OutcomeInv ==
  /\ \A f \in Files : file[f].processed => file[f].out \in Outcomes
  /\ \A f \in Files : ~file[f].processed =>
       \/ file[f].out = NoOutcome
       \/ \E t \in Threads : /\ pc[t] = "errtest" /\ cur[t] = f
                             /\ BeforeErr(file[f].out)

RInv == IInv /\ OutcomeInv

-----------------------------------------------------------------------------
HIDE DEF Files, Workers, Threads, Main, NoFile, MainLabels, WorkLabels,
         WorkerLabels, WorkerType

(* Two threads in Process have different files.                            *)
LEMMA OneThreadPerFile ==
  ASSUME IInv, NEW s \in Threads, NEW t \in Threads, Working(s), Working(t), cur[s] = cur[t]
  PROVE  s = t
<1>1. ASSUME NEW w \in Workers, Working(w)
      PROVE  ~Working(Main) /\ cur[w] = worker[w].testfile /\ worker[w].testfile # NoFile
  BY <1>1 DEF Working, WorkLabels, IInv, SeqInv, SeqLabels, WorkerInv
<1> QED
  BY <1>1 DEF Threads, IInv, HolderInv

(* The steps of the runner by what the batch sees of them.                 *)
OthersGoOn(t) == \A s \in Threads \ {t} : /\ (pc'[s] \in WorkLabels) <=> Working(s)
                                          /\ Working(s) => pc'[s] = pc[s] /\ cur'[s] = cur[s]

Unseen == /\ \A s \in Threads : /\ (pc'[s] \in WorkLabels) <=> Working(s)
                                /\ Working(s) => pc'[s] = pc[s] /\ cur'[s] = cur[s]
          /\ UNCHANGED <<nworkers, file, report>>

Begins(t) == /\ ~Working(t) /\ pc'[t] = "process"
             /\ cur'[t] \in Files /\ ~file[cur'[t]].processed
             /\ t = Main => pc[t] = "nextfile"
             /\ t # Main => pc[t] = "loaded" /\ cur'[t] = cur[t]
             /\ OthersGoOn(t)
             /\ UNCHANGED <<nworkers, file, report>>

LEMMA WorkerBegins ==
  ASSUME IInv, NEW w \in Workers, StartProcess(w)
  PROVE  Unseen \/ Begins(w)
BY DEF IInv, TypeOK, WorkerInv, StartProcess, Goto, Unseen, Begins, OthersGoOn, Working,
       WorkLabels, Threads, Main, Workers

LEMMA MainBegins ==
  ASSUME IInv, NextFile
  PROVE  Unseen \/ Begins(Main)
<1>1. CASE fileidx <= NFiles
  <2>1. fileidx \in Files /\ ~file[fileidx].processed
    BY <1>1, NFilesAssumption DEF IInv, TypeOK, FileInv, Files
  <2> QED
    BY <1>1, <2>1 DEF IInv, TypeOK, NextFile, Goto, Begins, OthersGoOn, Working, WorkLabels,
                      Threads, Main
<1>2. CASE ~(fileidx <= NFiles)
  BY <1>2 DEF IInv, TypeOK, NextFile, Goto, Unseen, Working, WorkLabels, Threads, Main
<1> QED
  BY <1>1, <1>2

LEMMA UnseenSteps ==
  ASSUME IInv,
         \/ StartWorker \/ PollWorker \/ OfferFile \/ PollIdle
         \/ RequestStop \/ NotifyStop \/ JoinWorker
         \/ \E w \in Workers : TestWakeup(w) \/ Release(w) \/ NotifyIdle(w) \/ SpuriousWakeup(w)
         \/ UNCHANGED vars
  PROVE  Unseen
<1> USE DEF Unseen, Working, WorkLabels, Threads, Main, Workers, Goto, TypeOK
<1>1. CASE StartWorker
  <2>1. widx \in Workers /\ pc[widx] = "absent"
    BY <1>1, MaxWorkersAssumption DEF StartWorker, IInv, PhaseInv
  <2> QED
    BY <1>1, <2>1 DEF StartWorker, IInv
<1>2. CASE PollWorker
  BY <1>2 DEF PollWorker, IInv
<1>3. CASE OfferFile
  <2>1. widx \in Workers
    BY MaxWorkersAssumption DEF IInv
  <2> QED
    BY <1>3, <2>1 DEF OfferFile, Woken, IInv
<1>4. CASE PollIdle
  BY <1>4 DEF PollIdle, IInv
<1>5. CASE RequestStop
  BY <1>5 DEF RequestStop, IInv
<1>6. CASE NotifyStop
  <2>1. widx \in Workers
    BY MaxWorkersAssumption DEF IInv
  <2> QED
    BY <1>6, <2>1 DEF NotifyStop, Woken, IInv
<1>7. CASE JoinWorker
  BY <1>7 DEF JoinWorker, IInv
<1>8. ASSUME NEW w \in Workers, TestWakeup(w) \/ Release(w) \/ NotifyIdle(w) \/ SpuriousWakeup(w)
      PROVE  Unseen
  BY <1>8 DEF TestWakeup, Release, NotifyIdle, SpuriousWakeup, IInv
<1>9. CASE UNCHANGED vars
  BY <1>9 DEF vars
<1> QED
  BY <1>1, <1>2, <1>3, <1>4, <1>5, <1>6, <1>7, <1>8, <1>9

LEMMA StepKinds ==
  ASSUME IInv, [Next]_vars
  PROVE  \/ Unseen
         \/ \E t \in Threads : Begins(t)
         \/ \E t \in Threads : Process(t)
         \/ ProcessResults
BY UnseenSteps, WorkerBegins, MainBegins DEF Next, MainStep, WorkerStep, Exited, Threads

-----------------------------------------------------------------------------
(* Outcomes                                                                *)

LEMMA OutcomeKinds ==
  /\ BeforeErr(NoOutcome)
  /\ \A n \in Counts \ {0} : [NoOutcome EXCEPT !.errorcnt_tf = n] \in Outcomes
  /\ \A n \in Counts :
       LET o == [NoOutcome EXCEPT !.exec_run = TRUE, !.errorcnt_run = n]
       IN  o \in Outcomes /\ BeforeErr(o)
  /\ \A o : \A n \in Counts : BeforeErr(o) =>
       [o EXCEPT !.exec_err = TRUE, !.errorcnt_err = n] \in Outcomes
<1> USE CountsAssumption
<1> DEFINE R == [exec_run : BOOLEAN, exec_err : BOOLEAN, errorcnt_tf : Counts,
                 errorcnt_run : Counts, errorcnt_err : Counts]
<1>1. BeforeErr(NoOutcome) /\ NoOutcome \in R
  BY DEF BeforeErr, NoOutcome
<1>2. ASSUME NEW n \in Counts \ {0}
      PROVE  [NoOutcome EXCEPT !.errorcnt_tf = n] \in Outcomes
  <2> DEFINE p == [NoOutcome EXCEPT !.errorcnt_tf = n]
  <2>1. p \in R
    BY <1>1
  <2>2. /\ ~p.exec_run /\ ~p.exec_err
        /\ p.errorcnt_tf = n /\ p.errorcnt_run = 0 /\ p.errorcnt_err = 0
    BY DEF NoOutcome
  <2>3. n > 0
    OBVIOUS
  <2> QED
    BY <2>1, <2>2, <2>3 DEF Outcomes
<1>3. ASSUME NEW n \in Counts
      PROVE  LET o == [NoOutcome EXCEPT !.exec_run = TRUE, !.errorcnt_run = n]
             IN  o \in Outcomes /\ BeforeErr(o)
  <2> DEFINE p == [NoOutcome EXCEPT !.exec_run = TRUE, !.errorcnt_run = n]
  <2>1. p \in R
    BY <1>1
  <2>2. /\ p.exec_run /\ ~p.exec_err
        /\ p.errorcnt_tf = 0 /\ p.errorcnt_run = n /\ p.errorcnt_err = 0
    BY DEF NoOutcome
  <2>3. p \in Outcomes
    <3> HIDE DEF p
    <3> QED
      BY <2>1, <2>2 DEF Outcomes
  <2>4. BeforeErr(p)
    BY DEF BeforeErr, NoOutcome
  <2> QED
    BY <2>3, <2>4
<1>4. ASSUME NEW o, NEW n \in Counts, BeforeErr(o)
      PROVE  [o EXCEPT !.exec_err = TRUE, !.errorcnt_err = n] \in Outcomes
  <2> DEFINE p == [o EXCEPT !.exec_err = TRUE, !.errorcnt_err = n]
  <2>1. p \in R /\ p.exec_err /\ p.errorcnt_tf = 0
    BY <1>4 DEF BeforeErr
  <2>2. p.exec_run = o.exec_run /\ p.errorcnt_run = o.errorcnt_run
    BY <1>4 DEF BeforeErr
  <2>3. p.exec_run \/ p.errorcnt_run = 0
    BY <1>4, <2>2 DEF BeforeErr
  <2> HIDE DEF p
  <2>4. p \in Outcomes
    BY <2>1, <2>3 DEF Outcomes
  <2> QED
    BY <2>4 DEF p
<1> QED
  BY <1>1, <1>2, <1>3, <1>4

(* What Process leaves behind in the file of its thread.                   *)
LEMMA ProcessOutcome ==
  ASSUME RInv, NEW t \in Threads, Process(t)
  PROVE  LET f == cur[t]
         IN  /\ file'[f].processed => file'[f].out \in Outcomes
             /\ ~file'[f].processed =>
                  \/ file'[f].out = NoOutcome
                  \/ pc'[t] = "errtest" /\ BeforeErr(file'[f].out)
<1> DEFINE f == cur[t]
<1>1. /\ f \in Files /\ ~file[f].processed /\ Working(t)
      /\ file \in [Files -> FileType] /\ file[f] \in FileType
      /\ pc \in [Threads -> MainLabels \cup WorkLabels \cup WorkerLabels]
  BY ProcessHasEffect DEF RInv, IInv, TypeOK, ProcessEffect, Working
<1>2. pc[t] # "errtest" => file[f].out = NoOutcome
  <2>1. ASSUME NEW s \in Threads, pc[s] = "errtest", cur[s] = f
        PROVE  s = t
    BY <1>1, <2>1, OneThreadPerFile DEF RInv, Working, WorkLabels
  <2> QED
    BY <1>1, <2>1 DEF RInv, OutcomeInv
<1>3. BeforeErr(file[f].out)
  BY <1>1, OutcomeKinds DEF RInv, OutcomeInv
<1>4. CASE ParseFile(t)
  <2>1. file[f].out = NoOutcome
    BY <1>2, <1>4 DEF ParseFile
  <2>2. CASE RejectFile(t)
    <3>1. PICK n \in Counts \ {0} : file'[f].out = [file[f].out EXCEPT !.errorcnt_tf = n]
                                    /\ file'[f].processed
      BY <1>1, <2>2 DEF RejectFile, FileType
    <3> QED
      BY <2>1, <3>1, OutcomeKinds
  <2>3. CASE FindMarkers(t)
    BY <1>1, <2>1, <2>3 DEF FindMarkers, FileType
  <2> QED
    BY <1>4, <2>2, <2>3 DEF ParseFile
<1>5. CASE ExecRunTest(t)
  <2>1. PICK n \in Counts :
          /\ file'[f].out = [file[f].out EXCEPT !.exec_run = TRUE, !.errorcnt_run = n]
          /\ file'[f].processed <=> ~file[f].has_err
    <3>1. PICK n \in Counts :
            file' = [file EXCEPT ![f].processed = NoMoreAfterRun(t),
                                 ![f].out.exec_run = TRUE, ![f].out.errorcnt_run = n]
      BY <1>5 DEF ExecRunTest
    <3>2. file'[f] = [file[f] EXCEPT !.processed = NoMoreAfterRun(t),
                                     !.out.exec_run = TRUE, !.out.errorcnt_run = n]
      BY <1>1, <3>1
    <3> QED
      BY <1>1, <3>2 DEF FileType, NoMoreAfterRun
  <2>2. file[f].out = NoOutcome
    BY <1>2, <1>5 DEF ExecRunTest
  <2>3. file[f].has_err => pc'[t] = "errtest"
    BY <1>1, <1>5 DEF ExecRunTest, Goto
  <2> QED
    BY <1>1, <2>1, <2>2, <2>3, OutcomeKinds DEF FileType
<1>6. CASE ExecErrorTest(t)
  <2>1. PICK n \in Counts :
          /\ file'[f].out = [file[f].out EXCEPT !.exec_err = TRUE, !.errorcnt_err = n]
          /\ file'[f].processed
    <3>1. PICK n \in Counts :
            file' = [file EXCEPT ![f].processed = TRUE,
                                 ![f].out.exec_err = TRUE, ![f].out.errorcnt_err = n]
      BY <1>6 DEF ExecErrorTest
    <3>2. file'[f] = [file[f] EXCEPT !.processed = TRUE,
                                     !.out.exec_err = TRUE, !.out.errorcnt_err = n]
      BY <1>1, <3>1
    <3> QED
      BY <1>1, <3>2 DEF FileType
  <2>2. file'[f].out \in Outcomes
    <3>1. [file[f].out EXCEPT !.exec_err = TRUE, !.errorcnt_err = n] \in Outcomes
      BY <1>3, OutcomeKinds, Zenon
    <3> QED
      BY <2>1, <3>1
  <2> QED
    BY <2>1, <2>2
<1> QED
  BY <1>4, <1>5, <1>6 DEF Process

LEMMA StepOutcomes == RInv /\ [Next]_vars => OutcomeInv'
<1> SUFFICES ASSUME RInv, [Next]_vars
             PROVE  OutcomeInv'
  OBVIOUS
<1>1. CASE Unseen
  BY <1>1 DEF Unseen, RInv, OutcomeInv, Working, WorkLabels
<1>2. ASSUME NEW t \in Threads, Begins(t)
      PROVE  OutcomeInv'
  BY <1>2 DEF Begins, OthersGoOn, RInv, OutcomeInv, Working, WorkLabels
<1>3. ASSUME NEW t \in Threads, Process(t)
      PROVE  OutcomeInv'
  <2>1. ProcessEffect(t) /\ cur[t] \in Files
    BY <1>3, ProcessHasEffect DEF RInv
  <2>2. \A s \in Threads \ {t} : pc'[s] = pc[s] /\ cur'[s] = cur[s]
    BY <2>1 DEF ProcessEffect, RInv, IInv, TypeOK
  <2>3. \A f \in Files \ {cur[t]} : file'[f] = file[f]
    BY <2>1 DEF ProcessEffect
  <2>4. cur' = cur
    BY <2>1 DEF ProcessEffect
  <2>5. ASSUME NEW f \in Files
        PROVE  /\ file'[f].processed => file'[f].out \in Outcomes
               /\ ~file'[f].processed =>
                    \/ file'[f].out = NoOutcome
                    \/ \E s \in Threads : /\ pc'[s] = "errtest" /\ cur'[s] = f
                                          /\ BeforeErr(file'[f].out)
    <3>1. CASE f = cur[t]
      BY <1>3, <2>4, <3>1, ProcessOutcome
    <3>2. CASE f # cur[t]
      BY <2>2, <2>3, <3>2 DEF RInv, OutcomeInv
    <3> QED
      BY <3>1, <3>2
  <2> QED
    BY <2>5 DEF OutcomeInv, BeforeErr
<1>4. CASE ProcessResults
  <2>1. Unseen \/ (file' = file /\ cur' = cur /\ pc' = [pc EXCEPT ![Main] = "exited"])
    BY <1>4 DEF ProcessResults, Goto
  <2>2. \A s \in Threads : pc[s] = "errtest" => pc'[s] = pc[s]
    BY <1>4 DEF ProcessResults, Goto, RInv, IInv, TypeOK
  <2> QED
    BY <1>1, <2>1, <2>2 DEF RInv, OutcomeInv
<1> QED
  BY <1>1, <1>2, <1>3, <1>4, StepKinds DEF RInv

LEMMA InitOutcomes == Init => OutcomeInv
BY DEF Init, OutcomeInv, NewFile

(* Beside the invariant of the runner, OutcomeInv holds in every state.    *)
THEOREM OutcomesComplete == Spec => []RInv
<1>1. Init => RInv
  BY InitIInv, InitOutcomes DEF RInv
<1>2. RInv /\ [Next]_vars => RInv'
  BY NextIInv, StepOutcomes DEF RInv
<1> QED
  BY <1>1, <1>2, PTL DEF Spec

-----------------------------------------------------------------------------
(* The batch's view of a state                                             *)

USE DEF Files, Workers, Threads, Main, NoFile, MainLabels, WorkLabels, WorkerLabels

InWork(f) == \E t \in Threads : Working(t) /\ cur[t] = f

status == [f \in Files |-> IF file[f].processed THEN "done"
                           ELSE IF InWork(f) THEN "taken" ELSE "todo"]

outcome == [f \in Files |-> IF file[f].processed THEN file[f].out ELSE NoOutcome]

(* A step of the batch in its own terms.                                   *)
TakeStep(f) == /\ status[f] = "todo"
               /\ Cardinality({g \in Files : status[g] = "taken"}) < nworkers
               /\ status' = [status EXCEPT ![f] = "taken"]
               /\ UNCHANGED <<nworkers, outcome, report>>

FinishStep(f) == /\ status[f] = "taken"
                 /\ \E o \in Outcomes : outcome' = [outcome EXCEPT ![f] = o]
                 /\ status' = [status EXCEPT ![f] = "done"]
                 /\ UNCHANGED <<nworkers, report>>

ReportStep == /\ \A f \in Files : status[f] = "done"
              /\ report = {}
              /\ report' = {Summary(outcome)}
              /\ UNCHANGED <<nworkers, status, outcome>>

BatchStep == \/ ReportStep \/ \E f \in Files : TakeStep(f) \/ FinishStep(f)
             \/ UNCHANGED <<nworkers, status, outcome, report>>

(* A thread that begins had its file from nobody: the main thread takes    *)
(* the next one when it works alone, a worker has been given it.           *)
LEMMA BeginsFresh ==
  ASSUME RInv, NEW t \in Threads, Begins(t)
  PROVE  ~InWork(cur'[t])
<1> SUFFICES ASSUME NEW s \in Threads, Working(s), cur[s] = cur'[t]
             PROVE  FALSE
  BY DEF InWork
<1>1. ~Working(t)
  BY DEF Begins
<1>2. CASE t = Main
  BY <1>1, <1>2 DEF Begins, RInv, IInv, SeqInv, SeqLabels, Working
<1>3. CASE t # Main
  <2>1. t \in Workers /\ pc[t] = "loaded" /\ worker[t].testfile = cur[s]
        /\ worker[t].testfile # NoFile
    BY <1>3 DEF Begins, RInv, IInv, WorkerInv
  <2>2. s \in Workers
    BY <2>1 DEF RInv, IInv, SeqInv, SeqLabels, Working
  <2>3. worker[s].testfile = cur[s]
    BY <2>2 DEF RInv, IInv, WorkerInv, Working
  <2> QED
    BY <1>1, <2>1, <2>2, <2>3 DEF RInv, IInv, HolderInv
<1> QED
  BY <1>2, <1>3

(* A thread that begins leaves room for its file: the files in work have   *)
(* a working thread each, and this one is none of them.                    *)
LEMMA RoomForOne ==
  ASSUME RInv, NEW t \in Threads, Begins(t)
  PROVE  Cardinality({f \in Files : status[f] = "taken"}) < nworkers
<1> DEFINE Taken == {f \in Files : status[f] = "taken"}
<1>1. \A f \in Taken : InWork(f)
  BY DEF status
<1>2. nworkers \in Nat /\ nworkers > 0
  BY MaxWorkersAssumption DEF RInv, IInv, TypeOK
<1>3. CASE t = Main
  <2>1. pc[Main] = "nextfile"
    BY <1>3 DEF Begins
  <2>2. \A s \in Threads : ~Working(s)
    BY <2>1 DEF RInv, IInv, SeqInv, SeqLabels, Working
  <2>3. Taken = {}
    BY <1>1, <2>2 DEF InWork
  <2> QED
    BY <1>2, <2>3, FS_EmptySet
<1>4. CASE t # Main
  <2>1. t \in Workers /\ pc[t] = "loaded"
    BY <1>4 DEF Begins
  <2> DEFINE Busy == (1..nworkers) \ {t}
             thread == [f \in Taken |-> CHOOSE s \in Threads : Working(s) /\ cur[s] = f]
  <2>2. /\ t \in 1..nworkers /\ ~Working(Main) /\ ~Working(t)
        /\ \A w \in Workers : Working(w) => w \in 1..nworkers
    BY <1>2, <2>1, MaxWorkersAssumption
    DEF RInv, IInv, PhaseInv, SeqInv, SeqLabels, Working
  <2>3. \A s \in Threads : Working(s) => s \in Busy
    BY <2>2
  <2>4. \A f \in Taken : thread[f] \in Threads /\ Working(thread[f]) /\ cur[thread[f]] = f
    BY <1>1 DEF InWork
  <2>5. thread \in Injection(Taken, Busy)
    <3>1. thread \in [Taken -> Busy]
      BY <2>3, <2>4
    <3>2. \A f, g \in Taken : thread[f] = thread[g] => f = g
      BY <2>4
    <3> HIDE DEF thread, Taken
    <3> QED
      BY <3>1, <3>2 DEF Injection, IsInjective
  <2>6. IsFiniteSet(Busy) /\ Cardinality(Busy) = nworkers - 1
    <3>1. IsFiniteSet(1..nworkers) /\ Cardinality(1..nworkers) = nworkers
      <4>1. 1 \in Int /\ nworkers \in Int
        BY <1>2
      <4>2. /\ IsFiniteSet(1..nworkers)
            /\ Cardinality(1..nworkers) = IF 1 > nworkers THEN 0 ELSE nworkers - 1 + 1
        BY <4>1, FS_Interval, Zenon
      <4> QED
        BY <1>2, <4>2
    <3> QED
      BY <2>2, <3>1, FS_RemoveElement
  <2>7. IsFiniteSet(Taken) /\ Cardinality(Taken) <= Cardinality(Busy)
    BY <2>5, <2>6, FS_Injection
  <2>8. Cardinality(Taken) \in Nat
    BY <2>7, FS_CardinalityType
  <2> QED
    BY <1>2, <2>6, <2>7, <2>8
<1> QED
  BY <1>3, <1>4

LEMMA UnseenStutters ==
  ASSUME RInv, Unseen
  PROVE  UNCHANGED <<nworkers, status, outcome, report>>
<1>1. \A f \in Files : InWork(f)' <=> InWork(f)
  BY DEF Unseen, InWork, Working
<1> QED
  BY <1>1 DEF Unseen, status, outcome

LEMMA BeginTakes ==
  ASSUME RInv, NEW t \in Threads, Begins(t)
  PROVE  cur'[t] \in Files /\ TakeStep(cur'[t])
<1> DEFINE f == cur'[t]
<1>1. f \in Files /\ ~file[f].processed /\ file' = file /\ ~Working(t)
  BY DEF Begins
<1>2. ~InWork(f)
  BY BeginsFresh
<1>3. \A g \in Files : InWork(g)' <=> InWork(g) \/ g = f
  BY DEF Begins, OthersGoOn, InWork, Working, WorkLabels
<1>4. status[f] = "todo" /\ status' = [status EXCEPT ![f] = "taken"]
  BY <1>1, <1>2, <1>3 DEF status
<1>5. UNCHANGED <<nworkers, outcome, report>>
  BY <1>1 DEF Begins, outcome
<1> QED
  BY <1>1, <1>4, <1>5, RoomForOne DEF TakeStep

LEMMA ProcessFinishes ==
  ASSUME RInv, RInv', NEW t \in Threads, Process(t)
  PROVE  FinishStep(cur[t]) \/ UNCHANGED <<nworkers, status, outcome, report>>
<1> DEFINE f == cur[t]
<1>1. ProcessEffect(t) /\ f \in Files /\ ~file[f].processed /\ Working(t)
  BY ProcessHasEffect DEF RInv, ProcessEffect, Working
<1>2. /\ \A g \in Files : g # f => file'[g] = file[g]
      /\ UNCHANGED <<nworkers, cur, report>>
  BY <1>1 DEF ProcessEffect
<1>3. \A s \in Threads \ {t} : pc'[s] = pc[s] /\ cur'[s] = cur[s]
  BY <1>1, <1>2 DEF ProcessEffect, RInv, IInv, TypeOK
<1>4. \A g \in Files : g # f => (InWork(g)' <=> InWork(g))
  BY <1>2, <1>3 DEF InWork, Working
<1>5. InWork(f) /\ status[f] = "taken"
  BY <1>1 DEF InWork, status
<1>6. CASE file'[f].processed
  <2>1. status' = [status EXCEPT ![f] = "done"]
    BY <1>1, <1>2, <1>4, <1>6 DEF status
  <2>2. outcome' = [outcome EXCEPT ![f] = file'[f].out]
    BY <1>1, <1>2, <1>6 DEF outcome
  <2>3. file'[f].out \in Outcomes
    BY <1>1, <1>6, ProcessOutcome
  <2> QED
    BY <1>2, <1>5, <2>1, <2>2, <2>3 DEF FinishStep
<1>7. CASE ~file'[f].processed
  <2>1. InWork(f)'
    <3>1. PICK l \in {"runtest", "errtest", AfterProcess(t)} :
            pc' = [pc EXCEPT ![t] = l] /\ l # AfterProcess(t)
      BY <1>1, <1>7 DEF ProcessEffect
    <3>2. pc'[t] \in WorkLabels
      BY <3>1 DEF RInv, IInv, TypeOK
    <3> QED
      BY <1>2, <3>2 DEF InWork, Working
  <2>2. status' = status
    BY <1>1, <1>2, <1>4, <1>5, <1>7, <2>1 DEF status
  <2>3. outcome' = outcome
    BY <1>1, <1>2, <1>7 DEF outcome
  <2> QED
    BY <1>2, <2>2, <2>3
<1> QED
  BY <1>6, <1>7

LEMMA ResultsReport ==
  ASSUME RInv, ProcessResults
  PROVE  ReportStep
<1>1. \A f \in Files : file[f].processed
  BY DrainedMeansProcessed DEF RInv, AllProcessed, ProcessResults
<1>2. outcome = [f \in Files |-> file[f].out]
  BY <1>1 DEF outcome
<1>3. \A f \in Files : status[f] = "done"
  BY <1>1 DEF status
<1>4. UNCHANGED <<nworkers, file>> /\ report' = {Summary(outcome)}
  BY <1>2 DEF ProcessResults
<1>5. status' = status /\ outcome' = outcome
  BY <1>1, <1>4 DEF status, outcome
<1>6. report = {}
  BY DEF RInv, IInv, TypeOK, ProcessResults
<1> QED
  BY <1>3, <1>4, <1>5, <1>6 DEF ReportStep

LEMMA StepRefines ==
  ASSUME RInv, RInv', [Next]_vars
  PROVE  BatchStep
BY StepKinds, UnseenStutters, BeginTakes, ProcessFinishes, ResultsReport, ProcessHasEffect
DEF BatchStep, RInv

(* What Batch takes from TestResults is what AtRunner takes from it.       *)
LEMMA SameOperators ==
  /\ B!NoOutcome = NoOutcome
  /\ \A S : B!Cardinality(S) = Cardinality(S)
  /\ \A out : B!Summary(out) = Summary(out)
<1>1. B!NoOutcome = NoOutcome
  BY DEF B!NoOutcome, NoOutcome
<1>2. \A S : B!Cardinality(S) = Cardinality(S)
  BY DEF B!Cardinality, Cardinality
<1>3. \A out : B!Summary(out) = Summary(out)
  BY <1>2 DEF B!Summary, Summary, B!MapThenSumSet, MapThenSumSet,
              B!MapThenFoldSet, MapThenFoldSet
<1> QED
  BY <1>1, <1>2, <1>3

(* The threaded runner implements the batch: its initial states and its    *)
(* steps, seen through the refinement mapping, are those of Batch.         *)
THEOREM Refinement == Spec => RefinesBatch
<1>1. Init => B!Init
  <2>1. ASSUME Init
        PROVE  /\ nworkers \in 1..MaxWorkers /\ report = {}
               /\ \A t \in Threads : ~Working(t)
               /\ \A f \in Files : ~file[f].processed
    BY <2>1 DEF Init, Working, NewFile
  <2>2. \A f \in Files : Init => status[f] = "todo" /\ outcome[f] = NoOutcome
    BY <2>1 DEF status, outcome, InWork
  <2>3. Init => /\ status = [f \in Files |-> "todo"]
                /\ outcome = [f \in Files |-> NoOutcome]
    BY <2>2 DEF status, outcome
  <2> QED
    BY <2>1, <2>3, SameOperators DEF B!Init, status, outcome, InWork
<1>2. RInv /\ RInv' /\ [Next]_vars => [B!Next]_(B!vars)
  <2>1. ReportStep => B!Report
    BY SameOperators DEF ReportStep, B!Report, status, outcome, InWork
  <2>2. \A f \in Files : TakeStep(f) => B!Take(f)
    BY SameOperators DEF TakeStep, B!Take, B!Taken, status, outcome, InWork
  <2>3. \A f \in Files : FinishStep(f) => B!Finish(f)
    BY DEF FinishStep, B!Finish, status, outcome, InWork, Outcomes
  <2>4. UNCHANGED <<nworkers, status, outcome, report>> => UNCHANGED B!vars
    BY DEF B!vars, status, outcome, InWork
  <2> QED
    BY <2>1, <2>2, <2>3, <2>4, StepRefines DEF BatchStep, B!Next
<1> QED
  BY <1>1, <1>2, OutcomesComplete, PTL DEF RefinesBatch, B!Spec, Spec
=============================================================================
