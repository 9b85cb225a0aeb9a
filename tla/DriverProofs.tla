---------------------------- MODULE DriverProofs ----------------------------
(***************************************************************************)
(* Safety of the programs that compile and run a file, for any number of   *)
(* invocations, any command lines and files.  An invocation's view of the  *)
(* file system is an invariant of its own steps; what makes it one is that *)
(* no other invocation writes its files.                                   *)
(***************************************************************************)
EXTENDS Driver, FoldTheorems, SequenceTheorems

Compiling == {"init", "parse", "emit", "write", "link", "rename"}

(* What a compile with a new output has left.                              *)
Output(p) == LET o == Options(p)
             IN  IF o.compile_only THEN OutFilename(o) ELSE LinkOutput(o)
Kind(p) == IF ~Options(p).compile_only /\ has_main[p] THEN "program" ELSE "object"

Made(p, kind) == Content(kind, text[p], Options(p).def, has_main[p])

ProcInv(p) ==
  /\ pc[p] \in {"start", "args"} \cup Compiling => errorcnt[p] = 0
  /\ pc[p] \in Compiling => Compiles(cmd[p])
  /\ pc[p] \in {"link", "rename"} => ~Options(p).compile_only
  /\ pc[p] = "link" => has_main[p]
  /\ pc[p] = "rename" => ~has_main[p] /\ Options(p).has_dash_o
  /\ pc[p] \in {"link", "rename"} /\ Alone(p) =>
       fs[OutFilename(Options(p))] = Made(p, "object")
  /\ pc[p] \in {"exit", "run"} /\ status[p] = 0 /\ ~NotLinked(p) =>
       /\ Compiles(cmd[p])
       /\ Alone(p) => fs[Output(p)] = Made(p, Kind(p))
  /\ pc[p] # "start" /\ cmd[p].tool = "dq-run" =>
       ParseArgs(cmd[p].args).ok \/ pc[p] = "done"
  /\ pc[p] = "run" => Runs(p) /\ status[p] = 0
  /\ pc[p] # "done" => ran[p] = Nothing

(* What each invocation is found to have done at its end.                  *)
DoneInv(p) == pc[p] = "done" =>
  /\ Runs(p) /\ result[p] = 0 => ran[p].kind = "program"
  /\ ran[p] # Nothing /\ Alone(p) /\ ~NotLinked(p) =>
       ran[p].text = text[p] /\ ran[p].def = Options(p).def

Fields == {"kind", "text", "def", "main"}

ShapeInv == /\ DOMAIN text = Procs /\ DOMAIN kept = Procs /\ DOMAIN ran = Procs
            /\ has_main \in [Procs -> BOOLEAN]
            /\ \A f \in Files : DOMAIN fs[f] = Fields

IInv == TypeOK /\ ShapeInv /\ \A p \in Procs : ProcInv(p) /\ DoneInv(p)

-----------------------------------------------------------------------------
(* Helpers                                                                 *)

(* The command lines do not change, nor what is derived from them alone.   *)
LEMMA SameCommands ==
  ASSUME cmd' = cmd
  PROVE  \A p \in Procs : /\ Options(p)' = Options(p)
                          /\ Writes(p)' = Writes(p)
                          /\ Alone(p)' <=> Alone(p)
                          /\ Output(p)' = Output(p)
                          /\ Runs(p)' <=> Runs(p)
<1>1. \A p \in Procs : Options(p)' = Options(p) /\ Writes(p)' = Writes(p)
  BY DEF Options, Writes
<1>2. \A p, q \in Procs : Apart(p, q)' <=> Apart(p, q)
  BY <1>1 DEF Apart
<1> QED
  BY <1>1, <1>2 DEF Alone, Output, Runs

LEMMA ContentFields ==
  ASSUME NEW kind, NEW t, NEW def, NEW main
  PROVE  LET c == Content(kind, t, def, main)
         IN  /\ DOMAIN c = Fields
             /\ c.kind = kind /\ c.text = t /\ c.def = def /\ c.main = main
             /\ [c EXCEPT !.kind = "program"] = Content("program", t, def, main)
BY DEF Content, Fields

(* The exit status of a compile with n errors is 0 only if n is a multiple *)
(* of the number of its values.                                            *)
LEMMA StatusOf ==
  /\ \A n \in Nat : n % StatusMod \in 0..(StatusMod - 1)
  /\ 1 % StatusMod = 1 /\ 0 % StatusMod = 0
  /\ \A n \in Nat \ {0} : n % StatusMod = 0 => n >= StatusMod
<1>1. \A n \in Nat : n % StatusMod \in 0..(StatusMod - 1)
  BY StatusAssumption
<1>2. \A n \in Nat : n < StatusMod => n % StatusMod = n
  BY StatusAssumption
<1> QED
  BY <1>1, <1>2, StatusAssumption

(* What a step of one invocation may do to the rest.                       *)
Frame(p) ==
  /\ cmd' = cmd
  /\ \A q \in Procs \ {p} :
       /\ pc'[q] = pc[q] /\ text'[q] = text[q] /\ has_main'[q] = has_main[q]
       /\ errorcnt'[q] = errorcnt[q] /\ status'[q] = status[q] /\ kept'[q] = kept[q]
       /\ ran'[q] = ran[q] /\ result'[q] = result[q]
  /\ \A f \in Files : f \notin Writes(p) => fs'[f] = fs[f]

Effect(p) == TypeOK' /\ ShapeInv' /\ Frame(p) /\ ProcInv(p)' /\ DoneInv(p)'

USE DEF Compiling

LEMMA StartToolStep ==
  ASSUME IInv, NEW p \in Procs, StartTool(p)
  PROVE  Effect(p)
<1>1. TypeOK /\ ShapeInv /\ ProcInv(p) /\ DoneInv(p) /\ pc[p] = "start"
  BY DEF IInv, StartTool
<1>2. UNCHANGED <<text, has_main, errorcnt, status, kept, cmd, ran, version, fs>>
  BY DEF StartTool, compvars
<1>3. /\ \/ pc'[p] = "done" /\ result'[p] = 1
         \/ pc'[p] = "args" /\ result' = result
      /\ pc'[p] = "args" /\ cmd[p].tool = "dq-run" => ParseArgs(cmd[p].args).ok
      /\ \A q \in Procs \ {p} : pc'[q] = pc[q] /\ result'[q] = result[q]
  BY <1>1 DEF StartTool, Goto, TypeOK
<1>4. TypeOK'
  BY <1>1, <1>2, StatusAssumption DEF TypeOK, StartTool, Goto
<1>5. ShapeInv' /\ Frame(p)
  BY <1>1, <1>2, <1>3 DEF ShapeInv, Frame
<1>6. ProcInv(p)' /\ DoneInv(p)'
  BY <1>1, <1>2, <1>3 DEF ProcInv, DoneInv
<1> QED
  BY <1>4, <1>5, <1>6 DEF Effect

LEMMA CompilerNotRunStep ==
  ASSUME IInv, NEW p \in Procs, CompilerNotRun(p)
  PROVE  Effect(p)
<1>1. TypeOK /\ ShapeInv /\ ProcInv(p) /\ DoneInv(p) /\ pc[p] = "args"
  BY DEF IInv, CompilerNotRun
<1>2. UNCHANGED <<text, has_main, errorcnt, status, kept, cmd, ran, version, fs>>
  BY DEF CompilerNotRun, compvars
<1>3. /\ pc'[p] = "done" /\ result'[p] = 1
      /\ \A q \in Procs \ {p} : pc'[q] = pc[q] /\ result'[q] = result[q]
  BY <1>1 DEF CompilerNotRun, Goto, TypeOK
<1>4. TypeOK'
  BY <1>1, <1>2, StatusAssumption DEF TypeOK, CompilerNotRun, Goto
<1>5. ShapeInv' /\ Frame(p)
  BY <1>1, <1>2, <1>3 DEF ShapeInv, Frame
<1>6. ProcInv(p)' /\ DoneInv(p)'
  BY <1>1, <1>2, <1>3 DEF ProcInv, DoneInv
<1> QED
  BY <1>4, <1>5, <1>6 DEF Effect

(* The end of a compile.                                                   *)
LEMMA ExitFields ==
  ASSUME IInv, NEW p \in Procs, NEW n \in 0..MaxErrors, Exit(p, n)
  PROVE  /\ pc'[p] = "exit" /\ errorcnt'[p] = n /\ status'[p] = n % StatusMod
         /\ \A q \in Procs \ {p} : /\ pc'[q] = pc[q] /\ errorcnt'[q] = errorcnt[q]
                                   /\ status'[q] = status[q]
         /\ errorcnt' \in [Procs -> 0..MaxErrors]
         /\ status' \in [Procs -> 0..(StatusMod - 1)]
         /\ pc' = [pc EXCEPT ![p] = "exit"]
<1>1. n \in Nat /\ n % StatusMod \in 0..(StatusMod - 1)
  BY MaxErrorsAssumption, StatusOf
<1> QED
  BY <1>1 DEF Exit, Goto, IInv, TypeOK

LEMMA AbortFields ==
  ASSUME IInv, NEW p \in Procs, Abort(p)
  PROVE  /\ pc'[p] = "exit" /\ status'[p] = 1
         /\ \A q \in Procs \ {p} : pc'[q] = pc[q] /\ status'[q] = status[q]
         /\ status' \in [Procs -> 0..(StatusMod - 1)]
         /\ pc' = [pc EXCEPT ![p] = "exit"]
BY StatusAssumption DEF Abort, Goto, IInv, TypeOK

LEMMA StartCompilerStep ==
  ASSUME IInv, NEW p \in Procs, StartCompiler(p)
  PROVE  Effect(p)
<1>1. TypeOK /\ ShapeInv /\ ProcInv(p) /\ DoneInv(p) /\ pc[p] = "args"
  BY DEF IInv, StartCompiler
<1>2. UNCHANGED <<text, has_main, kept, cmd, ran, result, version, fs>>
  BY DEF StartCompiler, toolvars
<1>3. \/ VersionAsked(cmd[p]) /\ Exit(p, 0)
      \/ Exit(p, 1)
      \/ Compiles(cmd[p]) /\ Goto(p, "init") /\ UNCHANGED <<errorcnt, status>>
  BY DEF StartCompiler
<1>4. /\ pc' \in [Procs -> {"start", "args", "init", "parse", "emit", "write", "link",
                            "rename", "exit", "run", "done"}]
      /\ errorcnt' \in [Procs -> 0..MaxErrors]
      /\ status' \in [Procs -> 0..(StatusMod - 1)]
      /\ \A q \in Procs \ {p} : /\ pc'[q] = pc[q] /\ errorcnt'[q] = errorcnt[q]
                                /\ status'[q] = status[q]
      /\ \/ pc'[p] = "exit" /\ VersionAsked(cmd[p])
         \/ pc'[p] = "exit" /\ status'[p] = 1
         \/ pc'[p] = "init" /\ Compiles(cmd[p]) /\ errorcnt' = errorcnt
  BY <1>1, <1>3, ExitFields, MaxErrorsAssumption, StatusOf DEF Goto, TypeOK
<1>5. TypeOK'
  BY <1>1, <1>2, <1>4 DEF TypeOK
<1>6. ShapeInv' /\ Frame(p)
  BY <1>1, <1>2, <1>4 DEF ShapeInv, Frame
<1>7. ProcInv(p)' /\ DoneInv(p)'
  BY <1>1, <1>2, <1>4 DEF ProcInv, DoneInv, NotLinked
<1> QED
  BY <1>5, <1>6, <1>7 DEF Effect

LEMMA ScfInitStep ==
  ASSUME IInv, NEW p \in Procs, ScfInit(p)
  PROVE  Effect(p)
<1>1. TypeOK /\ ShapeInv /\ ProcInv(p) /\ DoneInv(p) /\ pc[p] = "init"
  BY DEF IInv, ScfInit
<1>2. UNCHANGED <<has_main, kept, cmd, ran, result, version, fs>>
  BY DEF ScfInit, toolvars
<1>3. \/ Exit(p, 1) /\ UNCHANGED text
      \/ /\ \E t : text' = [text EXCEPT ![p] = t]
         /\ Goto(p, "parse") /\ UNCHANGED <<errorcnt, status>>
  BY DEF ScfInit
<1>4. /\ pc' \in [Procs -> {"start", "args", "init", "parse", "emit", "write", "link",
                            "rename", "exit", "run", "done"}]
      /\ errorcnt' \in [Procs -> 0..MaxErrors]
      /\ status' \in [Procs -> 0..(StatusMod - 1)]
      /\ \A q \in Procs \ {p} : /\ pc'[q] = pc[q] /\ errorcnt'[q] = errorcnt[q]
                                /\ status'[q] = status[q] /\ text'[q] = text[q]
      /\ DOMAIN text' = DOMAIN text
      /\ \/ pc'[p] = "exit" /\ status'[p] = 1
         \/ pc'[p] = "parse" /\ errorcnt' = errorcnt
  BY <1>1, <1>3, ExitFields, MaxErrorsAssumption, StatusOf DEF Goto, TypeOK, ShapeInv
<1>5. TypeOK'
  BY <1>1, <1>2, <1>4 DEF TypeOK
<1>6. ShapeInv' /\ Frame(p)
  BY <1>1, <1>2, <1>4 DEF ShapeInv, Frame
<1>7. ProcInv(p)' /\ DoneInv(p)'
  BY <1>1, <1>2, <1>4 DEF ProcInv, DoneInv
<1> QED
  BY <1>5, <1>6, <1>7 DEF Effect

LEMMA ParseModuleStep ==
  ASSUME IInv, NEW p \in Procs, ParseModule(p)
  PROVE  Effect(p)
<1>1. TypeOK /\ ShapeInv /\ ProcInv(p) /\ DoneInv(p) /\ pc[p] = "parse"
  BY DEF IInv, ParseModule
<1>2. UNCHANGED <<text, kept, cmd, ran, result, version, fs>>
  BY DEF ParseModule, toolvars
<1>3. PICK n \in 0..MaxErrors, main \in BOOLEAN :
        /\ has_main' = [has_main EXCEPT ![p] = main]
        /\ n > 0 => Exit(p, n)
        /\ ~(n > 0) => Goto(p, "emit") /\ UNCHANGED <<errorcnt, status>>
  BY DEF ParseModule
<1>4. /\ pc' \in [Procs -> {"start", "args", "init", "parse", "emit", "write", "link",
                            "rename", "exit", "run", "done"}]
      /\ errorcnt' \in [Procs -> 0..MaxErrors]
      /\ status' \in [Procs -> 0..(StatusMod - 1)]
      /\ \A q \in Procs \ {p} : /\ pc'[q] = pc[q] /\ errorcnt'[q] = errorcnt[q]
                                /\ status'[q] = status[q]
      /\ \/ pc'[p] = "exit" /\ errorcnt'[p] = n /\ n > 0 /\ status'[p] = n % StatusMod
         \/ pc'[p] = "emit" /\ errorcnt' = errorcnt
  BY <1>1, <1>3, ExitFields DEF Goto, TypeOK
<1>5. pc'[p] = "exit" /\ status'[p] = 0 => NotLinked(p)'
  BY <1>4, StatusOf, MaxErrorsAssumption DEF NotLinked
<1>6. pc'[p] = "emit" => errorcnt'[p] = 0
  BY <1>1, <1>4 DEF ProcInv
<1>7. TypeOK'
  BY <1>1, <1>2, <1>4, <1>6 DEF TypeOK
<1>8. ShapeInv' /\ Frame(p)
  BY <1>1, <1>2, <1>3, <1>4 DEF ShapeInv, Frame
<1>9. ProcInv(p)' /\ DoneInv(p)'
  BY <1>1, <1>2, <1>4, <1>5 DEF ProcInv, DoneInv
<1> QED
  BY <1>7, <1>8, <1>9 DEF Effect

(* A written path is one of Files, and what it holds there is what was     *)
(* written.                                                                *)
LEMMA WriteFields ==
  ASSUME DOMAIN fs = Files, ShapeInv, NEW f \in Files, NEW c, DOMAIN c = Fields, Write(f, c)
  PROVE  /\ DOMAIN fs' = Files /\ fs'[f] = c
         /\ \A g \in Files : g # f => fs'[g] = fs[g]
         /\ \A g \in Files : DOMAIN fs'[g] = Fields
BY DEF Write, ShapeInv

LEMMA PathsAreFiles ==
  ASSUME IInv, NEW p \in Procs, pc[p] \in Compiling
  PROVE  /\ OutFilename(Options(p)) \in Files /\ LinkOutput(Options(p)) \in Files
         /\ Options(p).in \in Files
         /\ OutFilename(Options(p)) \in Writes(p) /\ LinkOutput(Options(p)) \in Writes(p)
<1>1. Compiles(cmd[p]) /\ cmd[p] \in Commands
  BY DEF IInv, ProcInv, TypeOK
<1> QED
  BY <1>1, CommandsAssumption DEF Options, Writes

LEMMA OpenObjectStep ==
  ASSUME IInv, NEW p \in Procs, OpenObject(p)
  PROVE  Effect(p)
<1>1. TypeOK /\ ShapeInv /\ ProcInv(p) /\ DoneInv(p) /\ pc[p] = "emit"
  BY DEF IInv, OpenObject
<1>2. UNCHANGED <<text, has_main, errorcnt, kept, cmd, ran, result, version>>
  BY DEF OpenObject, toolvars
<1> DEFINE f == OutFilename(Options(p))
           c == Content("partial", NoText, FALSE, FALSE)
<1>3. DOMAIN c = Fields /\ f \in Files /\ f \in Writes(p)
  BY <1>1, PathsAreFiles DEF Content, Fields
<1>4. /\ pc' \in [Procs -> {"start", "args", "init", "parse", "emit", "write", "link",
                            "rename", "exit", "run", "done"}]
      /\ status' \in [Procs -> 0..(StatusMod - 1)]
      /\ \A q \in Procs \ {p} : pc'[q] = pc[q] /\ status'[q] = status[q]
      /\ \/ pc'[p] = "exit" /\ status'[p] = 1 /\ UNCHANGED fs
         \/ pc'[p] = "write" /\ Write(f, c)
  BY <1>1, AbortFields DEF OpenObject, Goto, TypeOK
<1> HIDE DEF c, f
<1>5. /\ DOMAIN fs' = Files
      /\ \A g \in Files : DOMAIN fs'[g] = Fields
      /\ \A g \in Files : g \notin Writes(p) => fs'[g] = fs[g]
  BY <1>1, <1>3, <1>4, WriteFields DEF TypeOK, ShapeInv
<1>6. TypeOK'
  BY <1>1, <1>2, <1>4, <1>5 DEF TypeOK
<1>7. ShapeInv' /\ Frame(p)
  BY <1>1, <1>2, <1>4, <1>5 DEF ShapeInv, Frame
<1>8. ProcInv(p)' /\ DoneInv(p)'
  BY <1>1, <1>2, <1>4 DEF ProcInv, DoneInv
<1> QED
  BY <1>6, <1>7, <1>8 DEF Effect

LEMMA WriteObjectStep ==
  ASSUME IInv, NEW p \in Procs, WriteObject(p)
  PROVE  Effect(p)
<1>1. TypeOK /\ ShapeInv /\ ProcInv(p) /\ DoneInv(p) /\ pc[p] = "write"
  BY DEF IInv, WriteObject
<1>2. UNCHANGED <<text, has_main, kept, cmd, ran, result, version>>
  BY DEF WriteObject, toolvars
<1> DEFINE o == Options(p)
           f == OutFilename(o)
           c == Content("object", text[p], o.def, has_main[p])
<1>3. DOMAIN c = Fields /\ f \in Files /\ f \in Writes(p) /\ Write(f, c)
  BY <1>1, ContentFields, PathsAreFiles DEF WriteObject
<1>4. /\ pc' \in [Procs -> {"start", "args", "init", "parse", "emit", "write", "link",
                            "rename", "exit", "run", "done"}]
      /\ errorcnt' \in [Procs -> 0..MaxErrors]
      /\ status' \in [Procs -> 0..(StatusMod - 1)]
      /\ \A q \in Procs \ {p} : /\ pc'[q] = pc[q] /\ errorcnt'[q] = errorcnt[q]
                                /\ status'[q] = status[q]
      /\ errorcnt'[p] = 0
      /\ \/ pc'[p] = "exit" /\ (o.compile_only \/ (~has_main[p] /\ ~o.has_dash_o))
         \/ pc'[p] = "link" /\ has_main[p] /\ ~o.compile_only
         \/ pc'[p] = "rename" /\ ~has_main[p] /\ o.has_dash_o /\ ~o.compile_only
  <2>1. errorcnt[p] = 0
    BY <1>1 DEF ProcInv
  <2>2. CASE o.compile_only \/ (~has_main[p] /\ ~o.has_dash_o)
    <3>1. Exit(p, 0)
      BY <2>2 DEF WriteObject
    <3> QED
      BY <1>1, <2>2, <3>1, ExitFields, MaxErrorsAssumption DEF TypeOK
  <2>3. CASE ~(o.compile_only \/ (~has_main[p] /\ ~o.has_dash_o))
    <3>1. /\ Goto(p, IF has_main[p] THEN "link" ELSE "rename")
          /\ UNCHANGED <<errorcnt, status>>
      BY <2>3 DEF WriteObject
    <3> QED
      BY <1>1, <2>1, <2>3, <3>1 DEF Goto, TypeOK
  <2> QED
    BY <2>2, <2>3
<1>5. /\ DOMAIN fs' = Files /\ fs'[f] = c
      /\ \A g \in Files : DOMAIN fs'[g] = Fields
      /\ \A g \in Files : g \notin Writes(p) => fs'[g] = fs[g]
  <2> HIDE DEF c, f
  <2> QED
    BY <1>1, <1>3, WriteFields DEF TypeOK
<1>6. TypeOK'
  BY <1>1, <1>2, <1>4, <1>5 DEF TypeOK
<1>7. ShapeInv' /\ Frame(p)
  BY <1>1, <1>2, <1>4, <1>5 DEF ShapeInv, Frame
<1>8. /\ Options(p)' = o /\ (Alone(p)' <=> Alone(p)) /\ Output(p)' = Output(p)
      /\ Made(p, "object")' = c
      /\ Kind(p)' = IF ~o.compile_only /\ has_main[p] THEN "program" ELSE "object"
  BY <1>2, SameCommands DEF Made, Kind
<1>9. pc'[p] = "exit" /\ ~NotLinked(p)' => Output(p) = f /\ Kind(p)' = "object"
  BY <1>2, <1>4, <1>8 DEF NotLinked, Output
<1>10. Compiles(cmd[p])
  BY <1>1 DEF ProcInv
<1> HIDE DEF c, o, f
<1>11. pc'[p] = "exit" /\ ~NotLinked(p)' => fs'[Output(p)'] = Made(p, Kind(p))'
  BY <1>5, <1>8, <1>9
<1>12. fs'[OutFilename(Options(p)')] = Made(p, "object")'
  BY <1>5, <1>8 DEF f, o
<1>13. ProcInv(p)' /\ DoneInv(p)'
  BY <1>1, <1>2, <1>4, <1>8, <1>10, <1>11, <1>12 DEF ProcInv, DoneInv
<1> QED
  BY <1>6, <1>7, <1>13 DEF Effect

LEMMA LinkStep ==
  ASSUME IInv, NEW p \in Procs, Link(p)
  PROVE  Effect(p)
<1>1. TypeOK /\ ShapeInv /\ ProcInv(p) /\ DoneInv(p) /\ pc[p] = "link"
  BY DEF IInv, Link
<1>2. UNCHANGED <<text, has_main, kept, cmd, ran, result, version>>
  BY DEF Link, toolvars
<1> DEFINE f == LinkOutput(Options(p))
           c == Content("program", text[p], Options(p).def, has_main[p])
<1>3. /\ f \in Files /\ f \in Writes(p) /\ Compiles(cmd[p])
      /\ ~Options(p).compile_only /\ has_main[p] /\ errorcnt[p] = 0
      /\ DOMAIN c = Fields /\ DOMAIN Nothing = Fields
  BY <1>1, PathsAreFiles DEF ProcInv, Content, Nothing, Fields
<1>4. \/ /\ Exit(p, 0)
         /\ Write(f, [fs[OutFilename(Options(p))] EXCEPT !.kind = "program"])
      \/ Exit(p, 1) /\ UNCHANGED fs
      \/ Exit(p, 1) /\ Write(f, Nothing)
  BY DEF Link, LinkFails
<1>5. Alone(p) => [fs[OutFilename(Options(p))] EXCEPT !.kind = "program"] = c
  <2>1. Alone(p) => fs[OutFilename(Options(p))] = Made(p, "object")
    BY <1>1 DEF ProcInv
  <2>2. [Made(p, "object") EXCEPT !.kind = "program"] = c
    BY DEF Made, Content
  <2> HIDE DEF c
  <2> QED
    BY <2>1, <2>2
<1>6. DOMAIN [fs[OutFilename(Options(p))] EXCEPT !.kind = "program"] = Fields
  BY <1>1, PathsAreFiles DEF ShapeInv
<1>7. /\ DOMAIN fs' = Files
      /\ \A g \in Files : DOMAIN fs'[g] = Fields
      /\ \A g \in Files : g \notin Writes(p) => fs'[g] = fs[g]
      /\ pc' = [pc EXCEPT ![p] = "exit"] /\ pc'[p] = "exit"
      /\ errorcnt' \in [Procs -> 0..MaxErrors]
      /\ status' \in [Procs -> 0..(StatusMod - 1)]
      /\ \A q \in Procs \ {p} : /\ pc'[q] = pc[q] /\ errorcnt'[q] = errorcnt[q]
                                /\ status'[q] = status[q]
      /\ status'[p] = 1 \/ (Alone(p) => fs'[f] = c)
  <2> DEFINE d == [fs[OutFilename(Options(p))] EXCEPT !.kind = "program"]
  <2> HIDE DEF f, c, d
  <2>0. DOMAIN d = Fields /\ DOMAIN fs = Files
    BY <1>1, <1>6 DEF d, TypeOK
  <2>1. CASE Exit(p, 0) /\ Write(f, d)
    <3>1. /\ DOMAIN fs' = Files /\ fs'[f] = d
          /\ \A g \in Files : g # f => fs'[g] = fs[g]
          /\ \A g \in Files : DOMAIN fs'[g] = Fields
      BY <1>1, <1>3, <2>0, <2>1, WriteFields
    <3>2. Alone(p) => fs'[f] = c
      BY <1>5, <3>1 DEF d
    <3> QED
      BY <1>3, <2>1, <3>1, <3>2, ExitFields, MaxErrorsAssumption
  <2>2. CASE Exit(p, 1) /\ UNCHANGED fs
    BY <1>1, <2>0, <2>2, ExitFields, MaxErrorsAssumption, StatusOf DEF ShapeInv
  <2>3. CASE Exit(p, 1) /\ Write(f, Nothing)
    <3>1. /\ DOMAIN fs' = Files
          /\ \A g \in Files : g # f => fs'[g] = fs[g]
          /\ \A g \in Files : DOMAIN fs'[g] = Fields
      BY <1>1, <1>3, <2>0, <2>3, WriteFields
    <3> QED
      BY <1>3, <2>3, <3>1, ExitFields, MaxErrorsAssumption, StatusOf
  <2> QED
    BY <1>4, <2>1, <2>2, <2>3 DEF d
<1>8. TypeOK'
  BY <1>1, <1>2, <1>7 DEF TypeOK
<1>9. ShapeInv' /\ Frame(p)
  BY <1>1, <1>2, <1>7 DEF ShapeInv, Frame
<1>10. (Alone(p)' <=> Alone(p)) /\ Output(p)' = f /\ Made(p, Kind(p))' = c
  BY <1>2, <1>3, SameCommands DEF Made, Kind, Output
<1> HIDE DEF c, f
<1>11. status'[p] = 1 \/ (Alone(p)' => fs'[Output(p)'] = Made(p, Kind(p))')
  BY <1>7, <1>10
<1>12. ProcInv(p)' /\ DoneInv(p)'
  BY <1>1, <1>2, <1>3, <1>7, <1>11 DEF ProcInv, DoneInv
<1> QED
  BY <1>8, <1>9, <1>12 DEF Effect

LEMMA RenameStep ==
  ASSUME IInv, NEW p \in Procs, Rename(p)
  PROVE  Effect(p)
<1>1. TypeOK /\ ShapeInv /\ ProcInv(p) /\ DoneInv(p) /\ pc[p] = "rename"
  BY DEF IInv, Rename
<1> DEFINE from == OutFilename(Options(p))
           to   == LinkOutput(Options(p))
           c    == Content("object", text[p], Options(p).def, has_main[p])
<1>2. /\ UNCHANGED <<text, has_main, cmd, ran, result, version>>
      /\ Exit(p, 0)
      /\ \/ /\ fs' = IF from = to THEN fs ELSE [fs EXCEPT ![to] = fs[from], ![from] = Nothing]
            /\ UNCHANGED kept
         \/ kept' = [kept EXCEPT ![p] = TRUE] /\ UNCHANGED fs
  BY DEF Rename, toolvars
<1>3. /\ from \in Files /\ from \in Writes(p) /\ to \in Files /\ to \in Writes(p)
      /\ Compiles(cmd[p]) /\ ~Options(p).compile_only /\ ~has_main[p] /\ errorcnt[p] = 0
      /\ DOMAIN Nothing = Fields
      /\ Alone(p) => fs[from] = c
  BY <1>1, PathsAreFiles DEF ProcInv, Content, Nothing, Fields, Made
<1>4. /\ pc' = [pc EXCEPT ![p] = "exit"] /\ pc'[p] = "exit" /\ errorcnt'[p] = 0
      /\ errorcnt' \in [Procs -> 0..MaxErrors]
      /\ status' \in [Procs -> 0..(StatusMod - 1)]
      /\ \A q \in Procs \ {p} : /\ pc'[q] = pc[q] /\ errorcnt'[q] = errorcnt[q]
                                /\ status'[q] = status[q] /\ kept'[q] = kept[q]
      /\ DOMAIN kept' = DOMAIN kept
  BY <1>1, <1>2, ExitFields, MaxErrorsAssumption DEF ShapeInv
<1>5. /\ DOMAIN fs' = Files
      /\ \A g \in Files : DOMAIN fs'[g] = Fields
      /\ \A g \in Files : g \notin Writes(p) => fs'[g] = fs[g]
      /\ kept'[p] \/ (Alone(p) => fs'[to] = c)
  <2> HIDE DEF from, to, c
  <2>0. DOMAIN fs = Files /\ (\A g \in Files : DOMAIN fs[g] = Fields) /\ p \in DOMAIN kept
    BY <1>1 DEF TypeOK, ShapeInv
  <2>1. CASE kept' = [kept EXCEPT ![p] = TRUE] /\ UNCHANGED fs
    BY <2>0, <2>1
  <2>2. CASE from = to /\ fs' = fs
    BY <1>3, <2>0, <2>2
  <2>3. CASE from # to /\ fs' = [fs EXCEPT ![to] = fs[from], ![from] = Nothing]
    <3>1. /\ DOMAIN fs' = Files /\ fs'[to] = fs[from] /\ fs'[from] = Nothing
          /\ \A g \in Files \ {from, to} : fs'[g] = fs[g]
      BY <1>3, <2>0, <2>3
    <3> QED
      BY <1>3, <2>0, <3>1
  <2> QED
    BY <1>2, <2>1, <2>2, <2>3
<1>6. TypeOK'
  BY <1>1, <1>2, <1>4, <1>5 DEF TypeOK
<1>7. ShapeInv' /\ Frame(p)
  BY <1>1, <1>2, <1>4, <1>5 DEF ShapeInv, Frame
<1>8. /\ (Alone(p)' <=> Alone(p)) /\ Output(p)' = to /\ Made(p, Kind(p))' = c
      /\ Options(p)' = Options(p)
  BY <1>2, <1>3, SameCommands DEF Made, Kind, Output
<1>9. kept'[p] => NotLinked(p)'
  BY <1>2, <1>3, <1>8 DEF NotLinked
<1> HIDE DEF c, from, to
<1>10. NotLinked(p)' \/ (Alone(p)' => fs'[Output(p)'] = Made(p, Kind(p))')
  BY <1>5, <1>8, <1>9
<1>11. ProcInv(p)' /\ DoneInv(p)'
  BY <1>1, <1>2, <1>3, <1>4, <1>10 DEF ProcInv, DoneInv
<1> QED
  BY <1>6, <1>7, <1>11 DEF Effect

LEMMA KillStep ==
  ASSUME IInv, NEW p \in Procs, Kill(p)
  PROVE  Effect(p)
<1>1. TypeOK /\ ShapeInv /\ ProcInv(p) /\ DoneInv(p) /\ pc[p] \in Compiling
  BY DEF IInv, Kill
<1>2. UNCHANGED <<text, has_main, errorcnt, kept, cmd, ran, result, version>>
  BY DEF Kill, toolvars
<1> DEFINE f == LinkOutput(Options(p))
           d == [fs[OutFilename(Options(p))] EXCEPT !.kind = "program"]
<1>3. /\ f \in Files /\ f \in Writes(p) /\ DOMAIN d = Fields /\ DOMAIN fs = Files
  BY <1>1, PathsAreFiles DEF ShapeInv, TypeOK
<1>4. Abort(p) /\ (UNCHANGED fs \/ Write(f, d))
  BY DEF Kill
<1> HIDE DEF f, d
<1>5. /\ DOMAIN fs' = Files
      /\ \A g \in Files : DOMAIN fs'[g] = Fields
      /\ \A g \in Files : g \notin Writes(p) => fs'[g] = fs[g]
  BY <1>1, <1>3, <1>4, WriteFields DEF ShapeInv
<1>6. /\ pc' = [pc EXCEPT ![p] = "exit"] /\ pc'[p] = "exit"
      /\ status' \in [Procs -> 0..(StatusMod - 1)] /\ status'[p] = 1
      /\ \A q \in Procs \ {p} : pc'[q] = pc[q] /\ status'[q] = status[q]
  BY <1>1, <1>4, AbortFields
<1>7. TypeOK'
  BY <1>1, <1>2, <1>5, <1>6 DEF TypeOK
<1>8. ShapeInv' /\ Frame(p)
  BY <1>1, <1>2, <1>5, <1>6 DEF ShapeInv, Frame
<1>9. ProcInv(p)' /\ DoneInv(p)'
  BY <1>1, <1>2, <1>6 DEF ProcInv, DoneInv
<1> QED
  BY <1>7, <1>8, <1>9 DEF Effect

LEMMA CompilerExitsStep ==
  ASSUME IInv, NEW p \in Procs, CompilerExits(p)
  PROVE  Effect(p)
<1>1. TypeOK /\ ShapeInv /\ ProcInv(p) /\ DoneInv(p) /\ pc[p] = "exit"
  BY DEF IInv, CompilerExits
<1>2. UNCHANGED <<text, has_main, errorcnt, status, kept, cmd, ran, version, fs>>
  BY DEF CompilerExits, compvars
<1>3. /\ \/ pc'[p] = "run" /\ Runs(p) /\ status[p] = 0 /\ result' = result
         \/ /\ pc'[p] = "done" /\ result' = [result EXCEPT ![p] = status[p]]
            /\ ~Runs(p) \/ status[p] # 0
      /\ \A q \in Procs \ {p} : pc'[q] = pc[q] /\ result'[q] = result[q]
      /\ pc' \in [Procs -> {"start", "args", "init", "parse", "emit", "write", "link",
                            "rename", "exit", "run", "done"}]
      /\ result' \in [Procs -> 0..(StatusMod - 1)]
  BY <1>1 DEF CompilerExits, Goto, TypeOK
<1>4. /\ Options(p)' = Options(p) /\ (Alone(p)' <=> Alone(p)) /\ Output(p)' = Output(p)
      /\ (Runs(p)' <=> Runs(p)) /\ (NotLinked(p)' <=> NotLinked(p))
      /\ Made(p, Kind(p))' = Made(p, Kind(p))
  BY <1>2, SameCommands DEF NotLinked, Made, Kind
<1>5. TypeOK'
  BY <1>1, <1>2, <1>3 DEF TypeOK
<1>6. ShapeInv' /\ Frame(p)
  BY <1>1, <1>2, <1>3 DEF ShapeInv, Frame
<1>7. ProcInv(p)'
  BY <1>1, <1>2, <1>3, <1>4 DEF ProcInv
<1>8. DoneInv(p)'
  BY <1>1, <1>2, <1>3, <1>4 DEF DoneInv, ProcInv, TypeOK
<1> QED
  BY <1>5, <1>6, <1>7, <1>8 DEF Effect

-----------------------------------------------------------------------------
(* What dq-run takes for the name of the program is what dq-comp, given    *)
(* the same arguments, names it: the two parse them in their own way.      *)

(* The two literals are strings, which the provers do not know.            *)
Part == STRING \cup {"-o", "exe"}
Arg == Seq(Part)

Option == [in : Arg, explicit_output : Arg, has_dash_o : BOOLEAN, compile_only : BOOLEAN,
           print_version : BOOLEAN, def : BOOLEAN, value : BOOLEAN, errorcnt : {0, 1}]

RunOption == [in : Arg, output_filename : Arg, has_dash_o : BOOLEAN, value : BOOLEAN,
              program_mode : BOOLEAN, ok : BOOLEAN, compiler_args : Seq(Arg)]

LEMMA ParseArgType ==
  ASSUME NEW o \in Option, NEW arg \in Arg
  PROVE  ParseArg(o, arg) \in Option
BY DEF ParseArg, SecondArg, Option

(* What an argument does to the options, case by case.                     *)
LEMMA ParseArgCases ==
  ASSUME NEW o \in Option, NEW arg, o.errorcnt = 0
  PROVE  /\ o.value => ParseArg(o, arg) = [o EXCEPT !.explicit_output = arg, !.has_dash_o = TRUE,
                                                    !.value = FALSE]
         /\ ~o.value /\ arg = <<"-o">> => ParseArg(o, arg) = [o EXCEPT !.value = TRUE]
         /\ ~o.value /\ ~IsSwitch(arg) /\ o.in = <<>> => ParseArg(o, arg) = [o EXCEPT !.in = arg]
BY DEF ParseArg, IsSwitch, Switches

LEMMA ParseRunArgType ==
  ASSUME NEW o \in RunOption, NEW arg \in Arg
  PROVE  ParseRunArg(o, arg) \in RunOption
<1>1. Append(o.compiler_args, arg) \in Seq(Arg)
  BY DEF RunOption
<1> QED
  BY <1>1 DEF ParseRunArg, RunOption

LEMMA NoneType == NoOptions \in Option /\ NoRunOptions \in RunOption
<1>1. <<>> \in Arg /\ <<>> \in Seq(Arg)
  BY DEF Arg
<1> QED
  BY <1>1 DEF Option, RunOption, NoOptions, NoRunOptions

(* The states of each of the two parsers, one after the other.             *)
CompRun(st, s) == /\ st[0] = NoOptions
                  /\ \A i \in 1..Len(s) : st[i] = ParseArg(st[i-1], s[i])

RunRun(st, s) == /\ st[0] = NoRunOptions
                 /\ \A i \in 1..Len(s) : st[i] = ParseRunArg(st[i-1], s[i])

IsCompFold(g, s) ==
  g = [S \in SUBSET (DOMAIN s) |-> IF S = {} THEN NoOptions
                                   ELSE ParseArg(g[S \ {Max(S)}], s[Max(S)])]

(* Reading the compiler's command line is going through its arguments.     *)
LEMMA CompFold ==
  ASSUME NEW s \in Seq(Arg)
  PROVE  \E st : CompRun(st, s) /\ FoldLeft(ParseArg, NoOptions, s) = st[Len(s)]
<1> DEFINE N == Len(s)
           h == [x \in Option \X (1..N) |-> ParseArg(x[1], s[x[2]])]
<1>1. N \in Nat /\ DOMAIN s = 1..N /\ \A i \in 1..N : s[i] \in Arg
  OBVIOUS
<1>2. h \in [Option \X (1..N) -> Option]
  BY <1>1, ParseArgType
<1>3. PICK g \in [SUBSET (1..N) -> Option] : Folding(g, N, Option, NoOptions, h)
  <2> HIDE DEF h, N
  <2> QED
    BY <1>1, <1>2, NoneType, FoldExists
<1>4. IsCompFold(g, s)
  <2>1. ASSUME NEW S \in SUBSET (1..N), S # {}
        PROVE  g[S] = ParseArg(g[S \ {Max(S)}], s[Max(S)])
    <3>1. Max(S) \in 1..N /\ S \ {Max(S)} \in SUBSET (1..N)
      BY <1>1, <2>1, MaxOf
    <3>2. g[S] = h[<<g[S \ {Max(S)}], Max(S)>>]
      BY <1>3, <2>1 DEF Folding
    <3> QED
      BY <3>1, <3>2
  <2>2. g[{}] = NoOptions
    BY <1>3 DEF Folding
  <2> QED
    BY <1>1, <2>1, <2>2 DEF IsCompFold
<1> DEFINE c == CHOOSE f : IsCompFold(f, s)
<1>5. IsCompFold(c, s)
  BY <1>4, Zenon
<1>6. FoldLeft(ParseArg, NoOptions, s) = c[DOMAIN s]
  BY DEF FoldLeft, MapThenFoldSet, IsCompFold
<1> HIDE DEF c
<1> DEFINE st == [i \in 0..N |-> c[1..i]]
<1>50. /\ c[{}] = NoOptions
       /\ \A S \in SUBSET (DOMAIN s) : S # {} => c[S] = ParseArg(c[S \ {Max(S)}], s[Max(S)])
  BY <1>5 DEF IsCompFold
<1>7. st[0] = NoOptions
  <2>1. 1..0 = {} /\ {} \in SUBSET (DOMAIN s)
    OBVIOUS
  <2> QED
    BY <1>1, <1>50, <2>1
<1>8. ASSUME NEW i \in 1..N
      PROVE  st[i] = ParseArg(st[i-1], s[i])
  <2>1. /\ 1..i \in SUBSET (DOMAIN s) /\ 1..i # {} /\ Max(1..i) = i
        /\ (1..i) \ {i} = 1..(i-1) /\ i-1 \in 0..N
    BY <1>1, MaxOfInterval
  <2>2. c[1..i] = ParseArg(c[(1..i) \ {Max(1..i)}], s[Max(1..i)])
    BY <1>50, <2>1, Zenon
  <2>3. c[1..i] = ParseArg(c[1..(i-1)], s[i])
    BY <2>1, <2>2
  <2>4. st[i] = c[1..i] /\ st[i-1] = c[1..(i-1)]
    BY <1>1, <2>1
  <2> QED
    BY <2>3, <2>4
<1>9. FoldLeft(ParseArg, NoOptions, s) = st[N]
  BY <1>1, <1>6
<1>10. CompRun(st, s)
  <2> HIDE DEF st
  <2> QED
    BY <1>7, <1>8 DEF CompRun
<1> HIDE DEF st
<1> QED
  BY <1>9, <1>10

IsRunFold(g, s) ==
  g = [S \in SUBSET (DOMAIN s) |-> IF S = {} THEN NoRunOptions
                                   ELSE ParseRunArg(g[S \ {Max(S)}], s[Max(S)])]

(* So is reading that of dq-run.                                           *)
LEMMA RunFold ==
  ASSUME NEW s \in Seq(Arg)
  PROVE  \E st : RunRun(st, s) /\ FoldLeft(ParseRunArg, NoRunOptions, s) = st[Len(s)]
<1> DEFINE N == Len(s)
           h == [x \in RunOption \X (1..N) |-> ParseRunArg(x[1], s[x[2]])]
<1>1. N \in Nat /\ DOMAIN s = 1..N /\ \A i \in 1..N : s[i] \in Arg
  OBVIOUS
<1>2. h \in [RunOption \X (1..N) -> RunOption]
  BY <1>1, ParseRunArgType
<1>3. PICK g \in [SUBSET (1..N) -> RunOption] : Folding(g, N, RunOption, NoRunOptions, h)
  <2> HIDE DEF h, N
  <2> QED
    BY <1>1, <1>2, NoneType, FoldExists
<1>4. IsRunFold(g, s)
  <2>1. ASSUME NEW S \in SUBSET (1..N), S # {}
        PROVE  g[S] = ParseRunArg(g[S \ {Max(S)}], s[Max(S)])
    <3>1. Max(S) \in 1..N /\ S \ {Max(S)} \in SUBSET (1..N)
      BY <1>1, <2>1, MaxOf
    <3>2. g[S] = h[<<g[S \ {Max(S)}], Max(S)>>]
      BY <1>3, <2>1 DEF Folding
    <3> QED
      BY <3>1, <3>2
  <2>2. g[{}] = NoRunOptions
    BY <1>3 DEF Folding
  <2> QED
    BY <1>1, <2>1, <2>2 DEF IsRunFold
<1> DEFINE c == CHOOSE f : IsRunFold(f, s)
<1>5. IsRunFold(c, s)
  BY <1>4, Zenon
<1>6. FoldLeft(ParseRunArg, NoRunOptions, s) = c[DOMAIN s]
  BY DEF FoldLeft, MapThenFoldSet, IsRunFold
<1> HIDE DEF c
<1> DEFINE st == [i \in 0..N |-> c[1..i]]
<1>50. /\ c[{}] = NoRunOptions
       /\ \A S \in SUBSET (DOMAIN s) : S # {} => c[S] = ParseRunArg(c[S \ {Max(S)}], s[Max(S)])
  BY <1>5 DEF IsRunFold
<1>7. st[0] = NoRunOptions
  <2>1. 1..0 = {} /\ {} \in SUBSET (DOMAIN s)
    OBVIOUS
  <2> QED
    BY <1>1, <1>50, <2>1
<1>8. ASSUME NEW i \in 1..N
      PROVE  st[i] = ParseRunArg(st[i-1], s[i])
  <2>1. /\ 1..i \in SUBSET (DOMAIN s) /\ 1..i # {} /\ Max(1..i) = i
        /\ (1..i) \ {i} = 1..(i-1) /\ i-1 \in 0..N
    BY <1>1, MaxOfInterval
  <2>2. c[1..i] = ParseRunArg(c[(1..i) \ {Max(1..i)}], s[Max(1..i)])
    BY <1>50, <2>1, Zenon
  <2>3. c[1..i] = ParseRunArg(c[1..(i-1)], s[i])
    BY <2>1, <2>2
  <2>4. st[i] = c[1..i] /\ st[i-1] = c[1..(i-1)]
    BY <1>1, <2>1
  <2> QED
    BY <2>3, <2>4
<1>9. FoldLeft(ParseRunArg, NoRunOptions, s) = st[N]
  BY <1>1, <1>6
<1>10. RunRun(st, s)
  <2> HIDE DEF st
  <2> QED
    BY <1>7, <1>8 DEF RunRun
<1> HIDE DEF st
<1> QED
  BY <1>9, <1>10

(* The two parsers agree on what dq-run gives to dq-comp, unless dq-comp   *)
(* finds an error in it.                                                   *)
Agree(r, o) ==
  /\ r.in # <<>> => ~r.value
  /\ o.errorcnt = 0 => /\ o.value <=> r.value
                       /\ o.has_dash_o <=> r.has_dash_o
                       /\ o.explicit_output = r.output_filename
                       /\ o.in = r.in
                       /\ ~o.compile_only

LEMMA AgreeStep ==
  ASSUME NEW r \in RunOption, NEW o \in Option, NEW arg \in Arg, Agree(r, o)
  PROVE  LET r1 == ParseRunArg(r, arg)
         IN  \/ /\ r1.compiler_args = r.compiler_args
                /\ r1.in # <<>> \/ r1.program_mode \/ ~r1.ok
                /\ Agree(r1, o)
             \/ /\ r.in = <<>> /\ ~r.program_mode /\ r.ok
                /\ r1.compiler_args = Append(r.compiler_args, arg)
                /\ Agree(r1, ParseArg(o, arg))
<1> DEFINE r1 == ParseRunArg(r, arg)
           o1 == ParseArg(o, arg)
<1>0. o.errorcnt # 0 => o1.errorcnt # 0
  <2>1. o.errorcnt # 0 => o.errorcnt > 0
    BY DEF Option
  <2> QED
    BY <2>1 DEF ParseArg
<1>1. CASE ~r.ok \/ r.program_mode
  BY <1>1 DEF ParseRunArg
<1>2. CASE r.ok /\ ~r.program_mode /\ r.value
  <2>1. r1 = [r EXCEPT !.output_filename = arg, !.has_dash_o = TRUE, !.value = FALSE,
                       !.compiler_args = Append(@, arg)]
    BY <1>2 DEF ParseRunArg
  <2>2. r.in = <<>>
    BY <1>2 DEF Agree
  <2>3. /\ r1.in = <<>> /\ ~r1.value /\ r1.has_dash_o /\ r1.output_filename = arg
        /\ r1.compiler_args = Append(r.compiler_args, arg)
    BY <2>1, <2>2 DEF RunOption
  <2>4. ASSUME o.errorcnt = 0
        PROVE  /\ ~o1.value /\ o1.has_dash_o /\ o1.explicit_output = arg
               /\ o1.in = <<>> /\ ~o1.compile_only
    <3>1. o.value /\ o.in = <<>> /\ ~o.compile_only
      BY <1>2, <2>2, <2>4 DEF Agree
    <3>2. o1 = [o EXCEPT !.explicit_output = arg, !.has_dash_o = TRUE, !.value = FALSE]
      <4>1. ~(o.errorcnt > 0)
        BY <2>4
      <4> QED
        BY <3>1, <4>1, Zenon DEF ParseArg
    <3> QED
      BY <3>1, <3>2 DEF Option
  <2> HIDE DEF r1, o1
  <2>5. Agree(r1, o1)
    BY <1>0, <2>3, <2>4 DEF Agree
  <2> QED
    BY <1>2, <2>2, <2>3, <2>5 DEF r1, o1
<1>3. CASE r.ok /\ ~r.program_mode /\ ~r.value /\ arg = <<"--">>
  <2>1. r1 = [r EXCEPT !.program_mode = TRUE]
    BY <1>3 DEF ParseRunArg
  <2> QED
    BY <2>1 DEF Agree, RunOption
<1>4. CASE r.ok /\ ~r.program_mode /\ ~r.value /\ arg # <<"--">> /\ r.in # <<>>
  BY <1>4 DEF ParseRunArg
<1>5. CASE r.ok /\ ~r.program_mode /\ ~r.value /\ arg # <<"--">> /\ r.in = <<>> /\ arg = <<"-c">>
  <2>1. r1 = [r EXCEPT !.ok = FALSE]
    BY <1>5 DEF ParseRunArg
  <2> QED
    BY <2>1 DEF Agree, RunOption
<1>6. CASE r.ok /\ ~r.program_mode /\ ~r.value /\ arg # <<"--">> /\ r.in = <<>> /\ arg # <<"-c">>
  <2>1. r1 = [r EXCEPT !.compiler_args = Append(@, arg), !.value = (arg = <<"-o">>),
                       !.in = IF IsSwitch(arg) THEN @ ELSE arg]
    BY <1>6 DEF ParseRunArg
  <2>2. /\ r1.compiler_args = Append(r.compiler_args, arg)
        /\ r1.value <=> arg = <<"-o">>
        /\ r1.in = IF IsSwitch(arg) THEN <<>> ELSE arg
        /\ r1.has_dash_o = r.has_dash_o /\ r1.output_filename = r.output_filename
    BY <1>6, <2>1 DEF RunOption
  <2>3. r1.in # <<>> => ~r1.value
    BY <2>2 DEF IsSwitch, Switches
  <2>4. ASSUME o.errorcnt = 0
        PROVE  o1.errorcnt = 0 => /\ o1.value <=> arg = <<"-o">>
                                  /\ o1.has_dash_o = o.has_dash_o
                                  /\ o1.explicit_output = o.explicit_output
                                  /\ o1.in = IF IsSwitch(arg) THEN <<>> ELSE arg
                                  /\ ~o1.compile_only
    <3>1. ~o.value /\ o.in = <<>> /\ ~o.compile_only
      BY <1>6, <2>4 DEF Agree
    <3>2. CASE arg = <<"-o">>
      <4>1. o1 = [o EXCEPT !.value = TRUE]
        BY <2>4, <3>1, <3>2 DEF ParseArg
      <4> QED
        BY <3>1, <3>2, <4>1 DEF Option, IsSwitch, Switches
    <3>3. CASE arg = <<"-D">>
      <4>1. o1 = [o EXCEPT !.def = TRUE]
        BY <2>4, <3>1, <3>3 DEF ParseArg
      <4> QED
        BY <3>1, <3>3, <4>1 DEF Option, IsSwitch, Switches
    <3>4. CASE arg = <<"--version">>
      <4>1. o1 = [o EXCEPT !.print_version = TRUE]
        BY <2>4, <3>1, <3>4 DEF ParseArg
      <4> QED
        BY <3>1, <3>4, <4>1 DEF Option, IsSwitch, Switches
    <3>5. CASE arg \in {<<"-D0">>, <<"-?">>, <<"--">>}
      <4>1. o1 = [o EXCEPT !.errorcnt = 1]
        BY <2>4, <3>1, <3>5 DEF ParseArg
      <4> QED
        BY <4>1 DEF Option
    <3>6. CASE arg = <<"-g">>
      <4>1. o1 = o
        BY <2>4, <3>1, <3>6 DEF ParseArg
      <4> QED
        BY <3>1, <3>6, <4>1 DEF IsSwitch, Switches
    <3>7. CASE ~IsSwitch(arg)
      <4>1. o1 = [o EXCEPT !.in = arg]
        BY <2>4, <3>1, <3>7 DEF ParseArg, IsSwitch, Switches
      <4> QED
        BY <3>1, <3>7, <4>1 DEF Option, IsSwitch, Switches
    <3> QED
      BY <1>6, <3>2, <3>3, <3>4, <3>5, <3>6, <3>7 DEF IsSwitch, Switches
  <2> HIDE DEF r1, o1
  <2>5. Agree(r1, o1)
    BY <1>0, <2>2, <2>3, <2>4 DEF Agree
  <2> QED
    BY <1>6, <2>2, <2>5 DEF r1, o1
<1> QED
  BY <1>1, <1>2, <1>3, <1>4, <1>5, <1>6

(* Step by step; what dq-run has taken is the first of its arguments.      *)
LEMMA AgreeAlways ==
  ASSUME NEW args \in Seq(Arg), NEW r, RunRun(r, args), NEW o, CompRun(o, args),
         NEW n \in 0..Len(args)
  PROVE  /\ o[n] \in Option
         /\ r[n] \in RunOption
         /\ LET k == Len(r[n].compiler_args)
            IN  /\ k =< n
                /\ k = n \/ r[n].in # <<>> \/ r[n].program_mode \/ ~r[n].ok
                /\ \A i \in 1..k : r[n].compiler_args[i] = args[i]
                /\ Agree(r[n], o[k])
<1> DEFINE k(i) == Len(r[i].compiler_args)
           Good(i) == /\ o[i] \in Option
                      /\ r[i] \in RunOption
                      /\ k(i) =< i
                      /\ k(i) = i \/ r[i].in # <<>> \/ r[i].program_mode \/ ~r[i].ok
                      /\ \A j \in 1..k(i) : r[i].compiler_args[j] = args[j]
                      /\ Agree(r[i], o[k(i)])
           Bad == {i \in 0..Len(args) : \E j \in 0..i : ~Good(j)}
<1>1. Good(0)
  <2>1. r[0] = NoRunOptions /\ o[0] = NoOptions
    BY DEF RunRun, CompRun
  <2>2. k(0) = 0
    BY <2>1 DEF NoRunOptions
  <2>3. Agree(NoRunOptions, NoOptions)
    BY DEF Agree, NoRunOptions, NoOptions
  <2> QED
    BY <2>1, <2>2, <2>3, NoneType
<1>2. ASSUME NEW i \in 1..Len(args), \A j \in 0..(i-1) : Good(j)
      PROVE  Good(i)
  <2>1. Good(i-1) /\ i-1 \in 0..Len(args) /\ args[i] \in Arg
    BY <1>2
  <2>2. r[i] = ParseRunArg(r[i-1], args[i]) /\ o[i] = ParseArg(o[i-1], args[i])
    BY DEF RunRun, CompRun
  <2>3. o[i] \in Option /\ r[i] \in RunOption
    BY <2>1, <2>2, ParseArgType, ParseRunArgType
  <2>4. /\ r[i-1].compiler_args \in Seq(Arg) /\ r[i].compiler_args \in Seq(Arg)
        /\ k(i-1) \in Nat /\ k(i) \in Nat
    BY <2>1, <2>3 DEF RunOption
  <2>5. o[k(i-1)] \in Option
    BY <1>2, <2>1, <2>4
  <2> HIDE DEF Good
  <2>6. Agree(r[i-1], o[k(i-1)]) /\ r[i-1] \in RunOption
    BY <2>1 DEF Good
  <2>7. \/ /\ r[i].compiler_args = r[i-1].compiler_args
           /\ r[i].in # <<>> \/ r[i].program_mode \/ ~r[i].ok
           /\ Agree(r[i], o[k(i-1)])
        \/ /\ r[i-1].in = <<>> /\ ~r[i-1].program_mode /\ r[i-1].ok
           /\ r[i].compiler_args = Append(r[i-1].compiler_args, args[i])
           /\ Agree(r[i], ParseArg(o[k(i-1)], args[i]))
    BY <2>1, <2>2, <2>5, <2>6, AgreeStep
  <2>8. CASE /\ r[i].compiler_args = r[i-1].compiler_args
             /\ r[i].in # <<>> \/ r[i].program_mode \/ ~r[i].ok
             /\ Agree(r[i], o[k(i-1)])
    BY <2>1, <2>3, <2>4, <2>8 DEF Good
  <2>9. CASE /\ r[i-1].in = <<>> /\ ~r[i-1].program_mode /\ r[i-1].ok
             /\ r[i].compiler_args = Append(r[i-1].compiler_args, args[i])
             /\ Agree(r[i], ParseArg(o[k(i-1)], args[i]))
    <3>1. k(i-1) = i-1 /\ \A j \in 1..k(i-1) : r[i-1].compiler_args[j] = args[j]
      BY <2>1, <2>9 DEF Good
    <3>2. k(i) = i /\ \A j \in 1..i : r[i].compiler_args[j] = args[j]
      BY <2>1, <2>4, <2>9, <3>1
    <3>3. Agree(r[i], o[i])
      BY <2>2, <2>9, <3>1
    <3> QED
      BY <2>3, <3>2, <3>3 DEF Good
  <2> QED
    BY <2>7, <2>8, <2>9
<1>3. Bad = {}
  <2> HIDE DEF Good
  <2>1. SUFFICES ASSUME Bad # {} PROVE FALSE
    OBVIOUS
  <2> DEFINE m == Min(Bad)
  <2>2. m \in Bad /\ \A x \in Bad : m =< x
    <3>1. Bad \in SUBSET Nat
      OBVIOUS
    <3> HIDE DEF Bad
    <3> QED
      BY <2>1, <3>1, MinOf
  <2>3. PICK j \in 0..m : ~Good(j)
    BY <2>2
  <2>4. m \in 1..Len(args) /\ m-1 \notin Bad /\ m-1 \in 0..Len(args)
    BY <1>1, <2>2, <2>3
  <2>5. \A i \in 0..(m-1) : Good(i)
    BY <2>4
  <2> HIDE DEF m, Bad
  <2> QED
    BY <1>2, <2>3, <2>4, <2>5
<1>4. Good(n)
  <2> HIDE DEF Good
  <2> QED
    BY <1>3
<1> QED
  BY <1>4

(* Two readings of arguments that begin alike agree on the beginning.      *)
LEMMA RunsAgree ==
  ASSUME NEW s \in Seq(Arg), NEW args \in Seq(Arg), Len(s) =< Len(args),
         \A i \in 1..Len(s) : s[i] = args[i],
         NEW u, CompRun(u, s), NEW o, CompRun(o, args)
  PROVE  u[Len(s)] = o[Len(s)]
<1> DEFINE Bad == {i \in 0..Len(s) : u[i] # o[i]}
<1>1. Bad = {}
  <2>1. SUFFICES ASSUME Bad # {} PROVE FALSE
    OBVIOUS
  <2> DEFINE m == Min(Bad)
  <2>2. m \in Bad /\ \A x \in Bad : m =< x
    <3>1. Bad \in SUBSET Nat
      OBVIOUS
    <3> HIDE DEF Bad
    <3> QED
      BY <2>1, <3>1, MinOf
  <2>3. m # 0
    BY <2>2 DEF CompRun
  <2>4. m \in 1..Len(s) /\ m \in 1..Len(args) /\ m-1 \in 0..Len(s) /\ m-1 \notin Bad
    BY <2>2, <2>3
  <2>5. u[m-1] = o[m-1] /\ u[m] # o[m]
    BY <2>2, <2>4
  <2> HIDE DEF m, Bad
  <2> QED
    BY <2>4, <2>5 DEF CompRun
<1> QED
  BY <1>1

(* The program that is started has the name of the one that is linked.     *)
LEMMA SameOutput ==
  ASSUME NEW c \in Commands, Compiles(c), c.tool # "dq-comp",
         c.tool = "dq-run" => ParseArgs(c.args).ok
  PROVE  RunFilename(c) = LinkOutput(OptionsOf(c)) /\ ~OptionsOf(c).compile_only
<1> DEFINE s == CompilerArgs(c)
<1>0. c.args \in Seq(Arg)
  <2>1. c.args \in Seq(Seq(STRING))
    BY CommandsAssumption
  <2>2. \A a \in Seq(STRING) : a \in Arg
    BY DEF Arg, Part
  <2> QED
    BY <2>1, <2>2
<1>1. ASSUME s \in Seq(Arg), NEW u, CompRun(u, s), FoldLeft(ParseArg, NoOptions, s) = u[Len(s)]
      PROVE  OptionsOf(c) = u[Len(s)] /\ u[Len(s)].errorcnt = 0
  <2>1. OptionsOf(c) = u[Len(s)] \/ OptionsOf(c) = [u[Len(s)] EXCEPT !.errorcnt = 1]
    BY <1>1 DEF OptionsOf, ParseCmdLineArgs
  <2>2. OptionsOf(c).errorcnt = 0
    BY DEF Compiles
  <2>3. u[Len(s)] \in Option
    <3>1. PICK r : RunRun(r, s)
      BY <1>1, RunFold
    <3>2. Len(s) \in 0..Len(s)
      BY <1>1
    <3> QED
      BY <1>1, <3>1, <3>2, AgreeAlways
  <2> DEFINE e == [u[Len(s)] EXCEPT !.errorcnt = 1]
  <2>4. e.errorcnt = 1 /\ (OptionsOf(c) = u[Len(s)] \/ OptionsOf(c) = e)
    BY <2>1, <2>3 DEF Option
  <2> HIDE DEF e, s
  <2>5. OptionsOf(c) = u[Len(s)]
    BY <2>2, <2>4
  <2> QED
    BY <2>2, <2>5
<1>2. CASE c.tool = "dq-run"
  <2>1. PICK r : RunRun(r, c.args) /\ FoldLeft(ParseRunArg, NoRunOptions, c.args) = r[Len(c.args)]
    BY <1>0, RunFold
  <2>2. PICK o : CompRun(o, c.args)
    BY <1>0, CompFold
  <2> DEFINE n == Len(c.args)
             last == r[n]
             k == Len(last.compiler_args)
  <2>3. /\ last \in RunOption /\ k =< n
        /\ \A i \in 1..k : last.compiler_args[i] = c.args[i]
        /\ Agree(last, o[k])
    <3>1. n \in 0..Len(c.args)
      BY <1>0
    <3> QED
      BY <1>0, <2>1, <2>2, <3>1, AgreeAlways
  <2>4. s = last.compiler_args /\ s \in Seq(Arg)
    BY <1>2, <2>1, <2>3 DEF CompilerArgs, ParseArgs, RunOption
  <2>5. PICK u : CompRun(u, s) /\ FoldLeft(ParseArg, NoOptions, s) = u[Len(s)]
    BY <2>4, CompFold
  <2>6. u[k] = o[k]
    BY <1>0, <2>2, <2>3, <2>4, <2>5, RunsAgree
  <2>7. OptionsOf(c) = o[k] /\ o[k].errorcnt = 0
    BY <1>1, <2>4, <2>5, <2>6
  <2>8. /\ OptionsOf(c).has_dash_o <=> last.has_dash_o
        /\ OptionsOf(c).explicit_output = last.output_filename
        /\ OptionsOf(c).in = last.in
        /\ ~OptionsOf(c).compile_only
    BY <2>3, <2>7 DEF Agree
  <2>9. RunFilename(c) = IF last.has_dash_o THEN last.output_filename ELSE BaseName(last.in)
    BY <1>2, <2>1, <2>3 DEF RunFilename, ParseArgs, RunOption
  <2> QED
    BY <2>8, <2>9 DEF LinkOutput
<1>3. CASE c.tool = "atrunner"
  <2> DEFINE f == c.args[1]
             exe == ExeName(f)
  <2>1. s = <<f, <<"-o">>, exe>> /\ f \in Arg /\ f # <<>> /\ ~IsSwitch(f) /\ RunFilename(c) = exe
    BY <1>0, <1>3, CommandsAssumption DEF CompilerArgs, RunFilename
  <2>2. exe \in Arg
    <3>1. f \in Seq(Part) /\ "exe" \in Part
      BY <2>1 DEF Arg, Part
    <3> HIDE DEF f
    <3>2. Len(f) > 1 => Front(f) \in Seq(Part)
      BY <3>1 DEF Front
    <3> QED
      BY <3>1, <3>2 DEF ExeName, Arg
  <2>3. s \in Seq(Arg) /\ Len(s) = 3
    <3>1. <<"-o">> \in Arg
      <4>1. "-o" \in Part
        BY DEF Part
      <4> QED
        BY <4>1 DEF Arg
    <3> HIDE DEF f, exe
    <3> QED
      BY <2>1, <2>2, <3>1
  <2>4. PICK u : CompRun(u, s) /\ FoldLeft(ParseArg, NoOptions, s) = u[Len(s)]
    BY <2>3, CompFold
  <2>5. u[0] = NoOptions /\ u[1] = ParseArg(u[0], f) /\ u[2] = ParseArg(u[1], <<"-o">>)
        /\ u[3] = ParseArg(u[2], exe)
    BY <2>1, <2>3, <2>4 DEF CompRun
  <2> HIDE DEF f, exe, s
  <2>6. /\ u[1] \in Option /\ u[1].errorcnt = 0 /\ ~u[1].value /\ u[1].in = f
        /\ ~u[1].compile_only
    <3>1. /\ NoOptions.errorcnt = 0 /\ ~NoOptions.value /\ NoOptions.in = <<>>
          /\ ~NoOptions.compile_only /\ NoOptions \in Option
      BY NoneType DEF NoOptions
    <3>2. u[1] = [u[0] EXCEPT !.in = f]
      BY <2>1, <2>5, <3>1, ParseArgCases
    <3> QED
      BY <2>1, <2>5, <3>1, <3>2 DEF Option
  <2>7. u[2] \in Option /\ u[2].errorcnt = 0 /\ u[2].value /\ ~u[2].compile_only
    <3>1. u[2] = [u[1] EXCEPT !.value = TRUE]
      BY <2>5, <2>6, ParseArgCases
    <3> QED
      BY <2>6, <3>1 DEF Option
  <2>8. u[3].has_dash_o /\ u[3].explicit_output = exe /\ ~u[3].compile_only
    <3>1. u[3] = [u[2] EXCEPT !.explicit_output = exe, !.has_dash_o = TRUE, !.value = FALSE]
      BY <2>5, <2>7, ParseArgCases
    <3> QED
      BY <2>7, <3>1 DEF Option
  <2>9. OptionsOf(c) = u[3]
    BY <1>1, <2>3, <2>4 DEF s
  <2> QED
    BY <2>1, <2>8, <2>9 DEF LinkOutput
<1> QED
  BY <1>2, <1>3, CommandsAssumption

-----------------------------------------------------------------------------
(* The remaining steps                                                     *)

LEMMA RunProgramStep ==
  ASSUME IInv, NEW p \in Procs, RunProgram(p)
  PROVE  Effect(p)
<1>1. TypeOK /\ ShapeInv /\ ProcInv(p) /\ DoneInv(p) /\ pc[p] = "run" /\ cmd[p] \in Commands
  BY DEF IInv, RunProgram, TypeOK
<1>2. UNCHANGED <<text, has_main, errorcnt, status, kept, cmd, version, fs>>
  BY DEF RunProgram, compvars
<1> DEFINE f == fs[RunFilename(cmd[p])]
<1>3. /\ pc'[p] = "done"
      /\ \/ ran' = ran /\ result'[p] = 1
         \/ ran'[p] = f /\ f.kind = "program"
      /\ \A q \in Procs \ {p} : pc'[q] = pc[q] /\ result'[q] = result[q] /\ ran'[q] = ran[q]
      /\ DOMAIN ran' = DOMAIN ran
      /\ pc' \in [Procs -> {"start", "args", "init", "parse", "emit", "write", "link",
                            "rename", "exit", "run", "done"}]
      /\ result' \in [Procs -> 0..(StatusMod - 1)]
  BY <1>1, StatusAssumption DEF RunProgram, RunFails, Goto, TypeOK, ShapeInv
<1>4. /\ Options(p)' = Options(p) /\ (Alone(p)' <=> Alone(p)) /\ (Runs(p)' <=> Runs(p))
      /\ (NotLinked(p)' <=> NotLinked(p))
  BY <1>2, SameCommands DEF NotLinked
<1>5. TypeOK'
  BY <1>1, <1>2, <1>3 DEF TypeOK
<1>6. ShapeInv' /\ Frame(p)
  BY <1>1, <1>2, <1>3 DEF ShapeInv, Frame
<1>7. ProcInv(p)'
  BY <1>1, <1>2, <1>3, <1>4 DEF ProcInv
<1>8. Alone(p) /\ ~NotLinked(p) => f.text = text[p] /\ f.def = Options(p).def
  <2>1. SUFFICES ASSUME Alone(p), ~NotLinked(p)
                 PROVE  f.text = text[p] /\ f.def = Options(p).def
    OBVIOUS
  <2>2. Compiles(cmd[p]) /\ Runs(p) /\ fs[Output(p)] = Made(p, Kind(p))
    BY <1>1, <2>1 DEF ProcInv
  <2>3. cmd[p].tool = "dq-run" => ParseArgs(cmd[p].args).ok
    BY <1>1 DEF ProcInv
  <2>4. RunFilename(cmd[p]) = LinkOutput(Options(p)) /\ ~Options(p).compile_only
    BY <1>1, <2>2, <2>3, SameOutput DEF Options, Runs
  <2>5. f = Made(p, Kind(p))
    BY <2>2, <2>4 DEF Output
  <2> HIDE DEF f
  <2> QED
    BY <2>5 DEF Made, Content
<1>9. DoneInv(p)'
  <2> HIDE DEF f
  <2> QED
    BY <1>1, <1>2, <1>3, <1>4, <1>8 DEF DoneInv, ProcInv
<1> QED
  BY <1>5, <1>6, <1>7, <1>9 DEF Effect

(* An invocation that is alone with its files is not disturbed.            *)
LEMMA OthersStep ==
  ASSUME IInv, NEW p \in Procs, Frame(p), NEW q \in Procs \ {p}
  PROVE  ProcInv(q)' /\ DoneInv(q)'
<1>1. ProcInv(q) /\ DoneInv(q) /\ TypeOK /\ cmd[q] \in Commands
  BY DEF IInv, TypeOK
<1>2. /\ cmd' = cmd
      /\ pc'[q] = pc[q] /\ text'[q] = text[q] /\ has_main'[q] = has_main[q]
      /\ errorcnt'[q] = errorcnt[q] /\ status'[q] = status[q] /\ kept'[q] = kept[q]
      /\ ran'[q] = ran[q] /\ result'[q] = result[q]
  BY DEF Frame
<1>3. /\ Options(q)' = Options(q) /\ (Alone(q)' <=> Alone(q)) /\ (Runs(q)' <=> Runs(q))
      /\ Output(q)' = Output(q)
      /\ (NotLinked(q)' <=> NotLinked(q))
      /\ Made(q, "object")' = Made(q, "object") /\ Made(q, Kind(q))' = Made(q, Kind(q))
  BY <1>2, SameCommands DEF NotLinked, Made, Kind
<1>4. ASSUME Alone(q), Compiles(cmd[q])
      PROVE  /\ fs'[OutFilename(Options(q))] = fs[OutFilename(Options(q))]
             /\ fs'[Output(q)] = fs[Output(q)]
  <2>1. OutFilename(Options(q)) \in Files /\ LinkOutput(Options(q)) \in Files
    BY <1>1, <1>4, CommandsAssumption DEF Options
  <2>2. Writes(q) \cap Writes(p) = {}
    BY <1>4 DEF Alone, Apart
  <2>3. OutFilename(Options(q)) \notin Writes(p) /\ LinkOutput(Options(q)) \notin Writes(p)
    BY <2>2 DEF Writes
  <2> QED
    BY <2>1, <2>3 DEF Frame, Output
<1>5. ProcInv(q)'
  BY <1>1, <1>2, <1>3, <1>4 DEF ProcInv
<1>6. DoneInv(q)'
  BY <1>1, <1>2, <1>3 DEF DoneInv
<1> QED
  BY <1>5, <1>6

LEMMA StepKeeps ==
  ASSUME IInv, NEW p \in Procs, Step(p)
  PROVE  IInv' /\ Frame(p)
<1>1. Effect(p)
  BY StartToolStep, CompilerNotRunStep, StartCompilerStep, ScfInitStep, ParseModuleStep,
     OpenObjectStep, WriteObjectStep, LinkStep, RenameStep, KillStep, CompilerExitsStep,
     RunProgramStep DEF Step
<1> QED
  BY <1>1, OthersStep DEF Effect, IInv

(* An edit changes what a source holds, and no output is a source.         *)
LEMMA EditStep ==
  ASSUME IInv, Edit
  PROVE  IInv'
<1>1. PICK f \in Sources :
        /\ fs[f].kind = "source"
        /\ fs' = [fs EXCEPT ![f] = [fs[f] EXCEPT !.text.version = version']]
  BY DEF Edit, Write
<1>2. UNCHANGED <<text, has_main, errorcnt, status, kept, cmd, pc, ran, result>>
  BY DEF Edit, compvars
<1>3. TypeOK /\ ShapeInv /\ f \in Files
  BY SourcesAssumption DEF IInv
<1>4. /\ DOMAIN fs' = Files
      /\ \A g \in Files : DOMAIN fs'[g] = Fields
      /\ \A g \in Files : fs[g].kind # "source" => fs'[g] = fs[g]
  BY <1>1, <1>3 DEF TypeOK, ShapeInv
<1>5. TypeOK' /\ ShapeInv'
  BY <1>2, <1>3, <1>4 DEF TypeOK, ShapeInv
<1>6. ASSUME NEW p \in Procs
      PROVE  ProcInv(p)' /\ DoneInv(p)'
  <2>1. ProcInv(p) /\ DoneInv(p) /\ cmd[p] \in Commands
    BY <1>3 DEF IInv, TypeOK
  <2>2. /\ Options(p)' = Options(p) /\ (Alone(p)' <=> Alone(p)) /\ (Runs(p)' <=> Runs(p))
        /\ Output(p)' = Output(p)
        /\ (NotLinked(p)' <=> NotLinked(p))
        /\ Made(p, "object")' = Made(p, "object") /\ Made(p, Kind(p))' = Made(p, Kind(p))
    BY <1>2, SameCommands DEF NotLinked, Made, Kind
  <2>3. Made(p, "object").kind # "source" /\ Made(p, Kind(p)).kind # "source"
    BY DEF Made, Kind, Content
  <2>4. Compiles(cmd[p]) => OutFilename(Options(p)) \in Files /\ Output(p) \in Files
    BY <2>1, CommandsAssumption DEF Options, Output
  <2>5. ProcInv(p)'
    BY <1>2, <1>4, <2>1, <2>2, <2>3, <2>4 DEF ProcInv
  <2>6. DoneInv(p)'
    BY <1>2, <2>1, <2>2 DEF DoneInv
  <2> QED
    BY <2>5, <2>6
<1> QED
  BY <1>5, <1>6 DEF IInv

LEMMA InitIInv == Init => IInv
<1> SUFFICES ASSUME Init PROVE IInv
  OBVIOUS
<1>1. /\ \A p \in Procs : /\ pc[p] = "start" /\ errorcnt[p] = 0 /\ ran[p] = Nothing
      /\ DOMAIN fs = Files
      /\ \A f \in Files : \/ fs[f] = Content("source", [path |-> f, version |-> 1], FALSE, FALSE)
                          \/ fs[f] = Content("program", NoText, FALSE, TRUE)
                          \/ fs[f] = Nothing
  BY DEF Init
<1>2. \A f \in Files : DOMAIN fs[f] = Fields
  BY <1>1 DEF Content, Nothing, Fields
<1>3. TypeOK
  BY <1>1, StatusAssumption, MaxErrorsAssumption DEF Init, TypeOK
<1>4. ShapeInv
  BY <1>2 DEF Init, ShapeInv
<1>5. \A p \in Procs : ProcInv(p) /\ DoneInv(p)
  BY <1>1 DEF ProcInv, DoneInv
<1> QED
  BY <1>3, <1>4, <1>5 DEF IInv

LEMMA NextIInv == IInv /\ [Next]_vars => IInv'
<1> SUFFICES ASSUME IInv, [Next]_vars PROVE IInv'
  OBVIOUS
<1>1. CASE Edit
  BY <1>1, EditStep
<1>2. CASE \E p \in Procs : Step(p)
  BY <1>2, StepKeeps
<1>3. CASE UNCHANGED vars
  <2>1. /\ TypeOK' <=> TypeOK
        /\ ShapeInv' <=> ShapeInv
    BY <1>3 DEF vars, TypeOK, ShapeInv
  <2>2. ASSUME NEW p \in Procs
        PROVE  (ProcInv(p)' <=> ProcInv(p)) /\ (DoneInv(p)' <=> DoneInv(p))
    BY <1>3, SameCommands DEF vars, ProcInv, DoneInv, NotLinked, Made, Kind
  <2> QED
    BY <2>1, <2>2 DEF IInv
<1> QED
  BY <1>1, <1>2, <1>3 DEF Next

-----------------------------------------------------------------------------
(* The theorems                                                            *)

(* Each invocation finds its files as it left them, or is not alone with   *)
(* them.                                                                   *)
THEOREM Inductive == Spec => []IInv
<1>1. Init => IInv
  BY InitIInv
<1>2. IInv /\ [Next]_vars => IInv'
  BY NextIInv
<1> QED
  BY <1>1, <1>2, PTL DEF Spec

(* The variables have their types, and code is only generated for a source *)
(* without errors.                                                         *)
THEOREM TypeCorrect == Spec => []TypeOK
<1>1. IInv => TypeOK
  BY DEF IInv
<1> QED
  BY <1>1, Inductive, PTL

(* dq-run and the test runner never end with 0 without having run a        *)
(* program.                                                                *)
THEOREM NoEmptySuccess == Spec => []ZeroMeansRan
<1>1. IInv => ZeroMeansRan
  BY DEF IInv, DoneInv, ZeroMeansRan
<1> QED
  BY <1>1, Inductive, PTL

(* A compile with status 0 has left its program or object file, unless it  *)
(* is one of NotLinked or shares its files.                                *)
THEOREM OutputLeft == Spec => []OutputIsThere
<1>1. IInv => OutputIsThere
  <2>1. ASSUME IInv, NEW p \in Procs, pc[p] = "exit", status[p] = 0, Alone(p), ~NotLinked(p)
        PROVE  fs[Output(p)].kind = Kind(p) /\ fs[Output(p)].text = text[p]
    <3>1. fs[Output(p)] = Made(p, Kind(p))
      BY <2>1 DEF IInv, ProcInv
    <3> QED
      BY <3>1 DEF Made, Content
  <2> QED
    BY <2>1 DEF OutputIsThere, Output, Kind
<1> QED
  BY <1>1, Inductive, PTL

(* The program that is run is the one that was just compiled.              *)
THEOREM OwnProgramRuns == Spec => []OwnProgram
<1>1. IInv => OwnProgram
  BY DEF IInv, DoneInv, OwnProgram
<1> QED
  BY <1>1, Inductive, PTL

(* Only an output is written over a source.                                *)
THEOREM SourcesKept == Spec => SourceKept
<1> DEFINE Kept == \A f \in Files :
              fs[f].kind = "source" /\ fs'[f].kind # "source" =>
                \E p \in Procs : \/ Options(p).explicit_output = f
                                 \/ f \in {BaseName(Options(p).in), ObjectName(Options(p).in)}
<1>1. ASSUME IInv, [Next]_vars
      PROVE  [Kept]_vars
  <2>1. CASE Edit
    <3>1. PICK f \in Sources :
            /\ fs[f].kind = "source"
            /\ fs' = [fs EXCEPT ![f] = [fs[f] EXCEPT !.text.version = version']]
      BY <2>1 DEF Edit, Write
    <3>2. DOMAIN fs = Files /\ \A g \in Files : DOMAIN fs[g] = Fields
      BY <1>1 DEF IInv, TypeOK, ShapeInv
    <3>3. \A g \in Files : fs'[g].kind = fs[g].kind
      BY <3>1, <3>2 DEF Fields
    <3> QED
      BY <3>3
  <2>2. ASSUME NEW p \in Procs, Step(p)
        PROVE  Kept
    <3>1. Frame(p)
      BY <1>1, <2>2, StepKeeps
    <3>2. SUFFICES ASSUME NEW f \in Files, fs[f].kind = "source", fs'[f].kind # "source"
                   PROVE  \/ Options(p).explicit_output = f
                          \/ f \in {BaseName(Options(p).in), ObjectName(Options(p).in)}
      OBVIOUS
    <3>3. f \in Writes(p)
      BY <3>1, <3>2 DEF Frame
    <3> QED
      BY <3>3 DEF Writes, OutFilename, LinkOutput
  <2> QED
    BY <1>1, <2>1, <2>2 DEF Next
<1>2. Spec => [][Kept]_vars
  BY <1>1, Inductive, PTL DEF Spec
<1> QED
  BY <1>2 DEF SourceKept

=============================================================================
