------------------------------- MODULE Driver -------------------------------
(***************************************************************************)
(* The programs that compile and run a file, on a common file system:      *)
(* dq-comp, dq-run, which calls dq-comp and runs what it left, and the     *)
(* test runner's compile-and-run.  Several may be under way at once, files *)
(* may be edited meanwhile, and any of them may be killed.                 *)
(*                                                                         *)
(* An invocation is a tool and its arguments.  dq-comp parses them, reads  *)
(* the source, parses it, generates code, writes the object file and links *)
(* or renames it; each of these is an action.  What a source means is not  *)
(* modelled: how many errors it has and whether it has a main is open.     *)
(*                                                                         *)
(* A path is the sequence of the parts of its name, <<"x", "dq">> is x.dq. *)
(* An argument is a path or a switch, <<"-o">>.                            *)
(***************************************************************************)
EXTENDS Naturals, Sequences, SequencesExt

CONSTANTS Procs,        \* the invocations
          Commands,     \* the tools and arguments they may have
          Files,        \* the paths
          Sources,      \* those that hold a source at first
          Programs,     \* those that may hold an older program at first
          MaxVersion,   \* bound on the versions of a source
          MaxErrors,    \* bound on the errors of a compile
          StatusMod     \* an exit status keeps 8 bits, 256

ASSUME SourcesAssumption == Sources \subseteq Files /\ Programs \subseteq Files
ASSUME MaxErrorsAssumption == MaxErrors \in Nat \ {0}
ASSUME StatusAssumption == StatusMod \in Nat /\ StatusMod > 1

VARIABLES cmd,        \* of an invocation: its tool and arguments
          pc,         \* its next step
          text,       \* the source it has read, a path and a version
          has_main,   \* the source declares main
          errorcnt,   \* its errors
          status,     \* the exit status of its dq-comp
          kept,       \* it failed to rename the object file
          ran,        \* the program it started, as the file was then
          result,     \* its own exit status
          fs,         \* what the files hold
          version     \* of the sources, counting the edits

vars == <<cmd, pc, text, has_main, errorcnt, status, kept, ran, result, fs, version>>

NoText  == [path |-> <<>>, version |-> 0]
Content(kind, t, def, main) == [kind |-> kind, text |-> t, def |-> def, main |-> main]
Nothing == Content("none", NoText, FALSE, FALSE)

-----------------------------------------------------------------------------
(* ParseCmdLineArgs                                                        *)

Switches == {<<"-o">>, <<"-c">>, <<"-g">>, <<"-D">>, <<"-D0">>, <<"--version">>, <<"-?">>, <<"--">>}
IsSwitch(arg) == arg \in Switches

NoOptions == [in |-> <<>>, explicit_output |-> <<>>, has_dash_o |-> FALSE, compile_only |-> FALSE,
              print_version |-> FALSE, def |-> FALSE, value |-> FALSE, errorcnt |-> 0]

(* A second positional argument is the name of the output, unless there is *)
(* one already.                                                            *)
SecondArg(o, arg) ==
  IF o.has_dash_o THEN [o EXCEPT !.errorcnt = 1]
  ELSE [o EXCEPT !.explicit_output = arg, !.has_dash_o = TRUE]

(* -D0 is a -D with a bad name or value, -? a switch dq-comp does not      *)
(* know, like --; -g stands for all that have no effect on files.          *)
ParseArg(o, arg) ==
  IF o.errorcnt > 0 THEN o
  ELSE IF o.value
  THEN [o EXCEPT !.explicit_output = arg, !.has_dash_o = TRUE, !.value = FALSE]
  ELSE
  CASE arg = <<"-o">> -> [o EXCEPT !.value = TRUE]
    [] arg = <<"-c">> -> [o EXCEPT !.compile_only = TRUE]
    [] arg = <<"-D">> -> [o EXCEPT !.def = TRUE]
    [] arg = <<"--version">> -> [o EXCEPT !.print_version = TRUE]
    [] arg \in {<<"-D0">>, <<"-?">>, <<"--">>} -> [o EXCEPT !.errorcnt = 1]
    [] arg = <<"-g">> -> o
    [] OTHER -> IF o.in = <<>> THEN [o EXCEPT !.in = arg] ELSE SecondArg(o, arg)

ParseCmdLineArgs(args) ==
  LET o == FoldLeft(ParseArg, NoOptions, args)
  IN IF o.errorcnt = 0 /\ (o.value \/ (~o.print_version /\ o.in = <<>>))
     THEN [o EXCEPT !.errorcnt = 1] ELSE o

(* The input's name without its extension .dq, if it has that one.         *)
BaseName(in) == IF Len(in) > 1 /\ Last(in) = "dq" THEN Front(in) ELSE in
ObjectName(in) == Append(BaseName(in), "o")

OutFilename(o) == IF o.compile_only /\ o.has_dash_o THEN o.explicit_output ELSE ObjectName(o.in)

(* Mutant: the extension is not dropped                                    *)
OutputIsInput(o) == IF o.has_dash_o THEN o.explicit_output ELSE o.in

LinkOutput(o) == IF o.has_dash_o THEN o.explicit_output ELSE BaseName(o.in)

-----------------------------------------------------------------------------
(* The arguments of dq-run                                                 *)

NoRunOptions == [in |-> <<>>, output_filename |-> <<>>, has_dash_o |-> FALSE, value |-> FALSE,
                 program_mode |-> FALSE, ok |-> TRUE, compiler_args |-> <<>>]

(* What follows the file, or --, is for the program.                       *)
ParseRunArg(o, arg) ==
  IF ~o.ok \/ o.program_mode THEN o
  ELSE IF o.value
  THEN [o EXCEPT !.output_filename = arg, !.has_dash_o = TRUE, !.value = FALSE,
                 !.compiler_args = Append(@, arg)]
  ELSE IF arg = <<"--">> THEN [o EXCEPT !.program_mode = TRUE]
  ELSE IF o.in # <<>> THEN o
  ELSE IF arg = <<"-c">> THEN [o EXCEPT !.ok = FALSE]
  ELSE [o EXCEPT !.compiler_args = Append(@, arg),
                 !.value = (arg = <<"-o">>),
                 !.in = IF IsSwitch(arg) THEN @ ELSE arg]

ParseArgs(args) ==
  LET o == FoldLeft(ParseRunArg, NoRunOptions, args)
  IN [o EXCEPT !.ok = @ /\ ~o.value /\ o.in # <<>>,
               !.output_filename = IF o.has_dash_o THEN @ ELSE BaseName(o.in)]

(* What an invocation gives to dq-comp, and what it runs afterwards.  The  *)
(* test runner names the output after the file.                            *)
ExeName(in) == Append(IF Len(in) > 1 THEN Front(in) ELSE in, "exe")

CompilerArgs(c) == CASE c.tool = "dq-run" -> ParseArgs(c.args).compiler_args
                     [] c.tool = "atrunner" -> <<c.args[1], <<"-o">>, ExeName(c.args[1])>>
                     [] OTHER -> c.args

RunFilename(c) == IF c.tool = "dq-run" THEN ParseArgs(c.args).output_filename
                  ELSE ExeName(c.args[1])

OptionsOf(c) == ParseCmdLineArgs(CompilerArgs(c))

(* Arguments that make dq-comp start a compile.                            *)
VersionAsked(c) == <<"--version">> \in Range(CompilerArgs(c))
Compiles(c) == ~VersionAsked(c) /\ OptionsOf(c).errorcnt = 0

(* A command is a tool and arguments, and its files are among Files; the   *)
(* test runner names a file, not a switch.                                 *)
ASSUME CommandsAssumption == \A c \in Commands :
  /\ c.tool \in {"dq-comp", "dq-run", "atrunner"}
  /\ c.args \in Seq(Seq(STRING))
  /\ c.tool = "atrunner" => Len(c.args) = 1 /\ Len(c.args[1]) > 0 /\ ~IsSwitch(c.args[1])
  /\ Compiles(c) => LET o == OptionsOf(c)
                    IN  {o.in, OutFilename(o), LinkOutput(o)} \subseteq Files

Options(p) == OptionsOf(cmd[p])
Runs(p) == cmd[p].tool # "dq-comp"

-----------------------------------------------------------------------------

Init == /\ cmd \in [Procs -> Commands]
        /\ pc = [p \in Procs |-> "start"]
        /\ text = [p \in Procs |-> NoText]
        /\ has_main = [p \in Procs |-> FALSE]
        /\ errorcnt = [p \in Procs |-> 0]
        /\ status = [p \in Procs |-> 0]
        /\ kept = [p \in Procs |-> FALSE]
        /\ ran = [p \in Procs |-> Nothing]
        /\ result = [p \in Procs |-> 0]
        /\ \E old \in SUBSET Programs :
             fs = [f \in Files |->
                     IF f \in Sources THEN Content("source", [path |-> f, version |-> 1], FALSE, FALSE)
                     ELSE IF f \in old THEN Content("program", NoText, FALSE, TRUE)
                     ELSE Nothing]
        /\ version = 1

Goto(p, step) == pc' = [pc EXCEPT ![p] = step]
Write(f, content) == fs' = [fs EXCEPT ![f] = content]
compvars == <<text, has_main, errorcnt, status, kept>>
toolvars == <<cmd, ran, result, version>>

(* Mutant: an exit status of any size                                      *)
WholeExit(p, n) == /\ errorcnt' = [errorcnt EXCEPT ![p] = n]
                   /\ status' = [status EXCEPT ![p] = n]
                   /\ Goto(p, "exit")

(* The number of errors is the exit status of dq-comp.                     *)
Exit(p, n) == /\ errorcnt' = [errorcnt EXCEPT ![p] = n]
              /\ status' = [status EXCEPT ![p] = n % StatusMod]
              /\ Goto(p, "exit")

(* Mutant: an exception is caught and forgotten                            *)
Forgotten(p) == UNCHANGED status /\ Goto(p, "exit")

(* A signal or an exception that nobody catches.                           *)
Abort(p) == status' = [status EXCEPT ![p] = 1] /\ Goto(p, "exit")

(* dq-run checks its own arguments first.                                  *)
StartTool(p) ==
  /\ pc[p] = "start"
  /\ IF cmd[p].tool = "dq-run" /\ ~ParseArgs(cmd[p].args).ok
     THEN result' = [result EXCEPT ![p] = 1] /\ Goto(p, "done")
     ELSE UNCHANGED result /\ Goto(p, "args")
  /\ UNCHANGED <<compvars, cmd, ran, version, fs>>

(* The compiler cannot be started.                                         *)
CompilerNotRun(p) ==
  /\ pc[p] = "args"
  /\ Runs(p)
  /\ Goto(p, "done")
  /\ result' = [result EXCEPT ![p] = 1]
  /\ UNCHANGED <<compvars, cmd, ran, version, fs>>

(* main looks for --version before all else.                               *)
StartCompiler(p) ==
  /\ pc[p] = "args"
  /\ IF VersionAsked(cmd[p]) THEN Exit(p, 0)
     ELSE IF ~Compiles(cmd[p]) THEN Exit(p, 1)
     ELSE Goto(p, "init") /\ UNCHANGED <<errorcnt, status>>
  /\ UNCHANGED <<text, has_main, kept, toolvars, fs>>

(* scf->Init: the file is read, or cannot be.                              *)
ScfInit(p) ==
  /\ pc[p] = "init"
  /\ \/ Exit(p, 1) /\ UNCHANGED text
     \/ /\ fs[Options(p).in].kind # "none"
        /\ text' = [text EXCEPT ![p] = fs[Options(p).in].text]
        /\ Goto(p, "parse")
        /\ UNCHANGED <<errorcnt, status>>
  /\ UNCHANGED <<has_main, kept, toolvars, fs>>

(* ParseModule and GenerateIr.                                             *)
ParseModule(p) == \E n \in 0..MaxErrors, main \in BOOLEAN :
  /\ pc[p] = "parse"
  /\ has_main' = [has_main EXCEPT ![p] = main]
  /\ IF n > 0 THEN Exit(p, n) ELSE Goto(p, "emit") /\ UNCHANGED <<errorcnt, status>>
  /\ UNCHANGED <<text, kept, toolvars, fs>>

(* EmitObject opens the file, and throws if it cannot; then it writes.     *)
OpenObject(p) ==
  /\ pc[p] = "emit"
  /\ \/ Abort(p) /\ UNCHANGED fs
     \/ /\ Write(OutFilename(Options(p)), Content("partial", NoText, FALSE, FALSE))
        /\ Goto(p, "write")
        /\ UNCHANGED status
  /\ UNCHANGED <<text, has_main, errorcnt, kept, toolvars>>

WriteObject(p) ==
  /\ pc[p] = "write"
  /\ Write(OutFilename(Options(p)), Content("object", text[p], Options(p).def, has_main[p]))
  /\ IF Options(p).compile_only \/ (~has_main[p] /\ ~Options(p).has_dash_o)
     THEN Exit(p, 0)
     ELSE Goto(p, IF has_main[p] THEN "link" ELSE "rename") /\ UNCHANGED <<errorcnt, status>>
  /\ UNCHANGED <<text, has_main, kept, toolvars>>

(* system("gcc ..."): the object file is what it is by then.               *)
Linkable(c) == c.kind = "object" /\ c.main

(* Mutant: the result of the linker is not looked at                       *)
LinkIgnored(p) == Exit(p, 0)

LinkFails(p) == Exit(p, 1)

Link(p) ==
  /\ pc[p] = "link"
  /\ LET object == fs[OutFilename(Options(p))]
         target == LinkOutput(Options(p))
     IN \/ /\ Linkable(object)
           /\ target # OutFilename(Options(p))
           /\ Write(target, [object EXCEPT !.kind = "program"])
           /\ Exit(p, 0)
        \/ LinkFails(p) /\ (UNCHANGED fs \/ Write(target, Nothing))
  /\ UNCHANGED <<text, has_main, kept, toolvars>>

(* No main: the object file is the output.  Whether the rename succeeds is *)
(* not looked at.                                                          *)
Rename(p) ==
  /\ pc[p] = "rename"
  /\ LET from == OutFilename(Options(p))
         to == LinkOutput(Options(p))
     IN \/ from = to /\ UNCHANGED <<fs, kept>>
        \/ /\ from # to
           /\ fs[from].kind # "none"
           /\ fs' = [fs EXCEPT ![to] = fs[from], ![from] = Nothing]
           /\ UNCHANGED kept
        \/ /\ from # to
           /\ kept' = [kept EXCEPT ![p] = TRUE]
           /\ UNCHANGED fs
  /\ Exit(p, 0)
  /\ UNCHANGED <<text, has_main, toolvars>>

(* While gcc runs it is not killed with dq-comp: it ends its work.         *)
Kill(p) ==
  /\ pc[p] \in {"init", "parse", "emit", "write", "link", "rename"}
  /\ \/ UNCHANGED fs
     \/ /\ pc[p] = "link"
        /\ Linkable(fs[OutFilename(Options(p))])
        /\ Write(LinkOutput(Options(p)), [fs[OutFilename(Options(p))] EXCEPT !.kind = "program"])
  /\ Abort(p)
  /\ UNCHANGED <<text, has_main, errorcnt, kept, toolvars>>

CompilerExits(p) ==
  /\ pc[p] = "exit"
  /\ IF Runs(p) /\ status[p] = 0
     THEN Goto(p, "run") /\ UNCHANGED result
     ELSE Goto(p, "done") /\ result' = [result EXCEPT ![p] = status[p]]
  /\ UNCHANGED <<compvars, cmd, ran, version, fs>>

(* Mutant: dq-run ends with 0 although the program could not be started    *)
RunFailsUnseen(p) == UNCHANGED <<ran, result>>

RunFails(p) == UNCHANGED ran /\ result' = [result EXCEPT ![p] = 1]

(* RunInteractiveProcess: pipe, fork or exec fails, which yields a code    *)
(* below zero, or the program runs and ends with a code or by a signal.    *)
RunProgram(p) ==
  /\ pc[p] = "run"
  /\ \/ RunFails(p)
     \/ \E code \in 0..(StatusMod - 1) :
          /\ fs[RunFilename(cmd[p])].kind = "program"
          /\ ran' = [ran EXCEPT ![p] = fs[RunFilename(cmd[p])]]
          /\ result' = [result EXCEPT ![p] = code]
  /\ Goto(p, "done")
  /\ UNCHANGED <<compvars, cmd, version, fs>>

(* Somebody saves a source.                                                *)
Edit == \E f \in Sources :
  /\ fs[f].kind = "source"
  /\ version < MaxVersion
  /\ version' = version + 1
  /\ Write(f, [fs[f] EXCEPT !.text.version = version'])
  /\ UNCHANGED <<compvars, cmd, pc, ran, result>>

Step(p) == \/ StartTool(p) \/ CompilerNotRun(p) \/ StartCompiler(p) \/ ScfInit(p)
           \/ ParseModule(p) \/ OpenObject(p) \/ WriteObject(p) \/ Link(p) \/ Rename(p)
           \/ Kill(p) \/ CompilerExits(p) \/ RunProgram(p)

Next == Edit \/ \E p \in Procs : Step(p)

Spec == Init /\ [][Next]_vars

-----------------------------------------------------------------------------
(* Properties                                                              *)

TypeOK == /\ cmd \in [Procs -> Commands]
          /\ pc \in [Procs -> {"start", "args", "init", "parse", "emit", "write", "link",
                               "rename", "exit", "run", "done"}]
          /\ errorcnt \in [Procs -> 0..MaxErrors]
          /\ status \in [Procs -> 0..(StatusMod - 1)]
          /\ result \in [Procs -> 0..(StatusMod - 1)]
          /\ DOMAIN fs = Files
          /\ \A p \in Procs : pc[p] \in {"emit", "write", "link", "rename"} => errorcnt[p] = 0

(* The files an invocation may write.                                      *)
Writes(p) == {OutFilename(Options(p)), LinkOutput(Options(p))}

(* Two invocations that have their own base name and output.               *)
Apart(p, q) == /\ Writes(p) \cap (Writes(q) \cup {Options(q).in}) = {}
               /\ Writes(q) \cap (Writes(p) \cup {Options(p).in}) = {}

Alone(p) == \A q \in Procs \ {p} : Apart(p, q)

(* The compiles that end with status 0 and leave no new program: nothing   *)
(* but the version was asked for; as many errors as the exit status has    *)
(* values; there is no main, and the object file is not, or could not be,  *)
(* renamed.                                                                *)
NotLinked(p) == \/ VersionAsked(cmd[p])
                \/ errorcnt[p] >= StatusMod
                \/ /\ ~Options(p).compile_only /\ ~has_main[p]
                   /\ ~Options(p).has_dash_o \/ kept[p]

(* The program dq-run or the test runner starts is the one that was just   *)
(* compiled from the source as it was read, with the same defines, unless  *)
(* it is one of NotLinked, when a program of an earlier compile may be     *)
(* started; provided that no other invocation uses the same files.         *)
OwnProgram == \A p \in Procs :
  pc[p] = "done" /\ ran[p] # Nothing /\ Alone(p) /\ ~NotLinked(p) =>
    ran[p].text = text[p] /\ ran[p].def = Options(p).def

(* A compile that ends with status 0 has left its output: a program or an  *)
(* object file of the source that was read.                                *)
OutputIsThere == \A p \in Procs :
  LET o == Options(p)
      linked == ~o.compile_only /\ has_main[p]
      out == fs[IF o.compile_only THEN OutFilename(o) ELSE LinkOutput(o)]
  IN pc[p] = "exit" /\ status[p] = 0 /\ Alone(p) /\ ~NotLinked(p) =>
       out.kind = (IF linked THEN "program" ELSE "object") /\ out.text = text[p]

(* dq-run ends with 0 only if a program ran.                               *)
ZeroMeansRan == \A p \in Procs :
  pc[p] = "done" /\ Runs(p) /\ result[p] = 0 => ran[p].kind = "program"

(* A source is overwritten only as an output that was asked for, or if it  *)
(* has the name of an object file or that of the program by default, which *)
(* is that of a source whose name does not end in .dq.                     *)
SourceKept == [][\A f \in Files :
  fs[f].kind = "source" /\ fs'[f].kind # "source" =>
    \E p \in Procs : \/ Options(p).explicit_output = f
                     \/ f \in {BaseName(Options(p).in), ObjectName(Options(p).in)}]_vars

=============================================================================
