------------------------------ MODULE MCDriver ------------------------------
(* The command lines: each way to name the output, with and without a      *)
(* switch, right and wrong ones, of the three tools.                       *)
EXTENDS Driver, TLC
x == <<"x", "dq">>   y == <<"y", "dq">>   plain == <<"x">>   a == <<"a">>
o == <<"-o">>
Cmd(tool, args) == [tool |-> tool, args |-> args]
MCCommands ==
  { Cmd("dq-comp", args) : args \in
      { <<x>>, <<x, a>>, <<o, a, x, <<"-c">> >>,
        <<x, o, <<"x", "o">> >>, <<plain>>, <<x, <<"-D0">> >>, <<o, a, x, y>>, <<y, o>> } }
  \cup { Cmd("dq-run", args) : args \in
      { <<x, <<"-o">>, a>>, << <<"-D">>, x>>, << <<"-c">>, x>>, <<o, <<"-c">>, y>>,
        << <<"--version">>, x, a>>, << <<"--">>, x>>, <<plain>>, <<o, y, o, a, x>> } }
  \cup { Cmd("atrunner", <<f>>) : f \in {x, y} }
Symmetry == Permutations(Procs)
MCSources == {x, y, plain}
MCPrograms == {a, <<"x", "exe">>}
MCFiles == MCSources \cup MCPrograms \cup
             {<<"y">>, <<"x", "o">>, <<"y", "o">>, <<"y", "exe">>, <<"-c">>}
=============================================================================
