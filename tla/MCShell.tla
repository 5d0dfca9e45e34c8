------------------------------ MODULE MCShell ------------------------------
(* Lines that meet in pipes, in children and in conditionals.              *)
EXTENDS ShellMeaning

Op(op, c1, c2) == [op |-> op, cmd1 |-> c1, cmd2 |-> c2]
Prog(reads, writes, status) ==
    [op |-> "prog", reads |-> reads, writes |-> writes, status |-> status,
     in |-> FALSE, out |-> FALSE]
Set(name, string) ==
    [op |-> "set", name |-> name, string |-> string, expand |-> FALSE]
Copy(name, other) ==
    [op |-> "set", name |-> name, string |-> other, expand |-> TRUE]
Cd(dir, ok) == [op |-> "cd", dir |-> dir, ok |-> ok]

exit  == [op |-> "exit"]
true  == Prog(0, 0, 0)
false == Prog(0, 0, 1)
minus == Prog(0, 0, 255)
yes   == Prog(0, 2, 0)
cat   == Prog(All, 1, 0)
head  == Prog(1, 1, 0)
file  == [yes EXCEPT !.out = TRUE]
input == [cat EXCEPT !.in = TRUE]

TheLines ==
    { Op("pipe", yes, cat), Op("pipe", yes, head), Op("pipe", yes, false),
      Op("pipe", Op("pipe", yes, cat), cat), Op("pipe", yes, Op("pipe", cat, cat)),
      Op("pipe", file, cat), Op("pipe", yes, input),
      Op("pipe", Op("seq", yes, true), Op("nz", false, cat)),
      Op("pipe", exit, cat), Op("par", Set("X", "b"), Cd("b", FALSE)),
      Op("par", Op("pipe", yes, head), true),
      Op("nz", Op("pipe", yes, exit), Set("X", "b")),
      Op("z", Op("par", false, true), Copy("Y", "X")),
      Op("seq", exit, Set("X", "a")), Op("nz", exit, Cd("a", TRUE)), exit,
      Op("z", minus, exit), Op("seq", Set("X", "a"), Copy("Y", "X")),
      Op("seq", Op("nz", Cd("b", FALSE), Cd("a", TRUE)), Op("z", true, false)) }

\* The commands of a line, and the depth of its tree.
RECURSIVE Within(_), DepthOf(_)
Within(c) == {c} \cup IF c.op \in Pairs THEN Within(c.cmd1) \cup Within(c.cmd2) ELSE {}
DepthOf(c) ==
    IF c.op \notin Pairs THEN 0
    ELSE LET m == DepthOf(c.cmd1)
             n == DepthOf(c.cmd2)
         IN  1 + IF m > n THEN m ELSE n

TheCommands == UNION {Within(c) : c \in TheLines}
TheDepth == [c \in TheCommands |-> DepthOf(c)]
TheStrings == {"", "a", "b"}
TheNames == {"X", "Y", "cwd"}
ThePids == 1 .. 8
ThePipes == 1 .. 2
=============================================================================
