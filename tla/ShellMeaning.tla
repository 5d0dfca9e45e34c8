---------------------------- MODULE ShellMeaning ----------------------------
(***************************************************************************)
(* What a line means, by recursion over its tree, and that this is what    *)
(* the processes of Shell.tla come back with.                              *)
(***************************************************************************)
EXTENDS Shell

CONSTANTS
    Commands,   \* the trees of the lines and all commands in them
    Depth,      \* how deep the tree of each is
    Strings     \* what a variable can hold

Pairs == {"seq", "par", "nz", "z", "pipe"}
Envs == [Names -> Strings]

\* What parse_line makes are finite trees.
ASSUME CommandsAssumption ==
    /\ "cwd" \in Names /\ "" \in Strings
    /\ Lines \subseteq Commands /\ Depth \in [Commands -> Nat]
    /\ \A c \in Commands :
        /\ c.op \in Pairs \cup {"exit", "cd", "set", "prog"}
        /\ c.op \in Pairs => \A d \in {c.cmd1, c.cmd2} : d \in Commands /\ Depth[d] < Depth[c]
        /\ c.op = "cd" => c.dir \in Strings
        /\ c.op = "set" => c.name \in Names /\ c.string \in IF c.expand THEN Names ELSE Strings
        /\ c.op = "prog" => c.status \in Nat

Came(ret, env) == [ret |-> ret, env |-> env]

\* What a command comes back with and does to the variables, run alone: one
\* that the shell runs itself or a program,
Simple(c, env) ==
    CASE c.op = "exit" -> Came(SHELL_EXIT, env)
      [] c.op = "cd"   -> IF c.ok THEN Came(0, [env EXCEPT !["cwd"] = c.dir]) ELSE Came(1, env)
      [] c.op = "set"  -> Came(0, [env EXCEPT ![c.name] = get_word(c, env)])
      [] c.op = "prog" -> Came(Exited(c.status), env)

\* and two under an operator, of which one means f and the other g. What runs
\* in a child changes nothing here and comes back as true or false.
Paired(op, f, g, env) ==
    IF op \in {"par", "pipe"} THEN Came(IF g[env].ret % 256 = 0 THEN 0 ELSE 1, env)
    ELSE IF op = "seq" \/ (op = "z" /\ f[env].ret = 0) \/ (op = "nz" /\ f[env].ret # 0)
         THEN g[f[env].env]
    ELSE f[env]

Meaning[c \in Commands] ==
    [env \in Envs |-> IF c.op \in Pairs THEN Paired(c.op, Meaning[c.cmd1], Meaning[c.cmd2], env)
                      ELSE Simple(c, env)]

\* Whatever the order in which children run, read, write and end, a line comes
\* back with what its tree means, leaves the variables and the directory so,
\* and the shell is left only by an exit outside of pipes and parallel runs.
Result ==
    AtRest /\ lines > 0 =>
        /\ Came(proc[1].ret, proc[1].env) = Meaning[line][before]
        /\ (proc[1].kind = "left") <=> (proc[1].ret = SHELL_EXIT)
=============================================================================
